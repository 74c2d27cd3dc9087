CONSTANTS
    v = v
    w = w
    Last = 3
    Onnx = 1
    Tokenizer = 3
    Workers = {v, w}
SPECIFICATION Spec
INVARIANTS
    TypeOK
    ExitMeansComplete
    WorkersReadWholeFiles
