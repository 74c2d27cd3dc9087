----------------------------- MODULE MCArtifacts -----------------------------
(* A small instance of Artifacts for TLC: model.onnx, config.json and       *)
(* tokenizer.json, in the order of FILES.                                   *)
EXTENDS Artifacts

CONSTANTS v, w
=============================================================================
