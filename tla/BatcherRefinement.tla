-------------------------- MODULE BatcherRefinement --------------------------
(***************************************************************************)
(* The batcher implements InferenceQueue, for any requests, sizes and       *)
(* limits: every step of it is a step of the queue or leaves it alone.      *)
(*                                                                         *)
(* What is proved of the batcher's line of requests rests on it: nobody is  *)
(* forgotten, requests are served in the order of their arrival, and what   *)
(* the executor is given keeps to the limits.                               *)
(***************************************************************************)
EXTENDS BatcherProofs

\* Where the envelopes are while the loop stands at a program point: nothing is
\* on the executor but in the last phases of a batch, nothing is collected but
\* in the first, and the loop fetches only when nothing is deferred.
Places ==
    /\ pc \notin {"filter", "exec", "deliver"} => running = <<>>
    /\ pc \notin {"collect", "wait", "filter"} => batch = <<>>
    /\ pc \in {"get", "collect", "wait"} => nextEnvelope = None
    /\ pc = "exec" => running # <<>>

Invariant == Inductive /\ Places

-----------------------------------------------------------------------------
(* Sequences.                                                               *)

LEMMA AppendMoves ==
    ASSUME NEW S, NEW a \in Seq(S), NEW b \in Seq(S), NEW e \in S
    PROVE  a \o Append(b, e) = Append(a \o b, e)
<1> DEFINE s == a \o Append(b, e)
           t == Append(a \o b, e)
<1>1. s \in Seq(S) /\ t \in Seq(S) /\ Len(s) = Len(t)
  OBVIOUS
<1>2. \A k \in 1..Len(s) : s[k] = t[k]
  BY <1>1
<1> HIDE DEF s, t
<1>3. s = t
  BY <1>1, <1>2, SeqEqual, Zenon
<1> QED BY <1>3 DEF s, t

LEMMA HeadOfConcat ==
    ASSUME NEW S, NEW a \in Seq(S), NEW b \in Seq(S), a # <<>>
    PROVE  /\ a \o b # <<>>
           /\ Head(a \o b) = Head(a)
           /\ Tail(a \o b) = Tail(a) \o b
<1>1. a \o b # <<>> /\ Head(a \o b) = Head(a)
  OBVIOUS
<1>2. Tail(a \o b) \in Seq(S) /\ Tail(a) \o b \in Seq(S)
  BY <1>1
<1>3. Len(Tail(a \o b)) = Len(Tail(a) \o b)
  BY <1>1
<1>4. \A k \in 1..Len(Tail(a \o b)) : Tail(a \o b)[k] = (Tail(a) \o b)[k]
  BY <1>1
<1> QED BY <1>1, <1>2, <1>3, <1>4, SeqEqual, Zenon

LEMMA HeadMoves ==
    ASSUME NEW S, NEW a \in Seq(S), NEW b \in Seq(S), b # <<>>
    PROVE  Append(a, Head(b)) \o Tail(b) = a \o b
<1>1. Head(b) \in S /\ Append(a, Head(b)) \in Seq(S) /\ Tail(b) \in Seq(S)
  OBVIOUS
<1> DEFINE s == Append(a, Head(b)) \o Tail(b)
           t == a \o b
<1>2. s \in Seq(S) /\ t \in Seq(S) /\ Len(s) = Len(t)
  BY <1>1
<1>3. \A k \in 1..Len(s) : s[k] = t[k]
  BY <1>1, <1>2
<1> HIDE DEF s, t
<1>4. s = t
  BY <1>2, <1>3, SeqEqual, Zenon
<1> QED BY <1>4 DEF s, t

\* Dropping the first n elements, and the one that follows them.
LEMMA PrefixDropped ==
    ASSUME NEW S, NEW a \in Seq(S), NEW b \in Seq(S)
    PROVE  SubSeq(a \o b, Len(a) + 1, Len(a \o b)) = b
<1> DEFINE t == SubSeq(a \o b, Len(a) + 1, Len(a \o b))
<1>1. t \in Seq(S) /\ Len(t) = Len(b)
  OBVIOUS
<1>2. \A k \in 1..Len(t) : t[k] = b[k]
  BY <1>1
<1> HIDE DEF t
<1>3. t = b
  BY <1>1, <1>2, SeqEqual, Zenon
<1> QED BY <1>3 DEF t

LEMMA OneDropped ==
    ASSUME NEW S, NEW a \in Seq(S), NEW b \in Seq(S), b # <<>>,
           NEW i, i = Len(a) + 1
    PROVE  /\ SubSeq(a \o b, 1, i - 1) \o SubSeq(a \o b, i + 1, Len(a \o b))
                = a \o Tail(b)
           /\ (a \o b)[i] = Head(b)
           /\ i \in 1..Len(a \o b)
<1> DEFINE before == SubSeq(a \o b, 1, i - 1)
           after == SubSeq(a \o b, i + 1, Len(a \o b))
           front == Append(a, Head(b))
<1>1. before \in Seq(S) /\ Len(before) = Len(a)
  OBVIOUS
<1>2. \A k \in 1..Len(before) : before[k] = a[k]
  BY <1>1
<1>3. Tail(b) \in Seq(S) /\ front \in Seq(S) /\ Len(front) = i
  OBVIOUS
<1>4. front \o Tail(b) = a \o b
  BY HeadMoves, Zenon
<1>5. (a \o b)[i] = Head(b) /\ i \in 1..Len(a \o b)
  OBVIOUS
<1> HIDE DEF before, front
<1>6. before = a
  BY <1>1, <1>2, SeqEqual, Zenon
<1>7. SubSeq(front \o Tail(b), Len(front) + 1, Len(front \o Tail(b))) = Tail(b)
  BY <1>3, PrefixDropped, Zenon
<1>8. after = Tail(b)
  BY <1>3, <1>4, <1>7, Zenon
<1> HIDE DEF after
<1>9. before \o after = a \o Tail(b)
  BY <1>6, <1>8, Zenon
<1> QED BY <1>5, <1>9 DEF before, after

\* The second of three sequences, and what follows it, as one.
LEMMA SecondEmpty ==
    ASSUME NEW a \in Seq(Requests), NEW c \in Seq(Requests), NEW d \in Seq(Requests)
    PROVE  a \o <<>> \o c \o d = a \o (c \o d)
<1>1. a \o <<>> = a
  BY ConcatEmptySeq
<1>2. (a \o c) \o d = a \o (c \o d)
  BY ConcatAssociative, SMTT(20)
<1> QED BY <1>1, <1>2

\* Four sequences, joined from the left and from the right.
Joined(a, b, c, d) == a \o b \o c \o d
Nested(a, b, c, d) == a \o (b \o (c \o d))

LEMMA Regrouped ==
    ASSUME NEW a \in Seq(Requests), NEW b \in Seq(Requests),
           NEW c \in Seq(Requests), NEW d \in Seq(Requests)
    PROVE  Joined(a, b, c, d) = Nested(a, b, c, d)
<1> DEFINE s == a \o b \o c \o d
           m == b \o (c \o d)
           t == a \o m
<1>1. s \in Seq(Requests) /\ Len(s) = Len(a) + Len(b) + Len(c) + Len(d)
  OBVIOUS
<1>2. m \in Seq(Requests) /\ Len(m) = Len(b) + Len(c) + Len(d)
  OBVIOUS
<1>3. t \in Seq(Requests) /\ Len(t) = Len(s)
  BY <1>1, <1>2
<1>4. \A k \in 1..Len(s) : s[k] = t[k]
  BY <1>1, <1>2
<1> HIDE DEF s, t
<1>5. s = t
  BY <1>1, <1>3, <1>4, SeqEqual, Zenon
<1> QED BY <1>5 DEF s, t, Joined, Nested

-----------------------------------------------------------------------------
(* The steps of the queue.                                                  *)

LEMMA PipelineType ==
    ASSUME StateTypeOK
    PROVE  /\ running \in Seq(Requests) /\ batch \in Seq(Requests)
           /\ Deferred \in Seq(Requests) /\ queue \in Seq(Requests)
           /\ Pipeline \in Seq(Requests)
<1>1. Deferred \in Seq(Requests)
  BY DEF StateTypeOK, Deferred
<1>2. running \in Seq(Requests) /\ batch \in Seq(Requests) /\ queue \in Seq(Requests)
  BY DEF StateTypeOK
<1> QED BY <1>1, <1>2 DEF Pipeline

QueueStep == [Queue!Next]_(Queue!queueVars)

\* Most steps of the run loop leave the queue alone or drop a request.
LoopMove ==
    \/ Pipeline' = Pipeline /\ UNCHANGED <<fut, answer, stopping>>
    \/ \E i \in 1..Len(Pipeline) : Queue!Leave(i)

LEMMA LoopMoveIsStep == LoopMove => QueueStep
BY DEF LoopMove, QueueStep, Queue!queueVars, Queue!Next

LEMMA Stutters ==
    ASSUME Pipeline' = Pipeline, UNCHANGED <<fut, answer, stopping>>
    PROVE  LoopMove
BY DEF LoopMove

LEMMA KeepsLine ==
    ASSUME UNCHANGED <<queue, nextEnvelope, batch, running>>
    PROVE  Pipeline' = Pipeline
BY DEF Pipeline, Deferred

LEMMA DropLeaves ==
    ASSUME NEW a \in Seq(Requests), NEW b \in Seq(Requests), b # <<>>,
           Pipeline = a \o b, Pipeline' = a \o Tail(b), Dropped(Head(b)),
           UNCHANGED <<answer, stopping>>
    PROVE  LoopMove
<1> DEFINE i == Len(a) + 1
<1>1. /\ SubSeq(Pipeline, 1, i - 1) \o SubSeq(Pipeline, i + 1, Len(Pipeline))
            = Pipeline'
      /\ Pipeline[i] = Head(b)
      /\ i \in 1..Len(Pipeline)
  BY OneDropped, Zenon
<1> HIDE DEF i
<1>2. IF fut[Pipeline[i]] = "pending"
      THEN fut' = [fut EXCEPT ![Pipeline[i]] = "deadline"] ELSE UNCHANGED fut
  BY <1>1 DEF Dropped
<1>3. Queue!Leave(i)
  BY <1>1, <1>2 DEF Queue!Leave
<1> QED BY <1>1, <1>3 DEF LoopMove

LEMMA EnqueueAccepts ==
    ASSUME StateTypeOK, NEW r \in Requests, Enqueue(r) PROVE QueueStep
<1> DEFINE front == running \o batch \o Deferred
<1>1. front \in Seq(Requests) /\ queue \in Seq(Requests)
  BY PipelineType
<1>2. Pipeline' = front \o Append(queue, r) /\ Pipeline = front \o queue
  BY DEF Enqueue, collectVars, execVars, Pipeline, Deferred
<1> HIDE DEF front
<1>3. front \o Append(queue, r) = Append(front \o queue, r)
  BY <1>1, AppendMoves
<1>4. Queue!Accept(r)
  <2>1. /\ ~stopping /\ fut[r] = "new" /\ UNCHANGED <<answer, stopping>>
        /\ fut' = [fut EXCEPT ![r] = "pending"]
    BY DEF Enqueue, Admits, closeVars
  <2>2. Pipeline' = Append(Pipeline, r)
    BY <1>2, <1>3, Zenon
  <2> QED BY <2>1, <2>2 DEF Queue!Accept
<1> QED BY <1>4 DEF QueueStep, Queue!Next

LEMMA RefusedByLine ==
    ASSUME StateTypeOK, NEW r \in Requests, EnqueueRefused(r) PROVE QueueStep
<1> DEFINE front == running \o batch \o Deferred
<1>1. front \in Seq(Requests) /\ queue \in Seq(Requests)
  BY PipelineType
<1>2. Pipeline = front \o queue
  BY DEF Pipeline
<1> HIDE DEF front
<1>3. /\ Len(Pipeline) = Len(front) + Len(queue) /\ Len(front) \in Nat
      /\ Len(queue) \in Nat
  BY <1>1, <1>2
<1>4. stopping \/ Len(Pipeline) >= QueueCapacity
  BY <1>3, BatcherAssumption DEF EnqueueRefused, Admits
<1>5. Pipeline' = Pipeline
  BY KeepsLine DEF EnqueueRefused, loopVars, collectVars, execVars
<1>6. Queue!Refuse(r)
  BY <1>4, <1>5 DEF EnqueueRefused, closeVars, Queue!Refuse
<1> QED BY <1>6 DEF QueueStep, Queue!Next

LEMMA DeferredFetched ==
    ASSUME Invariant, FetchDeferred PROVE LoopMove
<1> DEFINE r == nextEnvelope
<1>1. r \in Requests /\ queue \in Seq(Requests) /\ running = <<>> /\ batch = <<>>
  BY DEF FetchDeferred, Invariant, Inductive, StateTypeOK, Places
<1>2. UNCHANGED <<answer, stopping, queue, running>> /\ Deferred' = <<>>
  BY DEF FetchDeferred, execVars, closeVars, Deferred
<1>3. Pipeline = <<r>> \o queue
  <2>1. Pipeline = <<>> \o <<>> \o <<r>> \o queue
    BY <1>1 DEF FetchDeferred, Pipeline, Deferred
  <2> QED BY <1>1, <2>1
<1>4. Pipeline' = batch' \o queue
  <2>1. Pipeline' = <<>> \o batch' \o <<>> \o queue
    BY <1>1, <1>2 DEF Pipeline
  <2>2. batch' \in {<<>>, <<r>>}
    BY <1>1 DEF FetchDeferred, OpenBatch, collectVars
  <2> QED BY <1>1, <2>1, <2>2
<1>5. CASE Dropped(r) /\ batch' = <<>>
  <2> DEFINE b == <<r>> \o queue
  <2>1. b \in Seq(Requests) /\ b # <<>> /\ Head(b) = r /\ Tail(b) = queue
    BY <1>1
  <2>2. Pipeline = <<>> \o b /\ Pipeline' = <<>> \o Tail(b)
    BY <1>1, <1>3, <1>4, <1>5, <2>1
  <2> HIDE DEF b
  <2> QED BY <1>2, <1>5, <2>1, <2>2, DropLeaves, EmptySeq
<1>6. CASE batch' = <<r>> /\ UNCHANGED fut
  BY <1>2, <1>3, <1>4, <1>6, Stutters
<1>7. \/ Dropped(r) /\ batch' = <<>>
      \/ batch' = <<r>> /\ UNCHANGED fut
  BY <1>1 DEF FetchDeferred, OpenBatch, collectVars
<1> QED BY <1>5, <1>6, <1>7

LEMMA QueuedFetched ==
    ASSUME Invariant, FetchQueued PROVE LoopMove
<1> DEFINE r == Head(queue)
<1>1. /\ queue \in Seq(Requests) /\ queue # <<>> /\ running = <<>> /\ batch = <<>>
      /\ nextEnvelope = None
  BY DEF FetchQueued, GetsFirst, Invariant, Inductive, StateTypeOK, Places
<1>2. r \in Requests /\ Tail(queue) \in Seq(Requests)
  BY <1>1
<1>3. /\ UNCHANGED <<answer, stopping, nextEnvelope, running>>
      /\ queue' = Tail(queue) /\ Deferred' = <<>> /\ Deferred = <<>>
  BY <1>1 DEF FetchQueued, execVars, closeVars, Deferred
<1>4. Pipeline = queue
  BY <1>1, <1>3 DEF Pipeline
<1>5. batch' \in {<<>>, <<r>>}
  BY <1>1 DEF FetchQueued, OpenBatch, collectVars
<1>6. Pipeline' = batch' \o Tail(queue)
  <2>1. Pipeline' = <<>> \o batch' \o <<>> \o Tail(queue)
    BY <1>1, <1>3 DEF Pipeline
  <2> QED BY <1>2, <1>5, <2>1
<1>7. CASE Dropped(r) /\ batch' = <<>>
  <2>1. Pipeline = <<>> \o queue /\ Pipeline' = <<>> \o Tail(queue)
    BY <1>1, <1>2, <1>4, <1>6, <1>7
  <2> QED BY <1>1, <1>3, <1>7, <2>1, DropLeaves, EmptySeq
<1>8. CASE batch' = <<r>> /\ UNCHANGED fut
  <2>1. Append(<<>>, r) \o Tail(queue) = <<>> \o queue
    BY <1>1, HeadMoves, EmptySeq
  <2>2. Pipeline' = Pipeline
    BY <1>1, <1>2, <1>4, <1>6, <1>8, <2>1
  <2> QED BY <1>3, <1>8, <2>2, Stutters
<1>9. \/ Dropped(r) /\ batch' = <<>>
      \/ batch' = <<r>> /\ UNCHANGED fut
  BY <1>1 DEF FetchQueued, OpenBatch, collectVars
<1> QED BY <1>7, <1>8, <1>9

LEMMA Collected ==
    ASSUME Invariant, CollectQueued PROVE LoopMove
<1> DEFINE r == Head(queue)
<1>1. /\ queue \in Seq(Requests) /\ queue # <<>> /\ batch \in Seq(Requests)
      /\ running = <<>> /\ nextEnvelope = None
  BY DEF CollectQueued, Invariant, Inductive, StateTypeOK, Places
<1>2. r \in Requests /\ Tail(queue) \in Seq(Requests)
  BY <1>1
<1>3. UNCHANGED <<answer, stopping, running>> /\ queue' = Tail(queue)
  BY DEF CollectQueued, execVars, closeVars
<1>4. Pipeline = batch \o queue
  BY <1>1 DEF Pipeline, Deferred
<1>5. /\ Append(batch, r) \o Tail(queue) = batch \o queue
      /\ Append(batch, r) = batch \o <<r>>
  BY <1>1, <1>2, HeadMoves, AppendIsConcat
<1>6. CASE Dropped(r) /\ UNCHANGED <<batch, nextEnvelope>>
  <2>1. Pipeline' = batch \o Tail(queue)
    BY <1>1, <1>2, <1>3, <1>6 DEF Pipeline, Deferred
  <2> QED BY <1>1, <1>3, <1>4, <1>6, <2>1, DropLeaves
<1>7. CASE UNCHANGED <<batch, fut>> /\ nextEnvelope' = r
  <2>1. r # None
    BY <1>2, BatcherAssumption
  <2>2. Deferred' = <<r>>
    BY <1>7, <2>1 DEF Deferred
  <2>3. Pipeline' = <<>> \o batch \o <<r>> \o Tail(queue)
    BY <1>1, <1>3, <1>7, <2>2 DEF Pipeline
  <2>4. Pipeline' = (batch \o <<r>>) \o Tail(queue)
    BY <1>1, <2>3
  <2> QED BY <1>3, <1>4, <1>5, <1>7, <2>4, Stutters
<1>8. CASE batch' = Append(batch, r) /\ UNCHANGED <<fut, nextEnvelope>>
  <2>1. Pipeline' = Append(batch, r) \o Tail(queue)
    BY <1>1, <1>2, <1>3, <1>8 DEF Pipeline, Deferred
  <2> QED BY <1>3, <1>4, <1>5, <1>8, <2>1, Stutters
<1>9. \/ Dropped(r) /\ UNCHANGED <<batch, nextEnvelope>>
      \/ UNCHANGED <<batch, fut>> /\ nextEnvelope' = r
      \/ batch' = Append(batch, r) /\ UNCHANGED <<fut, nextEnvelope>>
  BY DEF CollectQueued, ExtendBatch, DeferEnvelope, collectVars
<1> QED BY <1>6, <1>7, <1>8, <1>9

LEMMA Filtered ==
    ASSUME Invariant, FilterOne PROVE LoopMove
<1> DEFINE r == Head(batch)
           rest == Deferred \o queue
           b == batch \o rest
<1>1. /\ running \in Seq(Requests) /\ batch \in Seq(Requests)
      /\ Deferred \in Seq(Requests) /\ queue \in Seq(Requests)
  BY PipelineType DEF Invariant, Inductive
<1>2. rest \in Seq(Requests) /\ batch # <<>>
  BY <1>1 DEF FilterOne
<1>3. UNCHANGED <<answer, stopping, queue, Deferred>> /\ batch' = Tail(batch)
  BY DEF FilterOne, closeVars, Deferred
<1>4. CASE Dropped(r) /\ UNCHANGED running
  <2>1. Pipeline = running \o b
    <3>1. Joined(running, batch, Deferred, queue)
            = Nested(running, batch, Deferred, queue)
      BY <1>1, Regrouped
    <3> QED BY <3>1, Zenon DEF Pipeline, Joined, Nested
  <2>3. Pipeline' = running \o (Tail(batch) \o rest)
    <3> DEFINE t == Tail(batch)
    <3>1. t \in Seq(Requests)
      BY <1>1, <1>2
    <3>2. Pipeline' = running' \o batch' \o Deferred' \o queue'
      BY Zenon DEF Pipeline
    <3> HIDE DEF t
    <3>3. Joined(running, t, Deferred, queue) = Nested(running, t, Deferred, queue)
      BY <1>1, <3>1, Regrouped
    <3>4. Pipeline' = Joined(running, t, Deferred, queue)
      BY <1>3, <1>4, <3>2, Zenon DEF Joined, t
    <3>5. Pipeline' = running \o (t \o rest)
      BY <3>3, <3>4, Zenon DEF Nested
    <3> QED BY <3>5 DEF t
  <2> HIDE DEF rest
  <2>4. /\ b \in Seq(Requests) /\ b # <<>> /\ Head(b) = r
        /\ Tail(b) = Tail(batch) \o rest
    BY <1>1, <1>2, HeadOfConcat
  <2> HIDE DEF b
  <2>5. Pipeline' = running \o Tail(b) /\ Dropped(Head(b))
    BY <1>4, <2>3, <2>4
  <2> QED BY <1>1, <1>3, <2>1, <2>4, <2>5, DropLeaves
<1>5. CASE running' = Append(running, r) /\ UNCHANGED fut
  <2>1. Append(running, r) \o Tail(batch) = running \o batch
    BY <1>1, <1>2, HeadMoves
  <2>2. Pipeline' = Pipeline
    BY <1>3, <1>5, <2>1 DEF Pipeline
  <2> QED BY <1>3, <1>5, <2>2, Stutters
<1>6. \/ Dropped(r) /\ UNCHANGED running
      \/ running' = Append(running, r) /\ UNCHANGED fut
  BY DEF FilterOne, execVars
<1> QED BY <1>4, <1>5, <1>6

LEMMA BatchEmpty ==
    ASSUME StateTypeOK, batch = <<>>
    PROVE  Pipeline = running \o (Deferred \o queue)
<1>1. /\ running \in Seq(Requests) /\ Deferred \in Seq(Requests)
      /\ queue \in Seq(Requests)
  BY PipelineType
<1> QED BY <1>1, SecondEmpty DEF Pipeline

\* While the batch is on the executor or settled, it is the head of the line.
LEMMA RunningFirst ==
    ASSUME Invariant, pc \in {"exec", "deliver"}
    PROVE  /\ running \in Seq(Requests) /\ Deferred \o queue \in Seq(Requests)
           /\ batch = <<>>
           /\ Pipeline = running \o (Deferred \o queue)
<1>1. batch = <<>>
  BY DEF Invariant, Places
<1>2. /\ running \in Seq(Requests) /\ batch \in Seq(Requests)
      /\ Deferred \in Seq(Requests) /\ queue \in Seq(Requests)
  BY PipelineType DEF Invariant, Inductive
<1>3. Pipeline = running \o (Deferred \o queue)
  BY <1>1, BatchEmpty DEF Invariant, Inductive
<1>4. Deferred \o queue \in Seq(Requests)
  BY <1>2
<1> QED BY <1>1, <1>2, <1>3, <1>4

\* The head of the batch that is delivered is the head of the line.
LEMMA HeadLeaves ==
    ASSUME Invariant, DeliverOne
    PROVE  /\ Pipeline \in Seq(Requests) /\ Pipeline # <<>>
           /\ Head(Pipeline) = Head(running)
           /\ Pipeline' = Tail(Pipeline)
           /\ running \in Seq(Requests) /\ running # <<>>
           /\ UNCHANGED stopping
<1> DEFINE r == Head(running)
           rest == Deferred \o queue
           b == running \o rest
<1>1. /\ running \in Seq(Requests) /\ rest \in Seq(Requests) /\ batch = <<>>
      /\ Pipeline = b /\ running # <<>>
  BY RunningFirst DEF DeliverOne
<1>2. Tail(running) \in Seq(Requests)
  BY <1>1
<1>3. /\ UNCHANGED <<stopping, queue, nextEnvelope, batch>> /\ Deferred' = Deferred
      /\ running' = Tail(running)
  BY DEF DeliverOne, closeVars, collectVars, Deferred
<1>4. Pipeline' = Tail(running) \o rest
  <2>1. Pipeline' = Tail(running) \o <<>> \o Deferred \o queue
    BY <1>1, <1>3 DEF Pipeline
  <2>2. /\ <<>> \in Seq(Requests) /\ Deferred \in Seq(Requests)
        /\ queue \in Seq(Requests)
    BY PipelineType DEF Invariant, Inductive
  <2> QED BY <1>2, <2>1, <2>2, SecondEmpty
<1> HIDE DEF rest
<1>5. /\ b \in Seq(Requests) /\ b # <<>> /\ Head(b) = r
      /\ Tail(b) = Tail(running) \o rest
  BY <1>1, HeadOfConcat
<1> HIDE DEF b
<1> QED BY <1>1, <1>3, <1>4, <1>5, Zenon

LEMMA Delivered ==
    ASSUME Invariant, DeliverOne PROVE QueueStep
<1> DEFINE r == Head(running)
<1>1. /\ Pipeline \in Seq(Requests) /\ Pipeline # <<>> /\ Head(Pipeline) = r
      /\ Pipeline' = Tail(Pipeline)
      /\ running \in Seq(Requests) /\ running # <<>>
      /\ UNCHANGED stopping
  BY HeadLeaves, Zenon
<1>2. r \in Requests
  BY <1>1
<1>3. CASE Dropped(r) /\ UNCHANGED answer
  <2> DEFINE b == Pipeline
  <2>1. b = <<>> \o b /\ Pipeline' = <<>> \o Tail(b)
    <3>1. b \in Seq(Requests) /\ Tail(b) \in Seq(Requests)
      BY <1>1
    <3>2. <<>> \o b = b /\ <<>> \o Tail(b) = Tail(b)
      BY <3>1
    <3> QED BY <1>1, <3>2, Zenon
  <2> QED BY <1>1, <1>3, <2>1, DropLeaves, LoopMoveIsStep, EmptySeq
<1>4. CASE /\ Live(r)
           /\ fut' = [fut EXCEPT ![r] = "result"]
           /\ answer' = [answer EXCEPT ![r] = Predictions(Head(slices))]
  <2>1. Head(slices) \in Nat \X Nat /\ Owns(flattened, r, Head(slices))
    <3>1. Len(running) \in Nat \ {0} /\ slices \in Seq(Nat \X Nat)
      BY <1>1, EmptySeq DEF Invariant, Inductive, StateTypeOK
    <3>2. Len(slices) = Len(running) /\ Owns(flattened, running[1], slices[1])
      BY <3>1 DEF Invariant, Inductive, SlicesMatch
    <3> QED BY <1>1, <3>1, <3>2
  <2>2. Predictions(Head(slices)) = PredictBatch(Inputs(r))
    BY <1>2, <2>1, SliceIsAnswer DEF Invariant, Inductive
  <2>3. /\ Pipeline # <<>> /\ Head(Pipeline) = r /\ Pipeline' = Tail(Pipeline)
        /\ fut[r] = "pending"
    BY <1>1, <1>4 DEF Live
  <2> DEFINE reply == [q \in Requests |-> PredictBatch(Inputs(q))]
  <2>4. reply[r] = PredictBatch(Inputs(r))
    BY <1>2
  <2> HIDE DEF reply
  <2>5. answer' = [answer EXCEPT ![r] = reply[r]]
    BY <1>4, <2>2, <2>4
  <2>6. Queue!Answer
    BY <1>1, <1>4, <2>3, <2>5 DEF Queue!Answer, reply
  <2> QED BY <2>6 DEF QueueStep, Queue!Next
<1>5. \/ Dropped(r) /\ UNCHANGED answer
      \/ /\ Live(r)
         /\ fut' = [fut EXCEPT ![r] = "result"]
         /\ answer' = [answer EXCEPT ![r] = Predictions(Head(slices))]
  BY DEF DeliverOne
<1> QED BY <1>3, <1>4, <1>5

\* The whole batch leaves the head of the line.
LEMMA BatchGone ==
    ASSUME Invariant, pc = "exec", running' = <<>>,
           UNCHANGED <<queue, nextEnvelope, batch>>
    PROVE  /\ Len(running) \in 1..Len(Pipeline)
           /\ Pipeline' = SubSeq(Pipeline, Len(running) + 1, Len(Pipeline))
           /\ \A i \in 1..Len(running) : Pipeline[i] = running[i]
<1> DEFINE rest == Deferred \o queue
<1>1. /\ running \in Seq(Requests) /\ rest \in Seq(Requests) /\ batch = <<>>
      /\ Pipeline = running \o rest /\ running # <<>>
  BY RunningFirst DEF Invariant, Places
<1>2. Pipeline' = rest
  <2>1. Pipeline' = <<>> \o <<>> \o Deferred \o queue
    BY <1>1 DEF Pipeline, Deferred
  <2>2. Deferred \in Seq(Requests) /\ queue \in Seq(Requests)
    BY PipelineType DEF Invariant, Inductive
  <2>3. <<>> \o <<>> = <<>> /\ <<>> \o Deferred = Deferred
    BY <2>2
  <2> QED BY <2>1, <2>3, Zenon
<1> HIDE DEF rest
<1>3. SubSeq(running \o rest, Len(running) + 1, Len(running \o rest)) = rest
  BY <1>1, PrefixDropped, Zenon
<1>4. /\ Len(running) \in 1..Len(running \o rest)
      /\ \A i \in 1..Len(running) : (running \o rest)[i] = running[i]
  BY <1>1
<1> QED BY <1>1, <1>2, <1>3, <1>4, Zenon

LEMMA BatchFails ==
    ASSUME Invariant, InferenceFailed PROVE QueueStep
<1> DEFINE n == Len(running)
<1>1. /\ n \in 1..Len(Pipeline)
      /\ Pipeline' = SubSeq(Pipeline, n + 1, Len(Pipeline))
      /\ \A i \in 1..n : Pipeline[i] = running[i]
  BY BatchGone, Zenon DEF InferenceFailed, collectVars
<1>2. running \in Seq(Requests)
  BY DEF Invariant, Inductive, StateTypeOK
<1>3. fut' = [r \in Requests |->
                 IF fut[r] = "pending" /\ \E i \in 1..n : Pipeline[i] = r
                 THEN "internal" ELSE fut[r]]
  <2>1. \A r : r \in ToSet(running) <=> \E i \in 1..n : Pipeline[i] = r
    <3>1. DOMAIN running = 1..n
      BY <1>2
    <3> HIDE DEF n
    <3>2. ToSet(running) = {running[i] : i \in 1..n}
      BY <3>1, Zenon DEF ToSet
    <3> QED BY <1>1, <3>2, Zenon
  <2>2. fut' = [r \in Requests |->
                  IF r \in ToSet(running) THEN FailOpen(r) ELSE fut[r]]
    BY Zenon DEF InferenceFailed
  <2> QED BY <2>1, <2>2 DEF FailOpen
<1>4. UNCHANGED <<answer, stopping>>
  BY Zenon DEF InferenceFailed, closeVars
<1>5. Queue!Fail(n)
  BY <1>1, <1>3, <1>4, Zenon DEF Queue!Fail
<1> QED BY <1>1, <1>5 DEF QueueStep, Queue!Next

LEMMA BatchForgotten ==
    ASSUME Invariant, CancelledInExec PROVE QueueStep
<1> DEFINE n == Len(running)
<1>1. /\ n \in 1..Len(Pipeline)
      /\ Pipeline' = SubSeq(Pipeline, n + 1, Len(Pipeline))
  BY BatchGone, Zenon DEF CancelledInExec, collectVars
<1>2. stopping
  BY DEF CancelledInExec, Invariant, Inductive, Control
<1>3. UNCHANGED <<fut, answer, stopping>>
  BY Zenon DEF CancelledInExec, futureVars
<1>4. Queue!Forget(n)
  BY <1>1, <1>2, <1>3 DEF Queue!Forget
<1> QED BY <1>1, <1>4 DEF QueueStep, Queue!Next

LEMMA CallerLeaves ==
    ASSUME StateTypeOK, NEW r \in Requests, CancelRpc(r) PROVE QueueStep
<1>1. Pipeline' = Pipeline
  BY KeepsLine DEF CancelRpc, loopVars, collectVars, execVars
<1>2. fut' = [q \in Requests |-> IF q \in {r} THEN "cancelled" ELSE fut[q]]
  BY DEF CancelRpc, StateTypeOK
<1>3. Queue!Abandon({r})
  BY <1>1, <1>2 DEF CancelRpc, closeVars, Queue!Abandon
<1>4. {r} \in SUBSET Requests
  OBVIOUS
<1> QED BY <1>3, <1>4, Zenon DEF QueueStep, Queue!Next

LEMMA Shuts ==
    ASSUME Close PROVE QueueStep
<1>1. Pipeline' = Pipeline
  BY KeepsLine DEF Close, loopVars, collectVars, execVars
<1>2. Queue!Shut
  BY <1>1 DEF Close, futureVars, Queue!Shut
<1> QED BY <1>2 DEF QueueStep, Queue!Next

\* What the callers cannot see: the clock, the executor's thread and the run
\* loop's changes of place.
LEMMA Unseen ==
    ASSUME \/ \E r \in Requests : DeadlinePasses(r)
           \/ CloseReturns \/ LoopStart \/ AwaitFirst \/ LoopExit \/ AwaitMore
           \/ EndCollect \/ NothingValid \/ Submit \/ ExecutorFinishes
           \/ InferenceDone \/ BatchSettled \/ Quiescent \/ UNCHANGED vars
    PROVE  LoopMove
<1>1. UNCHANGED <<queue, nextEnvelope, batch, running, fut, answer, stopping>>
  BY Zenon DEF vars, loopVars, collectVars, execVars, closeVars, futureVars,
      historyVars, DeadlinePasses, CloseReturns, LoopStart, AwaitFirst,
      LoopExit, AwaitMore, EndCollect, NothingValid, Submit, ExecutorFinishes,
      InferenceDone, BatchSettled, Quiescent
<1> QED BY <1>1, KeepsLine, Stutters

-----------------------------------------------------------------------------
(* The refinement.                                                          *)

LEMMA PlacesStep ==
    ASSUME Invariant, [Next]_vars PROVE Places'
<1> USE DEF loopVars, collectVars, execVars
<1>1. ASSUME UNCHANGED <<pc, running, batch, nextEnvelope>> PROVE Places'
  BY <1>1 DEF Invariant, Places
<1>2. ASSUME NEW r \in Requests, Enqueue(r) PROVE Places'
  BY <1>2 DEF Enqueue, AfterStart, Invariant, Places
<1>3. CASE \/ \E r \in Requests : EnqueueRefused(r) \/ CancelRpc(r)
                                    \/ DeadlinePasses(r)
           \/ Close \/ CloseReturns \/ ExecutorFinishes \/ Quiescent
           \/ UNCHANGED vars
  BY <1>1, <1>3, Zenon DEF vars, EnqueueRefused, CancelRpc, DeadlinePasses,
      Close, CloseReturns, ExecutorFinishes, Quiescent
<1>4. CASE LoopStart \/ AwaitFirst \/ LoopExit \/ AwaitMore \/ EndCollect
  BY <1>4 DEF LoopStart, AwaitFirst, LoopExit, AwaitMore, EndCollect, EndsLoop,
      CollectEnds, Invariant, Places
<1>5. CASE FetchDeferred \/ FetchQueued
  BY <1>5 DEF FetchDeferred, FetchQueued, OpenBatch, GetsFirst, Invariant, Places
<1>6. CASE CollectQueued
  BY <1>6 DEF CollectQueued, ExtendBatch, DeferEnvelope, Invariant, Places
<1>7. CASE FilterOne
  BY <1>7 DEF FilterOne, Invariant, Places
<1>8. CASE NothingValid \/ Submit \/ BatchSettled \/ InferenceDone
  BY <1>8 DEF NothingValid, Submit, BatchSettled, InferenceDone, Invariant, Places
<1>9. CASE CancelledInExec \/ InferenceFailed
  BY <1>9 DEF CancelledInExec, InferenceFailed, Invariant, Places
<1>10. CASE DeliverOne
  BY <1>10 DEF DeliverOne, Invariant, Places
<1> QED BY <1>2, <1>3, <1>4, <1>5, <1>6, <1>7, <1>8, <1>9, <1>10
        DEF Next, RunLoop

LEMMA InvariantInductive ==
    /\ Init => Invariant
    /\ Invariant /\ [Next]_vars => Invariant'
<1>1. Init => Places
  BY DEF Init, Places
<1> QED BY <1>1, InitInductive, StepInductive, PlacesStep DEF Invariant

LEMMA StartsEmpty == Init => Queue!Init
<1> SUFFICES ASSUME Init PROVE Queue!Init
  OBVIOUS
<1>1. Pipeline = <<>> \o <<>> \o <<>> \o <<>>
  BY DEF Init, Pipeline, Deferred
<1>2. Pipeline = <<>>
  BY <1>1
<1> QED BY <1>2 DEF Init, Queue!Init

LEMMA StepsAreQueueSteps == Invariant /\ [Next]_vars => QueueStep
<1> SUFFICES ASSUME Invariant, [Next]_vars PROVE QueueStep
  OBVIOUS
<1>1. StateTypeOK
  BY DEF Invariant, Inductive
<1> QED BY <1>1, EnqueueAccepts, RefusedByLine, CallerLeaves, Shuts,
           DeferredFetched, QueuedFetched, Collected, Filtered, Delivered,
           BatchFails, BatchForgotten, Unseen, LoopMoveIsStep DEF Next, RunLoop

\* The batcher implements the queue: batching, deferring, running off the event
\* loop and dropping what is dead (lines 99-210) show nowhere but in time.
THEOREM Refinement == Spec => ImplementsQueue
<1>1. Init => Queue!Init
  BY StartsEmpty
<1>2. Invariant /\ [Next]_vars => [Queue!Next]_(Queue!queueVars)
  BY StepsAreQueueSteps DEF QueueStep
<1> QED BY <1>1, <1>2, InvariantInductive, PTL DEF Spec, ImplementsQueue, Queue!Spec

-----------------------------------------------------------------------------
(* Nobody is forgotten: a fact about the queue, and through the refinement  *)
(* about the batcher.                                                       *)

\* Every pending request has one place in the line.
OnePlace(l, st) ==
    \A r \in Requests :
        st[r] = "pending" =>
            \E i \in DOMAIN l : l[i] = r /\ \A j \in DOMAIN l : l[j] = r => j = i

\* Nobody is in line before having asked.
Known(l, st) == \A i \in DOMAIN l : st[l[i]] # "new"

\* m is l without the elements from first to last.
Removed(l, m, first, last) ==
    /\ first \in 1..last /\ last \in 1..Len(l)
    /\ Len(m) = Len(l) - (last + 1 - first)
    /\ \A k \in 1..Len(m) :
         m[k] = IF k < first THEN l[k] ELSE l[k + (last + 1 - first)]

\* What leaves the line by a step of the run loop is one place of it.
LEMMA LeaveRemoves ==
    ASSUME NEW i \in 1..Len(Pipeline), Pipeline \in Seq(Requests), Queue!Leave(i),
           NEW m, m = Pipeline'
    PROVE  m \in Seq(Requests) /\ Removed(Pipeline, m, i, i)
<1> DEFINE l == Pipeline
           before == SubSeq(l, 1, i - 1)
           after == SubSeq(l, i + 1, Len(l))
<1>1. m = before \o after
  BY DEF Queue!Leave
<1> HIDE DEF l
<1>2. i \in Nat /\ i >= 1 /\ i <= Len(l) /\ Len(l) \in Nat /\ l \in Seq(Requests)
  BY DEF l
<1>3. /\ before \in Seq(Requests) /\ Len(before) = i - 1
      /\ after \in Seq(Requests) /\ Len(after) = Len(l) - i
  BY <1>2
<1>4. \A k \in 1..(i - 1) : before[k] = l[k]
  BY <1>2
<1>5. \A k \in 1..(Len(l) - i) : after[k] = l[k + i]
  BY <1>2
<1> HIDE DEF before, after
<1>6. m \in Seq(Requests) /\ Len(m) = Len(l) - 1
  <2>1. before \o after \in Seq(Requests)
        /\ Len(before \o after) = Len(before) + Len(after)
    BY <1>3, ConcatProperties
  <2> QED BY <1>1, <1>2, <1>3, <2>1
<1>7. ASSUME NEW k \in 1..Len(m) PROVE m[k] = IF k < i THEN l[k] ELSE l[k + 1]
  <2>1. CASE k < i
    BY <1>1, <1>2, <1>3, <1>4, <1>6, <2>1
  <2>2. CASE ~(k < i)
    <3>1. m[k] = after[k - (i - 1)] /\ k - (i - 1) \in 1..(Len(l) - i)
      BY <1>1, <1>2, <1>3, <1>6, <2>2, SMTT(20)
    <3>2. k - (i - 1) + i = k + 1
      BY <1>2, <1>6
    <3> QED BY <1>5, <2>2, <3>1, <3>2
  <2> QED BY <2>1, <2>2
<1> DEFINE one == i + 1 - i
<1>8. one = 1 /\ i \in i..i /\ i \in 1..Len(l)
  BY <1>2
<1> HIDE DEF one
<1>9. /\ Len(m) = Len(l) - one
      /\ \A k \in 1..Len(m) : m[k] = IF k < i THEN l[k] ELSE l[k + one]
  BY <1>6, <1>7, <1>8
<1> QED BY <1>6, <1>8, <1>9, SMTT(20) DEF Removed, one, l

\* Those elements are settled, and no other future is opened.
Closed(l, st, su, first, last) ==
    /\ \A i \in first..last : su[l[i]] # "pending"
    /\ \A r \in Requests : /\ su[r] = "pending" => st[r] = "pending"
                           /\ su[r] = "new" => st[r] = "new"

LEMMA PlacesLeft ==
    ASSUME NEW l \in Seq(Requests), NEW m \in Seq(Requests), NEW st, NEW su,
           NEW first \in Nat, NEW last \in Nat,
           Removed(l, m, first, last), Closed(l, st, su, first, last),
           OnePlace(l, st), Known(l, st)
    PROVE  OnePlace(m, su) /\ Known(m, su)
<1> USE DEF Removed, Closed
<1> DEFINE d == last + 1 - first
<1>1. d \in Nat /\ d >= 1 /\ DOMAIN l = 1..Len(l) /\ DOMAIN m = 1..Len(m)
  OBVIOUS
<1>2. ASSUME NEW r \in Requests, su[r] = "pending"
      PROVE  \E i \in DOMAIN m : m[i] = r /\ \A j \in DOMAIN m : m[j] = r => j = i
  <2>0. st[r] = "pending"
    BY <1>2
  <2>1. \E i \in DOMAIN l : l[i] = r /\ \A j \in DOMAIN l : l[j] = r => j = i
    BY <2>0, Zenon DEF OnePlace
  <2>2. PICK i \in 1..Len(l) : l[i] = r /\ \A j \in 1..Len(l) : l[j] = r => j = i
    BY <1>1, <2>1
  <2>3. i \notin first..last
    BY <1>2, <2>2
  <2> DEFINE k == IF i < first THEN i ELSE i - d
  <2>4. k \in 1..Len(m) /\ m[k] = r
    <3>1. CASE i < first
      <4>1. k = i /\ k \in 1..Len(m)
        BY <1>1, <3>1
      <4>2. m[k] = l[k]
        BY <3>1, <4>1
      <4> QED BY <2>2, <4>1, <4>2
    <3>2. CASE ~(i < first)
      <4>1. i > last /\ k = i - d /\ k + d = i
        <5>1. i > last
          BY <2>3, <3>2
        <5>2. k = i - d
          BY <3>2, Zenon
        <5> QED BY <1>1, <5>1, <5>2
      <4>2. k \in 1..Len(m) /\ ~(k < first)
        BY <1>1, <2>2, <3>2, <4>1
      <4>3. m[k] = l[k + d]
        BY <4>2
      <4> QED BY <2>2, <4>1, <4>2, <4>3
    <3> QED BY <3>1, <3>2
  <2>5. ASSUME NEW j \in 1..Len(m), m[j] = r PROVE j = k
    <3>1. CASE j < first
      <4>1. l[j] = r /\ j \in 1..Len(l)
        BY <2>5, <3>1
      <4> QED BY <2>2, <3>1, <4>1
    <3>2. CASE ~(j < first)
      <4>1. l[j + d] = r /\ j + d \in 1..Len(l)
        BY <1>1, <2>5, <3>2, SMTT(20)
      <4> QED BY <1>1, <2>2, <3>2, <4>1
    <3> QED BY <3>1, <3>2
  <2> HIDE DEF k
  <2> QED BY <1>1, <2>4, <2>5, ZenonT(30)
<1>3. ASSUME NEW k \in DOMAIN m PROVE su[m[k]] # "new"
  <2> DEFINE i == IF k < first THEN k ELSE k + d
  <2>0. k \in 1..Len(m)
    BY <1>1, <1>3
  <2>1. i \in 1..Len(l) /\ m[k] = l[i]
    <3>1. CASE k < first
      BY <1>1, <2>0, <3>1
    <3>2. CASE ~(k < first)
      BY <1>1, <2>0, <3>2, SMTT(20)
    <3> QED BY <3>1, <3>2
  <2> HIDE DEF i
  <2>2. l[i] \in Requests
    BY <2>1
  <2>3. st[l[i]] # "new"
    BY <1>1, <2>1, Zenon DEF Known
  <2> QED BY <2>1, <2>2, <2>3
<1> QED BY <1>2, <1>3 DEF OnePlace, Known

\* A request that joins has its place at the end.
LEMMA PlaceJoined ==
    ASSUME NEW l \in Seq(Requests), NEW st \in [Requests -> FutureStates],
           NEW r \in Requests, st[r] = "new", OnePlace(l, st), Known(l, st)
    PROVE  /\ OnePlace(Append(l, r), [st EXCEPT ![r] = "pending"])
           /\ Known(Append(l, r), [st EXCEPT ![r] = "pending"])
<1> DEFINE m == Append(l, r)
           su == [st EXCEPT ![r] = "pending"]
<1>1. /\ Len(l) \in Nat /\ DOMAIN l = 1..Len(l) /\ DOMAIN m = 1..(Len(l) + 1)
      /\ m[Len(l) + 1] = r
      /\ \A i \in 1..Len(l) : m[i] = l[i] /\ l[i] \in Requests
  OBVIOUS
<1>2. su[r] = "pending" /\ \A q \in Requests : q # r => su[q] = st[q]
  OBVIOUS
<1> HIDE DEF m, su
<1>3. \A i \in 1..Len(l) : l[i] # r
  BY <1>1 DEF Known
<1>4. Known(m, su)
  BY <1>1, <1>2, <1>3 DEF Known
<1>5. ASSUME NEW q \in Requests, su[q] = "pending"
      PROVE  \E i \in DOMAIN m : m[i] = q /\ \A j \in DOMAIN m : m[j] = q => j = i
  <2>1. CASE q = r
    <3>1. ASSUME NEW j \in DOMAIN m, m[j] = q PROVE j = Len(l) + 1
      BY <1>1, <1>3, <2>1, <3>1
    <3>2. Len(l) + 1 \in DOMAIN m /\ m[Len(l) + 1] = q
      BY <1>1, <2>1
    <3> QED BY <3>1, <3>2
  <2>2. CASE q # r
    <3>0. st[q] = "pending"
      BY <1>2, <1>5, <2>2
    <3>1. PICK i \in 1..Len(l) : l[i] = q /\ \A j \in 1..Len(l) : l[j] = q => j = i
      <4>1. \E i \in DOMAIN l : l[i] = q /\ \A j \in DOMAIN l : l[j] = q => j = i
        BY <3>0, Zenon DEF OnePlace
      <4> QED BY <1>1, <4>1
    <3>2. i \in DOMAIN m /\ m[i] = q
      BY <1>1, <3>1
    <3>3. \A j \in DOMAIN m : m[j] = q => j = i
      BY <1>1, <2>2, <3>1
    <3> QED BY <3>2, <3>3
  <2> QED BY <2>1, <2>2
<1> QED BY <1>4, <1>5 DEF OnePlace, m, su

\* No step of the queue forgets a request while the worker is open.
LEMMA LineStep ==
    ASSUME StateTypeOK, StateTypeOK', QueueStep, ~stopping',
           OnePlace(Pipeline, fut), Known(Pipeline, fut)
    PROVE  OnePlace(Pipeline', fut') /\ Known(Pipeline', fut')
<1> DEFINE l == Pipeline
           m == Pipeline'
<1>1. l \in Seq(Requests) /\ fut \in [Requests -> FutureStates]
  BY PipelineType DEF StateTypeOK
<1>2. m \in Seq(Requests) /\ fut' \in [Requests -> FutureStates]
  <2>1. /\ running' \in Seq(Requests) /\ batch' \in Seq(Requests)
        /\ queue' \in Seq(Requests) /\ Deferred' \in Seq(Requests)
    BY DEF StateTypeOK, Deferred
  <2> QED BY <2>1 DEF StateTypeOK, Pipeline
<1>3. CASE UNCHANGED Queue!queueVars
  BY <1>3, Zenon DEF Queue!queueVars
<1>4. ASSUME NEW r \in Requests, Queue!Accept(r)
      PROVE  OnePlace(m, fut') /\ Known(m, fut')
  <2>1. m = Append(l, r) /\ fut' = [fut EXCEPT ![r] = "pending"] /\ fut[r] = "new"
    BY <1>4 DEF Queue!Accept
  <2> HIDE DEF l, m
  <2> QED BY <1>1, <2>1, PlaceJoined DEF l
<1>5. CASE \/ \E r \in Requests : Queue!Refuse(r)
           \/ \E S \in SUBSET Requests : Queue!Abandon(S)
  <2>1. m = l
    BY <1>5 DEF Queue!Refuse, Queue!Abandon
  <2>2. \A q \in Requests : /\ fut'[q] = "pending" => fut[q] = "pending"
                            /\ fut'[q] = "new" => fut[q] = "new"
    <3>1. CASE \E r \in Requests : Queue!Refuse(r)
      BY <1>1, <3>1 DEF Queue!Refuse
    <3>2. CASE \E S \in SUBSET Requests : Queue!Abandon(S)
      BY <3>2 DEF Queue!Abandon
    <3> QED BY <1>5, <3>1, <3>2
  <2>3. OnePlace(l, fut) /\ Known(l, fut)
    OBVIOUS
  <2> HIDE DEF l, m
  <2>4. \A i \in DOMAIN l : l[i] \in Requests
    BY <1>1
  <2>5. OnePlace(l, fut')
    BY <2>2, <2>3, Zenon DEF OnePlace
  <2>6. Known(l, fut')
    BY <2>2, <2>3, <2>4, Zenon DEF Known
  <2> QED BY <2>1, <2>5, <2>6, Zenon DEF m
<1>6. ASSUME NEW i \in 1..Len(l), Queue!Leave(i)
      PROVE  OnePlace(m, fut') /\ Known(m, fut')
  <2>1. IF fut[l[i]] = "pending" THEN fut' = [fut EXCEPT ![l[i]] = "deadline"]
        ELSE fut' = fut
    BY <1>6 DEF Queue!Leave
  <2>2. OnePlace(l, fut) /\ Known(l, fut)
    OBVIOUS
  <2>3. Removed(l, m, i, i)
    BY <1>1, <1>6, LeaveRemoves
  <2> HIDE DEF l, m
  <2>4. Closed(l, fut, fut', i, i)
    BY <1>1, <2>1 DEF Closed
  <2> QED BY <1>1, <1>2, <2>2, <2>3, <2>4, PlacesLeft
<1>7. ASSUME Queue!Answer PROVE OnePlace(m, fut') /\ Known(m, fut')
  <2>1. /\ l # <<>> /\ m = Tail(l)
        /\ fut' = [fut EXCEPT ![Head(l)] = "result"]
    BY <1>7 DEF Queue!Answer
  <2>2. OnePlace(l, fut) /\ Known(l, fut)
    OBVIOUS
  <2> HIDE DEF l, m
  <2>3. Removed(l, m, 1, 1)
    BY <1>1, <2>1 DEF Removed
  <2>4. Closed(l, fut, fut', 1, 1)
    BY <1>1, <2>1 DEF Closed
  <2> QED BY <1>1, <1>2, <2>2, <2>3, <2>4, PlacesLeft
<1>8. ASSUME NEW n \in 1..Len(l), Queue!Fail(n)
      PROVE  OnePlace(m, fut') /\ Known(m, fut')
  <2>1. /\ m = SubSeq(l, n + 1, Len(l))
        /\ fut' = [r \in Requests |->
                     IF fut[r] = "pending" /\ \E i \in 1..n : l[i] = r
                     THEN "internal" ELSE fut[r]]
    BY <1>8 DEF Queue!Fail
  <2>2. OnePlace(l, fut) /\ Known(l, fut)
    OBVIOUS
  <2> HIDE DEF l, m
  <2>3. Removed(l, m, 1, n)
    BY <1>1, <2>1 DEF Removed
  <2>4. Closed(l, fut, fut', 1, n)
    <3>1. \A i \in 1..n : l[i] \in Requests
      BY <1>1
    <3> QED BY <1>1, <2>1, <3>1 DEF Closed
  <2> QED BY <1>1, <1>2, <2>2, <2>3, <2>4, PlacesLeft, SMTT(20)
<1>9. ASSUME NEW n, Queue!Forget(n) \/ Queue!Shut PROVE FALSE
  BY <1>9 DEF Queue!Forget, Queue!Shut
<1> QED BY <1>3, <1>4, <1>5, <1>6, <1>7, <1>8, <1>9 DEF QueueStep, Queue!Next

\* Until the shutdown everybody who waits has one place in the line.
LineKept == ~stopping => OnePlace(Pipeline, fut) /\ Known(Pipeline, fut)

LEMMA NobodyWaits == Init => LineKept
<1>1. Init => Pipeline = <<>>
  BY StartsEmpty DEF Queue!Init
<1> QED BY <1>1 DEF Init, LineKept, OnePlace, Known

LEMMA LineStays ==
    ASSUME StateTypeOK, StateTypeOK', QueueStep, LineKept PROVE LineKept'
<1> SUFFICES ASSUME ~stopping'
             PROVE  OnePlace(Pipeline', fut') /\ Known(Pipeline', fut')
  BY DEF LineKept, OnePlace, Known
<1>1. ~stopping
  BY DEF QueueStep, Queue!queueVars, Queue!Next, Queue!Accept, Queue!Refuse,
      Queue!Abandon, Queue!Leave, Queue!Answer, Queue!Fail, Queue!Forget,
      Queue!Shut
<1> QED BY <1>1, LineStep DEF LineKept

LEMMA LineTells == LineKept => NoRequestForgotten
BY DEF LineKept, OnePlace, NoRequestForgotten

\* Until shutdown no accepted request is lost, whatever the envelope's way
\* through the batcher (lines 101-148), and none is served twice.
THEOREM NobodyForgotten == Spec => []NoRequestForgotten
<1>1. Invariant /\ Invariant' /\ LineKept /\ [Next]_vars => LineKept'
  BY StepsAreQueueSteps, LineStays DEF Invariant, Inductive
<1> QED BY <1>1, NobodyWaits, LineTells, InvariantInductive, PTL DEF Spec

-----------------------------------------------------------------------------
(* The limits of a batch.                                                   *)

\* The requests of b carry n texts; o[k] of them belong to those after the k-th.
Weight(b, n) ==
    \E o \in [0..Len(b) -> Nat] :
        /\ o[Len(b)] = 0
        /\ \A k \in 1..Len(b) : o[k - 1] = o[k] + Size[b[k]]
        /\ o[0] = n

LEMMA WeightAppend ==
    ASSUME NEW b \in Seq(Requests), NEW n \in Nat, NEW r \in Requests, Weight(b, n)
    PROVE  Weight(Append(b, r), n + Size[r])
<1> DEFINE m == Append(b, r)
<1>1. /\ Len(b) \in Nat /\ Len(m) = Len(b) + 1 /\ m[Len(m)] = r
      /\ \A k \in 1..Len(b) : m[k] = b[k] /\ b[k] \in Requests
  OBVIOUS
<1>2. \A q \in Requests : Size[q] \in Nat
  BY BatcherAssumption
<1> HIDE DEF m
<1>3. PICK o \in [0..Len(b) -> Nat] :
        /\ o[Len(b)] = 0
        /\ \A k \in 1..Len(b) : o[k - 1] = o[k] + Size[b[k]]
        /\ o[0] = n
  BY DEF Weight
<1> DEFINE p == [k \in 0..Len(m) |-> IF k <= Len(b) THEN o[k] + Size[r] ELSE 0]
<1>4. p \in [0..Len(m) -> Nat]
  BY <1>1, <1>2
<1>5. p[Len(m)] = 0 /\ p[0] = n + Size[r]
  BY <1>1, <1>3
<1>6. ASSUME NEW k \in 1..Len(m) PROVE p[k - 1] = p[k] + Size[m[k]]
  <2>1. CASE k <= Len(b)
    <3>1. /\ p[k] = o[k] + Size[r] /\ p[k - 1] = o[k - 1] + Size[r]
          /\ m[k] = b[k] /\ k \in 1..Len(b) /\ o[k] \in Nat
          /\ Size[r] \in Nat /\ Size[b[k]] \in Nat
      BY <1>1, <1>2, <2>1
    <3>2. o[k - 1] = o[k] + Size[b[k]]
      BY <1>3, <3>1
    <3> QED BY <3>1, <3>2, SMTT(20)
  <2>2. CASE ~(k <= Len(b))
    <3>1. k = Len(m) /\ p[k - 1] = o[Len(b)] + Size[r] /\ p[k] = 0
      BY <1>1, <2>2, SMTT(20)
    <3> QED BY <1>1, <1>2, <1>3, <3>1
  <2> QED BY <2>1, <2>2
<1> HIDE DEF p
<1>7. Weight(m, n + Size[r])
  BY <1>4, <1>5, <1>6 DEF Weight
<1> QED BY <1>7 DEF m

LEMMA WeightTail ==
    ASSUME NEW b \in Seq(Requests), NEW n \in Nat, b # <<>>, Weight(b, n)
    PROVE  n - Size[Head(b)] \in Nat /\ Weight(Tail(b), n - Size[Head(b)])
<1> DEFINE t == Tail(b)
           s == Size[Head(b)]
<1>1. /\ Len(b) \in Nat /\ Len(b) >= 1 /\ Len(t) = Len(b) - 1 /\ Head(b) = b[1]
      /\ \A k \in 1..Len(t) : t[k] = b[k + 1]
      /\ b[1] \in Requests
  OBVIOUS
<1>2. \A q \in Requests : Size[q] \in Nat
  BY BatcherAssumption
<1> HIDE DEF t
<1>3. PICK o \in [0..Len(b) -> Nat] :
        /\ o[Len(b)] = 0
        /\ \A k \in 1..Len(b) : o[k - 1] = o[k] + Size[b[k]]
        /\ o[0] = n
  BY DEF Weight
<1>4. s \in Nat /\ o[1] \in Nat /\ n = o[1] + s
  <2>1. o[1 - 1] = o[1] + Size[b[1]]
    BY <1>1, <1>3
  <2> QED BY <1>1, <1>2, <1>3, <2>1, SMTT(20)
<1> DEFINE p == [k \in 0..Len(t) |-> o[k + 1]]
<1>5. p \in [0..Len(t) -> Nat] /\ p[Len(t)] = 0 /\ p[0] = o[1]
  BY <1>1, <1>3
<1>6. ASSUME NEW k \in 1..Len(t) PROVE p[k - 1] = p[k] + Size[t[k]]
  <2>1. /\ k + 1 \in 1..Len(b) /\ p[k] = o[k + 1] /\ p[k - 1] = o[k]
        /\ t[k] = b[k + 1] /\ k + 1 - 1 = k
    BY <1>1
  <2>2. o[k + 1 - 1] = o[k + 1] + Size[b[k + 1]]
    BY <1>3, <2>1
  <2> QED BY <2>1, <2>2
<1> HIDE DEF p, s
<1>7. Weight(t, o[1])
  BY <1>5, <1>6 DEF Weight
<1>8. o[1] = n - s
  BY <1>4
<1> QED BY <1>4, <1>7, <1>8 DEF t, s

Light == totalItems <= MaxBatchItems

Limits ==
    /\ Len(running) + Len(batch) <= MaxBatchRequests
    /\ pc \in {"collect", "wait"} =>
         Weight(batch, totalItems) /\ (Light \/ Len(batch) <= 1)
    /\ pc = "wait" => RoomInBatch
    /\ pc = "filter" =>
         /\ \E n \in Nat : Weight(batch, n) /\ Len(flattened) + n <= totalItems
         /\ Light \/ Len(running) + Len(batch) <= 1
         /\ running = <<>> => flattened = <<>>
    /\ pc \in {"exec", "deliver"} =>
         Len(flattened) <= MaxBatchItems \/ Len(running) <= 1
    /\ pc \notin {"filter", "exec", "deliver"} => flattened = <<>>

LEMMA LimitsStep ==
    ASSUME Invariant, Limits, [Next]_vars PROVE Limits'
<1> USE DEF loopVars, collectVars, execVars
<1>1. /\ queue \in Seq(Requests) /\ batch \in Seq(Requests)
      /\ running \in Seq(Requests) /\ flattened \in Seq(Texts)
      /\ totalItems \in Nat /\ pc \in PCs /\ nextEnvelope \in Requests \cup {None}
      /\ \A r \in Requests : Size[r] \in Nat
  BY BatcherAssumption DEF Invariant, Inductive, StateTypeOK
<1>2. /\ Len(batch) \in Nat /\ Len(running) \in Nat /\ Len(flattened) \in Nat
      /\ MaxBatchRequests \in Nat \ {0} /\ MaxBatchItems \in Nat \ {0}
  BY <1>1, BatcherAssumption
<1>3. /\ Weight(<<>>, 0)
      /\ \A r \in Requests : Weight(<<r>>, Size[r])
  <2>1. Weight(<<>>, 0)
    <3> DEFINE o == [k \in 0..0 |-> 0]
    <3>1. /\ o \in [0..Len(<<>>) -> Nat] /\ o[0] = 0 /\ o[Len(<<>>)] = 0
          /\ \A k \in 1..Len(<<>>) : o[k - 1] = o[k] + Size[<<>>[k]]
      OBVIOUS
    <3> QED BY <3>1 DEF Weight
  <2>2. ASSUME NEW r \in Requests PROVE Weight(<<r>>, Size[r])
    <3> DEFINE e == <<>>
               n == 0
    <3>1. e \in Seq(Requests) /\ n \in Nat /\ Append(e, r) = <<r>>
          /\ n + Size[r] = Size[r]
      BY <1>1, EmptySeq
    <3> HIDE DEF e, n
    <3>2. Weight(Append(e, r), n + Size[r])
      BY <2>1, <3>1, WeightAppend, Zenon DEF e, n
    <3> QED BY <3>1, <3>2, Zenon
  <2> QED BY <2>1, <2>2
<1>4. ASSUME UNCHANGED <<pc, running, batch, totalItems, flattened>> PROVE Limits'
  BY <1>4 DEF Limits, Light, RoomInBatch, Weight
<1>5. ASSUME NEW r \in Requests, Enqueue(r) PROVE Limits'
  <2>1. UNCHANGED <<running, batch, totalItems, flattened>> /\ pc' = AfterStart
    BY <1>5, Zenon DEF Enqueue
  <2>2. CASE pc \in {"none", "done"}
    BY <1>2, <2>1, <2>2 DEF AfterStart, Limits, Invariant, Places
  <2>3. CASE pc \notin {"none", "done"}
    BY <1>4, <2>1, <2>3 DEF AfterStart
  <2> QED BY <2>2, <2>3
<1>6. CASE \/ \E r \in Requests : EnqueueRefused(r) \/ CancelRpc(r)
                                    \/ DeadlinePasses(r)
           \/ Close \/ CloseReturns \/ ExecutorFinishes \/ Quiescent
           \/ UNCHANGED vars
  BY <1>4, <1>6, Zenon DEF vars, EnqueueRefused, CancelRpc, DeadlinePasses,
      Close, CloseReturns, ExecutorFinishes, Quiescent
<1>7. CASE LoopStart \/ AwaitFirst \/ LoopExit \/ BatchSettled \/ NothingValid
  <2>1. /\ running = <<>> /\ batch = <<>> /\ UNCHANGED <<running, batch>>
        /\ flattened' = <<>>
        /\ pc' \in {"done", "top", "get"}
    BY <1>7 DEF LoopStart, AwaitFirst, LoopExit, BatchSettled, NothingValid,
        EndsLoop, Limits, Invariant, Places
  <2> QED BY <1>2, <2>1 DEF Limits
<1>8. CASE AwaitMore
  BY <1>2, <1>8 DEF AwaitMore, Limits, Light, RoomInBatch, Weight
<1>9. CASE EndCollect
  <2>1. /\ UNCHANGED <<running, batch, totalItems, flattened>> /\ pc' = "filter"
        /\ running = <<>> /\ flattened = <<>>
        /\ Weight(batch, totalItems) /\ (Light \/ Len(batch) <= 1)
        /\ Len(batch) <= MaxBatchRequests
    BY <1>9, <1>2 DEF EndCollect, CollectEnds, Limits, Invariant, Places
  <2>2. Weight(batch', totalItems) /\ totalItems \in Nat /\ Len(flattened') = 0
    BY <1>1, <2>1 DEF Weight
  <2> QED BY <1>1, <1>2, <2>1, <2>2 DEF Limits, Light
<1>10. CASE FetchDeferred \/ FetchQueued
  <2>1. PICK r \in Requests : OpenBatch(r)
    BY <1>1, <1>10 DEF FetchDeferred, FetchQueued
  <2>2. /\ running = <<>> /\ batch = <<>> /\ flattened = <<>>
        /\ UNCHANGED <<running, flattened>>
    BY <1>10 DEF FetchDeferred, FetchQueued, GetsFirst, Limits, Invariant, Places
  <2>3. CASE pc' = "top" /\ UNCHANGED <<batch, totalItems>>
    BY <1>2, <2>2, <2>3 DEF Limits
  <2>4. CASE batch' = <<r>> /\ totalItems' = Size[r] /\ pc' = "collect"
    <3>1. Weight(batch', totalItems') /\ Len(batch') = 1
      BY <1>3, <2>4 DEF Weight
    <3> QED BY <1>2, <2>2, <2>4, <3>1 DEF Limits
  <2> QED BY <2>1, <2>3, <2>4 DEF OpenBatch
<1>11. CASE CollectQueued
  <2>1. /\ RoomInBatch /\ pc \in {"collect", "wait"}
        /\ Weight(batch, totalItems) /\ (Light \/ Len(batch) <= 1)
        /\ running = <<>> /\ flattened = <<>>
    BY <1>11 DEF CollectQueued, Limits, Invariant, Places
  <2>2. Head(queue) \in Requests /\ UNCHANGED <<running, flattened>>
    BY <1>1, <1>11 DEF CollectQueued
  <2> DEFINE r == Head(queue)
  <2>3. \/ UNCHANGED <<batch, totalItems>> /\ pc' = "collect"
        \/ UNCHANGED <<batch, totalItems>> /\ pc' = "filter"
        \/ /\ totalItems + Size[r] <= MaxBatchItems
           /\ batch' = Append(batch, r) /\ totalItems' = totalItems + Size[r]
           /\ pc' = "collect"
    BY <1>11 DEF CollectQueued, ExtendBatch, DeferEnvelope
  <2> HIDE DEF r
  <2>4. CASE UNCHANGED <<batch, totalItems>> /\ pc' = "collect"
    <3>1. Weight(batch', totalItems')
      BY <2>1, <2>4 DEF Weight
    <3> QED BY <1>2, <2>1, <2>2, <2>4, <3>1 DEF Limits, Light
  <2>5. CASE UNCHANGED <<batch, totalItems>> /\ pc' = "filter"
    <3>1. /\ Weight(batch', totalItems) /\ totalItems \in Nat /\ Len(flattened') = 0
          /\ Len(batch) <= MaxBatchRequests
      BY <1>1, <1>2, <2>1, <2>2, <2>5 DEF Weight, Limits
    <3> QED BY <1>1, <1>2, <2>1, <2>2, <2>5, <3>1 DEF Limits, Light
  <2>6. CASE /\ totalItems + Size[r] <= MaxBatchItems
             /\ batch' = Append(batch, r) /\ totalItems' = totalItems + Size[r]
             /\ pc' = "collect"
    <3>0. r \in Requests /\ totalItems \in Nat
      BY <1>1, <2>2 DEF r
    <3>1. Weight(Append(batch, r), totalItems + Size[r])
      BY <1>1, <2>1, <3>0, WeightAppend, Zenon
    <3>2. Weight(batch', totalItems')
      BY <2>6, <3>1 DEF Weight
    <3>3. Len(batch') = Len(batch) + 1 /\ Len(batch) < MaxBatchRequests
      BY <1>1, <2>1, <2>6 DEF RoomInBatch
    <3> QED BY <1>2, <2>1, <2>2, <2>6, <3>2, <3>3 DEF Limits, Light
  <2> QED BY <2>3, <2>4, <2>5, <2>6
<1>12. CASE FilterOne
  <2> DEFINE r == Head(batch)
  <2>1. /\ pc = "filter" /\ batch # <<>> /\ batch' = Tail(batch) /\ r \in Requests
        /\ UNCHANGED <<pc, totalItems>>
    BY <1>1, <1>12 DEF FilterOne
  <2>2. PICK n \in Nat : Weight(batch, n) /\ Len(flattened) + n <= totalItems
    BY <2>1 DEF Limits
  <2>3. \/ UNCHANGED <<running, flattened>>
        \/ running' = Append(running, r) /\ flattened' = flattened \o Inputs(r)
    BY <1>12 DEF FilterOne
  <2>4. Size[r] \in Nat /\ Len(batch') = Len(batch) - 1
    BY <1>1, <2>1
  <2>5. n - Size[r] \in Nat /\ Weight(batch', n - Size[r])
    <3>1. n - Size[r] \in Nat /\ Weight(Tail(batch), n - Size[r])
      BY <1>1, <2>1, <2>2, WeightTail
    <3> QED BY <2>1, <3>1 DEF Weight
  <2>6. Inputs(r) \in Seq(Texts) /\ Len(Inputs(r)) = Size[r]
    BY <2>1, InputsType
  <2> HIDE DEF r
  <2>7. CASE UNCHANGED <<running, flattened>>
    <3>1. Len(flattened') + (n - Size[r]) <= totalItems
      BY <1>1, <1>2, <2>2, <2>4, <2>5, <2>7, SMTT(20)
    <3>2. \E m \in Nat : Weight(batch', m) /\ Len(flattened') + m <= totalItems'
      BY <2>1, <2>4, <2>5, <3>1
    <3>3. /\ Light' \/ Len(running') + Len(batch') <= 1
          /\ running' = <<>> => flattened' = <<>>
          /\ Len(running') + Len(batch') <= MaxBatchRequests
      BY <1>2, <2>1, <2>4, <2>7 DEF Limits, Light
    <3> QED BY <2>1, <3>2, <3>3 DEF Limits
  <2>8. CASE running' = Append(running, r) /\ flattened' = flattened \o Inputs(r)
    <3>0. r \in Requests
      BY <2>1 DEF r
    <3>1. /\ Len(flattened') = Len(flattened) + Size[r]
          /\ Len(running') = Len(running) + 1 /\ running' # <<>>
      <4> DEFINE i == Inputs(r)
      <4>1. i \in Seq(Texts) /\ Len(i) = Size[r]
        BY <2>6
      <4>2. Len(running') = Len(running) + 1 /\ running' # <<>>
        <5> DEFINE s == Append(running, r)
        <5>1. s \in Seq(Requests) /\ Len(s) = Len(running) + 1
          BY <1>1, <3>0
        <5> HIDE DEF s
        <5>2. s # <<>>
          BY <1>2, <5>1, EmptySeq
        <5> QED BY <2>8, <5>1, <5>2, Zenon DEF s
      <4> HIDE DEF i
      <4>3. Len(flattened \o i) = Len(flattened) + Len(i)
        BY <1>1, <4>1, ConcatProperties, Zenon
      <4> QED BY <2>8, <4>1, <4>2, <4>3, Zenon DEF i
    <3>2. Len(flattened') + (n - Size[r]) <= totalItems
      BY <1>1, <1>2, <2>2, <2>4, <2>5, <3>1, SMTT(20)
    <3>3. \E m \in Nat : Weight(batch', m) /\ Len(flattened') + m <= totalItems'
      BY <2>1, <2>4, <2>5, <3>2
    <3>4. /\ Light' \/ Len(running') + Len(batch') <= 1
          /\ Len(running') + Len(batch') <= MaxBatchRequests
      BY <1>2, <2>1, <2>4, <3>1 DEF Limits, Light
    <3> QED BY <2>1, <3>1, <3>3, <3>4 DEF Limits
  <2> QED BY <2>3, <2>7, <2>8
<1>13. CASE Submit
  <2>1. /\ pc = "filter" /\ batch = <<>> /\ pc' = "exec"
        /\ UNCHANGED <<batch, running, flattened>>
    BY <1>13 DEF Submit
  <2>2. PICK n \in Nat : Weight(batch, n) /\ Len(flattened) + n <= totalItems
    BY <2>1 DEF Limits
  <2>3. n = 0
    BY <2>1, <2>2 DEF Weight
  <2> QED BY <1>1, <1>2, <2>1, <2>2, <2>3 DEF Limits, Light
<1>14. CASE CancelledInExec \/ InferenceFailed
  <2>1. /\ running' = <<>> /\ flattened' = <<>> /\ batch' = <<>>
        /\ pc' \in {"done", "top"}
    BY <1>14, Zenon DEF CancelledInExec, InferenceFailed, Invariant, Places
  <2> QED BY <1>2, <2>1 DEF Limits
<1>15. CASE InferenceDone
  BY <1>15 DEF InferenceDone, Limits
<1>16. CASE DeliverOne
  <2>1. /\ Len(running') = Len(running) - 1 /\ UNCHANGED <<batch, pc, flattened>>
        /\ pc = "deliver"
    BY <1>1, <1>16 DEF DeliverOne
  <2> QED BY <1>2, <2>1 DEF Limits
<1> QED BY <1>5, <1>6, <1>7, <1>8, <1>9, <1>10, <1>11, <1>12, <1>13, <1>14, <1>15,
           <1>16 DEF Next, RunLoop

LEMMA LimitsInit == Init => Limits
BY BatcherAssumption DEF Init, Limits

LEMMA LimitsTell ==
    ASSUME Invariant, Limits PROVE BatchWithinLimits
<1> SUFFICES ASSUME Len(flattened) > MaxBatchItems
             PROVE  Len(running) + Len(batch) <= 1
  BY DEF Limits, BatchWithinLimits
<1>1. /\ Len(flattened) \in Nat /\ totalItems \in Nat
      /\ MaxBatchItems \in Nat /\ pc \in PCs
      /\ Len(batch) \in Nat /\ Len(running) \in Nat
  BY BatcherAssumption DEF Invariant, Inductive, StateTypeOK
<1>2. CASE pc = "filter"
  BY <1>1, <1>2 DEF Limits, Light
<1>3. CASE pc \in {"exec", "deliver"}
  <2>1. batch = <<>>
    BY <1>3 DEF Invariant, Places
  <2> QED BY <1>1, <1>3, <2>1 DEF Limits
<1>4. CASE pc \notin {"filter", "exec", "deliver"}
  BY <1>1, <1>4 DEF Limits
<1> QED BY <1>2, <1>3, <1>4

\* What the executor is given keeps to the limits, although its batch may open
\* with a deferred envelope of any size and lose members before it runs
\* (lines 118-148 and 160-173).
THEOREM WithinLimits == Spec => []BatchWithinLimits
BY LimitsInit, LimitsStep, LimitsTell, InvariantInductive, PTL DEF Spec

-----------------------------------------------------------------------------
(* The order of service.                                                    *)

Sorted(l, tk) == \A i, j \in DOMAIN l : i < j => tk[l[i]] < tk[l[j]]

\* All but the first n are yet to be handed to the executor.
Unserved(l, tk, run, n) == \A i \in DOMAIN l : i > n => tk[l[i]] > run

\* Those in line have a ticket that was given out.
Ticketed(l, tk, st, count) ==
    \A i \in DOMAIN l : tk[l[i]] <= count /\ st[l[i]] # "new"

\* How many of the line the executor has been given.
Served == IF pc \in {"exec", "deliver"} THEN Len(running) ELSE 0

Order ==
    /\ Sorted(Pipeline, ticket)
    /\ Unserved(Pipeline, ticket, lastRun, Served)
    /\ Ticketed(Pipeline, ticket, fut, arrivals)
    /\ lastRun <= arrivals

OrderAfter(m) ==
    /\ Sorted(m, ticket')
    /\ Unserved(m, ticket', lastRun', Served')
    /\ Ticketed(m, ticket', fut', arrivals')
    /\ lastRun' <= arrivals'

\* Removing some keeps the order of the rest; the count of those served shrinks
\* with the head of the line.
LEMMA OrderLeft ==
    ASSUME NEW l \in Seq(Requests), NEW m \in Seq(Requests), NEW tk, NEW run,
           NEW st, NEW su, NEW count,
           NEW n \in Nat, NEW p \in Nat, NEW first \in Nat, NEW last \in Nat,
           Removed(l, m, first, last),
           (n = 0 /\ p = 0) \/ (first = 1 /\ n = p + last),
           \A r \in Requests : su[r] = "new" => st[r] = "new",
           Sorted(l, tk), Unserved(l, tk, run, n), Ticketed(l, tk, st, count)
    PROVE  Sorted(m, tk) /\ Unserved(m, tk, run, p) /\ Ticketed(m, tk, su, count)
<1> DEFINE d == last + 1 - first
           from(k) == IF k < first THEN k ELSE k + d
<1>1. d \in Nat /\ d >= 1 /\ DOMAIN l = 1..Len(l) /\ DOMAIN m = 1..Len(m)
  BY DEF Removed
<1>2. \A k \in 1..Len(m) : from(k) \in 1..Len(l) /\ m[k] = l[from(k)]
  BY DEF Removed
<1>3. \A i, j \in 1..Len(m) : i < j => from(i) < from(j)
  BY <1>1
<1>4. \A k \in 1..Len(m) : k > p => from(k) > n
  BY <1>1 DEF Removed
<1>5. \A k \in 1..Len(l) : l[k] \in Requests
  OBVIOUS
<1> HIDE DEF from, d
<1>6. Sorted(m, tk)
  BY <1>1, <1>2, <1>3 DEF Sorted
<1>7. Unserved(m, tk, run, p)
  BY <1>1, <1>2, <1>4 DEF Unserved
<1>8. Ticketed(m, tk, su, count)
  BY <1>1, <1>2, <1>5 DEF Ticketed
<1> QED BY <1>6, <1>7, <1>8

LEMMA LoopMoveKeepsOrder ==
    ASSUME StateTypeOK, Order, LoopMove, Served' = Served,
           Served = 0 \/ Pipeline' = Pipeline,
           UNCHANGED <<ticket, arrivals, lastRun>>
    PROVE  OrderAfter(Pipeline')
<1>1. Pipeline \in Seq(Requests) /\ fut \in [Requests -> FutureStates]
  BY PipelineType DEF StateTypeOK
<1>2. CASE Pipeline' = Pipeline /\ UNCHANGED <<fut, answer, stopping>>
  BY <1>2 DEF Order, OrderAfter
<1>3. ASSUME NEW i \in 1..Len(Pipeline), Queue!Leave(i)
      PROVE  OrderAfter(Pipeline')
  <2> DEFINE l == Pipeline
             m == Pipeline'
  <2>1. m \in Seq(Requests) /\ Removed(l, m, i, i) /\ Len(m) = Len(l) - 1
    BY <1>1, <1>3, LeaveRemoves DEF Removed
  <2>2. \A r \in Requests : fut'[r] = "new" => fut[r] = "new"
    BY <1>1, <1>3 DEF Queue!Leave
  <2>3. m # l
    BY <1>1, <2>1
  <2>4. Served = 0 /\ Served' = 0
    BY <2>3
  <2>5. /\ Sorted(l, ticket) /\ Unserved(l, ticket, lastRun, 0)
        /\ Ticketed(l, ticket, fut, arrivals)
    BY <2>4 DEF Order
  <2> HIDE DEF l, m
  <2> DEFINE z == 0
  <2>6. z \in Nat /\ i \in Nat
    OBVIOUS
  <2>7. Unserved(l, ticket, lastRun, z) /\ z = 0
    BY <2>5
  <2> HIDE DEF z
  <2>8. /\ Sorted(m, ticket) /\ Unserved(m, ticket, lastRun, z)
        /\ Ticketed(m, ticket, fut', arrivals)
    BY <1>1, <2>1, <2>2, <2>5, <2>6, <2>7, OrderLeft, ZenonT(30) DEF l
  <2> QED BY <2>4, <2>7, <2>8 DEF Order, OrderAfter, m
<1> QED BY <1>2, <1>3 DEF LoopMove

LEMMA EnqueueKeepsOrder ==
    ASSUME Invariant, Order, NEW r \in Requests, Enqueue(r)
    PROVE  OrderAfter(Pipeline')
<1> DEFINE l == Pipeline
           front == running \o batch \o Deferred
<1>1. /\ l \in Seq(Requests) /\ front \in Seq(Requests) /\ queue \in Seq(Requests)
      /\ ticket \in [Requests -> Nat] /\ fut \in [Requests -> FutureStates]
      /\ arrivals \in Nat /\ lastRun \in Nat /\ Len(running) \in Nat
  BY PipelineType DEF Invariant, Inductive, StateTypeOK
<1>2. /\ fut[r] = "new" /\ fut' = [fut EXCEPT ![r] = "pending"]
      /\ ticket' = [ticket EXCEPT ![r] = arrivals + 1] /\ arrivals' = arrivals + 1
      /\ lastRun' = lastRun /\ UNCHANGED <<nextEnvelope, batch, running>>
      /\ queue' = Append(queue, r) /\ pc' = AfterStart
  BY DEF Enqueue, collectVars, execVars
<1>3. Served' = Served /\ Served \in Nat
  BY <1>1, <1>2 DEF Served, AfterStart
<1>4. Pipeline' = Append(l, r)
  <2>1. Pipeline' = front \o Append(queue, r) /\ l = front \o queue
    BY <1>2 DEF Pipeline, Deferred
  <2> HIDE DEF front, l
  <2>2. front \o Append(queue, r) = Append(front \o queue, r)
    BY <1>1, AppendMoves, SMTT(20)
  <2> QED BY <2>1, <2>2, Zenon
<1>5. /\ Sorted(l, ticket) /\ Unserved(l, ticket, lastRun, Served)
      /\ Ticketed(l, ticket, fut, arrivals)
  BY DEF Order
<1>6. lastRun <= arrivals
  BY DEF Order
<1> HIDE DEF l
<1> DEFINE m == Append(l, r)
<1>7. /\ DOMAIN m = 1..(Len(l) + 1) /\ DOMAIN l = 1..Len(l) /\ Len(l) \in Nat
      /\ m[Len(l) + 1] = r
      /\ \A k \in 1..Len(l) : m[k] = l[k] /\ l[k] \in Requests
  BY <1>1
<1> HIDE DEF m
<1>8. \A k \in 1..Len(l) : /\ m[k] # r /\ ticket'[m[k]] = ticket[l[k]]
                           /\ ticket[l[k]] <= arrivals /\ ticket[l[k]] \in Nat
                           /\ fut'[m[k]] = fut[l[k]] /\ fut[l[k]] # "new"
  BY <1>1, <1>2, <1>5, <1>7 DEF Ticketed
<1>9. ticket'[m[Len(l) + 1]] = arrivals + 1 /\ fut'[m[Len(l) + 1]] = "pending"
  BY <1>1, <1>2, <1>7
<1>10. ASSUME NEW k \in DOMAIN m PROVE k \in 1..Len(l) \/ k = Len(l) + 1
  BY <1>7
<1>11. Sorted(m, ticket')
  <2>1. ASSUME NEW i \in DOMAIN m, NEW j \in DOMAIN m, i < j
        PROVE  ticket'[m[i]] < ticket'[m[j]]
    <3>1. i \in 1..Len(l)
      BY <1>7, <2>1
    <3>2. CASE j \in 1..Len(l)
      <4>1. ticket[l[i]] < ticket[l[j]]
        BY <1>5, <1>7, <2>1, <3>1, <3>2 DEF Sorted
      <4> QED BY <1>8, <3>1, <3>2, <4>1
    <3>3. CASE j = Len(l) + 1
      <4>1. /\ ticket'[m[i]] = ticket[l[i]] /\ ticket[l[i]] <= arrivals
            /\ ticket[l[i]] \in Nat
        BY <1>8, <3>1, Zenon
      <4>2. ticket'[m[j]] = arrivals + 1 /\ arrivals \in Nat
        BY <1>1, <1>9, <3>3
      <4> QED BY <4>1, <4>2
    <3> QED BY <1>10, <3>2, <3>3
  <2> QED BY <2>1 DEF Sorted
<1>12. Unserved(m, ticket', lastRun, Served)
  <2>1. ASSUME NEW k \in DOMAIN m, k > Served PROVE ticket'[m[k]] > lastRun
    <3>1. CASE k \in 1..Len(l)
      <4>1. ticket[l[k]] > lastRun
        BY <1>5, <1>7, <2>1, <3>1 DEF Unserved
      <4> QED BY <1>8, <3>1, <4>1
    <3>2. CASE k = Len(l) + 1
      BY <1>1, <1>6, <1>9, <3>2
    <3> QED BY <1>10, <3>1, <3>2
  <2> QED BY <2>1 DEF Unserved
<1>13. Ticketed(m, ticket', fut', arrivals')
  <2>1. ASSUME NEW k \in DOMAIN m
        PROVE  ticket'[m[k]] <= arrivals' /\ fut'[m[k]] # "new"
    <3>1. CASE k \in 1..Len(l)
      <4>1. /\ ticket'[m[k]] = ticket[l[k]] /\ ticket[l[k]] <= arrivals
            /\ ticket[l[k]] \in Nat /\ fut'[m[k]] = fut[l[k]] /\ fut[l[k]] # "new"
        BY <1>8, <3>1, Zenon
      <4>2. arrivals' = arrivals + 1 /\ arrivals \in Nat
        BY <1>1, <1>2, Zenon
      <4> QED BY <4>1, <4>2
    <3>2. CASE k = Len(l) + 1
      BY <1>1, <1>2, <1>9, <3>2
    <3> QED BY <1>10, <3>1, <3>2
  <2> QED BY <2>1 DEF Ticketed
<1> QED BY <1>1, <1>2, <1>3, <1>4, <1>6, <1>11, <1>12, <1>13 DEF OrderAfter, m

\* Submitting a batch raises the mark to the last of the batch, and everybody
\* behind it has a higher ticket.
LEMMA SubmitKeepsOrder ==
    ASSUME Invariant, Order, Submit PROVE OrderAfter(Pipeline')
<1> DEFINE n == Len(running)
           rest == Deferred \o queue
<1>1. /\ running \in Seq(Requests) /\ Deferred \in Seq(Requests)
      /\ queue \in Seq(Requests) /\ Pipeline \in Seq(Requests)
      /\ ticket \in [Requests -> Nat] /\ lastRun \in Nat /\ arrivals \in Nat
  BY PipelineType DEF Invariant, Inductive, StateTypeOK
<1>2. /\ batch = <<>> /\ running # <<>> /\ pc' = "exec"
      /\ lastRun' = ticket[running[n]]
      /\ UNCHANGED <<queue, nextEnvelope, batch, running, fut, ticket, arrivals>>
  BY DEF Submit, execVars, futureVars
<1>3. Pipeline = running \o rest
  BY <1>2, BatchEmpty DEF Invariant, Inductive
<1>4. rest \in Seq(Requests)
  BY <1>1, ConcatProperties
<1> HIDE DEF rest
<1>5. n \in 1..Len(Pipeline) /\ DOMAIN Pipeline = 1..Len(Pipeline)
      /\ Pipeline[n] = running[n]
  BY <1>1, <1>2, <1>3, <1>4
<1>6. Pipeline' = Pipeline /\ Served' = n
  BY <1>2 DEF Pipeline, Deferred, Served
<1> HIDE DEF n
<1>7. Unserved(Pipeline, ticket, lastRun', n)
  BY <1>2, <1>5 DEF Order, Sorted, Unserved
<1>8. lastRun' <= arrivals
  BY <1>2, <1>5 DEF Order, Ticketed
<1> QED BY <1>2, <1>6, <1>7, <1>8 DEF Order, OrderAfter

LEMMA BatchLeavesInOrder ==
    ASSUME Invariant, Order, DeliverOne \/ InferenceFailed \/ CancelledInExec
    PROVE  OrderAfter(Pipeline')
<1> DEFINE l == Pipeline
           m == Pipeline'
           n == Served
           p == Served'
           first == 1
<1>1. /\ l \in Seq(Requests) /\ running \in Seq(Requests)
      /\ fut \in [Requests -> FutureStates]
  BY PipelineType DEF Invariant, Inductive, StateTypeOK
<1>2. /\ UNCHANGED <<ticket, arrivals, lastRun>>
      /\ \A r \in Requests : fut'[r] = "new" => fut[r] = "new"
  BY <1>1 DEF DeliverOne, InferenceFailed, CancelledInExec, historyVars,
      futureVars, Dropped, FailOpen
<1>3. \E last \in Nat :
        /\ Removed(l, m, first, last) /\ n \in Nat /\ p \in Nat /\ n = p + last
        /\ m \in Seq(Requests)
  <2>1. CASE DeliverOne
    <3>1. l # <<>> /\ m = Tail(l) /\ running # <<>>
      BY <2>1, HeadLeaves, Zenon
    <3>2. n = Len(running) /\ p = Len(running) - 1
      BY <1>1, <2>1 DEF DeliverOne, Served
    <3> HIDE DEF l, m, n, p
    <3>3. Removed(l, m, 1, 1) /\ m \in Seq(Requests)
      BY <1>1, <3>1 DEF Removed
    <3>4. n \in Nat /\ p \in Nat /\ n = p + 1
      BY <1>1, <3>1, <3>2
    <3> QED BY <3>3, <3>4
  <2>2. CASE InferenceFailed \/ CancelledInExec
    <3>1. /\ pc = "exec" /\ running' = <<>> /\ pc' \in {"top", "done"}
          /\ UNCHANGED <<queue, nextEnvelope, batch>>
      BY <2>2 DEF InferenceFailed, CancelledInExec, collectVars
    <3>2. n = Len(running) /\ p = 0
      BY <3>1 DEF Served
    <3>3. n \in 1..Len(l) /\ m = SubSeq(l, n + 1, Len(l))
      BY <3>1, <3>2, BatchGone
    <3> HIDE DEF l, m, n, p
    <3>4. Removed(l, m, 1, n) /\ m \in Seq(Requests)
      BY <1>1, <3>3 DEF Removed
    <3> QED BY <3>2, <3>3, <3>4
  <2> QED BY <2>1, <2>2
<1>4. /\ Sorted(l, ticket) /\ Unserved(l, ticket, lastRun, n)
      /\ Ticketed(l, ticket, fut, arrivals)
  BY DEF Order
<1>5. first = 1 /\ first \in Nat
  OBVIOUS
<1> HIDE DEF l, m, n, p, first
<1>6. PICK last \in Nat :
        /\ Removed(l, m, first, last) /\ n \in Nat /\ p \in Nat /\ n = p + last
        /\ m \in Seq(Requests)
  BY <1>3
<1>7. /\ Sorted(m, ticket) /\ Unserved(m, ticket, lastRun, p)
      /\ Ticketed(m, ticket, fut', arrivals)
  BY <1>1, <1>2, <1>4, <1>5, <1>6, OrderLeft
<1> QED BY <1>2, <1>7 DEF Order, OrderAfter, m, p

LEMMA OrderStep ==
    ASSUME Invariant, Order, [Next]_vars PROVE OrderAfter(Pipeline')
<1> USE DEF loopVars, collectVars, execVars, closeVars, futureVars, historyVars
<1>1. StateTypeOK /\ Places
  BY DEF Invariant, Inductive
<1>2. ASSUME NEW r \in Requests, Enqueue(r) PROVE OrderAfter(Pipeline')
  BY <1>2, EnqueueKeepsOrder
<1>3. CASE \/ \E r \in Requests : EnqueueRefused(r) \/ CancelRpc(r)
           \/ Close
  <2>1. /\ UNCHANGED <<queue, nextEnvelope, batch, running, pc, ticket, arrivals,
                       lastRun>>
        /\ \A r \in Requests : fut'[r] = "new" => fut[r] = "new"
    BY <1>1, <1>3 DEF EnqueueRefused, CancelRpc, Close, StateTypeOK
  <2>2. Pipeline' = Pipeline /\ Served' = Served
    BY <2>1, KeepsLine DEF Served
  <2>3. Pipeline \in Seq(Requests)
    BY <1>1, PipelineType
  <2>4. Ticketed(Pipeline, ticket, fut', arrivals)
    <3> DEFINE l == Pipeline
    <3>1. \A i \in DOMAIN l : l[i] \in Requests
      BY <2>3
    <3>2. Ticketed(l, ticket, fut, arrivals)
      BY DEF Order
    <3> HIDE DEF l
    <3>3. Ticketed(l, ticket, fut', arrivals)
      BY <2>1, <3>1, <3>2 DEF Ticketed
    <3> QED BY <3>3 DEF l
  <2> QED BY <2>1, <2>2, <2>4 DEF Order, OrderAfter
<1>4. CASE FetchDeferred \/ FetchQueued \/ CollectQueued \/ FilterOne
  <2>1. LoopMove
    BY <1>4, DeferredFetched, QueuedFetched, Collected, Filtered
  <2>2. UNCHANGED <<ticket, arrivals, lastRun>>
    BY <1>4, Zenon DEF FetchDeferred, FetchQueued, CollectQueued, FilterOne
  <2>3. pc \notin {"exec", "deliver"} /\ pc' \notin {"exec", "deliver"}
    BY <1>4 DEF FetchDeferred, FetchQueued, GetsFirst, CollectQueued, FilterOne,
        OpenBatch, ExtendBatch, DeferEnvelope
  <2> QED BY <1>1, <2>1, <2>2, <2>3, LoopMoveKeepsOrder DEF Served
<1>5. CASE \/ \E r \in Requests : DeadlinePasses(r)
           \/ CloseReturns \/ LoopStart \/ AwaitFirst \/ LoopExit \/ AwaitMore
           \/ EndCollect \/ NothingValid \/ ExecutorFinishes
           \/ InferenceDone \/ BatchSettled \/ Quiescent \/ UNCHANGED vars
  <2>1. UNCHANGED <<queue, nextEnvelope, batch, running, fut, ticket, arrivals,
                    lastRun, answer, stopping>>
    BY <1>5, Zenon DEF DeadlinePasses, CloseReturns, LoopStart, AwaitFirst,
        LoopExit, AwaitMore, EndCollect, NothingValid, ExecutorFinishes,
        InferenceDone, BatchSettled, Quiescent, vars
  <2>2. Pipeline' = Pipeline
    BY <2>1, KeepsLine
  <2>3. Served' = Served
    <3>1. CASE \/ \E r \in Requests : DeadlinePasses(r)
               \/ CloseReturns \/ ExecutorFinishes \/ Quiescent \/ UNCHANGED vars
      <4>1. UNCHANGED <<pc, running>>
        BY <3>1, Zenon DEF DeadlinePasses, CloseReturns, ExecutorFinishes,
            Quiescent, vars
      <4> QED BY <4>1 DEF Served
    <3>2. CASE LoopStart \/ AwaitFirst \/ LoopExit \/ AwaitMore \/ EndCollect
               \/ NothingValid
      BY <3>2 DEF LoopStart, AwaitFirst, LoopExit, AwaitMore, EndCollect,
          NothingValid, EndsLoop, CollectEnds, Served
    <3>3. CASE InferenceDone
      BY <3>3 DEF InferenceDone, Served
    <3>4. CASE BatchSettled
      BY <3>4 DEF BatchSettled, Served
    <3> QED BY <1>5, <3>1, <3>2, <3>3, <3>4
  <2> QED BY <1>1, <2>1, <2>2, <2>3, Stutters, LoopMoveKeepsOrder
<1> QED BY <1>2, <1>3, <1>4, <1>5, SubmitKeepsOrder, BatchLeavesInOrder
        DEF Next, RunLoop

LEMMA OrderInit == Init => Order
<1>1. Init => Pipeline = <<>>
  BY StartsEmpty DEF Queue!Init
<1> QED BY <1>1 DEF Init, Order, Sorted, Unserved, Ticketed

LEMMA OrderKept == Invariant /\ Order /\ [Next]_vars => Order'
BY OrderStep DEF Order, OrderAfter, Sorted, Unserved, Ticketed

LEMMA OrderTells ==
    ASSUME Invariant, Order PROVE ServedInOrder
<1>1. \A i, j \in DOMAIN Pipeline :
        i < j => ticket[Pipeline[i]] < ticket[Pipeline[j]]
  BY DEF Order, Sorted
<1>2. ASSUME NEW i \in DOMAIN Pipeline, ticket[Pipeline[i]] <= lastRun
      PROVE  i <= Len(running) /\ pc \in {"exec", "deliver"}
  <2>1. /\ Pipeline \in Seq(Requests) /\ ticket \in [Requests -> Nat]
        /\ lastRun \in Nat /\ Len(running) \in Nat
    BY PipelineType DEF Invariant, Inductive, StateTypeOK
  <2> DEFINE l == Pipeline
  <2>2. i \in Nat /\ i >= 1 /\ ticket[l[i]] \in Nat
    BY <2>1
  <2>3. ~(i > Served)
    BY <1>2, <2>1, <2>2 DEF Order, Unserved
  <2> QED BY <2>1, <2>2, <2>3 DEF Served
<1> QED BY <1>1, <1>2 DEF ServedInOrder

\* Requests are handed to the executor in the order in which enqueue accepted
\* them, each at most once; the one that is put aside (line 144) goes first.
THEOREM InOrder == Spec => []ServedInOrder
BY OrderInit, OrderKept, OrderTells, InvariantInductive, PTL DEF Spec
=============================================================================
