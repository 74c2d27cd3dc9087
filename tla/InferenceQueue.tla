---------------------------- MODULE InferenceQueue ----------------------------
(***************************************************************************)
(* What a worker's batcher promises to those who call it: a line of         *)
(* requests answered in the order of their arrival, each with the           *)
(* predictions of its own texts.  Batches, the deferred envelope, the       *)
(* executor and the program point of the run loop are not visible here;     *)
(* module Batcher shows that they do not show.                              *)
(***************************************************************************)
EXTENDS Integers, Sequences

CONSTANTS
    Requests,  \* the calls of enqueue()
    Reply,     \* Reply[r]: the predictions of r's texts
    Capacity   \* how many are in line before a request may be refused

VARIABLES
    line,    \* the requests in line; the dead ones leave some time later
    status,  \* status[r]: "new", "pending", "rejected" or how r was settled
    result,  \* result[r]: what r was answered
    open     \* the worker has not begun to shut down

queueVars == <<line, status, result, open>>

Init ==
    /\ line = <<>>
    /\ status = [r \in Requests |-> "new"]
    /\ result = [r \in Requests |-> <<>>]
    /\ open = TRUE

\* A request joins the end of the line.
Accept(r) ==
    /\ open
    /\ status[r] = "new"
    /\ line' = Append(line, r)
    /\ status' = [status EXCEPT ![r] = "pending"]
    /\ UNCHANGED <<result, open>>

\* It is turned away only by a full line or during shutdown.
Refuse(r) ==
    /\ ~open \/ Len(line) >= Capacity
    /\ status[r] = "new"
    /\ status' = [status EXCEPT ![r] = "rejected"]
    /\ UNCHANGED <<line, result, open>>

\* Callers give up: one that leaves, or at the end of the worker's grace period
\* all that still wait.
Abandon(S) ==
    /\ \A r \in S : status[r] = "pending"
    /\ status' = [r \in Requests |-> IF r \in S THEN "cancelled" ELSE status[r]]
    /\ UNCHANGED <<line, result, open>>

\* A request leaves the line from any place once it is settled, or because its
\* deadline has passed.
Leave(i) ==
    /\ line' = SubSeq(line, 1, i - 1) \o SubSeq(line, i + 1, Len(line))
    /\ IF status[line[i]] = "pending"
       THEN status' = [status EXCEPT ![line[i]] = "deadline"]
       ELSE UNCHANGED status
    /\ UNCHANGED <<result, open>>

\* Answers are given to the head of the line.
Answer ==
    /\ line # <<>>
    /\ status[Head(line)] = "pending"
    /\ line' = Tail(line)
    /\ status' = [status EXCEPT ![Head(line)] = "result"]
    /\ result' = [result EXCEPT ![Head(line)] = Reply[Head(line)]]
    /\ UNCHANGED open

\* Inference fails: the first n are told so.
Fail(n) ==
    /\ line' = SubSeq(line, n + 1, Len(line))
    /\ status' = [r \in Requests |->
                    IF status[r] = "pending" /\ \E i \in 1..n : line[i] = r
                    THEN "internal" ELSE status[r]]
    /\ UNCHANGED <<result, open>>

Shut ==
    /\ open' = FALSE
    /\ UNCHANGED <<line, status, result>>

\* Only a worker that shuts down forgets requests: the batch it was running.
Forget(n) ==
    /\ ~open
    /\ line' = SubSeq(line, n + 1, Len(line))
    /\ UNCHANGED <<status, result, open>>

Next ==
    \/ \E r \in Requests : Accept(r) \/ Refuse(r)
    \/ \E S \in SUBSET Requests : Abandon(S)
    \/ \E i \in 1..Len(line) : Leave(i) \/ Fail(i) \/ Forget(i)
    \/ Answer
    \/ Shut

Spec == Init /\ [][Next]_queueVars
=============================================================================
