------------------------------- MODULE Batcher -------------------------------
(***************************************************************************)
(* The dynamic batcher of one worker process (worker/batcher.py).           *)
(*                                                                         *)
(* RPC handlers call enqueue and wait on a future.  One asyncio task, the   *)
(* run loop, takes envelopes from a bounded queue, collects them into a     *)
(* batch, runs the batch on a one-thread executor and settles the futures.  *)
(* close cancels the task.                                                 *)
(*                                                                         *)
(* asyncio is cooperative: the run loop gives up control only where it      *)
(* really suspends, which is while its pc is in Suspended.  The other       *)
(* event-loop actors (enqueue, a cancelled RPC, close) therefore act only   *)
(* then.  The clock and the executor's thread act at any time.             *)
(*                                                                         *)
(* Data is abstract: a request stands for its envelope, its inputs are the  *)
(* texts <<r, 1>> .. <<r, Size[r]>>, its deadline is a flag that the clock   *)
(* raises, and the batch timer may run out whenever it is consulted.        *)
(***************************************************************************)
EXTENDS Integers, Sequences, SequencesExt

CONSTANTS
    Requests,          \* the calls of enqueue that a behaviour may contain
    Size,              \* Size[r]: how many input texts request r carries
    None,              \* Python's None
    QueueCapacity,     \* queue_capacity
    MaxBatchRequests,  \* max_batch_requests
    MaxBatchItems      \* max_batch_items

\* The servicer refuses an empty request before enqueue, and asyncio.Queue is
\* bounded only for a positive maxsize.
ASSUME BatcherAssumption ==
    /\ Size \in [Requests -> Nat \ {0}]
    /\ None \notin Requests
    /\ QueueCapacity \in Nat \ {0}
    /\ MaxBatchRequests \in Nat \ {0}
    /\ MaxBatchItems \in Nat \ {0}

VARIABLES
    queue,         \* _queue: envelopes waiting, oldest first
    nextEnvelope,  \* _next_envelope: taken from the queue but deferred
    pc,            \* where the run loop's task stands
    batch,         \* batch: collected, and in "filter" still to be examined
    totalItems,    \* total_items
    running,       \* valid_batch: on the executor, or still to be settled
    flattened,     \* flattened_inputs
    slices,        \* slices: one half-open interval per element of running
    executor,      \* the executor's thread and its future
    stopping,      \* _stopping
    closing,       \* progress of close()
    cancelReq,     \* the task has a cancellation not yet delivered
    fut,           \* the future of each request
    answer,        \* predictions of a future that holds a result
    late,          \* late[r]: the clock is past r's local_deadline
    arrivals,      \* history: how many requests were accepted
    ticket,        \* history: the place of r among the accepted requests
    lastRun        \* history: highest ticket handed to the executor

collectVars == <<batch, totalItems>>
execVars == <<running, flattened, slices>>
loopVars == <<nextEnvelope, pc, collectVars, execVars>>
closeVars == <<stopping, closing, cancelReq>>
futureVars == <<fut, answer, late>>
historyVars == <<arrivals, ticket, lastRun>>
vars == <<queue, loopVars, executor, closeVars, futureVars, historyVars>>

Settled == {"result", "deadline", "internal", "cancelled"}
FutureStates == Settled \cup {"new", "pending", "rejected"}

\* Program points of _run_loop and _process_batch: "none" no task yet, "start"
\* created but not run, "top" line 99, "get" awaiting 106, "collect" 126,
\* "wait" awaiting 132, "filter" 163, "exec" awaiting 179, "deliver" 190,
\* "done" the task has ended.
PCs == {"none", "start", "top", "get", "collect", "wait", "filter", "exec",
        "deliver", "done"}
Suspended == {"none", "start", "get", "wait", "exec", "done"}

Inputs(r) == [i \in 1..Size[r] |-> <<r, i>>]

\* model.predict_batch scores each text by itself and keeps their order.
Score(text) == [text |-> text]
PredictBatch(texts) == [k \in DOMAIN texts |-> Score(texts[k])]

\* The property queue_depth, reported by GetStatus.
QueueDepth == Len(queue) + (IF nextEnvelope = None THEN 0 ELSE 1)

-----------------------------------------------------------------------------

Init ==
    /\ queue = <<>>
    /\ nextEnvelope = None
    /\ pc = "none"
    /\ batch = <<>>
    /\ totalItems = 0
    /\ running = <<>>
    /\ flattened = <<>>
    /\ slices = <<>>
    /\ executor = "idle"
    /\ stopping = FALSE
    /\ closing = "open"
    /\ cancelReq = FALSE
    /\ fut = [r \in Requests |-> "new"]
    /\ answer = [r \in Requests |-> <<>>]
    /\ late = [r \in Requests |-> FALSE]
    /\ arrivals = 0
    /\ ticket = [r \in Requests |-> 0]
    /\ lastRun = 0

-----------------------------------------------------------------------------
(* Other tasks of the event loop, and the clock.                            *)

\* Mutant: without the test for a task that is alive.
AlwaysStart == "start"

\* start(): make a task unless one is alive.
AfterStart == IF pc \in {"none", "done"} THEN "start" ELSE pc

\* Mutant: without the test of _stopping.
AdmitsIfRoom == Len(queue) < QueueCapacity

\* The two tests of enqueue(): not shutting down, and put_nowait finds room.
Admits == ~stopping /\ Len(queue) < QueueCapacity

\* enqueue(), accepted: the envelope goes to the back of the queue and the
\* caller waits on its future.
Enqueue(r) ==
    /\ pc \in Suspended
    /\ fut[r] = "new"
    /\ Admits
    /\ queue' = Append(queue, r)
    /\ fut' = [fut EXCEPT ![r] = "pending"]
    /\ pc' = AfterStart
    /\ arrivals' = arrivals + 1
    /\ ticket' = [ticket EXCEPT ![r] = arrivals + 1]
    /\ UNCHANGED <<nextEnvelope, collectVars, execVars, executor, closeVars,
                   answer, late, lastRun>>

\* enqueue(), refused with WorkerQueueFullError: shutting down or full.
EnqueueRefused(r) ==
    /\ pc \in Suspended
    /\ fut[r] = "new"
    /\ ~Admits
    /\ fut' = [fut EXCEPT ![r] = "rejected"]
    /\ UNCHANGED <<queue, loopVars, executor, closeVars, answer, late,
                   historyVars>>

\* The RPC that waits in enqueue is cancelled (its client left, its deadline
\* passed, or the server stops), which cancels the future it awaits.  The
\* envelope stays wherever it is.
CancelRpc(r) ==
    /\ pc \in Suspended
    /\ fut[r] = "pending"
    /\ fut' = [fut EXCEPT ![r] = "cancelled"]
    /\ UNCHANGED <<queue, loopVars, executor, closeVars, answer, late,
                   historyVars>>

\* The clock moves past a request's local_deadline.
DeadlinePasses(r) ==
    /\ fut[r] = "pending"
    /\ ~late[r]
    /\ late' = [late EXCEPT ![r] = TRUE]
    /\ UNCHANGED <<queue, loopVars, executor, closeVars, fut, answer,
                   historyVars>>

\* close(): refuse new work and cancel the task, if one is alive.
Close ==
    /\ pc \in Suspended
    /\ closing = "open"
    /\ stopping' = TRUE
    /\ cancelReq' = (pc \notin {"none", "done"})
    /\ closing' = IF pc \in {"none", "done"} THEN "closed" ELSE "closing"
    /\ UNCHANGED <<queue, loopVars, executor, futureVars, historyVars>>

\* close() resumes after awaiting the task and shuts the executor down.
CloseReturns ==
    /\ closing = "closing"
    /\ pc = "done"
    /\ closing' = "closed"
    /\ UNCHANGED <<queue, loopVars, executor, stopping, cancelReq, futureVars,
                   historyVars>>

-----------------------------------------------------------------------------
(* The run loop.                                                            *)

\* The task's first step.  A task cancelled before it never runs its body.
LoopStart ==
    /\ pc = "start"
    /\ pc' = IF cancelReq THEN "done" ELSE "top"
    /\ cancelReq' = FALSE
    /\ UNCHANGED <<queue, nextEnvelope, collectVars, execVars, executor,
                   stopping, closing, futureVars, historyVars>>

\* Every examination of an envelope (lines 110, 136, 163 and 190) passes over a
\* future that is done and fails one whose deadline has passed.
Dropped(r) ==
    \/ fut[r] # "pending" /\ UNCHANGED fut
    \/ fut[r] = "pending" /\ late[r] /\ fut' = [fut EXCEPT ![r] = "deadline"]

Live(r) == fut[r] = "pending" /\ ~late[r]

\* The first envelope of a batch.  Its size is not compared with MaxBatchItems.
OpenBatch(r) ==
    \/ /\ Dropped(r)
       /\ pc' = "top"
       /\ UNCHANGED collectVars
    \/ /\ Live(r)
       /\ batch' = <<r>>
       /\ totalItems' = Size[r]
       /\ pc' = "collect"
       /\ UNCHANGED fut

\* The deferred envelope goes first.
FetchDeferred ==
    /\ pc = "top"
    /\ ~stopping
    /\ nextEnvelope # None
    /\ nextEnvelope' = None
    /\ OpenBatch(nextEnvelope)
    /\ UNCHANGED <<queue, execVars, executor, closeVars, answer, late,
                   historyVars>>

\* Mutant: a deferred envelope does not keep the loop from the queue.
GetsRegardless == (pc = "top" /\ ~stopping) \/ (pc = "get" /\ ~cancelReq)

\* queue.get() of line 106 is called, or was awaited and is not cancelled.
GetsFirst ==
    \/ pc = "top" /\ ~stopping /\ nextEnvelope = None
    \/ pc = "get" /\ ~cancelReq

\* queue.get() of line 106 returns, at once or after a suspension.
FetchQueued ==
    /\ GetsFirst
    /\ queue # <<>>
    /\ queue' = Tail(queue)
    /\ OpenBatch(Head(queue))
    /\ UNCHANGED <<nextEnvelope, execVars, executor, closeVars, answer, late,
                   historyVars>>

\* queue.get() of line 106 suspends.
AwaitFirst ==
    /\ pc = "top"
    /\ ~stopping
    /\ nextEnvelope = None
    /\ queue = <<>>
    /\ pc' = "get"
    /\ UNCHANGED <<queue, nextEnvelope, collectVars, execVars, executor,
                   closeVars, futureVars, historyVars>>

\* Mutant: while True, a cancellation being the only way out.
EndsOnlyOnCancel == pc = "get" /\ cancelReq

\* _stopping is seen at the top, or the task is cancelled in line 106.
EndsLoop == (pc = "top" /\ stopping) \/ (pc = "get" /\ cancelReq)

\* The loop ends.
LoopExit ==
    /\ EndsLoop
    /\ pc' = "done"
    /\ cancelReq' = FALSE
    /\ UNCHANGED <<queue, nextEnvelope, collectVars, execVars, executor,
                   stopping, closing, futureVars, historyVars>>

\* Mutant: off by one in the number of requests.
RoomForOneMore == Len(batch) <= MaxBatchRequests /\ totalItems < MaxBatchItems

\* The condition of the inner loop, line 126.
RoomInBatch == Len(batch) < MaxBatchRequests /\ totalItems < MaxBatchItems

\* Mutant: the envelope that does not fit is not kept.
DropEnvelope(r) ==
    /\ UNCHANGED nextEnvelope
    /\ pc' = "filter"

\* Put an envelope that does not fit aside, and close the batch.
DeferEnvelope(r) ==
    /\ nextEnvelope' = r
    /\ pc' = "filter"

\* A further envelope: dropped, deferred to the next batch if it does not fit in
\* this one, or added.
ExtendBatch(r) ==
    \/ /\ Dropped(r)
       /\ pc' = "collect"
       /\ UNCHANGED <<collectVars, nextEnvelope>>
    \/ /\ Live(r)
       /\ totalItems + Size[r] > MaxBatchItems
       /\ DeferEnvelope(r)
       /\ UNCHANGED <<collectVars, fut>>
    \/ /\ Live(r)
       /\ totalItems + Size[r] <= MaxBatchItems
       /\ batch' = Append(batch, r)
       /\ totalItems' = totalItems + Size[r]
       /\ pc' = "collect"
       /\ UNCHANGED <<nextEnvelope, fut>>

\* queue.get() of line 132 returns, at once or after a suspension.
CollectQueued ==
    /\ \/ pc = "collect" /\ RoomInBatch
       \/ pc = "wait" /\ ~cancelReq
    /\ queue # <<>>
    /\ queue' = Tail(queue)
    /\ ExtendBatch(Head(queue))
    /\ UNCHANGED <<execVars, executor, closeVars, answer, late, historyVars>>

\* queue.get() of line 132 suspends.
AwaitMore ==
    /\ pc = "collect"
    /\ RoomInBatch
    /\ queue = <<>>
    /\ pc' = "wait"
    /\ UNCHANGED <<queue, nextEnvelope, collectVars, execVars, executor,
                   closeVars, futureVars, historyVars>>

\* Mutant: queue.get() of line 132 is awaited without a timeout.
UntimedEnd ==
    \/ pc = "collect" /\ (~RoomInBatch \/ cancelReq)
    \/ pc = "wait" /\ cancelReq

\* The batch is as large as it will get: it is full, the timer ran out (in
\* line 128 or as the TimeoutError of line 133), or the task was cancelled in
\* line 132, which the handler of line 133 swallows.
CollectEnds == pc \in {"collect", "wait"}

\* Mutant: after a swallowed cancellation the collecting goes on.
CollectsOn ==
    /\ CollectEnds
    /\ pc' = IF cancelReq THEN "collect" ELSE "filter"
    /\ cancelReq' = FALSE
    /\ UNCHANGED <<queue, nextEnvelope, collectVars, execVars, executor,
                   stopping, closing, futureVars, historyVars>>

EndCollect ==
    /\ CollectEnds
    /\ pc' = "filter"
    /\ cancelReq' = FALSE
    /\ UNCHANGED <<queue, nextEnvelope, collectVars, execVars, executor,
                   stopping, closing, futureVars, historyVars>>

\* Mutant: idx is not advanced.
SliceFromZero(r) == <<0, Size[r]>>

\* Mutant: the slice ends where it should begin.
SliceBefore(r) == <<Len(flattened) - Size[r], Len(flattened)>>

\* The slice of r: idx is the length of what was flattened before.
SliceOf(r) == <<Len(flattened), Len(flattened) + Size[r]>>

\* One iteration of the loop that keeps the valid envelopes, line 163.
FilterOne ==
    /\ pc = "filter"
    /\ batch # <<>>
    /\ batch' = Tail(batch)
    /\ LET r == Head(batch) IN
       \/ Dropped(r) /\ UNCHANGED execVars
       \/ /\ Live(r)
          /\ running' = Append(running, r)
          /\ flattened' = flattened \o Inputs(r)
          /\ slices' = Append(slices, SliceOf(r))
          /\ UNCHANGED fut
    /\ UNCHANGED <<queue, nextEnvelope, pc, totalItems, executor, closeVars,
                   answer, late, historyVars>>

\* Nothing valid is left: _process_batch returns.
NothingValid ==
    /\ pc = "filter"
    /\ batch = <<>>
    /\ running = <<>>
    /\ pc' = "top"
    /\ totalItems' = 0
    /\ UNCHANGED <<queue, nextEnvelope, batch, execVars, executor, closeVars,
                   futureVars, historyVars>>

\* run_in_executor, and the task suspends in line 179.
Submit ==
    /\ pc = "filter"
    /\ batch = <<>>
    /\ running # <<>>
    /\ pc' = "exec"
    /\ executor' = "busy"
    /\ totalItems' = 0
    /\ lastRun' = ticket[running[Len(running)]]
    /\ UNCHANGED <<queue, nextEnvelope, batch, execVars, closeVars, futureVars,
                   arrivals, ticket>>

\* The executor's thread ends predict_batch, with predictions or an exception.
\* Nobody waits for the outcome of a batch whose task was cancelled.
ExecutorFinishes ==
    /\ executor = "busy"
    /\ IF pc = "exec" THEN executor' \in {"ok", "raised"} ELSE executor' = "idle"
    /\ UNCHANGED <<queue, loopVars, closeVars, futureVars, historyVars>>

\* The task is cancelled in line 179.  CancelledError is not an Exception: no
\* handler of line 182 runs and the loop dies with the batch.  The executor's
\* job is dropped if its thread had not begun it.
CancelledInExec ==
    /\ pc = "exec"
    /\ cancelReq
    /\ pc' = "done"
    /\ cancelReq' = FALSE
    /\ running' = <<>>
    /\ flattened' = <<>>
    /\ slices' = <<>>
    /\ IF executor = "busy" THEN executor' \in {"busy", "idle"}
                            ELSE executor' = "idle"
    /\ UNCHANGED <<queue, nextEnvelope, collectVars, stopping, closing,
                   futureVars, historyVars>>

\* Mutant: without the test of future.done().
FailEvery(r) == "internal"

\* The future of a member of the failed batch, lines 184-185.
FailOpen(r) == IF fut[r] = "pending" THEN "internal" ELSE fut[r]

\* predict_batch raised: every future of the batch that is still open fails.
InferenceFailed ==
    /\ pc = "exec"
    /\ ~cancelReq
    /\ executor = "raised"
    /\ executor' = "idle"
    /\ fut' = [r \in Requests |->
                 IF r \in ToSet(running) THEN FailOpen(r) ELSE fut[r]]
    /\ pc' = "top"
    /\ running' = <<>>
    /\ flattened' = <<>>
    /\ slices' = <<>>
    /\ UNCHANGED <<queue, nextEnvelope, collectVars, closeVars, answer, late,
                   historyVars>>

\* predict_batch returned: the task resumes in line 188.
InferenceDone ==
    /\ pc = "exec"
    /\ ~cancelReq
    /\ executor = "ok"
    /\ executor' = "idle"
    /\ pc' = "deliver"
    /\ UNCHANGED <<queue, nextEnvelope, collectVars, execVars, closeVars,
                   futureVars, historyVars>>

\* preds[s_start:s_end]
Predictions(s) == SubSeq(PredictBatch(flattened), s[1] + 1, s[2])

\* One iteration of the loop that settles the futures, line 190.
DeliverOne ==
    /\ pc = "deliver"
    /\ running # <<>>
    /\ running' = Tail(running)
    /\ slices' = Tail(slices)
    /\ LET r == Head(running) IN
       \/ Dropped(r) /\ UNCHANGED answer
       \/ /\ Live(r)
          /\ fut' = [fut EXCEPT ![r] = "result"]
          /\ answer' = [answer EXCEPT ![r] = Predictions(Head(slices))]
    /\ UNCHANGED <<queue, nextEnvelope, pc, collectVars, flattened, executor,
                   closeVars, late, historyVars>>

\* The batch is settled: back to the top of the run loop.
BatchSettled ==
    /\ pc = "deliver"
    /\ running = <<>>
    /\ pc' = "top"
    /\ flattened' = <<>>
    /\ UNCHANGED <<queue, nextEnvelope, collectVars, running, slices, executor,
                   closeVars, futureVars, historyVars>>

-----------------------------------------------------------------------------

RunLoop ==
    \/ LoopStart \/ FetchDeferred \/ FetchQueued \/ AwaitFirst \/ LoopExit
    \/ CollectQueued \/ AwaitMore \/ EndCollect
    \/ FilterOne \/ NothingValid \/ Submit
    \/ CancelledInExec \/ InferenceFailed \/ InferenceDone
    \/ DeliverOne \/ BatchSettled

\* Everything submitted is settled and the loop waits for more, or is gone.
Quiescent ==
    /\ \A r \in Requests : fut[r] \notin {"new", "pending"}
    /\ \/ pc = "get" /\ ~stopping
       \/ closing = "closed"
    /\ UNCHANGED vars

Next ==
    \/ \E r \in Requests : \/ Enqueue(r) \/ EnqueueRefused(r)
                           \/ CancelRpc(r) \/ DeadlinePasses(r)
    \/ Close
    \/ CloseReturns
    \/ RunLoop
    \/ ExecutorFinishes
    \/ Quiescent

\* The event loop runs every ready task, the batch timer fires, predict_batch
\* ends, and close is woken when the task it awaits is done.  Nothing is
\* assumed of clients, deadlines and shutdown.
Fairness ==
    /\ WF_vars(RunLoop)
    /\ WF_vars(ExecutorFinishes)
    /\ WF_vars(CloseReturns)

Spec == Init /\ [][Next]_vars /\ Fairness

-----------------------------------------------------------------------------
(* Properties.                                                              *)

TypeOK ==
    /\ queue \in Seq(Requests)
    /\ nextEnvelope \in Requests \cup {None}
    /\ pc \in PCs
    /\ batch \in Seq(Requests)
    /\ totalItems \in Nat
    /\ running \in Seq(Requests)
    /\ flattened \in Seq(Requests \X Nat)
    /\ slices \in Seq(Nat \X Nat)
    /\ executor \in {"idle", "busy", "ok", "raised"}
    /\ stopping \in BOOLEAN
    /\ closing \in {"open", "closing", "closed"}
    /\ cancelReq \in BOOLEAN
    /\ fut \in [Requests -> FutureStates]
    /\ answer \in [Requests -> Seq([text : Requests \X Nat])]
    /\ late \in [Requests -> BOOLEAN]
    /\ arrivals \in Nat
    /\ ticket \in [Requests -> Nat]
    /\ lastRun \in Nat

\* The requests the run loop has taken or will take, in the order in which it
\* will settle them.
Deferred == IF nextEnvelope = None THEN <<>> ELSE <<nextEnvelope>>
Pipeline == running \o batch \o Deferred \o queue

\* No accepted request is lost: until shutdown, whoever waits on a future has
\* an envelope in the queue, deferred, in the batch or on the executor, and
\* never two of them.  (Lines 101-148: an envelope changes hands five times,
\* and the deferred one outlives its batch.)
NoRequestForgotten ==
    ~stopping => \A r \in Requests :
        fut[r] = "pending" =>
            \E i \in DOMAIN Pipeline :
                /\ Pipeline[i] = r
                /\ \A j \in DOMAIN Pipeline : Pipeline[j] = r => j = i

\* Requests reach the executor in the order in which they were accepted, each
\* at most once, although one that does not fit is put aside (line 144) while
\* others arrive behind it.
ServedInOrder ==
    /\ \A i, j \in DOMAIN Pipeline :
         i < j => ticket[Pipeline[i]] < ticket[Pipeline[j]]
    /\ \A i \in DOMAIN Pipeline :
         ticket[Pipeline[i]] <= lastRun =>
            i <= Len(running) /\ pc \in {"exec", "deliver"}

\* A caller gets the predictions of its own texts, in order, however many of
\* its batch's other members were dropped before execution or cancelled during
\* it (lines 163-173 and 190-210).
ResultsMatchInputs ==
    \A r \in Requests :
        fut[r] = "result" => answer[r] = PredictBatch(Inputs(r))

\* The limits of line 126 and 143 hold for what the executor is given.  Only a
\* request that exceeds MaxBatchItems by itself does, and it runs alone.
BatchWithinLimits ==
    /\ Len(running) + Len(batch) <= MaxBatchRequests
    /\ Len(flattened) > MaxBatchItems => Len(running) + Len(batch) <= 1

\* A batch is handed over only to an idle executor, also when the loop that
\* submitted the previous one was cancelled under it.
OneBatchInFlight ==
    /\ pc \notin {"none", "done", "exec"} => executor = "idle"
    /\ pc = "exec" => executor # "idle"

\* Once close has returned there is no run loop and nothing can start one,
\* although handlers may still call enqueue until the server stops.
NoLoopAfterClose ==
    closing = "closed" => pc \in {"none", "done"}

\* From the moment close() begins, nothing in the line is taken up and nothing
\* joins it, wherever the cancellation lands: one that is swallowed while a
\* batch is collected (line 133) lets that batch run, and no other after it.
ClosedLineStays ==
    [][stopping => queue' = queue /\ nextEnvelope' = nextEnvelope]_vars

\* A settled future keeps its outcome: whoever settles second (deadline,
\* result, failure of the batch, cancelled RPC) must notice.  asyncio would
\* raise InvalidStateError in the run loop and kill it.
FutureSettledOnce ==
    [][\A r \in Requests :
         fut[r] \in Settled => fut'[r] = fut[r] /\ answer'[r] = answer[r]]_vars

\* Seen from its callers the batcher is a queue with one server: what batches,
\* defers and executes in between cannot be told from answering the line from
\* its head, whatever is cancelled, expires or fails on the way.
Queue == INSTANCE InferenceQueue WITH
            line <- Pipeline, status <- fut, result <- answer,
            open <- ~stopping, Capacity <- QueueCapacity,
            Reply <- [r \in Requests |-> PredictBatch(Inputs(r))]

ImplementsQueue == Queue!Spec

\* Every accepted request is settled, or the worker shuts down: no batch waits
\* for a timer, a slot or an envelope that never comes.
EveryRequestSettles ==
    \A r \in Requests :
        fut[r] = "pending" ~> (fut[r] # "pending" \/ stopping)

\* close() returns, wherever in the loop the cancellation lands and even where
\* it is swallowed (line 133).
CloseTerminates == closing = "closing" ~> closing = "closed"

-----------------------------------------------------------------------------
(* What docs/model-serving-plan.md says and the code does not do.           *)

\* Plan, line 1281: the worker queue depth never exceeds the capacity.
QueueDepthBounded == QueueDepth <= QueueCapacity

\* Plan, line 965: shutdown fails the futures that are still queued.
QueuedFailedOnClose ==
    closing = "closed" =>
        \A i \in DOMAIN (Deferred \o queue) :
            fut[(Deferred \o queue)[i]] # "pending"
=============================================================================
