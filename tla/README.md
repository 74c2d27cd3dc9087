# A TLA+ model of the distributed model server

The system is one HTTP gateway and several gRPC workers that classify short texts.
A worker batches requests and runs one batch at a time on a model; the gateway
admits and validates requests, probes its workers, routes each request to the least
loaded healthy one and retries once when a worker cannot be reached. Both processes are
Python asyncio programs: concurrency is cooperative, a task gives up control only at an
`await` that really suspends, and the interesting behaviour is in what happens across
those points. A script installs the model files that the workers load.

This directory models the parts that carry this logic, checks them with TLC on small
instances, and proves the safety properties with TLAPS for all instances.
Source paths below are relative to `src/`.

## Inventory

| Component | State | Operations | Interacts with |
|---|---|---|---|
| Batcher, `worker/batcher.py` | bounded queue, deferred envelope, the run loop's task and its batch, executor thread, `_stopping` | `enqueue`, `start`, `close`, `_run_loop`, `_process_batch` | called by the servicer; futures carry the results back; the model runs on the executor's thread |
| Servicer and process, `worker/server.py` | `state` (STARTING, READY, DRAINING), progress of `serve()` | `Predict`, `GetStatus`, signal handler, shutdown | batcher; gRPC server, which cancels handlers |
| Model, `worker/model.py` | the files it has read | loading, `predict_batch` | batcher; the model directory |
| Registry, `gateway/registry.py` | per worker: health state, two counters, channel; poller tasks | `start`, `stop`, `_poll_worker_health`, `mark_unhealthy_immediately` | workers (GetStatus), client (marks), scheduler (reads) |
| Scheduler, `gateway/scheduler.py` | outstanding count per worker, tie cursor | `select_worker`, `release_worker` | registry, client |
| Client, `gateway/client.py` | per request: attempt, excluded workers, deadline | `predict`, `_map_rpc_error` | scheduler, registry, worker RPCs |
| HTTP application, `gateway/app.py` | `accepting_requests`; where each handler stands | middleware, endpoint, lifespan | HTTP clients, who stall and leave; client; registry; uvicorn, which starts and stops it |
| Download, `scripts/download_model.py` | the model files and their temporary names | check, fetch, verify, install | workers that start meanwhile |
| Configuration, metrics, logging, protobuf, load scripts | - | - | - |

What is hard to test, and what makes each part correct:

- **Batcher.** A request is cancelled, expires or is overtaken by `close()` at any
  suspension point while its envelope is queued, deferred, in a batch or on the
  executor. Correct: nothing is lost or run twice, order is kept, callers get their own
  predictions, a future is settled once, at most one batch runs, `close()` returns.
- **Servicer.** Signals and shutdown interleave with admission. Correct: refusals mean
  what they say (`enqueue` raises one error for a full queue and for the shutdown),
  replies are true, every admitted call ends and so does the process.
- **Registry.** Statuses are applied later than they are read, and requests eject
  workers in between. Correct: state and counters agree, recovery rests on new evidence,
  dead workers go and ready ones come back, and one pass of `stop()` releases all although
  pollers that it has not reached still resume.
- **Scheduler and client.** Reservations cross an `await` that can end in any way.
  Correct: no reservation leaks, limits hold, retries go elsewhere, error codes are true.
- **HTTP application.** A handler reads the flag before it awaits its body and may go on
  long after the gateway was told to stop, with or without its client. Correct: only
  valid messages reach a worker, every request whose body arrives is answered, also when
  it arrives after the signal, and the process stops.
- **Model files.** The script is killed or fails between any two steps, runs again over
  what it left, and workers open files while it replaces them. Correct: a run that exits
  well leaves everything as pinned, and workers read whole files.

`PROJECT.json` lists the hazards one by one, at the line where each bites, with the
properties that would catch it.

## Modules

```
Batcher  <-- WorkerServer                                one worker process
Batcher  --> InferenceQueue                              what a batcher promises
WorkerServer --> InferenceQueue                          and a whole worker too
Registry <-- HealthPolling                               the gateway's health polling
Registry <-- Scheduler <-- GatewayClient <-- GatewayApp  the gateway's requests
GatewayClient, GatewayApp --> RequestRouter              what the gateway promises
Artifacts                                                the model files
```

`<--` is EXTENDS, `-->` is a refinement (INSTANCE ... WITH). The `MC*` modules give TLC
concrete sizes and sets; the `*Proofs` modules and `BatcherRefinement` hold the
theorems. Operators introduced by a comment that begins with "Mutant:" are faulty
variants of the definition that follows them. No specification uses them: each replaces
its original in one run, in which the property it is meant for must fail.

**Batcher.** `pc` is the program point of the run loop. While it is in `Suspended` the
loop waits and other tasks of the event loop (`Enqueue`, `CancelRpc`, `Close`) can act;
elsewhere only the clock (`DeadlinePasses`) and the executor's thread (`ExecutorFinishes`)
can. Every iteration of the two loops of `_process_batch` is a step because a deadline can
pass between two of them. A request's texts are `<<r, 1>> .. <<r, Size[r]>>` and a
prediction names its text, so a prediction given to the wrong caller is visible. The timer
of a batch may run out whenever it is consulted. A cancellation is delivered where Python
3.12 delivers it: it ends the loop in line 106, is swallowed in line 133, and passes line
182 because CancelledError is no Exception. `arrivals`, `ticket` and `lastRun` are history
variables.

**InferenceQueue** is the abstract batcher: a line of requests, each answered in turn with
the predictions of its own texts, or leaving because it was settled or expired. A request
is refused only by a full line or during shutdown, and only a shutdown forgets requests.
Callers may give up at any time, one by one or together (`Abandon`), as those do whom gRPC
cancels at the end of the grace period; so a whole worker implements it as well as a
batcher alone. `Batcher` implements it (`ImplementsQueue`) with `line` mapped to
`Pipeline` (the batch being processed, the one being collected, the deferred envelope, the
queue), `status` to the futures, `result` to the answers, `open` to `~stopping`. What the
mapping hides is what the abstraction promises does not matter: batches, the deferral, the
executor's thread, the program point.

**WorkerServer.** `rpc[r]` is one Predict call. The checks of `Predict` are evaluated in
their order, and the call reaches `enqueue` in the same step, because nothing in between
suspends. `serve` follows `serve()` from `server.start()` over the signal, the batcher's
`close()` and the grace period to the end of the process. Calls that still wait when the
grace period ends are cancelled by gRPC.

**Registry** holds what one event does to a worker's health; **HealthPolling** adds when
events happen: `SendProbe`, `AnswerProbe` (the worker's state is read) and `ReceiveReply`
(it is applied) are three steps, and the worker may crash, drain or return between them.
`PredictionUnavailable` stands for any request that fails. `stop()` goes through the tasks
once and then through the channels once, in the order of the configuration: `visited` is
what the present loop is done with, and nothing makes it come back. A task is cancelled
(`CancelPoller`), ends when the cancellation reaches it in its probe or its sleep
(`PollerCancelled`), or finds `_stopping` set when it wakes up before its turn
(`PollerExits`); `PollerAwaited` is the `await` of `stop()`. Pollers whose turn has not
come still apply their replies meanwhile. Counters stop at `CountCap`, which no test can
distinguish because they are only compared with thresholds that are not larger.

**Scheduler** and **GatewayClient.** `predict()` suspends only in the RPC: the lock of the
scheduler is never held across a suspension, so it is always free, and everything from the
end of one RPC to the start of the next is one step (`RpcUnavailable` includes the mark,
the release of the `finally` block and the next selection). An RPC may end with any code
at any time and a probe may bring any reply, so that the results hold whatever workers do.
Time is a budget of ticks.

**GatewayApp** puts the HTTP application around the client. `http[r]` says where the
handler of request `r` is: awaiting its body, on the way to the endpoint, in `predict()`
or answered. The admission test (`Arrive`) and the test of what arrived (`BodyRead`) are
separate steps because the body is awaited between them. A message is what validation
tells apart: whether it declares its length, whether it is too long, and its set of
faults, and `Rejections` gives the errors that the first failing check may raise: the
elements of the inputs are examined one after the other, so any of the element faults may
be met first. Uvicorn is the environment, modelled from how `app.py` uses it: it listens
after the lifespan's startup; on a signal it closes its listeners, waits for all handlers
without a limit and resumes the lifespan. A client that leaves while its body is awaited
ends its handler; one that leaves later does not, and the handler goes on. That no handler
runs during `registry.stop()` is uvicorn's doing (`Drained`, external) and nothing is
claimed of it. `Exit` is the return of `stop()`, whose steps are those of HealthPolling;
pollers apply their outcomes until then (`Probe`). Channels are in HealthPolling.

**RequestRouter** is the abstract gateway. It knows the workers that may be given calls
(`healthy`), the calls really under way at each (`calls`), which of them have `moved`, and
what became of each (`status`). A call is placed at a healthy worker that has room and no
more calls than any other with room; it moves at most once, and only away from a worker
that is lost in that step, for every call that comes; it is turned away with
NO_HEALTHY_WORKER or GATEWAY_AT_CAPACITY only if that is so. `GatewayClient` implements it
(`ImplementsRouter`) with `healthy` mapped to `HealthyWorkers(state)`, `calls` to
`Holders`, `moved` to the requests in their second attempt and `status` to `call`. The
scheduler's counters, the cursor, the excluded workers, the budgets and the counts behind
a worker's health are hidden: the abstraction says of real calls what the code decides
from its counters.

**Artifacts.** A file is absent, pinned (the known checksum), foreign (whole, but
something else), partial or altered. `download_file` is the four steps `CheckPresent`,
`Fetched` or `FetchFails`, `CheckDownload` and `Install`; `Killed` may come before any of
them, and `Run` starts over. Loading is three steps, the test that both files exist and
the two reads, with the script free to act in between. Workers do not test checksums.

## Runs

| Run | Configuration | Shows |
|---|---|---|
| `batcher_safety` | 4 requests of 5, 2, 1, 1 texts, queue of 2, batches of 2 requests and 4 items | nothing lost, in order, own results, limits, one batch at a time, no loop after close, settled once, nobody served from the line after close |
| `batcher_liveness` | 3 requests of 4, 2, 1 texts, queue of 2, batches of 2 requests and 3 items | the batcher implements the queue; requests are settled; `close()` returns |
| `worker` | 2 calls of 2 and 1 texts, queue of 1, batches of 2 requests and 3 items | the process as a whole: admission, codes, true replies, every call answered, a clean end |
| `health` | 2 workers, thresholds 2 and 2 | counters, fresh recovery, clean stop, ejection and restoration |
| `gateway_safety` | 3 workers of capacity 1, 2 requests, 2 ticks | limits, retries, truthful capacity errors, rotation of ties |
| `app` | 2 workers of capacity 2, 2 requests, 1 tick, no minimum for a retry, 4 messages | the whole gateway: it routes as the abstract router, exact reservations, only valid messages dispatched, every request answered, the process stops |
| `artifacts` | 3 files, 2 workers | complete installation, whole files |
| `batcher_depth`, `batcher_close`, `gateway_not_ready` | as above | disagreements between plan and code, see Findings |
| `health_restart` | 1 worker, the default thresholds 3 and 2 | as above |
| `app_stall` | 1 worker, 1 request | as above |

Why the bounds are enough: with four requests the batcher can have one on the executor
and, behind it, a deferred one and a full queue; one exceeds a batch by itself and is
deferred behind any other, while the other three would fit in one batch by their items and
are kept apart only by the number of requests. In the liveness run one exceeds a batch and
the two others share one and fill it exactly, so that a batch may be answered, failed or
lost with some of its members already settled. The worker's two calls can share a batch,
so that a slice starts behind another and a batch is answered, failed or lost as a whole,
or run one after the other; the second may find the queue full or closed. Deferral, which
needs a third, is the batcher's own affair and in its runs. Two workers show `stop()` with
one poller ended and the other alive; otherwise workers do not interact in the registry,
and a threshold of two is the smallest at which a counter has a value between nothing and
enough. Three workers let the number of tied candidates vary between one, two and three,
which is what the cursor is sensitive to; two requests let a retry meet a saturated
worker. With a capacity of one all candidates are idle, so that the choice of the least
loaded is put to the test by `app`, where the capacity is two. In the gateway as a whole
thresholds are one, since probes bring any reply at any time, and the four messages are a
proper one, one that is too long and does not say so, one that says so, and one whose
elements have two faults of different codes. Three files put one between the two that
workers load, in the order of FILES, which installs the one first that workers load last.
Symmetry is used only in the safety run of the gateway, over the requests.

Deadlock is checked everywhere. `Quiescent`, `WorkerQuiescent` and `Exited` are the
states in which the program waits for work that the instance does not contain, or has
ended.

## Fairness

- Batcher: ready tasks run and the batch timer fires (the run loop), `predict_batch`
  ends, a task awaited by `close()` wakes it. Clients, deadlines and shutdown are free.
- Worker: the same, handlers resume when their future is settled, and gRPC ends the
  grace period. A signal need not come.
- Health polling: sleeps end and probes return within their timeout, which the code
  passes to `GetStatus`. Workers and failing requests are free.
- Gateway: the endpoint runs, time passes, gRPC ends an RPC whose timeout is used up,
  and the steps of startup and of stopping happen. Workers are free to hang, clients to
  stall or leave, and a signal need not come. `GatewayStops` assumes `ClientsFinish`,
  that no client leaves its body unfinished and its connection open for ever; without
  it, it fails (Finding 5).

## Findings

1. `queue_depth` can be one more than the capacity: the deferred envelope has left the
   queue, whose slot is taken again (`batcher_depth`).
2. `close()` leaves the futures of queued and deferred requests open, and those of the
   batch it cancels; their callers wait until gRPC cancels the handlers after the grace
   period (`batcher_close`; `EveryCallAnswered` shows that this does end the calls).
3. A worker that was seen draining stays in DRAINING for the life of the gateway, also
   after it was restarted (`health_restart`).
4. FAILED_PRECONDITION leaves a worker eligible (`gateway_not_ready`).
5. A draining gateway waits for its handlers without a limit, and a handler for its body
   without one: a client that stalls keeps the gateway from stopping (`app_stall`).

In each case the plan in `docs/model-serving-plan.md` says otherwise; the quotations are
in `PROJECT.json`.

Seen while modelling, without a run of their own:

- `SERVICE_DRAINING` is never answered and readiness never turns false during draining
  (plan, lines 952 and 953): uvicorn resumes the lifespan, where `gateway/app.py:48` clears
  the flag, only after it has stopped listening and waited for the handlers.
- Errors of validation carry the `request_id` "" also when the request gave one (plan,
  line 507, says "resolved-id").
- A text with a lone surrogate passes the parser and fails in `encode()`: the answer is
  INTERNAL_ERROR (`ElementRejection`).
- A worker does not verify checksums when it starts (plan, line 766; `worker/model.py:37`);
  `WorkersReadWholeFiles` therefore allows foreign files.
- The cursor is an index into the candidates and knows no worker. When workers before it
  join or leave, the next tie can go to the same worker again or pass over one; the plan
  asks for rotation without saying what then. `TieRotation` states what holds.
- Two runs of the download script at a time would write to the same temporary files.

## Proofs

All theorems hold for every value of the constants that satisfies the named assumptions
of the modules (positive limits and sizes; finite sets where cardinalities are used).

**BatcherProofs.** The inductive invariant is `StateTypeOK /\ SlicesMatch /\ AnswersRight
/\ Control`. `SlicesMatch` says that each envelope on the executor owns the stretch of the
flattened inputs that its slice names; `ResultsMatchInputs` is not inductive without it,
and even the type of `answer` needs it, because a slice out of range has no predictions.
`FilterOne` appends to the flattened inputs, which keeps old slices (`OwnsKept`) and makes
the new one right (`OwnsNew`); `DeliverOne` takes the heads of two sequences in step.
`Control` relates the program point to `close()` and the executor: a cancellation is
pending only while the loop is suspended and stopping, and the executor works only for a
loop that waits for it, or for one that has died. Proved: `Typing`, `ResultsCorrect`,
`OneBatch`, `LoopGone`, `SettledOnce`, `ClosedStays`. The last is about the cancellation
that line 133 swallows: the loop lives on after `close()` was called, but only to run the
batch it has. `Control` says so: once stopping, the loop is not collecting, and where it
would fetch a first request a cancellation is due (`ClosedTakesNothing`).

**BatcherRefinement.** `Refinement` shows that every step of the batcher is a step of
`InferenceQueue` or a stutter. The invariant is extended by `Places`, which says where
envelopes can be at each program point. The work is in sequences: moving an envelope from
one part of `Pipeline` to the next leaves the concatenation as it is, and dropping one
removes one place of the line. Three more theorems rest on these facts:

- `NobodyForgotten` is shown for the steps of the abstract queue (`OnePlace`: what is
  pending is in line exactly once; `Known`: what is in line has arrived) and carried
  over through the refinement.
- `InOrder` keeps tickets sorted along the line (`Sorted`), new arrivals above all of them
  (`Ticketed`) and everything that was not served above the last ticket that was run
  (`Unserved`); the steps that move envelopes along the line disturb none of it.
- `WithinLimits` relates the running total to what the batch weighs. `Weight(b, n)` says
  that *some* sequence of suffix sums starts with `n`, which makes a sum usable
  without an induction over the batch.

**WorkerServerProofs.** Every step of the worker is a step of the batcher or leaves it
alone, except the end of the grace period, which cancels the futures of all calls that
wait; so the batcher's invariants carry over once they are shown for that step. It is an
`Abandon` of the abstract queue (`GraceAbandons`) and leaves every envelope where it is
(`GraceKeepsPlaces`). With it the theorems of `BatcherRefinement` hold of the process:
`WorkerImplementsQueue`, `WorkerKeepsLine` (nothing lost, in order), `WorkerRunsBatches`
(limits, one batch at a time, no loop after `close()`), `WorkerSettlesOnce`,
`WorkerClosedStays`. `TellsTheTruth` is about what a reply says: to an admitted call
DEADLINE_EXCEEDED only if its deadline passed, success only with all predictions of its
own texts. It needs that a future which says the former belongs to a request whose
deadline has passed (`DeadlinesPassed`), and that reply and future agree once the handler
has resumed (`RepliesMatch`). `Stages` ties the progress of `serve()` to that of
`close()`, and `OpenCalls` ties each handler to its future. Proved: `WorkerTyping`,
`HandlersTrackFutures`, `EndsClean`, `ExhaustedMeansFull`.

**RegistryProofs, HealthPollingProofs.** Each event keeps types and
`HealthCountersConsistent` (lemmas, used by both modules that build on the registry).
Fresh recovery needs `StaleEvidence`: until a probe is sent after the ejection, the worker
has at most one success, and none while the probe under way has not returned. It is proved
for recovery thresholds of two and more; with one, a stale reply does restore a worker.
`StopReleasesAll` rests on `Passed`: what the loops of `stop()` have passed has ended or
is closed and stays so while they go on, because a task that was awaited never runs again,
and all tasks have been awaited before the first channel is closed. Proved: `Typing`,
`CountersConsistent`, `FreshRecovery`, `StopReleasesAll`.

**GatewayClientProofs.** The invariant adds to the types that a request in its RPC has one
or two attempts and any other none, that a first attempt excludes no worker, and that
reservations equal the holders. The argument is by the two halves of an attempt: a release
leaves exactly the other holders (`ReleaseFrees`), a selection adds one below the limit
(`SelectFacts`). The rotation of ties needs `CursorFollows`, that the cursor stands behind
the winner of the last tie, reduced by the number of those who tied (`RestOfNext`). Used
with another number it still leads on in turn: the rank of the one behind the winner is
higher by one (`RankGrows`), it is the same rank in the new tie when those up to it are
the same, ranks are below the number of candidates, so that neither reduction changes it,
and no two candidates have the same rank (`RankIsPlace`). After the last in a tie the
cursor is 0, whose rest is 0 by any number (`PickInTurn`). Proved: `Typing`,
`ExactReservations`, `BoundedOutstanding`, `RetriesElsewhere`, `CapacityMeansSaturated`,
`TiesRotate`.

`RoutesAsPromised` shows that the client implements `RequestRouter`. Since reservations
are exact, the counter of a worker, once the request has released its own reservation, is
the number of calls that the request would meet there (`LoadCounted`). A retry excludes
the worker that failed, and the mark has made that worker unhealthy in the same step; so
the eligible workers of the code are the healthy ones with room of the abstraction
(`EligibleHaveRoom`), and the least of its counters is the fewest calls
(`SelectionPlaces`). Each way an attempt can go is then a `Begin`, a `Lose` or an `End`,
and probes can only change who is healthy.

**GatewayAppProofs.** `AppImplementsClient`: the application takes only steps of the
client or leaves it alone, so what was proved of the client holds of the gateway. Its own
invariant says that a handler is in `predict()` exactly if its call is in an RPC
(`InStep`), and that a message past the middleware is not too long and past validation not
faulty (`Validated`). Proved also: `AppTyping`, `AppReservations`, `ValidDispatched`, and,
carried over from the client, `AppRoutes` (the gateway implements the router),
`AppKeepsLimits` and `AppKeepsPromises`.

**ArtifactsProofs.** `Progress`: the files before the one at hand are pinned. It needs
`TempsAreNeeded` for the temporary names: one may be left over only where the final name
is not pinned yet, so that the rerun that skips pinned files skips no leftover.
`FilesFound` and `NamedAreWhole` give what workers read. Proved: `Typing`, `ExitComplete`,
`WholeFiles`.

Only model-checked: the liveness properties, since fairness and ENABLED are outside the
prover. Every invariant and action property that a passing run checks is proved.

## Not modelled

The numerics of the model (tokenizer, ONNX session, softmax); configuration parsing (its
values are constants); metrics and logging, which nothing reads back; generated protobuf
code; benchmark, corpus, sampling and failure-scenario scripts; response timings, HTTP
status numbers and messages. gRPC and uvicorn are environment: calls fail, time out and
are cancelled; a second signal, with which uvicorn exits at once, and SIGKILL end the
process with everything the properties are about. Two runs of the download script at
the same time are left out. The health and metrics endpoints and `GetStatus` change
nothing.

## Plan

Done: everything above. Left: a composition of the gateway with worker processes instead of an arbitrary
environment, with draining, restart and retry end to end. Each side is checked against an
environment that may do more, so that safety carries over; what it would add is liveness
across the two.
