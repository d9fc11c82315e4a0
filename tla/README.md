# SequoIA: a TLA+ model of the pipeline and the platform

SequoIA watches road traffic through fibre-optic cables. A *pipeline* of Kafka
services turns raw acoustic measurements into vehicle detections, and a *platform*
(Django, ClickHouse, a React client) stores, streams and alerts on them. This
directory holds TLA+ modules translated from the code, TLC configurations that
check them on small instances, and theorems that the TLA+ proof system TLAPS
proves for every instance. `PROJECT.json` is the index: which definition stands
for which lines of code, which run checks what, which mutated definition each
property catches, and the hazards of the code with the properties that cover
them.

All paths below are relative to the repository; `shared/` is
`services/pipeline/shared/`, `apps/` is `services/platform/backend/apps/`.

## The system

```
 das.raw.<fiber> ──> processor ──> das.processed ──> AI engine ──> das.detections
                                                                       │
             ClickHouse <──────────────────────────────────────────────┤
                 │ poll (incidents)                                    v
                 └───────────────> Kafka bridge ──> replay buffer ──> Redis ──> WebSocket consumers ──> client
                                       │
                                       └──> alert rules ──> log, webhooks
```

Both pipeline services are built from `ServiceBase` (`shared/service_base.py`)
and one of the transformer classes of `shared/transformer.py`: one asyncio event
loop, a thread pool for the blocking Kafka client, a semaphore of
`max_concurrent_messages` permits, two circuit breakers, a retry handler and a
dead letter queue. What is hard is what interleaves at an `await`, what a timeout
cancels and what it leaves running, and which offset is committed when. On the
platform it is coroutines that are cut in the middle of a round, two ends of a
connection that change at once, and requests that share a row.

### Inventory

| Component | State | Operations | What is hard | What makes it correct |
|---|---|---|---|---|
| Circuit breaker and retry (`circuit_breaker.py`, `retry_handler.py`) | `state`, `failure_count`, `last_failure_time`, `_half_open_trial_active`; attempt per call | `call`, `_on_success`, `_on_failure`, `retry_with_backoff` | many calls between two lock sections; cancellation | count, state and flag agree; open and half-open are left again; one trial |
| Dispatch (`service_base.py`, `message_ops.py`, `transformer.py`, `kafka_setup.py`) | `_running`, semaphore, tasks, consumer position, committed offset | `_poll_loop`, `_execute_with_protection`, `_commit_message`, `handle_dead_letter`, `shutdown`, restart | out-of-order and late commits, crash, drain | nothing acknowledged unseen; bounded queue; a clean drain loses no input; everything settles |
| Output delivery (`message_ops.py`, `persistent_dlq.py`) | `_message_batch`, `_pending_deliveries`, the producer's queue | `_internal_send`, `_handle_batched_flush`, `_on_delivery`, `_close_kafka_clients` | callbacks of a flushing thread, ids that outputs share, a batch cleared after an await | a failed delivery is dead-lettered; nothing leaves the batch unflushed; the final flush loses nothing of the tasks that were stopped |
| Rolling buffers (`RollingBufferedTransformer`) | `_rolling_buffers` (ordered), deque and `new_count` per key | `_handle_rolling_message`, `_rolling_buffer_timeout_loop`, `_process_rolling_buffer` | two loops that pop buffers and await | no message falls out unprocessed; overlap; LRU order; tails are processed |
| AI engine batches (`ai_engine/main.py`) | `_pending_per_fiber` on top of the rolling buffers | `_handle_rolling_message` override, `_process_sections_batch` | sections out of step, eviction under pending windows | losses are the known ones |
| Processor (`processor/main.py`, `config/fiber_config.py`) | batch, tasks, pipelines and configuration per fibre, instrument parameters | `_batch_poll_loop`, `transform`, `_get_fiber_pipelines`, `_retry_params_bootstrap`, reload | a batch passes the permit test at once, the file changes under a transformation, stateful steps and retries | bounded tasks; pipelines match the configuration; sections are fed alike |
| Kafka bridge (`apps/realtime/kafka_bridge.py`, `broadcast.py`) | `known_incident_ids`, ownership map | `_poll_incidents`, `_refresh_fiber_map`, end and restart of the loop | a round that is cut half way, a truncated result, owners that change | a group believes active what the bridge holds; an incident that ends is retracted |
| Alerting (`apps/alerting/`) | alert log, thread pool | `check_alerts_for_incident`, `dispatch_alert`, `_dispatch_webhook` | deliveries cut off with the process or an exception | an alert per incident and life; no delivery lost silently |
| WebSocket consumer and provider (`apps/realtime/consumers.py`, `RealtimeProvider.tsx`) | subscriptions, flow, pub/sub listener, authentication; on the other end channels in use, pending ones, flow | `connect`, `receive_json`, `_switch_flow`, `disconnect`; `subscribe`, `setFlow`, `onopen`, `onclose` | handlers that await between groups, a listener that dies, a socket that reconnects | the groups joined match the subscriptions; both ends agree |
| Incident workflow (`apps/monitoring/`) | action rows per incident | `IncidentActionView.post` | the first action has no row to lock, a waiter gets the row it picked | actions of an incident form one valid path |
| Replay buffer (`apps/realtime/replay_buffer.py`) | heap, delay estimate, accumulator | `ingest_detection`, `drain`, `stop` | an estimate that moves between items | playback in order |
| ClickHouse client (`apps/shared/clickhouse.py`) | failure counter, cooldown, client per thread | `get_client`, `query` | threads sharing the counter | a broken server is not hammered, and is found again |
| Simulation manager (`apps/realtime/simulation_manager.py`) | status, task | `start_if_configured`, `stop` | stop during start | it can be started again |

The rest (numeric processing, metrics, CRUD and query views, pages of the client,
infrastructure) keeps no state over which actors compete; `PROJECT.json` lists each
part with the reason it is left out.

## Modules

| Module | Models | Extends |
|---|---|---|
| `CircuitBreaker` | breaker, retry loop and message timeout of concurrent calls | |
| `ConsumerPromise` | what a service promises its partition: the abstract specification of the next three | |
| `MessageDispatch` | poll loop, permits, commits, shutdown, crash, restart | |
| `RollingBuffer` | rolling windows, eviction, stale-buffer loop | |
| `SectionBatch` | the AI engine on top of the rolling buffers | `RollingBuffer` |
| `OutputDelivery` | what becomes of an output after the handler | |
| `Processor` | batch polling, stateful pipelines, reloads, parameter bootstrap | |
| `IncidentTable` | the table of incidents the next two share | |
| `IncidentBridge` | incident poll, broadcasts, alert rules and webhooks | `IncidentTable` |
| `IncidentWorkflow` | concurrent posts to incidents under row locks | `IncidentTable` |
| `RealtimeSession` | a browser tab, its consumer and the queues between them | |

`MC...` modules give the constants of a module values that a `.cfg` cannot express, a
symmetry or a bound. `CircuitBreakerProofs`, `MessageDispatchProofs`,
`RollingBufferProofs`, `SectionBatchProofs`, `OutputDeliveryProofs`, `ProcessorProofs`
and `RealtimeSessionProofs` each extend the module they are named after and `TLAPS`;
`SectionBatchProofs` extends `RollingBufferProofs` too, and takes from it all that does
not depend on where a window that is due goes. `IncidentProofs` holds the proofs of
`IncidentBridge` and of `IncidentWorkflow`, which share `IncidentTable`.

A definition whose comment starts with "Mutant:" is not part of the model: it is
a faulty variant of the definition after it, kept to show which property would
notice that fault. A variable called "history" in its comment has no counterpart in
the code; it records something past that a property speaks of, and no guard
reads one of them.

### CircuitBreaker

A *slot* is a permit of the service semaphore; `pc[c]` follows the message that
holds it: idle, running its handler (`trying`), sleeping between retries
(`backoff`), and the four ways a call ends. `Admit`/`Reject` are the first locked
section of `CircuitBreaker.call`, `Succeed`/`Fail` the second with `_on_success`
and `_on_failure` inlined; each lock section is one step because it awaits nothing
while it holds the lock. `Retry` and `BackoffOver` are the retry loop, `TimeOut`
is `asyncio.wait_for` cancelling all of it: `CancelledError` is not an
`Exception`, so the breaker is not told. `since_failure` is the age of
`last_failure_time`, counted up to the recovery timeout, and `failure_count` is
counted up to the threshold; beyond those values the code only compares them.
`trial` marks the call admitted as the trial, `trial_cut` that one was cancelled,
`overtaken` that a call from before the opening ended in the half-open state: all
three are history.

### ConsumerPromise

The abstract specification of a consumer, over three variables: `position` (next
offset to be read), `committed` and `finished` (messages handled successfully). A
service takes messages in order, finishes only what it has taken and commits only the
offset after a message it has finished; the committed offset may go back, and a new
life continues from it. It does not promise that everything below the committed
offset is finished, which the rolling buffers do not keep (see *Known divergences*).
The refinement mapping is one line in each module: `MessageDispatch` takes `finished`
to be the messages whose handler has returned, `RollingBuffer` the messages of windows
processed successfully, `SectionBatch` those of windows that inference was given, with
`position` one past `polled`. Dead letters, undecodable messages and sections dropped
before inference are not finished: a commit may pass them, but never names one of them.

### MessageDispatch

One partition with offsets `1..NumMessages`. `task[m]` follows one message:
waiting for a permit, running, committing or dead-lettering (the three that hold
a permit), sending, and how it ended. `StartPoll` is the permit test and
`Dispatch`, `SkipUndecodable`, `EmptyPoll` the result of the poll, one await
later. A commit has three outcomes: it lands, it fails after its attempts, or an
attempt times out and its thread lands it later (`late_commits`,
`LateCommitLands`). A committed offset is whatever landed last; it may go back.
`Send` comes after the permit is released, as in `Transformer._dispatch`.
`StopAccepting`, `DrainComplete` and `Crash` are `shutdown`, with a drain that
times out counted as a crash; `Restart` begins at the committed offset. The
outcome of handler, breaker and timeout is a choice here. The semaphore is first
come, first served, as asyncio's is.

The poll loop is that of `ServiceBase`, which a `Transformer`, a `MultiTransformer` or a
`Consumer` runs. Both deployed services override it: the processor with
`_batch_poll_loop` (module `Processor`), the AI engine with
`_rolling_transformer_loop` (modules `RollingBuffer` and `SectionBatch`). What is said
here of the permit test before a poll is therefore said of the shared class; the task
of a message, its commit and the shutdown are also those of the processor, the commit
and the shutdown those of the AI engine.

### OutputDelivery

`stage[m]` is the task that sends output `m`, `wire[m]` the output in librdkafka,
`pending` the map `_pending_deliveries` from ids to outputs, `batch` the list
`_message_batch`, `flushers` the tasks whose `producer.flush` is in its thread.
`Register` (the entry made before the producer is asked) is part of `Produce` and of
`RefusedByProducer`; `Produce` appends to the batch and tests the threshold
without an await, so it is one step. A flush is three steps: it starts in `Produce`,
its thread ends (`FlushThreadEnds`, with whatever its timeout left behind), and the
task clears the batch (`ClearBatch`) or, after an exception, does not (`KeepBatch`).
`Delivered` and `DeliveryFailed` are `_on_delivery`; nothing calls
`producer.poll`, so they need a thread that flushes (`Serving`). The letter goes to
the event loop (`WriteLetter`), where the queue swallows its errors; "written" means
handed to the queue's own producer.

The shutdown is `CancelTasks`, `ConsumerClosed` or `ConsumerCloseFails`,
`FinalFlushEnds`, `PoolsDown` and `Exit`, in that order. `service_base.py:372` cancels the
loops in `_tasks` and nothing else. The AI engine keeps its window tasks in
`_processing_tasks`, which no one cancels (the drain waits for the permits they hold, up
to its timeout), and the processor's message tasks are cancelled only if the poll loop was
gathering them. So `CancelTasks` stops any part of the sends under way, and `left` names
the rest: they go on beside the closing of the clients and may hand over outputs after the
final flush (`late`), until the event loop ends. A consumer that does not close in time, or
raises, skips the producer's flush, because one `try` holds both; `closed` says that it
did close. `shared`, `stranded`, `left`, `late`, `abandoned` (in flight when the final
flush ended) and `closed` are history.

Taken for granted: the dead letter queue is enabled, as in both services. `_on_delivery`
tests for the entry and takes it out in two steps, which are one here; they differ only
when two threads flush and serve two outputs of one id at once, and then the second
removal raises inside the callback.

### Processor

`poller` and `batch` are the batch poll loop: `PollBatch` fetches up to `BatchSize`
messages, `DispatchBatch` creates a task for each. The loop tests the
semaphore before each message, but between two tests it awaits nothing once the
semaphore is free, and no task takes its permit before it runs; so a batch is
dispatched in one step. `TakePermit` and `Retry` are one attempt of a
transformation, which has no `await` of its own: `Transform` has the startup stagger,
the readiness test, the second lookup of the fibre, `_get_fiber_pipelines` and the
chain of steps. `MayReload` is `get_fiber` noticing that it is time to look at
the file: each of the two lookups may. `Process` stores the new configuration
before it builds, as the code does. `Feed` appends the message to what the pipelines
of each section have been given, in the order of the sections. `Reached` is the guard of
`main.py:328`: the message is reshaped to the instrument's `total_channels`, which are read
once, so a section that starts beyond them is passed over by every message. A step may
raise in the middle of a pipeline (`halfway`: its first steps have taken the message),
between two sections, or after the last one, in the making of its output.
`NeedsBuild` compares the contents of the file; the code hashes the part of one fibre, so an
edit of another fibre does not rebuild its pipelines there and does here.
`ReadParams(found)`, `BootstrapEnds`, `BootstrapFails` are
`_retry_params_bootstrap`; `Publish` and `EditFile` are the surroundings. Commit and
shutdown are those of `MessageDispatch` and are not repeated.

### RollingBuffer

`buffers[k]` is the entry of `_rolling_buffers` for a key (deque, `new_count`,
whether `buffer_timeout` has passed), `order` the order of the dictionary. `poller`
is the poll loop, either ready or awaiting the window it evicted, with the message
in its hand; `sweep` is the stale-buffer loop with the keys it collected. `Handle`
is the path of `_handle_rolling_message` with room, `Evict` and
`StoreAfterEviction` the two halves of the one without. `SweepBegins`, `SweepPops`,
`SweepFails` (the `KeyError` of a key that is gone) and `SweepEnds` are one round of
the stale-buffer loop, which pops what it collected however fresh it has become.
`Processed` and `Failed` end the processing of a window at any later time.
`last_window` is a history variable, the last full window given to processing.

### SectionBatch

The AI engine overrides only what happens to a window that is due. It is put
into `pending`, and a fibre is dispatched when the number of its pending windows
reaches the number of its buffers. Evictions and the stale-buffer loop are the
inherited actions (`PopsBuffer`, `KeepsBuffers`), which know nothing of `pending`.
`BatchProcessed` has three fates for a section: dropped before inference for its channels
(`skipped`, main.py:266), left out by inference for its samples (`unanalysed`,
vehicle_speed.py:383), or analysed. The last message of the latter two is committed, that
of the first is not. `BatchFails` is the `except` that logs. An evicted or stale window
that `process_buffer` finds too narrow or too short gives no detections and is committed as
any other: it is among those the inherited `Processed` ends. `overwritten`, `received` and
`aligned` are history variables.

### IncidentTable, IncidentBridge

`IncidentTable` is ClickHouse as the platform sees it: incidents, named by their
timestamps, are inserted (late ones out of order too) and end; `Newest` is
`ORDER BY timestamp DESC LIMIT`. In `IncidentBridge`, `phase` says where the loop
stands: polling (`Poll`), going through the rows from the newest (`SeenAgain`,
`Announce`), alerting about one (`Dispatch`, `SkipCooling`, `AlertsDone`),
announcing the resolved ones (`RowsDone`, `Retract`, `EndRound`). Each is one
stretch between two awaits. `GoDown` is an exception that ends the loop at any of
them: what it knows is local to it and is lost, `told` (what each group was last
told) is not. `AnnounceRaises` and `RetractRaises` reach only some of the groups.
`Reassign`, `RefreshMap` and `LoadMap` change who owns a fibre, and when the bridge
learns of it: through a cache, some time later. A dispatch checks the cooldown and
makes a log entry (its key has the channel too, which is left out: the incidents of a fibre
are taken to be on one channel); a webhook's entry is left to a thread pool with `tries` left
(`PostSucceeds`, `PostFails`, `PostRaises`), which the process takes with it when
it dies. `orphaned`, `missed`, `retracted` and `undecided` are history.

### IncidentWorkflow

A post runs through `post[p]`: found in ClickHouse, then a transaction that picks
the latest action (`Pick`), waits for its row lock (`Lock`), checks
`VALID_TRANSITIONS` and is refused or inserts, and commits; `Abort` rolls back at any
point. The database is PostgreSQL in its default isolation: `Pick` sees what is
committed at that moment and `Lock` returns that same row, because the holder
inserts another one and leaves this one unchanged. `base[p]` is the action the post
started from. `met` is history: pairs whose transactions overlapped.

### RealtimeSession

`client` is the provider of a tab, `callbacks` the components that want a channel,
`server` the consumer with the handler in progress (`at`, `todo`), `joined` the
groups and Redis channels it is in, `listener` its pub/sub task. `toServer` and
`toClient` are the two directions of the socket, `mailbox` what the Channels layer
holds, `wire` what the Redis connection holds. Channels dispatches one message of a
consumer at a time, so a handler starts only when `at = "idle"`; it is cut
at every group it leaves or joins (`Leave`, `Join`). `Forward`, `ListenerFails`,
`ListenerRestarts` run beside it. The two ways a listener ends because its browser is gone
or does not read (consumers.py:387-395) are part of `Close`, in one step with the end of the
connection. `Close` is any end of the connection, `Connect`
the reconnection with the channels then in use. `excused` is history: channels
whose request the rate limit refused, or that were unmounted while the
authentication was pending.

## Runs

All passing runs end within five minutes on two workers.

| Run | Instance | Shows |
|---|---|---|
| `breaker` | 3 calls, threshold 2, recovery 2, 1 retry, timeouts | `BreakerCoherent` (count and state, flag and state, trial in flight), `OneProbe`; `OpenIsLeft` and `TrialIsDecided`. Three calls are enough for a straggler, a trial and a rejected call at once |
| `breaker_stuck_trial` | 2 calls, threshold 1 | *violated*: `HalfOpenEnds`. A trial cancelled by the message timeout leaves the flag up; every later call is rejected with "trial in progress" |
| `dispatch` | 4 messages, 2 permits, 2 restarts | `NothingSkippedUnseen`, `BackPressure`, `CleanDrainKeepsInput`, the refinement `KeepsConsumerPromise` and `EverythingSettles`, with late and failed commits, crashes and drains at every step. Four messages are two running, one queued, one not to be polled |
| `rolling` | 3 keys, 2 buffers, window 3, step 2, 5 messages | `NoMessageFallsOut`, `WindowsOverlap`, the refinement `KeepsConsumerPromise` and `EveryMessageSettles`, also for tails; five messages fill a window, move it on once and evict |
| `section_batch` | 2 fibres, 3 sections, 2 buffers, window 3, step 2, 10 messages | `LossesAreKnown`, `AlignedSectionsLoseNothing` and the refinement `SectionsKeepPromise`. Ten messages are what the two sections of a fibre need to fill a second window each, the case in which one could be replaced |
| `output` | 3 outputs, two of them of one id, threshold 2 | `LettersAreKnown`, `BacklogIsKnown`, `EndIsAccounted`, through a shutdown that leaves one task running. Two outputs share an id as those of one section do, the third shows that the confusion stays with that id; two fill a batch while a third comes during its flush |
| `dead_letter_other` | the same | *violated*: `DeadLetterIsTheFailed`. The letter written for a failed output is that of another one with its id |
| `processor` | 3 messages, 2 fibres, batch 2, 2 permits, 2 attempts, 4 contents of the file, 2 edits | `WaitingBounded`, `PipelinesMatchConfig`, `SectionsInStep`, `PendingBecomesReady`. One content adds a fibre and a section beyond the channels of the first, one is without the first fibre, one changes the sections and cannot be built. The stagger takes the first message, two are left for two sections |
| `realtime_session` | 2 channels (one over Redis, one with snapshots), 2 flows, rate limit 1, 2 messages under way | `ConsumerConsistent`, `EndsAgree`, `WantedIsServed`, `OldFlowFades` |
| `incident_bridge` | 2 incidents, limit 1, a rule with cooldown and webhook, 2 tries, 2 loops, 1 change of owners | `BeliefMatches`, `AlertsAccounted`, `EndedIsRetracted`. With a limit below the number of incidents one falls out of the result and comes back |
| `incident_workflow` | 3 posts to one incident, 1 to another | `ForkMeansOverlap`: two actions start from the same one only when their transactions overlapped |
| `workflow_race` | 2 posts to one incident | *violated*: `TransitionsSerialized`. Both find no action to lock and both start from "active" |

Every passing run also checks the type invariant of its module. What a "violated" run
disagrees with is quoted, with its line, in `PROJECT.json` under `findings`.

Deadlock is checked for the breaker and for the realtime session. The other models
stop when their bounded messages, outputs, posts or lives are used up and nothing is
in flight, so their configurations switch the deadlock check off.

### Bounds

`NumMessages`, `MaxRestarts`, `MaxEdits`, `MaxLives`, `MaxMoves` and `MaxQueue` bound how
long a behaviour is or how much is under way; everything else is a parameter of
the code. More are stated where they apply: `MessagesPerRestart` lets every restart cost
a message; `LongIfAligned` lets the single section fill one window and follows more than
five messages only for the fibre of two sections while they keep together and every
message decodes; `OneLeftRunning` lets one task outlive the cancellation; `PollBatch` has
at most one undecodable message in a batch; and `Subscribe` has one component per
channel. No counter is cut off in a way that hides a behaviour: `failure_count`,
`since_failure`, `consumed` and `recent` stop at the value they are compared with.
The proofs hold for all values of all of them.

### Fairness

- `CircuitBreaker!FairSpec`: a handler returns, raises or is cancelled, a backoff
  sleep ends, freed slots get messages and the clock runs. The message timeout
  justifies the first. `TrialIsDecided` therefore excepts a trial that it cut.
- `MessageDispatch!FairSpec`: the event loop resumes each task that can go on;
  handlers end at the latest at `message_timeout`, commits after `max_retries`
  attempts. Nothing forces a crash, a shutdown or a restart. The commit attempt that
  times out is not fair, it need not happen.
- `RollingBuffer!FairSpec`: both loops run, the processing of a window ends, and time
  passes for a buffer without messages. No message has to arrive.
- `Processor!FairSpec`: the bootstrap task goes on in its `while` loop. It is strongly
  fair that a round reads all that is published, because two compacted topics are a
  handful of messages and a round polls for seconds; rounds that find less stay
  possible in between. It may also fail for ever (`BootstrapFails`), which the
  property excepts.
- `RealtimeSession!FairSpec`: the socket delivers, the event loop runs the consumer's
  handlers and its listener, and `onclose` reconnects. No user, broadcast, failure,
  timeout or sliding of the rate window is forced.
- `IncidentBridge!BridgeFairSpec`: the loop takes its next step, and `run_realtime`
  starts another loop when one ends. Faults are bounded by `MaxLives`; nothing
  forces one. Webhook posts are not fair.

`OutputDelivery`, `SectionBatch` and `IncidentWorkflow` state no liveness: an output
waits for a next flush that nobody schedules, a pending window for a next message,
a post for its database.

## Proofs

TLAPS checks every proof to its last leaf. The only assumptions are the named
`ASSUME`s on the constants.

- **CircuitBreakerProofs.** `TypeCorrect`. `BreakerInv` (count and state agree, flag and
  half-open agree) is inductive on top of the types; it gives `StateFollowsCount`
  and `FlagFollowsState`. `FailureInHalfOpenReopens` is an action property: in
  half-open the count is at the threshold by `BreakerInv`, so one more failure
  opens. `TrialAlwaysInFlight` is inductive on top of `BreakerInv`: any call that ends in
  the half-open state changes the state, so only a cancellation leaves it without a
  trial. `BreakerStaysCoherent` joins the three. `ProbesAreSingle` rests on `ProbeInv`:
  until a call overtakes, a trial runs only in the half-open state, so that none is
  left when the breaker, open, admits the next.
- **MessageDispatchProofs.** `NothingSkippedUnseen` is not inductive: after a crash the
  position goes back to the committed offset, so one has to know that in a living
  process exactly the messages below the position have a task, that late commits
  are below it, and that when the process ends exactly the uncommitted messages
  forget theirs. That is `PositionInv`. `CleanDrainCancelsNoInput` also needs
  `FifoInv`: the semaphore is fair, so behind a waiting message nothing has run and
  nothing is committed; a drain with no permit taken therefore finds no
  acknowledged message waiting. `HandlersAreBounded` rests on `PressureInv`: while a
  poll is under way either a permit is free or nothing waits, because only the one
  waiting task can have taken the permit the loop saw, and the event loop resumes it
  before the poll's result. `ImplementsConsumerPromise` maps each step to one of the
  promise; `LateInv` says that a commit thread left behind names a message whose
  handler has returned.
- **RollingBufferProofs.** The induction is over `BufferInv`: `BuffersInv` (types,
  `WindowsInv`, `PollerInv`, `OrderInv`, and `CountInv`: `new_count` counts every message
  until the deque is full, and stays below `Step` from then on), `HandedInv` (the
  `Covered` messages of a deque, all but the newest `new_count`, are part of some window
  given to processing) and `NoMessageFallsOut`. `CountInv` and `HandedInv` together make the silent drop of a
  bounded deque harmless: a deque drops only when it is full, and then its oldest
  message is not among the newest `Step - 1`. Lemmas about `Push` (append to a
  bounded deque) and `Without` (remove a key from the order) carry the sequence
  reasoning; `StoreBuffers` and `PopProperties` say once what storing a message and
  popping a buffer do to the state, and `OtherStep` what every step does that stores
  nothing.
  `FullWindowsOverlap` adds `OverlapInv`: once a buffer has had a full window its deque
  stays full and is that window shifted by `new_count`, which is `Step - 1` when the
  next one falls due. `ImplementsConsumerPromise` adds `ReadInv`: deques and windows
  hold only messages that were read.
- **SectionBatchProofs.** `OnlyKnownLosses` and the types are conjuncts of `SectionsInv`:
  `BuffersInv` as above, and `CoveredKept` in place of `HandedInv`, for a window that is
  due may wait, be in a batch, be overwritten or have failed (`Kept`). `MarkProperties`
  is the step that differs: whatever waited is in a batch, still waits, or is recorded
  as overwritten. `ReceivedInv` counts the message the poll loop still holds.
  `AlignmentSuffices` rests on `AlignedInv`: of two sections of a fiber either both are
  in the same window and both wait or neither does, or one is exactly one window ahead
  and is the one that waits (`PairAligned`); and some section of the fiber does not wait,
  because a batch takes all of them as soon as the last one is ready (`DispatchedWait`,
  by cardinality of finite sets: the code compares two numbers, and only while the
  buffers are aligned do equal numbers mean equal sections). A window that fell due while
  its section waits would put that section `Step` messages ahead of the one that does
  not. `SectionsImplementPromise` adds `QueuedRead`, `ReadInv` for windows that wait or are
  in a batch. Its `finished` is what inference was given, so it says that a commit never
  names a message of a section dropped before inference, nor one of a batch that failed or
  of a window still waiting; it cannot say that the message was analysed.
- **OutputDeliveryProofs.** `LettersKnown` rests on `LettersInv`: an output has been
  handed over only if its task has passed that point (`SentOnce`); the output entered
  under an id is of that id and has no letter yet (`EntryIsFresh`); until the callback of
  an output, its entry is its own or was overwritten by an output that is `shared`
  (`EntryIsOwned`); two in flight with one id are both `shared` (`RivalsShared`); outside
  `shared` a letter is for a failed delivery (`LetterIsForFailed`). `BacklogKnown`
  rests on `BacklogInv`, which adds that after a thread that flushed
  has ended, and until its task clears the batch, whatever is in flight is stranded
  already: so the late `batch = {}` loses nothing that was not lost before.
  `EndAccounted` rests on `EndInv`: once the loops are cancelled only the tasks in `left`
  have anything to send, and after a final flush that ran, whatever is in flight was given
  up by it or came later. It does not lean on `stranded`: the final flush is of the whole
  producer, so what earlier batch flushes left behind gets another chance.
- **ProcessorProofs.** `TypeInv` adds `AttemptsLeft` to the types: a message in its
  backoff has an attempt left, or the counter would leave its range. `StepInv`
  carries `PipelinesMatch` and `SectionsStay`: the semaphore is first in, first out
  (`FirstInFirstOut`), and whatever a pipeline was fed was attempted (`FedWasAttempted`),
  so a first attempt is newer than anything fed and `AppendIncreasing` applies. The
  sections beyond the channels are part of it: a rebuild empties them, and no attempt
  reaches them.
  `WaitingStaysBounded` needs `BatchBounded`: a poll brings at most `BatchSize`
  messages, and a batch is dispatched only when nobody waits. `FedOnceInOrder` goes on
  from neighbours to any two messages of a pipeline's history (`IncreasingIsOrdered`, by
  a least counterexample).
- **IncidentProofs, the bridge.** `RoundOK` says what the loop has at hand in each phase; with
  it `BeliefMatches` is itself inductive (`BeliefStep`), since every change of `Held`
  is matched by a message to the groups or noted in `orphaned` or `missed`.
  `AlertsStayAccounted` is not inductive as it stands, for an incident at hand may be
  logged once more. `Owed` is that entry: it is 1 as long as the incident is not held,
  or is at hand with the rule not dispatched yet. `LogsAreOwed` (entries plus `Owed`
  never exceed lives plus retractions) is inductive: a dispatch turns the owed entry
  into a real one, and only the end of a loop or a retraction makes a new one owed
  (`OwedStep`), each of which raises the bound (`BoundStep`).
- **IncidentProofs, the workflow.** `ForksOverlap` rests on `OrderInv`: an action starts from an
  older one (`BaseIsOlder`), posts in their transactions at the same time have `met`
  (`TogetherMeet`, `MetIsMutual`), and of two posts that have not, the later started from
  an action at least as new as the earlier's own (`OthersAreOrdered`). If two actions that
  had not met had one base, it would be as new as the earlier action and older than it.
- **RealtimeSessionProofs.** `HandshakeInv` comes first: until the browser is
  authenticated exactly one of request, handler and answer exists (`Greeting`), the
  consumer has no subscription yet, and the queued channels are the wanted ones but for
  the excused; afterwards no second greeting is under way. Without it an answer of the
  handshake could meet a queue that holds requests already. It carries the types of
  the two queues, field by field (`Requests`, `Answers`), hence `SessionTypeCorrect`.
  `ConsumerStaysConsistent` says nothing of the middle of a handler, so `GroupsInv` does:
  `Attached` names the channels whose groups the consumer is in after each await of a
  switch, `TodoOK` which awaits are left. `EndsStayAgreed` speaks of empty queues, so the
  invariant must say what full ones hold: the last message of a sort under way is the
  right one, and if none is, the receiver is as it should be (`Decided`, which survives
  the receipt and the sending of a message by `DecidedTail` and `DecidedAppend`). That is
  `ChannelsInv` for the requests of a channel against what the components want, and
  `FlowInv` for the confirmations of a switch against the consumer's flow, which holds
  while no switch is asked for or going on. `DisagreementIsMended` draws from the two that
  whatever differs has its remedy under way: the safety half of `WantedIsServed`, whose
  other half is that the socket and the consumer go on. `OldFlowOnlyDrains` is that of
  `OldFlowFades`: by `GroupsInv` the consumer is never in a group of another flow than
  its own, so nothing of the old one comes in. That `Channels` is finite
  (`ChannelsAssumption`) is needed where the queued channels are listed; in the code it
  is a literal set.

`LeastNatural` (a set of naturals has a least element) stands in `ProcessorProofs` and in
`RealtimeSessionProofs`. It replaces an induction, which the provers cannot instantiate:
the least counterexample is the element to refute. It is drawn from the library's
theorem that strict inclusion orders finite sets well.

Every safety invariant, every action property and every refinement that a passing run
checks is proved. Only model-checked are the eight liveness properties, because fairness
and `ENABLED` are outside this prover: `OpenIsLeft`, `TrialIsDecided`, `EverythingSettles`,
`EveryMessageSettles`, `PendingBecomesReady`, `WantedIsServed`, `OldFlowFades` and
`EndedIsRetracted`.

## Known divergences without a run

Where a sentence of the repository is contradicted by its code, a run shows it if the
sentence is a property of a module here (`findings`). These were met as well:

- `fibers/apps.py:36` says "Notify the Kafka bridge to reload its fiber_org_map
  immediately" and sends to the group `bridge_control`, which nothing joins. The
  bridge reloads at its own interval; `RefreshMap` may come any time later.
- `processor/README.md` says "Config hot-reloads — changes to `fibers.yaml` take
  effect without restart". A fibre added after the parameter bootstrap has ended
  (`processor/main.py:90`) never gets its instrument parameters and is skipped until a
  restart. `PendingBecomesReady` speaks only of the time the bootstrap runs.
- The window commit of `shared/transformer.py:502` acknowledges older messages of other
  keys that are still buffered. A crash then loses them, which is why
  `ConsumerPromise` is no stronger than it is.
- The drain of `service_base.py:359` counts permits, and a transformer sends after
  giving its permit back (`transformer.py:30`): the output of a committed message can
  be cancelled. `CleanDrainKeepsInput` is about inputs for that reason.
- A section that runs ahead of the others replaces its own pending window
  (`ai_engine/main.py:219`), and windows of a fibre that falls silent wait for the next
  message. `SectionBatch` has both; `overwritten` names what is lost.
- A section that inference leaves out for its samples stays in `all_batch_meta`
  (`ai_engine/main.py:316`) and its last message is committed; if none of a model group has
  enough samples, `_sync_batch_inference` returns `[]` and all of them are. One that is too
  narrow is not committed (`main.py:272`). `unanalysed` and `skipped` keep them apart.

### Losses the properties except

Several properties say that something goes wrong only in the named ways. The named ways
are faults of the code that the properties do not catch:

- An output that the producer refuses is lost: `_send_avro_message`
  (`message_ops.py:236`) returns `False`, and neither retry nor dead letter follows.
- An output appended while another task's flush runs is cleared with that task's batch
  (`message_ops.py:282`) and does not count for the next one (`stranded`).
- A consumer that does not close in time leaves the producer unflushed
  (`kafka_setup.py:159`; `EndIsAccounted` is about the others), and an output that a task
  still running hands over after the final flush is not delivered (`late`).
- A poll loop of the bridge that ends forgets what it has announced, and its groups are
  never told of an end that comes meanwhile (`kafka_bridge.py:364`; `orphaned`). Its
  alerts repeat with each life.
- The poll reads at most 200 incidents (`kafka_bridge.py:351`): the oldest of more are
  announced as resolved, and announced and alerted again when they are back.
- A group that gains or loses a fibre hears only one of an incident's beginning and end
  (`missed`, `orphaned`).
- A webhook worker that raises, or dies with its process, leaves a log entry pending
  (`dispatch.py:206`; `undecided`).
- A section raised in the middle of a message, or a message retried, leaves the stateful
  steps of a fibre out of step until the next rebuild (`uneven`, `retried`).

## Not modelled, and the plan

Next, in this order:

1. `ClickHouseClient`: threads that share a failure counter and a cooldown.
2. `SimulationManager`: start, stop and the tasks of `run_realtime`; then composed with
   `IncidentBridge`, whose loop it restarts.
3. Several tabs in `RealtimeSession`, and the bridge's broadcasts as its surroundings.
4. A rolling service with restarts, and a stronger promise for the dispatch alone, in
   which a message ends in one of the known ways.

Left out, and why:

- The replay buffer schedules by wall-clock times against a percentile of a hundred
  observed delays; an instance small enough for TLC has no percentile to speak of. Its
  hazard is listed.
- The GPU lock serializes the inference of a batch, which `SectionBatch` takes as one
  step.
- The vehicle model, the numeric content of the processing steps, training and
  simulation are array arithmetic: they decide values, not the order in which state
  changes. They, the CRUD and query views and the pages of the client are most of the
  repository's lines, which is why the share of lines the map covers stays small.
- Avro and YAML parsing, metrics and tracing, accounts, reports, the schema and
  deployment files keep no state over which actors compete.
