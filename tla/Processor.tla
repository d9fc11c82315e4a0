----------------------------- MODULE Processor -----------------------------
(***************************************************************************)
(* The processor (processor/main.py) on top of the shared service: batches *)
(* are polled and dispatched at once, each message of a fiber passes the   *)
(* pipelines of the fiber's sections, which keep state between messages,   *)
(* and the configuration is reloaded under it (config/fiber_config.py):    *)
(* pipelines are rebuilt when a fiber's configuration changes, and a fiber *)
(* is served once its instrument parameters were read by the bootstrap.    *)
(*                                                                         *)
(* A transformation has no await of its own and is one step; its retries   *)
(* back off in between.  Commit and shutdown are those of MessageDispatch, *)
(* the outputs are sent as in OutputDelivery.                              *)
(***************************************************************************)
EXTENDS Integers, Sequences, FiniteSets

CONSTANTS Fibers,
          NumMessages, FiberOf,  \* the messages and their topics
          BatchSize,             \* _POLL_BATCH_SIZE
          MaxConcurrent,         \* max_concurrent_messages
          MaxAttempts,           \* max_retries + 1
          Skip,                  \* STARTUP_SKIP_MESSAGES
          Configs, FirstConfig,  \* contents of fibers.yaml
          FibersOf, SectionsOf,  \* the fibers of a content, and the sections of each, in order
          ChannelStart,          \* channel_start of the sections of a content
          Channels,              \* channels of each instrument, total_channels once it is known
          Unbuildable,           \* contents with a pipeline that cannot be built
          MaxEdits,              \* bound on the edits of fibers.yaml
          None

Messages == 1..NumMessages
Sections == UNION {SectionsOf[c] : c \in Configs}

ASSUME ProcessorAssumption ==
    /\ NumMessages \in Nat /\ BatchSize \in Nat \ {0} /\ MaxConcurrent \in Nat \ {0}
    /\ MaxAttempts \in Nat \ {0} /\ Skip \in Nat /\ MaxEdits \in Nat
    /\ FiberOf \in [Messages -> Fibers]
    /\ FirstConfig \in Configs /\ Unbuildable \subseteq Configs /\ None \notin Configs
    /\ FibersOf \in [Configs -> SUBSET Fibers]
    /\ SectionsOf \in [Configs -> SUBSET Nat]

\* A fiber without a section is not served at all.
ASSUME ChannelsAssumption ==
    /\ \A c \in Configs : SectionsOf[c] # {}
    /\ ChannelStart \in [Configs -> [Sections -> Nat]]
    /\ Channels \in [Fibers -> Nat \ {0}]

VARIABLES poller,    \* the batch poll loop
          position,  \* next message of the consumer
          batch,     \* decoded messages of the last poll, not dispatched yet
          task,      \* where each message stands
          attempts,  \* attempts of its transformation
          consumed,  \* _messages_consumed, up to Skip
          file,      \* the content of fibers.yaml
          edits,     \* number of its edits
          loaded,    \* the content the manager has loaded
          params,    \* _instrument_params: fibers whose parameters are known
          published, \* fibers whose parameters are in Kafka
          bootstrap, \* _retry_params_bootstrap
          built,     \* _fiber_config_hashes and _fiber_configs
          pipelines, \* _fiber_pipelines: the content they were built from
          fed,       \* the messages each pipeline of a fiber has been given
          uneven,    \* history: an attempt ended inside the sections since the build
          retried    \* history: a message was retried since the build

queue == <<poller, position, batch>>
config == <<file, edits, loaded, params, published, bootstrap>>
chains == <<built, pipelines, fed, uneven, retried>>
vars == <<queue, task, attempts, consumed, config, chains>>

Pending(c) == FibersOf[c] \ params

TypeOK ==
    /\ poller \in {"polling", "dispatching"}
    /\ position \in 1..(NumMessages + 1)
    /\ batch \subseteq Messages
    /\ task \in [Messages -> {"none", "undecodable", "waiting", "backoff", "committing",
                              "processed", "dead"}]
    /\ attempts \in [Messages -> 0..MaxAttempts]
    /\ consumed \in 0..Skip
    /\ file \in Configs \cup {None}
    /\ edits \in 0..MaxEdits
    /\ loaded \in Configs
    /\ params \subseteq published
    /\ published \subseteq Fibers
    /\ bootstrap \in {"running", "ended", "failed"}
    /\ built \in [Fibers -> Configs \cup {None}]
    /\ pipelines \in [Fibers -> (Configs \ Unbuildable) \cup {None}]
    /\ fed \in [Fibers -> [Sections -> Seq(Messages)]]
    /\ uneven \subseteq Fibers
    /\ retried \subseteq Fibers

\* __init__ has tried to read the parameters once.
Init ==
    /\ poller = "polling"
    /\ position = 1
    /\ batch = {}
    /\ task = [m \in Messages |-> "none"]
    /\ attempts = [m \in Messages |-> 0]
    /\ consumed = 0
    /\ file = FirstConfig
    /\ edits = 0
    /\ loaded = FirstConfig
    /\ published \in SUBSET Fibers
    /\ params \in SUBSET (published \cap FibersOf[FirstConfig])
    /\ bootstrap = IF Pending(FirstConfig) = {} THEN "ended" ELSE "running"
    /\ built = [f \in Fibers |-> None]
    /\ pipelines = [f \in Fibers |-> None]
    /\ fed = [f \in Fibers |-> [s \in Sections |-> <<>>]]
    /\ uneven = {}
    /\ retried = {}

-----------------------------------------------------------------------------
(* The batch poll loop *)

Waiting == {m \in Messages : task[m] = "waiting"}
Permits == {m \in Messages : task[m] \in {"backoff", "committing"}}
PermitFree == Cardinality(Permits) < MaxConcurrent

\* One call fetches and decodes a batch; a message that cannot be decoded is
\* logged and skipped.  Bound: at most one in a batch.
PollBatch ==
    /\ poller = "polling"
    /\ \E last \in position..NumMessages :
          /\ last < position + BatchSize
          /\ \E bad \in SUBSET (position..last) :
                /\ Cardinality(bad) <= 1
                /\ batch' = (position..last) \ bad
                /\ task' = [m \in Messages |-> IF m \in bad THEN "undecodable" ELSE task[m]]
          /\ position' = last + 1
    /\ poller' = IF batch' = {} THEN "polling" ELSE "dispatching"
    /\ UNCHANGED <<attempts, consumed, config, chains>>

\* Mutant: the loop dispatches whether or not the semaphore is locked.
DispatchAlways ==
    /\ poller = "dispatching"
    /\ task' = [m \in Messages |-> IF m \in batch THEN "waiting" ELSE task[m]]
    /\ batch' = {}
    /\ poller' = "polling"
    /\ UNCHANGED <<position, attempts, consumed, config, chains>>

\* The loop waits while the semaphore is locked: no permit, or others in line.
\* It tests again for each message, but awaits nothing once it is not, and a
\* task takes no permit before it runs: the rest of the batch passes.
DispatchBatch ==
    /\ poller = "dispatching"
    /\ PermitFree /\ Waiting = {}
    /\ task' = [m \in Messages |-> IF m \in batch THEN "waiting" ELSE task[m]]
    /\ batch' = {}
    /\ poller' = "polling"
    /\ UNCHANGED <<position, attempts, consumed, config, chains>>

-----------------------------------------------------------------------------
(* transform: one attempt *)

Loadable == IF file = None THEN loaded ELSE file

\* get_fiber may find that it is time to look at the file.
MayReload == {loaded, Loadable}

\* The code hashes the configuration of the fiber; here the contents of the file are
\* told apart by it, so that an edit of one fiber rebuilds the others too.
NeedsBuild(f, c) == built[f] # c

\* Mutant: pipelines are built for the first configuration only.
RebuiltOnce(f, c) == [pipelines EXCEPT ![f] = IF @ = None THEN c ELSE @]

Rebuilt(f, c) == [pipelines EXCEPT ![f] = c]

\* Mutant: one retry too many.
RaisesOnceMore(m) ==
    task' = [task EXCEPT ![m] = IF attempts'[m] <= MaxAttempts THEN "backoff" ELSE "dead"]

\* The attempt is over: retried after a backoff, or dead-lettered.
Raises(m) ==
    task' = [task EXCEPT ![m] = IF attempts'[m] < MaxAttempts THEN "backoff" ELSE "dead"]

Returns(m, outcome) == task' = [task EXCEPT ![m] = outcome]

\* A message has the channels of the instrument; a section that starts beyond them
\* is passed over, message after message.
Reached(f, c) == {s \in SectionsOf[c] : ChannelStart[c][s] < Channels[f]}

\* Gives m to the pipelines of the sections of c, in order.  A section without a
\* pipeline is passed over, and a payload that does not fit is given to none.  A step
\* may raise: in the middle of a pipeline, when its first steps had the message,
\* before or after it, up to the output of the last section.
Feed(m, f, c, pipe, before, rebuilt) ==
    LET sections == Reached(f, c) \cap SectionsOf[pipe]
    IN  \E given \in SUBSET sections, halfway \in BOOLEAN :
          /\ \A s \in given, t \in sections \ given : s < t
          /\ halfway => given # {}
          /\ fed' = [fed EXCEPT ![f] = [s \in Sections |->
                        IF s \in given THEN Append(before[s], m) ELSE before[s]]]
          /\ \/ given \in {{}, sections} /\ ~halfway /\ Returns(m, "committing")
             \/ Raises(m)
          /\ uneven' = IF halfway \/ given \notin {{}, sections} THEN uneven \cup {f}
                       ELSE IF rebuilt THEN uneven \ {f} ELSE uneven
          /\ retried' = IF rebuilt THEN retried \ {f}
                        ELSE IF attempts'[m] > 1 THEN retried \cup {f} ELSE retried

Empty == [s \in Sections |-> <<>>]

\* _get_fiber_pipelines: the hash and the configuration are stored, then the
\* pipelines are built, which may raise.
Process(m, f, c) ==
    \/ /\ ~NeedsBuild(f, c)
       /\ pipelines[f] # None
       /\ Feed(m, f, c, pipelines[f], fed[f], FALSE)
       /\ UNCHANGED <<built, pipelines>>
    \/ /\ ~NeedsBuild(f, c)
       /\ pipelines[f] = None
       /\ Raises(m)
       /\ UNCHANGED chains
    \/ /\ NeedsBuild(f, c)
       /\ c \notin Unbuildable
       /\ built' = [built EXCEPT ![f] = c]
       /\ pipelines' = Rebuilt(f, c)
       /\ Feed(m, f, c, c, Empty, TRUE)
    \/ /\ NeedsBuild(f, c)
       /\ c \in Unbuildable
       /\ built' = [built EXCEPT ![f] = c]
       /\ Raises(m)
       /\ UNCHANGED <<pipelines, fed, uneven, retried>>

\* The fiber is looked up twice: for its readiness, and with its pipelines.
Transform(m) ==
    LET f == FiberOf[m]
    IN  /\ attempts' = [attempts EXCEPT ![m] = @ + 1]
        /\ IF consumed < Skip
           THEN /\ consumed' = consumed + 1
                /\ Returns(m, "committing")
                /\ UNCHANGED <<config, chains>>
           ELSE \E c \in MayReload :
                   /\ UNCHANGED <<consumed, file, edits, params, published, bootstrap>>
                   /\ IF f \notin FibersOf[c] \cap params
                      THEN /\ loaded' = c
                           /\ Returns(m, "committing")
                           /\ UNCHANGED chains
                      ELSE \/ /\ loaded' = c
                              /\ Process(m, f, c)
                           \/ /\ loaded' = Loadable
                              /\ f \notin FibersOf[Loadable]
                              /\ Raises(m)
                              /\ UNCHANGED chains
                           \/ /\ loaded' = Loadable
                              /\ f \in FibersOf[Loadable]
                              /\ Process(m, f, Loadable)

\* Mutant: the semaphore wakes any waiter.
TakePermitOutOfTurn(m) ==
    /\ task[m] = "waiting"
    /\ PermitFree
    /\ Transform(m)
    /\ UNCHANGED queue

\* The semaphore is first in, first out, and the first attempt follows at once.
TakePermit(m) ==
    /\ task[m] = "waiting"
    /\ PermitFree
    /\ \A n \in Waiting : m <= n
    /\ Transform(m)
    /\ UNCHANGED queue

Retry(m) ==
    /\ task[m] = "backoff"
    /\ Transform(m)
    /\ UNCHANGED queue

\* Rejected by the breaker or cut by the message timeout between two attempts.
GiveUp(m) ==
    /\ task[m] = "backoff"
    /\ Returns(m, "dead")
    /\ UNCHANGED <<queue, attempts, consumed, config, chains>>

Commit(m) ==
    /\ task[m] = "committing"
    /\ Returns(m, "processed")
    /\ UNCHANGED <<queue, attempts, consumed, config, chains>>

-----------------------------------------------------------------------------
(* The bootstrap of the instrument parameters *)

\* Its answer to pending_fibers, which may reload the file.
BootstrapEnds ==
    /\ bootstrap = "running"
    /\ loaded' \in MayReload
    /\ Pending(loaded') = {}
    /\ bootstrap' = "ended"
    /\ UNCHANGED <<queue, task, attempts, consumed, file, edits, params, published, chains>>

\* Mutant: the round asks for the fibers of the first configuration only.
ReadFirstParams(found) ==
    /\ bootstrap = "running"
    /\ loaded' \in MayReload
    /\ Pending(loaded') # {}
    /\ params' = params \cup (found \cap FibersOf[FirstConfig])
    /\ UNCHANGED <<queue, task, attempts, consumed, file, edits, published, bootstrap, chains>>

\* A round waits, then reads what it finds in time for the fibers loaded now.
ReadParams(found) ==
    /\ bootstrap = "running"
    /\ loaded' \in MayReload
    /\ Pending(loaded') # {}
    /\ params' = params \cup (found \cap FibersOf[loaded'])
    /\ UNCHANGED <<queue, task, attempts, consumed, file, edits, published, bootstrap, chains>>

\* The registry or the broker cannot be reached: the task ends with the exception.
BootstrapFails ==
    /\ bootstrap = "running"
    /\ bootstrap' = "failed"
    /\ UNCHANGED <<queue, task, attempts, consumed, file, edits, loaded, params, published, chains>>

-----------------------------------------------------------------------------
(* The instruments and the operator *)

Publish(f) ==
    /\ f \notin published
    /\ published' = published \cup {f}
    /\ UNCHANGED <<queue, task, attempts, consumed, file, edits, loaded, params, bootstrap, chains>>

\* None stands for a file that cannot be parsed: the content loaded stays.
EditFile(c) ==
    /\ edits < MaxEdits
    /\ c # file
    /\ file' = c
    /\ edits' = edits + 1
    /\ UNCHANGED <<queue, task, attempts, consumed, loaded, params, published, bootstrap, chains>>

-----------------------------------------------------------------------------
Next ==
    \/ PollBatch \/ DispatchBatch
    \/ \E m \in Messages : TakePermit(m) \/ Retry(m) \/ GiveUp(m) \/ Commit(m)
    \/ BootstrapEnds \/ BootstrapFails
    \/ \E found \in SUBSET published : ReadParams(found)
    \/ \E f \in Fibers : Publish(f)
    \/ \E c \in Configs \cup {None} : EditFile(c)

Spec == Init /\ [][Next]_vars

\* The bootstrap goes on, and one of its rounds reads all that is published, which
\* is a message or two of compacted topics in five seconds.
FairSpec ==
    /\ Spec
    /\ WF_vars(BootstrapEnds)
    /\ SF_vars(ReadParams(published))

-----------------------------------------------------------------------------
(* Properties *)

\* A batch passes the test of the semaphore as a whole, but never on top of
\* messages that wait already.
WaitingBounded ==
    /\ Cardinality(Permits) <= MaxConcurrent
    /\ Cardinality(Waiting) <= BatchSize

\* Through any reloads, retries and failed builds, the pipelines of a fiber are of
\* the configuration its messages are read with, unless that one cannot be built.
PipelinesMatchConfig ==
    \A f \in Fibers : pipelines[f] # built[f] => built[f] \in Unbuildable

Increasing(q) == \A i \in 1..(Len(q) - 1) : q[i] < q[i + 1]

\* The filters and counters of a pipeline depend on all it was given since it was
\* built.  Though messages run concurrently, the sections that the instrument's
\* channels reach were given the same messages unless an attempt ended inside them,
\* and in order unless a message was retried; the sections beyond were given none.
SectionsInStep ==
    \A f \in Fibers : pipelines[f] # None /\ pipelines[f] = built[f] =>
        LET reached == Reached(f, built[f])
        IN  /\ f \notin uneven => \A s, t \in reached : fed[f][s] = fed[f][t]
            /\ f \notin retried => \A s \in reached : Increasing(fed[f][s])
            /\ \A s \in SectionsOf[built[f]] \ reached : fed[f][s] = <<>>

\* While the bootstrap runs, a fiber whose parameters are published is served in
\* the end, one that a reload has added too.
PendingBecomesReady ==
    \A f \in Fibers :
        (bootstrap = "running" /\ f \in FibersOf[loaded] \cap published)
            ~> (f \in params \/ f \notin FibersOf[loaded] \/ bootstrap = "failed")
=============================================================================
