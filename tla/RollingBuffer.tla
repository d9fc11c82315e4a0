---------------------------- MODULE RollingBuffer ----------------------------
(***************************************************************************)
(* The RollingBufferedTransformer of shared/transformer.py: messages of    *)
(* one partition are kept in a rolling window per key; a full window is    *)
(* processed every Step new messages, a window that is evicted or has gone *)
(* stale is processed as it stands.  Three kinds of task interleave at     *)
(* their awaits: the poll loop, the loop that looks for stale buffers, and *)
(* the processing of each window.                                          *)
(*                                                                         *)
(* Message m is the m-th of the partition.  Processing a window (breaker,  *)
(* retries, timeout, sends) ends in one step here, at any later time and   *)
(* in any order, which is every order the semaphore allows and more.       *)
(***************************************************************************)
EXTENDS Integers, Sequences

CONSTANTS Keys,        \* buffer keys (fiber and section)
          Window,      \* get_window_size()
          Step,        \* get_step_size()
          MaxActive,   \* max_active_buffers
          NumMessages  \* bound on the messages of the partition

ASSUME WindowAssumption == Window \in Nat \ {0} /\ Step \in 1..Window
ASSUME BoundAssumption == MaxActive \in Nat \ {0} /\ NumMessages \in Nat

VARIABLES polled,    \* messages read so far
          buffers,   \* _rolling_buffers: per key its deque, new_count, and if it is stale
          order,     \* the keys of _rolling_buffers, least recently used first
          poller,    \* the poll loop: ready, or awaiting the window it evicted
          sweep,     \* the stale-buffer loop: keys left to pop, and the window it awaits
          tasks,     \* windows being processed
          processed, \* messages in a window processed successfully
          dead,      \* messages handed to the dead letter queue
          skipped,   \* messages that could not be decoded, or have no key
          committed  \* committed offset: the first message a restart would read

vars == <<polled, buffers, order, poller, sweep, tasks, processed, dead, skipped, committed>>
outcome == <<processed, dead, skipped, committed>>

Messages == 1..NumMessages
ItemsOf(s) == {s[i] : i \in DOMAIN s}

NoBuffer == [deque |-> <<>>, new_count |-> 0, stale |-> FALSE, last_window |-> <<>>]
NoWindow == [messages |-> <<>>, partial |-> TRUE]
Ready == [awaits |-> NoWindow, message |-> 0, key |-> 0]
Idle == [keys |-> {}, awaits |-> NoWindow]

\* A window as it is handed to _process_rolling_buffer.
WindowOf(s, isPartial) == [messages |-> s, partial |-> isPartial]

Active(k) == buffers[k] # NoBuffer
ActiveKeys == {k \in Keys : Active(k)}

Windows == [messages : Seq(Messages), partial : BOOLEAN]
Buffers == [deque : Seq(Messages), new_count : 0..Window, stale : BOOLEAN,
            last_window : Seq(Messages)]

TypeOK ==
    /\ polled \in 0..NumMessages
    /\ buffers \in [Keys -> Buffers]
    /\ order \in Seq(Keys)
    /\ poller \in {Ready} \cup [awaits : Windows, message : Messages, key : Keys]
    /\ sweep \in [keys : SUBSET Keys, awaits : Windows]
    /\ tasks \subseteq Windows
    /\ processed \subseteq Messages
    /\ dead \subseteq Messages
    /\ skipped \subseteq Messages
    /\ committed \in 1..(NumMessages + 1)

Init ==
    /\ polled = 0
    /\ buffers = [k \in Keys |-> NoBuffer]
    /\ order = <<>>
    /\ poller = Ready
    /\ sweep = Idle
    /\ tasks = {}
    /\ processed = {}
    /\ dead = {}
    /\ skipped = {}
    /\ committed = 1

-----------------------------------------------------------------------------
(* _handle_rolling_message *)

\* Mutant: the deque has no bound.
PushUnbounded(s, m) == Append(s, m)

\* deque(maxlen=Window)
Push(s, m) == IF Len(s) < Window THEN Append(s, m) ELSE Append(Tail(s), m)

Without(s, k) ==
    IF k \in ItemsOf(s)
    THEN LET i == CHOOSE j \in DOMAIN s : s[j] = k
         IN  SubSeq(s, 1, i - 1) \o SubSeq(s, i + 1, Len(s))
    ELSE s

\* Mutant: new_count is not reset when a window is dispatched.
CountOn(due, n) == n + 1

\* Mutant: the message that completes a window counts towards the next one too.
CountTwice(due, n) == IF due THEN 1 ELSE n + 1

\* new_count after a message.
NewCount(due, n) == IF due THEN 0 ELSE n + 1

\* The window of k is full and Step messages newer than the last one dispatched.
Due(m, k) == Len(Push(buffers[k].deque, m)) >= Window /\ buffers[k].new_count + 1 >= Step

\* Append to the key's buffer, which becomes the most recently used.
Store(m, k) ==
    LET deque == Push(buffers[k].deque, m)
    IN  /\ order' = Append(Without(order, k), k)
        /\ buffers' = [buffers EXCEPT ![k] =
                         [deque |-> deque,
                          new_count |-> NewCount(Due(m, k), buffers[k].new_count),
                          stale |-> FALSE,
                          last_window |-> IF Due(m, k) THEN deque ELSE buffers[k].last_window]]

\* A window that is due is processed in a task of its own.
StartIfDue(m, k) ==
    tasks' = IF Due(m, k) THEN tasks \cup {WindowOf(Push(buffers[k].deque, m), FALSE)}
             ELSE tasks

\* No buffer for the key, and no room for one.
MustEvict(k) == ~Active(k) /\ Len(order) >= MaxActive

\* The next message arrives, for any key.
Handle(k) ==
    /\ poller = Ready
    /\ polled < NumMessages
    /\ ~MustEvict(k)
    /\ polled' = polled + 1
    /\ Store(polled + 1, k)
    /\ StartIfDue(polled + 1, k)
    /\ UNCHANGED <<poller, sweep, outcome>>

\* The next message cannot be decoded, or get_buffer_key raises: it is logged.
Skip ==
    /\ poller = Ready
    /\ polled < NumMessages
    /\ polled' = polled + 1
    /\ skipped' = skipped \cup {polled + 1}
    /\ UNCHANGED <<buffers, order, poller, sweep, tasks, processed, dead, committed>>

\* Mutant: the evicted buffer is dropped unprocessed.
EvictAndDrop(k) ==
    LET w == WindowOf(buffers[Head(order)].deque, TRUE)
    IN  /\ poller = Ready
        /\ polled < NumMessages
        /\ MustEvict(k)
        /\ polled' = polled + 1
        /\ buffers' = [buffers EXCEPT ![Head(order)] = NoBuffer]
        /\ order' = Tail(order)
        /\ poller' = [awaits |-> w, message |-> polled + 1, key |-> k]
        /\ UNCHANGED <<tasks, sweep, outcome>>

\* The least recently used buffer makes room: the poll loop awaits the
\* processing of its window before it stores the message.
Evict(k) ==
    LET w == WindowOf(buffers[Head(order)].deque, TRUE)
    IN  /\ poller = Ready
        /\ polled < NumMessages
        /\ MustEvict(k)
        /\ polled' = polled + 1
        /\ buffers' = [buffers EXCEPT ![Head(order)] = NoBuffer]
        /\ order' = Tail(order)
        /\ tasks' = tasks \cup {w}
        /\ poller' = [awaits |-> w, message |-> polled + 1, key |-> k]
        /\ UNCHANGED <<sweep, outcome>>

StoreAfterEviction ==
    /\ poller # Ready
    /\ poller.awaits \notin tasks
    /\ Store(poller.message, poller.key)
    /\ StartIfDue(poller.message, poller.key)
    /\ poller' = Ready
    /\ UNCHANGED <<polled, sweep, outcome>>

-----------------------------------------------------------------------------
(* _rolling_buffer_timeout_loop *)

\* No message for the key for buffer_timeout seconds.
GrowStale(k) ==
    /\ Active(k)
    /\ ~buffers[k].stale
    /\ buffers' = [buffers EXCEPT ![k].stale = TRUE]
    /\ UNCHANGED <<polled, order, poller, sweep, tasks, outcome>>

\* Mutant: only full buffers are looked for.
SweepBeginsIfFull ==
    LET stale == {k \in ActiveKeys : buffers[k].stale /\ Len(buffers[k].deque) = Window}
    IN  /\ sweep = Idle
        /\ stale # {}
        /\ sweep' = [Idle EXCEPT !.keys = stale]
        /\ UNCHANGED <<polled, buffers, order, poller, tasks, outcome>>

SweepBegins ==
    LET stale == {k \in ActiveKeys : buffers[k].stale}
    IN  /\ sweep = Idle
        /\ stale # {}
        /\ sweep' = [Idle EXCEPT !.keys = stale]
        /\ UNCHANGED <<polled, buffers, order, poller, tasks, outcome>>

\* Pops a key found stale, however fresh its buffer has become since, and awaits
\* its window before the next.
SweepPops(k) ==
    LET w == WindowOf(buffers[k].deque, TRUE)
    IN  /\ k \in sweep.keys
        /\ sweep.awaits \notin tasks
        /\ Active(k)
        /\ buffers' = [buffers EXCEPT ![k] = NoBuffer]
        /\ order' = Without(order, k)
        /\ tasks' = tasks \cup {w}
        /\ sweep' = [keys |-> sweep.keys \ {k}, awaits |-> w]
        /\ UNCHANGED <<polled, poller, outcome>>

\* The buffer was evicted while the loop awaited another: KeyError.  The rest
\* of the keys wait for the next round.
SweepFails(k) ==
    /\ k \in sweep.keys
    /\ sweep.awaits \notin tasks
    /\ ~Active(k)
    /\ sweep' = Idle
    /\ UNCHANGED <<polled, buffers, order, poller, tasks, outcome>>

SweepEnds ==
    /\ sweep # Idle
    /\ sweep.keys = {}
    /\ sweep.awaits \notin tasks
    /\ sweep' = Idle
    /\ UNCHANGED <<polled, buffers, order, poller, tasks, outcome>>

-----------------------------------------------------------------------------
(* _process_rolling_buffer *)

\* Mutant: the offset handed to the commit is incremented once too often.
ProcessedOneTooFar(w) ==
    /\ w \in tasks
    /\ tasks' = tasks \ {w}
    /\ processed' = processed \cup ItemsOf(w.messages)
    /\ \/ committed' = w.messages[Len(w.messages)] + 2
       \/ UNCHANGED committed
    /\ UNCHANGED <<polled, buffers, order, poller, sweep, dead, skipped>>

\* Only the last message of the window is committed; the commit may fail.
Processed(w) ==
    /\ w \in tasks
    /\ tasks' = tasks \ {w}
    /\ processed' = processed \cup ItemsOf(w.messages)
    /\ \/ committed' = w.messages[Len(w.messages)] + 1
       \/ UNCHANGED committed
    /\ UNCHANGED <<polled, buffers, order, poller, sweep, dead, skipped>>

\* Failed or timed out: every message is dead-lettered, nothing is committed.
Failed(w) ==
    /\ w \in tasks
    /\ tasks' = tasks \ {w}
    /\ dead' = dead \cup ItemsOf(w.messages)
    /\ UNCHANGED <<polled, buffers, order, poller, sweep, processed, skipped, committed>>

-----------------------------------------------------------------------------
PollLoop == (\E k \in Keys : Handle(k) \/ Evict(k)) \/ Skip \/ StoreAfterEviction
StaleLoop == SweepBegins \/ (\E k \in Keys : SweepPops(k) \/ SweepFails(k)) \/ SweepEnds

Next ==
    \/ PollLoop
    \/ \E k \in Keys : GrowStale(k)
    \/ StaleLoop
    \/ \E w \in tasks : Processed(w) \/ Failed(w)

Spec == Init /\ [][Next]_vars

\* Both loops run, every window's processing ends, and a buffer that gets no
\* message becomes stale with time; nobody has to send messages.
FairSpec ==
    /\ Spec
    /\ WF_vars(StoreAfterEviction)
    /\ WF_vars(StaleLoop)
    /\ \A k \in Keys : WF_vars(GrowStale(k))
    /\ WF_vars(\E w \in tasks : Processed(w) \/ Failed(w))

-----------------------------------------------------------------------------
(* Properties *)

Buffered == UNION {ItemsOf(buffers[k].deque) : k \in Keys}
BeingProcessed == UNION {ItemsOf(w.messages) : w \in tasks}

\* A full deque drops its oldest message silently.  Still no message that got
\* into one is dropped before some window it belongs to has been given to
\* processing, whatever evictions and stale buffers do in between.
NoMessageFallsOut ==
    \A m \in 1..polled :
        m \in Buffered \cup BeingProcessed \cup processed \cup dead \cup skipped
                  \cup {poller.message}

\* Consecutive full windows of a buffer overlap by exactly Window - Step
\* messages: each starts Step messages after the one before.
WindowsOverlap ==
    [][\A k \in Keys :
          LET w == buffers[k].last_window
              v == buffers'[k].last_window
          IN  v # w /\ w # <<>> /\ v # <<>> =>
                SubSeq(v, 1, Window - Step) = SubSeq(w, Step + 1, Window)]_vars

\* The LRU order lists every active buffer once and never exceeds the limit,
\* although the loops remove keys while the other is in the middle of its work.
OrderMatchesBuffers ==
    /\ Len(order) <= MaxActive
    /\ ItemsOf(order) = ActiveKeys
    /\ \A i, j \in DOMAIN order : order[i] = order[j] => i = j

Promise == INSTANCE ConsumerPromise WITH
    position <- polled + 1,
    finished <- processed

\* However windows overlap, wait, fail and end out of order, a commit names a
\* message that was read and processed.
KeepsConsumerPromise == Promise!Spec

\* Every message buffered is eventually processed or dead-lettered, also the tail
\* that never fills a window.
EveryMessageSettles ==
    \A m \in Messages : (m <= polled) ~> (m \in processed \cup dead \cup skipped)
=============================================================================
