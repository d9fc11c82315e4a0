----------------------------- MODULE SectionBatch -----------------------------
(***************************************************************************)
(* The AI engine (ai_engine/main.py), a rolling buffer per section that    *)
(* overrides what happens to a window that is due: it waits as its         *)
(* section's pending window until the number of pending windows of the     *)
(* fiber reaches the number of its buffers, and all of them go through the *)
(* GPU in one batch.  Evictions and stale buffers are those of module      *)
(* RollingBuffer; its "processed" includes the windows process_buffer      *)
(* answers with no detections because they are too narrow or too short     *)
(* (main.py 654-661, 680-686): _process_rolling_buffer commits those too.  *)
(* A batch ends in one step here, at any later time; it has no breaker, no *)
(* timeout and no dead letter queue.                                       *)
(***************************************************************************)
EXTENDS RollingBuffer, FiniteSets

CONSTANT FiberOf \* the fiber of each section

ASSUME FiberAssumption == DOMAIN FiberOf = Keys

VARIABLES pending,     \* _pending_per_fiber: per section its pending window, or none
          batches,     \* batches being processed, per section its window
          failed,      \* messages of batches that raised: the error is only logged
          unanalysed,  \* messages inference was given and left out: too few samples
          overwritten, \* history: messages of pending windows that a newer one replaced
          received,    \* history: messages stored per section
          aligned      \* history: no buffer was popped, no section of a fiber was ever Step
                       \* messages or more ahead of another

batchVars == <<pending, batches, failed, unanalysed, overwritten, received, aligned>>
allVars == <<vars, batchVars>>

Fibers == {FiberOf[k] : k \in Keys}
SectionsOf(f) == {k \in Keys : FiberOf[k] = f}

SectionTypeOK ==
    /\ TypeOK
    /\ pending \in [Keys -> Seq(Messages)]
    /\ \A b \in batches : DOMAIN b \subseteq Keys /\ \A k \in DOMAIN b : Len(b[k]) = Window
    /\ failed \subseteq Messages
    /\ unanalysed \subseteq Messages
    /\ overwritten \subseteq Messages
    /\ received \in [Keys -> 0..NumMessages]
    /\ aligned \in BOOLEAN

SectionInit ==
    /\ Init
    /\ pending = [k \in Keys |-> <<>>]
    /\ batches = {}
    /\ failed = {}
    /\ unanalysed = {}
    /\ overwritten = {}
    /\ received = [k \in Keys |-> 0]
    /\ aligned = TRUE

-----------------------------------------------------------------------------
(* _handle_rolling_message *)

ReadySections(f, waiting) == {k \in SectionsOf(f) : waiting[k] # <<>>}

\* What is still pending after the fibers in dispatched were popped.
StillPending(dispatched, waiting) ==
    [k \in Keys |-> IF FiberOf[k] \in dispatched THEN <<>> ELSE waiting[k]]

\* Mutant: one window too many is waited for.
MoreReadyThan(n, sections) == n > sections

\* As many pending windows as buffers; which sections they are is not compared.
AllReady(n, sections) == n >= sections

\* Message m, just stored in the buffer of k: mark its window, and dispatch every
\* fiber that has as many pending windows as buffers.
MarkAndDispatch(m, k) ==
    LET waiting == IF Due(m, k) THEN [pending EXCEPT ![k] = Push(buffers[k].deque, m)]
                   ELSE pending
        buffered(f) == {h \in SectionsOf(f) : Active(h) \/ h = k}
        dispatched == {f \in Fibers :
                         /\ ReadySections(f, waiting) # {}
                         /\ AllReady(Cardinality(ReadySections(f, waiting)), Cardinality(buffered(f)))}
    IN  /\ pending' = StillPending(dispatched, waiting)
        /\ batches' = batches \cup
                        {[h \in ReadySections(f, waiting) |-> waiting[h]] : f \in dispatched}
        /\ overwritten' = overwritten \cup (IF Due(m, k) THEN ItemsOf(pending[k]) ELSE {})
        /\ received' = [received EXCEPT ![k] = @ + 1]
        /\ aligned' = (aligned /\ \A h \in SectionsOf(FiberOf[k]) :
                                     received[k] + 1 - received[h] < Step)
        /\ UNCHANGED <<failed, unanalysed>>

SectionMessage(k) ==
    /\ poller = Ready
    /\ polled < NumMessages
    /\ ~MustEvict(k)
    /\ polled' = polled + 1
    /\ Store(polled + 1, k)
    /\ MarkAndDispatch(polled + 1, k)
    /\ UNCHANGED <<poller, sweep, tasks, outcome>>

SectionAfterEviction ==
    /\ poller # Ready
    /\ poller.awaits \notin tasks
    /\ Store(poller.message, poller.key)
    /\ MarkAndDispatch(poller.message, poller.key)
    /\ poller' = Ready
    /\ UNCHANGED <<polled, sweep, tasks, outcome>>

\* Eviction and the stale-buffer loop pop the buffer and know nothing of the
\* section's pending window.
PopsBuffer ==
    /\ \E k \in Keys : Evict(k) \/ SweepPops(k)
    /\ aligned' = FALSE
    /\ UNCHANGED <<pending, batches, failed, unanalysed, overwritten, received>>

KeepsBuffers ==
    /\ \/ Skip
       \/ \E k \in Keys : GrowStale(k) \/ SweepFails(k)
       \/ SweepBegins
       \/ SweepEnds
       \/ \E w \in tasks : Processed(w) \/ Failed(w)
    /\ UNCHANGED batchVars

-----------------------------------------------------------------------------
(* _process_sections_batch *)

MessagesOf(b, sections) == UNION {ItemsOf(b[k]) : k \in sections}

\* Mutant: a section dropped for its channels is committed too.
BatchProcessedCommitsAll(b) ==
    \E prepared \in SUBSET DOMAIN b : \E analysed \in SUBSET prepared :
        /\ b \in batches
        /\ batches' = batches \ {b}
        /\ processed' = processed \cup MessagesOf(b, analysed)
        /\ unanalysed' = unanalysed \cup MessagesOf(b, prepared \ analysed)
        /\ skipped' = skipped \cup MessagesOf(b, DOMAIN b \ prepared)
        /\ \/ \E k \in DOMAIN b : committed' = b[k][Window] + 1
           \/ UNCHANGED committed
        /\ UNCHANGED <<polled, buffers, order, poller, sweep, tasks, dead, pending,
                       failed, overwritten, received, aligned>>

\* A section with too few channels is dropped, the others are prepared and given
\* to inference.  Inference leaves out a section with too few samples, and answers
\* a model group of which none has enough with no result at all.  The last message
\* of every prepared section is committed, analysed or not, if the commit goes
\* well: what is left is that of the last one that did.
BatchProcessed(b) ==
    \E prepared \in SUBSET DOMAIN b : \E analysed \in SUBSET prepared :
        /\ b \in batches
        /\ batches' = batches \ {b}
        /\ processed' = processed \cup MessagesOf(b, analysed)
        /\ unanalysed' = unanalysed \cup MessagesOf(b, prepared \ analysed)
        /\ skipped' = skipped \cup MessagesOf(b, DOMAIN b \ prepared)
        /\ \/ \E k \in prepared : committed' = b[k][Window] + 1
           \/ UNCHANGED committed
        /\ UNCHANGED <<polled, buffers, order, poller, sweep, tasks, dead, pending,
                       failed, overwritten, received, aligned>>

\* Any exception: logged and counted.
BatchFails(b) ==
    /\ b \in batches
    /\ batches' = batches \ {b}
    /\ failed' = failed \cup MessagesOf(b, DOMAIN b)
    /\ UNCHANGED <<vars, pending, unanalysed, overwritten, received, aligned>>

SectionNext ==
    \/ \E k \in Keys : SectionMessage(k)
    \/ SectionAfterEviction
    \/ PopsBuffer
    \/ KeepsBuffers
    \/ \E b \in batches : BatchProcessed(b) \/ BatchFails(b)

SectionSpec == SectionInit /\ [][SectionNext]_allVars

-----------------------------------------------------------------------------
(* Properties *)

Pending == UNION {ItemsOf(pending[k]) : k \in Keys}
InBatch == UNION {UNION {ItemsOf(b[k]) : k \in DOMAIN b} : b \in batches}

\* Whatever is evicted, grows stale or waits for the rest of its fiber, a message
\* that got into a buffer can only be lost with a pending window that a newer one of
\* its section replaced, with a batch that failed, or with a window too narrow or
\* too short to be analysed.
LossesAreKnown ==
    \A m \in 1..polled :
        m \in Buffered \cup Pending \cup InBatch \cup BeingProcessed \cup processed \cup dead
                \cup skipped \cup failed \cup unanalysed \cup overwritten \cup {poller.message}

\* What inference was given, whether or not it analysed it.
Given == processed \cup unanalysed

SectionPromise == INSTANCE ConsumerPromise WITH
    position <- polled + 1,
    finished <- Given

\* Whatever order the batches of the fibers, the evicted and the stale windows end
\* in, and whichever of their sections drop out, a commit names a message that was
\* read and given to inference: never that of a section dropped before it.  It is
\* not promised that the message was analysed, only that inference had it.
SectionsKeepPromise == SectionPromise!Spec

\* No window is replaced before it is analysed while the sections of a fiber
\* are less than Step messages apart and no buffer is popped.
AlignedSectionsLoseNothing == aligned => overwritten = {}
=============================================================================
