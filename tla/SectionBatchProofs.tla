-------------------------- MODULE SectionBatchProofs --------------------------
(***************************************************************************)
(* What holds of the AI engine's section batches for any assignment of     *)
(* sections to fibers and any window, step, limit and number of messages.  *)
(* The buffers under them are those of RollingBufferProofs; what differs   *)
(* is where a window that is due goes.                                     *)
(***************************************************************************)
EXTENDS SectionBatch, RollingBufferProofs, FiniteSetTheorems

-----------------------------------------------------------------------------
(* The inductive invariant *)

\* Everything that was part of a window, wherever the window is by now.
Kept == Handed \cup Pending \cup InBatch \cup skipped \cup failed \cup unanalysed
             \cup overwritten

\* What drops out of a full deque is in a window, or was lost in a known way.
CoveredKept == \A k \in Keys : Covered(k) \subseteq Kept

\* Pending windows are full.
PendingInv == \A k \in Keys : pending[k] = <<>> \/ Len(pending[k]) = Window

BatchInv == \A b \in batches : \A k \in DOMAIN b : b[k] \in Seq(Messages)

\* A message is stored once, and the one the poll loop holds is not stored yet.
ReceivedInv ==
    \A k \in Keys : received[k] + (IF poller = Ready THEN 0 ELSE 1) <= polled

SectionsInv ==
    /\ BuffersInv
    /\ SectionTypeOK
    /\ PendingInv
    /\ BatchInv
    /\ ReceivedInv
    /\ CoveredKept
    /\ LossesAreKnown

\* The items of a full sequence of messages.
LEMMA ItemsTyped ==
    ASSUME NEW S, NEW s \in Seq(S)
    PROVE  ItemsOf(s) \subseteq S /\ (Len(s) = Window => s[Window] \in ItemsOf(s) /\ s # <<>>)
<1>1. DOMAIN s = 1..Len(s) /\ \A i \in 1..Len(s) : s[i] \in S
  BY LenProperties, ElementOfSeq
<1>2. Len(s) = Window => Window \in DOMAIN s /\ s # <<>>
  BY <1>1, WindowAssumption, EmptySeq
<1> QED
  BY <1>1, <1>2 DEF ItemsOf

\* Where messages that were accounted for are after a step.
LEMMA LossesStayKnown ==
    ASSUME LossesAreKnown, polled \in Nat, polled' \in Nat,
           Kept \subseteq Kept',
           \A x \in Buffered : x \in Buffered' \cup Kept',
           \A m \in (1..polled') \ (1..polled) :
               m \in Buffered' \cup Kept' \cup {poller'.message},
           \A m \in 1..polled : m = poller.message =>
               m \in Buffered' \cup Kept' \cup {poller'.message}
    PROVE  LossesAreKnown'
<1>1. \A m \in 1..polled : m \in Buffered \cup Kept \cup {poller.message}
  BY DEF LossesAreKnown, Kept, Handed
<1>2. ASSUME NEW m \in 1..polled' PROVE m \in Buffered' \cup Kept' \cup {poller'.message}
  BY <1>1
<1> QED
  BY <1>2 DEF LossesAreKnown, Kept, Handed

\* A window that is due waits, and what waited is in a batch, still waits or is
\* recorded as overwritten.
LEMMA MarkProperties ==
    ASSUME SectionTypeOK, PendingInv, BatchInv,
           NEW m, NEW k \in Keys, MarkAndDispatch(m, k),
           Push(buffers[k].deque, m) \in Seq(Messages),
           Due(m, k) => Len(Push(buffers[k].deque, m)) = Window,
           UNCHANGED <<tasks, processed, dead, skipped>>
    PROVE  /\ pending' \in [Keys -> Seq(Messages)]
           /\ PendingInv' /\ BatchInv'
           /\ \A b \in batches' : DOMAIN b \subseteq Keys /\ \A h \in DOMAIN b : Len(b[h]) = Window
           /\ overwritten' \subseteq Messages
           /\ Kept \subseteq Kept'
           /\ Due(m, k) => ItemsOf(Push(buffers[k].deque, m)) \subseteq Kept'
<1> DEFINE t == Push(buffers[k].deque, m)
           waiting == IF Due(m, k) THEN [pending EXCEPT ![k] = t] ELSE pending
           buffered(f) == {h \in SectionsOf(f) : Active(h) \/ h = k}
           dispatched == {f \in Fibers :
                            /\ ReadySections(f, waiting) # {}
                            /\ AllReady(Cardinality(ReadySections(f, waiting)), Cardinality(buffered(f)))}
           batch(f) == [h \in ReadySections(f, waiting) |-> waiting[h]]
<1>1. /\ pending' = StillPending(dispatched, waiting)
      /\ batches' = batches \cup {batch(f) : f \in dispatched}
      /\ overwritten' = overwritten \cup (IF Due(m, k) THEN ItemsOf(pending[k]) ELSE {})
      /\ failed' = failed /\ unanalysed' = unanalysed
  BY DEF MarkAndDispatch
<1>2. dispatched \subseteq Fibers
  OBVIOUS
<1>3. /\ waiting \in [Keys -> Seq(Messages)]
      /\ \A h \in Keys : waiting[h] = <<>> \/ Len(waiting[h]) = Window
      /\ \A h \in Keys : h # k \/ ~Due(m, k) => waiting[h] = pending[h]
      /\ Due(m, k) => waiting[k] = t
  BY DEF SectionTypeOK, PendingInv
<1> HIDE DEF t, waiting, dispatched
<1>4. \A h \in Keys : /\ pending'[h] = IF FiberOf[h] \in dispatched THEN <<>> ELSE waiting[h]
                      /\ pending' \in [Keys -> Seq(Messages)]
  BY <1>1, <1>3, EmptySeq DEF StillPending
<1>5. pending' \in [Keys -> Seq(Messages)] /\ PendingInv'
  <2>1. pending' = [h \in Keys |-> IF FiberOf[h] \in dispatched THEN <<>> ELSE waiting[h]]
    BY <1>1 DEF StillPending
  <2>2. <<>> \in Seq(Messages)
    BY EmptySeq
  <2> QED
    BY <2>1, <2>2, <1>3, <1>4 DEF PendingInv
<1>6. ASSUME NEW f \in dispatched
      PROVE  /\ DOMAIN batch(f) = ReadySections(f, waiting)
             /\ DOMAIN batch(f) \subseteq Keys
             /\ \A h \in DOMAIN batch(f) : /\ batch(f)[h] = waiting[h]
                                           /\ batch(f)[h] \in Seq(Messages)
                                           /\ Len(batch(f)[h]) = Window
  BY <1>3 DEF ReadySections, SectionsOf
<1>7. /\ BatchInv'
      /\ \A b \in batches' : DOMAIN b \subseteq Keys /\ \A h \in DOMAIN b : Len(b[h]) = Window
  BY <1>1, <1>6 DEF BatchInv, SectionTypeOK
<1>8. overwritten' \subseteq Messages
  <2>1. ItemsOf(pending[k]) \subseteq Messages
    BY ItemsTyped DEF SectionTypeOK
  <2> QED
    BY <2>1, <1>1 DEF SectionTypeOK
<1>9. ASSUME NEW h \in Keys PROVE ItemsOf(waiting[h]) \subseteq Pending' \cup InBatch'
  <2>1. CASE FiberOf[h] \notin dispatched
    BY <2>1, <1>4 DEF Pending
  <2>2. CASE FiberOf[h] \in dispatched /\ waiting[h] = <<>>
    BY <2>2 DEF ItemsOf
  <2>3. CASE FiberOf[h] \in dispatched /\ waiting[h] # <<>>
    <3>1. /\ h \in DOMAIN batch(FiberOf[h]) /\ batch(FiberOf[h]) \in batches'
          /\ batch(FiberOf[h])[h] = waiting[h]
      BY <2>3, <1>1, <1>6 DEF ReadySections, SectionsOf
    <3> HIDE DEF batch
    <3> QED
      BY <3>1 DEF InBatch
  <2> QED
    BY <2>1, <2>2, <2>3
<1>10. Pending \subseteq Kept'
  <2>1. ASSUME NEW h \in Keys PROVE ItemsOf(pending[h]) \subseteq Kept'
    <3>1. CASE h # k \/ ~Due(m, k)
      BY <3>1, <1>3, <1>9 DEF Kept
    <3>2. CASE h = k /\ Due(m, k)
      BY <3>2, <1>1 DEF Kept
    <3> QED
      BY <3>1, <3>2
  <2> QED
    BY <2>1 DEF Pending
<1>11. InBatch \subseteq InBatch'
  BY <1>1 DEF InBatch
<1>12. Handed' = Handed
  BY DEF Handed, BeingProcessed
<1>13. Kept \subseteq Kept'
  BY <1>1, <1>10, <1>11, <1>12 DEF Kept
<1>14. Due(m, k) => ItemsOf(t) \subseteq Kept'
  BY <1>3, <1>9 DEF Kept
<1> QED
  BY <1>5, <1>7, <1>8, <1>13, <1>14 DEF t

-----------------------------------------------------------------------------
(* Every step preserves the invariant *)

\* Storing a message, whether or not an eviction came before.
LEMMA SectionStored ==
    ASSUME SectionsInv, NEW m \in Messages, NEW k \in Keys,
           Active(k) \/ Len(order) < MaxActive,
           Store(m, k), MarkAndDispatch(m, k),
           UNCHANGED <<sweep, tasks, outcome>>,
           poller' = Ready, m \in 1..polled',
           \/ polled' = polled + 1 /\ polled < NumMessages /\ m = polled + 1 /\ poller = Ready
           \/ polled' = polled /\ poller # Ready /\ m = poller.message
    PROVE  SectionsInv'
<1> USE WindowAssumption, BoundAssumption
<1> DEFINE t == Push(buffers[k].deque, m)
<1>a. /\ TypeOK /\ CountInv /\ WindowsInv /\ OrderMatchesBuffers
      /\ SectionTypeOK /\ PendingInv /\ BatchInv /\ ReceivedInv /\ CoveredKept /\ LossesAreKnown
  BY DEF SectionsInv, BuffersInv, OrderInv
<1>b. /\ UNCHANGED <<processed, dead, skipped, committed>>
      /\ polled \in 0..NumMessages /\ polled' \in 0..NumMessages
      /\ \A x \in (1..polled') \ (1..polled) : x = m
      /\ poller.message \in {0, m}
  BY <1>a DEF outcome, TypeOK, Ready
<1>1. /\ buffers' \in [Keys -> Buffers] /\ order' \in Seq(Keys)
      /\ CountInv' /\ OrderMatchesBuffers'
      /\ t \in Seq(Messages)
      /\ Due(m, k) => Len(t) = Window
      /\ \A h \in Keys : Covered(h)' \subseteq Covered(h) \cup
             (IF h = k /\ Due(m, k) THEN ItemsOf(t) ELSE {})
      /\ \A x \in Buffered : x \in Buffered' \cup Covered(k)
      /\ m \in Buffered'
  BY <1>a, StoreBuffers
<1>2. /\ pending' \in [Keys -> Seq(Messages)]
      /\ PendingInv' /\ BatchInv'
      /\ \A b \in batches' : DOMAIN b \subseteq Keys /\ \A h \in DOMAIN b : Len(b[h]) = Window
      /\ overwritten' \subseteq Messages
      /\ Kept \subseteq Kept'
      /\ Due(m, k) => ItemsOf(t) \subseteq Kept'
  BY <1>a, <1>b, <1>1, MarkProperties
<1> HIDE DEF t
<1>3. /\ received' = [received EXCEPT ![k] = @ + 1]
      /\ aligned' \in BOOLEAN /\ failed' = failed /\ unanalysed' = unanalysed
  BY <1>a DEF MarkAndDispatch, SectionTypeOK
<1>4. TypeOK'
  BY <1>a, <1>b, <1>1 DEF TypeOK
<1>5. BuffersInv'
  <2>1. WindowsInv' /\ PollerInv' /\ OrderInv'
    BY <1>a, <1>1 DEF WindowsInv, PollerInv, OrderInv
  <2> QED
    BY <1>1, <1>4, <2>1 DEF BuffersInv
<1>6. ReceivedInv' /\ received' \in [Keys -> 0..NumMessages]
  <2>1. \A h \in Keys : received[h] \in 0..NumMessages
    BY <1>a DEF SectionTypeOK
  <2>2. \A h \in Keys : received'[h] = IF h = k THEN received[h] + 1 ELSE received[h]
    BY <1>3, <1>a DEF SectionTypeOK
  <2>3. \A h \in Keys : received'[h] \in 0..polled'
    BY <1>a, <1>b, <2>1, <2>2 DEF ReceivedInv
  <2>4. ReceivedInv'
    BY <1>b, <2>3 DEF ReceivedInv
  <2>5. DOMAIN received' = Keys /\ received' = [h \in Keys |-> received'[h]]
    BY <1>3, <1>a DEF SectionTypeOK
  <2>6. \A h \in Keys : received'[h] \in 0..NumMessages
    BY <1>b, <2>3
  <2> QED
    BY <2>4, <2>5, <2>6
<1>7. SectionTypeOK'
  BY <1>a, <1>2, <1>3, <1>4, <1>6 DEF SectionTypeOK
<1>8. CoveredKept'
  BY <1>a, <1>1, <1>2 DEF CoveredKept
<1>9. LossesAreKnown'
  <2>1. \A x \in Buffered : x \in Buffered' \cup Kept'
    BY <1>a, <1>1, <1>2 DEF CoveredKept
  <2>2. /\ \A x \in (1..polled') \ (1..polled) : x \in Buffered'
        /\ \A x \in 1..polled : x = poller.message => x \in Buffered'
    BY <1>b, <1>1
  <2> QED
    BY <1>a, <1>b, <1>2, <2>1, <2>2, LossesStayKnown
<1> QED
  BY <1>2, <1>5, <1>6, <1>7, <1>8, <1>9 DEF SectionsInv

\* A step of the buffers below that stores nothing.
LEMMA SectionOther ==
    ASSUME SectionsInv, aligned' \in BOOLEAN,
           UNCHANGED <<pending, batches, failed, unanalysed, overwritten, received>>,
           \/ Skip \/ StaleLoop \/ UNCHANGED vars
           \/ \E k \in Keys : Evict(k) \/ GrowStale(k)
           \/ \E w \in tasks : Processed(w) \/ Failed(w)
    PROVE  SectionsInv'
<1>a. /\ BuffersInv /\ SectionTypeOK /\ PendingInv /\ BatchInv /\ ReceivedInv /\ CoveredKept
      /\ LossesAreKnown
  BY DEF SectionsInv
<1>1. /\ BuffersInv'
      /\ \A h \in Keys : Covered(h)' \subseteq Covered(h)
      /\ Handed \subseteq Handed' /\ skipped \subseteq skipped'
      /\ \A x \in Buffered : x \in Buffered' \cup Handed'
      /\ \A m \in (1..polled') \ (1..polled) : m \in skipped' \cup {poller'.message}
      /\ poller.message \in {0, poller'.message}
  BY <1>a, OtherStep
<1>2. TypeOK' /\ polled \in Nat /\ polled' \in Nat
  BY <1>a, <1>1 DEF BuffersInv, TypeOK
<1>3. PendingInv' /\ BatchInv' /\ Pending' = Pending /\ InBatch' = InBatch
  BY <1>a DEF PendingInv, BatchInv, Pending, InBatch
<1>4. SectionTypeOK'
  BY <1>a, <1>2 DEF SectionTypeOK
<1>5. Kept \subseteq Kept' /\ Handed' \subseteq Kept' /\ skipped' \subseteq Kept'
  BY <1>1, <1>3 DEF Kept
<1>6. \/ polled' = polled /\ poller' = poller
      \/ polled' = polled + 1 /\ poller = Ready
  BY DEF Skip, StaleLoop, SweepBegins, SweepPops, SweepFails, SweepEnds, vars, Evict,
         GrowStale, Processed, Failed
<1>7. ReceivedInv'
  <2>1. \A h \in Keys : received[h] \in Nat
    BY <1>a DEF SectionTypeOK
  <2> QED
    BY <1>a, <1>2, <1>6, <2>1 DEF ReceivedInv
<1>8. CoveredKept'
  BY <1>a, <1>1, <1>5 DEF CoveredKept
<1>9. LossesAreKnown'
  BY <1>a, <1>1, <1>2, <1>5, LossesStayKnown
<1> QED
  BY <1>1, <1>3, <1>4, <1>7, <1>8, <1>9 DEF SectionsInv

\* The end of a batch: every message of it is accounted for.
LEMMA BatchEnded ==
    ASSUME SectionsInv, NEW b \in batches,
           BatchProcessed(b) \/ BatchFails(b)
    PROVE  SectionsInv'
<1> USE WindowAssumption, BoundAssumption
<1> DEFINE items == UNION {ItemsOf(b[k]) : k \in DOMAIN b}
<1>a. /\ BuffersInv /\ TypeOK /\ CountInv /\ WindowsInv /\ PollerInv /\ OrderInv
      /\ SectionTypeOK /\ PendingInv /\ BatchInv /\ ReceivedInv /\ CoveredKept /\ LossesAreKnown
  BY DEF SectionsInv, BuffersInv
<1>1. /\ DOMAIN b \subseteq Keys
      /\ \A k \in DOMAIN b : /\ ItemsOf(b[k]) \subseteq Messages
                             /\ b[k][Window] \in ItemsOf(b[k])
  BY <1>a, ItemsTyped DEF SectionTypeOK, BatchInv
<1>2. /\ batches' = batches \ {b}
      /\ UNCHANGED <<polled, buffers, order, poller, sweep, tasks, dead, pending,
                     overwritten, received, aligned>>
  BY DEF BatchProcessed, BatchFails, vars
<1> DEFINE ended == processed \cup skipped \cup failed \cup unanalysed
<1> DEFINE Ended ==
              /\ processed \subseteq processed' /\ skipped \subseteq skipped'
              /\ failed \subseteq failed' /\ unanalysed \subseteq unanalysed'
              /\ items \subseteq ended' /\ ended' \subseteq ended \cup items
              /\ committed' \in {committed} \cup {b[k][Window] + 1 : k \in DOMAIN b}
<1>3. Ended
  <2>1. CASE BatchFails(b)
    BY <2>1 DEF BatchFails, MessagesOf, vars
  <2>2. ASSUME NEW prepared \in SUBSET DOMAIN b, NEW analysed \in SUBSET prepared,
               processed' = processed \cup MessagesOf(b, analysed),
               unanalysed' = unanalysed \cup MessagesOf(b, prepared \ analysed),
               skipped' = skipped \cup MessagesOf(b, DOMAIN b \ prepared),
               \/ \E k \in prepared : committed' = b[k][Window] + 1
               \/ UNCHANGED committed,
               failed' = failed
        PROVE  Ended
    <3> DEFINE done == MessagesOf(b, analysed)
               short == MessagesOf(b, prepared \ analysed)
               narrow == MessagesOf(b, DOMAIN b \ prepared)
    <3>1. items = done \cup short \cup narrow
      <4>1. ASSUME NEW x, x \in items PROVE x \in done \cup short \cup narrow
        <5>1. PICK k \in DOMAIN b : x \in ItemsOf(b[k])
          BY <4>1
        <5> QED
          BY <5>1 DEF MessagesOf
      <4>2. done \cup short \cup narrow \subseteq items
        BY <2>2 DEF MessagesOf
      <4> QED
        BY <4>1, <4>2
    <3>2. committed' \in {committed} \cup {b[k][Window] + 1 : k \in DOMAIN b}
      BY <2>2
    <3>3. /\ processed' = processed \cup done
          /\ unanalysed' = unanalysed \cup short
          /\ skipped' = skipped \cup narrow
          /\ failed' = failed
      BY <2>2
    <3> HIDE DEF items, done, short, narrow
    <3>4. /\ processed \subseteq processed' /\ skipped \subseteq skipped'
          /\ failed \subseteq failed' /\ unanalysed \subseteq unanalysed'
          /\ items \subseteq ended' /\ ended' \subseteq ended \cup items
      BY <3>1, <3>3
    <3> QED
      BY <3>2, <3>4
  <2> QED
    BY <2>1, <2>2 DEF BatchProcessed
<1>4. items \subseteq Messages
  BY <1>1
<1>5. TypeOK'
  <2>1. committed' \in 1..(NumMessages + 1)
    BY <1>a, <1>1, <1>3 DEF TypeOK, Messages
  <2>2. processed' \subseteq Messages /\ skipped' \subseteq Messages
    <3>1. ended \subseteq Messages
      BY <1>a DEF TypeOK, SectionTypeOK
    <3> HIDE DEF items
    <3> QED
      BY <3>1, <1>3, <1>4
  <2> QED
    BY <1>a, <1>2, <2>1, <2>2 DEF TypeOK
<1>6. BuffersInv'
  <2>1. CountInv' /\ WindowsInv' /\ PollerInv' /\ OrderInv'
    BY <1>a, <1>2
       DEF CountInv, WindowsInv, PollerInv, OrderInv, OrderMatchesBuffers, ActiveKeys, Active
  <2> QED
    BY <1>5, <2>1 DEF BuffersInv
<1>7. SectionTypeOK' /\ PendingInv' /\ BatchInv' /\ ReceivedInv'
  <2>1. failed' \subseteq Messages /\ unanalysed' \subseteq Messages
    <3>1. ended \subseteq Messages
      BY <1>a DEF TypeOK, SectionTypeOK
    <3> HIDE DEF items
    <3> QED
      BY <3>1, <1>3, <1>4
  <2> QED
    BY <1>a, <1>2, <1>5, <2>1 DEF SectionTypeOK, PendingInv, BatchInv, ReceivedInv
<1>8. InBatch \subseteq InBatch' \cup items
  BY <1>2 DEF InBatch
<1>9. Kept \subseteq Kept'
  <2>1. Pending' = Pending /\ BeingProcessed' = BeingProcessed
    BY <1>2 DEF Pending, BeingProcessed
  <2> HIDE DEF items
  <2> QED
    BY <1>2, <1>3, <1>8, <2>1 DEF Kept, Handed
<1>10. CoveredKept'
  BY <1>a, <1>2, <1>9 DEF CoveredKept, Covered
<1>11. LossesAreKnown'
  <2>1. Buffered' = Buffered /\ polled \in Nat /\ polled' = polled
    BY <1>a, <1>2 DEF Buffered, TypeOK
  <2> QED
    BY <1>a, <1>2, <1>9, <2>1, LossesStayKnown
<1> QED
  BY <1>6, <1>7, <1>10, <1>11 DEF SectionsInv

\* What every kind of step of the section batches is.
LEMMA SectionSteps ==
    ASSUME TypeOK, PollerInv, OrderInv, [SectionNext]_allVars
    PROVE  \/ \E m \in Messages, k \in Keys :
                /\ Active(k) \/ Len(order) < MaxActive
                /\ Store(m, k) /\ MarkAndDispatch(m, k)
                /\ UNCHANGED <<sweep, tasks, outcome>>
                /\ poller' = Ready /\ m \in 1..polled'
                /\ \/ polled' = polled + 1 /\ polled < NumMessages /\ m = polled + 1 /\ poller = Ready
                   \/ polled' = polled /\ poller # Ready /\ m = poller.message
           \/ /\ UNCHANGED <<pending, batches, failed, unanalysed, overwritten, received>>
              /\ aligned' = aligned \/ aligned' = FALSE
              /\ UNCHANGED buffers \/ ~aligned' \/ \E k \in Keys : GrowStale(k)
              /\ \/ Skip \/ StaleLoop \/ UNCHANGED vars
                 \/ \E k \in Keys : Evict(k) \/ GrowStale(k)
                 \/ \E w \in tasks : Processed(w) \/ Failed(w)
           \/ \E b \in batches : BatchProcessed(b) \/ BatchFails(b)
<1> USE BoundAssumption
<1>1. ASSUME NEW k \in Keys, SectionMessage(k)
      PROVE  /\ polled + 1 \in Messages /\ polled + 1 \in 1..polled'
             /\ Active(k) \/ Len(order) < MaxActive
             /\ Store(polled + 1, k) /\ MarkAndDispatch(polled + 1, k)
             /\ UNCHANGED <<sweep, tasks, outcome>>
             /\ poller' = Ready /\ poller = Ready
             /\ polled' = polled + 1 /\ polled < NumMessages
  <2>1. polled \in Nat /\ Len(order) \in Nat
    BY LenProperties DEF TypeOK
  <2> QED
    BY <1>1, <2>1 DEF SectionMessage, MustEvict, Messages
<1>2. ASSUME SectionAfterEviction
      PROVE  /\ poller.message \in Messages /\ poller.key \in Keys
             /\ poller.message \in 1..polled'
             /\ Active(poller.key) \/ Len(order) < MaxActive
             /\ Store(poller.message, poller.key) /\ MarkAndDispatch(poller.message, poller.key)
             /\ UNCHANGED <<sweep, tasks, outcome>>
             /\ poller' = Ready /\ poller # Ready /\ polled' = polled
  BY <1>2 DEF SectionAfterEviction, TypeOK, PollerInv, OrderInv
<1>3. CASE PopsBuffer
  BY <1>3 DEF PopsBuffer, StaleLoop
<1>4. CASE KeepsBuffers
  <2>1. UNCHANGED <<pending, batches, failed, unanalysed, overwritten, received, aligned>>
    BY <1>4 DEF KeepsBuffers, batchVars
  <2>2. CASE \E k \in Keys : GrowStale(k)
    BY <2>1, <2>2
  <2>3. CASE Skip \/ SweepBegins \/ SweepEnds \/ \E k \in Keys : SweepFails(k)
    BY <2>1, <2>3 DEF Skip, SweepBegins, SweepEnds, SweepFails, StaleLoop
  <2>4. CASE \E w \in tasks : Processed(w) \/ Failed(w)
    BY <2>1, <2>4 DEF Processed, Failed
  <2> QED
    BY <1>4, <2>2, <2>3, <2>4 DEF KeepsBuffers
<1>5. CASE UNCHANGED allVars
  BY <1>5 DEF allVars, batchVars, vars
<1> QED
  BY <1>1, <1>2, <1>3, <1>4, <1>5 DEF SectionNext

LEMMA SectionsStep == SectionsInv /\ [SectionNext]_allVars => SectionsInv'
<1> SUFFICES ASSUME SectionsInv, [SectionNext]_allVars
             PROVE  SectionsInv'
  OBVIOUS
<1>1. TypeOK /\ PollerInv /\ OrderInv /\ aligned \in BOOLEAN
  BY DEF SectionsInv, BuffersInv, SectionTypeOK
<1>2. ASSUME NEW m \in Messages, NEW k \in Keys,
             Active(k) \/ Len(order) < MaxActive,
             Store(m, k), MarkAndDispatch(m, k),
             UNCHANGED <<sweep, tasks, outcome>>,
             poller' = Ready, m \in 1..polled',
             \/ polled' = polled + 1 /\ polled < NumMessages /\ m = polled + 1 /\ poller = Ready
             \/ polled' = polled /\ poller # Ready /\ m = poller.message
      PROVE  SectionsInv'
  BY <1>2, SectionStored
<1>3. ASSUME UNCHANGED <<pending, batches, failed, unanalysed, overwritten, received>>,
             aligned' = aligned \/ aligned' = FALSE,
             \/ Skip \/ StaleLoop \/ UNCHANGED vars
             \/ \E k \in Keys : Evict(k) \/ GrowStale(k)
             \/ \E w \in tasks : Processed(w) \/ Failed(w)
      PROVE  SectionsInv'
  <2>1. aligned' \in BOOLEAN
    BY <1>1, <1>3
  <2> QED
    BY <1>3, <2>1, SectionOther
<1>4. ASSUME NEW b \in batches, BatchProcessed(b) \/ BatchFails(b) PROVE SectionsInv'
  BY <1>4, BatchEnded
<1> QED
  BY <1>1, <1>2, <1>3, <1>4, SectionSteps

LEMMA SectionsInvInit == SectionInit => SectionsInv
<1> SUFFICES ASSUME SectionInit PROVE SectionsInv
  OBVIOUS
<1>1. BufferInv
  BY BufferInvInit DEF SectionInit
<1>2. BuffersInv /\ TypeOK
  BY <1>1 DEF BufferInv, BuffersInv
<1>3. /\ pending = [k \in Keys |-> <<>>] /\ <<>> \in Seq(Messages) /\ batches = {}
      /\ failed = {} /\ unanalysed = {} /\ overwritten = {} /\ received = [k \in Keys |-> 0] /\ aligned = TRUE
      /\ polled = 0 /\ poller = Ready
  BY EmptySeq DEF SectionInit, Init
<1>4. SectionTypeOK /\ PendingInv /\ BatchInv
  BY <1>2, <1>3, BoundAssumption DEF SectionTypeOK, PendingInv, BatchInv
<1>5. ReceivedInv /\ LossesAreKnown
  BY <1>3 DEF ReceivedInv, LossesAreKnown
<1>6. CoveredKept
  BY <1>1 DEF BufferInv, HandedInv, CoveredKept, Kept
<1> QED
  BY <1>2, <1>4, <1>5, <1>6 DEF SectionsInv

\* The invariant the theorems below are parts of.
THEOREM SectionsInvariant == SectionSpec => []SectionsInv
BY SectionsInvInit, SectionsStep, PTL DEF SectionSpec

\* The state keeps its types.
THEOREM SectionsTypeCorrect == SectionSpec => []SectionTypeOK
BY SectionsInvariant, PTL DEF SectionsInv

\* A message that got into a buffer is only lost with a pending window that a
\* newer one replaced, or with a batch that failed.
THEOREM OnlyKnownLosses == SectionSpec => []LossesAreKnown
BY SectionsInvariant, PTL DEF SectionsInv

-----------------------------------------------------------------------------
(* The section batches implement ConsumerPromise *)

\* Windows that wait or are in a batch hold only messages that were read.
QueuedRead ==
    /\ \A k \in Keys : pending[k] \in Seq(1..polled)
    /\ \A b \in batches : \A k \in DOMAIN b : b[k] \in Seq(1..polled)

LEMMA MarkRead ==
    ASSUME SectionTypeOK, QueuedRead, polled \in Nat, polled' \in Nat, polled <= polled',
           NEW m, NEW k \in Keys, MarkAndDispatch(m, k),
           Push(buffers[k].deque, m) \in Seq(1..polled')
    PROVE  QueuedRead'
<1> DEFINE t == Push(buffers[k].deque, m)
           waiting == IF Due(m, k) THEN [pending EXCEPT ![k] = t] ELSE pending
           buffered(f) == {h \in SectionsOf(f) : Active(h) \/ h = k}
           dispatched == {f \in Fibers :
                            /\ ReadySections(f, waiting) # {}
                            /\ AllReady(Cardinality(ReadySections(f, waiting)), Cardinality(buffered(f)))}
           batch(f) == [h \in ReadySections(f, waiting) |-> waiting[h]]
<1>1. /\ pending' = StillPending(dispatched, waiting)
      /\ batches' = batches \cup {batch(f) : f \in dispatched}
  BY DEF MarkAndDispatch
<1>2. 1..polled \subseteq 1..polled'
  OBVIOUS
<1>3. /\ \A h \in Keys : pending[h] \in Seq(1..polled')
      /\ \A b \in batches : \A h \in DOMAIN b : b[h] \in Seq(1..polled')
  BY <1>2, SeqMonotonic DEF QueuedRead
<1>4. \A h \in Keys : waiting[h] \in Seq(1..polled')
  BY <1>3 DEF SectionTypeOK
<1> HIDE DEF t, waiting, dispatched
<1>5. \A h \in Keys : pending'[h] \in Seq(1..polled')
  <2>1. \A h \in Keys : pending'[h] \in {<<>>, waiting[h]}
    BY <1>1 DEF StillPending
  <2> QED
    BY <2>1, <1>4, EmptySeq
<1>6. \A f \in dispatched : \A h \in DOMAIN batch(f) : batch(f)[h] \in Seq(1..polled')
  BY <1>4 DEF ReadySections, SectionsOf
<1> HIDE DEF batch
<1>7. \A b \in batches' : \A h \in DOMAIN b : b[h] \in Seq(1..polled')
  BY <1>1, <1>3, <1>6
<1> QED
  BY <1>5, <1>7 DEF QueuedRead

\* Every step of the section batches is a step of the promise, or none.
LEMMA SectionPromiseStep ==
    SectionsInv /\ ReadInv /\ QueuedRead /\ [SectionNext]_allVars
        => ReadInv' /\ QueuedRead' /\ [SectionPromise!Next]_(SectionPromise!promiseVars)
<1> SUFFICES ASSUME SectionsInv, ReadInv, QueuedRead, [SectionNext]_allVars
             PROVE  /\ ReadInv' /\ QueuedRead'
                    /\ \/ UNCHANGED <<polled, committed, Given>>
                       \/ SectionPromise!Take \/ SectionPromise!Finish
  BY DEF SectionPromise!Next, SectionPromise!promiseVars
<1> DEFINE Goal == /\ ReadInv' /\ QueuedRead'
                   /\ \/ UNCHANGED <<polled, committed, Given>>
                      \/ SectionPromise!Take \/ SectionPromise!Finish
<1>a. /\ BuffersInv /\ TypeOK /\ PollerInv /\ OrderInv /\ SectionTypeOK /\ polled \in Nat
      /\ DequesRead /\ WindowsRead
  BY DEF SectionsInv, BuffersInv, TypeOK, ReadInv
<1>1. ASSUME NEW m \in Messages, NEW k \in Keys,
             Store(m, k), MarkAndDispatch(m, k), UNCHANGED <<sweep, tasks, outcome>>,
             m \in 1..polled',
             \/ polled' = polled + 1 /\ polled < NumMessages
             \/ polled' = polled
      PROVE  Goal
  <2>1. polled' \in Nat /\ polled <= polled' /\ UNCHANGED <<tasks, Given, committed>>
    BY <1>a, <1>1 DEF outcome, MarkAndDispatch, Given
  <2>2. DequesRead' /\ Push(buffers[k].deque, m) \in Seq(1..polled')
    BY <1>a, <1>1, <2>1, StoreRead
  <2>3. QueuedRead'
    BY <1>a, <1>1, <2>1, <2>2, MarkRead
  <2>4. WindowsRead'
    BY <1>a, <2>1, WindowsStayRead
  <2>5. UNCHANGED <<polled, committed, Given>> \/ SectionPromise!Take
    <3>1. CASE polled' = polled + 1 /\ polled < NumMessages
      BY <1>a, <2>1, <3>1, BoundAssumption DEF SectionPromise!Take
    <3>2. CASE polled' = polled
      BY <2>1, <3>2
    <3> QED
      BY <1>1, <3>1, <3>2
  <2>6. ReadInv'
    BY <2>2, <2>4 DEF ReadInv
  <2> QED
    BY <2>3, <2>5, <2>6
<1>2. ASSUME UNCHANGED <<pending, batches, failed, unanalysed, overwritten, received>>,
             \/ Skip \/ StaleLoop \/ UNCHANGED vars
             \/ \E k \in Keys : Evict(k) \/ GrowStale(k)
             \/ \E w \in tasks : Processed(w) \/ Failed(w)
      PROVE  Goal
  <2>1. ReadInv'
    BY <1>a, <1>2, OtherRead
  <2>2. polled' \in Nat /\ 1..polled \subseteq 1..polled'
    <3>1. polled' \in {polled, polled + 1}
      BY <1>2 DEF Skip, StaleLoop, SweepBegins, SweepPops, SweepFails, SweepEnds, vars, Evict,
                  GrowStale, Processed, Failed
    <3> QED
      BY <1>a, <3>1
  <2>3. QueuedRead'
    BY <1>2, <2>2, SeqMonotonic DEF QueuedRead
  <2>4. UNCHANGED <<polled, committed, Given>> \/ SectionPromise!Take \/ SectionPromise!Finish
    <3>1. UNCHANGED <<polled, committed, processed>> \/ Promise!Take \/ Promise!Finish
      BY <1>a, <1>2, OtherPromise
    <3>2. unanalysed' = unanalysed
      BY <1>2
    <3> QED
      BY <3>1, <3>2 DEF Given, Promise!Take, Promise!Finish, Promise!Taken,
           SectionPromise!Take, SectionPromise!Finish, SectionPromise!Taken
  <2> QED
    BY <2>1, <2>3, <2>4
<1>3. ASSUME NEW b \in batches, BatchFails(b) PROVE Goal
  BY <1>3 DEF BatchFails, vars, ReadInv, DequesRead, WindowsRead, QueuedRead, Given
<1>4. ASSUME NEW b \in batches, BatchProcessed(b) PROVE Goal
  <2>1. PICK prepared \in SUBSET DOMAIN b :
           /\ \E analysed \in SUBSET prepared :
                 /\ processed' = processed \cup MessagesOf(b, analysed)
                 /\ unanalysed' = unanalysed \cup MessagesOf(b, prepared \ analysed)
           /\ \/ \E k \in prepared : committed' = b[k][Window] + 1
              \/ UNCHANGED committed
    BY <1>4 DEF BatchProcessed
  <2>2. batches' \subseteq batches /\ UNCHANGED <<polled, buffers, tasks, pending>>
    BY <1>4 DEF BatchProcessed
  <2>3. ReadInv' /\ QueuedRead'
    BY <2>2 DEF ReadInv, DequesRead, WindowsRead, QueuedRead
  <2>4. \A k \in DOMAIN b : ItemsOf(b[k]) \subseteq 1..polled /\ b[k][Window] \in ItemsOf(b[k])
    BY <1>a, ItemsTyped DEF QueuedRead, SectionTypeOK
  <2>5. Given' = Given \cup MessagesOf(b, prepared)
    BY <2>1 DEF Given, MessagesOf
  <2>6. committed' \in {committed} \cup {m + 1 : m \in Given'}
    BY <2>1, <2>4, <2>5 DEF MessagesOf
  <2>7. SectionPromise!Taken = 1..polled
    BY <1>a DEF SectionPromise!Taken
  <2>8. MessagesOf(b, prepared) \subseteq 1..polled
    BY <2>4 DEF MessagesOf
  <2>9. SectionPromise!Finish
    BY <2>2, <2>5, <2>6, <2>7, <2>8 DEF SectionPromise!Finish
  <2> QED
    BY <2>3, <2>9
<1> QED
  BY <1>a, <1>1, <1>2, <1>3, <1>4, SectionSteps

\* For any sections and fibers, window, step and limit, a commit names a message
\* that was read and given to inference, never one of a section that was dropped
\* before it, and the partition is read in order.
THEOREM SectionsImplementPromise == SectionSpec => SectionsKeepPromise
<1>1. SectionInit => ReadInv /\ QueuedRead
  <2>1. NoBuffer.deque = <<>> /\ <<>> \in Seq(1..polled)
    BY EmptySeq DEF NoBuffer
  <2> QED
    BY <2>1 DEF SectionInit, Init, ReadInv, DequesRead, WindowsRead, QueuedRead
<1>2. SectionSpec => [](ReadInv /\ QueuedRead)
  BY <1>1, SectionPromiseStep, SectionsInvariant, PTL DEF SectionSpec
<1>3. SectionInit => SectionPromise!Init
  BY DEF SectionInit, Init, Given, SectionPromise!Init
<1> QED
  BY <1>2, <1>3, SectionPromiseStep, SectionsInvariant, PTL
     DEF SectionSpec, SectionsKeepPromise, SectionPromise!Spec

-----------------------------------------------------------------------------
(* Aligned sections lose nothing *)

\* The number of messages after which the last window of a section was due, and
\* after which the next one is.
Base(k) == received[k] - buffers[k].new_count
NextDue(k) == IF received[k] < Window THEN Window ELSE Base(k) + Step

\* While no buffer is popped a deque holds all the messages received, up to its bound.
DequesAligned ==
    \A k \in Keys :
        /\ Len(buffers[k].deque) = IF received[k] < Window THEN received[k] ELSE Window
        /\ received[k] >= Window => Base(k) >= Window
        /\ pending[k] # <<>> => received[k] >= Window

\* Two sections of a fiber are in the same window, or one is exactly one window
\* ahead: then it is the one that waits.
PairAligned(k, h) ==
    /\ received[k] - received[h] < Step
    /\ Base(k) = Base(h) => (pending[k] = <<>> <=> pending[h] = <<>>)
    /\ Base(h) < Base(k) => /\ Base(k) = NextDue(h)
                            /\ pending[k] # <<>>
                            /\ pending[h] = <<>>

\* Some section of every fiber has no pending window: a batch takes all of them
\* as soon as the last one has.
AlignedInv ==
    aligned =>
        /\ overwritten = {}
        /\ DequesAligned
        /\ \A k, h \in Keys : FiberOf[k] = FiberOf[h] => PairAligned(k, h)
        /\ \A k \in Keys : \E h \in SectionsOf(FiberOf[k]) : pending[h] = <<>>

\* There are finitely many buffers.
LEMMA ActiveFinite ==
    ASSUME TypeOK, OrderMatchesBuffers
    PROVE  IsFiniteSet(ActiveKeys)
<1>1. /\ Len(order) \in Nat /\ DOMAIN order = 1..Len(order)
      /\ order \in [1..Len(order) -> Keys]
      /\ ItemsOf(order) = ActiveKeys
  BY LenProperties DEF TypeOK, OrderMatchesBuffers
<1>2. order \in Surjection(1..Len(order), ActiveKeys)
  BY <1>1 DEF ItemsOf, Surjection
<1>3. IsFiniteSet(1..Len(order))
  BY <1>1, FS_Interval
<1> QED
  BY <1>2, <1>3, FS_Surjection

\* A section's next window is always ahead of it.
LEMMA WindowAhead ==
    ASSUME TypeOK, CountInv, SectionTypeOK, DequesAligned, NEW k \in Keys
    PROVE  /\ received[k] \in Nat /\ buffers[k].new_count \in Nat
           /\ Base(k) \in Nat /\ Base(k) <= received[k]
           /\ received[k] < Window => Base(k) = 0
           /\ received[k] >= Window => Base(k) >= Window
           /\ NextDue(k) \in Nat /\ received[k] < NextDue(k) /\ NextDue(k) >= Window
<1> USE WindowAssumption
<1>1. /\ received[k] \in Nat /\ buffers[k].new_count \in Nat
      /\ Len(buffers[k].deque) \in Nat
  BY LenProperties DEF SectionTypeOK, TypeOK, Buffers
<1>2. /\ Len(buffers[k].deque) = IF received[k] < Window THEN received[k] ELSE Window
      /\ received[k] >= Window => Base(k) >= Window
      /\ buffers[k].new_count <= Len(buffers[k].deque)
      /\ Len(buffers[k].deque) < Window => buffers[k].new_count = Len(buffers[k].deque)
      /\ Len(buffers[k].deque) = Window => buffers[k].new_count < Step
  BY DEF DequesAligned, CountInv
<1>3. CASE received[k] < Window
  BY <1>1, <1>2, <1>3 DEF Base, NextDue
<1>4. CASE received[k] >= Window
  BY <1>1, <1>2, <1>4 DEF Base, NextDue
<1> QED
  BY <1>1, <1>3, <1>4

\* A message completes a window exactly if it is the one the window was due at.
LEMMA DueAtNext ==
    ASSUME TypeOK, CountInv, SectionTypeOK, DequesAligned,
           NEW m \in Messages, NEW k \in Keys, Store(m, k)
    PROVE  /\ Due(m, k) <=> received[k] + 1 = NextDue(k)
           /\ Len(buffers'[k].deque) = IF received[k] + 1 < Window THEN received[k] + 1 ELSE Window
           /\ buffers'[k].new_count = IF Due(m, k) THEN 0 ELSE buffers[k].new_count + 1
           /\ \A h \in Keys : h # k => buffers'[h] = buffers[h]
<1> USE WindowAssumption
<1> DEFINE s == buffers[k].deque
           n == buffers[k].new_count
<1>1. s \in Seq(Messages) /\ Len(s) <= Window /\ Len(s) \in Nat
  BY LenProperties DEF TypeOK, Buffers, CountInv
<1>2. /\ Len(s) = IF received[k] < Window THEN received[k] ELSE Window
      /\ Len(s) < Window => n = Len(s)
  BY DEF DequesAligned, CountInv
<1>3. /\ buffers'[k].deque = Push(s, m)
      /\ buffers'[k].new_count = IF Due(m, k) THEN 0 ELSE n + 1
      /\ \A h \in Keys : h # k => buffers'[h] = buffers[h]
      /\ Due(m, k) <=> Len(Push(s, m)) >= Window /\ n + 1 >= Step
  BY StoreEffect DEF NewCount, Due
<1>4. /\ received[k] \in Nat /\ n \in Nat
      /\ received[k] < NextDue(k)
      /\ NextDue(k) = IF received[k] < Window THEN Window ELSE received[k] - n + Step
  BY WindowAhead DEF NextDue, Base
<1> HIDE DEF s, n
<1>5. Len(Push(s, m)) = IF Len(s) < Window THEN Len(s) + 1 ELSE Window
  BY <1>1, PushProperties
<1>6. Len(Push(s, m)) = IF received[k] + 1 < Window THEN received[k] + 1 ELSE Window
  BY <1>2, <1>4, <1>5
<1>7. Due(m, k) <=> received[k] + 1 = NextDue(k)
  BY <1>2, <1>3, <1>4, <1>6
<1> QED
  BY <1>3, <1>6, <1>7 DEF n

\* A fiber is dispatched exactly if all its sections wait: as many pending windows
\* as buffers means every buffer, and every section has one.
LEMMA DispatchedWait ==
    ASSUME TypeOK, OrderMatchesBuffers,
           NEW k \in Keys, NEW f \in Fibers, NEW waiting,
           \A j, h \in SectionsOf(f) : waiting[j] # <<>> => Active(h) \/ h = k
    PROVE  LET buffered == {h \in SectionsOf(f) : Active(h) \/ h = k}
               ready == ReadySections(f, waiting)
           IN  (ready # {} /\ AllReady(Cardinality(ready), Cardinality(buffered)))
                  <=> \A h \in SectionsOf(f) : waiting[h] # <<>>
<1> DEFINE buffered == {h \in SectionsOf(f) : Active(h) \/ h = k}
           ready == ReadySections(f, waiting)
<1>1. PICK g \in Keys : g \in SectionsOf(f)
  BY DEF Fibers, SectionsOf
<1>2. IsFiniteSet(ActiveKeys \cup {k})
  BY ActiveFinite, FS_AddElement
<1>3. buffered \in SUBSET (ActiveKeys \cup {k})
  BY DEF ActiveKeys, SectionsOf
<1>4. IsFiniteSet(buffered)
  BY <1>2, <1>3, FS_Subset
<1>5. ready = {h \in SectionsOf(f) : waiting[h] # <<>>}
  BY DEF ReadySections
<1>6. ready # {} => buffered = SectionsOf(f)
  BY <1>5
<1>7. ready # {} => ready \in SUBSET buffered
  BY <1>5, <1>6
<1>8. ASSUME ready # {}, AllReady(Cardinality(ready), Cardinality(buffered))
      PROVE  \A h \in SectionsOf(f) : waiting[h] # <<>>
  <2>1. Cardinality(ready) >= Cardinality(buffered)
    BY <1>8 DEF AllReady
  <2>2. /\ IsFiniteSet(ready) /\ Cardinality(ready) <= Cardinality(buffered)
        /\ Cardinality(buffered) = Cardinality(ready) => buffered = ready
    BY <1>4, <1>7, <1>8, FS_Subset
  <2>3. Cardinality(ready) \in Nat /\ Cardinality(buffered) \in Nat
    BY <1>4, <2>2, FS_CardinalityType
  <2>4. buffered = ready
    BY <2>1, <2>2, <2>3
  <2> QED
    BY <1>5, <1>6, <1>8, <2>4
<1>9. ASSUME \A h \in SectionsOf(f) : waiting[h] # <<>>
      PROVE  ready # {} /\ AllReady(Cardinality(ready), Cardinality(buffered))
  <2>1. ready # {} /\ ready = SectionsOf(f)
    BY <1>1, <1>5, <1>9
  <2>2. Cardinality(buffered) \in Nat
    BY <1>4, FS_CardinalityType
  <2>3. ready = buffered
    BY <1>6, <2>1
  <2> HIDE DEF ready, buffered
  <2> QED
    BY <2>1, <2>2, <2>3 DEF AllReady
<1> QED
  BY <1>8, <1>9

LEMMA AlignedStored ==
    ASSUME TypeOK, CountInv, OrderMatchesBuffers, SectionTypeOK, AlignedInv, aligned',
           NEW m \in Messages, NEW k \in Keys, Store(m, k), MarkAndDispatch(m, k),
           Push(buffers[k].deque, m) # <<>>
    PROVE  AlignedInv'
<1> USE WindowAssumption
<1> DEFINE t == Push(buffers[k].deque, m)
           waiting == IF Due(m, k) THEN [pending EXCEPT ![k] = t] ELSE pending
           buffered(f) == {h \in SectionsOf(f) : Active(h) \/ h = k}
           dispatched == {f \in Fibers :
                            /\ ReadySections(f, waiting) # {}
                            /\ AllReady(Cardinality(ReadySections(f, waiting)), Cardinality(buffered(f)))}
<1>1. /\ aligned
      /\ pending' = StillPending(dispatched, waiting)
      /\ overwritten' = overwritten \cup (IF Due(m, k) THEN ItemsOf(pending[k]) ELSE {})
      /\ received' = [received EXCEPT ![k] = @ + 1]
      /\ \A h \in SectionsOf(FiberOf[k]) : received[k] + 1 - received[h] < Step
  BY DEF MarkAndDispatch
<1>2. /\ overwritten = {} /\ DequesAligned
      /\ \A g, h \in Keys : FiberOf[g] = FiberOf[h] => PairAligned(g, h)
      /\ \A g \in Keys : \E h \in SectionsOf(FiberOf[g]) : pending[h] = <<>>
  BY <1>1 DEF AlignedInv
<1>3. \A h \in Keys :
        /\ received[h] \in Nat /\ Base(h) \in Nat /\ Base(h) <= received[h]
        /\ received[h] < Window => Base(h) = 0
        /\ received[h] >= Window => Base(h) >= Window
        /\ NextDue(h) \in Nat /\ received[h] < NextDue(h) /\ NextDue(h) >= Window
        /\ NextDue(h) = IF received[h] < Window THEN Window ELSE Base(h) + Step
  BY <1>2, WindowAhead DEF NextDue
<1>4. /\ Due(m, k) <=> received[k] + 1 = NextDue(k)
      /\ Len(buffers'[k].deque) = IF received[k] + 1 < Window THEN received[k] + 1 ELSE Window
      /\ buffers'[k].new_count = IF Due(m, k) THEN 0 ELSE buffers[k].new_count + 1
      /\ \A h \in Keys : h # k => buffers'[h] = buffers[h]
  BY <1>2, DueAtNext
<1>5. ASSUME Due(m, k) PROVE pending[k] = <<>>
  <2>1. SUFFICES ASSUME pending[k] # <<>> PROVE FALSE
    OBVIOUS
  <2>2. PICK h \in Keys : FiberOf[h] = FiberOf[k] /\ h \in SectionsOf(FiberOf[k]) /\ pending[h] = <<>>
    BY <1>2 DEF SectionsOf
  <2>3. Base(h) < Base(k) /\ Base(k) = NextDue(h)
    BY <1>2, <1>3, <2>1, <2>2 DEF PairAligned
  <2>4. received[k] >= Window
    BY <1>2, <2>1 DEF DequesAligned
  <2>5. received[k] + 1 = Base(k) + Step
    BY <1>3, <1>4, <1>5, <2>4
  <2>6. received[k] + 1 - received[h] < Step
    BY <1>1, <2>2
  <2> QED
    BY <1>3, <2>2, <2>3, <2>5, <2>6
<1>6. overwritten' = {}
  BY <1>1, <1>2, <1>5 DEF ItemsOf
<1>7. /\ \A h \in Keys : received'[h] = IF h = k THEN received[k] + 1 ELSE received[h]
      /\ \A h \in Keys : Base(h)' = IF h = k /\ Due(m, k) THEN NextDue(k) ELSE Base(h)
      /\ \A h \in Keys : waiting[h] = IF h = k /\ Due(m, k) THEN t ELSE pending[h]
  <2>1. \A h \in Keys : received'[h] = IF h = k THEN received[k] + 1 ELSE received[h]
    BY <1>1 DEF SectionTypeOK
  <2>2. \A h \in Keys : buffers[h].new_count \in Nat
    BY DEF TypeOK, Buffers
  <2>3. ASSUME NEW h \in Keys
        PROVE  Base(h)' = IF h = k /\ Due(m, k) THEN NextDue(k) ELSE Base(h)
    <3>1. Base(h)' = received'[h] - buffers'[h].new_count
      BY DEF Base
    <3>2. Base(h) = received[h] - buffers[h].new_count
      BY DEF Base
    <3>3. received[h] \in Nat /\ buffers[h].new_count \in Nat
      BY <1>3, <2>2
    <3>4. CASE h # k
      BY <1>4, <2>1, <3>1, <3>2, <3>4
    <3>5. CASE h = k /\ Due(m, k)
      <4>1. received'[k] = received[k] + 1 /\ buffers'[k].new_count = 0
        BY <1>4, <2>1, <3>5
      <4>2. received[k] + 1 = NextDue(k)
        BY <1>4, <3>5
      <4> QED
        BY <3>1, <3>3, <3>5, <4>1, <4>2
    <3>6. CASE h = k /\ ~Due(m, k)
      <4>1. received'[k] = received[k] + 1 /\ buffers'[k].new_count = buffers[k].new_count + 1
        BY <1>4, <2>1, <3>6
      <4> QED
        BY <3>1, <3>2, <3>3, <3>6, <4>1
    <3> QED
      BY <3>4, <3>5, <3>6
  <2>4. pending \in [Keys -> Seq(Messages)]
    BY DEF SectionTypeOK
  <2>5. \A h \in Keys : waiting[h] = IF h = k /\ Due(m, k) THEN t ELSE pending[h]
    BY <2>4
  <2> QED
    BY <2>1, <2>3, <2>5
<1> HIDE DEF t, waiting
<1>8. \A h \in Keys : NextDue(h)' = IF h = k /\ Due(m, k) THEN NextDue(k) + Step ELSE NextDue(h)
  <2>1. \A h \in Keys : NextDue(h)' = IF received'[h] < Window THEN Window ELSE Base(h)' + Step
    BY DEF NextDue
  <2> QED
    BY <1>3, <1>4, <1>7, <2>1
<1>9. \A h \in Keys : /\ received'[h] >= Window => Base(h)' >= Window
                      /\ waiting[h] # <<>> => received'[h] >= Window
  <2>1. ASSUME NEW h \in Keys, h # k
        PROVE  /\ received'[h] >= Window => Base(h)' >= Window
               /\ waiting[h] # <<>> => received'[h] >= Window
    BY <1>2, <1>7, <2>1 DEF DequesAligned
  <2>2. CASE Due(m, k)
    BY <1>3, <1>4, <1>7, <2>1, <2>2
  <2>3. CASE ~Due(m, k)
    <3>1. pending[k] # <<>> => received[k] >= Window
      BY <1>2 DEF DequesAligned
    <3> QED
      BY <1>3, <1>4, <1>7, <2>1, <2>3, <3>1
  <2> QED
    BY <2>2, <2>3
<1> DEFINE Paired(g, h) ==
              /\ received'[g] - received'[h] < Step
              /\ Base(g)' = Base(h)' => (waiting[g] = <<>> <=> waiting[h] = <<>>)
              /\ Base(h)' < Base(g)' => /\ Base(g)' = NextDue(h)'
                                        /\ waiting[g] # <<>>
                                        /\ waiting[h] = <<>>
<1>10. ASSUME NEW h \in Keys, h # k, FiberOf[h] = FiberOf[k]
       PROVE  Paired(k, h) /\ Paired(h, k)
  <2>1. PairAligned(k, h) /\ PairAligned(h, k)
    BY <1>2, <1>10
  <2>2. received[k] + 1 - received[h] < Step
    BY <1>1, <1>10 DEF SectionsOf
  <2>3. /\ received'[k] - received'[h] < Step
        /\ received'[h] - received'[k] < Step
    BY <1>3, <1>7, <1>10, <2>1, <2>2 DEF PairAligned
  <2>4. CASE ~Due(m, k)
    BY <1>7, <1>8, <2>1, <2>3, <2>4 DEF PairAligned
  <2>5. CASE Due(m, k)
    <3>1. /\ pending[k] = <<>> /\ waiting[k] # <<>> /\ waiting[h] = pending[h]
          /\ Base(k)' = NextDue(k) /\ Base(h)' = Base(h) /\ NextDue(h)' = NextDue(h)
      BY <1>5, <1>7, <1>8, <1>10, <2>5 DEF t
    <3>2. CASE Base(h) = Base(k)
      <4>1. NextDue(h) = NextDue(k) /\ pending[h] = <<>>
        BY <1>3, <2>1, <3>1, <3>2 DEF PairAligned
      <4>2. Base(h)' < Base(k)'
        BY <1>3, <3>1, <3>2
      <4> QED
        BY <1>3, <2>3, <3>1, <4>1, <4>2
    <3>3. CASE Base(h) > Base(k)
      BY <1>3, <2>1, <2>3, <3>1, <3>3 DEF PairAligned
    <3>4. ~(Base(h) < Base(k))
      BY <2>1, <3>1 DEF PairAligned
    <3> QED
      BY <1>3, <3>2, <3>3, <3>4
  <2> QED
    BY <2>4, <2>5
<1>11. ASSUME NEW g \in Keys, NEW h \in Keys, FiberOf[g] = FiberOf[h]
       PROVE  Paired(g, h)
  <2>1. CASE g = h
    <3>1. received'[g] - received'[g] < Step /\ ~(Base(g)' < Base(g)')
      BY <1>3, <1>4, <1>7
    <3> QED
      BY <2>1, <3>1
  <2>2. CASE g # k /\ h # k
    <3>1. PairAligned(g, h)
      BY <1>2, <1>11
    <3> QED
      BY <1>7, <1>8, <2>2, <3>1 DEF PairAligned
  <2> QED
    BY <1>10, <1>11, <2>1, <2>2
<1>12. ASSUME NEW f \in Fibers
       PROVE  f \in dispatched <=> \A h \in SectionsOf(f) : waiting[h] # <<>>
  <2>1. ASSUME NEW j \in SectionsOf(f), NEW h \in SectionsOf(f), waiting[j] # <<>>
        PROVE  Active(h) \/ h = k
    <3>1. j \in Keys /\ h \in Keys /\ FiberOf[j] = FiberOf[h]
      BY DEF SectionsOf
    <3>2. received'[j] >= Window /\ received'[j] - received'[h] < Step
      BY <1>9, <1>11, <2>1, <3>1
    <3>3. h # k => received[h] > 0
      BY <1>3, <1>7, <3>1, <3>2
    <3>4. received[h] > 0 => Len(buffers[h].deque) # 0
      BY <1>2, <1>3, <3>1 DEF DequesAligned
    <3>5. ~Active(h) => Len(buffers[h].deque) = 0
      BY EmptySeq DEF Active, NoBuffer
    <3> QED
      BY <3>3, <3>4, <3>5
  <2> QED
    BY <2>1, DispatchedWait
<1>13. \A h \in Keys : FiberOf[h] \in Fibers /\ h \in SectionsOf(FiberOf[h])
  BY DEF Fibers, SectionsOf
<1>14. \A h \in Keys : pending'[h] = IF FiberOf[h] \in dispatched THEN <<>> ELSE waiting[h]
  BY <1>1 DEF StillPending
<1> HIDE DEF dispatched
<1>15. DequesAligned'
  <2>1. \A h \in Keys :
          Len(buffers'[h].deque) = IF received'[h] < Window THEN received'[h] ELSE Window
    BY <1>2, <1>4, <1>7 DEF DequesAligned
  <2> QED
    BY <1>9, <1>14, <2>1 DEF DequesAligned
<1>16. ASSUME NEW g \in Keys, NEW h \in Keys, FiberOf[g] = FiberOf[h]
       PROVE  PairAligned(g, h)'
  <2>1. Paired(g, h) /\ Paired(h, g)
    BY <1>11, <1>16
  <2>2. CASE FiberOf[g] \notin dispatched
    BY <1>14, <1>16, <2>1, <2>2 DEF PairAligned
  <2>3. CASE FiberOf[g] \in dispatched
    <3>1. waiting[g] # <<>> /\ waiting[h] # <<>> /\ pending'[g] = <<>> /\ pending'[h] = <<>>
      BY <1>12, <1>13, <1>14, <1>16, <2>3
    <3> QED
      BY <2>1, <3>1 DEF PairAligned
  <2> QED
    BY <2>2, <2>3
<1>17. ASSUME NEW g \in Keys PROVE \E h \in SectionsOf(FiberOf[g]) : pending'[h] = <<>>
  <2>1. CASE FiberOf[g] \in dispatched
    BY <1>13, <1>14, <2>1
  <2>2. CASE FiberOf[g] \notin dispatched
    <3>1. PICK h \in SectionsOf(FiberOf[g]) : waiting[h] = <<>>
      BY <1>12, <1>13, <2>2
    <3>2. h \in Keys /\ FiberOf[h] = FiberOf[g]
      BY <3>1 DEF SectionsOf
    <3> QED
      BY <1>14, <2>2, <3>1, <3>2
  <2> QED
    BY <2>1, <2>2
<1> QED
  BY <1>6, <1>15, <1>16, <1>17 DEF AlignedInv, SectionsOf

LEMMA AlignedStep == SectionsInv /\ AlignedInv /\ [SectionNext]_allVars => AlignedInv'
<1> SUFFICES ASSUME SectionsInv, AlignedInv, [SectionNext]_allVars, aligned'
             PROVE  AlignedInv'
  BY DEF AlignedInv
<1>a. /\ TypeOK /\ CountInv /\ PollerInv /\ OrderInv /\ OrderMatchesBuffers /\ SectionTypeOK
  BY DEF SectionsInv, BuffersInv, OrderInv
<1>1. ASSUME NEW m \in Messages, NEW k \in Keys,
             Active(k) \/ Len(order) < MaxActive,
             Store(m, k), MarkAndDispatch(m, k)
      PROVE  AlignedInv'
  <2>1. Push(buffers[k].deque, m) # <<>>
    BY <1>a, <1>1, StoreBuffers
  <2> QED
    BY <1>a, <1>1, <2>1, AlignedStored
<1>2. ASSUME UNCHANGED <<pending, overwritten, received>>, aligned,
             \A k \in Keys : /\ buffers'[k].deque = buffers[k].deque
                             /\ buffers'[k].new_count = buffers[k].new_count
      PROVE  AlignedInv'
  BY <1>2 DEF AlignedInv, DequesAligned, PairAligned, Base, NextDue
<1>3. ASSUME UNCHANGED <<pending, batches, failed, unanalysed, overwritten, received>>,
             aligned' = aligned \/ aligned' = FALSE,
             UNCHANGED buffers \/ ~aligned' \/ \E k \in Keys : GrowStale(k)
      PROVE  AlignedInv'
  <2>1. CASE UNCHANGED buffers
    BY <1>2, <1>3, <2>1
  <2>2. ASSUME NEW k \in Keys, GrowStale(k) PROVE AlignedInv'
    <3>1. buffers' = [buffers EXCEPT ![k].stale = TRUE]
      BY <2>2 DEF GrowStale
    <3>2. \A h \in Keys : /\ buffers'[h].deque = buffers[h].deque
                          /\ buffers'[h].new_count = buffers[h].new_count
      <4>1. buffers \in [Keys -> Buffers] /\ buffers[k] \in Buffers
        BY <1>a DEF TypeOK
      <4> QED
        BY <3>1, <4>1 DEF Buffers
    <3> QED
      BY <1>2, <1>3, <3>2
  <2> QED
    BY <1>3, <2>1, <2>2
<1>4. ASSUME NEW b \in batches, BatchProcessed(b) \/ BatchFails(b) PROVE AlignedInv'
  <2>1. UNCHANGED <<buffers, pending, overwritten, received, aligned>>
    BY <1>4 DEF BatchProcessed, BatchFails, vars
  <2> QED
    BY <1>2, <2>1
<1> QED
  BY <1>a, <1>1, <1>3, <1>4, SectionSteps

LEMMA AlignedInit == SectionInit => AlignedInv
<1> SUFFICES ASSUME SectionInit PROVE AlignedInv
  OBVIOUS
<1> USE WindowAssumption
<1>1. /\ overwritten = {}
      /\ \A k \in Keys : /\ received[k] = 0 /\ pending[k] = <<>>
                         /\ buffers[k].deque = <<>> /\ buffers[k].new_count = 0
  BY DEF SectionInit, Init, NoBuffer
<1>2. \A k \in Keys : Base(k) = 0
  <2>1. ASSUME NEW k \in Keys PROVE received[k] - buffers[k].new_count = 0
    BY <1>1
  <2> QED
    BY <2>1 DEF Base
<1>3. DequesAligned
  <2>1. \A k \in Keys : Len(buffers[k].deque) = 0
    BY <1>1, EmptySeq
  <2>2. \A k \in Keys : received[k] = 0 /\ pending[k] = <<>>
    BY <1>1
  <2>3. 0 < Window /\ ~(0 >= Window)
    OBVIOUS
  <2> QED
    BY <2>1, <2>2, <2>3, Zenon DEF DequesAligned
<1>4. \A k, h \in Keys : PairAligned(k, h)
  BY <1>1, <1>2 DEF PairAligned
<1>5. \A k \in Keys : \E h \in SectionsOf(FiberOf[k]) : pending[h] = <<>>
  BY <1>1 DEF SectionsOf
<1> QED
  BY <1>1, <1>3, <1>4, <1>5 DEF AlignedInv

\* For any window and step, as long as the sections of every fiber stay less than
\* Step messages apart and no buffer is popped, no pending window is replaced.
THEOREM AlignmentSuffices == SectionSpec => []AlignedSectionsLoseNothing
<1>1. SectionSpec => []AlignedInv
  BY AlignedInit, AlignedStep, SectionsInvariant, PTL DEF SectionSpec
<1>2. AlignedInv => AlignedSectionsLoseNothing
  BY DEF AlignedInv, AlignedSectionsLoseNothing
<1> QED
  BY <1>1, <1>2, PTL
=============================================================================
