------------------------- MODULE RollingBufferProofs -------------------------
(***************************************************************************)
(* What holds of the rolling buffers for any window, step, number of keys, *)
(* limit and number of messages.                                           *)
(***************************************************************************)
EXTENDS RollingBuffer, TLAPS, SequenceTheorems

-----------------------------------------------------------------------------
(* The operators on sequences *)

\* A push keeps a deque within its bound: the message is last, and the deque
\* shifts by one exactly if it was full.
LEMMA PushProperties ==
    ASSUME NEW s \in Seq(Messages), Len(s) <= Window, NEW m \in Messages
    PROVE  /\ Push(s, m) \in Seq(Messages)
           /\ Push(s, m) # <<>>
           /\ Len(s) < Window => /\ Len(Push(s, m)) = Len(s) + 1
                                 /\ \A i \in 1..Len(s) : Push(s, m)[i] = s[i]
           /\ Len(s) = Window => /\ Len(Push(s, m)) = Window
                                 /\ \A i \in 1..(Window - 1) : Push(s, m)[i] = s[i + 1]
           /\ Push(s, m)[Len(Push(s, m))] = m
<1> USE WindowAssumption
<1>1. CASE Len(s) < Window
  BY <1>1, AppendProperties, LenProperties DEF Push
<1>2. CASE Len(s) = Window
  <2>1. s # <<>>
    BY <1>2, EmptySeq
  <2>2. /\ Tail(s) \in Seq(Messages)
        /\ Len(Tail(s)) = Window - 1
        /\ \A i \in 1..(Window - 1) : Tail(s)[i] = s[i + 1]
    BY <1>2, <2>1, HeadTailProperties
  <2>3. Push(s, m) = Append(Tail(s), m)
    BY <1>2 DEF Push
  <2> QED
    BY <1>2, <2>2, <2>3, AppendProperties
<1> QED
  BY <1>1, <1>2, LenProperties

\* Removing a key from a sequence without repetitions removes nothing else.
LEMMA WithoutProperties ==
    ASSUME NEW s \in Seq(Keys), NEW k,
           \A i, j \in DOMAIN s : s[i] = s[j] => i = j
    PROVE  /\ Without(s, k) \in Seq(Keys)
           /\ Len(Without(s, k)) = IF k \in ItemsOf(s) THEN Len(s) - 1 ELSE Len(s)
           /\ ItemsOf(Without(s, k)) = ItemsOf(s) \ {k}
           /\ \A i, j \in DOMAIN Without(s, k) : Without(s, k)[i] = Without(s, k)[j] => i = j
<1>0. Len(s) \in Nat /\ DOMAIN s = 1..Len(s)
  BY LenProperties
<1>1. CASE k \notin ItemsOf(s)
  BY <1>0, <1>1 DEF Without, ItemsOf
<1>2. CASE k \in ItemsOf(s)
  <2>1. PICK n \in 1..Len(s) : s[n] = k /\ n = CHOOSE j \in DOMAIN s : s[j] = k
    BY <1>0, <1>2 DEF ItemsOf
  <2> DEFINE t == Without(s, k)
             left == SubSeq(s, 1, n - 1)
             right == SubSeq(s, n + 1, Len(s))
  <2>2. t = left \o right
    BY <1>2, <2>1 DEF Without
  <2>3. /\ left \in Seq(Keys) /\ Len(left) = n - 1
        /\ \A i \in 1..(n - 1) : left[i] = s[i]
    <3>1. \A i \in 1..(n - 1) : s[i] \in Keys
      BY <1>0, <2>1, ElementOfSeq
    <3> QED
      BY <3>1, <2>1, <1>0, SubSeqProperties
  <2>4. /\ right \in Seq(Keys) /\ Len(right) = Len(s) - n
        /\ \A i \in 1..(Len(s) - n) : right[i] = s[n + i]
    <3>1. \A i \in (n + 1)..Len(s) : s[i] \in Keys
      BY <1>0, <2>1, ElementOfSeq
    <3> QED
      BY <3>1, <2>1, <1>0, SubSeqProperties
  <2> HIDE DEF left, right, t
  <2>5. /\ t \in Seq(Keys) /\ Len(t) = Len(s) - 1
        /\ \A i \in 1..(Len(s) - 1) : t[i] = IF i <= n - 1 THEN left[i] ELSE right[i - (n - 1)]
    <3>1. /\ left \o right \in Seq(Keys)
          /\ Len(left \o right) = Len(left) + Len(right)
          /\ \A i \in 1..(Len(left) + Len(right)) :
                (left \o right)[i] = IF i <= Len(left) THEN left[i] ELSE right[i - Len(left)]
      BY <2>3, <2>4, ConcatProperties
    <3>2. Len(left) = n - 1 /\ Len(left) + Len(right) = Len(s) - 1
      BY <1>0, <2>1, <2>3, <2>4
    <3> QED
      BY <2>2, <3>1, <3>2
  <2>6. \A i \in 1..(Len(s) - 1) : t[i] = IF i < n THEN s[i] ELSE s[i + 1]
    <3>1. ASSUME NEW i \in 1..(Len(s) - 1), i < n PROVE t[i] = s[i]
      BY <3>1, <1>0, <2>1, <2>3, <2>5
    <3>2. ASSUME NEW i \in 1..(Len(s) - 1), ~(i < n) PROVE t[i] = s[i + 1]
      <4>1. i - (n - 1) \in 1..(Len(s) - n) /\ n + (i - (n - 1)) = i + 1
        BY <3>2, <1>0, <2>1
      <4>2. t[i] = right[i - (n - 1)]
        <5>1. ~(i <= n - 1)
          BY <3>2, <1>0, <2>1
        <5> QED
          BY <5>1, <2>5
      <4>3. right[i - (n - 1)] = s[n + (i - (n - 1))]
        BY <4>1, <2>4
      <4> QED
        BY <4>1, <4>2, <4>3
    <3> QED
      BY <3>1, <3>2
  <2>7. DOMAIN t = 1..(Len(s) - 1)
    BY <2>5, LenProperties
  <2> DEFINE from(i) == IF i < n THEN i ELSE i + 1
  <2>8. \A i \in DOMAIN t : from(i) \in DOMAIN s /\ from(i) # n /\ t[i] = s[from(i)]
    BY <1>0, <2>1, <2>6, <2>7
  <2>9. \A i, j \in DOMAIN t : t[i] = t[j] => i = j
    <3>1. SUFFICES ASSUME NEW i \in DOMAIN t, NEW j \in DOMAIN t, t[i] = t[j]
                   PROVE  i = j
      OBVIOUS
    <3>2. from(i) = from(j)
      BY <2>8, <3>1
    <3> QED
      BY <3>2, <1>0, <2>1, <2>7
  <2>10. ASSUME NEW i \in DOMAIN t PROVE t[i] \in ItemsOf(s) \ {k}
    <3>1. s[from(i)] # k
      BY <1>0, <2>1, <2>8
    <3> QED
      BY <2>8, <3>1 DEF ItemsOf
  <2>11. ASSUME NEW i \in DOMAIN s, s[i] # k PROVE s[i] \in ItemsOf(t)
    <3>1. CASE i < n
      <4>1. i \in DOMAIN t /\ t[i] = s[i]
        BY <3>1, <1>0, <2>1, <2>6, <2>7
      <4> QED
        BY <4>1 DEF ItemsOf
    <3>2. CASE i > n
      <4>1. i - 1 \in 1..(Len(s) - 1) /\ ~(i - 1 < n) /\ (i - 1) + 1 = i
        BY <3>2, <1>0, <2>1
      <4>2. t[i - 1] = s[i]
        BY <4>1, <2>6
      <4> QED
        BY <4>1, <4>2, <2>7 DEF ItemsOf
    <3>3. i # n
      BY <2>1, <2>11
    <3> QED
      BY <3>1, <3>2, <3>3, <1>0, <2>1
  <2>12. ItemsOf(t) = ItemsOf(s) \ {k}
    BY <2>10, <2>11 DEF ItemsOf
  <2> QED
    BY <1>2, <2>5, <2>9, <2>12 DEF t
<1> QED
  BY <1>1, <1>2

-----------------------------------------------------------------------------
(* The inductive invariant *)

\* What new_count means: until the deque is full it counts every message, then
\* fewer than Step since the last window.
CountInv ==
    \A k \in Keys :
        LET b == buffers[k]
        IN  /\ Len(b.deque) <= Window
            /\ b.new_count <= Len(b.deque)
            /\ Len(b.deque) < Window => b.new_count = Len(b.deque)
            /\ Len(b.deque) = Window => b.new_count < Step
            /\ b.deque = <<>> => b = NoBuffer

\* Only buffers that hold a message are processed.
WindowsInv == \A w \in tasks : w.messages # <<>>

\* The message the poll loop still has to store is one it has read.
PollerInv == poller # Ready => poller.message \in 1..polled

Handed == BeingProcessed \cup processed \cup dead

\* The messages of a deque that are part of some window: all but the newest
\* new_count.
Covered(k) ==
    {buffers[k].deque[i] : i \in 1..(Len(buffers[k].deque) - buffers[k].new_count)}

\* So the message that drops out of a full deque was given to processing.
HandedInv == \A k \in Keys : Covered(k) \subseteq Handed

\* While the poll loop awaits an eviction, the place it made stays free.
OrderInv ==
    /\ OrderMatchesBuffers
    /\ poller # Ready => Len(order) < MaxActive

\* What the buffers keep whatever becomes of a window that is due.
BuffersInv ==
    /\ TypeOK
    /\ CountInv
    /\ WindowsInv
    /\ PollerInv
    /\ OrderInv

BufferInv ==
    /\ BuffersInv
    /\ HandedInv
    /\ NoMessageFallsOut

LEMMA WindowTyped ==
    ASSUME NEW s \in Seq(Messages)
    PROVE  WindowOf(s, TRUE) \in Windows /\ WindowOf(s, FALSE) \in Windows
<1>1. TRUE \in BOOLEAN /\ FALSE \in BOOLEAN
  OBVIOUS
<1> QED
  BY <1>1, Zenon DEF WindowOf, Windows

LEMMA InBuffered ==
    ASSUME TypeOK, NEW x
    PROVE  x \in Buffered <=> \E k \in Keys : \E i \in 1..Len(buffers[k].deque) :
                                  x = buffers[k].deque[i]
<1>1. \A k \in Keys : DOMAIN buffers[k].deque = 1..Len(buffers[k].deque)
  <2>1. \A k \in Keys : buffers[k].deque \in Seq(Messages)
    BY DEF TypeOK, Buffers
  <2> QED
    BY <2>1, LenProperties
<1> QED
  BY <1>1 DEF Buffered, ItemsOf

\* Storing a message keeps the buffers in order.  A message that leaves a deque
\* was covered, and covered by storing are only messages of the window now due.
LEMMA StoreBuffers ==
    ASSUME TypeOK, CountInv, OrderMatchesBuffers,
           NEW m \in Messages, NEW k \in Keys,
           Active(k) \/ Len(order) < MaxActive,
           Store(m, k)
    PROVE  /\ buffers' \in [Keys -> Buffers]
           /\ order' \in Seq(Keys)
           /\ CountInv' /\ OrderMatchesBuffers'
           /\ Push(buffers[k].deque, m) \in Seq(Messages)
           /\ Push(buffers[k].deque, m) # <<>>
           /\ Due(m, k) => Len(Push(buffers[k].deque, m)) = Window
           /\ \A h \in Keys : Covered(h)' \subseteq Covered(h) \cup
                  (IF h = k /\ Due(m, k) THEN ItemsOf(Push(buffers[k].deque, m)) ELSE {})
           /\ \A x \in Buffered : x \in Buffered' \cup Covered(k)
           /\ m \in Buffered'
<1> USE WindowAssumption, BoundAssumption
<1> DEFINE b == buffers[k]
           c == buffers'[k]
           due == Len(Push(b.deque, m)) >= Window /\ b.new_count + 1 >= Step
<1>1. /\ b \in Buffers /\ b.deque \in Seq(Messages) /\ Len(b.deque) \in 0..Window
      /\ b.new_count \in Nat /\ b.last_window \in Seq(Messages)
  BY LenProperties DEF TypeOK, Buffers, CountInv
<1>2. /\ c = [deque |-> Push(b.deque, m),
              new_count |-> IF due THEN 0 ELSE b.new_count + 1,
              stale |-> FALSE,
              last_window |-> IF due THEN Push(b.deque, m) ELSE b.last_window]
      /\ \A h \in Keys : h # k => buffers'[h] = buffers[h]
      /\ buffers' = [buffers EXCEPT ![k] = c]
      /\ order' = Append(Without(order, k), k)
  BY DEF Store, Due, NewCount, TypeOK
<1> HIDE DEF c
<1>3. /\ c.deque = Push(b.deque, m)
      /\ c.new_count = IF due THEN 0 ELSE b.new_count + 1
      /\ c.last_window = IF due THEN Push(b.deque, m) ELSE b.last_window
  BY <1>2
<1>4. /\ c.deque \in Seq(Messages) /\ c.deque # <<>>
      /\ c.deque[Len(c.deque)] = m
      /\ Len(c.deque) \in 1..Window
      /\ Len(b.deque) < Window => /\ Len(c.deque) = Len(b.deque) + 1
                                  /\ \A i \in 1..Len(b.deque) : c.deque[i] = b.deque[i]
      /\ Len(b.deque) = Window => /\ Len(c.deque) = Window
                                  /\ \A i \in 1..(Window - 1) : c.deque[i] = b.deque[i + 1]
  <2> DEFINE q == b.deque
             p == Push(q, m)
  <2>0. q \in Seq(Messages) /\ Len(q) \in 0..Window /\ Len(q) <= Window
    BY <1>1
  <2> HIDE DEF q
  <2>1. /\ p \in Seq(Messages) /\ p # <<>>
        /\ Len(q) < Window => /\ Len(p) = Len(q) + 1
                                    /\ \A i \in 1..Len(q) : p[i] = q[i]
        /\ Len(q) = Window => /\ Len(p) = Window
                                    /\ \A i \in 1..(Window - 1) : p[i] = q[i + 1]
        /\ p[Len(p)] = m
    BY <2>0, PushProperties
  <2>2. c.deque = p
    BY <1>3 DEF q
  <2> HIDE DEF p
  <2>3. Len(p) \in 1..Window
    BY <2>0, <2>1
  <2> QED
    BY <2>1, <2>2, <2>3 DEF q
<1>5. /\ c.new_count \in 0..Len(c.deque)
      /\ Len(c.deque) < Window => c.new_count = Len(c.deque)
      /\ Len(c.deque) = Window => c.new_count < Step
  <2>1. /\ b.new_count <= Len(b.deque)
        /\ Len(b.deque) < Window => b.new_count = Len(b.deque)
        /\ Len(b.deque) = Window => b.new_count < Step
    BY DEF CountInv
  <2>2. due <=> Len(c.deque) >= Window /\ b.new_count + 1 >= Step
    BY <1>3
  <2> HIDE DEF due, b
  <2>3. Len(b.deque) \in 0..Window /\ b.new_count \in Nat /\ Len(c.deque) \in 1..Window
    BY <1>1, <1>4
  <2>4. \/ Len(b.deque) < Window /\ Len(c.deque) = Len(b.deque) + 1
        \/ Len(b.deque) = Window /\ Len(c.deque) = Window
    BY <1>4, <2>3
  <2> QED
    BY <2>1, <2>2, <2>3, <2>4, <1>3
<1>6. buffers' \in [Keys -> Buffers]
  <2>1. c \in Buffers
    <3>1. c.new_count \in 0..Window /\ c.last_window \in Seq(Messages)
      BY <1>1, <1>3, <1>4, <1>5
    <3>2. c.stale = FALSE
      BY <1>2
    <3>3. c.stale \in BOOLEAN
      BY <3>2, Zenon
    <3>4. c = [deque |-> c.deque, new_count |-> c.new_count, stale |-> c.stale,
               last_window |-> c.last_window]
      BY <1>2
    <3> QED
      BY <1>4, <3>1, <3>3, <3>4, Zenon DEF Buffers
  <2> QED
    BY <2>1, <1>2 DEF TypeOK
<1>7. \A h \in Keys : h # k => buffers'[h] = buffers[h]
  BY <1>2
<1>8. due <=> Due(m, k)
  BY DEF Due
<1>9. due => Len(c.deque) = Window
  BY <1>3, <1>4
<1>12. CountInv'
  <2>1. ASSUME NEW h \in Keys, h # k
        PROVE  /\ Len(buffers'[h].deque) <= Window
               /\ buffers'[h].new_count <= Len(buffers'[h].deque)
               /\ Len(buffers'[h].deque) < Window =>
                     buffers'[h].new_count = Len(buffers'[h].deque)
               /\ Len(buffers'[h].deque) = Window => buffers'[h].new_count < Step
               /\ buffers'[h].deque = <<>> => buffers'[h] = NoBuffer
    BY <2>1, <1>7 DEF CountInv
  <2> QED
    BY <2>1, <1>4, <1>5 DEF CountInv, c
<1>13. ASSUME NEW h \in Keys
       PROVE  Covered(h)' \subseteq Covered(h) \cup
                  (IF h = k /\ due THEN ItemsOf(Push(b.deque, m)) ELSE {})
  <2>1. CASE h # k
    BY <2>1, <1>7 DEF Covered
  <2>2. ASSUME NEW i \in 1..(Len(c.deque) - c.new_count), due
        PROVE  c.deque[i] \in ItemsOf(Push(b.deque, m))
    <3>1. i \in 1..Len(c.deque) /\ DOMAIN c.deque = 1..Len(c.deque)
      BY <1>4, <1>5, <2>2, LenProperties
    <3> QED
      BY <3>1, <1>3 DEF ItemsOf
  <2>3. ASSUME NEW i \in 1..(Len(c.deque) - c.new_count), ~due
        PROVE  c.deque[i] \in Covered(k)
    <3>1. c.new_count = b.new_count + 1
      BY <2>3, <1>3
    <3>2. CASE Len(b.deque) < Window
      <4>1. b.new_count = Len(b.deque)
        BY <3>2 DEF CountInv
      <4>2. Len(c.deque) - c.new_count = 0
        BY <3>1, <3>2, <4>1, <1>1, <1>4
      <4> QED
        BY <4>2
    <3>3. CASE Len(b.deque) = Window
      <4>1. i \in 1..(Window - 1) /\ i + 1 \in 1..(Len(b.deque) - b.new_count)
        BY <3>1, <3>3, <1>1, <1>4
      <4>2. c.deque[i] = b.deque[i + 1]
        BY <4>1, <3>3, <1>4
      <4> QED
        BY <4>1, <4>2 DEF Covered
    <3> QED
      BY <3>2, <3>3, <1>1
  <2>4. Covered(k)' = {c.deque[i] : i \in 1..(Len(c.deque) - c.new_count)}
    BY DEF Covered, c
  <2> HIDE DEF due, b
  <2> QED
    BY <2>1, <2>2, <2>3, <2>4
<1>14. OrderMatchesBuffers'
  <2>1. /\ order \in Seq(Keys) /\ Len(order) <= MaxActive
        /\ ItemsOf(order) = ActiveKeys
        /\ \A i, j \in DOMAIN order : order[i] = order[j] => i = j
    BY DEF TypeOK, OrderMatchesBuffers
  <2> DEFINE rest == Without(order, k)
  <2>2. /\ rest \in Seq(Keys)
        /\ Len(rest) = IF k \in ItemsOf(order) THEN Len(order) - 1 ELSE Len(order)
        /\ ItemsOf(rest) = ItemsOf(order) \ {k}
        /\ \A i, j \in DOMAIN rest : rest[i] = rest[j] => i = j
    BY <2>1, WithoutProperties
  <2> HIDE DEF rest
  <2>3. order' = Append(rest, k)
    BY <1>2 DEF rest
  <2>4. /\ order' \in Seq(Keys) /\ Len(order') = Len(rest) + 1
        /\ \A i \in 1..Len(rest) : order'[i] = rest[i]
        /\ order'[Len(rest) + 1] = k
    BY <2>2, <2>3, AppendProperties
  <2>5. /\ DOMAIN rest = 1..Len(rest) /\ DOMAIN order' = 1..(Len(rest) + 1)
        /\ Len(rest) \in Nat /\ Len(order) \in Nat
    BY <2>1, <2>2, <2>4, LenProperties
  <2>6. \A i \in DOMAIN rest : rest[i] # k
    BY <2>2 DEF ItemsOf
  <2>7. Len(order') <= MaxActive
    BY <2>1, <2>2, <2>4, <2>5 DEF ActiveKeys
  <2>8. \A i, j \in DOMAIN order' : order'[i] = order'[j] => i = j
    BY <2>2, <2>4, <2>5, <2>6
  <2>9. ItemsOf(order') = ItemsOf(order) \cup {k}
    <3>1. ItemsOf(order') = ItemsOf(rest) \cup {k}
      BY <2>4, <2>5 DEF ItemsOf
    <3> QED
      BY <2>2, <3>1
  <2>10. ActiveKeys' = ActiveKeys \cup {k}
    <3>1. c # NoBuffer
      BY <1>4 DEF NoBuffer
    <3>2. \A h \in Keys : h # k => (Active(h)' <=> Active(h))
      BY <1>7 DEF Active
    <3>3. Active(k)'
      BY <3>1 DEF Active, c
    <3> QED
      BY <3>2, <3>3 DEF ActiveKeys
  <2> QED
    BY <2>1, <2>7, <2>8, <2>9, <2>10 DEF OrderMatchesBuffers
<1>15. order' \in Seq(Keys)
  BY <1>2, WithoutProperties, AppendProperties DEF TypeOK, OrderMatchesBuffers
<1>16. ASSUME NEW x
       PROVE  (\E h \in Keys : \E i \in 1..Len(buffers'[h].deque) : x = buffers'[h].deque[i])
                 => x \in Buffered'
  <2>1. ASSUME NEW h \in Keys
        PROVE  DOMAIN buffers'[h].deque = 1..Len(buffers'[h].deque)
    <3>1. buffers'[h].deque \in Seq(Messages)
      BY <1>6 DEF Buffers
    <3> QED
      BY <3>1, LenProperties
  <2> QED
    BY <2>1 DEF Buffered, ItemsOf
<1>17. m \in Buffered'
  BY <1>4, <1>16 DEF c
<1>18. ASSUME NEW x \in Buffered PROVE x \in Buffered' \cup Covered(k)
  <2>1. PICK h \in Keys : \E i \in 1..Len(buffers[h].deque) : x = buffers[h].deque[i]
    BY InBuffered
  <2>2. PICK i \in 1..Len(buffers[h].deque) : x = buffers[h].deque[i]
    BY <2>1
  <2>3. CASE h # k
    BY <2>2, <2>3, <1>7, <1>16
  <2>4. CASE h = k /\ Len(b.deque) < Window
    <3>1. i \in 1..Len(c.deque) /\ x = c.deque[i]
      BY <2>2, <2>4, <1>1, <1>4
    <3> QED
      BY <3>1, <1>16 DEF c
  <2>5. CASE h = k /\ Len(b.deque) = Window /\ i > 1
    <3>1. i - 1 \in 1..(Window - 1) /\ (i - 1) + 1 = i
      BY <2>2, <2>5
    <3>2. i - 1 \in 1..Len(c.deque) /\ x = c.deque[i - 1]
      BY <3>1, <2>2, <2>5, <1>4
    <3> QED
      BY <3>2, <1>16 DEF c
  <2>6. CASE h = k /\ Len(b.deque) = Window /\ i = 1
    <3>1. 1 \in 1..(Len(b.deque) - b.new_count)
      BY <2>6, <1>1 DEF CountInv
    <3> QED
      BY <2>2, <2>6, <3>1 DEF Covered
  <2> QED
    BY <2>2, <2>3, <2>4, <2>5, <2>6, <1>1
<1> QED
  <2>1. Push(b.deque, m) \in Seq(Messages) /\ Push(b.deque, m) # <<>>
    BY <1>3, <1>4
  <2>2. due => Len(Push(b.deque, m)) = Window
    BY <1>3, <1>9
  <2>3. \A h \in Keys : Covered(h)' \subseteq Covered(h) \cup
                  (IF h = k /\ Due(m, k) THEN ItemsOf(Push(buffers[k].deque, m)) ELSE {})
    BY <1>8, <1>13, Zenon
  <2> QED
    BY <2>1, <2>2, <2>3, <1>6, <1>8, <1>12, <1>14, <1>15, <1>17, <1>18

\* Here the window that is due is processed, so storing a message loses none.
LEMMA StoreProperties ==
    ASSUME BuffersInv, HandedInv,
           NEW m \in Messages, NEW k \in Keys,
           Active(k) \/ Len(order) < MaxActive,
           Store(m, k), StartIfDue(m, k),
           UNCHANGED <<processed, dead>>
    PROVE  /\ buffers' \in [Keys -> Buffers]
           /\ order' \in Seq(Keys)
           /\ tasks' \subseteq Windows
           /\ CountInv' /\ WindowsInv' /\ HandedInv' /\ OrderMatchesBuffers'
           /\ Handed \subseteq Handed'
           /\ \A x \in Buffered : x \in Buffered' \cup Handed'
           /\ m \in Buffered'
<1> DEFINE t == Push(buffers[k].deque, m)
<1>1. TypeOK /\ CountInv /\ OrderMatchesBuffers /\ WindowsInv
  BY DEF BuffersInv, OrderInv
<1>2. /\ buffers' \in [Keys -> Buffers] /\ order' \in Seq(Keys)
      /\ CountInv' /\ OrderMatchesBuffers'
      /\ t \in Seq(Messages) /\ t # <<>>
      /\ \A h \in Keys : Covered(h)' \subseteq Covered(h) \cup
             (IF h = k /\ Due(m, k) THEN ItemsOf(t) ELSE {})
      /\ \A x \in Buffered : x \in Buffered' \cup Covered(k)
      /\ m \in Buffered'
  BY <1>1, StoreBuffers
<1>3. tasks' = IF Due(m, k) THEN tasks \cup {WindowOf(t, FALSE)} ELSE tasks
  BY DEF StartIfDue
<1> HIDE DEF t
<1>4. WindowOf(t, FALSE) \in Windows /\ WindowOf(t, FALSE).messages = t
  BY <1>2, WindowTyped DEF WindowOf
<1>5. tasks' \subseteq Windows /\ WindowsInv'
  BY <1>1, <1>2, <1>3, <1>4 DEF TypeOK, WindowsInv
<1>6. Handed \subseteq Handed'
  <2>1. BeingProcessed \subseteq BeingProcessed'
    BY <1>3 DEF BeingProcessed
  <2> QED
    BY <2>1 DEF Handed
<1>7. Due(m, k) => ItemsOf(t) \subseteq Handed'
  BY <1>3, <1>4 DEF Handed, BeingProcessed
<1>8. HandedInv'
  BY <1>2, <1>6, <1>7 DEF HandedInv
<1>9. \A x \in Buffered : x \in Buffered' \cup Handed'
  BY <1>2, <1>6 DEF HandedInv
<1> QED
  BY <1>2, <1>5, <1>6, <1>8, <1>9

\* Popping a buffer and giving its window to processing loses no message.
LEMMA PopProperties ==
    ASSUME TypeOK, CountInv, WindowsInv,
           NEW k \in Keys, Active(k),
           buffers' = [buffers EXCEPT ![k] = NoBuffer],
           tasks' = tasks \cup {WindowOf(buffers[k].deque, TRUE)},
           UNCHANGED <<processed, dead>>
    PROVE  /\ buffers' \in [Keys -> Buffers]
           /\ tasks' \subseteq Windows
           /\ CountInv' /\ WindowsInv'
           /\ \A h \in Keys : Covered(h)' \subseteq Covered(h)
           /\ Handed \subseteq Handed'
           /\ \A x \in Buffered : x \in Buffered' \cup Handed'
           /\ ActiveKeys' = ActiveKeys \ {k}
<1> USE WindowAssumption
<1> DEFINE w == WindowOf(buffers[k].deque, TRUE)
<1>1. /\ buffers[k].deque \in Seq(Messages) /\ buffers[k].deque # <<>>
      /\ \A h \in Keys : DOMAIN buffers[h].deque = 1..Len(buffers[h].deque)
  <2>1. \A h \in Keys : buffers[h].deque \in Seq(Messages)
    BY DEF TypeOK, Buffers
  <2> QED
    BY <2>1, LenProperties DEF CountInv, Active
<1>2. /\ buffers'[k] = NoBuffer
      /\ \A h \in Keys : h # k => buffers'[h] = buffers[h]
  BY DEF TypeOK
<1>3. buffers' \in [Keys -> Buffers]
  <2>1. NoBuffer \in Buffers
    <3>1. /\ <<>> \in Seq(Messages) /\ 0 \in 0..Window
      BY EmptySeq
    <3>2. FALSE \in BOOLEAN
      OBVIOUS
    <3> QED
      BY <3>1, <3>2, Zenon DEF NoBuffer, Buffers
  <2>2. buffers \in [Keys -> Buffers]
    BY DEF TypeOK
  <2> HIDE DEF Buffers, NoBuffer
  <2> QED
    BY <2>1, <2>2
<1>4. w \in Windows /\ w.messages = buffers[k].deque
  BY <1>1, WindowTyped DEF WindowOf
<1> HIDE DEF w
<1>5. tasks' = tasks \cup {w}
  BY DEF w
<1>6. tasks' \subseteq Windows /\ WindowsInv'
  BY <1>1, <1>4, <1>5 DEF TypeOK, WindowsInv
<1>7. /\ Handed \subseteq Handed'
      /\ \A i \in 1..Len(buffers[k].deque) : buffers[k].deque[i] \in Handed'
  <2>1. BeingProcessed \subseteq BeingProcessed'
    BY <1>5 DEF BeingProcessed
  <2>2. \A i \in 1..Len(buffers[k].deque) : buffers[k].deque[i] \in BeingProcessed'
    <3>1. w \in tasks' /\ DOMAIN w.messages = 1..Len(buffers[k].deque)
      BY <1>1, <1>4, <1>5
    <3>2. \A i \in 1..Len(buffers[k].deque) : buffers[k].deque[i] \in ItemsOf(w.messages)
      BY <3>1, <1>4 DEF ItemsOf
    <3> QED
      BY <3>1, <3>2 DEF BeingProcessed
  <2>3. processed' = processed /\ dead' = dead
    OBVIOUS
  <2> QED
    BY <2>1, <2>2, <2>3, Zenon DEF Handed
<1>8. Len(<<>>) = 0 /\ NoBuffer.deque = <<>> /\ NoBuffer.new_count = 0
  BY DEF NoBuffer
<1>9. CountInv'
  <2>1. ASSUME NEW h \in Keys, h # k
        PROVE  /\ Len(buffers'[h].deque) <= Window
               /\ buffers'[h].new_count <= Len(buffers'[h].deque)
               /\ Len(buffers'[h].deque) < Window =>
                     buffers'[h].new_count = Len(buffers'[h].deque)
               /\ Len(buffers'[h].deque) = Window => buffers'[h].new_count < Step
               /\ buffers'[h].deque = <<>> => buffers'[h] = NoBuffer
    BY <2>1, <1>2 DEF CountInv
  <2> QED
    BY <2>1, <1>2, <1>8 DEF CountInv
<1>10. \A h \in Keys : Covered(h)' \subseteq Covered(h)
  <2>1. ASSUME NEW h \in Keys, h = k PROVE Covered(h)' = {}
    BY <2>1, <1>2, <1>8 DEF Covered
  <2>2. ASSUME NEW h \in Keys, h # k PROVE Covered(h)' = Covered(h)
    BY <2>2, <1>2 DEF Covered
  <2> QED
    BY <2>1, <2>2
<1>11. ASSUME NEW x \in Buffered PROVE x \in Buffered' \cup Handed'
  <2>1. PICK h \in Keys : x \in ItemsOf(buffers[h].deque)
    BY DEF Buffered
  <2>2. CASE h = k
    BY <2>1, <2>2, <1>1, <1>7 DEF ItemsOf
  <2>3. CASE h # k
    BY <2>1, <2>3, <1>2 DEF Buffered
  <2> QED
    BY <2>2, <2>3
<1>12. ActiveKeys' = ActiveKeys \ {k}
  BY <1>2 DEF ActiveKeys, Active
<1> QED
  BY <1>3, <1>6, <1>7, <1>9, <1>10, <1>11, <1>12

-----------------------------------------------------------------------------
(* Every step preserves the invariant *)

\* Where a message that was accounted for is after a step that keeps the poll
\* loop's message or stores it.
LEMMA NothingLost ==
    ASSUME NoMessageFallsOut, polled' \in Nat, polled \in Nat,
           \A m \in (1..polled') \ (1..polled) :
               m \in Buffered' \cup Handed' \cup skipped' \cup {poller'.message},
           Handed \subseteq Handed', skipped \subseteq skipped',
           \A x \in Buffered : x \in Buffered' \cup Handed',
           \A m \in 1..polled : m = poller.message =>
               m \in Buffered' \cup Handed' \cup skipped' \cup {poller'.message}
    PROVE  NoMessageFallsOut'
<1>1. ASSUME NEW m \in 1..polled'
      PROVE  m \in Buffered' \cup Handed' \cup skipped' \cup {poller'.message}
  <2>1. CASE m \in 1..polled
    BY <2>1 DEF NoMessageFallsOut, Handed
  <2>2. CASE m \notin 1..polled
    BY <2>2
  <2> QED
    BY <2>1, <2>2
<1> QED
  BY <1>1 DEF NoMessageFallsOut, Handed

\* The steps that store no message keep the buffers in order, and lose none.
LEMMA OtherStep ==
    ASSUME BuffersInv,
           \/ Skip \/ StaleLoop \/ UNCHANGED vars
           \/ \E k \in Keys : Evict(k) \/ GrowStale(k)
           \/ \E w \in tasks : Processed(w) \/ Failed(w)
    PROVE  /\ BuffersInv'
           /\ \A h \in Keys : Covered(h)' \subseteq Covered(h)
           /\ Handed \subseteq Handed' /\ skipped \subseteq skipped'
           /\ \A x \in Buffered : x \in Buffered' \cup Handed'
           /\ \A m \in (1..polled') \ (1..polled) : m \in skipped' \cup {poller'.message}
           /\ poller.message \in {0, poller'.message}
<1> USE WindowAssumption, BoundAssumption
<1> DEFINE Goal ==
              /\ BuffersInv'
              /\ \A h \in Keys : Covered(h)' \subseteq Covered(h)
              /\ Handed \subseteq Handed' /\ skipped \subseteq skipped'
              /\ \A x \in Buffered : x \in Buffered' \cup Handed'
              /\ \A m \in (1..polled') \ (1..polled) : m \in skipped' \cup {poller'.message}
              /\ poller.message \in {0, poller'.message}
<1>a. /\ TypeOK /\ CountInv /\ WindowsInv /\ PollerInv /\ OrderInv /\ OrderMatchesBuffers
  BY DEF BuffersInv, OrderInv
<1>b. /\ polled \in 0..NumMessages /\ processed \subseteq Messages /\ dead \subseteq Messages
      /\ skipped \subseteq Messages /\ committed \in 1..(NumMessages + 1) /\ order \in Seq(Keys)
      /\ sweep \in [keys : SUBSET Keys, awaits : Windows] /\ tasks \subseteq Windows
      /\ poller \in {Ready} \cup [awaits : Windows, message : Messages, key : Keys]
      /\ buffers \in [Keys -> Buffers]
  BY <1>a DEF TypeOK
<1>2. ASSUME NEW k \in Keys, Evict(k) PROVE Goal
  <2> DEFINE h == Head(order)
             w == WindowOf(buffers[h].deque, TRUE)
  <2>1. /\ polled' = polled + 1 /\ polled + 1 \in Messages
        /\ buffers' = [buffers EXCEPT ![h] = NoBuffer]
        /\ order' = Tail(order)
        /\ tasks' = tasks \cup {w}
        /\ poller = Ready /\ poller' = [awaits |-> w, message |-> polled + 1, key |-> k]
        /\ Len(order) >= MaxActive
    BY <1>2, <1>b DEF Evict, MustEvict, Messages
  <2>2. UNCHANGED <<sweep, processed, dead, skipped, committed>>
    BY <1>2 DEF Evict, outcome
  <2>3. /\ order # <<>> /\ h \in Keys
        /\ Tail(order) \in Seq(Keys) /\ Len(Tail(order)) = Len(order) - 1
        /\ \A i \in 1..(Len(order) - 1) : Tail(order)[i] = order[i + 1]
        /\ order[1] = h
        /\ Len(order) \in Nat \ {0} /\ DOMAIN order = 1..Len(order)
        /\ DOMAIN Tail(order) = 1..(Len(order) - 1)
    <3>1. order # <<>>
      BY <1>b, <2>1, EmptySeq
    <3> QED
      BY <3>1, <1>b, HeadTailProperties, EmptySeq, LenProperties
  <2>4. /\ Len(order) <= MaxActive /\ ItemsOf(order) = ActiveKeys
        /\ \A i, j \in DOMAIN order : order[i] = order[j] => i = j
    BY <1>a DEF OrderMatchesBuffers
  <2>5. Active(h)
    <3>1. h \in ItemsOf(order)
      BY <2>3 DEF ItemsOf
    <3> QED
      BY <3>1, <2>4 DEF ActiveKeys
  <2>6. /\ buffers' \in [Keys -> Buffers] /\ tasks' \subseteq Windows
        /\ CountInv' /\ WindowsInv'
        /\ \A g \in Keys : Covered(g)' \subseteq Covered(g)
        /\ Handed \subseteq Handed'
        /\ \A x \in Buffered : x \in Buffered' \cup Handed'
        /\ ActiveKeys' = ActiveKeys \ {h}
    BY <1>a, <2>1, <2>2, <2>3, <2>5, PopProperties
  <2>7. TypeOK'
    <3>1. w \in Windows
      BY <2>1, <2>6
    <3> HIDE DEF w
    <3>2. poller' \in [awaits : Windows, message : Messages, key : Keys]
      BY <3>1, <2>1
    <3> QED
      BY <1>b, <2>1, <2>2, <2>3, <2>6, <3>2 DEF TypeOK, Messages
  <2>8. OrderInv'
    <3>1. \A i, j \in DOMAIN order' : order'[i] = order'[j] => i = j
      <4>1. ASSUME NEW i \in 1..(Len(order) - 1), NEW j \in 1..(Len(order) - 1),
                   Tail(order)[i] = Tail(order)[j]
            PROVE  i = j
        <5>1. /\ i + 1 \in DOMAIN order /\ j + 1 \in DOMAIN order
              /\ order[i + 1] = order[j + 1]
          BY <2>3, <4>1
        <5>2. i + 1 = j + 1
          BY <2>4, <5>1
        <5> QED
          BY <5>2
      <4> QED
        BY <4>1, <2>1, <2>3
    <3>2. ItemsOf(order') = ItemsOf(order) \ {h}
      <4>1. ASSUME NEW i \in DOMAIN Tail(order)
            PROVE  Tail(order)[i] \in ItemsOf(order) /\ Tail(order)[i] # h
        <5>1. i + 1 \in DOMAIN order /\ i + 1 # 1 /\ Tail(order)[i] = order[i + 1]
          BY <2>3
        <5>2. order[i + 1] # order[1]
          BY <5>1, <2>3, <2>4
        <5> QED
          BY <5>1, <5>2, <2>3 DEF ItemsOf
      <4>2. ASSUME NEW i \in DOMAIN order, order[i] # h
            PROVE  order[i] \in ItemsOf(Tail(order))
        <5>1. i # 1
          BY <4>2, <2>3
        <5>2. i - 1 \in 1..(Len(order) - 1) /\ (i - 1) + 1 = i
          BY <5>1, <2>3
        <5>3. Tail(order)[i - 1] = order[i]
          BY <5>2, <2>3
        <5> QED
          BY <5>2, <5>3, <2>3 DEF ItemsOf
      <4> QED
        BY <4>1, <4>2, <2>1 DEF ItemsOf
    <3>3. Len(order') < MaxActive
      BY <2>1, <2>3, <2>4
    <3> QED
      BY <3>1, <3>2, <3>3, <2>4, <2>6 DEF OrderInv, OrderMatchesBuffers
  <2>9. poller'.message = polled + 1 /\ polled' \in Nat /\ polled \in Nat
    BY <2>1, <1>b
  <2>10. PollerInv'
    BY <2>1, <2>9 DEF PollerInv
  <2>11. BuffersInv'
    BY <2>6, <2>7, <2>8, <2>10 DEF BuffersInv
  <2>12. /\ \A m \in (1..polled') \ (1..polled) : m \in {poller'.message}
         /\ poller.message = 0 /\ skipped' = skipped
    BY <2>1, <2>2, <2>9 DEF Ready
  <2> QED
    BY <2>6, <2>11, <2>12
<1>4. ASSUME NEW k \in Keys, GrowStale(k) PROVE Goal
  <2>1. /\ UNCHANGED <<polled, order, poller, sweep, tasks, processed, dead, skipped, committed>>
        /\ Active(k)
        /\ buffers' = [buffers EXCEPT ![k].stale = TRUE]
    BY <1>4 DEF GrowStale, outcome
  <2>2. /\ buffers'[k] = [deque |-> buffers[k].deque, new_count |-> buffers[k].new_count,
                          stale |-> TRUE, last_window |-> buffers[k].last_window]
        /\ \A h \in Keys : h # k => buffers'[h] = buffers[h]
    BY <2>1, <1>b DEF Buffers
  <2>3. \A h \in Keys : /\ buffers'[h].deque = buffers[h].deque
                        /\ buffers'[h].new_count = buffers[h].new_count
    BY <2>2
  <2>4. \A h \in Keys : Active(h)' <=> Active(h)
    <3>1. buffers[k] # NoBuffer /\ buffers[k].deque # <<>>
      BY <2>1, <1>a DEF Active, CountInv
    <3>2. buffers'[k] # NoBuffer
      BY <2>3, <3>1 DEF NoBuffer
    <3> QED
      BY <2>2, <3>1, <3>2 DEF Active
  <2>5. buffers' \in [Keys -> Buffers]
    <3>1. TRUE \in BOOLEAN
      OBVIOUS
    <3>2. /\ buffers[k].deque \in Seq(Messages) /\ buffers[k].new_count \in 0..Window
          /\ buffers[k].last_window \in Seq(Messages)
      BY <1>b DEF Buffers
    <3>3. buffers'[k] \in [deque : Seq(Messages), new_count : 0..Window, stale : BOOLEAN,
                           last_window : Seq(Messages)]
      BY <2>2, <3>1, <3>2
    <3>4. buffers'[k] \in Buffers
      BY <3>3 DEF Buffers
    <3> QED
      BY <2>1, <2>2, <3>4, <1>b
  <2>6. TypeOK'
    BY <1>b, <2>1, <2>5 DEF TypeOK
  <2>7. CountInv'
    <3>1. \A h \in Keys : buffers'[h].deque = <<>> => buffers'[h] = NoBuffer
      BY <2>3, <2>4, <1>a DEF CountInv, Active
    <3> QED
      BY <2>3, <3>1, <1>a DEF CountInv
  <2>8. Buffered' = Buffered /\ Handed' = Handed
    BY <2>1, <2>3 DEF Buffered, Handed, BeingProcessed
  <2>9. WindowsInv' /\ PollerInv'
    BY <1>a, <2>1 DEF WindowsInv, PollerInv
  <2>10. OrderInv'
    BY <1>a, <2>1, <2>4 DEF OrderInv, OrderMatchesBuffers, ActiveKeys
  <2>11. BuffersInv'
    BY <2>6, <2>7, <2>9, <2>10 DEF BuffersInv
  <2>12. \A h \in Keys : Covered(h)' = Covered(h)
    BY <2>3 DEF Covered
  <2> QED
    BY <2>1, <2>8, <2>11, <2>12
<1>5. ASSUME UNCHANGED <<polled, buffers, order, poller, tasks, outcome>>,
             sweep' \in [keys : SUBSET Keys, awaits : Windows]
      PROVE  Goal
  <2>1. TypeOK'
    BY <1>5, <1>b DEF TypeOK, outcome
  <2>2. UNCHANGED <<ActiveKeys, Buffered, Handed>>
    BY <1>5 DEF ActiveKeys, Active, Buffered, Handed, BeingProcessed, outcome
  <2>3. BuffersInv'
    BY <1>5, <1>a, <2>1, <2>2
       DEF BuffersInv, CountInv, WindowsInv, PollerInv, OrderInv, OrderMatchesBuffers, outcome
  <2>4. \A h \in Keys : Covered(h)' = Covered(h)
    BY <1>5 DEF Covered
  <2> QED
    BY <1>5, <2>2, <2>3, <2>4 DEF outcome
<1>6. ASSUME SweepBegins \/ SweepEnds \/ \E k \in Keys : SweepFails(k)
      PROVE  Goal
  <2>1. UNCHANGED <<polled, buffers, order, poller, tasks, outcome>>
    BY <1>6 DEF SweepBegins, SweepEnds, SweepFails
  <2>2. \E ks \in SUBSET Keys : sweep' = [keys |-> ks, awaits |-> NoWindow]
    BY <1>6 DEF SweepBegins, SweepEnds, SweepFails, Idle, ActiveKeys
  <2>3. NoWindow \in Windows
    <3>1. <<>> \in Seq(Messages)
      BY EmptySeq
    <3>2. TRUE \in BOOLEAN
      OBVIOUS
    <3> QED
      BY <3>1, <3>2, Zenon DEF NoWindow, Windows
  <2> QED
    BY <2>1, <2>2, <2>3, <1>5
<1>7. ASSUME NEW k \in Keys, SweepPops(k) PROVE Goal
  <2> DEFINE w == WindowOf(buffers[k].deque, TRUE)
  <2>1. /\ Active(k)
        /\ buffers' = [buffers EXCEPT ![k] = NoBuffer]
        /\ order' = Without(order, k)
        /\ tasks' = tasks \cup {w}
        /\ sweep' = [keys |-> sweep.keys \ {k}, awaits |-> w]
        /\ UNCHANGED <<polled, poller, processed, dead, skipped, committed>>
    BY <1>7 DEF SweepPops, outcome
  <2>2. /\ buffers' \in [Keys -> Buffers] /\ tasks' \subseteq Windows
        /\ CountInv' /\ WindowsInv'
        /\ \A g \in Keys : Covered(g)' \subseteq Covered(g)
        /\ Handed \subseteq Handed'
        /\ \A x \in Buffered : x \in Buffered' \cup Handed'
        /\ ActiveKeys' = ActiveKeys \ {k}
    BY <1>a, <2>1, PopProperties
  <2>3. /\ order' \in Seq(Keys) /\ Len(order') <= Len(order)
        /\ ItemsOf(order') = ItemsOf(order) \ {k}
        /\ \A i, j \in DOMAIN order' : order'[i] = order'[j] => i = j
    <3>1. \A i, j \in DOMAIN order : order[i] = order[j] => i = j
      BY <1>a DEF OrderMatchesBuffers
    <3>2. Len(order) \in Nat
      BY <1>b, LenProperties
    <3>3. /\ Without(order, k) \in Seq(Keys)
          /\ Len(Without(order, k)) = IF k \in ItemsOf(order) THEN Len(order) - 1 ELSE Len(order)
          /\ ItemsOf(Without(order, k)) = ItemsOf(order) \ {k}
          /\ \A i, j \in DOMAIN Without(order, k) :
                Without(order, k)[i] = Without(order, k)[j] => i = j
      BY <1>b, <3>1, WithoutProperties
    <3> QED
      BY <2>1, <3>2, <3>3
  <2>4. TypeOK'
    <3>1. w \in Windows
      BY <2>1, <2>2
    <3> HIDE DEF w
    <3>2. sweep' \in [keys : SUBSET Keys, awaits : Windows]
      BY <1>b, <2>1, <3>1
    <3> QED
      BY <1>b, <2>1, <2>2, <2>3, <3>2 DEF TypeOK
  <2>5. OrderInv'
    <3>1. Len(order) \in Nat /\ Len(order') \in Nat
      BY <1>b, <2>3, LenProperties
    <3> QED
      BY <1>a, <2>1, <2>2, <2>3, <3>1 DEF OrderInv, OrderMatchesBuffers
  <2>6. PollerInv'
    BY <1>a, <2>1 DEF PollerInv
  <2>7. BuffersInv'
    BY <2>2, <2>4, <2>5, <2>6 DEF BuffersInv
  <2> QED
    BY <2>1, <2>2, <2>7
<1>8. ASSUME NEW w \in tasks, Processed(w) \/ Failed(w) PROVE Goal
  <2>1. /\ tasks' = tasks \ {w}
        /\ UNCHANGED <<polled, buffers, order, poller, sweep, skipped>>
        /\ \/ processed' = processed \cup ItemsOf(w.messages) /\ dead' = dead
           \/ dead' = dead \cup ItemsOf(w.messages) /\ processed' = processed
        /\ \/ committed' = w.messages[Len(w.messages)] + 1
           \/ committed' = committed
    BY <1>8 DEF Processed, Failed
  <2>2. /\ w.messages \in Seq(Messages) /\ w.messages # <<>>
        /\ ItemsOf(w.messages) \subseteq Messages
        /\ w.messages[Len(w.messages)] \in Messages
    <3>1. w.messages \in Seq(Messages) /\ w.messages # <<>>
      BY <1>a, <1>b DEF Windows, WindowsInv
    <3>2. Len(w.messages) \in 1..Len(w.messages) /\ DOMAIN w.messages = 1..Len(w.messages)
      BY <3>1, EmptySeq, LenProperties
    <3>3. \A i \in 1..Len(w.messages) : w.messages[i] \in Messages
      BY <3>1, ElementOfSeq
    <3> QED
      BY <3>1, <3>2, <3>3 DEF ItemsOf
  <2>3. TypeOK'
    <3>1. committed' \in 1..(NumMessages + 1)
      BY <1>b, <2>1, <2>2 DEF Messages
    <3>2. processed' \subseteq Messages /\ dead' \subseteq Messages
      BY <1>b, <2>1, <2>2
    <3> QED
      BY <1>b, <2>1, <3>1, <3>2 DEF TypeOK
  <2>4. Handed \subseteq Handed'
    BY <2>1 DEF Handed, BeingProcessed
  <2>5. ActiveKeys' = ActiveKeys /\ Buffered' = Buffered
    BY <2>1 DEF ActiveKeys, Active, Buffered
  <2>6. CountInv' /\ WindowsInv' /\ PollerInv' /\ OrderInv'
    BY <1>a, <2>1, <2>5
       DEF CountInv, WindowsInv, PollerInv, OrderInv, OrderMatchesBuffers
  <2>7. BuffersInv'
    BY <2>3, <2>6 DEF BuffersInv
  <2>8. \A h \in Keys : Covered(h)' = Covered(h)
    BY <2>1 DEF Covered
  <2> QED
    BY <2>1, <2>4, <2>5, <2>7, <2>8
<1>9. CASE Skip
  <2>1. /\ polled' = polled + 1 /\ polled + 1 \in Messages
        /\ skipped' = skipped \cup {polled + 1}
        /\ poller = Ready
        /\ UNCHANGED <<buffers, order, poller, sweep, tasks, processed, dead, committed>>
    BY <1>9, <1>b DEF Skip, Messages
  <2>2. TypeOK'
    BY <1>b, <2>1 DEF TypeOK, Messages
  <2>3. Buffered' = Buffered /\ Handed' = Handed /\ ActiveKeys' = ActiveKeys
    BY <2>1 DEF Buffered, Handed, BeingProcessed, ActiveKeys, Active
  <2>4. CountInv' /\ WindowsInv' /\ PollerInv' /\ OrderInv'
    BY <1>a, <2>1, <2>3
       DEF CountInv, WindowsInv, PollerInv, OrderInv, OrderMatchesBuffers
  <2>5. BuffersInv'
    BY <2>2, <2>4 DEF BuffersInv
  <2>6. \A m \in (1..polled') \ (1..polled) : m = polled + 1
    BY <1>b, <2>1
  <2>7. \A h \in Keys : Covered(h)' = Covered(h)
    BY <2>1 DEF Covered
  <2> QED
    BY <2>1, <2>3, <2>5, <2>6, <2>7
<1>10. CASE UNCHANGED vars
  BY <1>10, <1>5, <1>b DEF vars, outcome
<1> QED
  BY <1>2, <1>4, <1>6, <1>7, <1>8, <1>9, <1>10 DEF StaleLoop

LEMMA BufferInvStep == BufferInv /\ [Next]_vars => BufferInv'
<1> SUFFICES ASSUME BufferInv, [Next]_vars
             PROVE  BufferInv'
  OBVIOUS
<1> USE WindowAssumption, BoundAssumption
<1>a. /\ BuffersInv /\ HandedInv /\ NoMessageFallsOut
      /\ TypeOK /\ CountInv /\ WindowsInv /\ PollerInv /\ OrderInv
      /\ OrderMatchesBuffers
  BY DEF BufferInv, BuffersInv, OrderInv
<1>b. /\ polled \in 0..NumMessages /\ processed \subseteq Messages /\ dead \subseteq Messages
      /\ skipped \subseteq Messages /\ committed \in 1..(NumMessages + 1) /\ order \in Seq(Keys)
      /\ sweep \in [keys : SUBSET Keys, awaits : Windows] /\ tasks \subseteq Windows
      /\ poller \in {Ready} \cup [awaits : Windows, message : Messages, key : Keys]
      /\ buffers \in [Keys -> Buffers]
  BY <1>a DEF TypeOK
<1>1. ASSUME NEW k \in Keys, Handle(k) PROVE BufferInv'
  <2>1. /\ polled' = polled + 1 /\ polled + 1 \in Messages
        /\ Store(polled + 1, k) /\ StartIfDue(polled + 1, k)
        /\ poller = Ready /\ poller' = Ready
        /\ Active(k) \/ Len(order) < MaxActive
    BY <1>1, <1>b, LenProperties DEF Handle, MustEvict, Messages
  <2>2. UNCHANGED <<sweep, processed, dead, skipped, committed>>
    BY <1>1 DEF Handle, outcome
  <2>3. /\ buffers' \in [Keys -> Buffers] /\ order' \in Seq(Keys) /\ tasks' \subseteq Windows
        /\ CountInv' /\ WindowsInv' /\ HandedInv' /\ OrderMatchesBuffers'
        /\ Handed \subseteq Handed'
        /\ \A x \in Buffered : x \in Buffered' \cup Handed'
        /\ polled + 1 \in Buffered'
    BY <1>a, <2>1, <2>2, StoreProperties
  <2>4. TypeOK'
    BY <1>b, <2>1, <2>2, <2>3 DEF TypeOK, Messages
  <2>5. PollerInv' /\ OrderInv'
    BY <2>1, <2>3 DEF PollerInv, OrderInv
  <2>6. NoMessageFallsOut'
    <3>1. poller.message = 0
      BY <2>1 DEF Ready
    <3>2. \A m \in (1..polled') \ (1..polled) : m = polled + 1
      BY <1>b, <2>1
    <3> QED
      BY <1>a, <1>b, <2>1, <2>2, <2>3, <3>1, <3>2, NothingLost
  <2> QED
    BY <2>3, <2>4, <2>5, <2>6 DEF BufferInv, BuffersInv
<1>3. CASE StoreAfterEviction
  <2>1. /\ poller # Ready /\ poller' = Ready
        /\ Store(poller.message, poller.key)
        /\ StartIfDue(poller.message, poller.key)
        /\ polled' = polled
        /\ poller.message \in Messages /\ poller.message \in 1..polled /\ poller.key \in Keys
        /\ Len(order) < MaxActive
    BY <1>3, <1>a, <1>b DEF StoreAfterEviction, PollerInv, OrderInv
  <2>2. UNCHANGED <<sweep, processed, dead, skipped, committed>>
    BY <1>3 DEF StoreAfterEviction, outcome
  <2>3. /\ buffers' \in [Keys -> Buffers] /\ order' \in Seq(Keys) /\ tasks' \subseteq Windows
        /\ CountInv' /\ WindowsInv' /\ HandedInv' /\ OrderMatchesBuffers'
        /\ Handed \subseteq Handed'
        /\ \A x \in Buffered : x \in Buffered' \cup Handed'
        /\ poller.message \in Buffered'
    BY <1>a, <2>1, <2>2, StoreProperties
  <2>4. TypeOK'
    BY <1>b, <2>1, <2>2, <2>3 DEF TypeOK
  <2>5. PollerInv' /\ OrderInv'
    BY <2>1, <2>3 DEF PollerInv, OrderInv
  <2>6. NoMessageFallsOut'
    BY <1>a, <1>b, <2>1, <2>2, <2>3, NothingLost
  <2> QED
    BY <2>3, <2>4, <2>5, <2>6 DEF BufferInv, BuffersInv
<1>4. CASE \/ Skip \/ StaleLoop \/ UNCHANGED vars
           \/ \E k \in Keys : Evict(k) \/ GrowStale(k)
           \/ \E w \in tasks : Processed(w) \/ Failed(w)
  <2>1. /\ BuffersInv'
        /\ \A h \in Keys : Covered(h)' \subseteq Covered(h)
        /\ Handed \subseteq Handed' /\ skipped \subseteq skipped'
        /\ \A x \in Buffered : x \in Buffered' \cup Handed'
        /\ \A m \in (1..polled') \ (1..polled) : m \in skipped' \cup {poller'.message}
        /\ poller.message \in {0, poller'.message}
    BY <1>a, <1>4, OtherStep
  <2>2. HandedInv'
    BY <1>a, <2>1 DEF HandedInv
  <2>3. polled' \in Nat /\ polled \in Nat
    BY <1>b, <2>1 DEF BuffersInv, TypeOK
  <2>4. NoMessageFallsOut'
    BY <1>a, <2>1, <2>3, NothingLost
  <2> QED
    BY <2>1, <2>2, <2>4 DEF BufferInv
<1> QED
  BY <1>1, <1>3, <1>4 DEF Next, PollLoop

\* The initial state is one of empty buffers.
LEMMA BufferInvInit == Init => BufferInv
<1> SUFFICES ASSUME Init PROVE BufferInv
  OBVIOUS
<1> USE WindowAssumption, BoundAssumption DEF Init
<1>1. <<>> \in Seq(Messages) /\ <<>> \in Seq(Keys) /\ Len(<<>>) = 0 /\ DOMAIN <<>> = {}
  BY EmptySeq
<1>2. NoBuffer.deque = <<>> /\ NoBuffer.new_count = 0
  BY DEF NoBuffer
<1>3. NoBuffer \in Buffers /\ NoWindow \in Windows
  <2>1. TRUE \in BOOLEAN /\ FALSE \in BOOLEAN /\ 0 \in 0..Window
    OBVIOUS
  <2> QED
    BY <1>1, <2>1, Zenon DEF NoBuffer, Buffers, NoWindow, Windows
<1>4. TypeOK
  <2>1. sweep \in [keys : SUBSET Keys, awaits : Windows]
    BY <1>3 DEF Idle
  <2> QED
    BY <1>1, <1>3, <2>1 DEF TypeOK
<1>5. CountInv /\ HandedInv
  BY <1>1, <1>2 DEF CountInv, HandedInv, Covered
<1>6. WindowsInv /\ PollerInv /\ NoMessageFallsOut
  BY DEF WindowsInv, PollerInv, NoMessageFallsOut
<1>7. OrderInv
  BY <1>1 DEF OrderInv, OrderMatchesBuffers, ItemsOf, ActiveKeys, Active
<1> QED
  BY <1>4, <1>5, <1>6, <1>7 DEF BufferInv, BuffersInv

\* The invariant the theorems below are parts of.
THEOREM BufferInvariant == Spec => []BufferInv
BY BufferInvInit, BufferInvStep, PTL DEF Spec

\* The state keeps its types.
THEOREM TypeCorrect == Spec => []TypeOK
BY BufferInvariant, PTL DEF BufferInv, BuffersInv

\* No deque drops a message that was in no window given to processing.
THEOREM EveryMessageIsHandedOver == Spec => []NoMessageFallsOut
BY BufferInvariant, PTL DEF BufferInv, BuffersInv

\* The LRU order and the buffers agree, and the limit holds.
THEOREM OrderFollowsBuffers == Spec => []OrderMatchesBuffers
<1>1. BufferInv => OrderMatchesBuffers
  BY DEF BufferInv, BuffersInv, OrderInv
<1> QED
  BY <1>1, BufferInvariant, PTL

-----------------------------------------------------------------------------
(* The rolling buffers implement ConsumerPromise *)

\* Deques and windows hold only messages that were read.
DequesRead == \A k \in Keys : buffers[k].deque \in Seq(1..polled)
WindowsRead == \A w \in tasks : w.messages \in Seq(1..polled)
ReadInv == DequesRead /\ WindowsRead

LEMMA PushIn ==
    ASSUME NEW S, NEW s \in Seq(S), NEW m \in S
    PROVE  Push(s, m) \in Seq(S)
<1>1. CASE Len(s) < Window
  BY <1>1, AppendProperties DEF Push
<1>2. CASE ~(Len(s) < Window)
  <2>1. s # <<>>
    BY <1>2, WindowAssumption, EmptySeq
  <2>2. Tail(s) \in Seq(S)
    BY <2>1, HeadTailProperties
  <2> QED
    BY <1>2, <2>2, AppendProperties DEF Push
<1> QED
  BY <1>1, <1>2

\* What storing a message changes, in the terms the next two invariants need.
LEMMA StoreEffect ==
    ASSUME TypeOK, NEW m, NEW k \in Keys, Store(m, k)
    PROVE  /\ buffers'[k].deque = Push(buffers[k].deque, m)
           /\ buffers'[k].new_count = NewCount(Due(m, k), buffers[k].new_count)
           /\ buffers'[k].last_window = IF Due(m, k) THEN Push(buffers[k].deque, m)
                                        ELSE buffers[k].last_window
           /\ \A h \in Keys : h # k => buffers'[h] = buffers[h]
<1>1. buffers'[k] = [deque |-> Push(buffers[k].deque, m),
                     new_count |-> NewCount(Due(m, k), buffers[k].new_count),
                     stale |-> FALSE,
                     last_window |-> IF Due(m, k) THEN Push(buffers[k].deque, m)
                                     ELSE buffers[k].last_window]
  BY DEF Store, TypeOK
<1>2. \A h \in Keys : h # k => buffers'[h] = buffers[h]
  BY DEF Store, TypeOK
<1> QED
  BY <1>1, <1>2

LEMMA StoreRead ==
    ASSUME TypeOK, DequesRead, polled' \in Nat, polled <= polled',
           NEW m \in 1..polled', NEW k \in Keys, Store(m, k)
    PROVE  DequesRead' /\ Push(buffers[k].deque, m) \in Seq(1..polled')
<1>1. 1..polled \subseteq 1..polled'
  BY DEF TypeOK
<1>2. \A h \in Keys : buffers[h].deque \in Seq(1..polled')
  BY <1>1, SeqMonotonic DEF DequesRead
<1>3. Push(buffers[k].deque, m) \in Seq(1..polled')
  BY <1>2, PushIn
<1> QED
  BY <1>2, <1>3, StoreEffect DEF DequesRead

LEMMA WindowsStayRead ==
    ASSUME WindowsRead, polled \in Nat, polled' \in Nat, polled <= polled',
           \A w \in tasks' : w \in tasks \/ w.messages \in Seq(1..polled')
    PROVE  WindowsRead'
<1>1. 1..polled \subseteq 1..polled'
  OBVIOUS
<1> QED
  BY <1>1, SeqMonotonic DEF WindowsRead

LEMMA PopRead ==
    ASSUME TypeOK, ReadInv, polled' \in Nat, polled <= polled', NEW k \in Keys,
           buffers' = [buffers EXCEPT ![k] = NoBuffer],
           tasks' = tasks \cup {WindowOf(buffers[k].deque, TRUE)}
    PROVE  ReadInv'
<1>1. 1..polled \subseteq 1..polled' /\ polled \in Nat
  BY DEF TypeOK
<1>2. \A h \in Keys : buffers[h].deque \in Seq(1..polled')
  BY <1>1, SeqMonotonic DEF ReadInv, DequesRead
<1>3. NoBuffer.deque \in Seq(1..polled')
  BY EmptySeq DEF NoBuffer
<1>4. \A h \in Keys : buffers'[h] = IF h = k THEN NoBuffer ELSE buffers[h]
  BY DEF TypeOK
<1>5. \A w \in tasks' : w \in tasks \/ w.messages = buffers[k].deque
  BY DEF WindowOf
<1>6. WindowsRead'
  BY <1>1, <1>2, <1>5, WindowsStayRead DEF ReadInv
<1> QED
  BY <1>2, <1>3, <1>4, <1>6 DEF ReadInv, DequesRead

LEMMA OtherRead ==
    ASSUME BuffersInv, ReadInv,
           \/ Skip \/ StaleLoop \/ UNCHANGED vars
           \/ \E k \in Keys : Evict(k) \/ GrowStale(k)
           \/ \E w \in tasks : Processed(w) \/ Failed(w)
    PROVE  ReadInv'
<1> USE WindowAssumption, BoundAssumption
<1>a. TypeOK /\ polled \in Nat
  BY DEF BuffersInv, TypeOK
<1>2. ASSUME NEW k \in Keys, Evict(k) PROVE ReadInv'
  <2>1. /\ polled' = polled + 1
        /\ buffers' = [buffers EXCEPT ![Head(order)] = NoBuffer]
        /\ tasks' = tasks \cup {WindowOf(buffers[Head(order)].deque, TRUE)}
        /\ Len(order) >= MaxActive
    BY <1>2 DEF Evict, MustEvict
  <2>2. Head(order) \in Keys
    <3>1. order \in Seq(Keys) /\ order # <<>>
      BY <1>a, <2>1, EmptySeq DEF TypeOK
    <3> QED
      BY <3>1, HeadTailProperties
  <2>3. polled' \in Nat /\ polled <= polled'
    BY <1>a, <2>1
  <2> QED
    BY <1>a, <2>1, <2>2, <2>3, PopRead
<1>4. ASSUME NEW k \in Keys, SweepPops(k) PROVE ReadInv'
  <2>1. /\ polled' = polled
        /\ buffers' = [buffers EXCEPT ![k] = NoBuffer]
        /\ tasks' = tasks \cup {WindowOf(buffers[k].deque, TRUE)}
    BY <1>4 DEF SweepPops
  <2>2. polled' \in Nat /\ polled <= polled'
    BY <1>a, <2>1
  <2> QED
    BY <1>a, <2>1, <2>2, PopRead
<1>5. ASSUME NEW k \in Keys, GrowStale(k) PROVE ReadInv'
  <2>1. /\ polled' = polled /\ tasks' = tasks
        /\ buffers' = [buffers EXCEPT ![k].stale = TRUE]
    BY <1>5 DEF GrowStale
  <2>2. \A h \in Keys : buffers'[h].deque = buffers[h].deque
    <3>1. buffers[k] \in Buffers
      BY <1>a DEF TypeOK
    <3> QED
      BY <1>a, <2>1, <3>1 DEF TypeOK, Buffers
  <2> QED
    BY <2>1, <2>2 DEF ReadInv, DequesRead, WindowsRead
<1>6. CASE Skip
  <2>1. polled' = polled + 1 /\ buffers' = buffers /\ tasks' = tasks
    BY <1>6 DEF Skip
  <2>2. 1..polled \subseteq 1..polled'
    BY <1>a, <2>1
  <2> QED
    BY <2>1, <2>2, SeqMonotonic DEF ReadInv, DequesRead, WindowsRead
<1>7. CASE SweepBegins \/ SweepEnds \/ UNCHANGED vars \/ \E k \in Keys : SweepFails(k)
  BY <1>7 DEF SweepBegins, SweepEnds, SweepFails, vars, ReadInv, DequesRead, WindowsRead
<1>8. ASSUME NEW w \in tasks, Processed(w) \/ Failed(w) PROVE ReadInv'
  BY <1>8 DEF Processed, Failed, ReadInv, DequesRead, WindowsRead
<1> QED
  BY <1>2, <1>4, <1>5, <1>6, <1>7, <1>8 DEF StaleLoop

LEMMA ReadInvStep == BufferInv /\ ReadInv /\ [Next]_vars => ReadInv'
<1> SUFFICES ASSUME BufferInv, ReadInv, [Next]_vars
             PROVE  ReadInv'
  OBVIOUS
<1>a. /\ BuffersInv /\ TypeOK /\ PollerInv /\ polled \in Nat
      /\ DequesRead /\ WindowsRead
  BY DEF BufferInv, BuffersInv, TypeOK, ReadInv
<1>1. ASSUME NEW m \in 1..polled', NEW k \in Keys, Store(m, k), StartIfDue(m, k),
             polled' \in Nat, polled <= polled'
      PROVE  ReadInv'
  <2>1. DequesRead' /\ Push(buffers[k].deque, m) \in Seq(1..polled')
    BY <1>a, <1>1, StoreRead
  <2>2. \A w \in tasks' : w \in tasks \/ w.messages = Push(buffers[k].deque, m)
    BY <1>1 DEF StartIfDue, WindowOf
  <2>3. WindowsRead'
    BY <1>a, <1>1, <2>1, <2>2, WindowsStayRead
  <2> QED
    BY <2>1, <2>3 DEF ReadInv
<1>2. ASSUME NEW k \in Keys, Handle(k) PROVE ReadInv'
  <2>1. /\ polled' = polled + 1
        /\ Store(polled + 1, k) /\ StartIfDue(polled + 1, k)
    BY <1>2 DEF Handle
  <2>2. polled' \in Nat /\ polled <= polled' /\ polled + 1 \in 1..polled'
    BY <1>a, <2>1
  <2> QED
    BY <1>1, <2>1, <2>2
<1>3. CASE StoreAfterEviction
  <2>1. /\ polled' = polled
        /\ Store(poller.message, poller.key) /\ StartIfDue(poller.message, poller.key)
        /\ poller # Ready
    BY <1>3 DEF StoreAfterEviction
  <2>2. poller.message \in 1..polled' /\ poller.key \in Keys
    BY <1>a, <2>1 DEF TypeOK, PollerInv
  <2>3. polled' \in Nat /\ polled <= polled'
    BY <1>a, <2>1
  <2> QED
    BY <1>1, <2>1, <2>2, <2>3
<1>4. CASE \/ Skip \/ StaleLoop \/ UNCHANGED vars
           \/ \E k \in Keys : Evict(k) \/ GrowStale(k)
           \/ \E w \in tasks : Processed(w) \/ Failed(w)
  BY <1>a, <1>4, OtherRead
<1> QED
  BY <1>2, <1>3, <1>4 DEF Next, PollLoop

\* Every step of the buffers is a step of the promise, or none.
LEMMA OtherPromise ==
    ASSUME BuffersInv, ReadInv,
           \/ Skip \/ StaleLoop \/ UNCHANGED vars
           \/ \E k \in Keys : Evict(k) \/ GrowStale(k)
           \/ \E w \in tasks : Processed(w) \/ Failed(w)
    PROVE  \/ UNCHANGED <<polled, committed, processed>>
           \/ Promise!Take \/ Promise!Finish
<1>a. TypeOK /\ WindowsInv /\ polled \in Nat
  BY DEF BuffersInv, TypeOK
<1>1. ASSUME NEW k \in Keys, Evict(k) PROVE Promise!Take
  <2>1. /\ polled < NumMessages /\ polled' = polled + 1
        /\ UNCHANGED <<committed, processed>>
    BY <1>1 DEF Evict, outcome
  <2> QED
    BY <1>a, <2>1, BoundAssumption DEF Promise!Take
<1>2. CASE Skip
  <2>1. /\ polled < NumMessages /\ polled' = polled + 1
        /\ UNCHANGED <<committed, processed>>
    BY <1>2 DEF Skip
  <2> QED
    BY <1>a, <2>1, BoundAssumption DEF Promise!Take
<1>3. CASE SweepBegins \/ SweepEnds \/ UNCHANGED vars
  BY <1>3 DEF SweepBegins, SweepEnds, outcome, vars
<1>4. ASSUME NEW k \in Keys, GrowStale(k) \/ SweepPops(k) \/ SweepFails(k)
      PROVE  UNCHANGED <<polled, committed, processed>>
  BY <1>4 DEF GrowStale, SweepPops, SweepFails, outcome
<1>5. ASSUME NEW w \in tasks, Processed(w) PROVE Promise!Finish
  <2>1. /\ polled' = polled
        /\ processed' = processed \cup ItemsOf(w.messages)
        /\ committed' = w.messages[Len(w.messages)] + 1 \/ committed' = committed
    BY <1>5 DEF Processed
  <2>2. w.messages \in Seq(1..polled) /\ w.messages # <<>>
    BY <1>a DEF ReadInv, WindowsRead, WindowsInv
  <2>3. Len(w.messages) \in DOMAIN w.messages /\ DOMAIN w.messages = 1..Len(w.messages)
    BY <2>2, EmptySeq, LenProperties
  <2>4. ItemsOf(w.messages) \subseteq 1..polled
    BY <2>2, <2>3, ElementOfSeq DEF ItemsOf
  <2>5. w.messages[Len(w.messages)] \in processed'
    BY <2>1, <2>3 DEF ItemsOf
  <2>6. Promise!Taken = 1..polled
    BY <1>a DEF Promise!Taken
  <2> QED
    BY <2>1, <2>4, <2>5, <2>6 DEF Promise!Finish
<1>6. ASSUME NEW w \in tasks, Failed(w) PROVE UNCHANGED <<polled, committed, processed>>
  BY <1>6 DEF Failed
<1> QED
  BY <1>1, <1>2, <1>3, <1>4, <1>5, <1>6 DEF StaleLoop

LEMMA PromiseStep ==
    BufferInv /\ ReadInv /\ [Next]_vars => [Promise!Next]_(Promise!promiseVars)
<1> SUFFICES ASSUME BufferInv, ReadInv, [Next]_vars
             PROVE  \/ UNCHANGED <<polled, committed, processed>>
                    \/ Promise!Take \/ Promise!Finish
  BY DEF Promise!Next, Promise!promiseVars
<1>1. ASSUME NEW k \in Keys, Handle(k) PROVE Promise!Take
  <2>1. /\ polled < NumMessages /\ polled' = polled + 1
        /\ UNCHANGED <<committed, processed>>
    BY <1>1 DEF Handle, outcome
  <2>2. polled \in Nat
    BY DEF BufferInv, BuffersInv, TypeOK
  <2> QED
    BY <2>1, <2>2, BoundAssumption DEF Promise!Take
<1>2. CASE StoreAfterEviction
  BY <1>2 DEF StoreAfterEviction, outcome
<1>3. CASE \/ Skip \/ StaleLoop \/ UNCHANGED vars
           \/ \E k \in Keys : Evict(k) \/ GrowStale(k)
           \/ \E w \in tasks : Processed(w) \/ Failed(w)
  BY <1>3, OtherPromise DEF BufferInv
<1> QED
  BY <1>1, <1>2, <1>3 DEF Next, PollLoop

\* For any window, step, limit and set of keys, only messages that were processed
\* are committed, and the partition is read in order.
THEOREM ImplementsConsumerPromise == Spec => KeepsConsumerPromise
<1>1. Init => ReadInv
  <2>1. NoBuffer.deque = <<>> /\ <<>> \in Seq(1..polled)
    BY EmptySeq DEF NoBuffer
  <2> QED
    BY <2>1 DEF Init, ReadInv, DequesRead, WindowsRead
<1>2. Spec => []ReadInv
  BY <1>1, ReadInvStep, BufferInvariant, PTL DEF Spec
<1>3. Init => Promise!Init
  BY DEF Init, Promise!Init
<1> QED
  BY <1>2, <1>3, PromiseStep, BufferInvariant, PTL DEF Spec, KeepsConsumerPromise, Promise!Spec

-----------------------------------------------------------------------------
(* Consecutive windows overlap *)

\* Once a buffer has had a full window its deque stays full, and is that window
\* shifted by new_count.
OverlapInv ==
    \A k \in Keys : LET b == buffers[k] IN
        b.last_window # <<>> =>
            /\ Len(b.last_window) = Window
            /\ Len(b.deque) = Window
            /\ \A i \in 1..(Window - b.new_count) : b.deque[i] = b.last_window[i + b.new_count]

\* The overlap of the windows of one buffer, over a step.
OverlapKept(k) ==
    LET w == buffers[k].last_window
        v == buffers'[k].last_window
    IN  v # w /\ w # <<>> /\ v # <<>> => SubSeq(v, 1, Window - Step) = SubSeq(w, Step + 1, Window)

LEMMA StoreOverlaps ==
    ASSUME TypeOK, CountInv, OverlapInv,
           NEW m \in Messages, NEW k \in Keys, Store(m, k), StartIfDue(m, k)
    PROVE  OverlapInv' /\ \A h \in Keys : OverlapKept(h)
<1> USE WindowAssumption
<1> DEFINE s == buffers[k].deque
           n == buffers[k].new_count
           w == buffers[k].last_window
           t == buffers'[k].deque
           v == buffers'[k].last_window
<1>1. /\ s \in Seq(Messages) /\ w \in Seq(Messages) /\ n \in Nat
      /\ Len(s) \in Nat /\ Len(s) <= Window
      /\ Len(s) = Window => n < Step
  BY LenProperties DEF TypeOK, Buffers, CountInv
<1>2. /\ t = Push(s, m)
      /\ buffers'[k].new_count = IF Due(m, k) THEN 0 ELSE n + 1
      /\ v = IF Due(m, k) THEN t ELSE w
      /\ \A h \in Keys : h # k => buffers'[h] = buffers[h]
      /\ Due(m, k) <=> Len(t) >= Window /\ n + 1 >= Step
  BY StoreEffect DEF NewCount, Due
<1>3. /\ t \in Seq(Messages) /\ t # <<>>
      /\ Len(s) < Window => Len(t) = Len(s) + 1
      /\ Len(s) = Window => /\ Len(t) = Window
                            /\ \A i \in 1..(Window - 1) : t[i] = s[i + 1]
  <2>1. s \in Seq(Messages) /\ Len(s) <= Window
    BY <1>1
  <2> HIDE DEF s
  <2>2. /\ Push(s, m) \in Seq(Messages) /\ Push(s, m) # <<>>
        /\ Len(s) < Window => Len(Push(s, m)) = Len(s) + 1
        /\ Len(s) = Window => /\ Len(Push(s, m)) = Window
                              /\ \A i \in 1..(Window - 1) : Push(s, m)[i] = s[i + 1]
    BY <2>1, PushProperties
  <2> QED
    BY <1>2, <2>2
<1>4. w # <<>> => /\ Len(w) = Window /\ Len(s) = Window
                  /\ \A i \in 1..(Window - n) : s[i] = w[i + n]
  BY DEF OverlapInv
<1>5. Due(m, k) => Len(t) = Window
  BY <1>1, <1>2, <1>3
<1>6. v # <<>> =>
        /\ Len(v) = Window /\ Len(t) = Window
        /\ \A i \in 1..(Window - buffers'[k].new_count) : t[i] = v[i + buffers'[k].new_count]
  <2>1. CASE Due(m, k)
    <3>1. v = t /\ buffers'[k].new_count = 0 /\ Len(t) = Window
      BY <2>1, <1>2, <1>5
    <3>2. \A i \in 1..(Window - 0) : t[i] = t[i + 0]
      OBVIOUS
    <3> QED
      BY <3>1, <3>2
  <2>2. CASE ~Due(m, k) /\ w # <<>>
    <3>1. v = w /\ buffers'[k].new_count = n + 1 /\ Len(t) = Window
      BY <2>2, <1>2, <1>3, <1>4
    <3>2. ASSUME NEW i \in 1..(Window - (n + 1)) PROVE t[i] = w[i + (n + 1)]
      <4>1. i \in 1..(Window - 1) /\ i + 1 \in 1..(Window - n) /\ (i + 1) + n = i + (n + 1)
        BY <1>1
      <4>2. t[i] = s[i + 1] /\ s[i + 1] = w[(i + 1) + n]
        BY <4>1, <2>2, <1>3, <1>4
      <4> QED
        BY <4>1, <4>2
    <3> QED
      BY <3>1, <3>2, <2>2, <1>4
  <2>3. CASE ~Due(m, k) /\ w = <<>>
    BY <2>3, <1>2
  <2> QED
    BY <2>1, <2>2, <2>3
<1>7. v # w /\ w # <<>> => SubSeq(v, 1, Window - Step) = SubSeq(w, Step + 1, Window)
  <2> SUFFICES ASSUME v # w, w # <<>>
               PROVE  SubSeq(v, 1, Window - Step) = SubSeq(w, Step + 1, Window)
    OBVIOUS
  <2>1. Due(m, k) /\ v = t /\ n + 1 = Step
    BY <1>1, <1>2, <1>4
  <2>2. ASSUME NEW i \in 1..(Window - Step) PROVE v[i] = w[i + Step]
    <3>1. i \in 1..(Window - 1) /\ i + 1 \in 1..(Window - n) /\ (i + 1) + n = i + Step
      <4>1. n \in Nat /\ n + 1 = Step
        BY <1>1, <2>1
      <4> HIDE DEF n
      <4>2. Window \in Nat /\ Step \in Nat /\ n = Step - 1 /\ Step >= 1
        BY <4>1
      <4> QED
        BY <4>1, <4>2
    <3>2. t[i] = s[i + 1] /\ s[i + 1] = w[(i + 1) + n]
      BY <3>1, <1>3, <1>4
    <3> QED
      BY <2>1, <3>1, <3>2
  <2>3. Len(w) = Window /\ Len(v) = Window
    BY <1>4, <1>5, <2>1
  <2>4. /\ \A i \in 1..(Window - Step) : v[i] \in Messages
        /\ \A i \in (Step + 1)..Window : w[i] \in Messages
    BY <1>1, <1>3, <2>1, <2>3, ElementOfSeq
  <2> HIDE DEF v, w
  <2> DEFINE a == SubSeq(v, 1, Window - Step)
             b == SubSeq(w, Step + 1, Window)
  <2>5. /\ a \in Seq(Messages) /\ Len(a) = Window - Step
        /\ \A i \in 1..(Window - Step) : a[i] = v[i]
    <3>1. /\ a \in Seq(Messages)
          /\ Len(a) = IF 1 <= Window - Step THEN (Window - Step) - 1 + 1 ELSE 0
          /\ \A i \in 1..((Window - Step) - 1 + 1) : a[i] = v[1 + i - 1]
      BY <2>4, SubSeqProperties
    <3>2. (Window - Step) - 1 + 1 = Window - Step /\ \A i \in 1..(Window - Step) : 1 + i - 1 = i
      OBVIOUS
    <3> QED
      BY <3>1, <3>2
  <2>6. /\ b \in Seq(Messages) /\ Len(b) = Window - Step
        /\ \A i \in 1..(Window - Step) : b[i] = w[i + Step]
    <3>1. /\ b \in Seq(Messages)
          /\ Len(b) = IF Step + 1 <= Window THEN Window - (Step + 1) + 1 ELSE 0
          /\ \A i \in 1..(Window - (Step + 1) + 1) : b[i] = w[(Step + 1) + i - 1]
      BY <2>4, SubSeqProperties
    <3>2. /\ Window - (Step + 1) + 1 = Window - Step
          /\ \A i \in 1..(Window - Step) : (Step + 1) + i - 1 = i + Step
      OBVIOUS
    <3> QED
      BY <3>1, <3>2
  <2> HIDE DEF a, b
  <2>7. a = b
    BY <2>2, <2>5, <2>6, SeqEqual
  <2> QED
    BY <2>7 DEF a, b
<1>8. ASSUME NEW h \in Keys, h # k
      PROVE  /\ OverlapKept(h)
             /\ buffers'[h] = buffers[h]
  BY <1>2, <1>8 DEF OverlapKept
<1>9. OverlapInv'
  <2>1. ASSUME NEW h \in Keys, buffers'[h].last_window # <<>>
        PROVE  /\ Len(buffers'[h].last_window) = Window
               /\ Len(buffers'[h].deque) = Window
               /\ \A i \in 1..(Window - buffers'[h].new_count) :
                     buffers'[h].deque[i] = buffers'[h].last_window[i + buffers'[h].new_count]
    BY <2>1, <1>6, <1>8 DEF OverlapInv
  <2> QED
    BY <2>1 DEF OverlapInv
<1> QED
  BY <1>7, <1>8, <1>9 DEF OverlapKept

\* A step that pops buffers or changes none of deque, new_count and last_window.
LEMMA OthersOverlap ==
    ASSUME OverlapInv,
           \A k \in Keys : \/ buffers'[k] = NoBuffer
                           \/ /\ buffers'[k].deque = buffers[k].deque
                              /\ buffers'[k].new_count = buffers[k].new_count
                              /\ buffers'[k].last_window = buffers[k].last_window
    PROVE  OverlapInv' /\ \A k \in Keys : OverlapKept(k)
<1>1. NoBuffer.last_window = <<>>
  BY DEF NoBuffer
<1>2. ASSUME NEW k \in Keys PROVE OverlapKept(k)
  BY <1>1 DEF OverlapKept
<1>3. ASSUME NEW k \in Keys, buffers'[k].last_window # <<>>
      PROVE  /\ Len(buffers'[k].last_window) = Window
             /\ Len(buffers'[k].deque) = Window
             /\ \A i \in 1..(Window - buffers'[k].new_count) :
                   buffers'[k].deque[i] = buffers'[k].last_window[i + buffers'[k].new_count]
  BY <1>1, <1>3 DEF OverlapInv
<1> QED
  BY <1>2, <1>3 DEF OverlapInv

LEMMA OverlapStep ==
    BufferInv /\ OverlapInv /\ [Next]_vars => OverlapInv' /\ \A k \in Keys : OverlapKept(k)
<1> SUFFICES ASSUME BufferInv, OverlapInv, [Next]_vars
             PROVE  OverlapInv' /\ \A k \in Keys : OverlapKept(k)
  OBVIOUS
<1>a. TypeOK /\ CountInv /\ PollerInv
  BY DEF BufferInv, BuffersInv
<1>1. ASSUME NEW k \in Keys, Handle(k)
      PROVE  OverlapInv' /\ \A h \in Keys : OverlapKept(h)
  <2>1. polled + 1 \in Messages /\ Store(polled + 1, k) /\ StartIfDue(polled + 1, k)
    BY <1>1, <1>a, BoundAssumption DEF Handle, TypeOK, Messages
  <2> QED
    BY <1>a, <2>1, StoreOverlaps
<1>2. CASE StoreAfterEviction
  <2>1. /\ Store(poller.message, poller.key) /\ StartIfDue(poller.message, poller.key)
        /\ poller.message \in Messages /\ poller.key \in Keys
    BY <1>2, <1>a DEF StoreAfterEviction, TypeOK
  <2> QED
    BY <1>a, <2>1, StoreOverlaps
<1>3. ASSUME NEW k \in Keys, Evict(k) \/ SweepPops(k) \/ GrowStale(k)
      PROVE  OverlapInv' /\ \A h \in Keys : OverlapKept(h)
  <2>1. \/ \E h : buffers' = [buffers EXCEPT ![h] = NoBuffer]
        \/ buffers' = [buffers EXCEPT ![k].stale = TRUE]
    BY <1>3 DEF Evict, SweepPops, GrowStale
  <2>2. buffers \in [Keys -> Buffers]
    BY <1>a DEF TypeOK
  <2>3. \A h \in Keys : \/ buffers'[h] = NoBuffer
                        \/ /\ buffers'[h].deque = buffers[h].deque
                           /\ buffers'[h].new_count = buffers[h].new_count
                           /\ buffers'[h].last_window = buffers[h].last_window
    <3>1. CASE \E h : buffers' = [buffers EXCEPT ![h] = NoBuffer]
      BY <2>2, <3>1
    <3>2. CASE buffers' = [buffers EXCEPT ![k].stale = TRUE]
      <4>1. buffers[k] \in Buffers
        BY <2>2
      <4> QED
        BY <2>2, <3>2, <4>1 DEF Buffers
    <3> QED
      BY <2>1, <3>1, <3>2
  <2> QED
    BY <2>3, OthersOverlap
<1>4. CASE UNCHANGED buffers
  BY <1>4, OthersOverlap
<1>5. CASE \/ Skip \/ SweepBegins \/ SweepEnds \/ UNCHANGED vars
           \/ \E k \in Keys : SweepFails(k)
           \/ \E w \in tasks : Processed(w) \/ Failed(w)
  BY <1>4, <1>5 DEF Skip, SweepBegins, SweepEnds, SweepFails, Processed, Failed, vars
<1> QED
  BY <1>1, <1>2, <1>3, <1>5 DEF Next, PollLoop, StaleLoop

\* For any window and step, each full window of a buffer starts exactly Step
\* messages after the one before, with evictions and stale buffers in between.
THEOREM FullWindowsOverlap == Spec => WindowsOverlap
<1>1. Init => OverlapInv
  BY DEF Init, OverlapInv, NoBuffer
<1>2. Spec => []OverlapInv
  BY <1>1, OverlapStep, BufferInvariant, PTL DEF Spec
<1>3. BufferInv /\ OverlapInv /\ [Next]_vars => [\A k \in Keys : OverlapKept(k)]_vars
  BY OverlapStep
<1> DEFINE Kept == \A k \in Keys : OverlapKept(k)
<1>4. Spec => [][Kept]_vars
  BY <1>2, <1>3, BufferInvariant, PTL DEF Spec
<1> QED
  BY <1>4 DEF WindowsOverlap, OverlapKept
=============================================================================
