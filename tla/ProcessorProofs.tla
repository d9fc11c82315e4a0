-------------------------- MODULE ProcessorProofs --------------------------
(* Proofs about module Processor, for any fibers, contents, sections, batch   *)
(* size, permits and retries.                                                 *)
EXTENDS Processor, FiniteSetTheorems, WellFoundedInduction, TLAPS

LEMMA FeedTypes ==
    ASSUME TypeOK, NEW m \in Messages, NEW f \in Fibers, NEW c \in Configs, NEW pipe \in Configs,
           NEW before \in [Sections -> Seq(Messages)], NEW rebuilt \in BOOLEAN,
           attempts' \in [Messages -> 0..MaxAttempts],
           Feed(m, f, c, pipe, before, rebuilt)
    PROVE  /\ fed' \in [Fibers -> [Sections -> Seq(Messages)]]
           /\ uneven' \subseteq Fibers
           /\ retried' \subseteq Fibers
           /\ task' \in [Messages -> {"none", "undecodable", "waiting", "backoff", "committing",
                                      "processed", "dead"}]
<1> DEFINE sections == Reached(f, c) \cap SectionsOf[pipe]
<1>1. PICK given \in SUBSET sections, halfway \in BOOLEAN :
          /\ fed' = [fed EXCEPT ![f] = [s \in Sections |->
                        IF s \in given THEN Append(before[s], m) ELSE before[s]]]
          /\ \/ Returns(m, "committing")
             \/ Raises(m)
          /\ uneven' = IF halfway \/ given \notin {{}, sections} THEN uneven \cup {f}
                       ELSE IF rebuilt THEN uneven \ {f} ELSE uneven
          /\ retried' = IF rebuilt THEN retried \ {f}
                        ELSE IF attempts'[m] > 1 THEN retried \cup {f} ELSE retried
  BY DEF Feed
<1>2. [s \in Sections |-> IF s \in given THEN Append(before[s], m) ELSE before[s]]
          \in [Sections -> Seq(Messages)]
  OBVIOUS
<1>3. fed' \in [Fibers -> [Sections -> Seq(Messages)]]
  BY <1>1, <1>2 DEF TypeOK
<1>4. uneven' \subseteq Fibers /\ retried' \subseteq Fibers
  BY <1>1 DEF TypeOK
<1> QED
  BY <1>1, <1>3, <1>4 DEF TypeOK, Returns, Raises

LEMMA ProcessTypes ==
    ASSUME TypeOK, NEW m \in Messages, NEW f \in Fibers, NEW c \in Configs,
           attempts' \in [Messages -> 0..MaxAttempts],
           Process(m, f, c)
    PROVE  /\ fed' \in [Fibers -> [Sections -> Seq(Messages)]]
           /\ uneven' \subseteq Fibers
           /\ retried' \subseteq Fibers
           /\ task' \in [Messages -> {"none", "undecodable", "waiting", "backoff", "committing",
                                      "processed", "dead"}]
           /\ built' \in [Fibers -> Configs \cup {None}]
           /\ pipelines' \in [Fibers -> (Configs \ Unbuildable) \cup {None}]
<1> USE ProcessorAssumption
<1>1. Empty \in [Sections -> Seq(Messages)] /\ fed[f] \in [Sections -> Seq(Messages)]
  BY DEF Empty, TypeOK
<1>2. CASE /\ pipelines[f] # None
           /\ Feed(m, f, c, pipelines[f], fed[f], FALSE)
           /\ UNCHANGED <<built, pipelines>>
  <2>1. pipelines[f] \in Configs
    BY <1>2 DEF TypeOK
  <2> QED
    BY <2>1, <1>1, <1>2, FeedTypes DEF TypeOK
<1>3. CASE /\ pipelines[f] = None
           /\ Raises(m)
           /\ UNCHANGED chains
  BY <1>3 DEF TypeOK, Raises, chains
<1>4. CASE /\ c \notin Unbuildable
           /\ built' = [built EXCEPT ![f] = c]
           /\ pipelines' = Rebuilt(f, c)
           /\ Feed(m, f, c, c, Empty, TRUE)
  <2>1. /\ fed' \in [Fibers -> [Sections -> Seq(Messages)]]
        /\ uneven' \subseteq Fibers
        /\ retried' \subseteq Fibers
        /\ task' \in [Messages -> {"none", "undecodable", "waiting", "backoff", "committing",
                                   "processed", "dead"}]
    BY <1>1, <1>4, FeedTypes
  <2> QED
    BY <1>4, <2>1 DEF TypeOK, Rebuilt
<1>5. CASE /\ built' = [built EXCEPT ![f] = c]
           /\ Raises(m)
           /\ UNCHANGED <<pipelines, fed, uneven, retried>>
  BY <1>5 DEF TypeOK, Raises
<1> QED
  BY <1>2, <1>3, <1>4, <1>5 DEF Process

\* What one attempt can do, whichever way the fiber is looked up.
LEMMA TransformCases ==
    ASSUME TypeOK, NEW m \in Messages, Transform(m)
    PROVE  /\ attempts' = [attempts EXCEPT ![m] = @ + 1]
           /\ UNCHANGED <<file, edits, params, published, bootstrap>>
           /\ loaded' \in Configs
           /\ consumed' \in 0..Skip
           /\ \/ (Returns(m, "committing") \/ Raises(m)) /\ UNCHANGED chains
              \/ \E c \in Configs : Process(m, FiberOf[m], c)
<1>1. Loadable \in Configs /\ MayReload \subseteq Configs
  BY DEF Loadable, MayReload, TypeOK
<1> QED
  BY <1>1, ProcessorAssumption DEF Transform, config, TypeOK

LEMMA TransformTypes ==
    ASSUME TypeOK, NEW m \in Messages, Transform(m), attempts[m] < MaxAttempts, UNCHANGED queue
    PROVE  TypeOK'
<1> USE ProcessorAssumption
<1>1. attempts' \in [Messages -> 0..MaxAttempts]
  BY TransformCases DEF TypeOK
<1>2. FiberOf[m] \in Fibers
  OBVIOUS
<1>3. CASE (Returns(m, "committing") \/ Raises(m)) /\ UNCHANGED chains
  BY <1>1, <1>3, TransformCases DEF TypeOK, Returns, Raises, chains, queue
<1>4. ASSUME NEW c \in Configs, Process(m, FiberOf[m], c)
      PROVE  TypeOK'
  <2>1. /\ fed' \in [Fibers -> [Sections -> Seq(Messages)]]
        /\ uneven' \subseteq Fibers
        /\ retried' \subseteq Fibers
        /\ task' \in [Messages -> {"none", "undecodable", "waiting", "backoff", "committing",
                                   "processed", "dead"}]
        /\ built' \in [Fibers -> Configs \cup {None}]
        /\ pipelines' \in [Fibers -> (Configs \ Unbuildable) \cup {None}]
    BY <1>1, <1>2, <1>4, ProcessTypes
  <2> QED
    BY <1>1, <2>1, TransformCases DEF TypeOK, queue
<1> QED
  BY <1>3, <1>4, TransformCases

\* A message that waits was not attempted, one that backs off may be once more.
AttemptsLeft ==
    \A m \in Messages :
        /\ task[m] \in {"none", "waiting"} => attempts[m] = 0
        /\ task[m] = "backoff" => attempts[m] \in 1..(MaxAttempts - 1)

TypeInv ==
    /\ TypeOK
    /\ AttemptsLeft
    /\ \A m \in batch : task[m] = "none" /\ m < position
    /\ \A m \in Messages : m >= position => task[m] = "none"

LEMMA TransformAttempts ==
    ASSUME TypeInv, TypeOK', NEW m \in Messages, Transform(m),
           task[m] \in {"waiting", "backoff"}, UNCHANGED queue
    PROVE  TypeInv'
<1>1. attempts' = [attempts EXCEPT ![m] = @ + 1]
  BY TransformCases DEF TypeInv
<1>2. \/ task' = [task EXCEPT ![m] = "committing"]
      \/ task' = [task EXCEPT ![m] = IF attempts'[m] < MaxAttempts THEN "backoff" ELSE "dead"]
  BY TransformCases DEF TypeInv, Process, Feed, Returns, Raises
<1>3. task[m] = "waiting" => attempts[m] = 0
  BY DEF TypeInv, AttemptsLeft
<1>4. attempts[m] \in Nat /\ attempts'[m] = attempts[m] + 1 /\ MaxAttempts \in Nat
  BY <1>1, ProcessorAssumption DEF TypeInv, TypeOK
<1>5. AttemptsLeft'
  <2> SUFFICES ASSUME NEW n \in Messages
               PROVE  /\ task'[n] \in {"none", "waiting"} => attempts'[n] = 0
                      /\ task'[n] = "backoff" => attempts'[n] \in 1..(MaxAttempts - 1)
    BY DEF AttemptsLeft
  <2>1. CASE n = m
    BY <2>1, <1>2, <1>4 DEF TypeInv, TypeOK
  <2>2. CASE n # m
    BY <2>2, <1>1, <1>2 DEF TypeInv, TypeOK, AttemptsLeft
  <2> QED
    BY <2>1, <2>2
<1>6. \A n \in Messages : task'[n] = "none" => task[n] = "none"
  BY <1>2 DEF TypeInv, TypeOK
<1>7. \A n \in Messages : task[n] = "none" => task'[n] = "none"
  BY <1>2 DEF TypeInv, TypeOK
<1> QED
  BY <1>5, <1>6, <1>7 DEF TypeInv, TypeOK, queue

LEMMA TypeStep == TypeInv /\ [Next]_vars => TypeInv'
<1> SUFFICES ASSUME TypeInv, [Next]_vars PROVE TypeInv'
  OBVIOUS
<1> USE ProcessorAssumption
<1>a. Loadable \in Configs /\ MayReload \subseteq Configs
  BY DEF Loadable, MayReload, TypeInv, TypeOK
<1>1. CASE PollBatch
  <2>0. PICK last \in position..NumMessages :
            /\ \E bad \in SUBSET (position..last) :
                  /\ batch' = (position..last) \ bad
                  /\ task' = [m \in Messages |-> IF m \in bad THEN "undecodable" ELSE task[m]]
            /\ position' = last + 1
    BY <1>1 DEF PollBatch
  <2>1. PICK bad \in SUBSET (position..last) :
            /\ batch' = (position..last) \ bad
            /\ task' = [m \in Messages |-> IF m \in bad THEN "undecodable" ELSE task[m]]
    BY <2>0
  <2>2. TypeOK'
    BY <1>1, <2>0, <2>1 DEF PollBatch, TypeInv, TypeOK, Messages, config, chains
  <2>3. AttemptsLeft'
    BY <1>1, <2>1 DEF PollBatch, TypeInv, AttemptsLeft
  <2>a. position \in Nat /\ position >= 1 /\ last \in Int /\ NumMessages \in Nat
        /\ last <= NumMessages /\ position <= last
    <3>1. position \in 1..(NumMessages + 1)
      BY DEF TypeInv, TypeOK
    <3>2. NumMessages \in Nat
      BY ProcessorAssumption
    <3>3. last \in position..NumMessages
      BY <2>0
    <3> HIDE ProcessorAssumption
    <3> QED
      BY <3>1, <3>2, <3>3
  <2>b. \A m \in Messages : m >= position => task[m] = "none"
    BY DEF TypeInv
  <2>4. \A m \in batch' : task'[m] = "none" /\ m < position'
    <3> SUFFICES ASSUME NEW m \in batch' PROVE task'[m] = "none" /\ m < position'
      OBVIOUS
    <3>1. m \in position..last /\ m \notin bad
      BY <2>1
    <3>2. m \in Messages /\ m >= position /\ m < position'
      BY <3>1, <2>a, <2>0 DEF Messages
    <3> QED
      BY <3>1, <3>2, <2>1, <2>b
  <2>5. \A m \in Messages : m >= position' => task'[m] = "none"
    <3> SUFFICES ASSUME NEW m \in Messages, m >= position' PROVE task'[m] = "none"
      OBVIOUS
    <3>1. m \notin position..last /\ m >= position
      BY <2>a, <2>0 DEF Messages
    <3> QED
      BY <3>1, <2>1, <2>b
  <2> QED
    BY <2>2, <2>3, <2>4, <2>5 DEF TypeInv
<1>2. CASE DispatchBatch
  <2>1. /\ task' = [m \in Messages |-> IF m \in batch THEN "waiting" ELSE task[m]]
        /\ batch' = {}
        /\ poller' = "polling"
        /\ UNCHANGED <<position, attempts, consumed, config, chains>>
    BY <1>2 DEF DispatchBatch
  <2>2. TypeOK'
    BY <2>1 DEF TypeInv, TypeOK, config, chains
  <2>3. AttemptsLeft'
    BY <2>1 DEF TypeInv, AttemptsLeft
  <2>4. \A m \in Messages : m >= position => m \notin batch
    BY DEF TypeInv, TypeOK, Messages
  <2> QED
    BY <2>1, <2>2, <2>3, <2>4 DEF TypeInv
<1>3. ASSUME NEW m \in Messages, TakePermit(m) \/ Retry(m) PROVE TypeInv'
  <2>1. /\ task[m] \in {"waiting", "backoff"}
        /\ Transform(m)
        /\ UNCHANGED queue
    BY <1>3 DEF TakePermit, Retry
  <2>2. attempts[m] < MaxAttempts
    BY <2>1 DEF TypeInv, AttemptsLeft
  <2>3. TypeOK'
    BY <2>1, <2>2, TransformTypes DEF TypeInv
  <2> QED
    BY <2>1, <2>3, TransformAttempts
<1>4. ASSUME NEW m \in Messages, GiveUp(m) \/ Commit(m) PROVE TypeInv'
  BY <1>4 DEF GiveUp, Commit, Returns, TypeInv, TypeOK, AttemptsLeft, queue, config, chains
<1>5. CASE BootstrapEnds
  BY <1>5, <1>a DEF BootstrapEnds, TypeInv, TypeOK, AttemptsLeft, queue, chains
<1>6. CASE BootstrapFails
  BY <1>6 DEF BootstrapFails, TypeInv, TypeOK, AttemptsLeft, queue, chains
<1>7. ASSUME NEW found \in SUBSET published, ReadParams(found) PROVE TypeInv'
  BY <1>7, <1>a DEF ReadParams, TypeInv, TypeOK, AttemptsLeft, queue, chains
<1>8. ASSUME NEW f \in Fibers, Publish(f) PROVE TypeInv'
  BY <1>8 DEF Publish, TypeInv, TypeOK, AttemptsLeft, queue, chains
<1>9. ASSUME NEW c \in Configs \cup {None}, EditFile(c) PROVE TypeInv'
  BY <1>9 DEF EditFile, TypeInv, TypeOK, AttemptsLeft, queue, chains
<1>10. CASE UNCHANGED vars
  BY <1>10 DEF vars, TypeInv, TypeOK, AttemptsLeft, queue, config, chains
<1> QED
  BY <1>1, <1>2, <1>3, <1>4, <1>5, <1>6, <1>7, <1>8, <1>9, <1>10 DEF Next

LEMMA TypeInvariant == Spec => []TypeInv
<1>1. Init => TypeInv
  BY ProcessorAssumption DEF Init, TypeInv, TypeOK, AttemptsLeft, Messages
<1> QED
  BY <1>1, TypeStep, PTL DEF Spec

\* The processor's parts are well-typed in every reachable state.
THEOREM ProcessorTypeCorrect == Spec => []TypeOK
<1>1. TypeInv => TypeOK
  BY DEF TypeInv
<1> QED
  BY <1>1, TypeInvariant, PTL

-----------------------------------------------------------------------------
(* Order and pipelines.  The messages are attempted first in the order of the *)
(* partition: what waits, and what the last poll brought, comes after         *)
(* everything a pipeline was given.                                           *)

FirstInFirstOut ==
    /\ \A m, n \in Messages : task[n] = "waiting" /\ attempts[m] > 0 => m < n
    /\ \A n \in batch, m \in Messages : attempts[m] > 0 \/ task[m] = "waiting" => m < n

FedWasAttempted ==
    \A f \in Fibers, s \in Sections :
        \A i \in 1..Len(fed[f][s]) : attempts[fed[f][s][i]] > 0

StepInv ==
    /\ TypeInv
    /\ FirstInFirstOut
    /\ FedWasAttempted
    /\ PipelinesMatchConfig
    /\ SectionsInStep

LEMMA AppendIncreasing ==
    ASSUME NEW q \in Seq(Messages), NEW m \in Messages, Increasing(q),
           \A i \in 1..Len(q) : q[i] < m
    PROVE  Increasing(Append(q, m))
  BY DEF Increasing

\* The attempt gives m to the pipelines of its fiber.
LEMMA FeedInStep ==
    ASSUME StepInv, NEW m \in Messages, NEW f \in Fibers, NEW c \in Configs, NEW pipe \in Configs,
           NEW before \in [Sections -> Seq(Messages)], NEW rebuilt \in BOOLEAN,
           Feed(m, f, c, pipe, before, rebuilt),
           rebuilt \/ before = fed[f], rebuilt => before = Empty /\ pipe = c,
           attempts' = [attempts EXCEPT ![m] = @ + 1],
           task[m] = "waiting" \/ attempts[m] > 0,
           pipelines' = [pipelines EXCEPT ![f] = pipe], built' = [built EXCEPT ![f] = c],
           ~rebuilt => UNCHANGED <<pipelines, built>>
    PROVE  /\ FedWasAttempted'
           /\ SectionsInStep'
<1> USE ProcessorAssumption
<1> DEFINE sections == Reached(f, c) \cap SectionsOf[pipe]
<1>0. TypeOK /\ attempts \in [Messages -> Nat]
  BY DEF StepInv, TypeInv, TypeOK
<1>1. PICK given \in SUBSET sections, halfway \in BOOLEAN :
          /\ fed' = [fed EXCEPT ![f] = [s \in Sections |->
                        IF s \in given THEN Append(before[s], m) ELSE before[s]]]
          /\ uneven' = IF halfway \/ given \notin {{}, sections} THEN uneven \cup {f}
                       ELSE IF rebuilt THEN uneven \ {f} ELSE uneven
          /\ retried' = IF rebuilt THEN retried \ {f}
                        ELSE IF attempts'[m] > 1 THEN retried \cup {f} ELSE retried
  BY DEF Feed
<1>2. \A s \in Sections : \A i \in 1..Len(before[s]) : attempts[before[s][i]] > 0
  <2>1. CASE rebuilt
    BY <2>1 DEF Empty
  <2>2. CASE ~rebuilt
    BY <2>2 DEF StepInv, FedWasAttempted
  <2> QED
    BY <2>1, <2>2
<1>3. FedWasAttempted'
  <2> SUFFICES ASSUME NEW h \in Fibers, NEW s \in Sections, NEW i \in 1..Len(fed'[h][s])
               PROVE  attempts'[fed'[h][s][i]] > 0
    BY DEF FedWasAttempted
  <2>1. fed[h] \in [Sections -> Seq(Messages)] /\ before[s] \in Seq(Messages)
    BY <1>0 DEF TypeOK
  <2>2. CASE h # f
    <3>1. fed'[h][s] = fed[h][s] /\ fed[h][s] \in Seq(Messages)
      BY <1>0, <1>1, <2>1, <2>2 DEF TypeOK
    <3>2. attempts[fed[h][s][i]] > 0 /\ fed[h][s][i] \in Messages
      BY <3>1 DEF StepInv, FedWasAttempted
    <3> QED
      BY <3>1, <3>2, <1>0
  <2>3. CASE h = f
    <3>1. fed'[h][s] = IF s \in given THEN Append(before[s], m) ELSE before[s]
      BY <1>0, <1>1, <2>3 DEF TypeOK
    <3>2. fed'[h][s][i] = m \/ (i \in 1..Len(before[s]) /\ fed'[h][s][i] = before[s][i])
      <4>1. CASE s \in given
        <5>1. i \in 1..(Len(before[s]) + 1) /\ fed'[h][s] = Append(before[s], m)
          BY <4>1, <3>1, <2>1
        <5> QED
          BY <5>1, <2>1
      <4>2. CASE s \notin given
        BY <4>2, <3>1
      <4> QED
        BY <4>1, <4>2
    <3>3. CASE fed'[h][s][i] = m
      BY <3>3, <1>0
    <3>4. CASE i \in 1..Len(before[s]) /\ fed'[h][s][i] = before[s][i]
      <4>1. attempts[before[s][i]] > 0 /\ before[s][i] \in Messages
        BY <3>4, <2>1, <1>2
      <4> QED
        BY <4>1, <3>4, <1>0
    <3> QED
      BY <3>2, <3>3, <3>4
  <2> QED
    BY <2>2, <2>3
<1> DEFINE reached(h) == Reached(h, built'[h])
           lists(h) == SectionsOf[built'[h]]
<1>4. ASSUME NEW h \in Fibers, pipelines'[h] # None, pipelines'[h] = built'[h], h # f
      PROVE  /\ h \notin uneven' => \A s, t \in reached(h) : fed'[h][s] = fed'[h][t]
             /\ h \notin retried' => \A s \in reached(h) : Increasing(fed'[h][s])
             /\ \A s \in lists(h) \ reached(h) : fed'[h][s] = <<>>
  <2>1. /\ fed'[h] = fed[h] /\ pipelines'[h] = pipelines[h] /\ built'[h] = built[h]
        /\ h \in uneven => h \in uneven'
        /\ h \in retried => h \in retried'
    BY <1>0, <1>1, <1>4 DEF TypeOK
  <2> QED
    BY <1>4, <2>1 DEF StepInv, SectionsInStep
<1>5. ASSUME pipelines'[f] # None, pipelines'[f] = built'[f]
      PROVE  /\ f \notin uneven' => \A s, t \in reached(f) : fed'[f][s] = fed'[f][t]
             /\ f \notin retried' => \A s \in reached(f) : Increasing(fed'[f][s])
             /\ \A s \in lists(f) \ reached(f) : fed'[f][s] = <<>>
  <2>1. /\ pipe = c /\ built'[f] = c
        /\ sections = Reached(f, c)
        /\ Reached(f, c) \subseteq SectionsOf[c]
        /\ SectionsOf[c] \subseteq Sections
    BY <1>5, <1>0 DEF TypeOK, Reached, Sections
  <2>2. \A s \in Sections : fed'[f][s] = IF s \in given THEN Append(before[s], m) ELSE before[s]
    BY <1>0, <1>1 DEF TypeOK
  <2>3. ~rebuilt => pipelines[f] = c /\ built[f] = c /\ c # None
    BY <1>5, <2>1, <1>0 DEF TypeOK
  <2>4. \A s \in SectionsOf[c] \ Reached(f, c) : fed'[f][s] = <<>>
    <3> SUFFICES ASSUME NEW s \in SectionsOf[c] \ Reached(f, c) PROVE fed'[f][s] = <<>>
      OBVIOUS
    <3>1. s \in Sections /\ s \notin given
      BY <2>1
    <3>2. before[s] = <<>>
      <4>1. CASE rebuilt
        BY <4>1, <3>1 DEF Empty
      <4>2. CASE ~rebuilt
        BY <4>2, <2>3 DEF StepInv, SectionsInStep
      <4> QED
        BY <4>1, <4>2
    <3> QED
      BY <3>1, <3>2, <2>2
  <2>5. ASSUME f \notin uneven', NEW s \in Reached(f, c), NEW t \in Reached(f, c)
        PROVE  fed'[f][s] = fed'[f][t]
    <3>0. s \in Sections /\ t \in Sections
      BY <2>1
    <3>1. given = {} \/ given = sections
      BY <1>1, <2>5
    <3>2. before[s] = before[t]
      <4>1. CASE rebuilt
        BY <4>1, <3>0 DEF Empty
      <4>2. CASE ~rebuilt
        <5>1. f \notin uneven
          BY <4>2, <2>5, <1>1
        <5> QED
          BY <5>1, <4>2, <2>3 DEF StepInv, SectionsInStep
      <4> QED
        BY <4>1, <4>2
    <3> QED
      BY <3>0, <3>1, <3>2, <2>1, <2>2
  <2>6. ASSUME f \notin retried', NEW s \in Reached(f, c) PROVE Increasing(fed'[f][s])
    <3>0. s \in Sections /\ before[s] \in Seq(Messages)
      BY <2>1
    <3>1. CASE rebuilt
      <4>1. before[s] = <<>>
        BY <3>1, <3>0 DEF Empty
      <4>2. Increasing(before[s]) /\ Increasing(Append(before[s], m))
        BY <4>1 DEF Increasing
      <4> QED
        BY <4>2, <2>2, <3>0
    <3>2. CASE ~rebuilt
      <4>1. f \notin retried /\ ~(attempts'[m] > 1)
        BY <3>2, <2>6, <1>1
      <4>2. attempts[m] = 0 /\ task[m] = "waiting"
        BY <4>1, <1>0
      <4>3. Increasing(before[s])
        BY <4>1, <3>2, <2>3 DEF StepInv, SectionsInStep
      <4>4. \A i \in 1..Len(before[s]) : before[s][i] < m
        <5> SUFFICES ASSUME NEW i \in 1..Len(before[s]) PROVE before[s][i] < m
          OBVIOUS
        <5>1. before[s][i] \in Messages /\ attempts[before[s][i]] > 0
          BY <3>0, <1>2
        <5> QED
          BY <5>1, <4>2 DEF StepInv, FirstInFirstOut
      <4>5. Increasing(Append(before[s], m))
        BY <3>0, <4>3, <4>4, AppendIncreasing
      <4> QED
        BY <4>3, <4>5, <2>2, <3>0
    <3> QED
      BY <3>1, <3>2
  <2> QED
    BY <2>1, <2>4, <2>5, <2>6
<1>6. SectionsInStep'
  <2> SUFFICES ASSUME NEW h \in Fibers, pipelines'[h] # None, pipelines'[h] = built'[h]
               PROVE  /\ h \notin uneven' => \A s, t \in reached(h) : fed'[h][s] = fed'[h][t]
                      /\ h \notin retried' => \A s \in reached(h) : Increasing(fed'[h][s])
                      /\ \A s \in lists(h) \ reached(h) : fed'[h][s] = <<>>
    BY DEF SectionsInStep, Reached, Increasing
  <2>1. CASE h = f
    BY <1>5, <2>1
  <2>2. CASE h # f
    BY <1>4, <2>2
  <2> QED
    BY <2>1, <2>2
<1> QED
  BY <1>3, <1>6

\* An attempt that gives m to no pipeline, and builds none.
LEMMA UnfedInStep ==
    ASSUME StepInv, NEW m \in Messages,
           attempts' = [attempts EXCEPT ![m] = @ + 1],
           UNCHANGED <<pipelines, fed, uneven, retried>>,
           NEW f \in Fibers,
           built' = built \/ (\E c \in Unbuildable : built' = [built EXCEPT ![f] = c])
    PROVE  FedWasAttempted' /\ SectionsInStep' /\ PipelinesMatchConfig'
<1>0. TypeOK /\ attempts \in [Messages -> Nat]
  BY ProcessorAssumption DEF StepInv, TypeInv, TypeOK
<1>1. FedWasAttempted'
  <2> SUFFICES ASSUME NEW h \in Fibers, NEW s \in Sections, NEW i \in 1..Len(fed[h][s])
               PROVE  attempts'[fed[h][s][i]] > 0
    BY DEF FedWasAttempted
  <2>1. fed[h][s] \in Seq(Messages)
    BY <1>0 DEF TypeOK
  <2>2. fed[h][s][i] \in Messages /\ attempts[fed[h][s][i]] > 0
    BY <2>1 DEF StepInv, FedWasAttempted
  <2> QED
    BY <2>2, <1>0
<1>2. SectionsInStep'
  <2> SUFFICES ASSUME NEW h \in Fibers, pipelines[h] # None, pipelines[h] = built'[h]
               PROVE  built'[h] = built[h]
    BY DEF StepInv, SectionsInStep, Increasing
  <2> QED
    BY <1>0, ProcessorAssumption DEF TypeOK
<1>3. PipelinesMatchConfig'
  BY <1>0 DEF StepInv, PipelinesMatchConfig, TypeOK
<1> QED
  BY <1>1, <1>2, <1>3

LEMMA ProcessInStep ==
    ASSUME StepInv, NEW m \in Messages, NEW f \in Fibers, NEW c \in Configs, Process(m, f, c),
           attempts' = [attempts EXCEPT ![m] = @ + 1],
           task[m] = "waiting" \/ attempts[m] > 0
    PROVE  FedWasAttempted' /\ SectionsInStep' /\ PipelinesMatchConfig'
<1> USE ProcessorAssumption
<1>0. TypeOK
  BY DEF StepInv, TypeInv
<1>1. CASE /\ ~NeedsBuild(f, c)
           /\ pipelines[f] # None
           /\ Feed(m, f, c, pipelines[f], fed[f], FALSE)
           /\ UNCHANGED <<built, pipelines>>
  <2>1. /\ pipelines[f] \in Configs
        /\ fed[f] \in [Sections -> Seq(Messages)]
        /\ pipelines' = [pipelines EXCEPT ![f] = pipelines[f]]
        /\ built' = [built EXCEPT ![f] = c]
    BY <1>0, <1>1 DEF TypeOK, NeedsBuild
  <2>2. FedWasAttempted' /\ SectionsInStep'
    BY <1>1, <2>1, FeedInStep
  <2> QED
    BY <2>2, <1>1 DEF StepInv, PipelinesMatchConfig
<1>2. CASE Raises(m) /\ UNCHANGED chains
  BY <1>2, UnfedInStep DEF chains
<1>3. CASE /\ c \notin Unbuildable
           /\ built' = [built EXCEPT ![f] = c]
           /\ pipelines' = Rebuilt(f, c)
           /\ Feed(m, f, c, c, Empty, TRUE)
  <2>1. Empty \in [Sections -> Seq(Messages)] /\ pipelines' = [pipelines EXCEPT ![f] = c]
    BY <1>3 DEF Empty, Rebuilt
  <2>2. FedWasAttempted' /\ SectionsInStep'
    BY <1>3, <2>1, FeedInStep
  <2>3. PipelinesMatchConfig'
    BY <1>0, <1>3, <2>1 DEF StepInv, PipelinesMatchConfig, TypeOK
  <2> QED
    BY <2>2, <2>3
<1>4. CASE /\ c \in Unbuildable
           /\ built' = [built EXCEPT ![f] = c]
           /\ Raises(m)
           /\ UNCHANGED <<pipelines, fed, uneven, retried>>
  BY <1>4, UnfedInStep
<1> QED
  BY <1>1, <1>2, <1>3, <1>4 DEF Process

\* Steps that attempt nothing and touch no pipeline.
LEMMA ChainsUnchanged ==
    ASSUME StepInv, UNCHANGED <<attempts, chains>>
    PROVE  FedWasAttempted' /\ SectionsInStep' /\ PipelinesMatchConfig'
<1>1. FedWasAttempted'
  BY DEF StepInv, FedWasAttempted, chains
<1>2. SectionsInStep'
  BY DEF StepInv, SectionsInStep, chains, Increasing
<1>3. PipelinesMatchConfig'
  BY DEF StepInv, PipelinesMatchConfig, chains
<1> QED
  BY <1>1, <1>2, <1>3

LEMMA StepStep == StepInv /\ TypeInv' /\ [Next]_vars => StepInv'
<1> SUFFICES ASSUME StepInv, TypeInv', [Next]_vars PROVE StepInv'
  OBVIOUS
<1> USE ProcessorAssumption
<1>0. TypeOK /\ TypeInv
  BY DEF StepInv, TypeInv
<1>1. CASE PollBatch
  <2>0. PICK last \in position..NumMessages :
            \E bad \in SUBSET (position..last) :
               /\ batch' = (position..last) \ bad
               /\ task' = [m \in Messages |-> IF m \in bad THEN "undecodable" ELSE task[m]]
    BY <1>1 DEF PollBatch
  <2>1. UNCHANGED <<attempts, chains>>
    BY <1>1 DEF PollBatch
  <2>2. \A m \in Messages : attempts[m] > 0 \/ task'[m] = "waiting" => m < position
    BY <2>0, <1>0 DEF TypeInv, TypeOK, AttemptsLeft, Messages
  <2>3. \A n \in batch' : n >= position
    BY <2>0, <1>0 DEF TypeOK
  <2>4. \A n \in batch' : n \in Messages
    BY DEF TypeInv, TypeOK
  <2>5. \A m, n \in Messages : task'[n] = "waiting" /\ attempts[m] > 0 => m < n
    BY <2>0 DEF StepInv, FirstInFirstOut
  <2>6. \A n \in batch', m \in Messages : attempts[m] > 0 \/ task'[m] = "waiting" => m < n
    BY <2>2, <2>3, <2>4, <1>0 DEF TypeOK, Messages
  <2> QED
    BY <2>1, <2>5, <2>6, ChainsUnchanged DEF StepInv, FirstInFirstOut
<1>2. CASE DispatchBatch
  <2>1. UNCHANGED <<attempts, chains>>
    BY <1>2 DEF DispatchBatch
  <2>2. FirstInFirstOut'
    BY <1>2, <1>0 DEF DispatchBatch, StepInv, FirstInFirstOut, Waiting, TypeOK
  <2> QED
    BY <2>1, <2>2, ChainsUnchanged DEF StepInv
<1>3. ASSUME NEW m \in Messages, TakePermit(m) \/ Retry(m) PROVE StepInv'
  <2>1. Transform(m) /\ UNCHANGED queue
    BY <1>3 DEF TakePermit, Retry
  <2>2. attempts' = [attempts EXCEPT ![m] = @ + 1] /\ attempts \in [Messages -> Nat]
    BY <2>1, <1>0, TransformCases DEF TypeOK
  <2>3. \/ task[m] = "waiting" /\ \A n \in Waiting : m <= n
        \/ task[m] = "backoff"
    BY <1>3 DEF TakePermit, Retry
  <2>4. \/ task' = [task EXCEPT ![m] = "committing"]
        \/ task' = [task EXCEPT ![m] = IF attempts'[m] < MaxAttempts THEN "backoff" ELSE "dead"]
    BY <1>0, <2>1, TransformCases DEF Process, Feed, Returns, Raises
  <2>5. FirstInFirstOut'
    <3>1. task'[m] # "waiting" /\ \A n \in Messages \ {m} : task'[n] = task[n]
      BY <2>4, <1>0 DEF TypeOK
    <3>2. \A k \in Messages : attempts'[k] > 0 => attempts[k] > 0 \/ k = m
      BY <2>2
    <3>3. batch' = batch
      BY <2>1 DEF queue
    <3>4. task[m] = "waiting" \/ attempts[m] > 0
      BY <2>3, <1>0 DEF TypeInv, AttemptsLeft
    <3>5. \A k, n \in Messages : task'[n] = "waiting" /\ attempts'[k] > 0 => k < n
      <4> SUFFICES ASSUME NEW k \in Messages, NEW n \in Messages,
                          task'[n] = "waiting", attempts'[k] > 0
                   PROVE  k < n
        OBVIOUS
      <4>1. n # m /\ task[n] = "waiting"
        BY <3>1
      <4>2. CASE attempts[k] > 0
        BY <4>1, <4>2 DEF StepInv, FirstInFirstOut
      <4>3. CASE k = m /\ ~(attempts[k] > 0)
        <5>1. m <= n
          BY <4>1, <4>3, <3>4, <2>3, <1>0 DEF Waiting, TypeInv, AttemptsLeft
        <5> QED
          BY <5>1, <4>1, <4>3 DEF Messages
      <4> QED
        BY <4>2, <4>3, <3>2
    <3>6. \A n \in batch', k \in Messages : attempts'[k] > 0 \/ task'[k] = "waiting" => k < n
      BY <3>1, <3>2, <3>3, <3>4 DEF StepInv, FirstInFirstOut
    <3> QED
      BY <3>5, <3>6 DEF FirstInFirstOut
  <2>6. FedWasAttempted' /\ SectionsInStep' /\ PipelinesMatchConfig'
    <3>1. FiberOf[m] \in Fibers
      OBVIOUS
    <3>2. task[m] = "waiting" \/ attempts[m] > 0
      BY <2>3, <1>0 DEF TypeInv, AttemptsLeft
    <3>3. CASE UNCHANGED chains
      BY <3>1, <3>3, <2>2, UnfedInStep DEF chains
    <3>4. ASSUME NEW c \in Configs, Process(m, FiberOf[m], c)
          PROVE  FedWasAttempted' /\ SectionsInStep' /\ PipelinesMatchConfig'
      BY <3>1, <3>2, <3>4, <2>2, ProcessInStep
    <3> QED
      BY <3>3, <3>4, <2>1, <1>0, TransformCases
  <2> QED
    BY <2>5, <2>6 DEF StepInv
<1>4. ASSUME NEW m \in Messages, GiveUp(m) \/ Commit(m) PROVE StepInv'
  <2>1. /\ UNCHANGED <<attempts, chains, batch>>
        /\ \A n \in Messages : task'[n] = "waiting" => task[n] = "waiting"
    BY <1>4, <1>0 DEF GiveUp, Commit, Returns, queue, TypeOK
  <2>2. FirstInFirstOut'
    BY <2>1 DEF StepInv, FirstInFirstOut
  <2> QED
    BY <2>1, <2>2, ChainsUnchanged DEF StepInv
<1>5. CASE UNCHANGED <<queue, task, attempts, chains>>
  <2>1. FirstInFirstOut'
    BY <1>5 DEF StepInv, FirstInFirstOut, queue
  <2> QED
    BY <1>5, <2>1, ChainsUnchanged DEF StepInv
<1>6. CASE \/ BootstrapEnds \/ BootstrapFails
           \/ \E found \in SUBSET published : ReadParams(found)
           \/ \E f \in Fibers : Publish(f)
           \/ \E c \in Configs \cup {None} : EditFile(c)
  BY <1>5, <1>6 DEF BootstrapEnds, BootstrapFails, ReadParams, Publish, EditFile
<1>7. CASE UNCHANGED vars
  BY <1>5, <1>7 DEF vars
<1> QED
  BY <1>1, <1>2, <1>3, <1>4, <1>6, <1>7 DEF Next

LEMMA StepInvariant == Spec => []StepInv
<1>1. Init /\ TypeInv => StepInv
  BY ProcessorAssumption DEF Init, StepInv, FirstInFirstOut, FedWasAttempted,
         PipelinesMatchConfig, SectionsInStep
<1> QED
  BY <1>1, StepStep, TypeInvariant, PTL DEF Spec

\* Whatever is reloaded, retried or fails to build, a fiber's pipelines are of the
\* configuration its messages are read with, unless it cannot be built.
THEOREM PipelinesMatch == Spec => []PipelinesMatchConfig
<1>1. StepInv => PipelinesMatchConfig
  BY DEF StepInv
<1> QED
  BY <1>1, StepInvariant, PTL

\* The pipelines of the sections that the instrument's channels reach were given the
\* same messages unless an attempt ended inside them, in order unless a message was
\* retried, and the sections beyond the channels none.
THEOREM SectionsStay == Spec => []SectionsInStep
<1>1. StepInv => SectionsInStep
  BY DEF StepInv
<1> QED
  BY <1>1, StepInvariant, PTL

\* A set of naturals has a least element: the intervals up to its elements are finite
\* sets, which strict inclusion orders well.
LEMMA LeastNatural ==
    ASSUME NEW T \in SUBSET Nat, T # {}
    PROVE  \E x \in T : \A y \in T : x <= y
<1> DEFINE U == {1..n : n \in T}
<1>1. U \subseteq FiniteSubsetsOf(Nat) /\ U # {}
  <2>1. \A n \in T : 1..n \in SUBSET Nat /\ IsFiniteSet(1..n)
    BY FS_Interval
  <2> QED
    BY <2>1 DEF FiniteSubsetsOf
<1> HIDE DEF U
<1>2. PICK A \in U : \A B \in U : <<B, A>> \notin StrictSubsetOrdering(Nat)
  BY <1>1, WFMin, FS_StrictSubsetOrderingWellFounded
<1>3. PICK x \in T : A = 1..x
  BY <1>2 DEF U
<1>4. ASSUME NEW y \in T, y < x PROVE FALSE
  <2>1. 1..y \subseteq 1..x /\ 1..y # 1..x
    <3>1. x \in 1..x /\ x \notin 1..y
      BY <1>4
    <3> QED
      BY <1>4, <3>1
  <2>2. 1..y \in U /\ 1..y \in SUBSET Nat /\ 1..x \in SUBSET Nat
    BY DEF U
  <2> QED
    BY <1>2, <1>3, <2>1, <2>2 DEF StrictSubsetOrdering
<1> QED
  BY <1>4

\* Increasing compares neighbours; then any two messages are in order.
LEMMA IncreasingIsOrdered ==
    ASSUME NEW q \in Seq(Messages), Increasing(q), NEW i \in 1..Len(q), NEW j \in 1..Len(q), i < j
    PROVE  q[i] < q[j]
<1> DEFINE T == {k \in 1..Len(q) : i < k /\ ~(q[i] < q[k])}
<1>1. Len(q) \in Nat /\ \A k \in 1..Len(q) : q[k] \in Nat
  BY ProcessorAssumption DEF Messages
<1>2. ASSUME T # {} PROVE FALSE
  <2>1. T \in SUBSET Nat
    BY <1>1
  <2>2. PICK k \in T : \A n \in T : k <= n
    <3> HIDE DEF T
    <3> QED
      BY <1>2, <2>1, LeastNatural
  <2>3. k - 1 \in 1..(Len(q) - 1) /\ q[k - 1] < q[k]
    BY <1>1, <2>2 DEF Increasing
  <2>4. CASE k - 1 = i
    BY <2>2, <2>3, <2>4
  <2>5. CASE i < k - 1
    <3>1. q[i] < q[k - 1]
      BY <1>1, <2>2, <2>3, <2>5
    <3> QED
      BY <1>1, <2>2, <2>3, <3>1
  <2> QED
    BY <1>1, <2>2, <2>4, <2>5
<1> QED
  BY <1>2

\* What the pipelines of a fiber were given, in order and without repetition.
FedOnce ==
    \A f \in Fibers :
        pipelines[f] # None /\ pipelines[f] = built[f] /\ f \notin retried =>
            \A s \in Reached(f, built[f]) : \A i, j \in 1..Len(fed[f][s]) :
                i < j => fed[f][s][i] < fed[f][s][j]

\* The whole history of a filter: until a retry, the pipelines of a fiber were given
\* its messages each at most once and in the order of the partition, though up to
\* MaxConcurrent of them are under way and rebuilds come in between.
THEOREM FedOnceInOrder == Spec => []FedOnce
<1>1. ASSUME StepInv, NEW f \in Fibers, pipelines[f] # None, pipelines[f] = built[f], f \notin retried,
             NEW s \in Reached(f, built[f]), NEW i \in 1..Len(fed[f][s]), NEW j \in 1..Len(fed[f][s]),
             i < j
      PROVE  fed[f][s][i] < fed[f][s][j]
  <2>1. built[f] \in Configs /\ s \in Sections
    BY <1>1, ProcessorAssumption DEF StepInv, TypeInv, TypeOK, Sections, Reached
  <2>2. fed[f][s] \in Seq(Messages)
    BY <1>1, <2>1 DEF StepInv, TypeInv, TypeOK
  <2>3. Increasing(fed[f][s])
    BY <1>1 DEF StepInv, SectionsInStep
  <2> QED
    BY <1>1, <2>2, <2>3, IncreasingIsOrdered
<1>2. StepInv => FedOnce
  BY <1>1 DEF FedOnce
<1> QED
  BY <1>2, StepInvariant, PTL

-----------------------------------------------------------------------------
(* Back-pressure *)

BatchBounded ==
    /\ WaitingBounded
    /\ Cardinality(batch) <= BatchSize

LEMMA BatchStep == TypeInv /\ TypeInv' /\ BatchBounded /\ [Next]_vars => BatchBounded'
<1> SUFFICES ASSUME TypeInv, TypeInv', BatchBounded, [Next]_vars PROVE BatchBounded'
  OBVIOUS
<1> USE ProcessorAssumption
<1>0. /\ IsFiniteSet(Messages)
      /\ IsFiniteSet(Permits) /\ IsFiniteSet(Waiting) /\ IsFiniteSet(batch)
      /\ Cardinality(Permits) \in Nat
  <2>1. IsFiniteSet(Messages)
    BY FS_Interval DEF Messages
  <2>2. Permits \subseteq Messages /\ Waiting \subseteq Messages /\ batch \subseteq Messages
    BY DEF Permits, Waiting, TypeInv, TypeOK
  <2> QED
    BY <2>1, <2>2, FS_Subset, FS_CardinalityType
<1>1. CASE PollBatch
  <2>1. PICK last \in position..NumMessages :
            /\ last < position + BatchSize
            /\ \E bad \in SUBSET (position..last) :
                  /\ batch' = (position..last) \ bad
                  /\ task' = [m \in Messages |-> IF m \in bad THEN "undecodable" ELSE task[m]]
    BY <1>1 DEF PollBatch
  <2>2. position \in Int /\ last \in Int /\ position <= last
    BY <2>1 DEF TypeInv, TypeOK
  <2>3. IsFiniteSet(position..last) /\ Cardinality(position..last) = last - position + 1
    BY <2>2, FS_Interval
  <2>4. Cardinality(batch') <= BatchSize
    <3>1. batch' \subseteq position..last
      BY <2>1
    <3>2. Cardinality(batch') <= Cardinality(position..last) /\ Cardinality(batch') \in Nat
      BY <3>1, <2>3, FS_Subset, FS_CardinalityType
    <3> QED
      BY <3>2, <2>1, <2>2, <2>3
  <2>5. Permits' \subseteq Permits /\ Waiting' \subseteq Waiting
    BY <2>1 DEF Permits, Waiting
  <2>6. Cardinality(Permits') <= Cardinality(Permits) /\ Cardinality(Waiting') <= Cardinality(Waiting)
    BY <2>5, <1>0, FS_Subset
  <2>7. Cardinality(Permits') \in Nat /\ Cardinality(Waiting') \in Nat /\ Cardinality(Waiting) \in Nat
    BY <2>5, <1>0, FS_Subset, FS_CardinalityType
  <2> QED
    BY <2>4, <2>6, <2>7, <1>0 DEF BatchBounded, WaitingBounded
<1>2. CASE DispatchBatch
  <2>1. Waiting' = batch /\ batch' = {}
    BY <1>2 DEF DispatchBatch, Waiting, TypeInv, TypeOK
  <2>2. Permits' = Permits
    BY <1>2 DEF DispatchBatch, Permits, TypeInv
  <2> QED
    BY <2>1, <2>2, FS_EmptySet DEF BatchBounded, WaitingBounded
<1>3. ASSUME NEW m \in Messages, TakePermit(m) \/ Retry(m) \/ GiveUp(m) \/ Commit(m)
      PROVE  BatchBounded'
  <2>1. /\ batch' = batch
        /\ task'[m] # "waiting"
        /\ \A n \in Messages \ {m} : task'[n] = task[n]
        /\ task[m] = "waiting" => PermitFree
        /\ task[m] = "waiting" \/ m \in Permits
    <3>1. CASE GiveUp(m) \/ Commit(m)
      BY <3>1 DEF GiveUp, Commit, Returns, queue, TypeInv, TypeOK, Permits
    <3>2. CASE TakePermit(m) \/ Retry(m)
      <4>1. Transform(m) /\ UNCHANGED queue
        BY <3>2 DEF TakePermit, Retry
      <4>2. \/ task' = [task EXCEPT ![m] = "committing"]
            \/ task' = [task EXCEPT ![m] = IF attempts'[m] < MaxAttempts THEN "backoff" ELSE "dead"]
        BY <4>1, TransformCases DEF TypeInv, Process, Feed, Returns, Raises
      <4>3. task[m] = "waiting" => PermitFree
        BY <3>2 DEF TakePermit, Retry
      <4>4. task[m] = "waiting" \/ m \in Permits
        BY <3>2 DEF TakePermit, Retry, Permits
      <4> QED
        BY <4>1, <4>2, <4>3, <4>4 DEF queue, TypeInv, TypeOK
    <3> QED
      BY <1>3, <3>1, <3>2
  <2>2. Waiting' \subseteq Waiting
    BY <2>1 DEF Waiting
  <2>3. Cardinality(Waiting') <= Cardinality(Waiting)
        /\ Cardinality(Waiting') \in Nat /\ Cardinality(Waiting) \in Nat
    BY <2>2, <1>0, FS_Subset, FS_CardinalityType
  <2>4. Cardinality(Permits') <= MaxConcurrent
    <3>1. CASE m \in Permits
      <4>1. Permits' \subseteq Permits
        BY <2>1, <3>1 DEF Permits
      <4>2. Cardinality(Permits') <= Cardinality(Permits) /\ Cardinality(Permits') \in Nat
        BY <4>1, <1>0, FS_Subset, FS_CardinalityType
      <4> QED
        BY <4>2, <1>0 DEF BatchBounded, WaitingBounded
    <3>2. CASE m \notin Permits
      <4>1. PermitFree
        BY <3>2, <2>1
      <4>2. Permits' \subseteq Permits \cup {m}
        BY <2>1 DEF Permits
      <4>3. IsFiniteSet(Permits \cup {m}) /\ Cardinality(Permits \cup {m}) = Cardinality(Permits) + 1
        BY <3>2, <1>0, FS_AddElement
      <4>4. Cardinality(Permits') <= Cardinality(Permits \cup {m}) /\ Cardinality(Permits') \in Nat
        BY <4>2, <4>3, FS_Subset, FS_CardinalityType
      <4> QED
        BY <4>1, <4>3, <4>4, <1>0 DEF PermitFree
    <3> QED
      BY <3>1, <3>2
  <2> QED
    BY <2>1, <2>3, <2>4 DEF BatchBounded, WaitingBounded
<1>4. CASE UNCHANGED <<queue, task>>
  BY <1>4 DEF queue, BatchBounded, WaitingBounded, Permits, Waiting
<1>5. CASE \/ BootstrapEnds \/ BootstrapFails
           \/ \E found \in SUBSET published : ReadParams(found)
           \/ \E f \in Fibers : Publish(f)
           \/ \E c \in Configs \cup {None} : EditFile(c)
  BY <1>4, <1>5 DEF BootstrapEnds, BootstrapFails, ReadParams, Publish, EditFile
<1>6. CASE UNCHANGED vars
  BY <1>4, <1>6 DEF vars
<1> QED
  BY <1>1, <1>2, <1>3, <1>5, <1>6 DEF Next

\* At most a batch of messages waits for the semaphore, though a batch passes the
\* test as a whole.
THEOREM WaitingStaysBounded == Spec => []WaitingBounded
<1>1. Init => BatchBounded
  <2>1. ASSUME Init PROVE Permits = {} /\ Waiting = {} /\ batch = {}
    BY <2>1 DEF Init, Permits, Waiting
  <2> QED
    BY <2>1, FS_EmptySet, ProcessorAssumption DEF BatchBounded, WaitingBounded
<1>2. BatchBounded => WaitingBounded
  BY DEF BatchBounded
<1> QED
  BY <1>1, <1>2, BatchStep, TypeInvariant, PTL DEF Spec
=============================================================================
