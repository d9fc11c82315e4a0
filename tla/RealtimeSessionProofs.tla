------------------------ MODULE RealtimeSessionProofs ------------------------
(***************************************************************************)
(* What holds of a realtime session for any channels, any division of them *)
(* between Redis and the Channels layer, any rate limit and any number of  *)
(* messages under way.                                                     *)
(***************************************************************************)
EXTENDS RealtimeSession, SequenceTheorems, FiniteSetTheorems, WellFoundedInduction, TLAPS

-----------------------------------------------------------------------------
(* Messages *)

\* What the browser sends and what the consumer answers, field by field.
Requests ==
    {Msg("authenticate", none, none)} \cup {Msg("set_flow", none, f) : f \in Flows}
        \cup {Msg(k, c, none) : k \in {"subscribe", "unsubscribe"}, c \in Channels}
Answers ==
    {Msg(k, none, f) : k \in {"authenticated", "flow_changed"}, f \in Flows}
        \cup {Msg("error", none, none)} \cup {Msg("data", c, f) : c \in Channels, f \in Flows}

LEMMA RequestFields ==
    /\ \A m \in Requests :
         /\ m \in ToServer
         /\ m.kind = "set_flow" => m.flow \in Flows /\ m = Msg("set_flow", none, m.flow)
         /\ m.kind \in {"subscribe", "unsubscribe"} =>
                m.channel \in Channels /\ m = Msg(m.kind, m.channel, none)
    /\ Msg("authenticate", none, none) \in Requests
    /\ \A f \in Flows : Msg("set_flow", none, f) \in Requests
    /\ \A c \in Channels : Msg("subscribe", c, none) \in Requests
                           /\ Msg("unsubscribe", c, none) \in Requests
BY DEF Requests, ToServer, Msg

LEMMA AnswerFields ==
    /\ \A m \in Answers :
         /\ m \in ToClient
         /\ m.kind \in {"authenticated", "flow_changed"} =>
                m.flow \in Flows /\ m = Msg(m.kind, none, m.flow)
    /\ \A f \in Flows : Msg("authenticated", none, f) \in Answers
                        /\ Msg("flow_changed", none, f) \in Answers
    /\ Msg("error", none, none) \in Answers
    /\ \A c \in Channels, f \in Flows : Msg("data", c, f) \in Answers
<1>1. ASSUME NEW m \in Answers
      PROVE  /\ m \in ToClient
             /\ m.kind \in {"authenticated", "flow_changed"} =>
                    m.flow \in Flows /\ m = Msg(m.kind, none, m.flow)
  <2>1. ASSUME NEW k \in {"authenticated", "flow_changed"}, NEW f \in Flows, m = Msg(k, none, f)
        PROVE  m \in ToClient /\ m.flow = f /\ m.kind = k
    BY <2>1 DEF ToClient, Msg
  <2>2. ASSUME m = Msg("error", none, none) \/ \E c \in Channels, f \in Flows : m = Msg("data", c, f)
        PROVE  m \in ToClient /\ m.kind \notin {"authenticated", "flow_changed"}
    BY <2>2 DEF ToClient, Msg
  <2> QED
    BY <2>1, <2>2 DEF Answers
<1> QED
  BY <1>1 DEF Answers

\* A listing of a set of channels names each of them, and nothing else.
LEMMA ListingProperties ==
    ASSUME NEW S \in SUBSET Channels
    PROVE  /\ Cardinality(S) \in Nat
           /\ Listing(S) \in [1..Cardinality(S) -> S]
           /\ \A c \in S : \E i \in 1..Cardinality(S) : Listing(S)[i] = c
<1>1. IsFiniteSet(S)
  BY ChannelsAssumption, FS_Subset
<1>2. Cardinality(S) \in Nat /\ ExistsBijection(1..Cardinality(S), S)
  BY <1>1, FS_CardinalityType
<1>3. PICK s : s \in Bijection(1..Cardinality(S), S)
  BY <1>2 DEF ExistsBijection
<1>4. s \in [1..Cardinality(S) -> S] /\ \A c \in S : \E i \in DOMAIN s : s[i] = c
  BY <1>3 DEF Bijection, Surjection, Injection
<1>5. /\ Listing(S) \in [1..Cardinality(S) -> S]
      /\ \A c \in S : \E i \in DOMAIN Listing(S) : Listing(S)[i] = c
  BY <1>4 DEF Listing
<1> QED
  BY <1>2, <1>5

-----------------------------------------------------------------------------
(* Queues that decide *)

UnderWay(q) == {q[i] : i \in DOMAIN q}

LEMMA TailUnderWay ==
    ASSUME NEW S, NEW q \in Seq(S), q # <<>>
    PROVE  /\ Tail(q) \in Seq(S) /\ Head(q) \in S
           /\ UnderWay(q) = UnderWay(Tail(q)) \cup {Head(q)}
<1>1. /\ Len(q) \in Nat \ {0} /\ DOMAIN q = 1..Len(q)
      /\ Head(q) \in S /\ Tail(q) \in Seq(S)
      /\ DOMAIN Tail(q) = 1..(Len(q) - 1)
      /\ \A i \in 1..(Len(q) - 1) : Tail(q)[i] = q[i + 1]
      /\ Head(q) = q[1]
  BY HeadTailProperties, LenProperties, EmptySeq
<1>2. \A i \in 2..Len(q) : i - 1 \in DOMAIN Tail(q) /\ Tail(q)[i - 1] = q[i]
  BY <1>1
<1>3. UnderWay(q) \subseteq UnderWay(Tail(q)) \cup {Head(q)}
  <2> SUFFICES ASSUME NEW i \in DOMAIN q PROVE q[i] \in UnderWay(Tail(q)) \cup {Head(q)}
    BY DEF UnderWay
  <2>1. i = 1 \/ i \in 2..Len(q)
    BY <1>1
  <2> QED
    BY <1>1, <1>2, <2>1 DEF UnderWay
<1>4. UnderWay(Tail(q)) \cup {Head(q)} \subseteq UnderWay(q)
  BY <1>1 DEF UnderWay
<1> QED
  BY <1>1, <1>3, <1>4

LEMMA AppendUnderWay ==
    ASSUME NEW S, NEW q \in Seq(S), NEW e \in S
    PROVE  /\ Append(q, e) \in Seq(S)
           /\ UnderWay(Append(q, e)) = UnderWay(q) \cup {e}
<1>1. /\ Len(q) \in Nat /\ DOMAIN q = 1..Len(q)
      /\ Append(q, e) \in Seq(S) /\ Len(Append(q, e)) = Len(q) + 1
      /\ \A i \in 1..Len(q) : Append(q, e)[i] = q[i]
      /\ Append(q, e)[Len(q) + 1] = e
  BY AppendProperties, LenProperties
<1>2. DOMAIN Append(q, e) = 1..(Len(q) + 1)
  BY <1>1, LenProperties
<1> QED
  BY <1>1, <1>2 DEF UnderWay

LEMMA ConcatUnderWay ==
    ASSUME NEW S, NEW q \in Seq(S), NEW r \in Seq(S)
    PROVE  q \o r \in Seq(S) /\ UnderWay(q \o r) = UnderWay(q) \cup UnderWay(r)
<1>1. /\ q \o r \in Seq(S) /\ Len(q \o r) = Len(q) + Len(r)
      /\ \A i \in 1..(Len(q) + Len(r)) :
             (q \o r)[i] = IF i <= Len(q) THEN q[i] ELSE r[i - Len(q)]
  BY ConcatProperties
<1>2. /\ Len(q) \in Nat /\ DOMAIN q = 1..Len(q)
      /\ Len(r) \in Nat /\ DOMAIN r = 1..Len(r)
      /\ DOMAIN (q \o r) = 1..(Len(q) + Len(r))
  BY <1>1, LenProperties
<1>3. ASSUME NEW i \in DOMAIN (q \o r) PROVE (q \o r)[i] \in UnderWay(q) \cup UnderWay(r)
  <2>1. CASE i <= Len(q)
    BY <1>1, <1>2, <2>1 DEF UnderWay
  <2>2. CASE i > Len(q)
    <3>1. i - Len(q) \in DOMAIN r /\ (q \o r)[i] = r[i - Len(q)]
      BY <1>1, <1>2, <2>2
    <3> QED
      BY <3>1 DEF UnderWay
  <2> QED
    BY <1>2, <2>1, <2>2
<1>4. ASSUME NEW i \in DOMAIN q PROVE q[i] \in UnderWay(q \o r)
  BY <1>1, <1>2 DEF UnderWay
<1>5. ASSUME NEW i \in DOMAIN r PROVE r[i] \in UnderWay(q \o r)
  <2>1. Len(q) + i \in DOMAIN (q \o r) /\ (q \o r)[Len(q) + i] = r[i]
    BY <1>1, <1>2
  <2> QED
    BY <2>1 DEF UnderWay
<1> QED
  BY <1>1, <1>3, <1>4, <1>5 DEF UnderWay

\* The last message of a sort M that is under way is a good one; if none is, the
\* receiver is as it should be already.
Decided(q, M, G, settled) ==
    /\ \A i \in DOMAIN q : q[i] \in M /\ (\A j \in DOMAIN q : j > i => q[j] \notin M) => q[i] \in G
    /\ (\A i \in DOMAIN q : q[i] \notin M) => settled

\* A message that is received settles what it was the last to decide.
LEMMA DecidedTail ==
    ASSUME NEW S, NEW q \in Seq(S), q # <<>>, NEW M, NEW G,
           NEW before \in BOOLEAN, NEW after \in BOOLEAN, Decided(q, M, G, before),
           Head(q) \in M \cap G => after,
           Head(q) \notin M => (before => after)
    PROVE  Decided(Tail(q), M, G, after)
<1>1. /\ Len(q) \in Nat \ {0} /\ DOMAIN q = 1..Len(q)
      /\ DOMAIN Tail(q) = 1..(Len(q) - 1)
      /\ \A i \in 1..(Len(q) - 1) : Tail(q)[i] = q[i + 1]
      /\ Head(q) = q[1]
  BY HeadTailProperties, LenProperties, EmptySeq
<1>2. ASSUME NEW i \in DOMAIN Tail(q), Tail(q)[i] \in M,
             \A j \in DOMAIN Tail(q) : j > i => Tail(q)[j] \notin M
      PROVE  Tail(q)[i] \in G
  <2>1. i + 1 \in DOMAIN q /\ q[i + 1] \in M
    BY <1>1, <1>2
  <2>2. ASSUME NEW j \in DOMAIN q, j > i + 1 PROVE q[j] \notin M
    <3>1. j - 1 \in DOMAIN Tail(q) /\ j - 1 > i /\ Tail(q)[j - 1] = q[j]
      BY <1>1, <2>2
    <3> QED
      BY <1>2, <3>1
  <2> QED
    BY <1>1, <2>1, <2>2 DEF Decided
<1>3. ASSUME \A i \in DOMAIN Tail(q) : Tail(q)[i] \notin M
      PROVE  after
  <2>1. \A j \in DOMAIN q : j > 1 => q[j] \notin M
    <3> SUFFICES ASSUME NEW j \in DOMAIN q, j > 1 PROVE q[j] \notin M
      OBVIOUS
    <3>1. j - 1 \in DOMAIN Tail(q) /\ Tail(q)[j - 1] = q[j]
      BY <1>1
    <3> QED
      BY <1>3, <3>1
  <2>2. CASE q[1] \in M
    BY <1>1, <2>1, <2>2 DEF Decided
  <2>3. CASE q[1] \notin M
    <3>1. \A j \in DOMAIN q : q[j] \notin M
      BY <1>1, <2>1, <2>3
    <3>2. before
      BY <3>1 DEF Decided
    <3> QED
      BY <1>1, <2>3, <3>2
  <2> QED
    BY <2>2, <2>3
<1> QED
  BY <1>2, <1>3 DEF Decided

\* A good message that is sent decides; one of another sort changes nothing.
LEMMA DecidedAppend ==
    ASSUME NEW S, NEW q \in Seq(S), NEW e \in S, NEW M, NEW G, NEW settled \in BOOLEAN,
           e \in M => e \in G, 
           e \notin M => Decided(q, M, G, settled)
    PROVE  Decided(Append(q, e), M, G, settled)
<1>1. /\ Len(q) \in Nat /\ DOMAIN q = 1..Len(q)
      /\ DOMAIN Append(q, e) = 1..(Len(q) + 1)
      /\ \A i \in 1..Len(q) : Append(q, e)[i] = q[i]
      /\ Append(q, e)[Len(q) + 1] = e
  <2>1. Append(q, e) \in Seq(S) /\ Len(Append(q, e)) = Len(q) + 1
    BY AppendProperties
  <2> QED
    BY <2>1, AppendProperties, LenProperties
<1>2. CASE e \in M
  BY <1>1, <1>2 DEF Decided
<1>3. CASE e \notin M
  <2>1. ASSUME NEW i \in DOMAIN Append(q, e), Append(q, e)[i] \in M,
               \A j \in DOMAIN Append(q, e) : j > i => Append(q, e)[j] \notin M
        PROVE  Append(q, e)[i] \in G
    <3>1. i \in DOMAIN q /\ q[i] \in M /\ Append(q, e)[i] = q[i]
      BY <1>1, <1>3, <2>1
    <3>2. \A j \in DOMAIN q : j > i => q[j] \notin M
      BY <1>1, <2>1
    <3> QED
      BY <1>3, <3>1, <3>2 DEF Decided
  <2>2. ASSUME \A i \in DOMAIN Append(q, e) : Append(q, e)[i] \notin M
        PROVE  settled
    <3>1. \A i \in DOMAIN q : q[i] \notin M
      BY <1>1, <2>2
    <3> QED
      BY <1>3, <3>1 DEF Decided
  <2> QED
    BY <2>1, <2>2 DEF Decided
<1> QED
  BY <1>2, <1>3

\* A set of naturals has a least element: the intervals up to its elements are finite
\* sets, which strict inclusion orders well.
LEMMA LeastNatural ==
    ASSUME NEW T \in SUBSET Nat, T # {}
    PROVE  \E x \in T : \A y \in T : x <= y
<1> DEFINE U == {1..n : n \in T}
<1>1. U \subseteq FiniteSubsetsOf(Nat) /\ U # {}
  <2>1. \A n \in T : 1..n \in SUBSET Nat /\ IsFiniteSet(1..n)
    BY FS_Interval
  <2> QED
    BY <2>1 DEF FiniteSubsetsOf
<1> HIDE DEF U
<1>2. PICK A \in U : \A B \in U : <<B, A>> \notin StrictSubsetOrdering(Nat)
  BY <1>1, WFMin, FS_StrictSubsetOrderingWellFounded
<1>3. PICK x \in T : A = 1..x
  BY <1>2 DEF U
<1>4. ASSUME NEW y \in T, y < x PROVE FALSE
  <2>1. 1..y \subseteq 1..x /\ 1..y # 1..x
    <3>1. x \in 1..x /\ x \notin 1..y
      BY <1>4
    <3> QED
      BY <1>4, <3>1
  <2>2. 1..y \in U /\ 1..y \in SUBSET Nat /\ 1..x \in SUBSET Nat
    BY DEF U
  <2> QED
    BY <1>2, <1>3, <2>1, <2>2 DEF StrictSubsetOrdering
<1> QED
  BY <1>4

\* Some place of a queue is the last with a given property.
LEMMA LastPlace ==
    ASSUME NEW n \in Nat, NEW T \in SUBSET (1..n), T # {}
    PROVE  \E x \in T : \A y \in T : y <= x
<1> DEFINE D == {n - i : i \in T}
<1>0. \A i \in T : n - i \in Nat
  OBVIOUS
<1>1. D \in SUBSET Nat /\ D # {}
  BY <1>0
<1>2. PICK d \in D : \A e \in D : d <= e
  BY <1>1, LeastNatural
<1> QED
  BY <1>2

\* What the last message of a sort decides is settled or has a good message under way.
LEMMA LastDecides ==
    ASSUME NEW S, NEW q \in Seq(S), NEW M, NEW G, NEW settled \in BOOLEAN,
           Decided(q, M, G, settled)
    PROVE  settled \/ \E m \in UnderWay(q) : m \in G
<1>1. Len(q) \in Nat /\ DOMAIN q = 1..Len(q)
  BY LenProperties
<1> DEFINE T == {i \in 1..Len(q) : q[i] \in M}
<1>2. CASE T = {}
  BY <1>1, <1>2 DEF Decided
<1>3. CASE T # {}
  <2>1. PICK i \in T : \A j \in T : j <= i
    <3> HIDE DEF T
    <3> QED
      BY <1>1, <1>3, LastPlace DEF T
  <2>2. \A j \in DOMAIN q : j > i => q[j] \notin M
    BY <1>1, <2>1
  <2> QED
    BY <1>1, <2>1, <2>2 DEF Decided, UnderWay
<1> QED
  BY <1>2, <1>3

-----------------------------------------------------------------------------
(* The inductive invariant *)

QueuesOK == toServer \in Seq(Requests) /\ toClient \in Seq(Answers)

\* The handshake: until the browser learns that it is authenticated, exactly one
\* message is on its way or being handled, and the consumer is in no group.
Fresh ==
    /\ server.subs = {} /\ server.target = none
    /\ joined = {} /\ mailbox = <<>> /\ wire = <<>>

Greeting ==
    \/ /\ toServer = <<Msg("authenticate", none, none)>>
       /\ server.at = "idle" /\ toClient = <<>>
    \/ /\ toServer = <<>> /\ server.at = "authenticating" /\ toClient = <<>>
    \/ /\ toServer = <<>> /\ server.at = "idle"
       /\ toClient = <<Msg("authenticated", none, server.flow)>>

Offline == toServer = <<>> /\ toClient = <<>> /\ server.at = "idle" /\ client.pending = {}

PendingIsWanted == Wanted \subseteq client.pending /\ client.pending \subseteq Wanted \cup excused

BeforeAuth ==
    ~client.authed => /\ Fresh
                      /\ ~Up => Offline
                      /\ Up => Greeting /\ PendingIsWanted

AfterAuth ==
    client.authed =>
        /\ Up /\ client.pending = {} /\ server.at # "authenticating"
        /\ \A m \in UnderWay(toServer) : m.kind # "authenticate"
        /\ \A m \in UnderWay(toClient) : m.kind # "authenticated"

HandshakeInv == TypeOK /\ QueuesOK /\ BeforeAuth /\ AfterAuth

-----------------------------------------------------------------------------
(* The handshake *)

\* What the arrival of the authentication does, which is the one step that
\* sends several messages.
LEMMA AuthenticatedStep ==
    ASSUME HandshakeInv, Authenticated
    PROVE  /\ ~client.authed /\ Up /\ Fresh /\ PendingIsWanted
           /\ server.at = "idle" /\ server.flow \in Flows
           /\ toServer = <<>> /\ toClient' = <<>>
           /\ ResolvedFlow(server.flow) \in Flows
           /\ client' = [client EXCEPT !.authed = TRUE, !.flow = ResolvedFlow(server.flow),
                                       !.pending = {}]
           /\ toServer' \in Seq(Requests)
           /\ UnderWay(toServer') \subseteq {Msg("set_flow", none, ResolvedFlow(server.flow))}
                                  \cup {Msg("subscribe", c, none) : c \in client.pending}
           /\ \/ ResolvedFlow(server.flow) = server.flow
              \/ Msg("set_flow", none, ResolvedFlow(server.flow)) \in UnderWay(toServer')
           /\ \A c \in client.pending : Msg("subscribe", c, none) \in UnderWay(toServer')
           /\ UNCHANGED <<callbacks, serverVars, mailbox, wire, excused>>
<1> DEFINE resolved == ResolvedFlow(server.flow)
           asks == IF resolved = server.flow THEN <<>> ELSE <<Msg("set_flow", none, resolved)>>
           order == Listing(client.pending)
           wants == [i \in DOMAIN order |-> Msg("subscribe", order[i], none)]
<1>1. toClient # <<>> /\ Head(toClient).kind = "authenticated"
  BY DEF Authenticated, Arrives
<1>2. toClient \in Seq(Answers) /\ Head(toClient) \in UnderWay(toClient)
  BY <1>1, TailUnderWay DEF HandshakeInv, QueuesOK
<1>3. ~client.authed
  BY <1>1, <1>2 DEF HandshakeInv, AfterAuth
<1>4. Fresh /\ Up /\ Greeting /\ PendingIsWanted
  BY <1>1, <1>3 DEF HandshakeInv, BeforeAuth, Offline
<1>5. /\ toServer = <<>> /\ server.at = "idle"
      /\ toClient = <<Msg("authenticated", none, server.flow)>>
  BY <1>1, <1>4 DEF Greeting
<1>6. Head(toClient).flow = server.flow /\ toClient' = <<>>
  BY <1>5 DEF Authenticated, Arrives, Msg
<1>7. server.flow \in Flows /\ client.flow \in Flows /\ client.pending \in SUBSET Channels
  BY DEF HandshakeInv, TypeOK
<1>8. resolved \in Flows
  BY <1>7 DEF ResolvedFlow, Flows
<1>9. /\ client' = [client EXCEPT !.authed = TRUE, !.flow = resolved, !.pending = {}]
      /\ toServer' = (toServer \o asks) \o wants
      /\ UNCHANGED <<callbacks, serverVars, mailbox, wire, excused>>
  BY <1>6 DEF Authenticated, Arrives
<1>10. /\ asks \in Seq(Requests)
       /\ UnderWay(asks) = IF resolved = server.flow THEN {} ELSE {Msg("set_flow", none, resolved)}
  BY <1>8, RequestFields DEF UnderWay
<1>11. /\ Cardinality(client.pending) \in Nat
       /\ order \in [1..Cardinality(client.pending) -> client.pending]
       /\ \A c \in client.pending : \E i \in 1..Cardinality(client.pending) : order[i] = c
  BY <1>7, ListingProperties
<1>12. wants \in [1..Cardinality(client.pending) -> Requests]
  BY <1>7, <1>11, RequestFields
<1>13. wants \in Seq(Requests)
  BY <1>11, <1>12, SeqDef
<1>14. UnderWay(wants) = {Msg("subscribe", c, none) : c \in client.pending}
  BY <1>11 DEF UnderWay
<1> HIDE DEF asks, wants, order, resolved
<1>15. toServer \o asks \in Seq(Requests) /\ UnderWay(toServer \o asks) = UnderWay(asks)
  <2>1. <<>> \o asks = asks
    BY <1>10, ConcatEmptySeq
  <2> QED
    BY <1>5, <1>10, <2>1
<1>16. toServer' \in Seq(Requests) /\ UnderWay(toServer') = UnderWay(asks) \cup UnderWay(wants)
  <2> DEFINE first == toServer \o asks
  <2>1. first \in Seq(Requests) /\ UnderWay(first) = UnderWay(asks) /\ toServer' = first \o wants
    BY <1>9, <1>15
  <2> HIDE DEF first
  <2>2. first \o wants \in Seq(Requests) /\ UnderWay(first \o wants) = UnderWay(first) \cup UnderWay(wants)
    BY <1>13, <2>1, ConcatUnderWay
  <2>3. UnderWay(toServer') = UnderWay(first \o wants)
    BY <2>1 DEF UnderWay
  <2> QED
    BY <2>1, <2>2, <2>3
<1> QED
  BY <1>3, <1>4, <1>5, <1>6, <1>7, <1>8, <1>9, <1>10, <1>14, <1>16 DEF resolved

\* What a handler takes from its queue.
LEMMA HandlingStep ==
    ASSUME HandshakeInv, NEW kind, Handling(kind)
    PROVE  /\ toServer # <<>> /\ Head(toServer) \in Requests /\ Head(toServer).kind = kind
           /\ toServer' = Tail(toServer) /\ toServer' \in Seq(Requests)
           /\ UnderWay(toServer) = UnderWay(toServer') \cup {Head(toServer)}
           /\ server.at = "idle"
           /\ UNCHANGED <<clientVars, mailbox, wire>>
<1>1. toServer # <<>> /\ toServer' = Tail(toServer)
  BY DEF Handling
<1>2. toServer \in Seq(Requests)
  BY DEF HandshakeInv, QueuesOK
<1>3. /\ Tail(toServer) \in Seq(Requests) /\ Head(toServer) \in Requests
      /\ UnderWay(toServer) = UnderWay(Tail(toServer)) \cup {Head(toServer)}
  BY <1>1, <1>2, TailUnderWay
<1> QED
  BY <1>1, <1>3 DEF Handling

LEMMA ArrivesStep ==
    ASSUME HandshakeInv, NEW kind, Arrives(kind)
    PROVE  /\ toClient # <<>> /\ Head(toClient) \in Answers /\ Head(toClient).kind = kind
           /\ toClient' = Tail(toClient) /\ toClient' \in Seq(Answers)
           /\ UnderWay(toClient) = UnderWay(toClient') \cup {Head(toClient)}
           /\ UNCHANGED <<callbacks, serverVars, mailbox, wire, excused>>
<1>1. toClient # <<>> /\ toClient' = Tail(toClient)
  BY DEF Arrives
<1>2. toClient \in Seq(Answers)
  BY DEF HandshakeInv, QueuesOK
<1>3. /\ Tail(toClient) \in Seq(Answers) /\ Head(toClient) \in Answers
      /\ UnderWay(toClient) = UnderWay(Tail(toClient)) \cup {Head(toClient)}
  BY <1>1, <1>2, TailUnderWay
<1> QED
  BY <1>1, <1>3 DEF Arrives

\* Only messages that each end may send are ever under way.
LEMMA QueuesStep == HandshakeInv /\ [Next]_vars => QueuesOK'
<1> SUFFICES ASSUME HandshakeInv, [Next]_vars PROVE QueuesOK'
  OBVIOUS
<1> USE DEF QueuesOK
<1>q. toServer \in Seq(Requests) /\ toClient \in Seq(Answers)
  BY DEF HandshakeInv
<1>s. ASSUME NEW m \in Requests PROVE Append(toServer, m) \in Seq(Requests)
  BY <1>q, AppendProperties
<1>c. ASSUME NEW m \in Answers PROVE Append(toClient, m) \in Seq(Answers)
  BY <1>q, AppendProperties
<1>t. server.flow \in Flows /\ server.target \in Flows \cup {none} /\ server.todo \subseteq Channels
  BY DEF HandshakeInv, TypeOK
<1>1. CASE Connect
  BY <1>1, <1>q, RequestFields DEF Connect
<1>2. CASE Close
  BY <1>2 DEF Close
<1>3. CASE FlowSwitchTimeout
  BY <1>3, <1>q DEF FlowSwitchTimeout
<1>4. ASSUME NEW c \in Channels, Subscribe(c) PROVE QueuesOK'
  <2>1. Append(toServer, Msg("subscribe", c, none)) \in Seq(Requests)
    BY <1>s, RequestFields
  <2> QED
    BY <1>4, <1>q, <2>1 DEF Subscribe
<1>5. ASSUME NEW c \in Channels, Unsubscribe(c) PROVE QueuesOK'
  <2>1. Append(toServer, Msg("unsubscribe", c, none)) \in Seq(Requests)
    BY <1>s, RequestFields
  <2> QED
    BY <1>5, <1>q, <2>1 DEF Unsubscribe
<1>6. ASSUME NEW f \in Flows, SetFlow(f) PROVE QueuesOK'
  <2>1. Append(toServer, Msg("set_flow", none, f)) \in Seq(Requests)
    BY <1>s, RequestFields
  <2> QED
    BY <1>6, <1>q, <2>1 DEF SetFlow
<1>7. CASE Authenticated
  BY <1>7, AuthenticatedStep
<1>8. CASE FlowChanged \/ ErrorArrives \/ DataArrives
  <2>1. /\ toServer' = toServer
        /\ Arrives("flow_changed") \/ Arrives("error") \/ Arrives("data")
    BY <1>8 DEF FlowChanged, ErrorArrives, DataArrives
  <2>2. toClient' \in Seq(Answers)
    BY <2>1, ArrivesStep
  <2> QED
    BY <1>q, <2>1, <2>2
<1>9. CASE HandleAuthenticate \/ HandleSubscribe \/ HandleUnsubscribe
  <2>1. /\ toClient' = toClient
        /\ Handling("authenticate") \/ Handling("subscribe") \/ Handling("unsubscribe")
    BY <1>9 DEF HandleAuthenticate, HandleSubscribe, HandleUnsubscribe
  <2>2. toServer' \in Seq(Requests)
    BY <2>1, HandlingStep
  <2> QED
    BY <1>q, <2>1, <2>2
<1>10. ASSUME NEW f \in Flows, AuthDone(f) PROVE QueuesOK'
  <2>1. Append(toClient, Msg("authenticated", none, f)) \in Seq(Answers)
    BY <1>c, AnswerFields
  <2> QED
    BY <1>10, <1>q, <2>1 DEF AuthDone
<1>11. CASE HandleSetFlow
  <2>1. Handling("set_flow")
    BY <1>11 DEF HandleSetFlow
  <2>2. toServer' \in Seq(Requests) /\ Head(toServer).flow \in Flows
    BY <2>1, HandlingStep, RequestFields
  <2>3. Append(toClient, Msg("flow_changed", none, Head(toServer).flow)) \in Seq(Answers)
    BY <1>c, <2>2, AnswerFields
  <2> QED
    BY <1>11, <1>q, <2>2, <2>3 DEF HandleSetFlow
<1>12. ASSUME NEW kind \in {"subscribe", "unsubscribe"}, RateLimited(kind) PROVE QueuesOK'
  <2>1. toServer' \in Seq(Requests)
    BY <1>12, HandlingStep DEF RateLimited
  <2>2. Append(toClient, Msg("error", none, none)) \in Seq(Answers)
    BY <1>c, AnswerFields
  <2> QED
    BY <1>12, <2>1, <2>2 DEF RateLimited
<1>13. CASE AllLeft \/ SnapshotsSent
  BY <1>13, <1>q DEF AllLeft, SnapshotsSent, Working
<1>14. CASE AllJoined
  <2>1. server.target # none => Append(toClient, Msg("flow_changed", none, server.target)) \in Seq(Answers)
    BY <1>c, <1>t, AnswerFields
  <2> QED
    BY <1>14, <1>q, <2>1 DEF AllJoined, Working
<1>15. ASSUME NEW c \in Channels, Leave(c) \/ Join(c) PROVE QueuesOK'
  BY <1>15, <1>q DEF Leave, Join, Working
<1>16. ASSUME NEW c \in Channels, SendSnapshot(c) PROVE QueuesOK'
  <2>1. Append(toClient, Msg("data", c, server.flow)) \in Seq(Answers)
    BY <1>c, <1>t, AnswerFields
  <2> QED
    BY <1>16, <1>q, <2>1 DEF SendSnapshot, Working
<1>17. CASE BroadcastMessage \/ Forward
  <2>1. mailbox \in Seq(Channels \X Flows) /\ wire \in Seq(Channels \X Flows)
    BY DEF HandshakeInv, TypeOK
  <2>2. PICK cf \in Channels \X Flows : toClient' = Append(toClient, Msg("data", cf[1], cf[2]))
    BY <1>17, <2>1, HeadTailProperties DEF BroadcastMessage, Forward
  <2>3. cf[1] \in Channels /\ cf[2] \in Flows
    OBVIOUS
  <2>4. Append(toClient, Msg("data", cf[1], cf[2])) \in Seq(Answers)
    BY <1>c, <2>3, AnswerFields
  <2> QED
    BY <1>17, <1>q, <2>2, <2>4 DEF BroadcastMessage, Forward
<1>18. CASE ListenerEnds \/ ListenerFails \/ ListenerRestarts
  BY <1>18, <1>q DEF ListenerEnds, ListenerFails, ListenerRestarts, Listening
<1>19. ASSUME NEW c \in Channels, NEW f \in Flows, Broadcast(c, f) PROVE QueuesOK'
  BY <1>19, <1>q DEF Broadcast
<1>20. CASE WindowSlides \/ UNCHANGED vars
  BY <1>20, <1>q DEF WindowSlides, vars
<1> QED
  BY <1>1, <1>2, <1>3, <1>4, <1>5, <1>6, <1>7, <1>8, <1>9, <1>10, <1>11, <1>12, <1>13, <1>14,
     <1>15, <1>16, <1>17, <1>18, <1>19, <1>20 DEF Next, Arrival, Handler, Listener

ClientOK == client \in [socket : {"closed", "open"}, authed : BOOLEAN, flow : Flows,
                         switching : BOOLEAN, pending : SUBSET Channels]
ServerOK == server \in [authed : BOOLEAN, flow : Flows, subs : SUBSET Channels,
                         at : {"idle", "authenticating", "leaving", "joining", "snapshots"},
                         todo : SUBSET Channels, fresh : SUBSET Channels,
                         target : Flows \cup {none}]
BroadcastsOK ==
    /\ joined \subseteq Channels \X Flows
    /\ mailbox \in Seq(Channels \X Flows) /\ wire \in Seq(Channels \X Flows)
OthersOK ==
    /\ callbacks \in [Channels -> 0..1]
    /\ listener \in {"none", "running", "sleeping"}
    /\ recent \in 0..RateLimit
    /\ excused \subseteq Channels

LEMMA TypeParts == QueuesOK => (TypeOK <=> ClientOK /\ ServerOK /\ BroadcastsOK /\ OthersOK)
<1>1. Requests \subseteq ToServer /\ Answers \subseteq ToClient
  BY RequestFields, AnswerFields
<1>2. QueuesOK => toServer \in Seq(ToServer) /\ toClient \in Seq(ToClient)
  BY <1>1, SeqMonotonic DEF QueuesOK
<1> QED
  BY <1>2 DEF TypeOK, ClientOK, ServerOK, BroadcastsOK, OthersOK

\* Neither a handler nor what happens around the consumer touches the browser.
Surroundings ==
    \/ BroadcastMessage \/ Listener \/ ListenerFails \/ WindowSlides
    \/ \E c \in Channels, f \in Flows : Broadcast(c, f)

LEMMA BrowserUntouched == Handler \/ Surroundings => UNCHANGED clientVars
BY DEF Surroundings, Handler, BroadcastMessage, Listener, ListenerFails, WindowSlides, Broadcast,
   HandleAuthenticate, AuthDone, HandleSetFlow, HandleSubscribe, HandleUnsubscribe,
   RateLimited, Handling, AllLeft, AllJoined, SnapshotsSent, Leave, Join, SendSnapshot, Working,
   Forward, ListenerEnds, ListenerRestarts, Listening

LEMMA ClientStep == HandshakeInv /\ [Next]_vars => ClientOK'
<1> SUFFICES ASSUME HandshakeInv, [Next]_vars PROVE ClientOK'
  OBVIOUS
<1>c. ClientOK
  BY DEF HandshakeInv, TypeOK, ClientOK
<1>b. TRUE \in BOOLEAN /\ FALSE \in BOOLEAN
  OBVIOUS
<1>1. CASE Connect
  BY <1>1, <1>b, <1>c DEF Connect, ClientOK, Wanted
<1>2. CASE Close \/ FlowSwitchTimeout
  BY <1>2, <1>b, <1>c DEF Close, FlowSwitchTimeout, ClientOK
<1>3. ASSUME NEW c \in Channels, Subscribe(c) \/ Unsubscribe(c) PROVE ClientOK'
  BY <1>3, <1>c DEF Subscribe, Unsubscribe, ClientOK
<1>4. ASSUME NEW f \in Flows, SetFlow(f) PROVE ClientOK'
  BY <1>4, <1>b, <1>c DEF SetFlow, ClientOK
<1>5. CASE Authenticated
  BY <1>5, <1>b, <1>c, AuthenticatedStep DEF ClientOK
<1>6. CASE FlowChanged
  <2>1. Head(toClient).flow \in Flows
    BY <1>6, ArrivesStep, AnswerFields DEF FlowChanged
  <2> QED
    BY <1>6, <1>b, <1>c, <2>1 DEF FlowChanged, ClientOK
<1>7. CASE ErrorArrives \/ DataArrives
  BY <1>7, <1>b, <1>c DEF ErrorArrives, DataArrives, ClientOK
<1>8. ASSUME UNCHANGED client PROVE ClientOK'
  BY <1>8, <1>c DEF ClientOK
<1>9. CASE Handler \/ Surroundings \/ UNCHANGED vars
  BY <1>8, <1>9, BrowserUntouched DEF clientVars, vars
<1> QED
  BY <1>1, <1>2, <1>3, <1>4, <1>5, <1>6, <1>7, <1>9 DEF Next, Arrival, Surroundings

LEMMA ServerStep == HandshakeInv /\ [Next]_vars => ServerOK'
<1> SUFFICES ASSUME HandshakeInv, [Next]_vars PROVE ServerOK'
  OBVIOUS
<1>s. ServerOK
  BY DEF HandshakeInv, TypeOK, ServerOK
<1>b. TRUE \in BOOLEAN /\ FALSE \in BOOLEAN
  OBVIOUS
<1>1. CASE Close
  BY <1>1, <1>b DEF Close, NewConsumer, ServerOK, Flows
<1>2. CASE HandleAuthenticate
  BY <1>2, <1>s DEF HandleAuthenticate, ServerOK
<1>3. ASSUME NEW f \in Flows, AuthDone(f) PROVE ServerOK'
  BY <1>3, <1>b, <1>s DEF AuthDone, ServerOK
<1>4. CASE HandleSetFlow
  <2>1. Head(toServer).flow \in Flows
    BY <1>4, HandlingStep, RequestFields DEF HandleSetFlow
  <2> QED
    BY <1>4, <1>s, <2>1 DEF HandleSetFlow, ServerOK
<1>5. CASE HandleSubscribe
  <2>1. Head(toServer).channel \in Channels
    BY <1>5, HandlingStep, RequestFields DEF HandleSubscribe
  <2> QED
    BY <1>5, <1>s, <2>1 DEF HandleSubscribe, ServerOK
<1>6. CASE HandleUnsubscribe
  <2>1. Head(toServer).channel \in Channels
    BY <1>6, HandlingStep, RequestFields DEF HandleUnsubscribe
  <2> QED
    BY <1>6, <1>s, <2>1 DEF HandleUnsubscribe, ServerOK
<1>7. ASSUME NEW c \in Channels, Leave(c) \/ Join(c) \/ SendSnapshot(c) PROVE ServerOK'
  BY <1>7, <1>s DEF Leave, Join, SendSnapshot, ServerOK
<1>8. CASE AllLeft
  BY <1>8, <1>s DEF AllLeft, ServerOK
<1>9. CASE AllJoined \/ SnapshotsSent
  BY <1>9, <1>s DEF AllJoined, SnapshotsSent, ServerOK
<1>10. ASSUME UNCHANGED server PROVE ServerOK'
  BY <1>10, <1>s DEF ServerOK
<1>11. ASSUME NEW kind \in {"subscribe", "unsubscribe"}, RateLimited(kind) PROVE UNCHANGED server
  BY <1>11 DEF RateLimited, serverVars
<1>12. CASE Connect \/ FlowSwitchTimeout \/ (\E c \in Channels : Subscribe(c) \/ Unsubscribe(c))
            \/ (\E f \in Flows : SetFlow(f)) \/ Arrival \/ BroadcastMessage
            \/ Listener \/ ListenerFails \/ WindowSlides
            \/ (\E c \in Channels, f \in Flows : Broadcast(c, f)) \/ UNCHANGED vars
  <2>1. UNCHANGED server
    BY <1>12 DEF Connect, FlowSwitchTimeout, Subscribe, Unsubscribe, SetFlow, Arrival, Authenticated,
       FlowChanged, ErrorArrives, DataArrives, Arrives, BroadcastMessage, Listener, Forward,
       ListenerEnds, ListenerRestarts, ListenerFails, Listening, WindowSlides, Broadcast, vars,
       serverVars
  <2> QED
    BY <1>10, <2>1
<1> QED
  BY <1>1, <1>2, <1>3, <1>4, <1>5, <1>6, <1>7, <1>8, <1>9, <1>10, <1>11, <1>12 DEF Next, Handler

LEMMA BroadcastsStep == HandshakeInv /\ [Next]_vars => BroadcastsOK'
<1> SUFFICES ASSUME HandshakeInv, [Next]_vars PROVE BroadcastsOK'
  OBVIOUS
<1>b. BroadcastsOK
  BY DEF HandshakeInv, TypeOK, BroadcastsOK
<1>f. server.flow \in Flows
  BY DEF HandshakeInv, TypeOK
<1> DEFINE S == Channels \X Flows
<1> USE DEF BroadcastsOK
<1>1. CASE Close
  BY <1>1 DEF Close
<1>2. ASSUME NEW c \in Channels, Leave(c) \/ Join(c) PROVE BroadcastsOK'
  <2>1. <<c, server.flow>> \in S
    BY <1>f
  <2>2. joined' \subseteq S /\ UNCHANGED <<mailbox, wire>>
    BY <1>2, <1>b, <2>1 DEF Leave, Join, Working
  <2> QED
    BY <1>b, <2>2
<1>3. CASE BroadcastMessage
  BY <1>3, <1>b, HeadTailProperties DEF BroadcastMessage, serverVars
<1>4. CASE Forward
  BY <1>4, <1>b, HeadTailProperties DEF Forward, serverVars
<1>5. CASE ListenerFails
  BY <1>5, <1>b DEF ListenerFails, Listening
<1>6. ASSUME NEW c \in Channels, NEW f \in Flows, Broadcast(c, f) PROVE BroadcastsOK'
  <2>1. Append(wire, <<c, f>>) \in Seq(S) /\ Append(mailbox, <<c, f>>) \in Seq(S)
    BY <1>b, AppendProperties
  <2> QED
    BY <1>6, <1>b, <2>1 DEF Broadcast, serverVars
<1>7. ASSUME UNCHANGED <<joined, mailbox, wire>> PROVE BroadcastsOK'
  BY <1>7, <1>b
<1>8. ASSUME NEW kind \in {"subscribe", "unsubscribe"}, RateLimited(kind)
      PROVE  UNCHANGED <<joined, mailbox, wire>>
  BY <1>8 DEF RateLimited, Handling, serverVars
<1>9. CASE HandleAuthenticate \/ (\E f \in Flows : AuthDone(f)) \/ HandleSetFlow
           \/ HandleSubscribe \/ HandleUnsubscribe \/ AllLeft \/ AllJoined \/ SnapshotsSent
           \/ \E c \in Channels : SendSnapshot(c)
  <2>1. UNCHANGED <<joined, mailbox, wire>>
    BY <1>9 DEF HandleAuthenticate, AuthDone, HandleSetFlow, HandleSubscribe, HandleUnsubscribe,
       Handling, AllLeft, AllJoined, SnapshotsSent, SendSnapshot, Working
  <2> QED
    BY <1>7, <2>1
<1>10. CASE Connect \/ FlowSwitchTimeout \/ (\E c \in Channels : Subscribe(c) \/ Unsubscribe(c))
            \/ (\E f \in Flows : SetFlow(f)) \/ Arrival
            \/ ListenerEnds \/ ListenerRestarts \/ WindowSlides \/ UNCHANGED vars
  <2>1. UNCHANGED <<joined, mailbox, wire>>
    BY <1>10 DEF Connect, FlowSwitchTimeout, Subscribe, Unsubscribe, SetFlow, Arrival, Authenticated,
       FlowChanged, ErrorArrives, DataArrives, Arrives, ListenerEnds, ListenerRestarts, Listening,
       WindowSlides, vars, serverVars
  <2> QED
    BY <1>7, <2>1
<1> QED
  BY <1>1, <1>2, <1>3, <1>4, <1>5, <1>6, <1>7, <1>8, <1>9, <1>10 DEF Next, Handler, Listener

LEMMA OthersStep == HandshakeInv /\ [Next]_vars => OthersOK'
<1> SUFFICES ASSUME HandshakeInv, [Next]_vars PROVE OthersOK'
  OBVIOUS
<1>o. OthersOK
  BY DEF HandshakeInv, TypeOK, OthersOK
<1> USE DEF OthersOK
<1>r. RateLimit \in Nat \ {0}
  BY LimitsAssumption
<1>1. CASE Close
  BY <1>1, <1>o, <1>r DEF Close
<1>2. ASSUME NEW c \in Channels, Subscribe(c) \/ Unsubscribe(c) PROVE OthersOK'
  BY <1>2, <1>o DEF Subscribe, Unsubscribe, serverVars
<1>3. ASSUME NEW kind \in {"subscribe", "unsubscribe"}, RateLimited(kind) PROVE OthersOK'
  <2>1. Head(toServer).channel \in Channels /\ UNCHANGED <<callbacks, listener, recent>>
    BY <1>3, HandlingStep, RequestFields DEF RateLimited, serverVars, clientVars
  <2> QED
    BY <1>3, <1>o, <2>1 DEF RateLimited
<1>4. CASE HandleSubscribe \/ HandleUnsubscribe
  BY <1>4, <1>o, <1>r DEF HandleSubscribe, HandleUnsubscribe, Handling, Limited, clientVars
<1>5. CASE WindowSlides
  BY <1>5, <1>o, <1>r DEF WindowSlides, clientVars
<1>6. ASSUME NEW c \in Channels, Join(c) PROVE OthersOK'
  BY <1>6, <1>o DEF Join, Working, clientVars
<1>7. CASE ListenerEnds \/ ListenerFails \/ ListenerRestarts
  BY <1>7, <1>o DEF ListenerEnds, ListenerFails, ListenerRestarts, Listening, clientVars
<1>8. ASSUME UNCHANGED <<callbacks, listener, recent, excused>> PROVE OthersOK'
  BY <1>8, <1>o
<1>9. CASE HandleAuthenticate \/ (\E f \in Flows : AuthDone(f)) \/ HandleSetFlow
           \/ AllLeft \/ AllJoined \/ SnapshotsSent
           \/ \E c \in Channels : Leave(c) \/ SendSnapshot(c)
  <2>1. UNCHANGED <<callbacks, listener, recent, excused>>
    BY <1>9 DEF HandleAuthenticate, AuthDone, HandleSetFlow, Handling, AllLeft, AllJoined,
       SnapshotsSent, Leave, SendSnapshot, Working, clientVars
  <2> QED
    BY <1>8, <2>1
<1>10. CASE Connect \/ FlowSwitchTimeout \/ (\E f \in Flows : SetFlow(f)) \/ Arrival
            \/ BroadcastMessage \/ Forward
            \/ (\E c \in Channels, f \in Flows : Broadcast(c, f)) \/ UNCHANGED vars
  <2>1. UNCHANGED <<callbacks, listener, recent, excused>>
    BY <1>10 DEF Connect, FlowSwitchTimeout, SetFlow, Arrival, Authenticated, FlowChanged,
       ErrorArrives, DataArrives, Arrives, BroadcastMessage, Forward, Broadcast, vars, clientVars,
       serverVars
  <2> QED
    BY <1>8, <2>1
<1> QED
  BY <1>1, <1>2, <1>3, <1>4, <1>5, <1>6, <1>7, <1>9, <1>10 DEF Next, Handler, Listener

\* Whether it is authenticated changes only with the connection and with the answer.
LEMMA AuthedKept ==
    ASSUME ClientOK, [Next]_vars, ~Connect, ~Close, ~Authenticated
    PROVE  client'.authed = client.authed
<1>1. FlowSwitchTimeout \/ FlowChanged \/ ErrorArrives \/ DataArrives => client'.authed = client.authed
  BY DEF FlowSwitchTimeout, FlowChanged, ErrorArrives, DataArrives, ClientOK
<1>2. ASSUME NEW c \in Channels, Subscribe(c) \/ Unsubscribe(c) PROVE client'.authed = client.authed
  BY <1>2 DEF Subscribe, Unsubscribe, ClientOK
<1>3. ASSUME NEW f \in Flows, SetFlow(f) PROVE client'.authed = client.authed
  BY <1>3 DEF SetFlow, ClientOK
<1>4. Handler \/ Surroundings \/ UNCHANGED vars => client'.authed = client.authed
  BY BrowserUntouched DEF clientVars, vars
<1> QED
  BY <1>1, <1>2, <1>3, <1>4 DEF Next, Arrival, Surroundings

\* Until it is authenticated nothing but the handshake happens.
LEMMA BeforeAuthStep == HandshakeInv /\ [Next]_vars => BeforeAuth'
<1> SUFFICES ASSUME HandshakeInv, [Next]_vars, ~client'.authed PROVE BeforeAuth'
  BY DEF BeforeAuth
<1>c. ClientOK
  BY DEF HandshakeInv, TypeOK, ClientOK
<1>s. ServerOK
  BY DEF HandshakeInv, TypeOK, ServerOK
<1> USE DEF BeforeAuth, Fresh, Up
<1>1. CASE Close
  BY <1>1, <1>c DEF Close, ClientOK, NewConsumer, Offline
<1>2. CASE ~Close
  <2>1. ~client.authed
    <3>1. Connect => ~client.authed
      BY DEF Connect, HandshakeInv, AfterAuth
    <3>2. ~Authenticated
      BY <1>c, AuthenticatedStep DEF ClientOK
    <3> QED
      BY <1>2, <1>c, <3>1, <3>2, AuthedKept
  <2>2. Fresh /\ (~Up => Offline) /\ (Up => Greeting /\ PendingIsWanted)
    BY <2>1 DEF HandshakeInv
  <2>3. server.at \in {"idle", "authenticating"}
    BY <2>2 DEF Offline, Greeting
  <2>4. toServer # <<>> => Up /\ toServer = <<Msg("authenticate", none, none)>> /\ toClient = <<>>
                           /\ server.at = "idle"
    BY <2>2 DEF Offline, Greeting
  <2>5. toClient # <<>> => Up /\ toClient = <<Msg("authenticated", none, server.flow)>>
                           /\ toServer = <<>> /\ server.at = "idle"
    BY <2>2 DEF Offline, Greeting
  <2>6. CASE Connect
    <3>1. toClient = <<>> /\ server.at = "idle"
      BY <2>2, <2>6 DEF Connect, Offline
    <3> QED
      BY <1>c, <2>2, <2>6, <3>1 DEF Connect, ClientOK, Greeting, PendingIsWanted, Wanted, serverVars
  <2>7. CASE FlowSwitchTimeout
    BY <1>c, <2>2, <2>7 DEF FlowSwitchTimeout, ClientOK, Greeting, PendingIsWanted, Wanted, Offline,
       serverVars
  <2>8. ASSUME NEW c \in Channels, Subscribe(c) PROVE BeforeAuth'
    <3>1. Wanted' = Wanted \cup {c}
      BY <2>8 DEF Subscribe, Wanted, HandshakeInv, TypeOK
    <3>2. /\ client'.socket = client.socket
          /\ client'.pending = IF Up THEN client.pending \cup {c} ELSE client.pending
          /\ UNCHANGED <<toServer, toClient, serverVars, mailbox, wire, excused>>
      BY <1>c, <2>1, <2>8 DEF Subscribe, ClientOK
    <3>3. Greeting => Greeting'
      BY <3>2 DEF Greeting, serverVars
    <3> QED
      BY <2>2, <3>1, <3>2, <3>3 DEF PendingIsWanted, Offline, serverVars
  <2>9. ASSUME NEW c \in Channels, Unsubscribe(c) PROVE BeforeAuth'
    <3>1. Wanted' = Wanted \ {c}
      BY <2>9 DEF Unsubscribe, Wanted, HandshakeInv, TypeOK
    <3>2. /\ excused' = IF Up THEN excused \cup {c} ELSE excused
          /\ UNCHANGED <<client, toServer, toClient, serverVars, mailbox, wire>>
      BY <2>1, <2>9 DEF Unsubscribe
    <3>3. Greeting => Greeting'
      BY <3>2 DEF Greeting, serverVars
    <3> QED
      BY <2>2, <3>1, <3>2, <3>3 DEF PendingIsWanted, Offline, serverVars
  <2>10. CASE HandleAuthenticate
    <3>1. /\ toServer # <<>> /\ toServer' = Tail(toServer)
          /\ server' = [server EXCEPT !.at = "authenticating"]
          /\ UNCHANGED <<client, callbacks, toClient, joined, mailbox, wire, excused>>
      BY <2>10 DEF HandleAuthenticate, Handling, clientVars
    <3>2. toServer' = <<>> /\ Up /\ toClient' = <<>>
      BY <2>4, <3>1
    <3> QED
      BY <1>s, <2>2, <3>1, <3>2 DEF Greeting, PendingIsWanted, Wanted, ServerOK
  <2>11. ASSUME NEW f \in Flows, AuthDone(f) PROVE BeforeAuth'
    <3>1. toClient = <<>> /\ toServer = <<>> /\ Up
      BY <2>2, <2>11 DEF AuthDone, Greeting, Offline
    <3>2. /\ server' = [server EXCEPT !.at = "idle", !.authed = TRUE, !.flow = f]
          /\ toClient' = <<Msg("authenticated", none, f)>>
          /\ UNCHANGED <<client, callbacks, toServer, joined, mailbox, wire, excused>>
      BY <2>11, <3>1 DEF AuthDone, clientVars
    <3>3. server'.at = "idle" /\ server'.flow = f /\ server'.subs = server.subs
          /\ server'.target = server.target
      BY <1>s, <3>2 DEF ServerOK
    <3> QED
      BY <2>2, <3>1, <3>2, <3>3 DEF Greeting, PendingIsWanted, Wanted
  <2>12. CASE \E f \in Flows : SetFlow(f)
    BY <2>1, <2>12 DEF SetFlow
  <2>13. CASE Arrival
    <3>1. ~Authenticated
      BY <1>c, AuthenticatedStep DEF ClientOK
    <3>2. Arrives("flow_changed") \/ Arrives("error") \/ Arrives("data")
      BY <2>13, <3>1 DEF Arrival, FlowChanged, ErrorArrives, DataArrives
    <3> QED
      BY <2>5, <3>2 DEF Arrives, Msg
  <2>14. CASE HandleSetFlow \/ HandleSubscribe \/ HandleUnsubscribe
              \/ RateLimited("subscribe") \/ RateLimited("unsubscribe")
    BY <2>4, <2>14 DEF HandleSetFlow, HandleSubscribe, HandleUnsubscribe, RateLimited, Handling, Msg
  <2>15. CASE AllLeft \/ AllJoined \/ SnapshotsSent
              \/ \E c \in Channels : Leave(c) \/ Join(c) \/ SendSnapshot(c)
    BY <2>3, <2>15 DEF AllLeft, AllJoined, SnapshotsSent, Leave, Join, SendSnapshot
  <2>16. CASE BroadcastMessage \/ Forward \/ \E c \in Channels, f \in Flows : Broadcast(c, f)
    BY <2>2, <2>16 DEF BroadcastMessage, Forward, Broadcast
  <2>17. CASE ListenerEnds \/ ListenerRestarts \/ ListenerFails \/ WindowSlides \/ UNCHANGED vars
    <3>1. /\ UNCHANGED <<client, callbacks, toServer, toClient, server, joined, mailbox, excused>>
          /\ wire' \in {wire, <<>>}
      BY <2>17 DEF ListenerEnds, ListenerRestarts, ListenerFails, Listening, WindowSlides, vars,
         clientVars, serverVars
    <3>2. Greeting => Greeting'
      BY <3>1 DEF Greeting
    <3> QED
      BY <2>2, <3>1, <3>2 DEF PendingIsWanted, Wanted, Offline
  <2> QED
    BY <1>2, <2>6, <2>7, <2>8, <2>9, <2>10, <2>11, <2>12, <2>13, <2>14, <2>15, <2>16, <2>17
    DEF Next, Handler, Listener
<1> QED
  BY <1>1, <1>2

\* The handshake happens once in a connection.
LEMMA AfterAuthStep == HandshakeInv /\ [Next]_vars => AfterAuth'
<1> SUFFICES ASSUME HandshakeInv, [Next]_vars, client'.authed PROVE AfterAuth'
  BY DEF AfterAuth
<1>c. ClientOK
  BY DEF HandshakeInv, TypeOK, ClientOK
<1>s. ServerOK
  BY DEF HandshakeInv, TypeOK, ServerOK
<1>q. toServer \in Seq(Requests) /\ toClient \in Seq(Answers)
  BY DEF HandshakeInv, QueuesOK
<1> USE DEF AfterAuth, Up
<1>1. CASE Authenticated
  <2>1. UnderWay(toClient') = {}
    BY <1>1, AuthenticatedStep DEF UnderWay
  <2>2. \A m \in UnderWay(toServer') : m.kind # "authenticate"
    BY <1>1, AuthenticatedStep DEF Msg
  <2> QED
    BY <1>1, <1>c, <2>1, <2>2, AuthenticatedStep DEF ClientOK, serverVars
<1>2. CASE ~Authenticated
  <2>1. client.authed
    <3>1. ~Connect /\ ~Close
      BY <1>c DEF Connect, Close, ClientOK
    <3> QED
      BY <1>2, <1>c, <3>1, AuthedKept
  <2>2. /\ Up /\ client.pending = {} /\ server.at # "authenticating"
        /\ \A m \in UnderWay(toServer) : m.kind # "authenticate"
        /\ \A m \in UnderWay(toClient) : m.kind # "authenticated"
    BY <2>1 DEF HandshakeInv
  \* What each step adds to the queues.
  <2>s. ASSUME NEW m \in Requests, m.kind # "authenticate", toServer' = Append(toServer, m)
        PROVE  \A n \in UnderWay(toServer') : n.kind # "authenticate"
    BY <1>q, <2>2, <2>s, AppendUnderWay
  <2>a. ASSUME NEW m \in Answers, m.kind # "authenticated", toClient' = Append(toClient, m)
        PROVE  \A n \in UnderWay(toClient') : n.kind # "authenticated"
    BY <1>q, <2>2, <2>a, AppendUnderWay
  <2>h. ASSUME NEW kind, Handling(kind)
        PROVE  \A n \in UnderWay(toServer') : n.kind # "authenticate"
    BY <2>2, <2>h, HandlingStep
  <2>r. ASSUME NEW kind, Arrives(kind)
        PROVE  \A n \in UnderWay(toClient') : n.kind # "authenticated"
    BY <2>2, <2>r, ArrivesStep
  <2>u. UNCHANGED toServer => \A n \in UnderWay(toServer') : n.kind # "authenticate"
    BY <2>2
  <2>v. UNCHANGED toClient => \A n \in UnderWay(toClient') : n.kind # "authenticated"
    BY <2>2
  <2>3. CASE FlowSwitchTimeout
    BY <1>c, <2>2, <2>3, <2>u, <2>v DEF FlowSwitchTimeout, ClientOK, serverVars
  <2>4. ASSUME NEW c \in Channels, Subscribe(c) \/ Unsubscribe(c) PROVE AfterAuth'
    <3>1. \E m \in Requests : m.kind # "authenticate" /\ toServer' = Append(toServer, m)
      BY <2>1, <2>2, <2>4, RequestFields DEF Subscribe, Unsubscribe, Msg
    <3> QED
      BY <1>c, <2>1, <2>2, <2>4, <2>s, <2>v, <3>1 DEF Subscribe, Unsubscribe, serverVars
  <2>5. ASSUME NEW f \in Flows, SetFlow(f) PROVE AfterAuth'
    <3>1. \E m \in Requests : m.kind # "authenticate" /\ toServer' = Append(toServer, m)
      BY <2>5, RequestFields DEF SetFlow, Msg
    <3> QED
      BY <1>c, <2>2, <2>5, <2>s, <2>v, <3>1 DEF SetFlow, serverVars, ClientOK
  <2>6. CASE FlowChanged \/ ErrorArrives \/ DataArrives
    BY <1>c, <2>2, <2>6, <2>r, <2>u DEF FlowChanged, ErrorArrives, DataArrives, Arrives, serverVars,
       ClientOK
  <2>7. CASE HandleAuthenticate
    <3>1. Head(toServer) \in UnderWay(toServer) /\ Head(toServer).kind = "authenticate"
      BY <2>7, HandlingStep DEF HandleAuthenticate
    <3> QED
      BY <2>2, <3>1
  <2>8. ASSUME NEW f \in Flows, AuthDone(f) PROVE FALSE
    BY <2>2, <2>8 DEF AuthDone
  <2>9. CASE HandleSetFlow
    <3>1. Handling("set_flow")
      BY <2>9 DEF HandleSetFlow
    <3>2. Head(toServer).flow \in Flows
      BY <3>1, HandlingStep, RequestFields
    <3>3. UNCHANGED toClient \/ \E m \in Answers : m.kind # "authenticated" /\ toClient' = Append(toClient, m)
      BY <2>9, <3>2, AnswerFields DEF HandleSetFlow, Msg
    <3>4. \A n \in UnderWay(toClient') : n.kind # "authenticated"
      BY <2>a, <2>v, <3>3
    <3>5. server'.at # "authenticating"
      BY <1>s, <2>2, <2>9 DEF HandleSetFlow, ServerOK
    <3> QED
      BY <2>2, <2>h, <3>1, <3>4, <3>5 DEF Handling, clientVars
  <2>10. ASSUME NEW kind \in {"subscribe", "unsubscribe"}, RateLimited(kind) PROVE AfterAuth'
    <3>1. \E m \in Answers : m.kind # "authenticated" /\ toClient' = Append(toClient, m)
      BY <2>10, AnswerFields DEF RateLimited, Msg
    <3> QED
      BY <2>2, <2>10, <2>a, <2>h, <3>1 DEF RateLimited, Handling, clientVars, serverVars
  <2>11. CASE HandleSubscribe \/ HandleUnsubscribe
    <3>1. \A n \in UnderWay(toServer') : n.kind # "authenticate"
      BY <2>11, <2>h DEF HandleSubscribe, HandleUnsubscribe
    <3>2. server'.at # "authenticating"
      BY <1>s, <2>2, <2>11 DEF HandleSubscribe, HandleUnsubscribe, ServerOK
    <3> QED
      BY <2>2, <2>11, <2>v, <3>1, <3>2 DEF HandleSubscribe, HandleUnsubscribe, Handling, clientVars
  <2>12. CASE AllLeft \/ SnapshotsSent \/ \E c \in Channels : Leave(c) \/ Join(c)
    <3>1. server'.at # "authenticating"
      BY <1>s, <2>2, <2>12 DEF AllLeft, SnapshotsSent, Leave, Join, ServerOK
    <3> QED
      BY <2>2, <2>12, <2>u, <2>v, <3>1 DEF AllLeft, SnapshotsSent, Leave, Join, Working, clientVars
  <2>13. CASE AllJoined
    <3>1. UNCHANGED toClient \/ \E m \in Answers : m.kind # "authenticated" /\ toClient' = Append(toClient, m)
      BY <1>s, <2>13, AnswerFields DEF AllJoined, Msg, ServerOK
    <3>2. server'.at # "authenticating"
      BY <1>s, <2>13 DEF AllJoined, ServerOK
    <3> QED
      BY <2>2, <2>13, <2>a, <2>u, <2>v, <3>1, <3>2 DEF AllJoined, Working, clientVars
  <2>14. ASSUME NEW c \in Channels, SendSnapshot(c) PROVE AfterAuth'
    <3>1. \E m \in Answers : m.kind # "authenticated" /\ toClient' = Append(toClient, m)
      BY <1>s, <2>14, AnswerFields DEF SendSnapshot, Msg, ServerOK
    <3>2. server'.at # "authenticating"
      BY <1>s, <2>2, <2>14 DEF SendSnapshot, ServerOK
    <3> QED
      BY <2>2, <2>14, <2>a, <2>u, <3>1, <3>2 DEF SendSnapshot, Working, clientVars
  <2>15. CASE BroadcastMessage \/ Forward
    <3>1. mailbox \in Seq(Channels \X Flows) /\ wire \in Seq(Channels \X Flows)
      BY DEF HandshakeInv, TypeOK
    <3>2. PICK cf \in Channels \X Flows : toClient' = Append(toClient, Msg("data", cf[1], cf[2]))
      BY <2>15, <3>1, HeadTailProperties DEF BroadcastMessage, Forward
    <3>3. Msg("data", cf[1], cf[2]) \in Answers /\ Msg("data", cf[1], cf[2]).kind # "authenticated"
      BY AnswerFields DEF Msg
    <3> QED
      BY <2>2, <2>15, <2>a, <2>u, <3>2, <3>3 DEF BroadcastMessage, Forward, clientVars, serverVars
  <2>16. CASE ListenerEnds \/ ListenerRestarts \/ ListenerFails \/ WindowSlides \/ UNCHANGED vars
              \/ \E c \in Channels, f \in Flows : Broadcast(c, f)
    BY <2>2, <2>16, <2>u, <2>v DEF ListenerEnds, ListenerRestarts, ListenerFails, Listening, WindowSlides,
       Broadcast, vars, clientVars, serverVars
  <2>17. CASE Connect \/ Close
    BY <1>c, <2>2, <2>17 DEF Connect, Close, ClientOK
  <2> QED
    BY <1>2, <2>3, <2>4, <2>5, <2>6, <2>7, <2>8, <2>9, <2>10, <2>11, <2>12, <2>13, <2>14, <2>15, <2>16, <2>17
    DEF Next, Arrival, Handler, Listener
<1> QED
  BY <1>1, <1>2

LEMMA HandshakeStep == HandshakeInv /\ [Next]_vars => HandshakeInv'
<1>1. QueuesOK' /\ ClientOK' /\ ServerOK' /\ BroadcastsOK' /\ OthersOK' => TypeOK'
  BY TypeParts, PTL
<1> QED
  BY <1>1, QueuesStep, ClientStep, ServerStep, BroadcastsStep, OthersStep, BeforeAuthStep, AfterAuthStep
  DEF HandshakeInv

LEMMA HandshakeInvariant == Spec => []HandshakeInv
<1>1. Init => HandshakeInv
  <2> SUFFICES ASSUME Init PROVE HandshakeInv
    OBVIOUS
  <2>1. QueuesOK
    BY DEF Init, QueuesOK
  <2>2. ServerOK
    BY DEF Init, ServerOK, NewConsumer, Flows
  <2>3. ClientOK
    BY DEF Init, ClientOK, Flows
  <2>4. BroadcastsOK /\ OthersOK
    BY LimitsAssumption DEF Init, BroadcastsOK, OthersOK
  <2>5. TypeOK
    BY <2>1, <2>2, <2>3, <2>4, TypeParts
  <2>6. BeforeAuth /\ AfterAuth
    BY DEF Init, BeforeAuth, AfterAuth, Fresh, Offline, NewConsumer, Up
  <2> QED
    BY <2>1, <2>5, <2>6 DEF HandshakeInv
<1> QED
  BY <1>1, HandshakeStep, PTL DEF Spec

\* Both ends, the messages between them, the groups and the listener are well-typed,
\* whatever is asked for, refused, broadcast or lost.
THEOREM SessionTypeCorrect == Spec => []TypeOK
<1>1. HandshakeInv => TypeOK
  BY DEF HandshakeInv
<1> QED
  BY <1>1, HandshakeInvariant, PTL

-----------------------------------------------------------------------------
(* The groups of the consumer *)

\* The channels whose groups it is in, in the middle of a handler too: a switch
\* leaves all of its subscriptions and joins them again, one await at a time.
Attached ==
    IF server.at = "leaving"
    THEN IF server.target = none THEN server.subs \cup server.todo ELSE server.todo
    ELSE IF server.at = "joining" THEN server.subs \ server.todo ELSE server.subs

TodoOK ==
    /\ server.at = "leaving" /\ server.target = none => server.todo \cap server.subs = {}
    /\ server.at = "leaving" /\ server.target # none => server.todo \subseteq server.subs
    /\ server.at = "joining" => /\ server.target \in {none, server.flow}
                                /\ server.todo \subseteq server.subs
    /\ server.at \notin {"leaving", "joining"} => server.target = none

ListenerOK == InPubSub # {} => listener # "none"

GroupsInv == TodoOK /\ joined = Attached \X {server.flow} /\ ListenerOK

LEMMA GroupsStep == GroupsInv /\ HandshakeInv /\ [Next]_vars => GroupsInv'
<1> SUFFICES ASSUME GroupsInv, HandshakeInv, [Next]_vars PROVE GroupsInv'
  OBVIOUS
<1>s. ServerOK
  BY DEF HandshakeInv, TypeOK, ServerOK
<1>g. TodoOK /\ joined = Attached \X {server.flow} /\ ListenerOK
  BY DEF GroupsInv
<1>n. none \notin Flows
  BY DEF none, Flows
<1>1. ASSUME UNCHANGED <<server, joined, listener>> PROVE GroupsInv'
  BY <1>1, <1>g DEF GroupsInv, TodoOK, Attached, ListenerOK, InPubSub
<1>2. ASSUME UNCHANGED <<joined, listener>> PROVE ListenerOK'
  BY <1>2, <1>g DEF ListenerOK, InPubSub
<1>3. CASE Close
  BY <1>3 DEF Close, NewConsumer, GroupsInv, TodoOK, Attached, ListenerOK, InPubSub
<1>4. CASE HandleAuthenticate
  <2>1. /\ server' = [server EXCEPT !.at = "authenticating"] /\ server.at = "idle"
        /\ UNCHANGED <<joined, listener>>
    BY <1>4 DEF HandleAuthenticate, Handling
  <2> QED
    BY <1>2, <1>g, <1>s, <2>1 DEF GroupsInv, TodoOK, Attached, ServerOK
<1>5. ASSUME NEW f \in Flows, AuthDone(f) PROVE GroupsInv'
  <2>1. ~client.authed
    BY <1>5 DEF AuthDone, HandshakeInv, AfterAuth
  <2>2. server.subs = {} /\ server.target = none /\ joined = {}
    BY <2>1 DEF HandshakeInv, BeforeAuth, Fresh
  <2>3. /\ server' = [server EXCEPT !.at = "idle", !.authed = TRUE, !.flow = f]
        /\ UNCHANGED <<joined, listener>>
    BY <1>5 DEF AuthDone
  <2> QED
    BY <1>2, <1>s, <2>2, <2>3 DEF GroupsInv, TodoOK, Attached, ServerOK
<1>6. CASE HandleSetFlow
  <2>1. Head(toServer).flow \in Flows
    BY <1>6, HandlingStep, RequestFields DEF HandleSetFlow
  <2>2. server.at = "idle" /\ UNCHANGED <<joined, listener>>
    BY <1>6 DEF HandleSetFlow, Handling
  <2>3. CASE UNCHANGED server
    BY <1>1, <2>2, <2>3
  <2>4. CASE server' = [server EXCEPT !.at = "leaving", !.todo = server.subs,
                                      !.target = Head(toServer).flow]
    BY <1>2, <1>g, <1>n, <1>s, <2>1, <2>2, <2>4 DEF GroupsInv, TodoOK, Attached, ServerOK
  <2> QED
    BY <1>6, <2>3, <2>4 DEF HandleSetFlow
<1>7. CASE HandleSubscribe
  <2> DEFINE c == Head(toServer).channel
  <2>1. server.at = "idle" /\ UNCHANGED <<joined, listener>>
    BY <1>7 DEF HandleSubscribe, Handling
  <2>2. CASE c \in server.subs
    BY <1>1, <1>7, <2>1, <2>2 DEF HandleSubscribe
  <2>3. CASE c \notin server.subs
    <3>1. /\ server' = [server EXCEPT !.subs = @ \cup {c}, !.at = "joining",
                                      !.todo = {c}, !.fresh = {c}]
      BY <1>7, <2>3 DEF HandleSubscribe
    <3> HIDE DEF c
    <3>2. /\ server'.subs = server.subs \cup {c} /\ server'.at = "joining" /\ server'.todo = {c}
          /\ server'.flow = server.flow /\ server'.target = server.target
      BY <1>s, <3>1 DEF ServerOK
    <3>3. server.target = none
      BY <1>g, <2>1 DEF TodoOK
    <3>4. Attached' = server.subs /\ Attached = server.subs
      BY <2>1, <2>3, <3>2 DEF Attached
    <3> QED
      BY <1>2, <1>g, <2>1, <3>2, <3>3, <3>4 DEF GroupsInv, TodoOK
  <2> QED
    BY <2>2, <2>3
<1>8. CASE HandleUnsubscribe
  <2> DEFINE c == Head(toServer).channel
  <2>1. server.at = "idle" /\ UNCHANGED <<joined, listener>>
    BY <1>8 DEF HandleUnsubscribe, Handling
  <2>2. CASE c \notin server.subs
    BY <1>1, <1>8, <2>1, <2>2 DEF HandleUnsubscribe
  <2>3. CASE c \in server.subs
    <3>1. /\ server' = [server EXCEPT !.subs = @ \ {c}, !.at = "leaving", !.todo = {c}]
      BY <1>8, <2>3 DEF HandleUnsubscribe
    <3> HIDE DEF c
    <3>2. /\ server'.subs = server.subs \ {c} /\ server'.at = "leaving" /\ server'.todo = {c}
          /\ server'.flow = server.flow /\ server'.target = server.target
      BY <1>s, <3>1 DEF ServerOK
    <3>3. server.target = none
      BY <1>g, <2>1 DEF TodoOK
    <3>4. Attached' = server.subs /\ Attached = server.subs
      BY <2>1, <2>3, <3>2, <3>3 DEF Attached
    <3> QED
      BY <1>2, <1>g, <2>1, <3>2, <3>3, <3>4 DEF GroupsInv, TodoOK
  <2> QED
    BY <2>2, <2>3
<1>9. ASSUME NEW c \in Channels, Leave(c) PROVE GroupsInv'
  <2>1. /\ server.at = "leaving" /\ c \in server.todo
        /\ server' = [server EXCEPT !.todo = @ \ {c}]
        /\ joined' = joined \ {<<c, server.flow>>} /\ UNCHANGED listener
    BY <1>9 DEF Leave
  <2>2. /\ server'.subs = server.subs /\ server'.at = "leaving" /\ server'.todo = server.todo \ {c}
        /\ server'.flow = server.flow /\ server'.target = server.target
    BY <1>s, <2>1 DEF ServerOK
  <2>3. TodoOK'
    BY <1>g, <2>1, <2>2 DEF TodoOK
  <2>4. Attached' = Attached \ {c}
    BY <1>g, <2>1, <2>2 DEF TodoOK, Attached
  <2>5. ListenerOK'
    BY <1>g, <2>1 DEF ListenerOK, InPubSub
  <2> QED
    BY <1>g, <2>1, <2>2, <2>3, <2>4, <2>5 DEF GroupsInv
<1>10. CASE AllLeft
  <2>1. server.at = "leaving" /\ server.todo = {} /\ UNCHANGED <<joined, listener>>
    BY <1>10 DEF AllLeft
  <2>2. CASE server.target = none
    <3>1. server' = [server EXCEPT !.at = "idle"]
      BY <1>10, <2>2 DEF AllLeft
    <3> QED
      BY <1>2, <1>g, <1>s, <2>1, <2>2, <3>1 DEF GroupsInv, TodoOK, Attached, ServerOK
  <2>3. CASE server.target # none
    <3>1. server' = [server EXCEPT !.flow = server.target, !.at = "joining",
                                   !.todo = server.subs, !.fresh = server.subs]
      BY <1>10, <2>3 DEF AllLeft
    <3>2. Attached = {} /\ Attached' = {}
      BY <1>s, <2>1, <2>3, <3>1 DEF Attached, ServerOK
    <3>3. joined = {} /\ joined' = Attached' \X {server'.flow}
      BY <1>g, <2>1, <3>2
    <3> QED
      BY <1>2, <1>s, <2>1, <3>1, <3>3 DEF GroupsInv, TodoOK, ServerOK
  <2> QED
    BY <2>2, <2>3
<1>11. ASSUME NEW c \in Channels, Join(c) PROVE GroupsInv'
  <2>1. /\ server.at = "joining" /\ c \in server.todo
        /\ server' = [server EXCEPT !.todo = @ \ {c}]
        /\ joined' = joined \cup {<<c, server.flow>>}
        /\ listener' = IF c \in PubSub /\ listener = "none" THEN "running" ELSE listener
    BY <1>11 DEF Join
  <2>2. /\ server'.subs = server.subs /\ server'.at = "joining" /\ server'.todo = server.todo \ {c}
        /\ server'.flow = server.flow /\ server'.target = server.target
    BY <1>s, <2>1 DEF ServerOK
  <2>3. TodoOK'
    BY <1>g, <2>1, <2>2 DEF TodoOK
  <2>4. c \in server.subs
    BY <1>g, <2>1 DEF TodoOK
  <2>5. Attached' = Attached \cup {c}
    BY <2>1, <2>2, <2>4 DEF Attached
  <2>6. ListenerOK'
    BY <1>g, <2>1 DEF ListenerOK, InPubSub
  <2> QED
    BY <1>g, <2>1, <2>2, <2>3, <2>5, <2>6 DEF GroupsInv
<1>12. CASE AllJoined
  <2>1. /\ server.at = "joining" /\ server.todo = {} /\ UNCHANGED <<joined, listener>>
        /\ server' = [server EXCEPT !.at = "snapshots", !.todo = server.fresh \cap Snapshotted,
                                    !.fresh = {}, !.target = none]
    BY <1>12 DEF AllJoined
  <2> QED
    BY <1>2, <1>g, <1>s, <2>1 DEF GroupsInv, TodoOK, Attached, ServerOK
<1>13. ASSUME SnapshotsSent \/ \E c \in Channels : SendSnapshot(c) PROVE GroupsInv'
  <2>1. /\ server.at = "snapshots" /\ UNCHANGED <<joined, listener>>
        /\ server'.subs = server.subs /\ server'.at \in {"idle", "snapshots"}
        /\ server'.flow = server.flow /\ server'.target = server.target
    BY <1>13, <1>s DEF SnapshotsSent, SendSnapshot, ServerOK
  <2> QED
    BY <1>2, <1>g, <2>1 DEF GroupsInv, TodoOK, Attached
<1>14. CASE ListenerEnds \/ ListenerFails \/ ListenerRestarts
  <2>1. UNCHANGED <<server, joined>> /\ (listener' = "none" => InPubSub = {} \/ listener = "none")
    BY <1>14 DEF ListenerEnds, ListenerFails, ListenerRestarts, Listening
  <2>2. ListenerOK'
    BY <1>g, <2>1 DEF ListenerOK, InPubSub
  <2> QED
    BY <1>g, <2>1, <2>2 DEF GroupsInv, TodoOK, Attached
<1>15. ASSUME NEW kind \in {"subscribe", "unsubscribe"}, RateLimited(kind)
       PROVE  GroupsInv'
  BY <1>1, <1>15 DEF RateLimited, serverVars
<1>16. CASE Connect \/ FlowSwitchTimeout \/ (\E c \in Channels : Subscribe(c) \/ Unsubscribe(c))
            \/ (\E f \in Flows : SetFlow(f)) \/ Arrival \/ BroadcastMessage \/ Forward
            \/ (\E c \in Channels, f \in Flows : Broadcast(c, f)) \/ WindowSlides \/ UNCHANGED vars
  <2>1. UNCHANGED <<server, joined, listener>>
    BY <1>16 DEF Connect, FlowSwitchTimeout, Subscribe, Unsubscribe, SetFlow, Arrival, Authenticated,
       FlowChanged, ErrorArrives, DataArrives, Arrives, BroadcastMessage, Forward, Broadcast,
       WindowSlides, vars, serverVars
  <2> QED
    BY <1>1, <2>1
<1> QED
  BY <1>3, <1>4, <1>5, <1>6, <1>7, <1>8, <1>9, <1>10, <1>11, <1>12, <1>13, <1>14, <1>15, <1>16
  DEF Next, Handler, Listener

LEMMA GroupsInvariant == Spec => []GroupsInv
<1>1. Init => GroupsInv
  BY DEF Init, NewConsumer, GroupsInv, TodoOK, Attached, ListenerOK, InPubSub
<1> QED
  BY <1>1, HandshakeInvariant, GroupsStep, PTL DEF Spec

\* Between two handlers the consumer is in exactly the groups of its subscriptions
\* and in their current flow, however subscriptions, switches, listener failures
\* and broadcasts interleave; and a Redis subscription is never without a listener.
THEOREM ConsumerStaysConsistent == Spec => []ConsumerConsistent
<1>1. GroupsInv => ConsumerConsistent
  BY DEF GroupsInv, Attached, ListenerOK, ConsumerConsistent
<1> QED
  BY <1>1, GroupsInvariant, PTL

-----------------------------------------------------------------------------
(* The two ends *)

RequestsFor(c) == {Msg("subscribe", c, none), Msg("unsubscribe", c, none)}
AsWanted(c) == {Msg(IF callbacks[c] = 1 THEN "subscribe" ELSE "unsubscribe", c, none)}
Served(c) == c \in server.subs <=> callbacks[c] = 1

\* The last request under way for a channel asks for what the components want now.
ChannelsInv ==
    client.authed =>
        \A c \in Channels \ excused : Decided(toServer, RequestsFor(c), AsWanted(c), Served(c))

Confirmations == {Msg("flow_changed", none, f) : f \in Flows}
Confirmed == {Msg("flow_changed", none, server.flow)}
SameFlow == client.flow = server.flow
NoSwitchAsked == \A m \in UnderWay(toServer) : m.kind # "set_flow"

\* Unless a switch is asked for or going on, the last confirmation under way is of
\* the consumer's flow.
FlowInv ==
    client.authed /\ server.target = none /\ NoSwitchAsked =>
        Decided(toClient, Confirmations, Confirmed, SameFlow)

LEMMA ChannelsStep == ChannelsInv /\ HandshakeInv /\ [Next]_vars => ChannelsInv'
<1> SUFFICES ASSUME ChannelsInv, HandshakeInv, [Next]_vars,
                    client'.authed, NEW c \in Channels \ excused'
             PROVE  Decided(toServer, RequestsFor(c), AsWanted(c), Served(c))'
  BY DEF ChannelsInv
<1> DEFINE M == RequestsFor(c)
           D == Decided(toServer, RequestsFor(c), AsWanted(c), Served(c))
<1>b. Served(c) \in BOOLEAN /\ Served(c)' \in BOOLEAN
  BY DEF Served
<1>c. ClientOK
  BY DEF HandshakeInv, TypeOK, ClientOK
<1>s. ServerOK
  BY DEF HandshakeInv, TypeOK, ServerOK
<1>q. toServer \in Seq(Requests) /\ callbacks \in [Channels -> 0..1]
  BY DEF HandshakeInv, QueuesOK, TypeOK
<1>1. CASE Authenticated
  <2>1. /\ Wanted \subseteq client.pending /\ client.pending \subseteq Wanted \cup excused
        /\ server.subs = {} /\ UNCHANGED <<server, callbacks, excused>>
        /\ toServer' \in Seq(Requests)
        /\ UnderWay(toServer') \subseteq {Msg("set_flow", none, ResolvedFlow(server.flow))}
                               \cup {Msg("subscribe", d, none) : d \in client.pending}
        /\ \A d \in client.pending : Msg("subscribe", d, none) \in UnderWay(toServer')
    BY <1>1, AuthenticatedStep DEF PendingIsWanted, Fresh, serverVars
  <2>2. \A i \in DOMAIN toServer' : toServer'[i] \in UnderWay(toServer')
    BY DEF UnderWay
  <2>3. CASE c \in client.pending
    <3>1. callbacks'[c] = 1
      BY <1>q, <2>1, <2>3 DEF Wanted
    <3>2. \A m \in UnderWay(toServer') : m \in M => m = Msg("subscribe", c, none)
      BY <2>1 DEF RequestsFor, Msg
    <3>3. Msg("subscribe", c, none) \in AsWanted(c)' /\ Msg("subscribe", c, none) \in M
      BY <3>1 DEF AsWanted, RequestsFor
    <3>4. \E i \in DOMAIN toServer' : toServer'[i] = Msg("subscribe", c, none)
      BY <2>1, <2>3 DEF UnderWay
    <3> QED
      BY <2>2, <3>2, <3>3, <3>4 DEF Decided
  <2>4. CASE c \notin client.pending
    <3>1. callbacks[c] # 1
      BY <2>1, <2>4 DEF Wanted
    <3>2. Served(c)'
      BY <2>1, <3>1 DEF Served
    <3>3. \A m \in UnderWay(toServer') : m \notin M
      BY <2>1, <2>4 DEF RequestsFor, Msg
    <3> QED
      BY <2>2, <3>2, <3>3 DEF Decided
  <2> QED
    BY <2>3, <2>4
<1>2. CASE ~Authenticated
  <2>1. client.authed /\ ~Connect /\ ~Close
    BY <1>2, <1>c, AuthedKept DEF Connect, Close, ClientOK
  <2>2. c \notin excused => D
    BY <2>1 DEF ChannelsInv
  <2>3. ASSUME NEW d \in Channels, Subscribe(d) \/ Unsubscribe(d)
        PROVE  D'
    <3>1. PICK k \in {"subscribe", "unsubscribe"} :
            /\ toServer' = Append(toServer, Msg(k, d, none))
            /\ callbacks' = [callbacks EXCEPT ![d] = IF k = "subscribe" THEN 1 ELSE 0]
            /\ UNCHANGED <<server, excused>>
      <4>1. Up
        BY <2>1 DEF HandshakeInv, AfterAuth
      <4> QED
        BY <2>1, <2>3, <4>1 DEF Subscribe, Unsubscribe, serverVars
    <3>2. Msg(k, d, none) \in Requests
      BY RequestFields
    <3>3. D
      BY <2>2, <3>1
    <3>4. CASE c = d
      <4>1. Msg(k, d, none) \in M /\ Msg(k, d, none) \in AsWanted(c)'
        BY <1>q, <3>1, <3>4 DEF RequestsFor, AsWanted
      <4>2. Decided(Append(toServer, Msg(k, d, none)), M, AsWanted(c)', Served(c)')
        BY <1>b, <1>q, <3>2, <4>1, DecidedAppend
      <4> QED
        BY <3>1, <4>2 DEF Decided
    <3>5. CASE c # d
      <4>1. Msg(k, d, none) \notin M
        BY <3>5 DEF RequestsFor, Msg
      <4>2. AsWanted(c)' = AsWanted(c) /\ Served(c)' = Served(c)
        BY <1>q, <3>1, <3>5 DEF AsWanted, Served
      <4>3. Decided(Append(toServer, Msg(k, d, none)), M, AsWanted(c), Served(c))
        BY <1>b, <1>q, <3>2, <3>3, <4>1, DecidedAppend
      <4> QED
        BY <3>1, <4>2, <4>3 DEF Decided
    <3> QED
      BY <3>4, <3>5
  <2>4. ASSUME NEW f \in Flows, SetFlow(f) PROVE D'
    <3>1. /\ toServer' = Append(toServer, Msg("set_flow", none, f))
          /\ UNCHANGED <<callbacks, server, excused>>
      BY <2>4 DEF SetFlow, serverVars
    <3>2. Msg("set_flow", none, f) \in Requests /\ Msg("set_flow", none, f) \notin M
      BY RequestFields DEF RequestsFor, Msg
    <3>3. AsWanted(c)' = AsWanted(c) /\ Served(c)' = Served(c) /\ D
      BY <2>2, <3>1 DEF AsWanted, Served
    <3>4. Decided(Append(toServer, Msg("set_flow", none, f)), M, AsWanted(c), Served(c))
      BY <1>b, <1>q, <3>2, <3>3, DecidedAppend
    <3> QED
      BY <3>1, <3>3, <3>4 DEF Decided
  \* A message is handled: what it leaves behind for c.
  <2>5. ASSUME NEW kind, Handling(kind), c \notin excused,
               Head(toServer) \in M /\ Head(toServer) \in AsWanted(c) => Served(c)',
               Head(toServer) \notin M => (Served(c) => Served(c)')
        PROVE  D'
    <3>1. toServer # <<>> /\ toServer' = Tail(toServer) /\ UNCHANGED callbacks
      BY <2>5, HandlingStep DEF clientVars
    <3>2. Decided(Tail(toServer), M, AsWanted(c), Served(c)')
      BY <1>b, <1>q, <2>2, <2>5, <3>1, DecidedTail
    <3>3. AsWanted(c)' = AsWanted(c)
      BY <3>1 DEF AsWanted
    <3> QED
      BY <3>1, <3>2, <3>3 DEF Decided
  <2>6. CASE HandleSubscribe
    <3>1. /\ Handling("subscribe") /\ UNCHANGED <<callbacks, excused>>
          /\ server'.subs = server.subs \cup {Head(toServer).channel}
      BY <1>s, <2>6 DEF HandleSubscribe, Handling, clientVars, ServerOK
    <3>2. Head(toServer) = Msg("subscribe", Head(toServer).channel, none)
      BY <3>1, HandlingStep, RequestFields
    <3>3. Head(toServer) \in M /\ Head(toServer) \in AsWanted(c) => Served(c)'
      BY <3>1, <3>2 DEF RequestsFor, AsWanted, Served, Msg
    <3>4. Head(toServer) \notin M => (Served(c) => Served(c)')
      BY <3>1, <3>2 DEF RequestsFor, Served, Msg
    <3> QED
      BY <2>5, <3>1, <3>3, <3>4
  <2>7. CASE HandleUnsubscribe
    <3>1. /\ Handling("unsubscribe") /\ UNCHANGED <<callbacks, excused>>
          /\ server'.subs = server.subs \ {Head(toServer).channel}
      BY <1>s, <2>7 DEF HandleUnsubscribe, Handling, clientVars, ServerOK
    <3>2. Head(toServer) = Msg("unsubscribe", Head(toServer).channel, none)
      BY <3>1, HandlingStep, RequestFields
    <3>3. Head(toServer) \in M /\ Head(toServer) \in AsWanted(c) => Served(c)'
      BY <3>1, <3>2 DEF RequestsFor, AsWanted, Served, Msg
    <3>4. Head(toServer) \notin M => (Served(c) => Served(c)')
      BY <3>1, <3>2 DEF RequestsFor, Served, Msg
    <3> QED
      BY <2>5, <3>1, <3>3, <3>4
  <2>8. ASSUME NEW kind \in {"subscribe", "unsubscribe"}, RateLimited(kind) PROVE D'
    <3>1. /\ Handling(kind) /\ UNCHANGED <<callbacks, server>>
          /\ c \notin excused /\ c # Head(toServer).channel
      BY <2>8 DEF RateLimited, Handling, clientVars, serverVars
    <3>2. Head(toServer) \notin M /\ Served(c)' = Served(c)
      BY <3>1 DEF RequestsFor, Served, Msg
    <3> QED
      BY <2>5, <3>1, <3>2
  <2>9. CASE HandleSetFlow \/ HandleAuthenticate
    <3>1. PICK kind \in {"set_flow", "authenticate"} : Handling(kind)
      BY <2>9 DEF HandleSetFlow, HandleAuthenticate
    <3>2. server'.subs = server.subs /\ UNCHANGED <<callbacks, excused>>
      BY <1>s, <2>9 DEF HandleSetFlow, HandleAuthenticate, Handling, clientVars, ServerOK
    <3>3. Head(toServer) \notin M /\ Served(c)' = Served(c)
      BY <3>1, <3>2, HandlingStep DEF RequestsFor, Served, Msg
    <3> QED
      BY <2>5, <3>1, <3>2, <3>3
  <2>10. ASSUME UNCHANGED <<toServer, callbacks, excused>>, server'.subs = server.subs PROVE D'
    <3>1. AsWanted(c)' = AsWanted(c) /\ Served(c)' = Served(c) /\ D
      BY <2>2, <2>10 DEF AsWanted, Served
    <3> QED
      BY <2>10, <3>1 DEF Decided
  <2>11. CASE \/ FlowSwitchTimeout \/ FlowChanged \/ ErrorArrives \/ DataArrives
              \/ Surroundings \/ UNCHANGED vars
    BY <2>10, <2>11 DEF FlowSwitchTimeout, FlowChanged, ErrorArrives, DataArrives, Arrives,
       Surroundings, BroadcastMessage, Listener, Forward, ListenerEnds, ListenerRestarts,
       ListenerFails, Listening, WindowSlides, Broadcast, vars, clientVars, serverVars
  <2>12. CASE \/ (\E f \in Flows : AuthDone(f)) \/ AllLeft \/ AllJoined \/ SnapshotsSent
              \/ \E d \in Channels : Leave(d) \/ Join(d) \/ SendSnapshot(d)
    <3>1. server'.subs = server.subs
      BY <1>s, <2>12 DEF AuthDone, AllLeft, AllJoined, SnapshotsSent, Leave, Join, SendSnapshot, ServerOK
    <3>2. UNCHANGED <<toServer, callbacks, excused>>
      BY <2>12 DEF AuthDone, AllLeft, AllJoined, SnapshotsSent, Leave, Join, SendSnapshot, Working,
         clientVars
    <3> QED
      BY <2>10, <3>1, <3>2
  <2> QED
    BY <1>2, <2>1, <2>3, <2>4, <2>6, <2>7, <2>8, <2>9, <2>11, <2>12
    DEF Next, Arrival, Handler, Surroundings
<1> QED
  BY <1>1, <1>2

LEMMA FlowStep == FlowInv /\ GroupsInv /\ HandshakeInv /\ [Next]_vars => FlowInv'
<1> SUFFICES ASSUME FlowInv, GroupsInv, HandshakeInv, [Next]_vars,
                    client'.authed, server'.target = none, NoSwitchAsked'
             PROVE  Decided(toClient, Confirmations, Confirmed, SameFlow)'
  BY DEF FlowInv
<1> DEFINE D == Decided(toClient, Confirmations, Confirmed, SameFlow)
<1>b. SameFlow \in BOOLEAN /\ SameFlow' \in BOOLEAN
  BY DEF SameFlow
<1>c. ClientOK
  BY DEF HandshakeInv, TypeOK, ClientOK
<1>s. ServerOK
  BY DEF HandshakeInv, TypeOK, ServerOK
<1>q. toServer \in Seq(Requests) /\ toClient \in Seq(Answers)
  BY DEF HandshakeInv, QueuesOK
<1>n. none \notin Flows
  BY DEF none, Flows
<1>1. CASE Authenticated
  <2>1. client'.flow = ResolvedFlow(server.flow) /\ UNCHANGED server /\ toClient' = <<>>
    BY <1>1, <1>c, AuthenticatedStep DEF ClientOK, serverVars
  <2>2. Msg("set_flow", none, ResolvedFlow(server.flow)) \notin UnderWay(toServer')
    BY DEF NoSwitchAsked, Msg
  <2>3. ResolvedFlow(server.flow) = server.flow
    BY <1>1, <2>2, AuthenticatedStep
  <2>4. SameFlow'
    BY <2>1, <2>3 DEF SameFlow
  <2> QED
    BY <2>1, <2>4 DEF Decided
<1>2. CASE ~Authenticated
  <2>1. client.authed /\ ~Connect /\ ~Close
    BY <1>2, <1>c, AuthedKept DEF Connect, Close, ClientOK
  <2>2. server.target = none /\ NoSwitchAsked => D
    BY <2>1 DEF FlowInv
  \* Nothing that bears on the flow happens.
  <2>3. ASSUME UNCHANGED toClient, server'.flow = server.flow, client'.flow = client.flow, D
        PROVE  D'
    <3>1. Confirmed' = Confirmed /\ SameFlow' = SameFlow /\ Confirmations' = Confirmations
      BY <2>3 DEF Confirmed, SameFlow, Confirmations
    <3> QED
      BY <2>3, <3>1 DEF Decided
  \* Another answer is sent.
  <2>4. ASSUME NEW m \in Answers, m.kind # "flow_changed", toClient' = Append(toClient, m),
               server'.flow = server.flow, client'.flow = client.flow, D
        PROVE  D'
    <3>1. Confirmed' = Confirmed /\ SameFlow' = SameFlow
      BY <2>4 DEF Confirmed, SameFlow
    <3>2. m \notin Confirmations
      BY <2>4 DEF Confirmations, Msg
    <3>3. Decided(Append(toClient, m), Confirmations, Confirmed, SameFlow)
      BY <1>b, <1>q, <2>4, <3>2, DecidedAppend
    <3> QED
      BY <2>4, <3>1, <3>3 DEF Decided
  \* The consumer confirms its flow.
  <2>5. ASSUME toClient' = Append(toClient, Msg("flow_changed", none, server'.flow)),
               server'.flow \in Flows
        PROVE  D'
    <3>1. /\ Msg("flow_changed", none, server'.flow) \in Confirmed'
          /\ Msg("flow_changed", none, server'.flow) \in Confirmations
          /\ Msg("flow_changed", none, server'.flow) \in Answers
      BY <2>5, AnswerFields DEF Confirmed, Confirmations
    <3>2. Decided(Append(toClient, Msg("flow_changed", none, server'.flow)),
                  Confirmations, Confirmed', SameFlow')
      BY <1>b, <1>q, <3>1, DecidedAppend
    <3> QED
      BY <2>5, <3>2 DEF Decided
  <2>6. CASE FlowChanged
    <3>1. /\ Arrives("flow_changed") /\ UNCHANGED <<toServer, server>>
          /\ client'.flow = Head(toClient).flow
      BY <1>c, <2>6 DEF FlowChanged, Arrives, serverVars, ClientOK
    <3>2. D /\ Confirmed' = Confirmed
      BY <2>2, <3>1 DEF NoSwitchAsked, Confirmed
    <3>3. /\ toClient # <<>> /\ toClient' = Tail(toClient)
          /\ Head(toClient) = Msg("flow_changed", none, Head(toClient).flow)
          /\ Head(toClient).flow \in Flows
      BY <3>1, ArrivesStep, AnswerFields
    <3>4. Head(toClient) \in Confirmations
      BY <3>3 DEF Confirmations
    <3>5. Head(toClient) \in Confirmed => SameFlow'
      BY <3>1 DEF Confirmed, SameFlow, Msg
    <3>6. Decided(Tail(toClient), Confirmations, Confirmed, SameFlow')
      BY <1>b, <1>q, <3>2, <3>3, <3>4, <3>5, DecidedTail
    <3> QED
      BY <3>2, <3>3, <3>6 DEF Decided
  <2>7. CASE ErrorArrives \/ DataArrives
    <3>1. /\ Arrives("error") \/ Arrives("data")
          /\ UNCHANGED <<toServer, server>> /\ client'.flow = client.flow
      BY <1>c, <2>7 DEF ErrorArrives, DataArrives, Arrives, serverVars, ClientOK
    <3>2. D /\ Confirmed' = Confirmed /\ SameFlow' = SameFlow
      BY <2>2, <3>1 DEF NoSwitchAsked, Confirmed, SameFlow
    <3>3. toClient # <<>> /\ toClient' = Tail(toClient) /\ Head(toClient).kind # "flow_changed"
      BY <3>1, ArrivesStep
    <3>4. Head(toClient) \notin Confirmations
      BY <3>3 DEF Confirmations, Msg
    <3>5. Decided(Tail(toClient), Confirmations, Confirmed, SameFlow)
      BY <1>b, <1>q, <3>2, <3>3, <3>4, DecidedTail
    <3> QED
      BY <3>2, <3>3, <3>5 DEF Decided
  <2>8. ASSUME NEW c \in Channels, Subscribe(c) \/ Unsubscribe(c) PROVE D'
    <3>1. Up
      BY <2>1 DEF HandshakeInv, AfterAuth
    <3>2. PICK m \in Requests :
            /\ toServer' = Append(toServer, m) /\ UNCHANGED <<client, toClient, server>>
      BY <2>1, <2>8, <3>1, RequestFields DEF Subscribe, Unsubscribe, serverVars
    <3>3. NoSwitchAsked
      BY <1>q, <3>2, AppendUnderWay DEF NoSwitchAsked
    <3> QED
      BY <2>2, <2>3, <3>2, <3>3
  <2>9. ASSUME NEW f \in Flows, SetFlow(f) PROVE FALSE
    <3>1. toServer' = Append(toServer, Msg("set_flow", none, f)) /\ Msg("set_flow", none, f) \in Requests
      BY <2>9, RequestFields DEF SetFlow
    <3>2. Msg("set_flow", none, f) \in UnderWay(toServer')
      BY <1>q, <3>1, AppendUnderWay
    <3> QED
      BY <3>2 DEF NoSwitchAsked, Msg
  <2>10. CASE FlowSwitchTimeout
    <3>1. UNCHANGED <<toServer, toClient, server>> /\ client'.flow = client.flow
      BY <1>c, <2>10 DEF FlowSwitchTimeout, serverVars, ClientOK
    <3> QED
      BY <2>2, <2>3, <3>1 DEF NoSwitchAsked
  \* A message other than set_flow is taken by the consumer.
  <2>11. ASSUME NEW kind \in {"authenticate", "subscribe", "unsubscribe"}, Handling(kind)
         PROVE  UNCHANGED client /\ NoSwitchAsked
    BY <2>11, HandlingStep DEF NoSwitchAsked, clientVars
  <2>12. CASE HandleAuthenticate \/ HandleSubscribe \/ HandleUnsubscribe
    <3>1. PICK kind \in {"authenticate", "subscribe", "unsubscribe"} : Handling(kind)
      BY <2>12 DEF HandleAuthenticate, HandleSubscribe, HandleUnsubscribe
    <3>2. UNCHANGED toClient /\ server'.flow = server.flow /\ server'.target = server.target
      BY <1>s, <2>12 DEF HandleAuthenticate, HandleSubscribe, HandleUnsubscribe, ServerOK
    <3> QED
      BY <2>2, <2>3, <2>11, <3>1, <3>2
  <2>13. ASSUME NEW kind \in {"subscribe", "unsubscribe"}, RateLimited(kind) PROVE D'
    <3>1. /\ Handling(kind) /\ UNCHANGED server
          /\ toClient' = Append(toClient, Msg("error", none, none))
      BY <2>13 DEF RateLimited, serverVars
    <3>2. Msg("error", none, none) \in Answers /\ Msg("error", none, none).kind # "flow_changed"
      BY AnswerFields DEF Msg
    <3> QED
      BY <2>2, <2>4, <2>11, <3>1, <3>2
  <2>14. CASE HandleSetFlow
    <3>1. Head(toServer).flow \in Flows
      BY <2>14, HandlingStep, RequestFields DEF HandleSetFlow
    <3>2. CASE Head(toServer).flow = server.flow
      BY <2>5, <2>14, <3>1, <3>2 DEF HandleSetFlow
    <3>3. CASE Head(toServer).flow # server.flow
      BY <1>n, <1>s, <2>14, <3>1, <3>3 DEF HandleSetFlow, ServerOK
    <3> QED
      BY <3>2, <3>3
  <2>15. ASSUME NEW f \in Flows, AuthDone(f) PROVE FALSE
    BY <2>1, <2>15 DEF AuthDone, HandshakeInv, AfterAuth
  <2>16. CASE AllLeft \/ SnapshotsSent \/ \E c \in Channels : Leave(c) \/ Join(c)
    <3>1. UNCHANGED <<client, toServer, toClient>>
      BY <2>16 DEF AllLeft, SnapshotsSent, Leave, Join, Working, clientVars
    <3>2. server'.flow = server.flow /\ server'.target = server.target
      BY <1>s, <2>16 DEF AllLeft, SnapshotsSent, Leave, Join, ServerOK
    <3> QED
      BY <2>2, <2>3, <3>1, <3>2 DEF NoSwitchAsked
  <2>17. CASE AllJoined
    <3>1. /\ UNCHANGED <<client, toServer>> /\ server'.flow = server.flow /\ server.at = "joining"
          /\ toClient' = IF server.target = none THEN toClient
                         ELSE Append(toClient, Msg("flow_changed", none, server.target))
      BY <1>s, <2>17 DEF AllJoined, Working, clientVars, ServerOK
    <3>2. CASE server.target = none
      BY <2>2, <2>3, <3>1, <3>2 DEF NoSwitchAsked
    <3>3. CASE server.target # none
      <4>1. server.target = server.flow /\ server.flow \in Flows
        BY <1>s, <3>1, <3>3 DEF GroupsInv, TodoOK, ServerOK
      <4> QED
        BY <2>5, <3>1, <3>3, <4>1
    <3> QED
      BY <3>2, <3>3
  <2>18. ASSUME NEW c \in Channels, SendSnapshot(c) PROVE D'
    <3>1. /\ UNCHANGED <<client, toServer>> /\ server'.flow = server.flow /\ server'.target = server.target
          /\ toClient' = Append(toClient, Msg("data", c, server.flow))
      BY <1>s, <2>18 DEF SendSnapshot, Working, clientVars, ServerOK
    <3>2. Msg("data", c, server.flow) \in Answers /\ Msg("data", c, server.flow).kind # "flow_changed"
      BY <1>s, AnswerFields DEF Msg, ServerOK
    <3> QED
      BY <2>2, <2>4, <3>1, <3>2 DEF NoSwitchAsked
  <2>19. CASE BroadcastMessage \/ Forward
    <3>1. mailbox \in Seq(Channels \X Flows) /\ wire \in Seq(Channels \X Flows)
      BY DEF HandshakeInv, TypeOK
    <3>2. PICK cf \in Channels \X Flows : toClient' = Append(toClient, Msg("data", cf[1], cf[2]))
      BY <2>19, <3>1, HeadTailProperties DEF BroadcastMessage, Forward
    <3>3. Msg("data", cf[1], cf[2]) \in Answers /\ Msg("data", cf[1], cf[2]).kind # "flow_changed"
      BY AnswerFields DEF Msg
    <3>4. UNCHANGED <<client, toServer, server>>
      BY <2>19 DEF BroadcastMessage, Forward, clientVars, serverVars
    <3> QED
      BY <2>2, <2>4, <3>2, <3>3, <3>4 DEF NoSwitchAsked
  <2>20. CASE ListenerEnds \/ ListenerRestarts \/ ListenerFails \/ WindowSlides \/ UNCHANGED vars
              \/ \E c \in Channels, f \in Flows : Broadcast(c, f)
    <3>1. UNCHANGED <<client, toServer, toClient, server>>
      BY <2>20 DEF ListenerEnds, ListenerRestarts, ListenerFails, Listening, WindowSlides, Broadcast,
         vars, clientVars, serverVars
    <3> QED
      BY <2>2, <2>3, <3>1 DEF NoSwitchAsked
  <2> QED
    BY <1>2, <2>1, <2>6, <2>7, <2>8, <2>9, <2>10, <2>12, <2>13, <2>14, <2>15, <2>16, <2>17, <2>18,
       <2>19, <2>20 DEF Next, Arrival, Handler, Listener
<1> QED
  BY <1>1, <1>2

\* When nothing is under way the two ends agree on the flow, and on every channel the
\* rate limit or a change of mind during the handshake did not touch: however
\* requests, answers, switches, timeouts and reconnections overtake each other.
THEOREM EndsStayAgreed == Spec => []EndsAgree
<1>1. Init => ChannelsInv /\ FlowInv
  BY DEF Init, ChannelsInv, FlowInv
<1>2. ASSUME ChannelsInv, FlowInv, GroupsInv, HandshakeInv, Quiet
      PROVE  /\ client.flow = server.flow
             /\ Wanted \ excused \subseteq server.subs
             /\ server.subs \subseteq Wanted \cup excused
  <2>1. server.target = none /\ NoSwitchAsked
    BY <1>2 DEF GroupsInv, TodoOK, Quiet, NoSwitchAsked, UnderWay
  <2>2. SameFlow
    BY <1>2, <2>1 DEF FlowInv, Quiet, Decided
  <2>3. \A c \in Channels \ excused : Served(c)
    BY <1>2 DEF ChannelsInv, Quiet, Decided
  <2>4. server.subs \subseteq Channels /\ callbacks \in [Channels -> 0..1]
    BY <1>2 DEF HandshakeInv, TypeOK
  <2> QED
    BY <2>2, <2>3, <2>4 DEF SameFlow, Served, Wanted
<1>3. ChannelsInv /\ FlowInv /\ GroupsInv /\ HandshakeInv => EndsAgree
  BY <1>2 DEF EndsAgree
<1> QED
  BY <1>1, <1>3, ChannelsStep, FlowStep, HandshakeInvariant, GroupsInvariant, PTL DEF Spec

\* Whatever the two ends disagree on, the message that mends it is under way, or a
\* switch is asked for or going on.
Mended ==
    client.authed =>
        /\ \A c \in Wanted \ excused :
               c \in server.subs \/ Msg("subscribe", c, none) \in UnderWay(toServer)
        /\ \A c \in server.subs \ (Wanted \cup excused) :
               Msg("unsubscribe", c, none) \in UnderWay(toServer)
        /\ \/ SameFlow \/ server.target # none \/ ~NoSwitchAsked
           \/ Msg("flow_changed", none, server.flow) \in UnderWay(toClient)

\* The safety half of "a wanted channel is served in the end", and stronger than the
\* agreement when nothing is under way: as long as a channel is not served as the
\* components want, the request that mends it is in the socket, and the confirmation
\* of the consumer's flow likewise; none is lost, or undone by one that overtakes it.
THEOREM DisagreementIsMended == Spec => []Mended
<1>1. Init => ChannelsInv /\ FlowInv
  BY DEF Init, ChannelsInv, FlowInv
<1>2. ASSUME ChannelsInv, FlowInv, HandshakeInv, client.authed PROVE Mended
  <2>1. toServer \in Seq(Requests) /\ toClient \in Seq(Answers)
    BY <1>2 DEF HandshakeInv, QueuesOK
  <2>2. server.subs \subseteq Channels /\ callbacks \in [Channels -> 0..1]
    BY <1>2 DEF HandshakeInv, TypeOK
  <2>3. ASSUME NEW c \in Channels \ excused
        PROVE  \/ Served(c)
               \/ Msg(IF callbacks[c] = 1 THEN "subscribe" ELSE "unsubscribe", c, none)
                      \in UnderWay(toServer)
    <3>1. Decided(toServer, RequestsFor(c), AsWanted(c), Served(c))
      BY <1>2 DEF ChannelsInv
    <3>2. Served(c) \in BOOLEAN
      BY DEF Served
    <3>3. Served(c) \/ \E m \in UnderWay(toServer) : m \in AsWanted(c)
      BY <2>1, <3>1, <3>2, LastDecides
    <3> QED
      BY <3>3 DEF AsWanted
  <2>4. CASE server.target = none /\ NoSwitchAsked
    <3>1. Decided(toClient, Confirmations, Confirmed, SameFlow)
      BY <1>2, <2>4 DEF FlowInv
    <3>2. SameFlow \in BOOLEAN
      BY DEF SameFlow
    <3>3. SameFlow \/ \E m \in UnderWay(toClient) : m \in Confirmed
      BY <2>1, <3>1, <3>2, LastDecides
    <3> QED
      BY <3>3, <2>2, <2>3 DEF Confirmed, Mended, Served, Wanted
  <2>5. CASE server.target # none \/ ~NoSwitchAsked
    BY <2>2, <2>3, <2>5 DEF Mended, Served, Wanted
  <2> QED
    BY <2>4, <2>5
<1>3. ChannelsInv /\ FlowInv /\ HandshakeInv => Mended
  BY <1>2 DEF Mended
<1> QED
  BY <1>1, <1>3, ChannelsStep, FlowStep, HandshakeInvariant, GroupsInvariant, PTL DEF Spec

-----------------------------------------------------------------------------
(* The flow that was left *)

\* No broadcast and no data of another flow than the consumer's is under way.
FlowIsSettled ==
    /\ \A b \in UnderWay(mailbox) \cup UnderWay(wire) : b[2] = server.flow
    /\ \A m \in UnderWay(toClient) : m.kind = "data" => m.flow = server.flow

\* While the consumer keeps its flow, nothing of another one comes in: what is left of
\* the old flow after a switch only drains, in the middle of a handler too.
THEOREM OldFlowOnlyDrains ==
    Spec => [][FlowIsSettled /\ server'.flow = server.flow => FlowIsSettled']_vars
<1>1. ASSUME GroupsInv, HandshakeInv, Next, FlowIsSettled, server'.flow = server.flow
      PROVE  FlowIsSettled'
  <2> DEFINE f == server.flow
  <2>t. /\ mailbox \in Seq(Channels \X Flows) /\ wire \in Seq(Channels \X Flows)
        /\ toClient \in Seq(Answers) /\ f \in Flows
        /\ server.target \in Flows \cup {none} /\ joined \subseteq Channels \X {f}
        /\ server.subs \subseteq Channels /\ server.todo \subseteq Channels
    BY <1>1 DEF HandshakeInv, QueuesOK, TypeOK, GroupsInv, Attached
  <2>e. UnderWay(<<>>) = {}
    BY DEF UnderWay
  <2>a. ASSUME NEW m \in Answers, m.kind = "data" => m.flow = f,
               toClient' = Append(toClient, m),
               UnderWay(mailbox)' \subseteq UnderWay(mailbox),
               UnderWay(wire)' \subseteq UnderWay(wire)
        PROVE  FlowIsSettled'
    BY <1>1, <2>a, <2>t, AppendUnderWay DEF FlowIsSettled
  <2>d. ASSUME UnderWay(toClient)' \subseteq UnderWay(toClient),
               UnderWay(mailbox)' \subseteq UnderWay(mailbox),
               UnderWay(wire)' \subseteq UnderWay(wire)
        PROVE  FlowIsSettled'
    BY <1>1, <2>d DEF FlowIsSettled
  <2>1. CASE Close
    BY <2>1, <2>d, <2>e DEF Close
  <2>2. CASE Arrival
    <3>1. toClient # <<>> /\ toClient' = Tail(toClient) /\ UNCHANGED <<mailbox, wire>>
      BY <2>2 DEF Arrival, Authenticated, FlowChanged, ErrorArrives, DataArrives, Arrives
    <3>2. UnderWay(toClient)' \subseteq UnderWay(toClient)
      BY <2>t, <3>1, TailUnderWay
    <3> QED
      BY <2>d, <3>1, <3>2
  <2>3. CASE BroadcastMessage
    <3>1. /\ UnderWay(mailbox') \subseteq UnderWay(mailbox) /\ Head(mailbox) \in UnderWay(mailbox)
          /\ Head(mailbox) \in Channels \X Flows
      BY <2>t, <2>3, TailUnderWay DEF BroadcastMessage
    <3> DEFINE m == Msg("data", Head(mailbox)[1], Head(mailbox)[2])
    <3>2. m \in Answers /\ m.flow = Head(mailbox)[2] /\ Head(mailbox)[2] = f
      BY <1>1, <3>1, AnswerFields DEF Msg, FlowIsSettled
    <3>3. toClient' = Append(toClient, m) /\ UNCHANGED wire
      BY <2>3 DEF BroadcastMessage
    <3> HIDE DEF m
    <3> QED
      BY <2>a, <3>1, <3>2, <3>3
  <2>4. CASE Forward
    <3>1. /\ UnderWay(wire') \subseteq UnderWay(wire) /\ Head(wire) \in UnderWay(wire)
          /\ Head(wire) \in Channels \X Flows
      BY <2>t, <2>4, TailUnderWay DEF Forward
    <3> DEFINE m == Msg("data", Head(wire)[1], Head(wire)[2])
    <3>2. m \in Answers /\ m.flow = Head(wire)[2] /\ Head(wire)[2] = f
      BY <1>1, <3>1, AnswerFields DEF Msg, FlowIsSettled
    <3>3. toClient' = Append(toClient, m) /\ UNCHANGED mailbox
      BY <2>4 DEF Forward
    <3> HIDE DEF m
    <3> QED
      BY <2>a, <3>1, <3>2, <3>3
  <2>5. CASE ListenerFails
    BY <2>5, <2>d, <2>e DEF ListenerFails, Listening
  <2>6. ASSUME NEW c \in Channels, NEW g \in Flows, Broadcast(c, g) PROVE FlowIsSettled'
    <3>1. g = f /\ <<c, g>> \in Channels \X Flows
      BY <2>t, <2>6 DEF Broadcast
    <3>2. /\ UnderWay(mailbox') \subseteq UnderWay(mailbox) \cup {<<c, g>>}
          /\ UnderWay(wire') \subseteq UnderWay(wire) \cup {<<c, g>>}
          /\ UNCHANGED toClient
      <4> DEFINE b == <<c, g>>
      <4>1. b \in Channels \X Flows
        BY <3>1
      <4> HIDE DEF b
      <4>2. /\ UnderWay(Append(mailbox, b)) = UnderWay(mailbox) \cup {b}
            /\ UnderWay(Append(wire, b)) = UnderWay(wire) \cup {b}
        BY <2>t, <4>1, AppendUnderWay
      <4>3. /\ mailbox' \in {mailbox, Append(mailbox, b)}
            /\ wire' \in {wire, Append(wire, b)}
            /\ UNCHANGED toClient
        BY <2>6 DEF Broadcast, b
      <4>4. /\ UnderWay(mailbox') \subseteq UnderWay(mailbox) \cup {b}
            /\ UnderWay(wire') \subseteq UnderWay(wire) \cup {b}
        BY <4>2, <4>3
      <4> QED
        BY <4>3, <4>4 DEF b
    <3>3. <<c, g>>[2] = f
      BY <3>1
    <3>4. ASSUME NEW b \in UnderWay(mailbox') \cup UnderWay(wire') PROVE b[2] = f
      <4>1. b \in UnderWay(mailbox) \cup UnderWay(wire) \/ b = <<c, g>>
        BY <3>2
      <4> QED
        BY <1>1, <3>3, <4>1 DEF FlowIsSettled
    <3>5. UnderWay(toClient') = UnderWay(toClient)
      BY <3>2
    <3> QED
      BY <1>1, <3>4, <3>5 DEF FlowIsSettled
  <2>7. ASSUME NEW c \in Channels, SendSnapshot(c) PROVE FlowIsSettled'
    <3>1. Msg("data", c, f) \in Answers /\ Msg("data", c, f).flow = f
      BY <2>t, AnswerFields DEF Msg
    <3>2. toClient' = Append(toClient, Msg("data", c, f)) /\ UNCHANGED <<mailbox, wire>>
      BY <2>7 DEF SendSnapshot, Working
    <3> QED
      BY <2>a, <3>1, <3>2
  <2>8. CASE \/ HandleSetFlow \/ AllJoined \/ (\E g \in Flows : AuthDone(g))
             \/ RateLimited("subscribe") \/ RateLimited("unsubscribe")
    <3>1. UNCHANGED <<mailbox, wire>>
      BY <2>8 DEF HandleSetFlow, AllJoined, AuthDone, RateLimited, Handling, Working
    <3>2. \/ toClient' = toClient
          \/ \E m \in Answers : m.kind # "data" /\ toClient' = Append(toClient, m)
      <4>1. /\ \A g \in Flows : /\ Msg("authenticated", none, g) \in Answers
                                /\ Msg("authenticated", none, g).kind # "data"
                                /\ Msg("flow_changed", none, g) \in Answers
                                /\ Msg("flow_changed", none, g).kind # "data"
            /\ Msg("error", none, none) \in Answers /\ Msg("error", none, none).kind # "data"
        BY AnswerFields DEF Msg
      <4>2. CASE HandleSetFlow
        <5>1. toServer # <<>> /\ toServer \in Seq(Requests) /\ Head(toServer).kind = "set_flow"
          BY <1>1, <4>2 DEF HandleSetFlow, Handling, HandshakeInv, QueuesOK
        <5>2. Head(toServer).flow \in Flows
          BY <5>1, RequestFields, HeadTailProperties
        <5> QED
          BY <4>1, <4>2, <5>2 DEF HandleSetFlow
      <4>3. CASE AllJoined
        BY <2>t, <4>1, <4>3 DEF AllJoined
      <4>4. CASE \E g \in Flows : AuthDone(g)
        BY <4>1, <4>4 DEF AuthDone
      <4>5. CASE RateLimited("subscribe") \/ RateLimited("unsubscribe")
        BY <4>1, <4>5 DEF RateLimited
      <4> QED
        BY <2>8, <4>2, <4>3, <4>4, <4>5
    <3>3. CASE toClient' = toClient
      BY <2>d, <3>1, <3>3
    <3>4. CASE \E m \in Answers : m.kind # "data" /\ toClient' = Append(toClient, m)
      BY <2>a, <3>1, <3>4
    <3> QED
      BY <3>2, <3>3, <3>4
  <2>9. CASE \/ Connect \/ FlowSwitchTimeout \/ (\E c \in Channels : Subscribe(c) \/ Unsubscribe(c))
             \/ (\E g \in Flows : SetFlow(g)) \/ HandleAuthenticate \/ HandleSubscribe
             \/ HandleUnsubscribe \/ AllLeft \/ SnapshotsSent \/ ListenerEnds \/ ListenerRestarts
             \/ WindowSlides \/ \E c \in Channels : Leave(c) \/ Join(c)
    <3>1. UNCHANGED <<toClient, mailbox, wire>>
      BY <2>9 DEF Connect, FlowSwitchTimeout, Subscribe, Unsubscribe, SetFlow, HandleAuthenticate,
         HandleSubscribe, HandleUnsubscribe, Handling, AllLeft, SnapshotsSent, Leave, Join, Working,
         ListenerEnds, ListenerRestarts, Listening, WindowSlides
    <3> QED
      BY <2>d, <3>1
  <2> QED
    BY <1>1, <2>1, <2>2, <2>3, <2>4, <2>5, <2>6, <2>7, <2>8, <2>9 DEF Next, Handler, Listener
<1>2. ASSUME GroupsInv, HandshakeInv, [Next]_vars
      PROVE  [FlowIsSettled /\ server'.flow = server.flow => FlowIsSettled']_vars
  BY <1>1, <1>2
<1> QED
  BY <1>2, GroupsInvariant, HandshakeInvariant, PTL DEF Spec
=============================================================================
