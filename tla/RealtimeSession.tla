-------------------------- MODULE RealtimeSession --------------------------
(***************************************************************************)
(* One browser tab and its WebSocket consumer: the provider that keeps the *)
(* subscriptions of the dashboard's components and the chosen data flow    *)
(* (frontend/src/context/RealtimeProvider.tsx), the consumer that joins    *)
(* and leaves broadcast groups on its behalf                               *)
(* (backend/apps/realtime/consumers.py), and the two message queues        *)
(* between them.                                                           *)
(*                                                                         *)
(* Channels dispatches one message of a consumer at a time, so handlers    *)
(* never overlap; a handler awaits once per group it leaves or joins, and  *)
(* meanwhile broadcasts pile up in its mailbox, the pub/sub listener       *)
(* forwards what it reads, and the browser goes on.                        *)
(***************************************************************************)
EXTENDS Integers, Sequences, FiniteSets

CONSTANTS Channels,      \* ALLOWED_CHANNELS
          PubSub,        \* PUBSUB_CHANNELS: read from Redis by the listener task
          Snapshotted,   \* channels whose subscription is answered with a snapshot
          RateLimit,     \* RATE_LIMIT_MESSAGES
          MaxQueue       \* bound on the messages under way when another one is sent

ASSUME ChannelsAssumption ==
    /\ IsFiniteSet(Channels)
    /\ PubSub \subseteq Channels /\ Snapshotted \subseteq Channels \ PubSub
ASSUME LimitsAssumption == {RateLimit, MaxQueue} \subseteq Nat \ {0}

VARIABLES
    client,        \* the provider: socket, authed, flow, switching, pending
    callbacks,     \* subscriptionsRef: the number of callbacks of a channel
    toServer,      \* messages under way to the consumer
    toClient,      \* messages under way to the browser
    server,        \* the consumer: authed, flow, subs, and its handler in progress
    joined,        \* the groups and Redis channels it is in, with their flow
    mailbox,       \* broadcasts the Channels layer holds for it
    wire,          \* broadcasts in its Redis connection
    listener,      \* the pub/sub listener task
    recent,        \* messages counted in the rate-limit window
    excused        \* history: channels refused by the rate limit, or dropped while
                   \* authentication was pending, in this connection

clientVars == <<client, callbacks>>
serverVars == <<server, joined, listener, recent>>
vars == <<clientVars, toServer, toClient, serverVars, mailbox, wire, excused>>

Flows == {"sim", "live"}
none == "none"

ToServer == [kind : {"authenticate", "set_flow", "subscribe", "unsubscribe"},
             channel : Channels \cup {none}, flow : Flows \cup {none}]
ToClient == [kind : {"authenticated", "flow_changed", "error", "data"},
             channel : Channels \cup {none}, flow : Flows \cup {none}]
Msg(kind, channel, flow) == [kind |-> kind, channel |-> channel, flow |-> flow]

Up == client.socket = "open"
\* Bound: users and broadcasts act only while few messages are under way.
Room == Len(toServer) + Len(toClient) + Len(mailbox) + Len(wire) < MaxQueue
Wanted == {c \in Channels : callbacks[c] > 0}
InPubSub == {cf \in joined : cf[1] \in PubSub}

\* A channel set in some order: the order of a Map's keys.
Listing(S) == CHOOSE s \in [1..Cardinality(S) -> S] : \A c \in S : \E i \in DOMAIN s : s[i] = c

NewConsumer == [authed |-> FALSE, flow |-> "live", subs |-> {},
                at |-> "idle", todo |-> {}, fresh |-> {}, target |-> none]

TypeOK ==
    /\ client \in [socket : {"closed", "open"}, authed : BOOLEAN, flow : Flows,
                   switching : BOOLEAN, pending : SUBSET Channels]
    /\ callbacks \in [Channels -> 0..1]
    /\ toServer \in Seq(ToServer)
    /\ toClient \in Seq(ToClient)
    /\ server \in [authed : BOOLEAN, flow : Flows, subs : SUBSET Channels,
                   at : {"idle", "authenticating", "leaving", "joining", "snapshots"},
                   todo : SUBSET Channels, fresh : SUBSET Channels, target : Flows \cup {none}]
    /\ joined \in SUBSET (Channels \X Flows)
    /\ mailbox \in Seq(Channels \X Flows)
    /\ wire \in Seq(Channels \X Flows)
    /\ listener \in {"none", "running", "sleeping"}
    /\ recent \in 0..RateLimit
    /\ excused \in SUBSET Channels

Init ==
    /\ client = [socket |-> "closed", authed |-> FALSE, flow |-> "live",
                 switching |-> FALSE, pending |-> {}]
    /\ callbacks = [c \in Channels |-> 0]
    /\ toServer = <<>> /\ toClient = <<>>
    /\ server = NewConsumer
    /\ joined = {} /\ mailbox = <<>> /\ wire = <<>>
    /\ listener = "none"
    /\ recent = 0
    /\ excused = {}

-----------------------------------------------------------------------------
(* The browser *)

\* onopen: the channels in use are queued and the token is sent first.
Connect ==
    /\ ~Up
    /\ client' = [client EXCEPT !.socket = "open", !.authed = FALSE, !.pending = Wanted]
    /\ toServer' = <<Msg("authenticate", none, none)>>
    /\ UNCHANGED <<callbacks, toClient, serverVars, mailbox, wire, excused>>

\* The connection ends: lost, closed after a timeout on either side, or refused
\* by the consumer.  onclose resets the provider, disconnect the consumer.
Close ==
    /\ Up
    /\ client' = [client EXCEPT !.socket = "closed", !.authed = FALSE,
                                !.switching = FALSE, !.pending = {}]
    /\ toServer' = <<>> /\ toClient' = <<>>
    /\ server' = NewConsumer
    /\ joined' = {} /\ mailbox' = <<>> /\ wire' = <<>>
    /\ listener' = "none"
    /\ recent' = 0
    /\ excused' = {}
    /\ UNCHANGED <<callbacks>>

\* A component mounts and wants a channel.  Bound: one component per channel.
Subscribe(c) ==
    /\ callbacks[c] = 0
    /\ Room
    /\ callbacks' = [callbacks EXCEPT ![c] = 1]
    /\ IF Up /\ client.authed
       THEN /\ toServer' = Append(toServer, Msg("subscribe", c, none))
            /\ UNCHANGED client
       ELSE /\ client' = [client EXCEPT !.pending = IF Up THEN @ \cup {c} ELSE @]
            /\ UNCHANGED toServer
    /\ UNCHANGED <<toClient, serverVars, mailbox, wire, excused>>

\* A component unmounts.  The queue of pending subscriptions is left alone.
Unsubscribe(c) ==
    /\ callbacks[c] = 1
    /\ Room
    /\ callbacks' = [callbacks EXCEPT ![c] = 0]
    /\ toServer' = IF Up /\ client.authed
                   THEN Append(toServer, Msg("unsubscribe", c, none)) ELSE toServer
    /\ excused' = IF Up /\ ~client.authed THEN excused \cup {c} ELSE excused
    /\ UNCHANGED <<client, toClient, serverVars, mailbox, wire>>

\* The user asks for the other flow.
SetFlow(f) ==
    /\ Up /\ client.authed
    /\ f # client.flow
    /\ ~client.switching
    /\ Room
    /\ client' = [client EXCEPT !.switching = TRUE]
    /\ toServer' = Append(toServer, Msg("set_flow", none, f))
    /\ UNCHANGED <<callbacks, toClient, serverVars, mailbox, wire, excused>>

\* No confirmation within FLOW_SWITCH_TIMEOUT_MS: the user may ask again.
FlowSwitchTimeout ==
    /\ client.switching
    /\ client' = [client EXCEPT !.switching = FALSE]
    /\ UNCHANGED <<callbacks, toServer, toClient, serverVars, mailbox, wire, excused>>

Arrives(kind) ==
    /\ toClient # <<>>
    /\ Head(toClient).kind = kind
    /\ toClient' = Tail(toClient)
    /\ UNCHANGED <<callbacks, serverVars, mailbox, wire, excused>>

\* The server offers live only when it chose it; a flow that is not offered is
\* given up, another one is asked for before the queued channels are.
ResolvedFlow(serverFlow) == IF serverFlow = "live" THEN client.flow ELSE "sim"

\* Mutant: the chosen flow is kept and never asked for.
AuthenticatedKeepsFlow ==
    /\ Arrives("authenticated")
    /\ client' = [client EXCEPT !.authed = TRUE, !.pending = {}]
    /\ LET order == Listing(client.pending)
       IN  toServer' = toServer \o [i \in DOMAIN order |-> Msg("subscribe", order[i], none)]

\* Mutant: the queued channels are not sent.
AuthenticatedForgetsPending ==
    /\ Arrives("authenticated")
    /\ LET serverFlow == Head(toClient).flow
           resolved == ResolvedFlow(serverFlow)
           asks == IF resolved = serverFlow THEN <<>> ELSE <<Msg("set_flow", none, resolved)>>
       IN  /\ client' = [client EXCEPT !.authed = TRUE, !.flow = resolved, !.pending = {}]
           /\ toServer' = toServer \o asks

Authenticated ==
    /\ Arrives("authenticated")
    /\ LET serverFlow == Head(toClient).flow
           resolved == ResolvedFlow(serverFlow)
           asks == IF resolved = serverFlow THEN <<>> ELSE <<Msg("set_flow", none, resolved)>>
           order == Listing(client.pending)
       IN  /\ client' = [client EXCEPT !.authed = TRUE, !.flow = resolved, !.pending = {}]
           /\ toServer' = toServer \o asks
                              \o [i \in DOMAIN order |-> Msg("subscribe", order[i], none)]

FlowChanged ==
    /\ Arrives("flow_changed")
    /\ client' = [client EXCEPT !.flow = Head(toClient).flow, !.switching = FALSE]
    /\ UNCHANGED toServer

\* Any error ends a pending switch.
ErrorArrives ==
    /\ Arrives("error")
    /\ client' = [client EXCEPT !.switching = FALSE]
    /\ UNCHANGED toServer

DataArrives == Arrives("data") /\ UNCHANGED <<client, toServer>>

-----------------------------------------------------------------------------
(* The consumer *)

Handling(kind) ==
    /\ server.at = "idle"
    /\ toServer # <<>>
    /\ Head(toServer).kind = kind
    /\ toServer' = Tail(toServer)
    /\ UNCHANGED <<clientVars, mailbox, wire>>

HandleAuthenticate ==
    /\ Handling("authenticate")
    /\ server' = [server EXCEPT !.at = "authenticating"]
    /\ UNCHANGED <<toClient, joined, listener, recent, excused>>

\* The token is good (a bad one closes the connection): the flow is live if the
\* bridge's flag is in the cache at that moment, else sim.
AuthDone(flow) ==
    /\ server.at = "authenticating"
    /\ server' = [server EXCEPT !.at = "idle", !.authed = TRUE, !.flow = flow]
    /\ toClient' = Append(toClient, Msg("authenticated", none, flow))
    /\ UNCHANGED <<clientVars, toServer, joined, mailbox, wire, listener, recent, excused>>

HandleSetFlow ==
    /\ Handling("set_flow")
    /\ LET flow == Head(toServer).flow
       IN  IF flow = server.flow
           THEN /\ toClient' = Append(toClient, Msg("flow_changed", none, flow))
                /\ UNCHANGED server
           ELSE /\ server' = [server EXCEPT !.at = "leaving", !.todo = server.subs,
                                            !.target = flow]
                /\ UNCHANGED toClient
    /\ UNCHANGED <<joined, listener, recent, excused>>

\* Mutant: one message too many passes.
LimitedLate == recent > RateLimit

Limited == recent >= RateLimit

\* Over the limit the request is answered with an error and dropped.
RateLimited(kind) ==
    /\ Handling(kind)
    /\ Limited
    /\ toClient' = Append(toClient, Msg("error", none, none))
    /\ excused' = excused \cup {Head(toServer).channel}
    /\ UNCHANGED serverVars

HandleSubscribe ==
    /\ Handling("subscribe")
    /\ ~Limited
    /\ recent' = recent + 1
    /\ LET c == Head(toServer).channel
       IN  server' = IF c \in server.subs THEN server
                     ELSE [server EXCEPT !.subs = @ \cup {c}, !.at = "joining",
                                         !.todo = {c}, !.fresh = {c}]
    /\ UNCHANGED <<toClient, joined, listener, excused>>

HandleUnsubscribe ==
    /\ Handling("unsubscribe")
    /\ ~Limited
    /\ recent' = recent + 1
    /\ LET c == Head(toServer).channel
       IN  server' = IF c \in server.subs
                     THEN [server EXCEPT !.subs = @ \ {c}, !.at = "leaving", !.todo = {c}]
                     ELSE server
    /\ UNCHANGED <<toClient, joined, listener, excused>>

Working == UNCHANGED <<clientVars, toServer, mailbox, wire, recent, excused>>

\* Mutant: the group is left under the flow that is being entered.
LeaveNewFlow(c) ==
    /\ server.at = "leaving"
    /\ c \in server.todo
    /\ server' = [server EXCEPT !.todo = @ \ {c}]
    /\ joined' = joined \ {<<c, IF server.target = none THEN server.flow ELSE server.target>>}
    /\ UNCHANGED <<toClient, listener>>
    /\ Working

Leave(c) ==
    /\ server.at = "leaving"
    /\ c \in server.todo
    /\ server' = [server EXCEPT !.todo = @ \ {c}]
    /\ joined' = joined \ {<<c, server.flow>>}
    /\ UNCHANGED <<toClient, listener>>
    /\ Working

\* All left: an unsubscription is over, a switch goes on in the new flow.
AllLeft ==
    /\ server.at = "leaving"
    /\ server.todo = {}
    /\ server' = IF server.target = none
                 THEN [server EXCEPT !.at = "idle"]
                 ELSE [server EXCEPT !.flow = server.target, !.at = "joining",
                                     !.todo = server.subs, !.fresh = server.subs]
    /\ UNCHANGED <<toClient, joined, listener>>
    /\ Working

\* Mutant: a dead listener is not started again.
JoinOnce(c) ==
    /\ server.at = "joining"
    /\ c \in server.todo
    /\ server' = [server EXCEPT !.todo = @ \ {c}]
    /\ joined' = joined \cup {<<c, server.flow>>}
    /\ listener' = IF c \in PubSub /\ joined = {} THEN "running" ELSE listener
    /\ UNCHANGED toClient
    /\ Working

\* A Redis subscription makes sure that the listener task runs.
Join(c) ==
    /\ server.at = "joining"
    /\ c \in server.todo
    /\ server' = [server EXCEPT !.todo = @ \ {c}]
    /\ joined' = joined \cup {<<c, server.flow>>}
    /\ listener' = IF c \in PubSub /\ listener = "none" THEN "running" ELSE listener
    /\ UNCHANGED toClient
    /\ Working

AllJoined ==
    /\ server.at = "joining"
    /\ server.todo = {}
    /\ server' = [server EXCEPT !.at = "snapshots", !.todo = server.fresh \cap Snapshotted,
                                !.fresh = {}, !.target = none]
    /\ toClient' = IF server.target = none THEN toClient
                   ELSE Append(toClient, Msg("flow_changed", none, server.target))
    /\ UNCHANGED <<joined, listener>>
    /\ Working

SendSnapshot(c) ==
    /\ server.at = "snapshots"
    /\ c \in server.todo
    /\ server' = [server EXCEPT !.todo = @ \ {c}]
    /\ toClient' = Append(toClient, Msg("data", c, server.flow))
    /\ UNCHANGED <<joined, listener>>
    /\ Working

SnapshotsSent ==
    /\ server.at = "snapshots"
    /\ server.todo = {}
    /\ server' = [server EXCEPT !.at = "idle"]
    /\ UNCHANGED <<toClient, joined, listener>>
    /\ Working

\* The next message of the Channels mailbox, between two handlers.
BroadcastMessage ==
    /\ server.at = "idle"
    /\ mailbox # <<>>
    /\ mailbox' = Tail(mailbox)
    /\ toClient' = Append(toClient, Msg("data", Head(mailbox)[1], Head(mailbox)[2]))
    /\ UNCHANGED <<clientVars, toServer, serverVars, wire, excused>>

\* The pub/sub listener forwards at any time.
Forward ==
    /\ listener = "running"
    /\ wire # <<>>
    /\ wire' = Tail(wire)
    /\ toClient' = Append(toClient, Msg("data", Head(wire)[1], Head(wire)[2]))
    /\ UNCHANGED <<clientVars, toServer, serverVars, mailbox, excused>>

Listening == UNCHANGED <<clientVars, toServer, toClient, server, joined, mailbox, recent, excused>>

\* listen() returns once nothing is subscribed.
ListenerEnds ==
    /\ listener = "running"
    /\ InPubSub = {}
    /\ listener' = "none"
    /\ UNCHANGED wire
    /\ Listening

\* An error in the listener: with subscriptions left it sleeps and restarts.
ListenerFails ==
    /\ listener = "running"
    /\ listener' = IF InPubSub = {} THEN "none" ELSE "sleeping"
    /\ wire' = <<>>
    /\ Listening

ListenerRestarts ==
    /\ listener = "sleeping"
    /\ listener' = "running"
    /\ UNCHANGED wire
    /\ Listening

-----------------------------------------------------------------------------
(* The surroundings *)

\* The bridge or the simulation broadcasts on a channel of its flow.
Broadcast(c, f) ==
    /\ <<c, f>> \in joined
    /\ IF c \in PubSub
       THEN wire' = Append(wire, <<c, f>>) /\ UNCHANGED mailbox
       ELSE mailbox' = Append(mailbox, <<c, f>>) /\ UNCHANGED wire
    /\ Room
    /\ UNCHANGED <<clientVars, toServer, toClient, serverVars, excused>>

\* The oldest message leaves the rate-limit window.
WindowSlides ==
    /\ recent > 0
    /\ recent' = recent - 1
    /\ UNCHANGED <<clientVars, toServer, toClient, server, joined, listener, mailbox, wire, excused>>

-----------------------------------------------------------------------------
Arrival == Authenticated \/ FlowChanged \/ ErrorArrives \/ DataArrives

Handler ==
    \/ HandleAuthenticate \/ (\E f \in Flows : AuthDone(f)) \/ HandleSetFlow \/ HandleSubscribe \/ HandleUnsubscribe
    \/ RateLimited("subscribe") \/ RateLimited("unsubscribe")
    \/ AllLeft \/ AllJoined \/ SnapshotsSent
    \/ \E c \in Channels : Leave(c) \/ Join(c) \/ SendSnapshot(c)

\* A send that times out or finds the browser gone ends the listener too, with
\* subscriptions left: the connection is then over, and Close has both in one step.
Listener == Forward \/ ListenerEnds \/ ListenerRestarts

Next ==
    \/ Connect \/ Close \/ FlowSwitchTimeout
    \/ \E c \in Channels : Subscribe(c) \/ Unsubscribe(c)
    \/ \E f \in Flows : SetFlow(f)
    \/ Arrival \/ Handler \/ BroadcastMessage
    \/ Listener \/ ListenerFails
    \/ \E c \in Channels, f \in Flows : Broadcast(c, f)
    \/ WindowSlides

Spec == Init /\ [][Next]_vars

\* The connection delivers, the consumer runs its handlers and its listener, and
\* the browser reconnects; nothing makes a user, a broadcast or a failure happen.
FairSpec ==
    /\ Spec
    /\ WF_vars(Connect) /\ WF_vars(Arrival) /\ WF_vars(Handler)
    /\ WF_vars(BroadcastMessage) /\ WF_vars(Listener)

-----------------------------------------------------------------------------
(* Properties *)

\* Between two handlers the consumer is in exactly the groups and Redis channels
\* of its subscriptions, in its current flow: a switch that is interleaved with
\* broadcasts and listener failures leaves nothing behind.  And at all times a
\* Redis subscription has a listener, or one about to be restarted: no death of
\* the listener, in the middle of a switch either, leaves the detections silent.
ConsumerConsistent ==
    /\ server.at = "idle" => joined = server.subs \X {server.flow}
    /\ InPubSub # {} => listener # "none"

Quiet ==
    /\ Up /\ client.authed /\ client.pending = {}
    /\ server.at = "idle"
    /\ toServer = <<>> /\ toClient = <<>>

\* When nothing is under way the two ends agree: on the flow always, and on the
\* channels but for those the rate limit refused (nothing asks again) and those
\* unmounted while authentication was pending (their queued request is still sent).
EndsAgree ==
    Quiet => /\ client.flow = server.flow
             /\ Wanted \ excused \subseteq server.subs
             /\ server.subs \subseteq Wanted \cup excused

\* A channel a component wants is subscribed in the end, whatever the user, the
\* rate limit of other channels and the flow switches do meanwhile.
WantedIsServed ==
    \A c \in Channels :
        (client.authed /\ callbacks[c] = 1)
            ~> (c \in server.subs \cup excused \/ callbacks[c] = 0 \/ ~client.authed)

\* Data of the flow that was left may still arrive after the switch is confirmed,
\* from the mailbox and the Redis connection; once the flow is settled it stops.
OldFlowFades ==
    \A f \in Flows :
        (<>[](client.flow = f /\ server.flow = f /\ Up))
            => <>[](\A i \in DOMAIN toClient : toClient[i].kind = "data" => toClient[i].flow = f)
=============================================================================
