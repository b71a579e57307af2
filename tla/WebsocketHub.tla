---------------------------- MODULE WebsocketHub ----------------------------
(***************************************************************************)
(* The websocket hub (internal/websocket/ws.go, push.go) and its channels  *)
(* (cmd/main.go).  Services push events without blocking; one goroutine,   *)
(* Run, receives events and the clients that come and go, from channels    *)
(* among which it selects at random; each connection has a reader, which   *)
(* announces that it leaves, and a writer with a buffer of its own.        *)
(*                                                                         *)
(* A broadcast is one step: it never blocks, and between two of its sends  *)
(* only writers act, each on its own buffer.                               *)
(*                                                                         *)
(* Middleware lets everybody with a session pass, of whatever role; which  *)
(* routes a role may open is up to each handler, and so is the talent of a *)
(* connection.                                                             *)
(***************************************************************************)
EXTENDS Naturals, FiniteSets, Sequences, SequencesExt

CONSTANTS Clients,     \* connections: records with the user's role and talent, and
                       \* the route and the cycle that are asked for
          Events,      \* what services push: records with type, talent and cycle
          RegisterCap, \* capacity of register and of unregister (32)
          EventCap,    \* capacity of each channel of events, by type (64 to 512)
          SendCap,     \* capacity of a client's buffer (256)
          MaxPushes,   \* bound: pushes of one behaviour
          MaxConnections \* bound: connections of one behaviour

Types == {"anomaly", "conversion", "cycle_update", "talent_update", "audit"}
NoCycle == ""
NoTalent == ""
Roles == {"superadmin", "admin", "campaign_manager", "talent", "viewer"}

ASSUME HubAssumption ==
  /\ \A c \in Clients : c.route \in {"admin_live", "admin", "talent"} /\ c.role \in Roles
  /\ \A e \in Events : e.type \in Types
  /\ {RegisterCap, SendCap} \subseteq Nat \ {0} /\ EventCap \in [Types -> Nat \ {0}]
  /\ {MaxPushes, MaxConnections} \subseteq Nat

VARIABLES conn,       \* the goroutines that read: where each connection is
          writer,     \* the goroutines that write
          register, unregister, \* the channels of clients
          members,    \* admin_clients, talent_clients and admin_live together
          channel,    \* the channels of events, by type
          send,       \* the buffer of each client
          running     \* the context of Run is not cancelled

\* Not in the code: what was written to each connection, the clients whose
\* leaving Run received before their coming, and the number of pushes.
VARIABLES written, overtaken, pushes

conns == <<conn, writer>>
queues == <<register, unregister, channel>>
vars == <<conns, queues, members, send, running, written, overtaken, pushes>>

Pushed == {[n |-> n, event |-> e] : n \in 1..MaxPushes, e \in Events}

TypeOK ==
  /\ conn \in [Clients -> {"new", "serve", "open", "leaving", "gone"}]
  /\ writer \in [Clients -> {"none", "on", "off"}]
  /\ \A q \in {register, unregister} : q \in Seq(Clients) /\ Len(q) <= RegisterCap
  /\ members \subseteq Clients
  /\ channel \in [Types -> Seq(Pushed)] /\ \A t \in Types : Len(channel[t]) <= EventCap[t]
  /\ send \in [Clients -> Seq(Pushed)] /\ \A c \in Clients : Len(send[c]) <= SendCap
  /\ written \in [Clients -> Seq(Pushed)]
  /\ running \in BOOLEAN /\ overtaken \subseteq Clients /\ pushes \in 0..MaxPushes

Init ==
  /\ conn = [c \in Clients |-> "new"] /\ writer = [c \in Clients |-> "none"]
  /\ register = <<>> /\ unregister = <<>> /\ members = {}
  /\ channel = [t \in Types |-> <<>>]
  /\ send = [c \in Clients |-> <<>>] /\ written = [c \in Clients |-> <<>>]
  /\ running = TRUE /\ overtaken = {} /\ pushes = 0

-----------------------------------------------------------------------------
(* Connections *)

\* A deviation: the live route is as open as that of a cycle.
MayOpenAsAdmin(c) == c.route = "talent" => c.talent # NoTalent

\* ServeAdminLive wants an admin's role and ServeTalent a talent of the user;
\* ServeAdmin only wants a user.
MayOpen(c) ==
  CASE c.route = "admin_live" -> c.role \in {"superadmin", "admin"}
    [] c.route = "admin"      -> TRUE
    [] c.route = "talent"     -> c.talent # NoTalent

\* ServeAdmin, ServeTalent, ServeAdminLive: the request is upgraded, or refused,
\* which leaves nothing.
Upgrade(c) ==
  /\ conn[c] = "new" /\ MayOpen(c)
  /\ Cardinality({d \in Clients : conn[d] # "new"}) < MaxConnections
  /\ conn' = [conn EXCEPT ![c] = "serve"]
  /\ UNCHANGED <<writer, queues, members, send, running, written, overtaken, pushes>>

\* The handler waits for room in register, and starts both pumps.
StartPumps(c) ==
  /\ conn[c] = "serve" /\ Len(register) < RegisterCap
  /\ register' = Append(register, c)
  /\ conn' = [conn EXCEPT ![c] = "open"] /\ writer' = [writer EXCEPT ![c] = "on"]
  /\ UNCHANGED <<unregister, channel, members, send, running, written, overtaken, pushes>>

\* ReadMessage fails: the client left, did not answer a ping, or was closed.
ReadFails(c) ==
  /\ conn[c] = "open"
  /\ conn' = [conn EXCEPT ![c] = "leaving"]
  /\ UNCHANGED <<writer, queues, members, send, running, written, overtaken, pushes>>

\* A deviation: what is left in the buffer must be written first.
LeaveDrained(c) ==
  /\ conn[c] = "leaving" /\ Len(unregister) < RegisterCap /\ send[c] = <<>>
  /\ unregister' = Append(unregister, c)
  /\ conn' = [conn EXCEPT ![c] = "gone"]
  /\ UNCHANGED <<writer, register, channel, members, send, running, written, overtaken, pushes>>

\* The deferred function of readPump waits for room in unregister, then closes.
Leave(c) ==
  /\ conn[c] = "leaving" /\ Len(unregister) < RegisterCap
  /\ unregister' = Append(unregister, c)
  /\ conn' = [conn EXCEPT ![c] = "gone"]
  /\ UNCHANGED <<writer, register, channel, members, send, running, written, overtaken, pushes>>

WriteMessage(c) ==
  /\ writer[c] = "on" /\ send[c] # <<>> /\ conn[c] # "gone"
  /\ send' = [send EXCEPT ![c] = Tail(@)]
  /\ written' = [written EXCEPT ![c] = Append(@, Head(send[c]))]
  /\ UNCHANGED <<conns, queues, members, running, overtaken, pushes>>

\* A message or a ping cannot be written: writePump closes the connection and
\* nobody empties the buffer any more.
WriteFails(c) ==
  /\ writer[c] = "on"
  /\ writer' = [writer EXCEPT ![c] = "off"]
  /\ conn' = IF conn[c] = "open" THEN [conn EXCEPT ![c] = "leaving"] ELSE conn
  /\ UNCHANGED <<queues, members, send, running, written, overtaken, pushes>>

-----------------------------------------------------------------------------
(* Events *)

\* A deviation: the event overtakes those that wait.
TryPushFirst(e) ==
  /\ pushes < MaxPushes
  /\ pushes' = pushes + 1
  /\ channel' = IF Len(channel[e.type]) < EventCap[e.type]
                THEN [channel EXCEPT ![e.type] = <<[n |-> pushes + 1, event |-> e]>> \o @]
                ELSE channel
  /\ UNCHANGED <<conns, register, unregister, members, send, running, written, overtaken>>

\* A deviation: the event is appended to a full channel too.
TryPushAlways(e) ==
  /\ pushes < MaxPushes
  /\ pushes' = pushes + 1
  /\ channel' = [channel EXCEPT ![e.type] = Append(@, [n |-> pushes + 1, event |-> e])]
  /\ UNCHANGED <<conns, register, unregister, members, send, running, written, overtaken>>

\* TryPush drops the event when the channel is full.
TryPush(e) ==
  /\ pushes < MaxPushes
  /\ pushes' = pushes + 1
  /\ channel' = IF Len(channel[e.type]) < EventCap[e.type]
                THEN [channel EXCEPT ![e.type] = Append(@, [n |-> pushes + 1, event |-> e])]
                ELSE channel
  /\ UNCHANGED <<conns, register, unregister, members, send, running, written, overtaken>>

Admins(cycle) == {c \in members : c.route = "admin" /\ c.cycle = cycle}
TalentIn(talent, cycle) == {c \in members : c.route = "talent" /\ c.talent = talent /\ c.cycle = cycle}
TalentAllCycles(talent) == {c \in members : c.route = "talent" /\ c.talent = talent}
AdminLive == {c \in members : c.route = "admin_live"}

\* A deviation: an update of a talent goes by its cycle alone.
RecipientsByCycle(e) ==
  CASE e.type = "audit" -> AdminLive
    [] OTHER            -> {c \in members : c.route # "admin_live" /\ c.cycle = e.cycle}

\* Whom Run broadcasts an event to.
Recipients(e) ==
  CASE e.type = "conversion"                  -> Admins(e.cycle) \cup TalentIn(e.talent, e.cycle)
    [] e.type \in {"anomaly", "cycle_update"} -> Admins(e.cycle)
    [] e.type = "talent_update"               -> IF e.cycle # NoCycle
                                                 THEN Admins(e.cycle) \cup TalentIn(e.talent, e.cycle)
                                                 ELSE TalentAllCycles(e.talent)
    [] e.type = "audit"                       -> AdminLive

HasRoom(c) == Len(send[c]) < SendCap

\* A deviation: the hub waits for a client whose buffer is full.
BroadcastWaiting(t) ==
  /\ running /\ channel[t] # <<>>
  /\ LET p == Head(channel[t]) IN
       /\ \A c \in Recipients(p.event) : HasRoom(c)
       /\ send' = [c \in Clients |-> IF c \in Recipients(p.event) THEN Append(send[c], p) ELSE send[c]]
  /\ channel' = [channel EXCEPT ![t] = Tail(@)]
  /\ UNCHANGED <<conns, register, unregister, members, running, written, overtaken, pushes>>

\* A deviation: an event that some buffer had no room for is tried again later.
BroadcastAgain(t) ==
  /\ running /\ channel[t] # <<>>
  /\ LET p    == Head(channel[t])
         full == {c \in Recipients(p.event) : ~HasRoom(c)}
     IN  /\ send' = [c \in Clients |-> IF c \in Recipients(p.event) \ full
                                       THEN Append(send[c], p) ELSE send[c]]
         /\ channel' = [channel EXCEPT ![t] = IF full = {} THEN Tail(@) ELSE Append(Tail(@), p)]
  /\ UNCHANGED <<conns, register, unregister, members, running, written, overtaken, pushes>>

\* Run receives an event; a client whose buffer is full misses it.
Broadcast(t) ==
  /\ running /\ channel[t] # <<>>
  /\ LET p == Head(channel[t]) IN
       send' = [c \in Clients |-> IF c \in Recipients(p.event) /\ HasRoom(c)
                                  THEN Append(send[c], p) ELSE send[c]]
  /\ channel' = [channel EXCEPT ![t] = Tail(@)]
  /\ UNCHANGED <<conns, register, unregister, members, running, written, overtaken, pushes>>

-----------------------------------------------------------------------------
(* Run: clients *)

AddMember ==
  /\ running /\ register # <<>>
  /\ members' = members \cup {Head(register)}
  /\ register' = Tail(register)
  /\ UNCHANGED <<conns, unregister, channel, send, running, written, overtaken, pushes>>

\* A deviation: clients of the live route stay.
RemoveMemberOfCycle ==
  /\ running /\ unregister # <<>>
  /\ LET c == Head(unregister) IN
       /\ members' = IF c.route = "admin_live" THEN members ELSE members \ {c}
       /\ overtaken' = IF c \in ToSet(register) THEN overtaken \cup {c} ELSE overtaken
  /\ unregister' = Tail(unregister)
  /\ UNCHANGED <<conns, register, channel, send, running, written, pushes>>

\* Removing a client who is not there yet does nothing.
RemoveMember ==
  /\ running /\ unregister # <<>>
  /\ LET c == Head(unregister) IN
       /\ members' = members \ {c}
       /\ overtaken' = IF c \in ToSet(register) THEN overtaken \cup {c} ELSE overtaken
  /\ unregister' = Tail(unregister)
  /\ UNCHANGED <<conns, register, channel, send, running, written, pushes>>

\* main cancels the context before it shuts the server down.
Stop ==
  /\ running /\ running' = FALSE
  /\ UNCHANGED <<conns, queues, members, send, written, overtaken, pushes>>

-----------------------------------------------------------------------------
Next ==
  \/ \E c \in Clients : Upgrade(c) \/ StartPumps(c) \/ ReadFails(c) \/ Leave(c)
                          \/ WriteMessage(c) \/ WriteFails(c)
  \/ \E e \in Events : TryPush(e)
  \/ \E t \in Types : Broadcast(t)
  \/ AddMember \/ RemoveMember \/ Stop

\* Select chooses at random among the channels that are ready, so that none is
\* passed over for ever; goroutines that wait for room get it in turn.
Fairness ==
  /\ WF_vars(AddMember) /\ WF_vars(RemoveMember)
  /\ \A t \in Types : WF_vars(Broadcast(t))
  /\ \A c \in Clients : WF_vars(StartPumps(c)) /\ WF_vars(Leave(c))

Spec == Init /\ [][Next]_vars /\ Fairness

-----------------------------------------------------------------------------
\* What docs/websocket-events.md:35-220 sends over each route.
ForRoute(c, e) ==
  CASE c.route = "admin_live" -> e.type = "audit"
    [] c.route = "admin"      -> e.type # "audit" /\ e.cycle = c.cycle
    [] c.route = "talent"     -> /\ e.type \in {"conversion", "talent_update"}
                                 /\ e.talent = c.talent
                                 /\ \/ e.cycle = c.cycle
                                    \/ e.type = "talent_update" /\ e.cycle = NoCycle

\* Whom docs/websocket-events.md:9-11 names as the audience of each route.
InAudience(c) ==
  CASE c.route = "admin_live" -> c.role \in {"superadmin", "admin"}
    [] c.route = "admin"      -> c.role \in {"superadmin", "admin", "campaign_manager"}
    [] c.route = "talent"     -> c.talent # NoTalent

\* The route of a cycle is open to everybody, which the document does not say.
MayReceive(c, e) == ForRoute(c, e) /\ (InAudience(c) \/ c.route = "admin")

\* Whatever is dropped, and however late a client is removed: a connection is
\* sent only events of its route, of its cycle and of its own user's talent; if
\* its user is not of the audience the document names for the route, then only
\* over the admin route of a cycle, whose handler looks at no role; and of each
\* type in the order of the pushes and once (internal/websocket/ws.go:145-354).
RightEventsInOrder ==
  \A c \in Clients :
    LET sent == written[c] \o send[c] IN
    /\ \A i \in DOMAIN sent : MayReceive(c, sent[i].event)
    /\ \A i, j \in DOMAIN sent :
         i < j /\ sent[i].event.type = sent[j].event.type => sent[i].n < sent[j].n

\* A connection that is gone stays a member only while its leaving waits to be
\* received, or, for ever, if Run received its leaving before its coming
\* (internal/websocket/ws.go:110, 127).
StaleNeedsOvertaking ==
  \A c \in members : conn[c] = "gone" => c \in ToSet(unregister) \/ c \in overtaken

Waits(c) == conn[c] \in {"serve", "leaving"}

StoppedFull(c) ==
  /\ ~running
  /\ \/ conn[c] = "serve" /\ Len(register) = RegisterCap
     \/ conn[c] = "leaving" /\ Len(unregister) = RegisterCap

NoConnectionHangs == \A c \in Clients : Waits(c) ~> ~Waits(c) \/ StoppedFull(c)

\* Once nothing is pushed any more, the channels become empty.
EventsFlow ==
  pushes = MaxPushes ~> (\A t \in Types : channel[t] = <<>>) \/ ~running

\* Nobody waits for ever while the hub runs: a handler that waits to register
\* and a reader that waits to unregister go on, unless the hub has stopped and
\* the channel is full; and an event that was accepted is broadcast, whatever
\* became of the connections it goes to: a full buffer that nobody empties holds
\* nothing up (internal/websocket/ws.go:208-283, 301, 377, cmd/main.go:367).
HubServes == NoConnectionHangs /\ EventsFlow
=============================================================================
