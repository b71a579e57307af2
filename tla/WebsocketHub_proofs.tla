------------------------- MODULE WebsocketHub_proofs -------------------------
(***************************************************************************)
(* Proofs about WebsocketHub, for any number of connections and events and *)
(* any capacities: who remains a member, and what is sent to whom in which *)
(* order.  What a connection may see follows from who was let in.          *)
(***************************************************************************)
EXTENDS WebsocketHub, SequenceTheorems, TLAPS

-----------------------------------------------------------------------------
(* Queues *)

LEMMA AppendAdds ==
  ASSUME NEW S, NEW s \in Seq(S), NEW x \in S
  PROVE  /\ Append(s, x) \in Seq(S) /\ Len(Append(s, x)) = Len(s) + 1
         /\ ToSet(Append(s, x)) = ToSet(s) \cup {x}
<1>1. /\ Append(s, x) \in Seq(S) /\ Len(Append(s, x)) = Len(s) + 1 /\ Len(s) \in Nat
      /\ \A i \in 1 .. Len(s) : Append(s, x)[i] = s[i]
      /\ Append(s, x)[Len(s) + 1] = x
      /\ DOMAIN s = 1 .. Len(s) /\ DOMAIN Append(s, x) = 1 .. Len(s) + 1
  BY AppendProperties, LenProperties
<1>. QED  BY <1>1 DEF ToSet

LEMMA TailRemoves ==
  ASSUME NEW S, NEW s \in Seq(S), s # <<>>
  PROVE  /\ Head(s) \in S /\ Tail(s) \in Seq(S) /\ Len(Tail(s)) = Len(s) - 1 /\ Len(s) \in Nat \ {0}
         /\ ToSet(s) = ToSet(Tail(s)) \cup {Head(s)}
<1>1. /\ Head(s) \in S /\ Tail(s) \in Seq(S) /\ Len(Tail(s)) = Len(s) - 1 /\ Len(s) \in Nat \ {0}
      /\ \A i \in 1 .. Len(Tail(s)) : Tail(s)[i] = s[i + 1]
      /\ Head(s) = s[1]
      /\ DOMAIN s = 1 .. Len(s) /\ DOMAIN Tail(s) = 1 .. Len(Tail(s))
  BY HeadTailProperties, LenProperties
<1>2. ASSUME NEW x \in ToSet(s), x # Head(s) PROVE x \in ToSet(Tail(s))
  <2>1. PICK i \in 1 .. Len(s) : s[i] = x
    BY <1>1 DEF ToSet
  <2>2. i - 1 \in 1 .. Len(Tail(s)) /\ Tail(s)[i - 1] = x
    BY <1>1, <1>2, <2>1
  <2>. QED  BY <1>1, <2>2 DEF ToSet
<1>3. ASSUME NEW x \in ToSet(Tail(s)) PROVE x \in ToSet(s)
  <2>1. PICK i \in 1 .. Len(Tail(s)) : Tail(s)[i] = x
    BY <1>1 DEF ToSet
  <2>2. i + 1 \in 1 .. Len(s) /\ s[i + 1] = x
    BY <1>1, <2>1
  <2>. QED  BY <1>1, <2>2 DEF ToSet
<1>4. Head(s) \in ToSet(s)
  BY <1>1 DEF ToSet
<1>. QED  BY <1>1, <1>2, <1>3, <1>4

LEMMA AppendToConcat ==
  ASSUME NEW S, NEW u \in Seq(S), NEW v \in Seq(S), NEW x \in S
  PROVE  u \o Append(v, x) = Append(u \o v, x)
<1>1. <<x>> \in Seq(S)
  OBVIOUS
<1>2. u \o v \in Seq(S)
  BY ConcatProperties
<1>3. Append(v, x) = v \o <<x>> /\ Append(u \o v, x) = (u \o v) \o <<x>>
  BY <1>2, AppendIsConcat
<1>. QED  BY <1>1, <1>3, ConcatAssociative

-----------------------------------------------------------------------------
(* Types *)

LEMMA Capacities ==
  /\ RegisterCap \in Nat /\ RegisterCap >= 1 /\ SendCap \in Nat /\ SendCap >= 1 /\ MaxPushes \in Nat
  /\ \A t \in Types : EventCap[t] \in Nat /\ EventCap[t] >= 1
  BY HubAssumption

LEMMA TypeInit == Init => TypeOK
<1>. SUFFICES ASSUME Init PROVE TypeOK
  OBVIOUS
<1>1. \A S : <<>> \in Seq(S) /\ Len(<<>>) = 0
  BY EmptySeq, LenProperties
<1>. QED  BY <1>1, Capacities DEF Init, TypeOK

LEMMA TypeStep == TypeOK /\ [Next]_vars => TypeOK'
<1>. SUFFICES ASSUME TypeOK, [Next]_vars PROVE TypeOK'
  OBVIOUS
<1>. USE DEF TypeOK
<1>1. CASE UNCHANGED vars
  BY <1>1 DEF vars, conns, queues
<1>2. ASSUME NEW c \in Clients, Upgrade(c) \/ ReadFails(c) \/ WriteFails(c) PROVE TypeOK'
  BY <1>2 DEF Upgrade, ReadFails, WriteFails, conns, queues
<1>3. ASSUME NEW c \in Clients, StartPumps(c) PROVE TypeOK'
  <2>1. register' \in Seq(Clients) /\ Len(register') = Len(register) + 1
    BY <1>3, AppendAdds DEF StartPumps
  <2>2. Len(register') <= RegisterCap
    BY <1>3, <2>1, LenProperties, Capacities DEF StartPumps
  <2>. QED  BY <1>3, <2>1, <2>2 DEF StartPumps
<1>4. ASSUME NEW c \in Clients, Leave(c) PROVE TypeOK'
  <2>1. unregister' \in Seq(Clients) /\ Len(unregister') = Len(unregister) + 1
    BY <1>4, AppendAdds DEF Leave
  <2>2. Len(unregister') <= RegisterCap
    BY <1>4, <2>1, LenProperties, Capacities DEF Leave
  <2>. QED  BY <1>4, <2>1, <2>2 DEF Leave
<1>5. ASSUME NEW c \in Clients, WriteMessage(c) PROVE TypeOK'
  <2>1. Head(send[c]) \in Pushed /\ Tail(send[c]) \in Seq(Pushed)
        /\ Len(Tail(send[c])) = Len(send[c]) - 1 /\ Len(send[c]) \in Nat
    BY <1>5, TailRemoves DEF WriteMessage
  <2>2. Append(written[c], Head(send[c])) \in Seq(Pushed)
    BY <2>1, AppendAdds
  <2>3. Len(Tail(send[c])) <= SendCap
    BY <2>1, Capacities
  <2>. QED  BY <1>5, <2>1, <2>2, <2>3 DEF WriteMessage, conns, queues
<1>6. ASSUME NEW e \in Events, TryPush(e) PROVE TypeOK'
  <2>. DEFINE p == [n |-> pushes + 1, event |-> e]
  <2>1. p \in Pushed /\ pushes' \in 0 .. MaxPushes /\ e.type \in Types
    BY <1>6, Capacities, HubAssumption DEF TryPush, Pushed
  <2>. HIDE DEF p
  <2>2. Append(channel[e.type], p) \in Seq(Pushed)
        /\ Len(Append(channel[e.type], p)) = Len(channel[e.type]) + 1
    BY <2>1, AppendAdds
  <2>3. Len(channel[e.type]) < EventCap[e.type] => Len(Append(channel[e.type], p)) <= EventCap[e.type]
    BY <2>1, <2>2, LenProperties, Capacities
  <2>4. channel' = IF Len(channel[e.type]) < EventCap[e.type]
                   THEN [channel EXCEPT ![e.type] = Append(channel[e.type], p)] ELSE channel
    BY <1>6 DEF TryPush, p
  <2>. QED  BY <1>6, <2>1, <2>2, <2>3, <2>4 DEF TryPush, conns
<1>7. ASSUME NEW t \in Types, Broadcast(t) PROVE TypeOK'
  <2>1. Head(channel[t]) \in Pushed /\ Tail(channel[t]) \in Seq(Pushed)
        /\ Len(Tail(channel[t])) <= EventCap[t]
    BY <1>7, TailRemoves, Capacities DEF Broadcast
  <2>2. ASSUME NEW c \in Clients
        PROVE  send'[c] \in Seq(Pushed) /\ Len(send'[c]) <= SendCap
    <3>1. CASE c \in Recipients(Head(channel[t]).event) /\ HasRoom(c)
      <4>1. send'[c] = Append(send[c], Head(channel[t]))
        BY <1>7, <3>1 DEF Broadcast
      <4>. QED  BY <2>1, <3>1, <4>1, AppendAdds, LenProperties, Capacities DEF HasRoom
    <3>2. CASE ~(c \in Recipients(Head(channel[t]).event) /\ HasRoom(c))
      BY <1>7, <3>2 DEF Broadcast
    <3>. QED  BY <3>1, <3>2
  <2>3. send' \in [Clients -> Seq(Pushed)]
    BY <1>7, <2>2 DEF Broadcast
  <2>. QED  BY <1>7, <2>1, <2>2, <2>3 DEF Broadcast, conns
<1>8. CASE AddMember
  BY <1>8, TailRemoves, Capacities DEF AddMember, conns
<1>9. CASE RemoveMember
  <2>1. Head(unregister) \in Clients /\ Tail(unregister) \in Seq(Clients)
        /\ Len(Tail(unregister)) <= RegisterCap
    BY <1>9, TailRemoves, Capacities DEF RemoveMember
  <2>. QED  BY <1>9, <2>1 DEF RemoveMember, conns
<1>10. CASE Stop
  BY <1>10 DEF Stop, conns, queues
<1>. QED  BY <1>1, <1>2, <1>3, <1>4, <1>5, <1>6, <1>7, <1>8, <1>9, <1>10 DEF Next

\* The hub's sets, channels and buffers keep their types and stay within their
\* capacities (internal/websocket/ws.go:26-75).
THEOREM TypeCorrect == Spec => []TypeOK
  BY TypeInit, TypeStep, PTL DEF Spec

-----------------------------------------------------------------------------
(* Who remains a member *)

\* A connection that is gone, and is a member or about to become one, is also
\* about to be removed, or its leaving was received before its coming.
GoneIsNoticed ==
  \A c \in Clients :
    conn[c] = "gone" /\ c \in members \cup ToSet(register) =>
      c \in ToSet(unregister) \/ c \in overtaken

LEMMA NoticedInit == Init => GoneIsNoticed
<1>1. ToSet(<<>>) = {}
  BY DEF ToSet
<1>. QED  BY <1>1 DEF Init, GoneIsNoticed

LEMMA NoticedStep == TypeOK /\ GoneIsNoticed /\ [Next]_vars => GoneIsNoticed'
<1>. SUFFICES ASSUME TypeOK, GoneIsNoticed, [Next]_vars PROVE GoneIsNoticed'
  OBVIOUS
<1>. USE DEF GoneIsNoticed
<1>0. /\ conn \in [Clients -> {"new", "serve", "open", "leaving", "gone"}]
      /\ register \in Seq(Clients) /\ unregister \in Seq(Clients)
  BY DEF TypeOK
<1>1. CASE UNCHANGED vars \/ Stop \/ (\E e \in Events : TryPush(e)) \/ (\E t \in Types : Broadcast(t))
  <2>1. UNCHANGED <<conn, register, unregister, members, overtaken>>
    BY <1>1 DEF vars, conns, queues, Stop, TryPush, Broadcast
  <2>. QED  BY <2>1
<1>2. ASSUME NEW c \in Clients, Upgrade(c) \/ ReadFails(c) \/ WriteMessage(c) \/ WriteFails(c)
      PROVE  GoneIsNoticed'
  <2>1. UNCHANGED <<register, unregister, members, overtaken>>
    BY <1>2 DEF Upgrade, ReadFails, WriteMessage, WriteFails, queues
  <2>2. ASSUME NEW d \in Clients, conn'[d] = "gone" PROVE conn[d] = "gone"
    BY <1>0, <1>2, <2>2 DEF Upgrade, ReadFails, WriteMessage, WriteFails, conns
  <2>. QED  BY <2>1, <2>2
<1>3. ASSUME NEW c \in Clients, StartPumps(c) PROVE GoneIsNoticed'
  <2>1. ToSet(register') = ToSet(register) \cup {c}
    BY <1>0, <1>3, AppendAdds DEF StartPumps
  <2>. QED  BY <1>0, <1>3, <2>1 DEF StartPumps
<1>4. ASSUME NEW c \in Clients, Leave(c) PROVE GoneIsNoticed'
  <2>1. ToSet(unregister') = ToSet(unregister) \cup {c}
    BY <1>0, <1>4, AppendAdds DEF Leave
  <2>. QED  BY <1>0, <1>4, <2>1 DEF Leave
<1>5. CASE AddMember
  <2>1. ToSet(register) = ToSet(register') \cup {Head(register)}
    BY <1>0, <1>5, TailRemoves DEF AddMember
  <2>. QED  BY <1>5, <2>1 DEF AddMember, conns
<1>6. CASE RemoveMember
  <2>1. ToSet(unregister) = ToSet(unregister') \cup {Head(unregister)}
    BY <1>0, <1>6, TailRemoves DEF RemoveMember
  <2>2. /\ members' = members \ {Head(unregister)}
        /\ overtaken \subseteq overtaken'
        /\ Head(unregister) \in ToSet(register) => Head(unregister) \in overtaken'
        /\ UNCHANGED <<conn, register>>
    BY <1>6 DEF RemoveMember, conns
  <2>. QED  BY <2>1, <2>2
<1>. QED  BY <1>1, <1>2, <1>3, <1>4, <1>5, <1>6 DEF Next

\* A connection that is gone stays a member only while its leaving waits to be
\* received, or because it was received before its coming, for any number of
\* connections (internal/websocket/ws.go:110, 127).
THEOREM StaleCorrect == Spec => []StaleNeedsOvertaking
<1>1. TypeOK /\ GoneIsNoticed => StaleNeedsOvertaking
  BY DEF TypeOK, GoneIsNoticed, StaleNeedsOvertaking
<1>. QED  BY <1>1, TypeInit, TypeStep, NoticedInit, NoticedStep, PTL DEF Spec

-----------------------------------------------------------------------------
(* Who is let in *)

\* Whose request went on, and whoever is or becomes a member, could open the route.
Admitted ==
  \A c \in Clients : conn[c] # "new" \/ c \in members \cup ToSet(register) => MayOpen(c)

LEMMA AdmittedInit == Init => Admitted
<1>1. ToSet(<<>>) = {}
  BY DEF ToSet
<1>. QED  BY <1>1 DEF Init, Admitted

LEMMA AdmittedStep == TypeOK /\ Admitted /\ [Next]_vars => Admitted'
<1>. SUFFICES ASSUME TypeOK, Admitted, [Next]_vars PROVE Admitted'
  OBVIOUS
<1>. USE DEF Admitted
<1>0. conn \in [Clients -> {"new", "serve", "open", "leaving", "gone"}] /\ register \in Seq(Clients)
  BY DEF TypeOK
<1>1. CASE UNCHANGED vars \/ RemoveMember \/ Stop
           \/ (\E e \in Events : TryPush(e)) \/ (\E t \in Types : Broadcast(t))
  <2>1. members' \subseteq members /\ UNCHANGED <<conn, register>>
    BY <1>1 DEF vars, conns, queues, RemoveMember, Stop, TryPush, Broadcast
  <2>. QED  BY <2>1
<1>2. ASSUME NEW c \in Clients, Upgrade(c) PROVE Admitted'
  <2>1. MayOpen(c) /\ \A d \in Clients \ {c} : conn'[d] = conn[d]
    BY <1>0, <1>2 DEF Upgrade
  <2>2. UNCHANGED <<register, members>>
    BY <1>2 DEF Upgrade, queues
  <2>. QED  BY <2>1, <2>2
<1>3. ASSUME NEW c \in Clients, StartPumps(c) PROVE Admitted'
  <2>1. ToSet(register') = ToSet(register) \cup {c}
    BY <1>0, <1>3, AppendAdds DEF StartPumps
  <2>2. conn[c] # "new" /\ members' = members /\ \A d \in Clients \ {c} : conn'[d] = conn[d]
    BY <1>0, <1>3 DEF StartPumps
  <2>. QED  BY <2>1, <2>2
<1>4. ASSUME NEW c \in Clients, ReadFails(c) \/ Leave(c) \/ WriteMessage(c) \/ WriteFails(c)
      PROVE  Admitted'
  <2>1. UNCHANGED <<register, members>>
    BY <1>4 DEF ReadFails, Leave, WriteMessage, WriteFails, queues
  <2>2. ASSUME NEW d \in Clients, conn'[d] # "new" PROVE conn[d] # "new"
    BY <1>0, <1>4, <2>2 DEF ReadFails, Leave, WriteMessage, WriteFails, conns
  <2>. QED  BY <2>1, <2>2
<1>5. CASE AddMember
  <2>1. ToSet(register) = ToSet(register') \cup {Head(register)}
    BY <1>0, <1>5, TailRemoves DEF AddMember
  <2>2. members' = members \cup {Head(register)} /\ conn' = conn
    BY <1>5 DEF AddMember, conns
  <2>. QED  BY <2>1, <2>2
<1>. QED  BY <1>1, <1>2, <1>3, <1>4, <1>5 DEF Next

-----------------------------------------------------------------------------
(* What is sent *)

Sent(c) == written[c] \o send[c]

\* A channel holds events of its type in the order of their pushes.
ChannelsInOrder ==
  \A t \in Types :
    /\ \A i \in DOMAIN channel[t] : channel[t][i].event.type = t /\ channel[t][i].n <= pushes
    /\ \A i, j \in DOMAIN channel[t] : i < j => channel[t][i].n < channel[t][j].n

\* Of what a connection was sent it may see each event, each was pushed before
\* whatever of its type is still in the channel, and before what was sent later.
SentInOrder(c) ==
  \A i \in DOMAIN Sent(c) :
    /\ MayReceive(c, Sent(c)[i].event)
    /\ Sent(c)[i].n <= pushes
    /\ \A j \in DOMAIN channel[Sent(c)[i].event.type] :
         Sent(c)[i].n < channel[Sent(c)[i].event.type][j].n
    /\ \A j \in DOMAIN Sent(c) :
         i < j /\ Sent(c)[i].event.type = Sent(c)[j].event.type => Sent(c)[i].n < Sent(c)[j].n

OrderInv == ChannelsInOrder /\ \A c \in Clients : SentInOrder(c)

LEMMA SentIsSeq == TypeOK => \A c \in Clients : Sent(c) \in Seq(Pushed)
  BY ConcatProperties DEF TypeOK, Sent

LEMMA OrderInit == Init => OrderInv
<1>. SUFFICES ASSUME Init PROVE OrderInv
  OBVIOUS
<1>1. DOMAIN <<>> = {}
  OBVIOUS
<1>2. ASSUME NEW c \in Clients PROVE Sent(c) = <<>>
  BY ConcatEmptySeq, EmptySeq DEF Init, Sent
<1>. QED  BY <1>1, <1>2 DEF Init, OrderInv, ChannelsInOrder, SentInOrder

\* Whom the hub sends an event to may see it.
LEMMA RecipientsMay ==
  ASSUME TypeOK, Admitted, NEW e \in Events, NEW c \in Clients, c \in Recipients(e)
  PROVE  MayReceive(c, e)
<1>1. /\ c.route \in {"admin_live", "admin", "talent"}
      /\ e.type \in {"anomaly", "conversion", "cycle_update", "talent_update", "audit"}
  BY HubAssumption DEF Types
<1>2. c \in members
  BY <1>1 DEF Recipients, Admins, TalentIn, TalentAllCycles, AdminLive
<1>3. InAudience(c) \/ c.route = "admin"
  BY <1>1, <1>2 DEF Admitted, MayOpen, InAudience
<1>4. ForRoute(c, e)
  <2>1. CASE e.type = "conversion"
    <3>1. c \in Admins(e.cycle) \cup TalentIn(e.talent, e.cycle)
      BY <2>1 DEF Recipients
    <3>. QED  BY <2>1, <3>1 DEF Admins, TalentIn, ForRoute
  <2>2. CASE e.type \in {"anomaly", "cycle_update"}
    <3>1. c \in Admins(e.cycle)
      BY <2>2 DEF Recipients
    <3>. QED  BY <2>2, <3>1 DEF Admins, ForRoute
  <2>3. CASE e.type = "talent_update" /\ e.cycle # NoCycle
    <3>1. c \in Admins(e.cycle) \cup TalentIn(e.talent, e.cycle)
      BY <2>3 DEF Recipients
    <3>. QED  BY <2>3, <3>1 DEF Admins, TalentIn, ForRoute
  <2>4. CASE e.type = "talent_update" /\ e.cycle = NoCycle
    <3>1. c \in TalentAllCycles(e.talent)
      BY <2>4 DEF Recipients
    <3>. QED  BY <2>4, <3>1 DEF TalentAllCycles, ForRoute
  <2>5. CASE e.type = "audit"
    <3>1. c \in AdminLive
      BY <2>5 DEF Recipients
    <3>. QED  BY <2>5, <3>1 DEF AdminLive, ForRoute
  <2>. QED  BY <1>1, <2>1, <2>2, <2>3, <2>4, <2>5
<1>. QED  BY <1>3, <1>4 DEF MayReceive

\* What a write moves from the buffer to the connection stays in its place.
LEMMA WriteKeepsSent ==
  ASSUME TypeOK, NEW c \in Clients, WriteMessage(c), NEW d \in Clients
  PROVE  Sent(d)' = Sent(d)
<1>1. CASE d # c
  BY <1>1 DEF WriteMessage, TypeOK, Sent
<1>2. CASE d = c
  <2>. DEFINE w == written[c]
              b == send[c]
  <2>1. w \in Seq(Pushed) /\ b \in Seq(Pushed) /\ b # <<>>
    BY DEF TypeOK, WriteMessage
  <2>2. written'[c] = Append(w, Head(b)) /\ send'[c] = Tail(b)
    BY DEF TypeOK, WriteMessage
  <2>. HIDE DEF w, b
  <2>3. Append(w, Head(b)) \o Tail(b) = w \o b
    <3>1. Head(b) \in Pushed /\ Tail(b) \in Seq(Pushed) /\ <<Head(b)>> \in Seq(Pushed)
      BY <2>1, HeadTailProperties
    <3>2. Append(w, Head(b)) = w \o <<Head(b)>>
      BY <2>1, <3>1, AppendIsConcat
    <3>3. <<Head(b)>> \o Tail(b) = b
      BY <2>1, ConcatSimplifications, HeadTailProperties
    <3>. QED  BY <2>1, <3>1, <3>2, <3>3, ConcatAssociative
  <2>. QED  BY <1>2, <2>2, <2>3 DEF Sent, w, b
<1>. QED  BY <1>1, <1>2

\* A push puts an event with the largest number at the end of its channel.
LEMMA PushKeepsOrder ==
  ASSUME TypeOK, OrderInv, NEW e \in Events, TryPush(e)
  PROVE  OrderInv'
<1>. DEFINE p == [n |-> pushes + 1, event |-> e]
<1>1. /\ p.n = pushes + 1 /\ p.event = e /\ p \in Pushed /\ pushes \in Nat /\ pushes' = pushes + 1
      /\ e.type \in Types /\ UNCHANGED <<send, written>>
  BY Capacities, HubAssumption DEF TypeOK, TryPush, Pushed
<1>2. channel' = channel \/ channel' = [channel EXCEPT ![e.type] = Append(channel[e.type], p)]
  BY DEF TryPush
<1>. HIDE DEF p
<1>3. ASSUME NEW t \in Types
      PROVE  \/ channel'[t] = channel[t]
             \/ /\ t = e.type /\ channel'[t] = Append(channel[t], p)
  BY <1>2 DEF TypeOK
<1>4. ASSUME NEW t \in Types
      PROVE  /\ DOMAIN channel[t] = 1 .. Len(channel[t]) /\ Len(channel[t]) \in Nat
             /\ \A i \in DOMAIN channel[t] : channel[t][i].n \in Nat
             /\ DOMAIN channel'[t] \subseteq DOMAIN channel[t] \cup {Len(channel[t]) + 1}
             /\ \A i \in DOMAIN channel[t] : i \in DOMAIN channel'[t] /\ channel'[t][i] = channel[t][i]
             /\ Len(channel[t]) + 1 \in DOMAIN channel'[t] =>
                  channel'[t][Len(channel[t]) + 1] = p /\ t = e.type
  <2>1. channel[t] \in Seq(Pushed)
    BY DEF TypeOK
  <2>2. /\ DOMAIN channel[t] = 1 .. Len(channel[t]) /\ Len(channel[t]) \in Nat
        /\ \A i \in DOMAIN channel[t] : channel[t][i].n \in Nat
    BY <2>1, LenProperties, ElementOfSeq DEF Pushed
  <2>3. /\ Append(channel[t], p) \in Seq(Pushed)
        /\ \A i \in 1 .. Len(channel[t]) : Append(channel[t], p)[i] = channel[t][i]
        /\ Append(channel[t], p)[Len(channel[t]) + 1] = p
        /\ DOMAIN Append(channel[t], p) = 1 .. Len(channel[t]) + 1
    BY <1>1, <2>1, AppendProperties, LenProperties
  <2>. QED  BY <1>3, <2>2, <2>3
<1>5. ChannelsInOrder'
  <2>1. ASSUME NEW t \in Types, NEW i \in DOMAIN channel'[t]
        PROVE  channel'[t][i].event.type = t /\ channel'[t][i].n <= pushes'
    BY <1>1, <1>4, <2>1 DEF OrderInv, ChannelsInOrder
  <2>2. ASSUME NEW t \in Types, NEW i \in DOMAIN channel'[t], NEW j \in DOMAIN channel'[t], i < j
        PROVE  channel'[t][i].n < channel'[t][j].n
    BY <1>1, <1>4, <2>2 DEF OrderInv, ChannelsInOrder
  <2>. QED  BY <2>1, <2>2 DEF ChannelsInOrder
<1>6. ASSUME NEW c \in Clients PROVE SentInOrder(c)'
  <2>1. Sent(c)' = Sent(c) /\ SentInOrder(c) /\ Sent(c) \in Seq(Pushed)
    BY <1>1, SentIsSeq DEF Sent, OrderInv
  <2>2. ASSUME NEW i \in DOMAIN Sent(c)
        PROVE  Sent(c)[i].n \in Nat /\ Sent(c)[i].event.type \in Types
    <3>1. Sent(c)[i] \in Pushed
      BY <2>1, ElementOfSeq, LenProperties
    <3>. QED  BY <3>1, HubAssumption DEF Pushed
  <2>3. ASSUME NEW i \in DOMAIN Sent(c), NEW j \in DOMAIN channel'[Sent(c)[i].event.type]
        PROVE  Sent(c)[i].n < channel'[Sent(c)[i].event.type][j].n
    <3>1. SUFFICES ASSUME NEW u \in Types, Sent(c)[i].event.type = u
                   PROVE  Sent(c)[i].n < channel'[u][j].n
      BY <2>2
    <3>2. Sent(c)[i].n \in Nat /\ Sent(c)[i].n <= pushes
          /\ \A k \in DOMAIN channel[u] : Sent(c)[i].n < channel[u][k].n
      BY <2>1, <2>2, <3>1 DEF SentInOrder
    <3>3. j \in DOMAIN channel'[u]
      BY <2>3, <3>1
    <3>4. CASE j \in DOMAIN channel[u]
      BY <1>4, <3>2, <3>4
    <3>5. CASE j = Len(channel[u]) + 1
      BY <1>1, <1>4, <3>2, <3>3, <3>5
    <3>. QED  BY <1>4, <3>3, <3>4, <3>5
  <2>4. \A i \in DOMAIN Sent(c) : Sent(c)[i].n <= pushes'
    BY <1>1, <2>1, <2>2 DEF SentInOrder
  <2>. QED  BY <2>1, <2>3, <2>4 DEF SentInOrder
<1>. QED  BY <1>5, <1>6 DEF OrderInv

\* A broadcast sends the oldest event of its channel.
LEMMA BroadcastKeepsOrder ==
  ASSUME TypeOK, Admitted, OrderInv, NEW t \in Types, Broadcast(t)
  PROVE  OrderInv'
<1>. DEFINE p == Head(channel[t])
<1>1. /\ channel[t] \in Seq(Pushed) /\ channel[t] # <<>>
      /\ channel' = [channel EXCEPT ![t] = Tail(channel[t])] /\ channel'[t] = Tail(channel[t])
      /\ UNCHANGED <<written, pushes>>
  BY DEF TypeOK, Broadcast
<1>2. /\ p \in Pushed /\ p = channel[t][1] /\ 1 \in DOMAIN channel[t]
      /\ DOMAIN channel[t] = 1 .. Len(channel[t]) /\ Len(channel[t]) \in Nat
      /\ DOMAIN channel'[t] = 1 .. Len(channel[t]) - 1
      /\ \A i \in DOMAIN channel'[t] : channel'[t][i] = channel[t][i + 1]
  <2>1. Head(channel[t]) \in Pushed /\ Head(channel[t]) = channel[t][1]
    BY <1>1, HeadTailProperties
  <2>2. /\ DOMAIN channel[t] = 1 .. Len(channel[t]) /\ Len(channel[t]) \in Nat
        /\ Len(channel[t]) # 0
    BY <1>1, LenProperties, EmptySeq
  <2>3. /\ Tail(channel[t]) \in Seq(Pushed) /\ Len(Tail(channel[t])) = Len(channel[t]) - 1
        /\ \A i \in 1 .. Len(Tail(channel[t])) : Tail(channel[t])[i] = channel[t][i + 1]
    BY <1>1, HeadTailProperties
  <2>4. DOMAIN Tail(channel[t]) = 1 .. Len(channel[t]) - 1
    BY <2>3, LenProperties
  <2>5. DOMAIN channel'[t] = 1 .. Len(channel[t]) - 1
        /\ \A i \in DOMAIN channel'[t] : channel'[t][i] = channel[t][i + 1]
    <3>1. channel'[t] = Tail(channel[t])
      BY <1>1
    <3>. QED  BY <2>3, <2>4, <3>1
  <2>6. 1 \in DOMAIN channel[t]
    BY <2>2
  <2>. QED  BY <2>1, <2>2, <2>5, <2>6
<1>. HIDE DEF p
<1>3. p.n \in Nat /\ p.event \in Events /\ p.event.type = t /\ p.n <= pushes /\ pushes \in Nat
  BY <1>2, Capacities DEF Pushed, OrderInv, ChannelsInOrder, TypeOK
<1>4. \A i \in DOMAIN channel'[t] : p.n < channel'[t][i].n
  BY <1>2 DEF OrderInv, ChannelsInOrder
<1>5. \A u \in Types \ {t} : channel'[u] = channel[u]
  BY <1>1 DEF TypeOK
<1>6. ChannelsInOrder'
  <2>1. ASSUME NEW u \in Types, NEW i \in DOMAIN channel'[u]
        PROVE  /\ channel'[u][i].event.type = u /\ channel'[u][i].n <= pushes'
               /\ \A j \in DOMAIN channel'[u] : i < j => channel'[u][i].n < channel'[u][j].n
    <3>1. CASE u = t
      BY <1>1, <1>2, <2>1, <3>1 DEF OrderInv, ChannelsInOrder
    <3>2. CASE u # t
      BY <1>1, <1>5, <2>1, <3>2 DEF OrderInv, ChannelsInOrder
    <3>. QED  BY <3>1, <3>2
  <2>. QED  BY <2>1 DEF ChannelsInOrder
<1>7. ASSUME NEW c \in Clients PROVE SentInOrder(c)'
  <2>. DEFINE s == Sent(c)
  <2>1. s \in Seq(Pushed) /\ DOMAIN s = 1 .. Len(s) /\ Len(s) \in Nat /\ SentInOrder(c)
    BY SentIsSeq, LenProperties DEF OrderInv
  <2>2. \A i \in DOMAIN s : s[i].n \in Nat /\ s[i].event.type \in Types
    <3>1. \A i \in DOMAIN s : s[i] \in Pushed
      BY <2>1, ElementOfSeq
    <3>. QED  BY <3>1, HubAssumption DEF Pushed
  <2>3. \A i \in DOMAIN s : \A j \in DOMAIN channel'[s[i].event.type] :
          s[i].n < channel'[s[i].event.type][j].n
    <3>1. SUFFICES ASSUME NEW u \in Types, NEW i \in DOMAIN s, s[i].event.type = u,
                          NEW j \in DOMAIN channel'[u]
                   PROVE  s[i].n < channel'[u][j].n
      BY <2>2
    <3>2. \A k \in DOMAIN channel[u] : s[i].n < channel[u][k].n
      BY <2>1, <3>1 DEF SentInOrder
    <3>3. CASE u # t
      BY <1>5, <3>1, <3>2, <3>3
    <3>4. CASE u = t
      <4>1. j + 1 \in DOMAIN channel[t] /\ channel'[t][j] = channel[t][j + 1]
        BY <1>2, <3>1, <3>4
      <4>. QED  BY <3>2, <3>4, <4>1
    <3>. QED  BY <3>3, <3>4
  <2>4. CASE Sent(c)' = s
    BY <1>1, <2>1, <2>3, <2>4 DEF SentInOrder
  <2>5. CASE Sent(c)' = Append(s, p) /\ c \in Recipients(p.event)
    <3>. DEFINE l == Len(s) + 1
                z == Append(s, p)
    <3>1. /\ DOMAIN z = 1 .. l /\ z[l] = p /\ \A i \in DOMAIN s : z[i] = s[i]
          /\ DOMAIN z = DOMAIN s \cup {l} /\ \A i \in DOMAIN s : i < l
      BY <1>2, <2>1, AppendProperties, LenProperties
    <3>2. MayReceive(c, p.event)
      BY <1>3, <2>5, RecipientsMay
    <3>3. \A i \in DOMAIN s : s[i].event.type = t => s[i].n < p.n
      BY <1>2, <2>1 DEF SentInOrder
    <3>4. Sent(c)' = z
      BY <2>5
    <3>. HIDE DEF s, z
    <3>5. ASSUME NEW i \in DOMAIN z
          PROVE  /\ MayReceive(c, z[i].event) /\ z[i].n <= pushes
                 /\ \A j \in DOMAIN channel'[z[i].event.type] : z[i].n < channel'[z[i].event.type][j].n
                 /\ \A j \in DOMAIN z : i < j /\ z[i].event.type = z[j].event.type => z[i].n < z[j].n
      <4>1. CASE i = l
        BY <1>3, <1>4, <3>1, <3>2, <4>1
      <4>2. CASE i \in DOMAIN s
        <5>1. MayReceive(c, z[i].event) /\ z[i].n <= pushes
          BY <2>1, <3>1, <4>2 DEF SentInOrder, s
        <5>2. ASSUME NEW j \in DOMAIN z, i < j, z[i].event.type = z[j].event.type
              PROVE  z[i].n < z[j].n
          <6>1. CASE j = l
            BY <1>3, <3>1, <3>3, <4>2, <5>2, <6>1
          <6>2. CASE j \in DOMAIN s
            BY <2>1, <3>1, <4>2, <5>2, <6>2 DEF SentInOrder, s
          <6>. QED  BY <3>1, <6>1, <6>2
        <5>. QED  BY <2>3, <3>1, <4>2, <5>1, <5>2
      <4>. QED  BY <3>1, <4>1, <4>2
    <3>. QED  BY <1>1, <3>4, <3>5 DEF SentInOrder
  <2>6. Sent(c)' = s \/ (Sent(c)' = Append(s, p) /\ c \in Recipients(p.event))
    <3>1. send'[c] = send[c] \/ (send'[c] = Append(send[c], p) /\ c \in Recipients(p.event))
      BY DEF Broadcast, p
    <3>2. written[c] \in Seq(Pushed) /\ send[c] \in Seq(Pushed)
      BY DEF TypeOK
    <3>3. written[c] \o Append(send[c], p) = Append(written[c] \o send[c], p)
      <4>. DEFINE w == written[c]
                  b == send[c]
      <4>1. p \in Pushed /\ w \in Seq(Pushed) /\ b \in Seq(Pushed)
        BY <1>2, <3>2
      <4>. HIDE DEF w, b
      <4>2. w \o Append(b, p) = Append(w \o b, p)
        BY <4>1, AppendToConcat
      <4>. QED  BY <4>2 DEF w, b
    <3>. QED  BY <1>1, <3>1, <3>3 DEF Sent
  <2>. QED  BY <2>4, <2>5, <2>6
<1>. QED  BY <1>6, <1>7 DEF OrderInv

LEMMA OrderStep == TypeOK /\ Admitted /\ OrderInv /\ [Next]_vars => OrderInv'
<1>. SUFFICES ASSUME TypeOK, Admitted, OrderInv, [Next]_vars PROVE OrderInv'
  OBVIOUS
<1>1. ASSUME UNCHANGED <<channel, pushes>>, \A c \in Clients : Sent(c)' = Sent(c)
      PROVE  OrderInv'
  BY <1>1 DEF OrderInv, ChannelsInOrder, SentInOrder
<1>2. ASSUME UNCHANGED <<channel, pushes, send, written>> PROVE OrderInv'
  BY <1>1, <1>2 DEF Sent
<1>3. CASE UNCHANGED vars \/ Stop \/ AddMember \/ RemoveMember
  BY <1>2, <1>3 DEF vars, queues, Stop, AddMember, RemoveMember
<1>4. ASSUME NEW c \in Clients,
             Upgrade(c) \/ StartPumps(c) \/ ReadFails(c) \/ Leave(c) \/ WriteFails(c)
      PROVE  OrderInv'
  BY <1>2, <1>4 DEF Upgrade, StartPumps, ReadFails, Leave, WriteFails, queues
<1>5. ASSUME NEW c \in Clients, WriteMessage(c) PROVE OrderInv'
  BY <1>1, <1>5, WriteKeepsSent DEF WriteMessage, queues
<1>. QED  BY <1>3, <1>4, <1>5, PushKeepsOrder, BroadcastKeepsOrder DEF Next

\* A connection is sent only events of its route, of its cycle and of its own
\* user's talent, and, unless it has the admin route of a cycle, only if the
\* handler let in a user of the route's audience; of each type in the order of
\* the pushes and once, whatever is dropped and however late a client is removed
\* (internal/websocket/ws.go:145-354).
THEOREM OrderCorrect == Spec => []RightEventsInOrder
<1>1. OrderInv => RightEventsInOrder
  BY DEF OrderInv, SentInOrder, Sent, RightEventsInOrder
<1>. QED  BY <1>1, TypeInit, TypeStep, AdmittedInit, AdmittedStep, OrderInit, OrderStep, PTL DEF Spec
=============================================================================
