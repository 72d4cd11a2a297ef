------------------------ MODULE ApparatusLinux_proofs ------------------------
(***************************************************************************)
(* The Linux apparatus publishes well-typed messages only, and what it     *)
(* said last is what is retained in the end: that it is online as long as  *)
(* the bout lasts, and that the bout is over once it was halted.           *)
(***************************************************************************)
EXTENDS ApparatusLinux, SequenceTheorems, TLAPS

Link == INSTANCE MqttLink_proofs WITH Will <- LastWill, Resends <- TRUE

(* The lemmas about the link need what OPP2Types assumes.                  *)
LEMMA LinkTypes == Link!MirrorFields = Link!Retained
  BY DEF Link!MirrorFields, Link!Retained, Link!MessageTypes
-----------------------------------------------------------------------------
(* Messages.                                                               *)

LEMMA MessageShape ==
    /\ DOMAIN Values = {"connection", "state", "score", "lights", "clock"}
    /\ \A m \in Message : /\ m = Msg(m.type, m.value)
                          /\ m.type \in Watched
                          /\ m.type \in DOMAIN Values
  BY DEF Message, Values, Msg

LEMMA FollowedType ==
    ASSUME NEW t \in DOMAIN Values, NEW v \in Values[t]
    PROVE  Followed(Msg(t, v)) \in Seq(Message)
  <1>1. CASE t \in Watched
    <2>1. Msg(t, v) \in Message
      BY <1>1 DEF Message
    <2>2. Followed(Msg(t, v)) = <<Msg(t, v)>>
      BY <1>1 DEF Followed, Msg
    <2> QED BY <2>1, <2>2
  <1>2. CASE t \notin Watched
    BY <1>2 DEF Followed, Msg
  <1> QED BY <1>1, <1>2

(* Everything the program publishes.                                       *)
LEMMA AllPublished ==
    /\ \A v \in {"online", "offline"} : Followed(Msg("connection", v)) \in Seq(Message)
    /\ \A v \in {"WAITING", "FENCING", "HALT"} : Followed(Msg("state", v)) \in Seq(Message)
    /\ \A v \in {"0-0", "1-0"} : Followed(Msg("score", v)) \in Seq(Message)
    /\ \A v \in {"on", "off"} : Followed(Msg("lights", v)) \in Seq(Message)
    /\ \A v \in {"running", "stopped"} : Followed(Msg("clock", v)) \in Seq(Message)
    /\ Offline = Msg("connection", "offline")
  <1>1. /\ \A v \in {"online", "offline"} : "connection" \in DOMAIN Values /\ v \in Values["connection"]
        /\ \A v \in {"WAITING", "FENCING", "HALT"} : "state" \in DOMAIN Values /\ v \in Values["state"]
        /\ \A v \in {"0-0", "1-0"} : "score" \in DOMAIN Values /\ v \in Values["score"]
        /\ \A v \in {"on", "off"} : "lights" \in DOMAIN Values /\ v \in Values["lights"]
        /\ \A v \in {"running", "stopped"} : "clock" \in DOMAIN Values /\ v \in Values["clock"]
    BY DEF Values
  <1> QED BY <1>1, FollowedType DEF Offline, Msg

LEMMA OnConnectType == OnConnect \in Seq(Message)
  <1>1. /\ Followed(Msg("connection", "online")) \in Seq(Message)
        /\ Followed(Msg("state", "WAITING")) \in Seq(Message)
        /\ Followed(Msg("score", "0-0")) \in Seq(Message)
        /\ Followed(Msg("lights", "off")) \in Seq(Message)
    BY AllPublished
  <1> QED BY <1>1, ConcatProperties DEF OnConnect

LEMMA LinkIsTyped == Link!LinkAssumption(Message)
  <1>1. \A m \in LastWill : m = Msg(m.type, m.value) /\ m.type = "connection" /\ m.value = "offline"
    BY DEF LastWill, Offline, Msg
  <1>2. ASSUME "connection" \in Watched PROVE Msg("connection", "offline") \in Message
    <2>1. "connection" \in DOMAIN Values \cap Watched /\ "offline" \in Values["connection"]
      BY <1>2 DEF Values
    <2> QED BY <2>1 DEF Message
  <1>3. \A m \in LastWill : m.type \in Watched => m \in Message
    BY <1>1, <1>2
  <1> QED BY <1>1, <1>3, MessageShape, ApparatusAssumption DEF Link!LinkAssumption, Link!Msg, Msg
-----------------------------------------------------------------------------
(* Whatever the program, the network and the broker do, the link takes a   *)
(* step of MqttLink_proofs.                                                *)
LEMMA TodoOfTurn ==
    ASSUME NEW t, LoopTurn(t) PROVE todo' \in Seq(Message)
  <1> DEFINE due   == t > lastClock
             touch == ~ scored /\ t >= TouchAt
             halt  == ~ halted /\ t >= HaltAt
             If(c, msgs) == IF c THEN msgs ELSE <<>>
             clocks == Followed(Msg("clock", "running"))
             lights == Followed(Msg("lights", "on")) \o Followed(Msg("score", "1-0"))
             halts  == Followed(Msg("lights", "off")) \o Followed(Msg("state", "HALT"))
                          \o Followed(Msg("clock", "stopped"))
  <1>1. todo' = If(due, clocks) \o If(touch, lights) \o If(halt, halts)
    BY DEF LoopTurn
  <1>2. clocks \in Seq(Message) /\ lights \in Seq(Message) /\ halts \in Seq(Message)
    BY AllPublished, ConcatProperties
  <1> HIDE DEF clocks, lights, halts, due, touch, halt
  <1>3. If(due, clocks) \in Seq(Message) /\ If(touch, lights) \in Seq(Message)
           /\ If(halt, halts) \in Seq(Message)
    BY <1>2
  <1> QED BY <1>1, <1>3, ConcatProperties

(* The link as the program uses it is the link of MqttLink_proofs.         *)
LEMMA SameLink ==
    /\ LinkTypeOK(Message) <=> Link!LinkTypeOK(Message)
    /\ LinkInit <=> Link!LinkInit
    /\ \A client : OpenLink(client) => Link!OpenLink(client)
    /\ \A m : Publish(m) => Link!Publish(m)
    /\ \A messages : ReceiveConnack(messages) => Link!ReceiveConnack(messages)
    /\ ReceivePuback => Link!ReceivePuback
    /\ LinkDrops => Link!LinkDrops
    /\ LinkFoundDead => Link!LinkFoundDead
    /\ ProcessEnds => Link!ProcessEnds
    /\ BrokerStep => Link!BrokerStep
    /\ UNCHANGED mqttVars => UNCHANGED Link!linkVars
  <1>1. LinkTypeOK(Message) <=> Link!LinkTypeOK(Message)
    BY DEF LinkTypeOK, Link!LinkTypeOK, SessionIds, Link!SessionIds, NotSet, Link!NotSet,
           Msg, Link!Msg
  <1>2. LinkInit <=> Link!LinkInit
    BY DEF LinkInit, Link!LinkInit, SessionIds, Link!SessionIds, NotSet, Link!NotSet,
           Unused, Link!Unused
  <1>3. /\ \A client : OpenLink(client) => Link!OpenLink(client)
        /\ \A m : Publish(m) => Link!Publish(m)
        /\ \A messages : ReceiveConnack(messages) => Link!ReceiveConnack(messages)
    BY DEF OpenLink, Link!OpenLink, Publish, Link!Publish, ReceiveConnack, Link!ReceiveConnack,
           Qos, Link!Qos, MessageTypes, Link!MessageTypes
  <1>4. ReceivePuback => Link!ReceivePuback
    <2>1. Acknowledged(session[link].stream) = Link!Acknowledged(session[link].stream)
      BY DEF Acknowledged, Link!Acknowledged, Qos, Link!Qos, MessageTypes, Link!MessageTypes
    <2> QED BY <2>1 DEF ReceivePuback, Link!ReceivePuback, Cardinality, Link!Cardinality
  <1>5. /\ LinkDrops => Link!LinkDrops
        /\ LinkFoundDead => Link!LinkFoundDead
        /\ ProcessEnds => Link!ProcessEnds
    BY DEF LinkDrops, LinkFoundDead, ProcessEnds, LoseLink,
           Link!LinkDrops, Link!LinkFoundDead, Link!ProcessEnds, Link!LoseLink
  <1>6. BrokerStep => Link!BrokerStep
    <2>1. \A s : AcceptConnect(s) => Link!AcceptConnect(s)
      BY DEF AcceptConnect, Link!AcceptConnect, TakenOver, Link!TakenOver, Store, Link!Store,
             SessionIds, Link!SessionIds
    <2>2. \A s : ReceiveMessage(s) => Link!ReceiveMessage(s)
      BY DEF ReceiveMessage, Link!ReceiveMessage, Store, Link!Store
    <2>3. \A s : EndSession(s) => Link!EndSession(s)
      BY DEF EndSession, Link!EndSession, Store, Link!Store
    <2>4. \A s : RequestLost(s) => Link!RequestLost(s)
      BY DEF RequestLost, Link!RequestLost
    <2> QED BY <2>1, <2>2, <2>3, <2>4
            DEF BrokerStep, Link!BrokerStep, SessionIds, Link!SessionIds, KeepaliveExpires,
                Link!KeepaliveExpires, Partition, Link!Partition
  <1>7. UNCHANGED mqttVars => UNCHANGED Link!linkVars
    BY DEF mqttVars, Link!linkVars
  <1> QED BY <1>1, <1>2, <1>3, <1>4, <1>5, <1>6, <1>7

(* Whatever the program, the network and the broker do, the link takes one *)
(* of its steps.                                                           *)
LEMMA NextIsLinkStep ==
    ASSUME TypeOK, [Next]_vars
    PROVE  Link!LinkStep(Message)
  <1>1. ClientId \in Nat
    BY ApparatusAssumption DEF ClientId, TypeOK
  <1>2. ASSUME OpenLink(ClientId) PROVE Link!LinkStep(Message)
    BY <1>1, <1>2, SameLink DEF Link!LinkStep
  <1>3. CASE MainPublishes
    <2>1. Head(todo) \in Message
      BY <1>3 DEF MainPublishes, TypeOK
    <2> QED BY <1>3, <2>1, SameLink DEF MainPublishes, Link!LinkStep
  <1>4. CASE IsConnected
    BY <1>4, SameLink, OnConnectType DEF IsConnected, Link!LinkStep
  <1>5. CASE UNCHANGED mqttVars
    BY <1>5, SameLink DEF Link!LinkStep
  <1>6. CASE ProcessEnds
    BY <1>6, SameLink DEF Link!LinkStep
  <1>7. CASE IsAcknowledged \/ ConnectionDrops \/ ConnectionEnds
    BY <1>7, SameLink DEF IsAcknowledged, ConnectionDrops, ConnectionEnds, Link!LinkStep
  <1>8. CASE BrokerStep
    BY <1>8, SameLink DEF Link!LinkStep
  <1>9. CASE Main
    BY <1>9, <1>2, <1>3, <1>5, <1>6
       DEF Main, MainConnects, ConnectFails, LoopEnds, MainExits, LoopTurn
  <1>10. CASE Network
    BY <1>10, <1>2, <1>4, <1>7 DEF Network, Reconnects
  <1>11. CASE Environment
    BY <1>11, <1>5, <1>6, <1>7, <1>8 DEF Environment, Signal, Killed, Restarted
  <1>12. CASE UNCHANGED vars
    BY <1>12, <1>5 DEF vars, mqttVars
  <1> QED BY <1>9, <1>10, <1>11, <1>12 DEF Next

(* Nothing waits to be published before the bout or after the program.     *)
MainInv ==
    /\ pc \in {"start", "exited"} => todo = <<>>
    /\ pc = "start" => ~ halted
    /\ halted => ~ running

LEMMA MainStepType ==
    ASSUME TypeOK, [Next]_vars
    PROVE  /\ pc' \in {"start", "bout", "leaving", "exited"}
           /\ instance' \in 1 .. MaxInstances
           /\ running' \in BOOLEAN
           /\ now' \in 0 .. Horizon
           /\ lastClock' \in -1 .. Horizon
           /\ scored' \in BOOLEAN /\ halted' \in BOOLEAN
           /\ todo' \in Seq(Message)
  <1> USE ApparatusAssumption DEF TypeOK
  <1>1. CASE UNCHANGED mainVars
    BY <1>1 DEF mainVars
  <1>2. CASE MainConnects
    BY <1>2, AllPublished DEF MainConnects
  <1>3. CASE ConnectFails \/ MainExits \/ Signal
    BY <1>3 DEF ConnectFails, MainExits, Signal
  <1>4. CASE MainPublishes
    BY <1>4 DEF MainPublishes
  <1>5. ASSUME NEW t \in now .. Horizon, LoopTurn(t)
        PROVE  /\ pc' = pc /\ instance' = instance /\ running' \in BOOLEAN
               /\ now' \in 0 .. Horizon /\ lastClock' \in -1 .. Horizon
               /\ scored' \in BOOLEAN /\ halted' \in BOOLEAN /\ todo' \in Seq(Message)
    <2>1. todo' \in Seq(Message)
      BY <1>5, TodoOfTurn
    <2>2. t \in 0 .. Horizon
      OBVIOUS
    <2> QED BY <1>5, <2>1, <2>2 DEF LoopTurn
  <1>6. CASE LoopEnds
    BY <1>6, AllPublished DEF LoopEnds
  <1>7. CASE Killed
    BY <1>7 DEF Killed
  <1>8. CASE Restarted
    <2>1. instance + 1 \in 1 .. MaxInstances
      BY <1>8 DEF Restarted
    <2>2. 0 \in 0 .. Horizon /\ -1 \in -1 .. Horizon
      OBVIOUS
    <2> QED BY <1>8, <2>1, <2>2 DEF Restarted
  <1> QED BY <1>1, <1>2, <1>3, <1>4, <1>5, <1>6, <1>7, <1>8
          DEF Next, Main, Network, Environment, Reconnects, IsConnected, IsAcknowledged,
              ConnectionDrops, ConnectionEnds, vars, mainVars
-----------------------------------------------------------------------------
(* The safety part of Spec.                                                *)
ApparatusSpec == Init /\ [][Next]_vars

(* Every program, clock, network and broker step keeps the types, and the  *)
(* sessions of one client id apart.                                        *)
SafeInv == TypeOK /\ Link!SessionInv /\ MainInv

LEMMA SafeStart == ASSUME Init PROVE SafeInv
  <1>1. LinkTypeOK(Message)
    BY LinkTypes, LinkIsTyped, SameLink, Link!LinkStartType DEF Init
  <1>2. Link!SessionInv
    BY LinkTypes, SameLink, Link!LinkStartSessions DEF Init
  <1>3. TypeOK
    <2>1. 1 \in 1 .. MaxInstances /\ 0 \in 0 .. Horizon /\ -1 \in -1 .. Horizon
             /\ <<>> \in Seq(Message)
      BY ApparatusAssumption
    <2> QED BY <1>1, <2>1 DEF Init, TypeOK
  <1> QED BY <1>2, <1>3 DEF SafeInv, MainInv, Init

LEMMA SafeStep == ASSUME SafeInv, [Next]_vars PROVE SafeInv'
  <1>1. Link!LinkStep(Message) /\ Link!LinkTypeOK(Message)
    BY NextIsLinkStep, SameLink DEF SafeInv, TypeOK
  <1>2. Link!LinkTypeOK(Message)'
    BY <1>1, LinkTypes, LinkIsTyped, Link!LinkStepType
  <1>3. LinkTypeOK(Message)'
    BY <1>2 DEF LinkTypeOK, Link!LinkTypeOK, SessionIds, Link!SessionIds, NotSet, Link!NotSet,
                Msg, Link!Msg
  <1>4. TypeOK'
    BY <1>3, MainStepType DEF SafeInv, TypeOK
  <1>5. Link!SessionInv'
    BY <1>1, LinkTypes, LinkIsTyped, Link!LinkStepSessions DEF SafeInv
  <1>6. MainInv'
    <2> USE DEF SafeInv, MainInv
    <2>1. CASE MainConnects \/ ConnectFails
      BY <2>1 DEF MainConnects, ConnectFails
    <2>2. CASE MainPublishes
      BY <2>2 DEF MainPublishes
    <2>3. ASSUME NEW t, LoopTurn(t) PROVE MainInv'
      BY <2>3 DEF LoopTurn, TypeOK
    <2>4. CASE LoopEnds \/ MainExits
      BY <2>4 DEF LoopEnds, MainExits
    <2>5. CASE Signal \/ Killed \/ Restarted
      BY <2>5 DEF Signal, Killed, Restarted
    <2>6. CASE UNCHANGED mainVars
      BY <2>6 DEF mainVars
    <2> QED BY <2>1, <2>2, <2>3, <2>4, <2>5, <2>6
            DEF Next, Main, Network, Environment, Reconnects, IsConnected, IsAcknowledged,
                ConnectionDrops, ConnectionEnds, vars, mainVars
  <1> QED BY <1>4, <1>5, <1>6 DEF SafeInv

LEMMA SafeAlways == ApparatusSpec => []SafeInv
  BY SafeStart, SafeStep, PTL DEF ApparatusSpec

(* Whatever is on its way, held, waits or is retained is a message that    *)
(* the apparatus publishes, of a type that is followed; the loop's time    *)
(* and counters keep their bounds.                                         *)
THEOREM WellTyped == Spec => []TypeOK
  <1>1. Spec => ApparatusSpec
    BY DEF Spec, ApparatusSpec
  <1>2. SafeInv => TypeOK
    BY DEF SafeInv
  <1> QED BY <1>1, <1>2, SafeAlways, PTL
-----------------------------------------------------------------------------
(* The last word.  Some messages are bad: they must not be what is         *)
(* retained in the end.  Of each type a good message corrects the bad ones *)
(* before it; nothing that is still to arrive may end on a bad one.        *)

(* The types of which a sequence has a good message.                       *)
Corrects(q, Bad) == {q[i].type : i \in {j \in DOMAIN q : q[j] \notin Bad}}

Correction(m, Bad) == IF m \in Bad THEN {} ELSE {m.type}

(* Every bad message is corrected by a later one, or by what follows.      *)
Ends(q, Bad, later) ==
    \A i \in DOMAIN q : q[i] \in Bad =>
        \/ q[i].type \in later
        \/ \E j \in i + 1 .. Len(q) : q[j].type = q[i].type /\ q[j] \notin Bad

LEMMA NothingEnds ==
    ASSUME NEW Bad, NEW later
    PROVE  Ends(<<>>, Bad, later) /\ Corrects(<<>>, Bad) = {}
  BY DEF Ends, Corrects

LEMMA EndsLater ==
    ASSUME NEW q, NEW Bad, NEW later, NEW more, later \subseteq more, Ends(q, Bad, later)
    PROVE  Ends(q, Bad, more)
  BY DEF Ends

LEMMA EndsClean ==
    ASSUME NEW q, NEW Bad, NEW later, \A i \in DOMAIN q : q[i] \notin Bad
    PROVE  Ends(q, Bad, later)
  BY DEF Ends

(* Any sequence ends well if all that is bad is corrected after it.        *)
LEMMA EndsAll ==
    ASSUME NEW S, NEW q \in Seq(S), NEW Bad, NEW later,
           \A m \in S : m \in Bad => m.type \in later
    PROVE  Ends(q, Bad, later)
  BY DEF Ends

LEMMA CorrectsAppend ==
    ASSUME NEW S, NEW q \in Seq(S), NEW m \in S, NEW Bad
    PROVE  Corrects(Append(q, m), Bad) = Corrects(q, Bad) \cup Correction(m, Bad)
  <1> DEFINE a == Append(q, m)
  <1>1. /\ a[Len(q) + 1] = m /\ Len(q) \in Nat
        /\ DOMAIN q = 1 .. Len(q) /\ DOMAIN a = 1 .. Len(q) + 1
        /\ \A i \in 1 .. Len(q) : a[i] = q[i]
    BY AppendProperties
  <1> HIDE DEF a
  <1>2. Corrects(a, Bad) = Corrects(q, Bad) \cup Correction(m, Bad)
    BY <1>1 DEF Corrects, Correction
  <1> QED BY <1>2 DEF a

LEMMA EndsAppend ==
    ASSUME NEW S, NEW q \in Seq(S), NEW m \in S, NEW Bad, NEW later,
           Ends(q, Bad, later \cup Correction(m, Bad)),
           m \in Bad => m.type \in later
    PROVE  Ends(Append(q, m), Bad, later)
  <1> DEFINE a == Append(q, m)
  <1>1. /\ Len(a) = Len(q) + 1 /\ Len(q) \in Nat /\ a[Len(q) + 1] = m
        /\ DOMAIN q = 1 .. Len(q) /\ DOMAIN a = 1 .. Len(q) + 1
        /\ \A i \in 1 .. Len(q) : a[i] = q[i]
    BY AppendProperties
  <1> HIDE DEF a
  <1>2. ASSUME NEW i \in DOMAIN a, a[i] \in Bad, a[i].type \notin later
        PROVE  \E j \in i + 1 .. Len(a) : a[j].type = a[i].type /\ a[j] \notin Bad
    <2>1. i \in 1 .. Len(q)
      BY <1>1, <1>2
    <2>2. CASE m \notin Bad /\ a[i].type = m.type
      BY <1>1, <2>1, <2>2
    <2>3. CASE ~ (m \notin Bad /\ a[i].type = m.type)
      <3>1. PICK j \in i + 1 .. Len(q) : q[j].type = q[i].type /\ q[j] \notin Bad
        BY <1>1, <1>2, <2>1, <2>3 DEF Ends, Correction
      <3> QED BY <1>1, <2>1, <3>1
    <2> QED BY <2>2, <2>3
  <1> QED BY <1>2 DEF Ends, a

LEMMA EndsTail ==
    ASSUME NEW S, NEW q \in Seq(S), q # <<>>, NEW Bad, NEW later, Ends(q, Bad, later)
    PROVE  /\ Ends(Tail(q), Bad, later)
           /\ Head(q) \in Bad => Head(q).type \in later \cup Corrects(Tail(q), Bad)
           /\ Corrects(q, Bad) =
                 Corrects(Tail(q), Bad) \cup Correction(Head(q), Bad)
  <1> DEFINE r == Tail(q)
  <1>1. /\ Len(q) \in Nat \ {0} /\ Head(q) = q[1] /\ Len(r) = Len(q) - 1
        /\ DOMAIN q = 1 .. Len(q) /\ DOMAIN r = 1 .. Len(q) - 1
        /\ \A i \in 1 .. Len(q) - 1 : r[i] = q[i + 1]
    BY HeadTailProperties, EmptySeq
  <1> HIDE DEF r
  <1>2. ASSUME NEW i \in DOMAIN r, r[i] \in Bad, r[i].type \notin later
        PROVE  \E j \in i + 1 .. Len(r) : r[j].type = r[i].type /\ r[j] \notin Bad
    <2>1. i + 1 \in DOMAIN q /\ q[i + 1] = r[i]
      BY <1>1
    <2>2. PICK k \in (i + 1) + 1 .. Len(q) : q[k].type = q[i + 1].type /\ q[k] \notin Bad
      BY <1>2, <2>1 DEF Ends
    <2>3. k - 1 \in i + 1 .. Len(r) /\ r[k - 1] = q[k]
      BY <1>1, <2>2
    <2> QED BY <2>1, <2>2, <2>3
  <1>3. ASSUME Head(q) \in Bad, Head(q).type \notin later
        PROVE  Head(q).type \in Corrects(r, Bad)
    <2>1. PICK k \in 1 + 1 .. Len(q) : q[k].type = q[1].type /\ q[k] \notin Bad
      BY <1>1, <1>3 DEF Ends
    <2>2. k - 1 \in DOMAIN r /\ r[k - 1] = q[k]
      BY <1>1, <2>1
    <2> QED BY <1>1, <2>1, <2>2 DEF Corrects
  <1>4. Corrects(q, Bad) =
           Corrects(r, Bad) \cup Correction(Head(q), Bad)
    <2>1. ASSUME NEW i \in DOMAIN q, q[i] \notin Bad
          PROVE  q[i].type \in Corrects(r, Bad)
                    \cup Correction(Head(q), Bad)
      <3>1. CASE i = 1
        BY <1>1, <2>1, <3>1 DEF Correction
      <3>2. CASE i # 1
        <4>1. i - 1 \in DOMAIN r /\ r[i - 1] = q[i]
          BY <1>1, <3>2
        <4> QED BY <2>1, <4>1 DEF Corrects
      <3> QED BY <3>1, <3>2
    <2>2. \A i \in DOMAIN r : i + 1 \in DOMAIN q /\ q[i + 1] = r[i]
      BY <1>1
    <2> QED BY <1>1, <2>1, <2>2 DEF Corrects, Correction
  <1> QED BY <1>2, <1>3, <1>4 DEF Ends, r

LEMMA ConcatIndex ==
    ASSUME NEW S, NEW p \in Seq(S), NEW q \in Seq(S)
    PROVE  /\ Len(p) \in Nat /\ Len(q) \in Nat /\ Len(p \o q) = Len(p) + Len(q)
           /\ DOMAIN p = 1 .. Len(p) /\ DOMAIN q = 1 .. Len(q)
           /\ DOMAIN (p \o q) = 1 .. Len(p) + Len(q)
           /\ \A i \in 1 .. Len(p) : (p \o q)[i] = p[i]
           /\ \A i \in 1 .. Len(q) : (p \o q)[Len(p) + i] = q[i]
           /\ \A i \in DOMAIN (p \o q) :
                 \/ i \in 1 .. Len(p)
                 \/ i - Len(p) \in 1 .. Len(q) /\ (p \o q)[i] = q[i - Len(p)]
  <1> DEFINE c == p \o q
  <1>1. /\ Len(p) \in Nat /\ Len(q) \in Nat /\ Len(c) = Len(p) + Len(q)
        /\ DOMAIN p = 1 .. Len(p) /\ DOMAIN q = 1 .. Len(q) /\ DOMAIN c = 1 .. Len(p) + Len(q)
        /\ \A i \in 1 .. Len(p) : c[i] = p[i]
        /\ \A i \in 1 .. Len(q) : c[Len(p) + i] = q[i]
    BY ConcatProperties
  <1>2. ASSUME NEW i \in DOMAIN c, i \notin 1 .. Len(p)
        PROVE  i - Len(p) \in 1 .. Len(q) /\ c[i] = q[i - Len(p)]
    <2>1. i - Len(p) \in 1 .. Len(q) /\ Len(p) + (i - Len(p)) = i
      BY <1>1, <1>2
    <2> HIDE DEF c
    <2> QED BY <1>1, <2>1
  <1> QED BY <1>1, <1>2

LEMMA CorrectsConcat ==
    ASSUME NEW S, NEW p \in Seq(S), NEW q \in Seq(S), NEW Bad
    PROVE  Corrects(p \o q, Bad) = Corrects(p, Bad) \cup Corrects(q, Bad)
  <1> DEFINE c == p \o q
  <1>1. /\ DOMAIN p = 1 .. Len(p) /\ DOMAIN q = 1 .. Len(q) /\ DOMAIN c = 1 .. Len(p) + Len(q)
        /\ Len(p) \in Nat /\ Len(q) \in Nat
        /\ \A i \in 1 .. Len(p) : c[i] = p[i]
        /\ \A i \in 1 .. Len(q) : c[Len(p) + i] = q[i]
        /\ \A i \in DOMAIN c : \/ i \in 1 .. Len(p)
                               \/ i - Len(p) \in 1 .. Len(q) /\ c[i] = q[i - Len(p)]
    BY ConcatIndex
  <1> HIDE DEF c
  <1>2. Corrects(c, Bad) \subseteq Corrects(p, Bad) \cup Corrects(q, Bad)
    BY <1>1 DEF Corrects
  <1>3. Corrects(p, Bad) \subseteq Corrects(c, Bad)
    <2>1. \A i \in DOMAIN p : i \in DOMAIN c /\ c[i] = p[i]
      BY <1>1
    <2> QED BY <2>1 DEF Corrects
  <1>4. Corrects(q, Bad) \subseteq Corrects(c, Bad)
    <2>1. \A i \in DOMAIN q : Len(p) + i \in DOMAIN c /\ c[Len(p) + i] = q[i]
      BY <1>1
    <2> SUFFICES ASSUME NEW i \in DOMAIN q, q[i] \notin Bad
                 PROVE  q[i].type \in Corrects(c, Bad)
      BY DEF Corrects
    <2> QED BY <2>1 DEF Corrects
  <1>5. Corrects(c, Bad) = Corrects(p, Bad) \cup Corrects(q, Bad)
    BY <1>2, <1>3, <1>4
  <1> QED BY <1>5 DEF c

LEMMA EndsConcat ==
    ASSUME NEW S, NEW p \in Seq(S), NEW q \in Seq(S), NEW Bad, NEW later,
           Ends(p, Bad, later \cup Corrects(q, Bad)), Ends(q, Bad, later)
    PROVE  Ends(p \o q, Bad, later)
  <1> DEFINE c == p \o q
  <1>1. /\ Len(p) \in Nat /\ Len(q) \in Nat /\ Len(c) = Len(p) + Len(q)
        /\ DOMAIN p = 1 .. Len(p) /\ DOMAIN q = 1 .. Len(q) /\ DOMAIN c = 1 .. Len(p) + Len(q)
        /\ \A i \in 1 .. Len(p) : c[i] = p[i]
        /\ \A i \in 1 .. Len(q) : c[Len(p) + i] = q[i]
    BY ConcatIndex
  <1>2. \A i \in DOMAIN c : \/ i \in 1 .. Len(p)
                            \/ i - Len(p) \in 1 .. Len(q) /\ c[i] = q[i - Len(p)]
    BY ConcatIndex
  <1> HIDE DEF c
  <1>3. ASSUME NEW i \in DOMAIN c, c[i] \in Bad, c[i].type \notin later
        PROVE  \E j \in i + 1 .. Len(c) : c[j].type = c[i].type /\ c[j] \notin Bad
    <2>1. CASE i \in 1 .. Len(p) /\ c[i].type \in Corrects(q, Bad)
      <3>1. PICK k \in DOMAIN q : q[k] \notin Bad /\ q[k].type = c[i].type
        BY <2>1 DEF Corrects
      <3>2. Len(p) + k \in i + 1 .. Len(c) /\ c[Len(p) + k] = q[k]
        BY <1>1, <2>1, <3>1
      <3> QED BY <3>1, <3>2
    <2>2. CASE i \in 1 .. Len(p) /\ c[i].type \notin Corrects(q, Bad)
      <3>1. PICK j \in i + 1 .. Len(p) : p[j].type = p[i].type /\ p[j] \notin Bad
        BY <1>1, <1>3, <2>2 DEF Ends
      <3> QED BY <1>1, <2>2, <3>1
    <2>3. CASE i - Len(p) \in 1 .. Len(q) /\ c[i] = q[i - Len(p)]
      <3>1. PICK k \in (i - Len(p)) + 1 .. Len(q) :
                q[k].type = q[i - Len(p)].type /\ q[k] \notin Bad
        BY <1>1, <1>3, <2>3 DEF Ends
      <3>2. Len(p) + k \in i + 1 .. Len(c) /\ c[Len(p) + k] = q[k]
        BY <1>1, <2>3, <3>1
      <3> QED BY <2>3, <3>1, <3>2
    <2> QED BY <1>2, <2>1, <2>2, <2>3
  <1> QED BY <1>3 DEF Ends, c

LEMMA EndsFollowed ==
    ASSUME NEW t, NEW v, NEW Bad, NEW later, Msg(t, v) \in Bad => t \in later
    PROVE  /\ Ends(Followed(Msg(t, v)), Bad, later)
           /\ Corrects(Followed(Msg(t, v)), Bad) =
                 IF t \in Watched /\ Msg(t, v) \notin Bad THEN {t} ELSE {}
  <1> DEFINE m == Msg(t, v)
  <1>1. m.type = t
    BY DEF Msg
  <1> HIDE DEF m
  <1>2. CASE t \in Watched
    <2>1. Followed(m) = <<m>>
      BY <1>1, <1>2 DEF Followed
    <2>2. DOMAIN <<m>> = {1} /\ <<m>>[1] = m
      OBVIOUS
    <2> QED BY <1>1, <1>2, <2>1, <2>2 DEF Ends, Corrects, m
  <1>3. CASE t \notin Watched
    <2>1. Followed(m) = <<>>
      BY <1>1, <1>3 DEF Followed
    <2> QED BY <1>3, <2>1, NothingEnds DEF m
  <1> QED BY <1>2, <1>3

(* onConnect says nothing bad, and corrects whatever was.                  *)
Announces(Bad) ==
    /\ Ends(OnConnect, Bad, {})
    /\ \A m \in Bad : m.type \in Watched => m.type \in Corrects(OnConnect, Bad)
    /\ \A m \in Bad : Qos[m.type] = 1

(* The bout goes on; the apparatus is away, or was never heard of.         *)
HaltBad == {Msg("state", "FENCING"), Msg("lights", "on")}
AwayBad == {Msg("connection", "offline"), Msg("connection", NotSet)}

LEMMA AnnouncesBoth == Announces(HaltBad) /\ Announces(AwayBad)
  <1>1. ASSUME NEW Bad,
               Msg("connection", "online") \notin Bad, Msg("state", "WAITING") \notin Bad,
               Msg("score", "0-0") \notin Bad, Msg("lights", "off") \notin Bad
        PROVE  /\ Ends(OnConnect, Bad, {})
               /\ Corrects(OnConnect, Bad) = {"connection", "state", "score", "lights"} \cap Watched
    <2> DEFINE c == Followed(Msg("connection", "online"))
               s == Followed(Msg("state", "WAITING"))
               o == Followed(Msg("score", "0-0"))
               l == Followed(Msg("lights", "off"))
               Says(q, types) == /\ q \in Seq(Message)
                                 /\ Ends(q, Bad, {})
                                 /\ Corrects(q, Bad) = types \cap Watched
    <2>1. Says(c, {"connection"}) /\ Says(s, {"state"}) /\ Says(o, {"score"}) /\ Says(l, {"lights"})
      <3>1. Ends(c, Bad, {}) /\ Corrects(c, Bad) = {"connection"} \cap Watched
        BY <1>1, EndsFollowed
      <3>2. Ends(s, Bad, {}) /\ Corrects(s, Bad) = {"state"} \cap Watched
        BY <1>1, EndsFollowed
      <3>3. Ends(o, Bad, {}) /\ Corrects(o, Bad) = {"score"} \cap Watched
        BY <1>1, EndsFollowed
      <3>4. Ends(l, Bad, {}) /\ Corrects(l, Bad) = {"lights"} \cap Watched
        BY <1>1, EndsFollowed
      <3>5. c \in Seq(Message) /\ s \in Seq(Message) /\ o \in Seq(Message) /\ l \in Seq(Message)
        BY AllPublished
      <3> QED BY <3>1, <3>2, <3>3, <3>4, <3>5
    <2> HIDE DEF c, s, o, l
    <2>2. ASSUME NEW p, NEW q, NEW T, NEW U, Says(p, T), Says(q, U)
          PROVE  Says(p \o q, T \cup U)
      <3>1. Ends(p, Bad, {} \cup Corrects(q, Bad))
        BY <2>2, EndsLater
      <3>2. p \o q \in Seq(Message)
        BY <2>2, ConcatProperties
      <3>3. Ends(p \o q, Bad, {}) /\ Corrects(p \o q, Bad) = Corrects(p, Bad) \cup Corrects(q, Bad)
        BY <2>2, <3>1, EndsConcat, CorrectsConcat
      <3> QED BY <2>2, <3>2, <3>3
    <2> HIDE DEF Says
    <2>3. Says(c \o s \o o \o l, (({"connection"} \cup {"state"}) \cup {"score"}) \cup {"lights"})
      BY <2>1, <2>2
    <2>4. OnConnect = c \o s \o o \o l
      BY DEF OnConnect, c, s, o, l
    <2> QED BY <2>3, <2>4 DEF Says
  <1>2. Qos["state"] = 1 /\ Qos["lights"] = 1 /\ Qos["connection"] = 1
    BY DEF Qos, MessageTypes
  <1>3. Announces(HaltBad)
    <2>1. /\ Msg("connection", "online") \notin HaltBad /\ Msg("state", "WAITING") \notin HaltBad
          /\ Msg("score", "0-0") \notin HaltBad /\ Msg("lights", "off") \notin HaltBad
          /\ \A m \in HaltBad : m.type \in {"state", "lights"}
      BY DEF HaltBad, Msg
    <2> QED BY <1>1, <1>2, <2>1 DEF Announces
  <1>4. Announces(AwayBad)
    <2>1. /\ Msg("connection", "online") \notin AwayBad /\ Msg("state", "WAITING") \notin AwayBad
          /\ Msg("score", "0-0") \notin AwayBad /\ Msg("lights", "off") \notin AwayBad
          /\ \A m \in AwayBad : m.type = "connection"
      BY DEF AwayBad, Msg, NotSet
    <2> QED BY <1>1, <1>2, <2>1 DEF Announces
  <1> QED BY <1>3, <1>4
-----------------------------------------------------------------------------
(* What main() is about to publish, what the library holds and what is on  *)
(* its way on the current connection each end well, and what is retained   *)
(* is good or will be corrected.                                           *)
LastWord(Bad) ==
    /\ Ends(todo, Bad, {})
    /\ Ends(pending, Bad, Corrects(todo, Bad))
    /\ connected /\ session[link].phase = "open" =>
          /\ Ends(session[link].stream, Bad, Corrects(todo, Bad))
          /\ \A t \in Watched : Msg(t, retained[t]) \in Bad =>
                t \in Corrects(session[link].stream, Bad) \cup Corrects(todo, Bad)

(* The sessions of the first instance all have its client id.              *)
ClientInv ==
    instance = 1 => \A s \in SessionIds : session[s].phase # "unused" => session[s].client = 1

LEMMA LinkInSessions == ASSUME SafeInv, link # 0 PROVE link \in SessionIds
  BY ApparatusAssumption DEF SafeInv, TypeOK, LinkTypeOK, SessionIds

(* opp2Publish() takes the oldest message: it is corrected by those after  *)
(* it, and corrects those before.                                          *)
LEMMA LastWordPublishes ==
    ASSUME SafeInv, NEW Bad, Announces(Bad), LastWord(Bad), MainPublishes
    PROVE  LastWord(Bad)'
  <1> DEFINE h == Head(todo)
             r == Tail(todo)
             good == Correction(h, Bad)
  <1>1. todo \in Seq(Message) /\ todo # <<>> /\ pending \in Seq(Message)
    BY DEF SafeInv, TypeOK, LinkTypeOK, MainPublishes
  <1>2. h \in Message /\ r \in Seq(Message) /\ todo' = r
    BY <1>1 DEF MainPublishes
  <1>3. /\ Ends(r, Bad, {})
        /\ h \in Bad => h.type \in Corrects(r, Bad)
        /\ Corrects(todo, Bad) = Corrects(r, Bad) \cup good
    BY <1>1, EndsTail DEF LastWord
  <1> HIDE DEF h, r
  <1>4. Ends(pending', Bad, Corrects(r, Bad))
    <2>1. CASE Qos[h.type] = 1
      <3>1. pending' = Append(pending, h)
        BY <2>1 DEF MainPublishes, Publish, h
      <3> QED BY <1>1, <1>2, <1>3, <3>1, EndsAppend DEF LastWord
    <2>2. CASE Qos[h.type] # 1
      <3>1. pending' = pending
        BY <2>2 DEF MainPublishes, Publish, h
      <3>2. \A m \in Bad : m.type # h.type
        BY <2>2 DEF Announces
      <3>3. Ends(pending, Bad, Corrects(r, Bad) \cup good)
        BY <1>3 DEF LastWord
      <3> QED BY <3>1, <3>2, <3>3 DEF Ends, Correction
    <2> QED BY <2>1, <2>2
  <1>5. ASSUME connected', session'[link'].phase = "open"
        PROVE  /\ Ends(session'[link'].stream, Bad, Corrects(r, Bad))
               /\ \A t \in Watched : Msg(t, retained'[t]) \in Bad =>
                     t \in Corrects(session'[link'].stream, Bad) \cup Corrects(r, Bad)
    <2> DEFINE q == session[link].stream
    <2>1. connected /\ link' = link /\ retained' = retained /\ link \in SessionIds
      BY <1>5, LinkInSessions DEF MainPublishes, Publish, SafeInv, TypeOK, LinkTypeOK
    <2>2. q \in Seq(Message)
      BY <2>1 DEF SafeInv, TypeOK, LinkTypeOK
    <2>3. session'[link].stream = Append(q, h) /\ session'[link].phase = session[link].phase
      BY <2>1 DEF MainPublishes, Publish, SafeInv, TypeOK, LinkTypeOK, h
    <2>4. /\ Ends(q, Bad, Corrects(r, Bad) \cup good)
          /\ \A t \in Watched : Msg(t, retained[t]) \in Bad =>
                t \in Corrects(q, Bad) \cup (Corrects(r, Bad) \cup good)
      BY <1>3, <1>5, <2>1, <2>3 DEF LastWord
    <2> HIDE DEF q
    <2>5. /\ Ends(Append(q, h), Bad, Corrects(r, Bad))
          /\ Corrects(Append(q, h), Bad) = Corrects(q, Bad) \cup good
      <3>1. Ends(q, Bad, Corrects(r, Bad) \cup Correction(h, Bad))
        BY <2>4
      <3>2. h \in Message /\ (h \in Bad => h.type \in Corrects(r, Bad))
        BY <1>2, <1>3
      <3>3. Ends(Append(q, h), Bad, Corrects(r, Bad))
        BY <2>2, <3>1, <3>2, EndsAppend
      <3>4. Corrects(Append(q, h), Bad) = Corrects(q, Bad) \cup Correction(h, Bad)
        BY <2>2, <3>2, CorrectsAppend
      <3> QED BY <3>3, <3>4
    <2> QED BY <2>1, <2>3, <2>4, <2>5
  <1> QED BY <1>2, <1>3, <1>4, <1>5 DEF LastWord

(* A connection is announced: whatever is held is sent before or after.    *)
LEMMA LastWordConnected ==
    ASSUME SafeInv, NEW Bad, Announces(Bad), LastWord(Bad), IsConnected
    PROVE  LastWord(Bad)'
  <1> DEFINE later == Corrects(todo, Bad)
  <1>1. PICK all \in {OnConnect \o pending, pending \o OnConnect} :
            session' = [session EXCEPT ![link].stream = all] /\ pending' = all
    BY DEF IsConnected, ReceiveConnack
  <1>2. /\ pending \in Seq(Message) /\ OnConnect \in Seq(Message) /\ link \in SessionIds
        /\ UNCHANGED <<link, todo, retained>>
    BY OnConnectType, LinkInSessions
       DEF IsConnected, ReceiveConnack, mainVars, SafeInv, TypeOK, LinkTypeOK
  <1>3. /\ Ends(pending, Bad, later) /\ Ends(OnConnect, Bad, later)
        /\ Ends(pending, Bad, later \cup Corrects(OnConnect, Bad))
        /\ Ends(OnConnect, Bad, later \cup Corrects(pending, Bad))
    BY EndsLater DEF LastWord, Announces
  <1>4. Ends(all, Bad, later) /\ Corrects(OnConnect, Bad) \subseteq Corrects(all, Bad)
    <2>1. CASE all = OnConnect \o pending
      BY <1>2, <1>3, <2>1, EndsConcat, CorrectsConcat
    <2>2. CASE all = pending \o OnConnect
      BY <1>2, <1>3, <2>2, EndsConcat, CorrectsConcat
    <2> QED BY <1>1, <2>1, <2>2
  <1>5. session'[link].stream = all
    BY <1>1, <1>2 DEF SafeInv, TypeOK, LinkTypeOK
  <1>6. \A t \in Watched : Msg(t, retained[t]) \in Bad => t \in Corrects(all, Bad)
    <2> SUFFICES ASSUME NEW t \in Watched, Msg(t, retained[t]) \in Bad
                 PROVE  t \in Corrects(all, Bad)
      OBVIOUS
    <2>1. Msg(t, retained[t]).type = t
      BY DEF Msg
    <2> QED BY <1>4, <2>1 DEF Announces
  <1> QED BY <1>1, <1>2, <1>4, <1>5, <1>6 DEF LastWord

(* The oldest message held is acknowledged.                                *)
LEMMA LastWordAcknowledged ==
    ASSUME SafeInv, NEW Bad, LastWord(Bad), IsAcknowledged
    PROVE  LastWord(Bad)'
  <1>1. pending \in Seq(Message) /\ session[link].stream \in Seq(Message)
    BY LinkInSessions DEF SafeInv, TypeOK, LinkTypeOK, IsAcknowledged, ReceivePuback
  <1>2. Cardinality(Acknowledged(session[link].stream)) \in Nat
    <2>1. Cardinality(Link!Acknowledged(session[link].stream)) \in Nat
      BY <1>1, LinkTypes, Link!AcknowledgedCount DEF Cardinality, Link!Cardinality
    <2> QED BY <2>1 DEF Acknowledged, Link!Acknowledged, Qos, Link!Qos, MessageTypes,
                        Link!MessageTypes
  <1>3. pending # <<>> /\ pending' = Tail(pending)
    BY <1>1, <1>2 DEF IsAcknowledged, ReceivePuback
  <1>4. Ends(Tail(pending), Bad, Corrects(todo, Bad))
    BY <1>1, <1>3, EndsTail DEF LastWord
  <1> QED BY <1>3, <1>4 DEF LastWord, IsAcknowledged, ReceivePuback, mainVars

(* Without a connection only what is held and about to be published counts. *)
LEMMA LastWordLost ==
    ASSUME NEW Bad, LastWord(Bad), ~ connected',
           \/ pending' = pending /\ todo' = todo
           \/ pending' = <<>> /\ todo' = todo
           \/ pending' = <<>> /\ todo' = <<>>
    PROVE  LastWord(Bad)'
  BY NothingEnds DEF LastWord

(* main() is about to publish something that ends well.                    *)
LEMMA LastWordAdds ==
    ASSUME NEW Bad, LastWord(Bad), todo = <<>>, Ends(todo', Bad, {}), pending' = pending,
           ~ connected' \/ UNCHANGED <<session, link, connected, retained>>
    PROVE  LastWord(Bad)'
  <1>1. Corrects(todo, Bad) \subseteq Corrects(todo', Bad)
    BY NothingEnds
  <1>2. Ends(pending', Bad, Corrects(todo', Bad))
    BY <1>1, EndsLater DEF LastWord
  <1>3. CASE UNCHANGED <<session, link, connected, retained>>
    BY <1>1, <1>2, <1>3, EndsLater DEF LastWord
  <1>4. CASE ~ connected'
    BY <1>2, <1>4 DEF LastWord
  <1> QED BY <1>3, <1>4

(* As the sessions of the process take each other over, the broker ends    *)
(* none but the current one, and accepts none beside it.                   *)
LEMMA LastWordBroker ==
    ASSUME SafeInv, ClientInv, instance = 1, NEW Bad, LastWord(Bad), BrokerStep, UNCHANGED mainVars
    PROVE  LastWord(Bad)'
  <1> DEFINE later == Corrects(todo, Bad)
             q == session[link].stream
  <1>1. UNCHANGED <<pending, todo, link, connected>>
    BY DEF BrokerStep, AcceptConnect, ReceiveMessage, KeepaliveExpires, Partition, EndSession,
           RequestLost, mainVars
  <1> SUFFICES ASSUME connected, session'[link].phase = "open"
               PROVE  /\ Ends(session'[link].stream, Bad, later)
                      /\ \A t \in Watched : Msg(t, retained'[t]) \in Bad =>
                            t \in Corrects(session'[link].stream, Bad) \cup later
    BY <1>1 DEF LastWord
  <1>2. /\ link \in SessionIds /\ session \in [SessionIds -> Link!Session(Message)]
        /\ session[link].phase \in {"open", "closed"}
        /\ \A s, o \in SessionIds : session[s].phase = "open" /\ session[o].phase = "open"
              /\ session[s].client = session[o].client => s = o
        /\ \A s \in SessionIds : session[s].phase # "unused" => session[s].client = 1
    BY LinkInSessions
       DEF SafeInv, TypeOK, LinkTypeOK, Link!SessionInv, SessionIds, Link!SessionIds, ClientInv,
           Link!Session
  <1>3. PICK s \in SessionIds : \/ AcceptConnect(s) \/ ReceiveMessage(s) \/ RequestLost(s)
                                \/ EndSession(s)
    BY DEF BrokerStep, KeepaliveExpires, Partition
  <1>4. session[link].phase = "open"
    <2>1. CASE AcceptConnect(s)
      <3>1. s # link
        BY <1>2, <2>1 DEF AcceptConnect
      <3>2. session'[link].phase = "closed" \/ session'[link] = session[link]
        BY <1>2, <2>1, <3>1 DEF AcceptConnect, Link!Session
      <3> QED BY <3>2
    <2>2. CASE ReceiveMessage(s) \/ EndSession(s) \/ RequestLost(s)
      <3>1. session'[link].phase = "closed" \/ session'[link].phase = session[link].phase
        BY <1>2, <2>2 DEF ReceiveMessage, EndSession, RequestLost, Link!Session
      <3> QED BY <3>1
    <2> QED BY <1>3, <2>1, <2>2
  <1>5. /\ q \in Seq(Message) /\ Ends(q, Bad, later)
        /\ \A t \in Watched : Msg(t, retained[t]) \in Bad => t \in Corrects(q, Bad) \cup later
    BY <1>2, <1>4 DEF LastWord, Link!Session
  <1>6. CASE ReceiveMessage(s)
    <2>1. s = link
      BY <1>2, <1>4, <1>6 DEF ReceiveMessage
    <2>2. /\ q # <<>> /\ session'[link].stream = Tail(q)
          /\ retained' = Store(retained, {Head(q)})
      BY <1>2, <1>6, <2>1 DEF ReceiveMessage
    <2> HIDE DEF q, later
    <2>3. Head(q) \in Message
      BY <1>5, <2>2
    <2>4. /\ Ends(Tail(q), Bad, later)
          /\ Head(q) \in Bad => Head(q).type \in later \cup Corrects(Tail(q), Bad)
          /\ Corrects(q, Bad) = Corrects(Tail(q), Bad) \cup Correction(Head(q), Bad)
      BY <1>5, <2>2, EndsTail
    <2>5. ASSUME NEW t \in Watched, Msg(t, retained'[t]) \in Bad
          PROVE  t \in Corrects(Tail(q), Bad) \cup later
      <3>1. CASE t = Head(q).type
        <4>1. retained'[t] = Head(q).value
          BY <2>2, <3>1 DEF Store
        <4>2. Msg(t, retained'[t]) = Head(q)
          BY <2>3, <3>1, <4>1, MessageShape
        <4> QED BY <2>4, <2>5, <3>1, <4>2
      <3>2. CASE t # Head(q).type
        <4>1. retained'[t] = retained[t]
          BY <2>2, <3>2 DEF Store
        <4>2. t \in Corrects(q, Bad) \cup later
          BY <1>5, <2>5, <4>1
        <4> QED BY <2>4, <3>2, <4>2 DEF Correction
      <3> QED BY <3>1, <3>2
    <2> QED BY <2>2, <2>4, <2>5
  <1>7. CASE AcceptConnect(s)
    <2>1. s # link /\ session[s].client = session[link].client
      BY <1>2, <1>4, <1>7 DEF AcceptConnect
    <2>2. link \in TakenOver(s)
      BY <1>2, <1>4, <2>1 DEF TakenOver
    <2>3. session'[link].phase = "closed"
      BY <1>2, <1>7, <2>1, <2>2 DEF AcceptConnect, Link!Session
    <2> QED BY <2>3
  <1>8. CASE EndSession(s)
    <2>1. s = link
      BY <1>2, <1>4, <1>8 DEF EndSession
    <2>2. session'[link].phase = "closed"
      BY <1>2, <1>8, <2>1 DEF EndSession
    <2> QED BY <2>2
  <1>9. CASE RequestLost(s)
    <2>1. session'[link] = session[link] /\ retained' = retained
      <3>1. s # link
        BY <1>4, <1>9 DEF RequestLost
      <3> QED BY <1>2, <1>9, <3>1 DEF RequestLost
    <2> QED BY <1>5, <2>1
  <1> QED BY <1>3, <1>6, <1>7, <1>8, <1>9

LEMMA ClientStep ==
    ASSUME SafeInv, ClientInv, [Next]_vars
    PROVE  ClientInv'
  <1> SUFFICES ASSUME instance' = 1, NEW s \in SessionIds, session'[s].phase # "unused"
               PROVE  session'[s].client = 1
    BY DEF ClientInv
  <1>1. instance = 1
    <2>1. CASE Restarted
      BY <2>1, ApparatusAssumption DEF Restarted, SafeInv, TypeOK
    <2>2. CASE ~ Restarted
      BY <2>2 DEF Next, Main, Network, Environment, MainConnects, ConnectFails, MainPublishes,
                  LoopTurn, LoopEnds, MainExits, Signal, Killed, Reconnects, IsConnected,
                  IsAcknowledged, ConnectionDrops, ConnectionEnds, vars, mainVars
    <2> QED BY <2>1, <2>2
  <1>2. session \in [SessionIds -> Link!Session(Message)]
    BY DEF SafeInv, TypeOK, LinkTypeOK, Link!Session
  <1>3. session[s].phase # "unused" => session[s].client = 1
    BY <1>1 DEF ClientInv
  <1>4. \/ OpenLink(ClientId)
        \/ session'[s].client = session[s].client
              /\ (session'[s].phase # "unused" => session[s].phase # "unused")
    <2>1. CASE BrokerStep
      <3>1. PICK o \in SessionIds :
                AcceptConnect(o) \/ ReceiveMessage(o) \/ RequestLost(o) \/ EndSession(o)
        BY <2>1 DEF BrokerStep, KeepaliveExpires, Partition
      <3>2. CASE AcceptConnect(o)
        <4>1. session[s].phase # "unused" \/ session'[s] = session[s]
          BY <1>2, <3>2 DEF AcceptConnect, TakenOver
        <4>2. session'[s].client = session[s].client
          BY <1>2, <3>2 DEF AcceptConnect, Link!Session
        <4> QED BY <4>1, <4>2
      <3>3. CASE ReceiveMessage(o)
        BY <1>2, <3>3 DEF ReceiveMessage, Link!Session
      <3>4. CASE RequestLost(o) \/ EndSession(o)
        <4>1. session[o].phase # "unused"
          BY <3>4 DEF RequestLost, EndSession
        <4>2. session' = [session EXCEPT ![o].phase = "closed", ![o].stream = <<>>]
          BY <3>4 DEF RequestLost, EndSession
        <4> QED BY <1>2, <4>1, <4>2 DEF Link!Session
      <3> QED BY <3>1, <3>2, <3>3, <3>4
    <2>2. ASSUME NEW m, Publish(m)
          PROVE  session'[s].client = session[s].client /\ session'[s].phase = session[s].phase
      BY <1>2, <2>2 DEF Publish, Link!Session
    <2>3. ASSUME NEW messages, ReceiveConnack(messages)
          PROVE  session'[s].client = session[s].client /\ session'[s].phase = session[s].phase
      BY <1>2, <2>3 DEF ReceiveConnack, Link!Session
    <2>4. ASSUME LoseLink
          PROVE  session'[s].client = session[s].client /\ session'[s].phase = session[s].phase
      BY <1>2, <2>4 DEF LoseLink, Link!Session
    <2> QED BY <2>1, <2>2, <2>3, <2>4
            DEF Next, Main, Network, Environment, MainConnects, ConnectFails, MainPublishes,
                LoopTurn, LoopEnds, MainExits, Signal, Killed, Restarted, Reconnects,
                IsConnected, IsAcknowledged, ReceivePuback, ConnectionDrops, ConnectionEnds,
                LinkDrops, LinkFoundDead, ProcessEnds, vars, mqttVars
  <1>5. CASE OpenLink(ClientId)
    BY <1>1, <1>2, <1>3, <1>5 DEF OpenLink, ClientId, Link!Session
  <1> QED BY <1>3, <1>4, <1>5

(* The turn of the halt.                                                   *)
LEMMA LastWordHalts ==
    ASSUME SafeInv, NEW t, LoopTurn(t), halted', ~ halted
    PROVE  LastWord(HaltBad)'
  <1> DEFINE due   == t > lastClock
             touch == ~ scored /\ t >= TouchAt
             If(c, msgs) == IF c THEN msgs ELSE <<>>
             clocks == Followed(Msg("clock", "running"))
             lights == Followed(Msg("lights", "on")) \o Followed(Msg("score", "1-0"))
             off    == Followed(Msg("lights", "off"))
             halt   == Followed(Msg("state", "HALT"))
             stop   == Followed(Msg("clock", "stopped"))
             before == If(due, clocks) \o If(touch, lights)
             after  == off \o halt \o stop
             corrected == {"lights", "state"} \cap Watched
  <1>1. todo' = before \o after
    <2>1. ~ halted /\ t >= HaltAt
      BY DEF LoopTurn
    <2> QED BY <2>1 DEF LoopTurn
  <1>2. /\ off \in Seq(Message) /\ halt \in Seq(Message) /\ stop \in Seq(Message)
        /\ clocks \in Seq(Message) /\ lights \in Seq(Message)
    BY AllPublished, ConcatProperties
  <1>3. before \in Seq(Message)
    <2> HIDE DEF clocks, lights, due, touch
    <2>1. If(due, clocks) \in Seq(Message) /\ If(touch, lights) \in Seq(Message)
      BY <1>2
    <2> QED BY <2>1, ConcatProperties
  <1>4. /\ Msg("lights", "off") \notin HaltBad /\ Msg("state", "HALT") \notin HaltBad
        /\ Msg("clock", "stopped") \notin HaltBad
        /\ \A m \in HaltBad : m.type \in {"lights", "state"}
    BY DEF HaltBad, Msg
  <1>5. /\ Ends(off, HaltBad, {}) /\ Corrects(off, HaltBad) = {"lights"} \cap Watched
        /\ Ends(halt, HaltBad, {}) /\ Corrects(halt, HaltBad) = {"state"} \cap Watched
        /\ Ends(stop, HaltBad, {})
    <2>1. Ends(off, HaltBad, {}) /\ Corrects(off, HaltBad) = {"lights"} \cap Watched
      BY <1>4, EndsFollowed
    <2>2. Ends(halt, HaltBad, {}) /\ Corrects(halt, HaltBad) = {"state"} \cap Watched
      BY <1>4, EndsFollowed
    <2>3. Ends(stop, HaltBad, {})
      BY <1>4, EndsFollowed
    <2> QED BY <2>1, <2>2, <2>3
  <1> HIDE DEF off, halt, stop, before
  <1>6. after \in Seq(Message) /\ Ends(after, HaltBad, {}) /\ corrected \subseteq Corrects(after, HaltBad)
    <2>1. Ends(off, HaltBad, {} \cup Corrects(halt, HaltBad))
      BY <1>5, EndsLater
    <2>2. off \o halt \in Seq(Message) /\ after \in Seq(Message)
      BY <1>2, ConcatProperties
    <2>3. Ends(off \o halt, HaltBad, {})
      BY <1>2, <1>5, <2>1, EndsConcat
    <2>4. Ends(off \o halt, HaltBad, {} \cup Corrects(stop, HaltBad))
      BY <2>3, EndsLater
    <2>5. Ends(after, HaltBad, {})
      BY <1>2, <1>5, <2>2, <2>4, EndsConcat
    <2>6. Corrects(after, HaltBad) = (Corrects(off, HaltBad) \cup Corrects(halt, HaltBad))
                                        \cup Corrects(stop, HaltBad)
      <3>1. Corrects(off \o halt, HaltBad) = Corrects(off, HaltBad) \cup Corrects(halt, HaltBad)
        BY <1>2, CorrectsConcat
      <3>2. Corrects(after, HaltBad) = Corrects(off \o halt, HaltBad) \cup Corrects(stop, HaltBad)
        <4> DEFINE first == off \o halt
        <4>1. first \in Seq(Message) /\ after = first \o stop
          BY <2>2
        <4> HIDE DEF first, after
        <4>2. Corrects(after, HaltBad) = Corrects(first, HaltBad) \cup Corrects(stop, HaltBad)
          BY <1>2, <4>1, CorrectsConcat
        <4> QED BY <4>2 DEF first
      <3> QED BY <3>1, <3>2
    <2> QED BY <1>5, <2>2, <2>5, <2>6
  <1> HIDE DEF after
  <1>7. ASSUME NEW q \in Seq(Message), NEW later, corrected \subseteq later
        PROVE  Ends(q, HaltBad, later)
    BY <1>4, <1>7, EndsAll, MessageShape
  <1>8. Ends(before, HaltBad, {} \cup Corrects(after, HaltBad))
    BY <1>3, <1>6, <1>7
  <1>9. /\ Ends(todo', HaltBad, {})
        /\ Corrects(todo', HaltBad) = Corrects(before, HaltBad) \cup Corrects(after, HaltBad)
    BY <1>1, <1>3, <1>6, <1>8, EndsConcat, CorrectsConcat
  <1>10. corrected \subseteq Corrects(todo', HaltBad)
    BY <1>6, <1>9
  <1>11. pending' \in Seq(Message) /\ (connected' => session'[link'].stream \in Seq(Message))
    BY LinkInSessions DEF LoopTurn, mqttVars, SafeInv, TypeOK, LinkTypeOK
  <1>12. ASSUME NEW u \in Watched, Msg(u, retained'[u]) \in HaltBad PROVE u \in corrected
    BY <1>4, <1>12 DEF Msg
  <1> QED BY <1>7, <1>9, <1>10, <1>11, <1>12 DEF LastWord

(* A step that leaves the main thread alone, and any that only takes from  *)
(* what it and the library hold, keep the last word.                       *)
LEMMA LastWordStep ==
    ASSUME SafeInv, ClientInv, instance = 1, NEW Bad, Announces(Bad), LastWord(Bad), [Next]_vars,
           ~ Restarted,
           UNCHANGED todo \/ MainPublishes \/ Killed
    PROVE  LastWord(Bad)'
  <1>1. CASE MainPublishes
    BY <1>1, LastWordPublishes
  <1>2. CASE IsConnected
    BY <1>2, LastWordConnected
  <1>3. CASE IsAcknowledged
    BY <1>3, LastWordAcknowledged
  <1>4. CASE BrokerStep /\ UNCHANGED mainVars
    BY <1>4, LastWordBroker
  <1>5. link = 0 => ~ connected
    BY DEF SafeInv, TypeOK, LinkTypeOK
  <1>6. CASE OpenLink(ClientId) /\ UNCHANGED todo
    BY <1>5, <1>6, LastWordLost DEF OpenLink
  <1>7. CASE (ConnectionDrops \/ ConnectionEnds) /\ UNCHANGED todo
    BY <1>7, LastWordLost DEF ConnectionDrops, ConnectionEnds, LinkDrops, LinkFoundDead, LoseLink
  <1>8. CASE ProcessEnds /\ (UNCHANGED todo \/ todo' = <<>>)
    BY <1>5, <1>8, LastWordLost DEF ProcessEnds, LoseLink
  <1>9. CASE UNCHANGED mqttVars /\ UNCHANGED todo
    BY <1>9 DEF mqttVars, LastWord
  <1>10. CASE Main
    <2>1. CASE UNCHANGED todo
      BY <1>10, <2>1, <1>1, <1>6, <1>8, <1>9
         DEF Main, MainConnects, ConnectFails, LoopEnds, MainExits, LoopTurn
    <2>2. CASE Killed
      BY <2>2, <1>8 DEF Killed
    <2> QED BY <2>1, <2>2, <1>1
  <1>11. CASE Network
    BY <1>11, <1>2, <1>3, <1>6, <1>7 DEF Network, Reconnects, ConnectionEnds, mainVars
  <1>12. CASE Environment
    BY <1>12, <1>4, <1>7, <1>8, <1>9
       DEF Environment, Signal, Killed, ConnectionDrops, mainVars
  <1>13. CASE UNCHANGED vars
    BY <1>13, <1>9 DEF vars, mqttVars
  <1> QED BY <1>10, <1>11, <1>12, <1>13 DEF Next
-----------------------------------------------------------------------------
(* After the halt the last word about the state and the lights is that the *)
(* bout is over, however often the connection is lost.                     *)
HaltInv == halted /\ instance = 1 => LastWord(HaltBad)

LEMMA HaltStep ==
    ASSUME SafeInv, ClientInv, HaltInv, [Next]_vars
    PROVE  HaltInv'
  <1> SUFFICES ASSUME halted', instance' = 1 PROVE LastWord(HaltBad)'
    BY DEF HaltInv
  <1>1. ~ Restarted
    BY DEF Restarted
  <1>2. instance = 1
    BY <1>1 DEF Next, Main, Network, Environment, MainConnects, ConnectFails, MainPublishes,
                LoopTurn, LoopEnds, MainExits, Signal, Killed, Reconnects, IsConnected,
                IsAcknowledged, ConnectionDrops, ConnectionEnds, vars, mainVars
  <1>3. ASSUME NEW t, LoopTurn(t) PROVE LastWord(HaltBad)'
    <2>1. ~ halted
      BY <1>3 DEF LoopTurn, SafeInv, MainInv
    <2> QED BY <1>3, <2>1, LastWordHalts
  <1>4. CASE LoopEnds
    <2>1. halted /\ todo = <<>> /\ todo' = Followed(Msg("connection", "offline"))
          /\ UNCHANGED <<session, link, connected, pending, retained>>
      BY <1>4 DEF LoopEnds, mqttVars, Offline, Msg
    <2>2. Msg("connection", "offline") \notin HaltBad
      BY DEF HaltBad, Msg
    <2>3. Ends(Followed(Msg("connection", "offline")), HaltBad, {})
      BY <2>2, EndsFollowed
    <2> QED BY <1>2, <2>1, <2>3, LastWordAdds DEF HaltInv
  <1>5. CASE MainConnects
    BY <1>5 DEF MainConnects, SafeInv, MainInv
  <1>6. CASE ~ (\E t : LoopTurn(t)) /\ ~ LoopEnds /\ ~ MainConnects
    <2>1. halted /\ (UNCHANGED todo \/ MainPublishes \/ Killed)
      BY <1>1, <1>6
         DEF Next, Main, Network, Environment, ConnectFails, MainPublishes, MainExits, Signal,
             Killed, Reconnects, IsConnected, IsAcknowledged, ConnectionDrops, ConnectionEnds,
             vars, mainVars
    <2>2. LastWord(HaltBad)
      BY <1>2, <2>1 DEF HaltInv
    <2> QED BY <1>1, <1>2, <2>1, <2>2, AnnouncesBoth, LastWordStep
  <1> QED BY <1>3, <1>4, <1>5, <1>6

(* A turn of the loop does not mention the connection.                     *)
LEMMA TurnSaysNoConnection ==
    ASSUME NEW t, LoopTurn(t) PROVE Ends(todo', AwayBad, {})
  <1> DEFINE due   == t > lastClock
             touch == ~ scored /\ t >= TouchAt
             halt  == ~ halted /\ t >= HaltAt
             If(c, msgs) == IF c THEN msgs ELSE <<>>
             Silent(q) == q \in Seq(Message) /\ Ends(q, AwayBad, {})
             clocks == Followed(Msg("clock", "running"))
             lights == Followed(Msg("lights", "on"))
             score  == Followed(Msg("score", "1-0"))
             off    == Followed(Msg("lights", "off"))
             over   == Followed(Msg("state", "HALT"))
             stop   == Followed(Msg("clock", "stopped"))
  <1>1. /\ Msg("clock", "running") \notin AwayBad /\ Msg("lights", "on") \notin AwayBad
        /\ Msg("score", "1-0") \notin AwayBad /\ Msg("lights", "off") \notin AwayBad
        /\ Msg("state", "HALT") \notin AwayBad /\ Msg("clock", "stopped") \notin AwayBad
    BY DEF AwayBad, Msg
  <1>2. /\ Ends(clocks, AwayBad, {}) /\ Ends(lights, AwayBad, {}) /\ Ends(score, AwayBad, {})
        /\ Ends(off, AwayBad, {}) /\ Ends(over, AwayBad, {}) /\ Ends(stop, AwayBad, {})
    BY <1>1, EndsFollowed
  <1>3. /\ Silent(clocks) /\ Silent(lights) /\ Silent(score)
        /\ Silent(off) /\ Silent(over) /\ Silent(stop)
    BY <1>2, AllPublished
  <1>4. todo' = If(due, clocks) \o If(touch, lights \o score) \o If(halt, off \o over \o stop)
    BY DEF LoopTurn
  <1> HIDE DEF clocks, lights, score, off, over, stop, due, touch, halt
  <1>5. ASSUME NEW p, NEW q, Silent(p), Silent(q) PROVE Silent(p \o q)
    <2>1. Ends(p, AwayBad, {} \cup Corrects(q, AwayBad))
      BY <1>5, EndsLater
    <2>2. p \o q \in Seq(Message)
      BY <1>5, ConcatProperties
    <2>3. Ends(p \o q, AwayBad, {})
      BY <1>5, <2>1, EndsConcat
    <2> QED BY <2>2, <2>3
  <1>6. Silent(<<>>)
    BY NothingEnds
  <1> HIDE DEF Silent
  <1>7. \A c, q : Silent(q) => Silent(If(c, q))
    BY <1>6
  <1>8. Silent(todo')
    BY <1>3, <1>4, <1>5, <1>7
  <1> QED BY <1>8 DEF Silent

(* As long as the bout lasts the last word about the connection is online. *)
PresentInv == instance = 1 /\ pc \in {"start", "bout"} => LastWord(AwayBad)

LEMMA PresentStep ==
    ASSUME SafeInv, ClientInv, PresentInv, [Next]_vars
    PROVE  PresentInv'
  <1> SUFFICES ASSUME instance' = 1, pc' \in {"start", "bout"} PROVE LastWord(AwayBad)'
    BY DEF PresentInv
  <1>1. ~ Restarted
    BY ApparatusAssumption DEF Restarted, SafeInv, TypeOK
  <1>2. instance = 1 /\ pc \in {"start", "bout"}
    BY <1>1 DEF Next, Main, Network, Environment, MainConnects, ConnectFails, MainPublishes,
                LoopTurn, LoopEnds, MainExits, Signal, Killed, Reconnects, IsConnected,
                IsAcknowledged, ConnectionDrops, ConnectionEnds, vars, mainVars
  <1>3. LastWord(AwayBad)
    BY <1>2 DEF PresentInv
  <1>5. CASE MainConnects
    <2>1. todo = <<>> /\ pending' = pending /\ todo' = Followed(Msg("state", "FENCING"))
      BY <1>5 DEF MainConnects, OpenLink, SafeInv, MainInv
    <2>2. ~ connected'
      BY <1>5 DEF MainConnects, OpenLink, SafeInv, TypeOK, LinkTypeOK
    <2>3. Msg("state", "FENCING") \notin AwayBad
      BY DEF AwayBad, Msg
    <2>4. Ends(Followed(Msg("state", "FENCING")), AwayBad, {})
      BY <2>3, EndsFollowed
    <2> QED BY <1>3, <2>1, <2>2, <2>4, LastWordAdds
  <1>6. ASSUME NEW t, LoopTurn(t) PROVE LastWord(AwayBad)'
    <2>1. Ends(todo', AwayBad, {})
      BY <1>6, TurnSaysNoConnection
    <2> QED BY <1>3, <1>6, <2>1, LastWordAdds DEF LoopTurn, mqttVars
  <1>7. CASE ~ (\E t : LoopTurn(t)) /\ ~ MainConnects
    <2>1. UNCHANGED todo \/ MainPublishes \/ Killed
      BY <1>1, <1>7
         DEF Next, Main, Network, Environment, ConnectFails, MainPublishes, MainExits, LoopEnds,
             Signal, Killed, Reconnects, IsConnected, IsAcknowledged, ConnectionDrops,
             ConnectionEnds, vars, mainVars
    <2> QED BY <1>1, <1>2, <1>3, <2>1, AnnouncesBoth, LastWordStep
  <1> QED BY <1>5, <1>6, <1>7

LEMMA LastWordsStart == ASSUME Init PROVE ClientInv /\ HaltInv /\ PresentInv
  <1>1. LastWord(AwayBad)
    BY NothingEnds DEF Init, LinkInit, LastWord
  <1> QED BY <1>1 DEF Init, LinkInit, Unused, ClientInv, HaltInv, PresentInv

LEMMA LastWordsAlways == ApparatusSpec => [](SafeInv /\ ClientInv /\ HaltInv /\ PresentInv)
  <1>1. SafeInv /\ ClientInv /\ HaltInv /\ PresentInv /\ [Next]_vars
           => (ClientInv /\ HaltInv /\ PresentInv)'
    BY ClientStep, HaltStep, PresentStep
  <1> QED BY <1>1, LastWordsStart, SafeAlways, PTL DEF ApparatusSpec

(* When all has arrived, what is retained is not bad.                      *)
LEMMA SettledIsGood ==
    ASSUME SafeInv, NEW Bad, LastWord(Bad), NEW t \in Watched, Settled(t)
    PROVE  Msg(t, retained[t]) \notin Bad
  <1>1. session[link].stream \in Seq(Message) /\ todo \in Seq(Message)
    BY LinkInSessions DEF SafeInv, TypeOK, LinkTypeOK, Settled
  <1>2. t \notin Corrects(session[link].stream, Bad) /\ t \notin Corrects(todo, Bad)
    BY <1>1 DEF Settled, Corrects
  <1> QED BY <1>2 DEF LastWord, Settled

LEMMA HaltHolds == ASSUME SafeInv, HaltInv PROVE HaltIsFinal
  <1> SUFFICES ASSUME halted, instance = 1, NEW t \in Watched, Settled(t)
               PROVE  retained[t] \notin {"FENCING", "on"}
    BY DEF HaltIsFinal
  <1>1. Msg(t, retained[t]) \notin HaltBad
    BY SettledIsGood DEF HaltInv
  <1>2. retained[t] = NotSet \/ (t \in DOMAIN Values /\ retained[t] \in Values[t])
    <2>1. CASE Msg(t, retained[t]) \in Message
      <3>1. PICK u \in DOMAIN Values \cap Watched : \E v \in Values[u] : Msg(t, retained[t]) = Msg(u, v)
        BY <2>1 DEF Message
      <3> QED BY <3>1 DEF Msg
    <2> QED BY <2>1 DEF SafeInv, TypeOK, LinkTypeOK
  <1>3. CASE t = "state" \/ t = "lights"
    BY <1>1, <1>2, <1>3 DEF HaltBad, Values, NotSet
  <1>4. CASE t \notin {"state", "lights"}
    BY <1>2, <1>4 DEF Values, NotSet
  <1> QED BY <1>3, <1>4

(* The end of the bout is final: main.cpp's halt, resent as often as the   *)
(* connection is lost, and in whatever order it crosses the announcements  *)
(* of onConnect, leaves no FENCING and no lit lights retained, for every   *)
(* set of followed types, every timing and every number of connections.    *)
THEOREM HaltFinal == Spec => []HaltIsFinal
  <1>1. Spec => ApparatusSpec
    BY DEF Spec, ApparatusSpec
  <1> QED BY <1>1, HaltHolds, LastWordsAlways, PTL

LEMMA PresentHolds ==
    ASSUME "connection" \in Watched, SafeInv, PresentInv PROVE PresentIsOnline
  <1> SUFFICES ASSUME pc = "bout", instance = 1, Settled("connection")
               PROVE  retained["connection"] = "online"
    BY DEF PresentIsOnline
  <1>1. Msg("connection", retained["connection"]) \notin AwayBad
    BY SettledIsGood DEF PresentInv
  <1>2. retained["connection"] = NotSet \/ retained["connection"] \in Values["connection"]
    <2>1. CASE Msg("connection", retained["connection"]) \in Message
      <3>1. PICK u \in DOMAIN Values \cap Watched :
                \E v \in Values[u] : Msg("connection", retained["connection"]) = Msg(u, v)
        BY <2>1 DEF Message
      <3> QED BY <3>1 DEF Msg
    <2> QED BY <2>1 DEF SafeInv, TypeOK, LinkTypeOK
  <1> QED BY <1>1, <1>2 DEF AwayBad, Values

(* The status of a settled connection is online until the bout is left: as *)
(* the connections of the process share a client id (mosquitto_new), each  *)
(* ends the one before it, whose will and late messages come too late.     *)
THEOREM PresentOnline ==
    ASSUME "connection" \in Watched PROVE Spec => []PresentIsOnline
  <1>1. Spec => ApparatusSpec
    BY DEF Spec, ApparatusSpec
  <1>2. SafeInv /\ PresentInv => PresentIsOnline
    BY PresentHolds
  <1> QED BY <1>1, <1>2, LastWordsAlways, PTL
=============================================================================
