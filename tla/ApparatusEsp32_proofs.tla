----------------------- MODULE ApparatusEsp32_proofs ------------------------
(***************************************************************************)
(* The ESP32 apparatus publishes well-typed messages only, whatever        *)
(* becomes of its power and its connections.                               *)
(***************************************************************************)
EXTENDS ApparatusEsp32, SequenceTheorems, TLAPS

Link == INSTANCE MqttLink_proofs WITH Will <- LastWill, Resends <- FALSE

(* The lemmas about the link need what OPP2Types assumes.                  *)
LEMMA LinkTypes == Link!MirrorFields = Link!Retained
  BY DEF Link!MirrorFields, Link!Retained, Link!MessageTypes
-----------------------------------------------------------------------------
(* Messages.                                                               *)

LEMMA MessageShape ==
    /\ DOMAIN Values = {"connection", "state", "score", "lights", "clock"}
    /\ \A m \in Message : /\ m = Msg(m.type, m.value)
                          /\ m.type \in Watched
                          /\ m.type \in DOMAIN Values
  BY DEF Message, Values, Msg

LEMMA FollowedType ==
    ASSUME NEW t \in DOMAIN Values, NEW v \in Values[t]
    PROVE  Followed(Msg(t, v)) \in Seq(Message)
  <1>1. CASE t \in Watched
    <2>1. Msg(t, v) \in Message
      BY <1>1 DEF Message
    <2>2. Followed(Msg(t, v)) = <<Msg(t, v)>>
      BY <1>1 DEF Followed, Msg
    <2> QED BY <2>1, <2>2
  <1>2. CASE t \notin Watched
    BY <1>2 DEF Followed, Msg
  <1> QED BY <1>1, <1>2

(* Everything the program publishes.                                       *)
LEMMA AllPublished ==
    /\ \A v \in {"online", "offline"} : Followed(Msg("connection", v)) \in Seq(Message)
    /\ \A v \in {"WAITING", "FENCING", "HALT"} : Followed(Msg("state", v)) \in Seq(Message)
    /\ \A v \in {"0-0", "1-0"} : Followed(Msg("score", v)) \in Seq(Message)
    /\ \A v \in {"on", "off"} : Followed(Msg("lights", v)) \in Seq(Message)
    /\ \A v \in {"running", "stopped"} : Followed(Msg("clock", v)) \in Seq(Message)
    /\ Offline = Msg("connection", "offline")
  <1>1. /\ \A v \in {"online", "offline"} : "connection" \in DOMAIN Values /\ v \in Values["connection"]
        /\ \A v \in {"WAITING", "FENCING", "HALT"} : "state" \in DOMAIN Values /\ v \in Values["state"]
        /\ \A v \in {"0-0", "1-0"} : "score" \in DOMAIN Values /\ v \in Values["score"]
        /\ \A v \in {"on", "off"} : "lights" \in DOMAIN Values /\ v \in Values["lights"]
        /\ \A v \in {"running", "stopped"} : "clock" \in DOMAIN Values /\ v \in Values["clock"]
    BY DEF Values
  <1> QED BY <1>1, FollowedType DEF Offline, Msg

LEMMA OnConnectType == OnConnect \in Seq(Message)
  <1>1. /\ Followed(Msg("connection", "online")) \in Seq(Message)
        /\ Followed(Msg("state", "WAITING")) \in Seq(Message)
        /\ Followed(Msg("score", "0-0")) \in Seq(Message)
        /\ Followed(Msg("lights", "off")) \in Seq(Message)
    BY AllPublished
  <1> QED BY <1>1, ConcatProperties DEF OnConnect

LEMMA LinkIsTyped == Link!LinkAssumption(Message)
  <1>1. \A m \in LastWill : m = Msg(m.type, m.value) /\ m.type = "connection" /\ m.value = "offline"
    BY DEF LastWill, Offline, Msg
  <1>2. ASSUME "connection" \in Watched PROVE Msg("connection", "offline") \in Message
    <2>1. "connection" \in DOMAIN Values \cap Watched /\ "offline" \in Values["connection"]
      BY <1>2 DEF Values
    <2> QED BY <2>1 DEF Message
  <1>3. \A m \in LastWill : m.type \in Watched => m \in Message
    BY <1>1, <1>2
  <1> QED BY <1>1, <1>3, MessageShape, Esp32Assumption DEF Link!LinkAssumption, Link!Msg, Msg
-----------------------------------------------------------------------------
(* What a turn of the loop leaves to be published.                         *)
LEMMA TodoOfTurn ==
    ASSUME NEW t, LoopTurn(t) PROVE todo' \in Seq(Message)
  <1> DEFINE due   == boutRunning /\ t > lastClock
             touch == due /\ t >= TouchAt /\ t < HaltAt
             halt  == due /\ t >= HaltAt /\ t < HaltAt + 1
             If(c, msgs) == IF c THEN msgs ELSE <<>>
             clocks == Followed(Msg("clock", "running"))
             lights == Followed(Msg("lights", "on")) \o Followed(Msg("score", "1-0"))
             halts  == Followed(Msg("lights", "off")) \o Followed(Msg("state", "HALT"))
                          \o Followed(Msg("clock", "stopped"))
  <1>1. todo' = If(due, clocks) \o If(touch, lights) \o If(halt, halts)
    BY DEF LoopTurn
  <1>2. clocks \in Seq(Message) /\ lights \in Seq(Message) /\ halts \in Seq(Message)
    BY AllPublished, ConcatProperties
  <1> HIDE DEF clocks, lights, halts, due, touch, halt
  <1>3. If(due, clocks) \in Seq(Message) /\ If(touch, lights) \in Seq(Message)
           /\ If(halt, halts) \in Seq(Message)
    BY <1>2
  <1> QED BY <1>1, <1>3, ConcatProperties

(* The link as the program uses it is the link of MqttLink_proofs.         *)
LEMMA SameLink ==
    /\ LinkTypeOK(Message) <=> Link!LinkTypeOK(Message)
    /\ LinkInit <=> Link!LinkInit
    /\ \A client : OpenLink(client) => Link!OpenLink(client)
    /\ \A m : Publish(m) => Link!Publish(m)
    /\ \A messages : ReceiveConnack(messages) => Link!ReceiveConnack(messages)
    /\ LinkDrops => Link!LinkDrops
    /\ LinkFoundDead => Link!LinkFoundDead
    /\ ProcessEnds => Link!ProcessEnds
    /\ BrokerStep => Link!BrokerStep
    /\ UNCHANGED mqttVars => UNCHANGED Link!linkVars
  <1>1. LinkTypeOK(Message) <=> Link!LinkTypeOK(Message)
    BY DEF LinkTypeOK, Link!LinkTypeOK, SessionIds, Link!SessionIds, NotSet, Link!NotSet,
           Msg, Link!Msg
  <1>2. LinkInit <=> Link!LinkInit
    BY DEF LinkInit, Link!LinkInit, SessionIds, Link!SessionIds, NotSet, Link!NotSet,
           Unused, Link!Unused
  <1>3. /\ \A client : OpenLink(client) => Link!OpenLink(client)
        /\ \A m : Publish(m) => Link!Publish(m)
        /\ \A messages : ReceiveConnack(messages) => Link!ReceiveConnack(messages)
    BY DEF OpenLink, Link!OpenLink, Publish, Link!Publish, ReceiveConnack, Link!ReceiveConnack,
           Qos, Link!Qos, MessageTypes, Link!MessageTypes
  <1>4. /\ LinkDrops => Link!LinkDrops
        /\ LinkFoundDead => Link!LinkFoundDead
        /\ ProcessEnds => Link!ProcessEnds
    BY DEF LinkDrops, LinkFoundDead, ProcessEnds, LoseLink,
           Link!LinkDrops, Link!LinkFoundDead, Link!ProcessEnds, Link!LoseLink
  <1>5. BrokerStep => Link!BrokerStep
    <2>1. \A s : AcceptConnect(s) => Link!AcceptConnect(s)
      BY DEF AcceptConnect, Link!AcceptConnect, TakenOver, Link!TakenOver, Store, Link!Store,
             SessionIds, Link!SessionIds
    <2>2. \A s : ReceiveMessage(s) => Link!ReceiveMessage(s)
      BY DEF ReceiveMessage, Link!ReceiveMessage, Store, Link!Store
    <2>3. \A s : EndSession(s) => Link!EndSession(s)
      BY DEF EndSession, Link!EndSession, Store, Link!Store
    <2>4. \A s : RequestLost(s) => Link!RequestLost(s)
      BY DEF RequestLost, Link!RequestLost
    <2> QED BY <2>1, <2>2, <2>3, <2>4
            DEF BrokerStep, Link!BrokerStep, SessionIds, Link!SessionIds, KeepaliveExpires,
                Link!KeepaliveExpires, Partition, Link!Partition
  <1>6. UNCHANGED mqttVars => UNCHANGED Link!linkVars
    BY DEF mqttVars, Link!linkVars
  <1> QED BY <1>1, <1>2, <1>3, <1>4, <1>5, <1>6

(* Whatever the device, the network and the broker do, the link takes one  *)
(* of its steps, and the library holds nothing back.                       *)
LEMMA NextIsLinkStep ==
    ASSUME TypeOK, [Next]_vars
    PROVE  Link!LinkStep(Message) /\ pending' = <<>>
  <1>1. used + 1 \in Nat /\ pending = <<>>
    BY Esp32Assumption DEF TypeOK, LinkTypeOK
  <1>2. ASSUME NEW t, Dial(t) PROVE Link!LinkStep(Message) /\ pending' = <<>>
    BY <1>1, <1>2, SameLink DEF Dial, OpenLink, Link!LinkStep
  <1>3. CASE DialSucceeds
    BY <1>1, <1>3, SameLink, OnConnectType DEF DialSucceeds, ReceiveConnack, Link!LinkStep
  <1>4. CASE Publishes
    <2>1. Head(todo) \in Message
      BY <1>4 DEF Publishes, TypeOK
    <2> QED BY <1>1, <1>4, <2>1, SameLink DEF Publishes, Publish, Link!LinkStep
  <1>5. CASE UNCHANGED mqttVars
    BY <1>1, <1>5, SameLink DEF mqttVars, Link!LinkStep
  <1>6. CASE PowerLost
    BY <1>6, SameLink DEF PowerLost, ProcessEnds, Link!LinkStep
  <1>7. CASE ConnectionDrops \/ ConnectionEnds
    BY <1>1, <1>7, SameLink
       DEF ConnectionDrops, ConnectionEnds, LinkDrops, LinkFoundDead, Link!LinkStep
  <1>8. CASE BrokerStep
    <2>1. pending' = pending
      BY <1>8 DEF BrokerStep, AcceptConnect, ReceiveMessage, KeepaliveExpires, Partition,
                  EndSession, RequestLost
    <2> QED BY <1>1, <1>8, <2>1, SameLink DEF Link!LinkStep
  <1>9. CASE Device
    BY <1>9, <1>2, <1>3, <1>4, <1>5, <1>7
       DEF Device, BeginBout, CheckConnection, LoopTurn
  <1>10. CASE Environment
    BY <1>10, <1>5, <1>6, <1>7, <1>8 DEF Environment, PowerOn
  <1>11. CASE UNCHANGED vars
    BY <1>11, <1>5 DEF vars, mqttVars
  <1> QED BY <1>9, <1>10, <1>11 DEF Next

LEMMA DeviceStepType ==
    ASSUME TypeOK, [Next]_vars
    PROVE  /\ pc' \in {"dial", "begin", "check", "turn", "off"}
           /\ boots' \in 1 .. MaxBoots
           /\ begun' \in BOOLEAN /\ boutRunning' \in BOOLEAN
           /\ now' \in 0 .. Horizon
           /\ lastClock' \in -1 .. Horizon
           /\ todo' \in Seq(Message)
  <1> USE Esp32Assumption DEF TypeOK
  <1>1. CASE UNCHANGED appVars
    BY <1>1 DEF appVars
  <1>2. ASSUME NEW t \in now .. Horizon, Dial(t)
        PROVE  now' \in 0 .. Horizon /\ UNCHANGED <<pc, boots, begun, boutRunning, lastClock, todo>>
    BY <1>2 DEF Dial
  <1>3. CASE DialSucceeds \/ CheckConnection
    BY <1>3 DEF DialSucceeds, CheckConnection
  <1>4. CASE BeginBout
    BY <1>4, AllPublished DEF BeginBout
  <1>5. CASE Publishes
    BY <1>5 DEF Publishes
  <1>6. ASSUME NEW t \in NextTick, LoopTurn(t)
        PROVE  /\ pc' = "check" /\ boutRunning' \in BOOLEAN
               /\ now' \in 0 .. Horizon /\ lastClock' \in -1 .. Horizon
               /\ todo' \in Seq(Message) /\ UNCHANGED <<boots, begun>>
    <2>1. todo' \in Seq(Message)
      BY <1>6, TodoOfTurn
    <2>2. t \in 0 .. Horizon
      BY DEF NextTick
    <2> QED BY <1>6, <2>1, <2>2 DEF LoopTurn
  <1>7. CASE PowerLost
    BY <1>7 DEF PowerLost
  <1>8. CASE PowerOn
    <2>1. /\ pc' = "dial" /\ begun' = FALSE /\ boutRunning' = FALSE /\ todo' = <<>>
          /\ now' = 0 /\ lastClock' = -1 /\ boots' = boots + 1 /\ boots < MaxBoots
      BY <1>8 DEF PowerOn, Booted
    <2>2. boots + 1 \in 1 .. MaxBoots
      BY <2>1
    <2>3. 0 \in 0 .. Horizon /\ -1 \in -1 .. Horizon /\ <<>> \in Seq(Message)
      OBVIOUS
    <2> QED BY <2>1, <2>2, <2>3
  <1> QED BY <1>1, <1>2, <1>3, <1>4, <1>5, <1>6, <1>7, <1>8
          DEF Next, Device, Environment, ConnectionDrops, ConnectionEnds, vars, appVars

(* Whatever is on its way, waits or is retained is a message the device    *)
(* publishes, of a type that is followed; nothing is ever kept to be sent  *)
(* again; the time of the loop and its clock keep their bounds.            *)
THEOREM DeviceTyped == Spec => []TypeOK
  <1>1. Init => TypeOK
    <2> SUFFICES ASSUME Init PROVE TypeOK
      OBVIOUS
    <2>1. LinkTypeOK(Message) /\ pending = <<>>
      BY LinkTypes, LinkIsTyped, SameLink, Link!LinkStartType DEF Init, LinkInit
    <2>2. 1 \in 1 .. MaxBoots /\ 0 \in 0 .. Horizon /\ -1 \in -1 .. Horizon
             /\ <<>> \in Seq(Message)
      BY Esp32Assumption
    <2> QED BY <2>1, <2>2 DEF Init, TypeOK
  <1>2. TypeOK /\ [Next]_vars => TypeOK'
    <2> SUFFICES ASSUME TypeOK, [Next]_vars PROVE TypeOK'
      OBVIOUS
    <2>1. Link!LinkStep(Message) /\ Link!LinkTypeOK(Message) /\ pending' = <<>>
      BY NextIsLinkStep, SameLink DEF TypeOK
    <2>2. Link!LinkTypeOK(Message)'
      BY <2>1, LinkTypes, LinkIsTyped, Link!LinkStepType
    <2>3. LinkTypeOK(Message)'
      BY <2>2 DEF LinkTypeOK, Link!LinkTypeOK, SessionIds, Link!SessionIds, NotSet, Link!NotSet,
                  Msg, Link!Msg
    <2> QED BY <2>1, <2>3, DeviceStepType DEF TypeOK
  <1> QED BY <1>1, <1>2, PTL DEF Spec
=============================================================================
