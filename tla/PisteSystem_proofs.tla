-------------------------- MODULE PisteSystem_proofs --------------------------
(***************************************************************************)
(* The piste as a whole: each of its parts keeps to its own specification, *)
(* so what is proved of the parts holds together, and no subscriber is     *)
(* left with a bout that goes on after the halt.                           *)
(***************************************************************************)
EXTENDS PisteSystem, ApparatusLinux_proofs, Subscriber_proofs

(* The system steps as its apparatus, with the broker, does.               *)
LEMMA ApparatusPart ==
    ASSUME [SystemNext]_systemVars PROVE [Next]_vars
  <1>1. CASE ApparatusSteps
    BY <1>1 DEF ApparatusSteps, Next, Environment
  <1>2. CASE BrokerPublishes
    BY <1>2 DEF BrokerPublishes, BrokerStep, Next, Environment
  <1>3. CASE SoftwareCorrects \/ ViewerSteps \/ UNCHANGED systemVars
    BY <1>3 DEF SoftwareCorrects, ViewerSteps, systemVars, vars
  <1> QED BY <1>1, <1>2, <1>3 DEF SystemNext

LEMMA SystemIsApparatus == SystemSpec => ApparatusSpec
  BY ApparatusPart, PTL DEF SystemSpec, SystemInit, ApparatusSpec
-----------------------------------------------------------------------------
(* What the topics of the piste are, and what they may say.                *)
LEMMA PisteShape ==
    /\ \A t \in Watched : /\ Apparatus(t) \in Topics /\ Apparatus(t)[2] = t /\ t \in Types
                          /\ Apparatus(t) # SoftwareScore
                          /\ t \in DOMAIN Values /\ Values[t] \subseteq Contents[t]
    /\ \A t, u : Apparatus(t) = Apparatus(u) => t = u
    /\ \A topic \in Topics : topic \in {Apparatus(topic[2]), SoftwareScore}
    /\ SoftwareScore[2] = "score" /\ (SoftwareScore \in Topics => "0-1" \in Contents["score"])
  <1>1. \A t, u : Apparatus(t) = Apparatus(u) => t = u
    BY DEF Apparatus
  <1>2. ASSUME NEW t \in Watched
        PROVE  /\ Apparatus(t) \in Topics /\ Apparatus(t)[2] = t /\ t \in Types
               /\ Apparatus(t) # SoftwareScore
               /\ t \in DOMAIN Values /\ Values[t] \subseteq Contents[t]
    <2>1. Apparatus(t) \in Topics /\ Apparatus(t)[2] = t
      BY <1>2, SystemAssumption DEF PisteTopics, Apparatus
    <2>2. t \in DOMAIN Values /\ Values[t] \subseteq PisteContents[t]
      BY SystemAssumption DEF PisteContents
    <2>3. Apparatus(t) # SoftwareScore
      BY DEF Apparatus, SoftwareScore
    <2> QED BY <2>1, <2>2, <2>3, SystemAssumption DEF Types
  <1>3. \A topic \in Topics : topic \in {Apparatus(topic[2]), SoftwareScore}
    <2> TAKE topic \in Topics
    <2>1. topic \in PisteTopics
      BY SystemAssumption
    <2>2. CASE \E t \in Watched : topic = Apparatus(t)
      BY <2>2 DEF Apparatus
    <2>3. CASE \E t \in Watched \cap {"score"} : topic = <<"software", t>>
      BY <2>3 DEF SoftwareScore
    <2> QED BY <2>1, <2>2, <2>3 DEF PisteTopics
  <1>4. "0-1" \in Contents["score"]
    BY SystemAssumption DEF PisteContents, Values
  <1> QED BY <1>1, <1>2, <1>3, <1>4 DEF SoftwareScore

(* A message of the apparatus reaches the subscriber as any other.         *)
LEMMA MessagePublished ==
    ASSUME ShapeInv, NEW m \in Message, Publishes(m)
    PROVE  Published(Apparatus(m.type))
  <1> DEFINE topic == Apparatus(m.type)
  <1>1. m.type \in Watched /\ m.value \in Values[m.type]
    <2>1. PICK t \in DOMAIN Values \cap Watched : \E v \in Values[t] : m = Msg(t, v)
      BY DEF Message
    <2> QED BY <2>1 DEF Msg
  <1>2. topic \in Topics /\ m.value \in Contents[topic[2]]
    BY <1>1, PisteShape
  <1>3. kept' = [kept EXCEPT ![topic] = m.value] /\ Relays(topic, m.value)
    BY DEF Publishes
  <1> HIDE DEF topic
  <1>4. kept'[topic] = m.value
    BY <1>2, <1>3 DEF ShapeInv
  <1>5. Published(topic)
    BY <1>2, <1>3, <1>4 DEF Published
  <1> QED BY <1>5 DEF topic

LEMMA WillIsMessage == "connection" \in Watched => Offline \in Message
  <1> SUFFICES ASSUME "connection" \in Watched PROVE Offline \in Message
    OBVIOUS
  <1>1. "connection" \in DOMAIN Values \cap Watched /\ "offline" \in Values["connection"]
    BY DEF Values
  <1>2. Offline = Msg("connection", "offline")
    BY DEF Offline, Msg
  <1> QED BY <1>1, <1>2 DEF Message

LEMMA StreamOfMessages ==
    ASSUME SafeInv, NEW s \in SessionIds, session[s].stream # <<>>
    PROVE  Head(session[s].stream) \in Message
  BY HeadTailProperties DEF SafeInv, TypeOK, LinkTypeOK

(* The system steps as the subscriber, with any broker, does.              *)
LEMMA ViewerPart ==
    ASSUME SafeInv, ShapeInv, [SystemNext]_systemVars PROVE [ViewerNext]_viewerVars
  <1>1. Silent => UNCHANGED viewerVars
    BY DEF Silent, screenVars, viewerVars
  <1>2. ASSUME NEW m \in Message, Publishes(m) PROVE ViewerNext
    <2>1. Apparatus(m.type) \in Topics
      BY MessageShape, PisteShape
    <2> QED BY <1>2, <2>1, MessagePublished DEF ViewerNext
  <1>3. PublishesWill => [ViewerNext]_viewerVars
    <2>1. Offline.type = "connection"
      BY DEF Offline
    <2> QED BY <1>1, <1>2, <2>1, WillIsMessage DEF PublishesWill
  <1>4. CASE ApparatusSteps
    BY <1>1, <1>4 DEF ApparatusSteps
  <1>5. CASE BrokerPublishes
    <2>1. PICK s \in SessionIds :
              Silent \/ PublishesWill
                 \/ (ReceiveMessage(s) /\ Publishes(Head(session[s].stream)))
      BY <1>5 DEF BrokerPublishes
    <2>2. ReceiveMessage(s) => Head(session[s].stream) \in Message
      BY StreamOfMessages DEF ReceiveMessage
    <2> QED BY <1>1, <1>2, <1>3, <2>1, <2>2
  <1>6. CASE SoftwareCorrects
    <2>1. SoftwareScore \in Topics /\ kept' = [kept EXCEPT ![SoftwareScore] = "0-1"]
             /\ Relays(SoftwareScore, "0-1")
      BY <1>6 DEF SoftwareCorrects
    <2>2. kept'[SoftwareScore] = "0-1" /\ "0-1" \in Contents[SoftwareScore[2]]
      BY <2>1, PisteShape DEF ShapeInv
    <2> QED BY <2>1, <2>2 DEF ViewerNext, Published
  <1>7. CASE ViewerSteps
    BY <1>7 DEF ViewerSteps, ViewerNext
  <1>8. CASE UNCHANGED systemVars
    BY <1>8 DEF systemVars, viewerVars
  <1> QED BY <1>4, <1>5, <1>6, <1>7, <1>8 DEF SystemNext

LEMMA SystemIsSafe == SystemSpec => [](SafeInv /\ ShapeInv)
  <1>1. SystemInit => ShapeInv
    BY ShapeStart DEF SystemInit
  <1>2. SafeInv /\ ShapeInv /\ [SystemNext]_systemVars => ShapeInv'
    BY ViewerPart, ShapeStep
  <1> QED BY <1>1, <1>2, SystemIsApparatus, SafeAlways, PTL DEF SystemSpec

LEMMA SystemIsViewer == SystemSpec => ViewerSpec
  <1>1. SystemInit => kept = [topic \in Topics |-> NoValue] /\ ViewerInit
    BY DEF SystemInit
  <1>2. SafeInv /\ ShapeInv /\ [SystemNext]_systemVars => [ViewerNext]_viewerVars
    BY ViewerPart
  <1> QED BY <1>1, <1>2, SystemIsSafe, PTL DEF SystemSpec, ViewerSpec, viewerVars

(* With the Linux apparatus and the software writing, the mirror still     *)
(* follows the topics in order, through every loss of either connection.   *)
THEOREM SystemFollows == SystemSpec => MirrorFollows
  BY SystemIsViewer, KeepsPromise

(* ... and a subscriber that is up to date shows what is retained.         *)
THEOREM SystemSettles == SystemSpec => []SettledMirror
  BY SystemIsViewer, Settles
-----------------------------------------------------------------------------
(* The broker has one memory: retained is its part that the apparatus      *)
(* writes, kept all of it.  The program is started once here.              *)
OneMemory == (\A t \in Watched : kept[Apparatus(t)] = retained[t]) /\ instance = 1

(* What is published to the subscriber is what is retained.                *)
LEMMA PublishesKeeps ==
    ASSUME ShapeInv, OneMemory, NEW m, m.type \in Watched, Publishes(m),
           retained' = Store(retained, {m})
    PROVE  \A t \in Watched : kept'[Apparatus(t)] = retained'[t]
  <1> TAKE t \in Watched
  <1>1. Apparatus(t) \in DOMAIN kept /\ Apparatus(m.type) \in DOMAIN kept
    BY PisteShape DEF ShapeInv
  <1>2. kept' = [kept EXCEPT ![Apparatus(m.type)] = m.value]
    BY DEF Publishes
  <1>3. CASE t = m.type
    <2>1. retained'[t] = m.value
      BY <1>3 DEF Store
    <2> QED BY <1>1, <1>2, <1>3, <2>1
  <1>4. CASE t # m.type
    <2>1. Apparatus(t) # Apparatus(m.type)
      BY <1>4, PisteShape
    <2>2. retained'[t] = retained[t]
      BY <1>4 DEF Store
    <2> QED BY <1>1, <1>2, <2>1, <2>2 DEF OneMemory
  <1> QED BY <1>3, <1>4

LEMMA WillKeeps ==
    ASSUME SafeInv, ShapeInv, OneMemory, PublishesWill, retained' = Store(retained, LastWill)
    PROVE  \A t \in Watched : kept'[Apparatus(t)] = retained'[t]
  <1>1. CASE Offline.type \in Watched
    BY <1>1, PublishesKeeps DEF PublishesWill, LastWill
  <1>2. CASE Offline.type \notin Watched
    <2>1. \A t \in Watched : retained'[t] = retained[t]
      BY <1>2 DEF Store, LastWill
    <2> QED BY <1>2, <2>1 DEF PublishesWill, Silent, OneMemory
  <1> QED BY <1>1, <1>2

LEMMA MemoryStep ==
    ASSUME SafeInv, ShapeInv, OneMemory, [SystemNext]_systemVars PROVE OneMemory'
  <1>1. CASE ApparatusSteps
    <2>1. UNCHANGED <<kept, retained, instance>>
      BY <1>1 DEF ApparatusSteps, Silent, Main, MainConnects, ConnectFails, MainPublishes,
                  LoopTurn, LoopEnds, MainExits, Network, Reconnects, IsConnected,
                  IsAcknowledged, ConnectionEnds, Killed, ConnectionDrops, OpenLink, Publish,
                  ReceiveConnack, ReceivePuback, LinkDrops, LinkFoundDead, ProcessEnds,
                  LoseLink, mqttVars, mainVars
    <2> QED BY <2>1 DEF OneMemory
  <1>2. CASE BrokerPublishes
    <2>1. instance' = 1
      BY <1>2 DEF BrokerPublishes, mainVars, OneMemory
    <2>2. PICK s \in SessionIds :
              \/ AcceptConnect(s) /\ IF TakenOver(s) = {} THEN Silent ELSE PublishesWill
              \/ ReceiveMessage(s) /\ Publishes(Head(session[s].stream))
              \/ EndSession(s) /\ PublishesWill
              \/ RequestLost(s) /\ Silent
      BY <1>2 DEF BrokerPublishes, KeepaliveExpires, Partition
    <2>3. CASE ReceiveMessage(s) /\ Publishes(Head(session[s].stream))
      <3>1. Head(session[s].stream).type \in Watched
        BY <2>3, StreamOfMessages, MessageShape DEF ReceiveMessage
      <3> QED BY <2>1, <2>3, <3>1, PublishesKeeps DEF ReceiveMessage, OneMemory
    <2>4. CASE Silent /\ retained' = retained
      BY <2>1, <2>4 DEF Silent, OneMemory
    <2>5. CASE PublishesWill /\ retained' = Store(retained, LastWill)
      BY <2>1, <2>5, WillKeeps DEF OneMemory
    <2> QED BY <2>2, <2>3, <2>4, <2>5 DEF AcceptConnect, EndSession, RequestLost
  <1>3. CASE SoftwareCorrects
    <2>1. UNCHANGED <<retained, instance>> /\ kept' = [kept EXCEPT ![SoftwareScore] = "0-1"]
      BY <1>3 DEF SoftwareCorrects, vars
    <2>2. \A t \in Watched : Apparatus(t) # SoftwareScore
      BY PisteShape
    <2> QED BY <2>1, <2>2 DEF OneMemory
  <1>4. CASE ViewerSteps \/ UNCHANGED systemVars
    BY <1>4 DEF ViewerSteps, systemVars, vars, OneMemory
  <1> QED BY <1>1, <1>2, <1>3, <1>4 DEF SystemNext

LEMMA MemoryAlways == SystemSpec => []OneMemory
  <1>1. SystemInit => OneMemory
    BY PisteShape, SystemAssumption DEF SystemInit, Init, LinkInit, OneMemory
  <1> QED BY <1>1, MemoryStep, SystemIsSafe, PTL DEF SystemSpec

(* Every part keeps its types and its bounds, and the two memories of the  *)
(* model's broker are one.                                                 *)
THEOREM SystemTyped == SystemSpec => []SystemTypeOK
  <1>1. SafeInv /\ OneMemory /\ ViewerTypeOK => SystemTypeOK
    BY DEF SafeInv, OneMemory, SystemTypeOK
  <1> QED BY <1>1, SystemIsSafe, SystemIsViewer, ViewerTyped, MemoryAlways, PTL

(* The end of the bout is final in the whole system, as for its apparatus. *)
THEOREM SystemHaltFinal == SystemSpec => []HaltIsFinal
  BY SystemIsApparatus, LastWordsAlways, HaltHolds, PTL

(* Nor is it undone on a screen: after the halt no subscriber that is up   *)
(* to date shows FENCING or lit lights, with Linux's subscription that     *)
(* acknowledges every message.  (With QoS 0 a message may not be sent.)    *)
THEOREM ViewersSee ==
    ASSUME SubscribedQos # 0 PROVE SystemSpec => []ViewersSeeHalt
  <1>1. ASSUME HaltIsFinal, OneMemory, SettledMirror, ViewerTypeOK,
               halted, UpToDate, \A t \in Watched : Settled(t), NEW t \in Watched
        PROVE  mirror[t] \notin {"FENCING", "on"}
    <2>1. t \in Types /\ t \in DOMAIN Values /\ Apparatus(t) \in Topics
      BY PisteShape
    <2>2. CASE t \in {"state", "lights"}
      <3>1. \A topic \in TopicsOf(t) : topic = Apparatus(t) /\ ~ Lossy(topic)
        <4>1. \A topic \in TopicsOf(t) : topic[2] = t /\ topic \in Topics
          BY DEF TopicsOf
        <4>2. Qos[t] = 1
          BY <2>2 DEF Qos, MessageTypes
        <4> QED BY <2>2, <4>1, <4>2, PisteShape DEF Lossy
      <3>2. mirror[t] = kept[Apparatus(t)] \/ mirror[t] = Default[t]
        BY <1>1, <2>1, <3>1 DEF SettledMirror
      <3>3. kept[Apparatus(t)] \notin {"FENCING", "on"}
        BY <1>1 DEF HaltIsFinal, OneMemory
      <3>4. Default[t] \notin {"FENCING", "on"}
        BY <2>1, <2>2 DEF Default, FieldInitial
      <3> QED BY <3>2, <3>3, <3>4
    <2>3. CASE t \notin {"state", "lights"}
      <3>1. mirror[t] \in PisteContents[t]
        BY <1>1, <2>1, SystemAssumption DEF ViewerTypeOK
      <3>2. PisteContents[t] \cap {"FENCING", "on"} = {}
        BY <2>1, <2>3 DEF PisteContents, Values
      <3> QED BY <3>1, <3>2
    <2> QED BY <2>2, <2>3
  <1>2. HaltIsFinal /\ OneMemory /\ SettledMirror /\ ViewerTypeOK => ViewersSeeHalt
    BY <1>1 DEF ViewersSeeHalt
  <1> QED BY <1>2, SystemHaltFinal, MemoryAlways, SystemSettles, SystemIsViewer, ViewerTyped, PTL
=============================================================================
