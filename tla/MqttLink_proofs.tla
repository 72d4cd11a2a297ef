--------------------------- MODULE MqttLink_proofs ---------------------------
(***************************************************************************)
(* What every step of a client and its broker preserves, whatever program  *)
(* uses the link: the types, and which sessions may be open together.      *)
(***************************************************************************)
EXTENDS MqttLink, SequenceTheorems, FiniteSetTheorems, TLAPS

(* What the program and the broker may do with the link: the client ids it *)
(* uses are numbers, and it publishes messages.                            *)
LinkStep(Message) ==
    \/ \E client \in Nat : OpenLink(client)
    \/ \E m \in Message : Publish(m)
    \/ \E messages \in Seq(Message) : ReceiveConnack(messages)
    \/ ReceivePuback
    \/ LinkDrops
    \/ LinkFoundDead
    \/ ProcessEnds
    \/ BrokerStep
    \/ UNCHANGED linkVars

LinkAssumption(Message) ==
    /\ MaxSessions \in Nat
    /\ \A m \in Will : m = Msg(m.type, m.value)
    /\ \A m \in Will : m.type \in Watched => m \in Message
    /\ \A m \in Message : m = Msg(m.type, m.value)

(* The client is only connected to a session it opened and the broker      *)
(* accepted; of the sessions of one client id, the broker keeps one.       *)
SessionInv ==
    /\ connected => session[link].phase \in {"open", "closed"}
    /\ \A s, o \in SessionIds :
          /\ session[s].phase = "open"
          /\ session[o].phase = "open"
          /\ session[s].client = session[o].client
          => s = o

Session(Message) == [phase  : {"unused", "requested", "open", "closed"},
                     client : Nat,
                     stream : Seq(Message)]
-----------------------------------------------------------------------------
(* The number of messages that await an acknowledgement is a number.       *)
LEMMA AcknowledgedCount ==
    ASSUME NEW S, NEW q \in Seq(S)
    PROVE  Cardinality(Acknowledged(q)) \in Nat
  <1>1. DOMAIN q = 1 .. Len(q) /\ Len(q) \in Nat
    OBVIOUS
  <1>2. IsFiniteSet(1 .. Len(q))
    BY <1>1, FS_Interval
  <1>3. Acknowledged(q) \subseteq 1 .. Len(q)
    BY <1>1 DEF Acknowledged
  <1> QED BY <1>2, <1>3, FS_Subset, FS_CardinalityType

(* The broker retains messages.                                            *)
RetainedOK(Message, r) ==
    /\ DOMAIN r = Watched
    /\ \A t \in Watched : r[t] = NotSet \/ Msg(t, r[t]) \in Message

LEMMA StoreType ==
    ASSUME NEW Message, NEW msgs, NEW r, RetainedOK(Message, r),
           \A m \in Message : m = Msg(m.type, m.value),
           \A m \in msgs : m.type \in Watched => m \in Message
    PROVE  RetainedOK(Message, Store(r, msgs))
  <1>1. DOMAIN Store(r, msgs) = Watched
    BY DEF Store
  <1>2. ASSUME NEW t \in Watched
        PROVE  Store(r, msgs)[t] = NotSet \/ Msg(t, Store(r, msgs)[t]) \in Message
    <2>1. CASE \E m \in msgs : m.type = t
      <3> DEFINE n == CHOOSE m \in msgs : m.type = t
      <3>1. n \in msgs /\ n.type = t
        BY <2>1
      <3>2. n \in Message /\ n = Msg(t, n.value)
        BY <3>1
      <3>3. Store(r, msgs)[t] = n.value
        BY <2>1 DEF Store
      <3> QED BY <3>2, <3>3
    <2>2. CASE ~ \E m \in msgs : m.type = t
      BY <2>2 DEF Store, RetainedOK
    <2> QED BY <2>1, <2>2
  <1> QED BY <1>1, <1>2 DEF RetainedOK
-----------------------------------------------------------------------------
(* Types: the client's steps, then the broker's.                           *)
LEMMA OpenLinkType ==
    ASSUME NEW Message, LinkAssumption(Message), LinkTypeOK(Message),
           NEW client \in Nat, OpenLink(client)
    PROVE  LinkTypeOK(Message)'
  <1>1. used + 1 \in SessionIds /\ used \in Nat
    BY DEF OpenLink, LinkTypeOK, LinkAssumption, SessionIds
  <1>2. [phase |-> "requested", client |-> client, stream |-> <<>>] \in Session(Message)
    BY DEF Session
  <1>3. session' \in [SessionIds -> Session(Message)]
    BY <1>1, <1>2 DEF OpenLink, LinkTypeOK, Session
  <1>4. ASSUME NEW s \in SessionIds PROVE session'[s].phase = "unused" <=> s > used'
    <2>1. s \in Int /\ (session[s].phase = "unused" <=> s > used)
      BY DEF LinkTypeOK, SessionIds
    <2>2. CASE s = used + 1
      BY <1>1, <2>1, <2>2 DEF OpenLink, LinkTypeOK
    <2>3. CASE s # used + 1
      <3>1. session'[s] = session[s] /\ used' = used + 1
        BY <2>3 DEF OpenLink, LinkTypeOK
      <3> QED BY <1>1, <2>1, <2>3, <3>1
    <2> QED BY <2>2, <2>3
  <1> QED BY <1>1, <1>3, <1>4 DEF OpenLink, LinkTypeOK, LinkAssumption, Session

LEMMA PublishType ==
    ASSUME NEW Message, LinkAssumption(Message), LinkTypeOK(Message),
           NEW m \in Message, Publish(m)
    PROVE  LinkTypeOK(Message)'
  <1>1. pending' \in Seq(Message)
    BY DEF Publish, LinkTypeOK
  <1>2. CASE connected
    <2>1. link \in SessionIds
      BY <1>2 DEF LinkTypeOK, LinkAssumption, SessionIds
    <2>2. Append(session[link].stream, m) \in Seq(Message)
      BY <2>1 DEF LinkTypeOK
    <2>3. /\ session' \in [SessionIds -> Session(Message)]
          /\ \A s \in SessionIds : session'[s].phase = session[s].phase
      BY <1>2, <2>1, <2>2 DEF Publish, LinkTypeOK, Session
    <2> QED BY <1>1, <2>3 DEF Publish, LinkTypeOK, Session
  <1>3. CASE ~ connected
    BY <1>1, <1>3 DEF Publish, LinkTypeOK
  <1> QED BY <1>2, <1>3

LEMMA ConnackType ==
    ASSUME NEW Message, LinkAssumption(Message), LinkTypeOK(Message),
           NEW messages \in Seq(Message), ReceiveConnack(messages)
    PROVE  LinkTypeOK(Message)'
  <1>1. link \in SessionIds
    BY DEF ReceiveConnack, LinkTypeOK, LinkAssumption, SessionIds
  <1>2. PICK all \in {messages \o pending, pending \o messages} :
           /\ session' = [session EXCEPT ![link].stream = all]
           /\ pending' = IF Resends THEN all ELSE pending
    BY DEF ReceiveConnack
  <1>3. all \in Seq(Message)
    <2>1. pending \in Seq(Message)
      BY DEF LinkTypeOK
    <2>2. messages \o pending \in Seq(Message) /\ pending \o messages \in Seq(Message)
      BY <2>1, ConcatProperties
    <2> QED BY <1>2, <2>2
  <1>4. /\ session' \in [SessionIds -> Session(Message)]
        /\ \A s \in SessionIds : session'[s].phase = session[s].phase
    BY <1>1, <1>2, <1>3 DEF LinkTypeOK, Session
  <1> QED BY <1>2, <1>3, <1>4 DEF ReceiveConnack, LinkTypeOK, Session

LEMMA PubackType ==
    ASSUME NEW Message, LinkAssumption(Message), LinkTypeOK(Message), ReceivePuback
    PROVE  LinkTypeOK(Message)'
  <1>1. link \in SessionIds
    BY DEF ReceivePuback, LinkTypeOK, LinkAssumption, SessionIds
  <1>2. Cardinality(Acknowledged(session[link].stream)) \in Nat
    BY <1>1, AcknowledgedCount DEF LinkTypeOK
  <1>3. pending # <<>>
    BY <1>2 DEF ReceivePuback
  <1>4. pending' \in Seq(Message)
    BY <1>3 DEF ReceivePuback, LinkTypeOK
  <1> QED BY <1>4 DEF ReceivePuback, LinkTypeOK

LEMMA LoseLinkType ==
    ASSUME NEW Message, LinkAssumption(Message), LinkTypeOK(Message), LoseLink,
           pending' \in Seq(Message)
    PROVE  LinkTypeOK(Message)'
  <1>1. link \in SessionIds
    BY DEF LoseLink, LinkTypeOK, LinkAssumption, SessionIds
  <1>2. PICK n \in 0 .. Len(session[link].stream) :
           session' = [session EXCEPT ![link].stream = SubSeq(@, 1, n)]
    BY DEF LoseLink
  <1>3. session[link].stream \in Seq(Message)
    BY <1>1 DEF LinkTypeOK
  <1>4. SubSeq(session[link].stream, 1, n) \in Seq(Message)
    BY <1>2, <1>3, SubSeqProperties
  <1>5. /\ session' \in [SessionIds -> Session(Message)]
        /\ \A s \in SessionIds : session'[s].phase = session[s].phase
    BY <1>1, <1>2, <1>4 DEF LinkTypeOK, Session
  <1>6. UNCHANGED <<used, retained>> /\ link' = 0 /\ connected' = FALSE
    BY DEF LoseLink
  <1>7. used \in 0 .. MaxSessions /\ 0 \in 0 .. used
    BY DEF LinkTypeOK, LinkAssumption
  <1> QED BY <1>5, <1>6, <1>7 DEF LinkTypeOK, Session

LEMMA AcceptType ==
    ASSUME NEW Message, LinkAssumption(Message), LinkTypeOK(Message),
           NEW s \in SessionIds, AcceptConnect(s)
    PROVE  LinkTypeOK(Message)'
  <1>1. \A o \in SessionIds : session[o] \in Session(Message)
    BY DEF LinkTypeOK, Session
  <1>2. <<>> \in Seq(Message)
    OBVIOUS
  <1>3. ASSUME NEW o \in SessionIds
        PROVE  /\ session'[o] \in Session(Message)
               /\ session'[o].phase = "unused" <=> session[o].phase = "unused"
    <2>1. CASE o = s
      BY <1>1, <2>1 DEF AcceptConnect, Session
    <2>2. CASE o # s /\ o \in TakenOver(s)
      BY <1>1, <1>2, <2>2 DEF AcceptConnect, TakenOver, Session
    <2>3. CASE o # s /\ o \notin TakenOver(s)
      BY <1>1, <2>3 DEF AcceptConnect
    <2> QED BY <2>1, <2>2, <2>3
  <1>4. session' = [o \in SessionIds |-> session'[o]]
    BY DEF AcceptConnect
  <1>5. session' \in [SessionIds -> Session(Message)]
    BY <1>3, <1>4
  <1>6. RetainedOK(Message, retained')
    <2>1. retained' = Store(retained, Will) \/ retained' = retained
      BY DEF AcceptConnect
    <2>2. RetainedOK(Message, retained)
      BY DEF LinkTypeOK, RetainedOK
    <2> QED BY <2>1, <2>2, StoreType DEF LinkAssumption
  <1> QED BY <1>3, <1>5, <1>6 DEF AcceptConnect, LinkTypeOK, Session, RetainedOK

LEMMA MessageType ==
    ASSUME NEW Message, LinkAssumption(Message), LinkTypeOK(Message),
           NEW s \in SessionIds, ReceiveMessage(s)
    PROVE  LinkTypeOK(Message)'
  <1> DEFINE q == session[s].stream
  <1>1. q \in Seq(Message) /\ q # <<>>
    BY DEF ReceiveMessage, LinkTypeOK
  <1>2. Head(q) \in Message /\ Tail(q) \in Seq(Message)
    BY <1>1
  <1>3. /\ session' \in [SessionIds -> Session(Message)]
        /\ \A o \in SessionIds : session'[o].phase = session[o].phase
    BY <1>2 DEF ReceiveMessage, LinkTypeOK, Session
  <1>4. RetainedOK(Message, retained')
    <2>1. RetainedOK(Message, retained)
      BY DEF LinkTypeOK, RetainedOK
    <2>2. retained' = Store(retained, {Head(q)})
      BY DEF ReceiveMessage
    <2> QED BY <1>2, <2>1, <2>2, StoreType DEF LinkAssumption
  <1> QED BY <1>3, <1>4 DEF ReceiveMessage, LinkTypeOK, Session, RetainedOK

LEMMA EndSessionType ==
    ASSUME NEW Message, LinkAssumption(Message), LinkTypeOK(Message),
           NEW s \in SessionIds, EndSession(s) \/ RequestLost(s)
    PROVE  LinkTypeOK(Message)'
  <1>1. <<>> \in Seq(Message)
    OBVIOUS
  <1>2. session' = [session EXCEPT ![s].phase = "closed", ![s].stream = <<>>]
    BY DEF EndSession, RequestLost
  <1>3. session[s].phase # "unused"
    BY DEF EndSession, RequestLost
  <1>4. /\ session' \in [SessionIds -> Session(Message)]
        /\ \A o \in SessionIds :
              session'[o].phase = "unused" <=> session[o].phase = "unused"
    BY <1>1, <1>2, <1>3 DEF LinkTypeOK, Session
  <1>5. RetainedOK(Message, retained')
    <2>1. retained' = Store(retained, Will) \/ retained' = retained
      BY DEF EndSession, RequestLost
    <2>2. RetainedOK(Message, retained)
      BY DEF LinkTypeOK, RetainedOK
    <2> QED BY <2>1, <2>2, StoreType DEF LinkAssumption
  <1> QED BY <1>4, <1>5 DEF EndSession, RequestLost, LinkTypeOK, Session, RetainedOK

(* The link starts well typed, and every use of it leaves it so.           *)
LEMMA LinkStartType ==
    ASSUME NEW Message, LinkAssumption(Message), LinkInit
    PROVE  LinkTypeOK(Message)
  <1>1. <<>> \in Seq(Message)
    OBVIOUS
  <1>2. \A s \in SessionIds : s \in Int /\ s > 0
    BY DEF SessionIds, LinkAssumption
  <1>3. Unused \in Session(Message) /\ Unused.phase = "unused"
    BY <1>1 DEF Unused, Session
  <1>4. session \in [SessionIds -> Session(Message)]
    BY <1>3 DEF LinkInit
  <1>5. \A s \in SessionIds : session[s].phase = "unused" <=> s > used
    BY <1>2, <1>3 DEF LinkInit
  <1>6. used \in 0 .. MaxSessions /\ link \in 0 .. used /\ pending \in Seq(Message)
    BY <1>1 DEF LinkInit, LinkAssumption
  <1> QED BY <1>4, <1>5, <1>6 DEF LinkInit, LinkTypeOK, Session

LEMMA LinkStepType ==
    ASSUME NEW Message, LinkAssumption(Message), LinkTypeOK(Message), LinkStep(Message)
    PROVE  LinkTypeOK(Message)'
  <1>1. CASE LinkDrops
    BY <1>1, LoseLinkType DEF LinkDrops, LinkTypeOK
  <1>2. CASE LinkFoundDead
    BY <1>2, LoseLinkType DEF LinkFoundDead, LinkTypeOK
  <1>3. CASE ProcessEnds
    <2>1. pending' \in Seq(Message)
      BY <1>3 DEF ProcessEnds
    <2>2. CASE link # 0
      BY <1>3, <2>1, <2>2, LoseLinkType DEF ProcessEnds
    <2>3. CASE link = 0
      BY <1>3, <2>1, <2>3 DEF ProcessEnds, LinkTypeOK
    <2> QED BY <2>2, <2>3
  <1>4. CASE BrokerStep
    BY <1>4, AcceptType, MessageType, EndSessionType DEF BrokerStep, KeepaliveExpires, Partition
  <1>5. CASE UNCHANGED linkVars
    BY <1>5 DEF linkVars, LinkTypeOK
  <1> QED BY <1>1, <1>2, <1>3, <1>4, <1>5, OpenLinkType, PublishType, ConnackType, PubackType
          DEF LinkStep
-----------------------------------------------------------------------------
(* Sessions.                                                               *)

LEMMA LinkStartSessions ==
    ASSUME LinkInit PROVE SessionInv
  BY DEF LinkInit, Unused, SessionInv

(* A new session of a client id ends the one there was; no other step      *)
(* opens one.                                                              *)
LEMMA LinkStepSessions ==
    ASSUME NEW Message, LinkAssumption(Message), LinkTypeOK(Message), LinkStep(Message),
           SessionInv
    PROVE  SessionInv'
  <1> DEFINE Kept(s) == session'[s].phase = session[s].phase /\ session'[s].client = session[s].client
             Closed(s) == session'[s].phase \in {"requested", "closed"}
  <1>1. link # 0 => link \in SessionIds
    BY DEF LinkTypeOK, LinkAssumption, SessionIds
  <1>2. ASSUME \A s \in SessionIds : Kept(s) \/ Closed(s),
               connected' => session'[link'].phase \in {"open", "closed"}
        PROVE  SessionInv'
    BY <1>2 DEF SessionInv
  <1>3. ASSUME NEW client \in Nat, OpenLink(client) PROVE SessionInv'
    <2>1. ~ connected'
      BY <1>3 DEF OpenLink, LinkTypeOK
    <2>2. \A s \in SessionIds : Kept(s) \/ Closed(s)
      BY <1>3 DEF OpenLink, LinkTypeOK
    <2> QED BY <1>2, <2>1, <2>2
  <1>4. ASSUME NEW m \in Message, Publish(m) PROVE SessionInv'
    <2>1. \A s \in SessionIds : Kept(s)
      BY <1>4 DEF Publish, LinkTypeOK
    <2> QED BY <1>1, <1>2, <1>4, <2>1 DEF Publish, SessionInv, LinkTypeOK
  <1>5. ASSUME NEW messages \in Seq(Message), ReceiveConnack(messages) PROVE SessionInv'
    <2>1. \A s \in SessionIds : Kept(s)
      BY <1>5 DEF ReceiveConnack, LinkTypeOK
    <2> QED BY <1>1, <1>2, <1>5, <2>1 DEF ReceiveConnack
  <1>6. CASE ReceivePuback \/ UNCHANGED linkVars
    BY <1>6 DEF ReceivePuback, linkVars, SessionInv
  <1>7. CASE LinkDrops \/ LinkFoundDead \/ ProcessEnds
    <2>1. CASE LoseLink
      <3>1. ~ connected' /\ \A s \in SessionIds : Kept(s)
        BY <2>1 DEF LoseLink, LinkTypeOK
      <3> QED BY <1>2, <3>1
    <2>2. CASE UNCHANGED <<used, session, link, connected, retained>>
      BY <2>2 DEF SessionInv
    <2> QED BY <1>7, <2>1, <2>2 DEF LinkDrops, LinkFoundDead, ProcessEnds
  <1>8. ASSUME NEW s \in SessionIds, AcceptConnect(s) PROVE SessionInv'
    <2>1. /\ session'[s].phase = "open" /\ session'[s].client = session[s].client
          /\ \A o \in SessionIds \ {s} :
                IF o \in TakenOver(s) THEN session'[o].phase = "closed" ELSE Kept(o)
          /\ \A o \in SessionIds \ {s} :
                session'[o].phase = "open" => session'[o].client # session'[s].client
      BY <1>8 DEF AcceptConnect, TakenOver, LinkTypeOK
    <2>2. connected' => session'[link'].phase \in {"open", "closed"}
      BY <1>1, <1>8, <2>1 DEF AcceptConnect, SessionInv, LinkTypeOK
    <2>3. ASSUME NEW o \in SessionIds, NEW p \in SessionIds,
                 session'[o].phase = "open", session'[p].phase = "open",
                 session'[o].client = session'[p].client
          PROVE  o = p
      BY <2>1, <2>3 DEF SessionInv
    <2> QED BY <2>2, <2>3 DEF SessionInv
  <1>9. ASSUME NEW s \in SessionIds, EndSession(s) \/ RequestLost(s) \/ ReceiveMessage(s)
        PROVE  SessionInv'
    <2>1. \A o \in SessionIds : Kept(o) \/ session'[o].phase = "closed"
      <3>1. /\ session'[s].phase = "closed" \/ Kept(s)
            /\ \A o \in SessionIds \ {s} : session'[o] = session[o]
        BY <1>9 DEF EndSession, RequestLost, ReceiveMessage, LinkTypeOK
      <3> QED BY <3>1
    <2>2. UNCHANGED <<link, connected>>
      BY <1>9 DEF EndSession, RequestLost, ReceiveMessage
    <2> QED BY <1>1, <1>2, <2>1, <2>2 DEF SessionInv, LinkTypeOK
  <1> QED BY <1>3, <1>4, <1>5, <1>6, <1>7, <1>8, <1>9
          DEF LinkStep, BrokerStep, KeepaliveExpires, Partition
=============================================================================
