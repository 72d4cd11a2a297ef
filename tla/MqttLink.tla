------------------------------ MODULE MqttLink -------------------------------
(***************************************************************************)
(* What the apparatus examples rely on between publish() and the broker's  *)
(* retained messages: one MQTT client, its client library, its successive  *)
(* connections and the broker.  None of this is code of the repository; it *)
(* is modelled from what mosquitto and PubSubClient are asked to do there, *)
(* and from MQTT 3.1.1.                                                    *)
(*                                                                         *)
(* A connection is a session of the broker and the messages on their way   *)
(* to it.  The two ends need not agree: the client may have given up a     *)
(* connection that the broker keeps until its keep-alive expires, and the  *)
(* reverse.  Sessions are numbered in the order they are opened.           *)
(***************************************************************************)
EXTENDS OPP2Types, Integers, Sequences, FiniteSets

CONSTANTS Will,          \* the set of the will's message, or {}
          Resends,       \* does the library keep QoS 1 messages until acknowledged?
          Watched,       \* the message types whose traffic is followed
          MaxSessions    \* bound: connections opened in a behaviour

VARIABLES used,          \* the number of connections opened
          session,       \* the broker's end of each
          link,          \* the client's current connection, 0 when it has none
          connected,     \* has its CONNACK arrived?
          pending,       \* QoS 1 messages the library holds, oldest first
          retained       \* the broker's retained message of each topic

linkVars == <<used, session, link, connected, pending, retained>>

SessionIds == 1 .. MaxSessions

NotSet == "nothing"      \* no retained message

Msg(t, v) == [type |-> t, value |-> v]

(* A message is followed if it is of a watched type. *)
Followed(m) == IF m.type \in Watched THEN <<m>> ELSE <<>>

(* The messages of a sequence whose arrival is acknowledged. *)
Acknowledged(msgs) == {i \in DOMAIN msgs : Qos[msgs[i].type] = 1}

Unused == [phase |-> "unused", client |-> 0, stream |-> <<>>]

LinkInit ==
    /\ used = 0
    /\ session = [s \in SessionIds |-> Unused]
    /\ link = 0
    /\ connected = FALSE
    /\ pending = <<>>
    /\ retained = [t \in Watched |-> NotSet]

LinkTypeOK(Message) ==
    /\ used \in 0 .. MaxSessions
    /\ session \in [SessionIds -> [phase  : {"unused", "requested", "open", "closed"},
                                    client : Nat,
                                    stream : Seq(Message)]]
    /\ \A s \in SessionIds : session[s].phase = "unused" <=> s > used
    /\ link \in 0 .. used
    /\ connected \in BOOLEAN
    /\ connected => link # 0
    /\ pending \in Seq(Message)
    /\ DOMAIN retained = Watched
    /\ \A t \in Watched : retained[t] = NotSet \/ Msg(t, retained[t]) \in Message
-----------------------------------------------------------------------------
(* The client.                                                             *)

(* It opens a connection and sends CONNECT with this client id. *)
OpenLink(client) ==
    /\ link = 0
    /\ used < MaxSessions
    /\ used' = used + 1
    /\ link' = used + 1
    /\ session' = [session EXCEPT ![used + 1] =
                      [phase |-> "requested", client |-> client, stream |-> <<>>]]
    /\ UNCHANGED <<connected, pending, retained>>

(* publish(): on a connection the message is sent; without one a QoS 1     *)
(* message waits if the library keeps it, any other is lost.               *)
Publish(m) ==
    /\ session' = IF connected
                  THEN [session EXCEPT ![link].stream = Append(@, m)]
                  ELSE session
    /\ pending' = IF Resends /\ Qos[m.type] = 1 THEN Append(pending, m) ELSE pending
    /\ UNCHANGED <<used, link, connected, retained>>

(* CONNACK arrives and the application's handler publishes messages, all   *)
(* of QoS 1.  The library sends what it still holds after the handler or   *)
(* before it.                                                              *)
ReceiveConnack(messages) ==
    /\ link # 0
    /\ ~ connected
    /\ session[link].phase = "open"
    /\ connected' = TRUE
    /\ \E all \in {messages \o pending, pending \o messages} :
          /\ session' = [session EXCEPT ![link].stream = all]
          /\ pending' = IF Resends THEN all ELSE pending
    /\ UNCHANGED <<used, link, retained>>

(* A PUBACK arrives: the oldest message held has reached the broker, as    *)
(* more are held than are on their way.  (One that a broker has sent       *)
(* before it ended the session may as well have arrived before that.)      *)
ReceivePuback ==
    /\ connected
    /\ session[link].phase = "open"
    /\ Len(pending) > Cardinality(Acknowledged(session[link].stream))
    /\ pending' = Tail(pending)
    /\ UNCHANGED <<used, session, link, connected, retained>>

(* The client loses its connection: what it has sent may still arrive, up  *)
(* to some message.                                                        *)
LoseLink ==
    /\ link # 0
    /\ link' = 0
    /\ connected' = FALSE
    /\ \E n \in 0 .. Len(session[link].stream) :
          session' = [session EXCEPT ![link].stream = SubSeq(@, 1, n)]
    /\ UNCHANGED <<used, retained>>

(* ... by a fault, after which it can connect again. *)
LinkDrops ==
    /\ used < MaxSessions
    /\ LoseLink
    /\ UNCHANGED pending

(* ... because it finds that the broker has ended the session.             *)
LinkFoundDead ==
    /\ link # 0
    /\ session[link].phase = "closed"
    /\ LoseLink
    /\ UNCHANGED pending

(* ... because the process ends without a DISCONNECT.                      *)
ProcessEnds ==
    /\ pending' = <<>>
    /\ IF link # 0 THEN LoseLink
                   ELSE UNCHANGED <<used, session, link, connected, retained>>
-----------------------------------------------------------------------------
(* The broker.                                                             *)

Store(r, msgs) ==
    [t \in Watched |-> IF \E m \in msgs : m.type = t
                       THEN (CHOOSE m \in msgs : m.type = t).value
                       ELSE r[t]]

(* The sessions that a connection with the same client id ends. *)
TakenOver(s) == {o \in SessionIds : /\ session[o].phase = "open"
                                    /\ session[o].client = session[s].client}

(* It accepts a connection: another one with the same client id ends, and  *)
(* as that one sent no DISCONNECT its will is published.                   *)
AcceptConnect(s) ==
    /\ session[s].phase = "requested"
    /\ session' = [o \in SessionIds |->
                      IF o = s THEN [session[o] EXCEPT !.phase = "open"]
                      ELSE IF o \in TakenOver(s)
                      THEN [session[o] EXCEPT !.phase = "closed", !.stream = <<>>]
                      ELSE session[o]]
    /\ retained' = IF TakenOver(s) # {} THEN Store(retained, Will) ELSE retained
    /\ UNCHANGED <<used, link, connected, pending>>

(* A message arrives; all those followed are published with retain set.    *)
ReceiveMessage(s) ==
    /\ session[s].phase = "open"
    /\ session[s].stream # <<>>
    /\ retained' = Store(retained, {Head(session[s].stream)})
    /\ session' = [session EXCEPT ![s].stream = Tail(@)]
    /\ UNCHANGED <<used, link, connected, pending>>

(* It gives up a session, and publishes the will.                          *)
EndSession(s) ==
    /\ session[s].phase = "open"
    /\ session' = [session EXCEPT ![s].phase = "closed", ![s].stream = <<>>]
    /\ retained' = Store(retained, Will)
    /\ UNCHANGED <<used, link, connected, pending>>

(* ... because the client is gone, when the keep-alive has expired.        *)
KeepaliveExpires(s) == link # s /\ EndSession(s)

(* ... that the client still holds to be connected: a network fault.       *)
Partition(s) == link = s /\ used < MaxSessions /\ EndSession(s)

(* A request the client has given up never reaches the broker.             *)
RequestLost(s) ==
    /\ session[s].phase = "requested"
    /\ link # s
    /\ session' = [session EXCEPT ![s].phase = "closed", ![s].stream = <<>>]
    /\ UNCHANGED <<used, link, connected, pending, retained>>

BrokerStep ==
    \E s \in SessionIds :
        \/ AcceptConnect(s)
        \/ ReceiveMessage(s)
        \/ KeepaliveExpires(s)
        \/ Partition(s)
        \/ RequestLost(s)

(* The broker works, and finds out about dead connections, KEEPALIVE.      *)
BrokerFairness ==
    \A s \in SessionIds :
        /\ WF_linkVars(AcceptConnect(s))
        /\ WF_linkVars(ReceiveMessage(s))
        /\ WF_linkVars(KeepaliveExpires(s))
=============================================================================
