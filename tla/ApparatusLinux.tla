--------------------------- MODULE ApparatusLinux ----------------------------
(***************************************************************************)
(* The Linux apparatus of examples/linux/apparatus_basic/main.cpp and its  *)
(* connection to the broker.  Two threads: main() simulates a bout and     *)
(* publishes, the library's network thread connects, reconnects and runs   *)
(* onConnect.  A publish, and the handler onConnect as a whole, are one    *)
(* step each; the static buffers the two threads share are not modelled    *)
(* here.  Time is counted in ticks of the period of the clock message.     *)
(***************************************************************************)
EXTENDS OPP2Types, Integers, Sequences, FiniteSets

CONSTANTS Watched,        \* the message types whose traffic is followed
          TouchAt,        \* elapsed time of the touch
          HaltAt,         \* elapsed time of the halt
          Horizon,        \* bound: time at which the model's clock stops
          MaxInstances,   \* bound: how often the program is started
          MaxSessions     \* bound: connections opened in a behaviour

ASSUME ApparatusAssumption ==
    /\ Watched \subseteq MessageTypes
    /\ TouchAt \in Nat \ {0}
    /\ HaltAt \in Nat /\ HaltAt > TouchAt
    /\ Horizon \in Nat /\ Horizon >= HaltAt
    /\ MaxInstances \in Nat \ {0}
    /\ MaxSessions \in Nat \ {0}

VARIABLES used, session, link, connected, pending, retained,   \* of MqttLink
          pc,           \* where main() is
          instance,     \* which start of the program it is
          running,      \* the flag that onSignal clears
          now,          \* elapsed, in ticks
          lastClock,    \* when the clock was published last
          scored,
          halted,
          todo          \* the messages main() is about to publish, in order

(* Faulty variant: an announcement that no receiver knows.                 *)
OfflineMisspelt == [type |-> "connection", value |-> "bye"]

Offline == [type |-> "connection", value |-> "offline"]

(* Faulty variant: mosquitto_will_set() after mosquitto_connect().         *)
NoWill == {}

(* The will that is set before connecting: retained and offline.           *)
LastWill == {Offline}

(* mosquitto keeps QoS 1 messages until they are acknowledged.             *)
INSTANCE MqttLink WITH Will <- LastWill, Resends <- TRUE

mqttVars == <<used, session, link, connected, pending, retained>>
mainVars == <<pc, instance, running, now, lastClock, scored, halted, todo>>
vars == <<used, session, link, connected, pending, retained,
          pc, instance, running, now, lastClock, scored, halted, todo>>

(* The values that the apparatus publishes. *)
Values == [connection |-> {"online", "offline"},
           state      |-> {"WAITING", "FENCING", "HALT"},
           score      |-> {"0-0", "1-0"},
           lights     |-> {"on", "off"},
           clock      |-> {"running", "stopped"}]

(* The messages that are followed. *)
Message == UNION {{Msg(t, v) : v \in Values[t]} : t \in DOMAIN Values \cap Watched}

TypeOK ==
    /\ LinkTypeOK(Message)
    /\ pc \in {"start", "bout", "leaving", "exited"}
    /\ instance \in 1 .. MaxInstances
    /\ running \in BOOLEAN
    /\ now \in 0 .. Horizon
    /\ lastClock \in -1 .. Horizon
    /\ scored \in BOOLEAN /\ halted \in BOOLEAN
    /\ todo \in Seq(Message)

Init ==
    /\ LinkInit
    /\ pc = "start"
    /\ instance = 1
    /\ running = TRUE
    /\ now = 0
    /\ lastClock = -1
    /\ scored = FALSE
    /\ halted = FALSE
    /\ todo = <<>>
-----------------------------------------------------------------------------
(* The main thread.                                                        *)

(* Faulty variant: an id for every connection. *)
FreshClientId == used + 1

(* mosquitto_new() draws a client id once; every connection of the process *)
(* uses it.                                                                *)
ClientId == instance

(* mosquitto_connect() has sent CONNECT; main() waits a second, which may  *)
(* or may not be enough for the CONNACK, and begins the bout.              *)
MainConnects ==
    /\ pc = "start"
    /\ OpenLink(ClientId)
    /\ pc' = "bout"
    /\ todo' = Followed(Msg("state", "FENCING"))
    /\ UNCHANGED <<instance, running, now, lastClock, scored, halted>>

ConnectFails ==
    /\ pc = "start"
    /\ pc' = "exited"
    /\ UNCHANGED <<mqttVars, instance, running, now, lastClock, scored, halted, todo>>

(* opp2Publish() of the next message of the thread. *)
MainPublishes ==
    /\ todo # <<>>
    /\ Publish(Head(todo))
    /\ todo' = Tail(todo)
    /\ UNCHANGED <<pc, instance, running, now, lastClock, scored, halted>>

(* Faulty variant: the halt only in the second it is meant for.            *)
LoopTurnWindow(t) ==
    LET due   == t > lastClock
        halt  == ~ halted /\ t = HaltAt
    IN  /\ pc = "bout"
        /\ running
        /\ todo = <<>>
        /\ now' = t
        /\ lastClock' = IF due THEN t ELSE lastClock
        /\ scored' = (scored \/ t >= TouchAt)
        /\ halted' = (halted \/ halt)
        /\ running' = ~ halt
        /\ todo' = <<>>
        /\ UNCHANGED <<mqttVars, pc, instance>>

(* One turn of the loop at time t: the clock when it is due, the touch and *)
(* the halt once their time has come, however late the turn is.            *)
LoopTurn(t) ==
    LET due   == t > lastClock
        touch == ~ scored /\ t >= TouchAt
        halt  == ~ halted /\ t >= HaltAt
        If(c, msgs) == IF c THEN msgs ELSE <<>>
    IN  /\ pc = "bout"
        /\ running
        /\ todo = <<>>
        /\ now' = t
        /\ lastClock' = IF due THEN t ELSE lastClock
        /\ scored' = (scored \/ touch)
        /\ halted' = (halted \/ halt)
        /\ running' = ~ halt
        /\ todo' = If(due,   Followed(Msg("clock", "running")))
                \o If(touch, Followed(Msg("lights", "on")) \o Followed(Msg("score", "1-0")))
                \o If(halt,  Followed(Msg("lights", "off")) \o Followed(Msg("state", "HALT"))
                                 \o Followed(Msg("clock", "stopped")))
        /\ UNCHANGED <<mqttVars, pc, instance>>

(* The loop ends; after a second main() announces that it leaves. *)
LoopEnds ==
    /\ pc = "bout"
    /\ ~ running
    /\ todo = <<>>
    /\ pc' = "leaving"
    /\ todo' = Followed(Offline)
    /\ UNCHANGED <<mqttVars, instance, running, now, lastClock, scored, halted>>

(* After another second it stops the network thread and ends, with no     *)
(* DISCONNECT sent.                                                        *)
MainExits ==
    /\ pc = "leaving"
    /\ todo = <<>>
    /\ pc' = "exited"
    /\ ProcessEnds
    /\ UNCHANGED <<instance, running, now, lastClock, scored, halted, todo>>

(* onSignal. *)
Signal ==
    /\ pc # "exited"
    /\ running
    /\ running' = FALSE
    /\ UNCHANGED <<mqttVars, pc, instance, now, lastClock, scored, halted, todo>>

(* The process is killed, or its machine loses power. *)
Killed ==
    /\ pc # "exited"
    /\ pc' = "exited"
    /\ todo' = <<>>
    /\ ProcessEnds
    /\ UNCHANGED <<instance, running, now, lastClock, scored, halted>>

Restarted ==
    /\ pc = "exited"
    /\ instance < MaxInstances
    /\ pc' = "start"
    /\ instance' = instance + 1
    /\ running' = TRUE
    /\ now' = 0
    /\ lastClock' = -1
    /\ scored' = FALSE
    /\ halted' = FALSE
    /\ UNCHANGED <<mqttVars, todo>>
-----------------------------------------------------------------------------
(* The network thread.                                                     *)

NetworkRuns == pc \in {"bout", "leaving"}

(* Faulty variants: only the first connection is announced; a connection   *)
(* announces the bout as going on.                                         *)
OnConnectOnce == IF used = 1 THEN Followed(Msg("connection", "online")) ELSE <<>>

OnConnectFencing == Followed(Msg("connection", "online")) \o Followed(Msg("state", "FENCING"))
                       \o Followed(Msg("score", "0-0")) \o Followed(Msg("lights", "off"))

(* onConnect, on the first connection as on every later one. *)
OnConnect == Followed(Msg("connection", "online")) \o Followed(Msg("state", "WAITING"))
                \o Followed(Msg("score", "0-0")) \o Followed(Msg("lights", "off"))

Reconnects      == NetworkRuns /\ OpenLink(ClientId) /\ UNCHANGED mainVars
IsConnected     == NetworkRuns /\ ReceiveConnack(OnConnect) /\ UNCHANGED mainVars
IsAcknowledged  == NetworkRuns /\ ReceivePuback /\ UNCHANGED mainVars
ConnectionDrops == LinkDrops /\ UNCHANGED mainVars
ConnectionEnds  == LinkFoundDead /\ UNCHANGED mainVars

Main == \/ MainConnects \/ ConnectFails \/ MainPublishes \/ LoopEnds \/ MainExits
        \/ \E t \in now .. Horizon : LoopTurn(t)

Environment == \/ Signal \/ Killed \/ Restarted \/ ConnectionDrops
               \/ BrokerStep /\ UNCHANGED mainVars

Network == Reconnects \/ IsConnected \/ IsAcknowledged \/ ConnectionEnds

Next == Main \/ Network \/ Environment

(* The threads run, time passes and the broker works; faults need not      *)
(* happen.                                                                 *)
Fairness ==
    /\ WF_vars(\E t \in now + 1 .. Horizon : LoopTurn(t))
    /\ WF_vars(Reconnects)
    /\ WF_vars(IsConnected)
    /\ WF_vars(ConnectionEnds)
    /\ WF_vars(MainPublishes)
    /\ BrokerFairness

Spec == Init /\ [][Next]_vars /\ Fairness
-----------------------------------------------------------------------------
(* All that was sent about type t, and waits to be sent, has arrived.      *)
Settled(t) ==
    /\ connected
    /\ session[link].phase = "open"
    /\ \A i \in 1 .. Len(session[link].stream) : session[link].stream[i].type # t
    /\ \A i \in 1 .. Len(todo) : todo[i].type # t

(* "Indicates whether the apparatus is connected to the broker": once the  *)
(* announcement of the current connection has arrived, the retained        *)
(* status says online until the apparatus itself says otherwise.  No will  *)
(* of an earlier connection of the process can undo it, as they share the  *)
(* client id.  (A restarted program has another id: the will and the late  *)
(* messages of its predecessor can, as those in ApparatusEsp32.)           *)
PresentIsOnline ==
    pc = "bout" /\ Settled("connection") /\ instance = 1 =>
        retained["connection"] = "online"

(* The end of the bout is final: whatever was resent, and in whatever      *)
(* order it crossed the announcements of a new connection, the piste is    *)
(* not retained as fencing, or with its lights on, after the halt.  (After *)
(* a restart late messages of the bout before can do that.)                *)
HaltIsFinal ==
    halted /\ instance = 1 => \A t \in Watched : Settled(t) => retained[t] \notin {"FENCING", "on"}

(* "WAITING: no active bout": no piste is shown as waiting while its bout  *)
(* goes on.                                                                *)
NotWaitingInBout ==
    pc = "bout" /\ running /\ ~ halted /\ Settled("state") =>
        retained["state"] # "WAITING"

(* A connected apparatus is shown as online sooner or later.               *)
OnlineNoticed ==
    connected /\ pc = "bout" /\ instance = 1 ~>
        retained["connection"] = "online" \/ ~ connected \/ pc # "bout"

(* A bout is halted in the end: however the turns of the loop are delayed  *)
(* none of them misses the time of the halt (or the program was told to    *)
(* stop).                                                                  *)
BoutHalts == pc = "bout" ~> halted \/ ~ running \/ pc = "exited"

(* An apparatus that has gone for good, by itself or killed, is shown as   *)
(* offline at last and stays so (or was never heard of).                   *)
OfflineAfterExit ==
    <>[](pc = "exited") => <>[](retained["connection"] # "online")
=============================================================================
