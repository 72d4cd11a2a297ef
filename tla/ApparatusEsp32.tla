--------------------------- MODULE ApparatusEsp32 ----------------------------
(***************************************************************************)
(* The ESP32 apparatus of examples/esp32/apparatus_basic: one thread, with *)
(* PubSubClient, and its connection to the broker.  It differs from the    *)
(* Linux program where it matters: connecting blocks the loop, every       *)
(* attempt has a client id of its own, a publish without a connection is   *)
(* lost, and the touch and the halt happen in a window of time.  Time is   *)
(* counted in ticks of the period of the clock message.                    *)
(***************************************************************************)
EXTENDS OPP2Types, Integers, Sequences, FiniteSets

CONSTANTS Watched,        \* the message types whose traffic is followed
          TouchAt,        \* elapsed time of the touch
          HaltAt,         \* elapsed time of the halt
          Horizon,        \* bound: time at which the model's clock stops
          MaxBoots,       \* bound: how often the device is powered
          MaxSessions     \* bound: connections opened in a behaviour

ASSUME Esp32Assumption ==
    /\ Watched \subseteq MessageTypes
    /\ TouchAt \in Nat \ {0}
    /\ HaltAt \in Nat /\ HaltAt > TouchAt
    /\ Horizon \in Nat /\ Horizon > HaltAt
    /\ MaxBoots \in Nat \ {0}
    /\ MaxSessions \in Nat \ {0}

VARIABLES used, session, link, connected, pending, retained,   \* of MqttLink
          pc,           \* where the thread is
          boots,        \* how often the device was powered
          begun,        \* is setup() done?
          boutRunning,
          now,          \* elapsed, in ticks
          lastClock,    \* lastClockMs, relative to the start of the bout
          todo          \* the messages about to be published, in order

Offline == [type |-> "connection", value |-> "offline"]

(* Faulty variant: connect() without setupLWT(). *)
NoWill == {}

(* setupLWT(). *)
LastWill == {Offline}

(* PubSubClient sends a message once, or not at all. *)
INSTANCE MqttLink WITH Will <- LastWill, Resends <- FALSE

mqttVars == <<used, session, link, connected, pending, retained>>
appVars  == <<pc, boots, begun, boutRunning, now, lastClock, todo>>
vars == <<used, session, link, connected, pending, retained,
          pc, boots, begun, boutRunning, now, lastClock, todo>>

Values == [connection |-> {"online", "offline"},
           state      |-> {"WAITING", "FENCING", "HALT"},
           score      |-> {"0-0", "1-0"},
           lights     |-> {"on", "off"},
           clock      |-> {"running", "stopped"}]

(* The messages that are followed. *)
Message == UNION {{Msg(t, v) : v \in Values[t]} : t \in DOMAIN Values \cap Watched}

TypeOK ==
    /\ LinkTypeOK(Message)
    /\ pending = <<>>
    /\ pc \in {"dial", "begin", "check", "turn", "off"}
    /\ boots \in 1 .. MaxBoots
    /\ begun \in BOOLEAN /\ boutRunning \in BOOLEAN
    /\ now \in 0 .. Horizon
    /\ lastClock \in -1 .. Horizon
    /\ todo \in Seq(Message)

Booted ==
    /\ pc' = "dial"
    /\ begun' = FALSE
    /\ boutRunning' = FALSE
    /\ now' = 0
    /\ lastClock' = -1
    /\ todo' = <<>>

Init ==
    /\ LinkInit
    /\ pc = "dial"
    /\ boots = 1
    /\ begun = FALSE
    /\ boutRunning = FALSE
    /\ now = 0
    /\ lastClock = -1
    /\ todo = <<>>
-----------------------------------------------------------------------------
(* mqttConnect(): an attempt, under an id made of the time; meanwhile the  *)
(* loop stands still.                                                      *)
Dial(t) ==
    /\ pc = "dial"
    /\ OpenLink(used + 1)
    /\ now' = IF begun THEN t ELSE now
    /\ UNCHANGED <<pc, boots, begun, boutRunning, lastClock, todo>>

(* Faulty variant: an announcement that no receiver knows.                 *)
OnConnectMisspelt == Followed(Msg("connection", "up")) \o Followed(Msg("state", "WAITING"))

OnConnect == Followed(Msg("connection", "online")) \o Followed(Msg("state", "WAITING"))
                \o Followed(Msg("score", "0-0")) \o Followed(Msg("lights", "off"))

(* The attempt succeeds: mqttConnect() publishes and returns, to setup()   *)
(* the first time, to loop() later.                                        *)
DialSucceeds ==
    /\ pc = "dial"
    /\ ReceiveConnack(OnConnect)
    /\ pc' = IF begun THEN "turn" ELSE "begin"
    /\ UNCHANGED <<boots, begun, boutRunning, now, lastClock, todo>>

(* The rest of setup().                                                    *)
BeginBout ==
    /\ pc = "begin"
    /\ pc' = "check"
    /\ begun' = TRUE
    /\ boutRunning' = TRUE
    /\ todo' = Followed(Msg("state", "FENCING"))
    /\ UNCHANGED <<mqttVars, boots, now, lastClock>>

(* mqtt.publish(), whose result no caller looks at. *)
Publishes ==
    /\ todo # <<>>
    /\ Publish(Head(todo))
    /\ todo' = Tail(todo)
    /\ UNCHANGED <<pc, boots, begun, boutRunning, now, lastClock>>

(* loop(): "if (!mqtt.connected()) mqttConnect();"                         *)
CheckConnection ==
    /\ pc = "check"
    /\ todo = <<>>
    /\ pc' = IF connected THEN "turn" ELSE "dial"
    /\ UNCHANGED <<mqttVars, boots, begun, boutRunning, now, lastClock, todo>>

(* The rest of loop() at time t: with the clock message, when it is due,   *)
(* the touch or the halt if this is the second for it.                     *)
LoopTurn(t) ==
    LET due   == boutRunning /\ t > lastClock
        touch == due /\ t >= TouchAt /\ t < HaltAt
        halt  == due /\ t >= HaltAt /\ t < HaltAt + 1
        If(c, msgs) == IF c THEN msgs ELSE <<>>
    IN  /\ pc = "turn"
        /\ pc' = "check"
        /\ now' = t
        /\ lastClock' = IF due THEN t ELSE lastClock
        /\ boutRunning' = (boutRunning /\ ~ halt)
        /\ todo' = If(due,   Followed(Msg("clock", "running")))
                \o If(touch, Followed(Msg("lights", "on")) \o Followed(Msg("score", "1-0")))
                \o If(halt,  Followed(Msg("lights", "off")) \o Followed(Msg("state", "HALT"))
                                 \o Followed(Msg("clock", "stopped")))
        /\ UNCHANGED <<mqttVars, boots, begun>>

(* As long as the loop is not blocked it misses no tick. *)
NextTick == {t \in {now, now + 1} : t <= Horizon}

PowerLost ==
    /\ pc # "off"
    /\ pc' = "off"
    /\ todo' = <<>>
    /\ ProcessEnds
    /\ UNCHANGED <<boots, begun, boutRunning, now, lastClock>>

(* (The bound: a start that could still open a connection.) *)
PowerOn ==
    /\ pc = "off"
    /\ boots < MaxBoots
    /\ used < MaxSessions
    /\ boots' = boots + 1
    /\ Booted
    /\ UNCHANGED mqttVars

ConnectionDrops == LinkDrops /\ UNCHANGED appVars
(* Faulty variant: connect() waits for its CONNACK for ever.               *)
ConnectionEndsButDialing == pc # "dial" /\ LinkFoundDead /\ UNCHANGED appVars

ConnectionEnds  == LinkFoundDead /\ UNCHANGED appVars

Device == \/ \E t \in now .. Horizon : Dial(t)
          \/ DialSucceeds \/ BeginBout \/ Publishes \/ CheckConnection
          \/ \E t \in NextTick : LoopTurn(t)
          \/ ConnectionEnds

Environment == \/ PowerLost \/ PowerOn \/ ConnectionDrops
               \/ BrokerStep /\ UNCHANGED appVars

Next == Device \/ Environment

(* The thread runs, its clock advances and the broker works. *)
Fairness ==
    /\ WF_vars(\E t \in now .. Horizon : Dial(t))
    /\ WF_vars(DialSucceeds)
    /\ WF_vars(BeginBout)
    /\ WF_vars(Publishes)
    /\ WF_vars(CheckConnection)
    /\ SF_vars(now < Horizon /\ LoopTurn(now + 1))
    /\ WF_vars(\E t \in NextTick : LoopTurn(t))
    /\ WF_vars(ConnectionEnds)
    /\ BrokerFairness

Spec == Init /\ [][Next]_vars /\ Fairness
-----------------------------------------------------------------------------
(* Everything sent about type t on the current connection has arrived.     *)
Settled(t) ==
    /\ connected
    /\ session[link].phase = "open"
    /\ \A i \in 1 .. Len(session[link].stream) : session[link].stream[i].type # t
    /\ \A i \in 1 .. Len(todo) : todo[i].type # t

(* "Indicates whether the apparatus is connected to the broker": the       *)
(* apparatus of a settled connection is shown as online.                   *)
PresentIsOnline == Settled("connection") => retained["connection"] # "offline"

(* A device that lost its power for good is shown as offline in the end.   *)
OfflineAfterPowerLoss ==
    <>[](pc = "off") => <>[](retained["connection"] # "online")

(* "lights off at 6 seconds, halt": a bout that has begun is halted, as    *)
(* long as the device has power.                                           *)
BoutHalts == boutRunning ~> ~ boutRunning \/ pc = "off"

(* The device does not stay in mqttConnect() for ever once the network is  *)
(* stable: it connects again.                                              *)
Reconnects == pc = "dial" ~> pc # "dial"
=============================================================================
