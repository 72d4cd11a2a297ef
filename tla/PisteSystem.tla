----------------------------- MODULE PisteSystem -----------------------------
(***************************************************************************)
(* One piste: the Linux apparatus, the broker, competition software that   *)
(* corrects the score, and a subscriber.  What the broker publishes it     *)
(* passes on to the subscriber in the same step.  kept is all it retains:  *)
(* what the apparatus has written, which is retained, and the score of the *)
(* software.                                                               *)
(***************************************************************************)
EXTENDS ApparatusLinux, Subscriber

Apparatus(t) == <<"apparatus", t>>
SoftwareScore == <<"software", "score">>

(* The values of Topics and Contents. *)
PisteTopics ==
    {Apparatus(t) : t \in Watched} \cup {<<"software", t>> : t \in Watched \cap {"score"}}

PisteContents == [Values EXCEPT !["score"] = @ \cup {"0-1"}]

ASSUME SystemAssumption ==
    /\ Watched \subseteq DOMAIN Values
    /\ Topics = PisteTopics
    /\ Contents = PisteContents
    /\ NoValue = NotSet

screenVars == <<subs, listening, inbox, mirror>>
systemVars == <<used, session, link, connected, pending, retained,
                pc, instance, running, now, lastClock, scored, halted, todo,
                kept, subs, listening, inbox, mirror>>

SystemTypeOK ==
    /\ TypeOK
    /\ ViewerTypeOK
    /\ \A t \in Watched : kept[Apparatus(t)] = retained[t]

SystemInit ==
    /\ Init
    /\ kept = [topic \in Topics |-> NoValue]
    /\ ViewerInit

(* A message of the apparatus was retained: the subscriber is sent it, too. *)
Publishes(m) ==
    /\ kept' = [kept EXCEPT ![Apparatus(m.type)] = m.value]
    /\ Relays(Apparatus(m.type), m.value)

Silent == UNCHANGED <<kept, screenVars>>

(* A will of a type that is not watched goes unseen.                       *)
PublishesWill == IF Offline.type \in Watched THEN Publishes(Offline) ELSE Silent

BrokerPublishes ==
    /\ \E s \in SessionIds :
          \/ AcceptConnect(s) /\ IF TakenOver(s) = {} THEN Silent ELSE PublishesWill
          \/ ReceiveMessage(s) /\ Publishes(Head(session[s].stream))
          \/ KeepaliveExpires(s) /\ PublishesWill
          \/ Partition(s) /\ PublishesWill
          \/ RequestLost(s) /\ Silent
    /\ UNCHANGED mainVars

(* The software corrects the touch, under a topic of its own. *)
SoftwareCorrects ==
    /\ SoftwareScore \in Topics
    /\ kept[Apparatus("score")] = "1-0"
    /\ kept[SoftwareScore] = NoValue
    /\ kept' = [kept EXCEPT ![SoftwareScore] = "0-1"]
    /\ Relays(SoftwareScore, "0-1")
    /\ UNCHANGED vars

(* Signals and restarts are left to ApparatusLinux. *)
ApparatusSteps ==
    /\ Main \/ Network \/ Killed \/ ConnectionDrops
    /\ Silent

ViewerSteps ==
    /\ Subscribes \/ Disconnects \/ \E topic \in Topics : OnMessage(topic)
    /\ UNCHANGED <<vars, kept>>

SystemNext == ApparatusSteps \/ BrokerPublishes \/ SoftwareCorrects \/ ViewerSteps

SystemSpec == SystemInit /\ [][SystemNext]_systemVars
-----------------------------------------------------------------------------
(* After the halt no up-to-date subscriber shows the piste as fencing, or  *)
(* with its lights on, however the messages were resent and crossed the    *)
(* announcements of a new connection.                                      *)
ViewersSeeHalt ==
    halted /\ UpToDate /\ (\A t \in Watched : Settled(t)) =>
        \A t \in Watched : mirror[t] \notin {"FENCING", "on"}
=============================================================================
