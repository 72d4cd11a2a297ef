----------------------------- MODULE Subscriber ------------------------------
(***************************************************************************)
(* The subscriber examples: a program that connects, subscribes to every   *)
(* topic, and hands each message to its dispatcher, which writes the       *)
(* mirror; the callbacks only print.  The broker sends the retained        *)
(* messages on every subscription and from then on what is published, in   *)
(* order for each topic and in no particular order between topics.         *)
(* Messages here are well formed and of retained types: what dispatch()    *)
(* makes of others is in Dispatcher.                                       *)
(***************************************************************************)
EXTENDS OPP2Types, Integers, Sequences, FiniteSets

CONSTANTS Topics,        \* the retained topics of the piste, <<publisher, type>>
          Contents,      \* by type, what the messages may say
          NoValue,       \* nothing retained
          SubscribedQos, \* of the subscription: 1 on Linux, 0 on the ESP32
          MaxSubs,       \* bound: connections of the subscriber
          MaxInbox       \* bound: messages of a topic on their way to it

VARIABLES kept,          \* the broker's: what each topic retains; never changed here
          subs,          \* the number of connections made
          listening,     \* is it connected and subscribed?
          inbox,         \* what is on its way to it, by topic
          mirror         \* pisteState, by message type

Types == {topic[2] : topic \in Topics}

(* The initialisers of the message structs. *)
FieldInitial(t) ==
    CASE t = "state"      -> "WAITING"
      [] t = "clock"      -> "stopped"
      [] t = "score"      -> "0-0"
      [] t = "lights"     -> "off"
      [] t = "connection" -> "offline"

Default == [t \in Types |-> FieldInitial(t)]

ASSUME SubscriberAssumption ==
    /\ \A t \in Types : NoValue \notin Contents[t] /\ FieldInitial(t) \in Contents[t]
    /\ MaxSubs \in Nat
    /\ MaxInbox \in Nat \ {0}

Lossy(topic) == Qos[topic[2]] = 0 \/ SubscribedQos = 0

Current(topic) == IF kept[topic] = NoValue THEN <<>> ELSE <<kept[topic]>>

Nothing == [topic \in Topics |-> <<>>]

ViewerTypeOK ==
    /\ subs \in 0 .. MaxSubs
    /\ listening \in BOOLEAN
    /\ DOMAIN mirror = Types
    /\ \A t \in Types : mirror[t] \in Contents[t]
    /\ DOMAIN inbox = Topics
    /\ \A topic \in Topics :
          inbox[topic] \in Seq(Contents[topic[2]]) /\ Len(inbox[topic]) <= MaxInbox
    /\ ~ listening => inbox = Nothing

ViewerInit ==
    /\ subs = 0
    /\ listening = FALSE
    /\ inbox = Nothing
    /\ mirror = Default

(* Faulty variant: retained messages are not sent.                         *)
SubscribesOnly ==
    /\ ~ listening
    /\ subs < MaxSubs
    /\ subs' = subs + 1
    /\ listening' = TRUE
    /\ inbox' = Nothing
    /\ UNCHANGED mirror

(* It is connected and onConnect subscribes. *)
Subscribes ==
    /\ ~ listening
    /\ subs < MaxSubs
    /\ subs' = subs + 1
    /\ listening' = TRUE
    /\ inbox' = [topic \in Topics |-> Current(topic)]
    /\ UNCHANGED mirror

(* Faulty variant: what was on its way survives the connection.            *)
DisconnectsOnly ==
    /\ listening
    /\ subs < MaxSubs
    /\ listening' = FALSE
    /\ UNCHANGED <<subs, inbox, mirror>>

(* The connection is lost, after which it can be made again; the session   *)
(* is clean, the mirror stays.                                             *)
Disconnects ==
    /\ listening
    /\ subs < MaxSubs
    /\ listening' = FALSE
    /\ inbox' = Nothing
    /\ UNCHANGED <<subs, mirror>>

(* The broker passes on what is published on a topic, if it can: QoS 0 is  *)
(* not kept for a subscriber that is slow.                                 *)
Relays(topic, v) ==
    /\ Len(inbox[topic]) < MaxInbox
    /\ \/ listening /\ inbox' = [inbox EXCEPT ![topic] = Append(@, v)]
       \/ (~ listening \/ Lossy(topic)) /\ UNCHANGED inbox
    /\ UNCHANGED <<subs, listening, mirror>>

(* Faulty variant: the newest message first.                               *)
OnMessageLast(topic) ==
    LET last == Len(inbox[topic])
    IN  /\ last # 0
        /\ mirror' = [mirror EXCEPT ![topic[2]] = inbox[topic][last]]
        /\ inbox' = [inbox EXCEPT ![topic] = SubSeq(@, 1, last - 1)]
        /\ UNCHANGED <<subs, listening>>

(* onMessage: the dispatcher writes the field of the type, whoever the     *)
(* publisher is.                                                           *)
OnMessage(topic) ==
    /\ inbox[topic] # <<>>
    /\ mirror' = [mirror EXCEPT ![topic[2]] = Head(inbox[topic])]
    /\ inbox' = [inbox EXCEPT ![topic] = Tail(@)]
    /\ UNCHANGED <<subs, listening>>

(* The subscriber with any broker, which retains what is published, one    *)
(* message at a time.                                                      *)
Published(topic) ==
    LET v == kept'[topic]
    IN  /\ v \in Contents[topic[2]]
        /\ kept' = [kept EXCEPT ![topic] = v]
        /\ Relays(topic, v)

ViewerNext ==
    \/ \E topic \in Topics : Published(topic)
    \/ \E topic \in Topics : OnMessage(topic) /\ UNCHANGED kept
    \/ Subscribes /\ UNCHANGED kept
    \/ Disconnects /\ UNCHANGED kept

ViewerSpec ==
    /\ kept = [topic \in Topics |-> NoValue]
    /\ ViewerInit
    /\ [][ViewerNext]_<<kept, subs, listening, inbox, mirror>>
-----------------------------------------------------------------------------
(* The mirror as PisteMirror sees it.  Without a connection what topics    *)
(* hold now is still to come.                                              *)
Coming == IF listening THEN inbox ELSE [topic \in Topics |-> Current(topic)]

Promise == INSTANCE PisteMirror
               WITH latest <- kept, coming <- Coming, shown <- mirror, NotSet <- NoValue

(* The mirror keeps the promise of PisteMirror: its fields follow what the *)
(* topics hold, in order, through every loss of either connection.         *)
MirrorFollows == Promise!Spec

(* All that the subscriber was to be told it has been told. *)
UpToDate == listening /\ inbox = Nothing

TopicsOf(t) == {topic \in Topics : topic[2] = t}

(* An up-to-date subscriber shows what a topic of the type holds: one of   *)
(* the two scores when apparatus and software have both written one, and   *)
(* the initialiser only if none has.                                       *)
SettledMirror ==
    UpToDate => \A t \in Types :
        (\A topic \in TopicsOf(t) : ~ Lossy(topic))
            => \/ \E topic \in TopicsOf(t) : kept[topic] # NoValue /\ mirror[t] = kept[topic]
               \/ mirror[t] = Default[t] /\ \A topic \in TopicsOf(t) : kept[topic] = NoValue
=============================================================================
