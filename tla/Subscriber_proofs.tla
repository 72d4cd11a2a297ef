-------------------------- MODULE Subscriber_proofs --------------------------
(***************************************************************************)
(* The mirror of a subscriber follows the retained messages: for every set *)
(* of topics, every quality of service and every broker.                   *)
(***************************************************************************)
EXTENDS Subscriber, SequenceTheorems, TLAPS

(* A sequence of one, and the last of a sequence.                          *)
LEMMA OneElement ==
    ASSUME NEW S, NEW x \in S
    PROVE  <<x>> \in Seq(S) /\ <<x>> # <<>> /\ <<x>>[Len(<<x>>)] = x
  <1>1. <<x>> = Append(<<>>, x)
    OBVIOUS
  <1>2. <<>> \in Seq(S) /\ Len(<<>>) = 0
    OBVIOUS
  <1>3. Append(<<>>, x) \in Seq(S) /\ Len(Append(<<>>, x)) = 1 /\ Append(<<>>, x)[1] = x
    BY <1>2, AppendProperties
  <1> QED BY <1>1, <1>2, <1>3

(* A queue with one more.                                                  *)
LEMMA OneMore ==
    ASSUME NEW S, NEW s \in Seq(S), NEW x \in S
    PROVE  Append(s, x) \in Seq(S) /\ Len(Append(s, x)) = Len(s) + 1
  BY AppendProperties

LEMMA LastElement ==
    ASSUME NEW S, NEW s \in Seq(S), s # <<>>
    PROVE  /\ Tail(s) = <<>> => Head(s) = s[Len(s)]
           /\ Tail(s) # <<>> => Tail(s)[Len(Tail(s))] = s[Len(s)]
  <1>1. /\ Len(s) \in Nat \ {0} /\ Head(s) = s[1]
        /\ Len(Tail(s)) = Len(s) - 1 /\ Tail(s) \in Seq(S)
        /\ \A i \in 1 .. Len(s) - 1 : Tail(s)[i] = s[i + 1]
    BY HeadTailProperties, EmptySeq
  <1>2. Tail(s) = <<>> <=> Len(s) = 1
    BY <1>1, EmptySeq
  <1> QED BY <1>1, <1>2

viewerVars == <<kept, subs, listening, inbox, mirror>>

(* What a message of the topic may say.                                    *)
Says(topic) == Contents[topic[2]]

LEMMA NoValueUnsaid == \A topic \in Topics : NoValue \notin Says(topic)
  BY SubscriberAssumption DEF Says, Types

(* Nothing is on its way to a program without a connection.                *)
ShapeInv ==
    /\ DOMAIN kept = Topics /\ DOMAIN inbox = Topics
    /\ \A topic \in Topics :
          kept[topic] \in Says(topic) \cup {NoValue} /\ inbox[topic] \in Seq(Says(topic))
    /\ ~ listening => inbox = Nothing

LEMMA ShapeStart ==
    ASSUME kept = [topic \in Topics |-> NoValue], ViewerInit PROVE ShapeInv
  BY DEF ViewerInit, ShapeInv, Nothing

LEMMA ShapeStep ==
    ASSUME ShapeInv, [ViewerNext]_viewerVars PROVE ShapeInv'
  <1>1. ASSUME NEW topic \in Topics, Published(topic) PROVE ShapeInv'
    <2> DEFINE v == kept'[topic]
    <2>1. v \in Says(topic) /\ kept' = [kept EXCEPT ![topic] = v] /\ listening' = listening
      BY <1>1 DEF Published, Relays, Says
    <2> HIDE DEF v
    <2>2. DOMAIN kept' = Topics /\ \A o \in Topics : kept'[o] \in Says(o) \cup {NoValue}
      BY <2>1 DEF ShapeInv
    <2>3. CASE UNCHANGED inbox
      BY <2>1, <2>2, <2>3 DEF ShapeInv, Nothing, Says
    <2>4. CASE listening /\ inbox' = [inbox EXCEPT ![topic] = Append(@, kept'[topic])]
      <3>1. Append(inbox[topic], kept'[topic]) \in Seq(Says(topic))
        BY <2>1 DEF ShapeInv, v
      <3>2. DOMAIN inbox' = Topics /\ \A o \in Topics : inbox'[o] \in Seq(Says(o))
        BY <2>4, <3>1 DEF ShapeInv
      <3> QED BY <2>1, <2>2, <2>4, <3>2 DEF ShapeInv, Says
    <2> QED BY <1>1, <2>3, <2>4 DEF Published, Relays
  <1>2. ASSUME NEW topic \in Topics, OnMessage(topic), UNCHANGED kept PROVE ShapeInv'
    <2>1. Tail(inbox[topic]) \in Seq(Says(topic)) /\ listening
      BY <1>2 DEF OnMessage, ShapeInv, Nothing
    <2>2. DOMAIN inbox' = Topics /\ \A o \in Topics : inbox'[o] \in Seq(Says(o))
      BY <1>2, <2>1 DEF OnMessage, ShapeInv
    <2> QED BY <1>2, <2>1, <2>2 DEF OnMessage, ShapeInv, Says
  <1>3. CASE Subscribes /\ UNCHANGED kept
    <2>1. ASSUME NEW topic \in Topics PROVE Current(topic) \in Seq(Says(topic))
      <3>1. CASE kept[topic] = NoValue
        BY <3>1 DEF Current
      <3>2. CASE kept[topic] # NoValue
        <4>1. kept[topic] \in Says(topic)
          BY <3>2 DEF ShapeInv
        <4> QED BY <3>2, <4>1, OneElement DEF Current
      <3> QED BY <3>1, <3>2
    <2> QED BY <1>3, <2>1 DEF Subscribes, ShapeInv, Says
  <1>4. CASE Disconnects /\ UNCHANGED kept
    <2>1. \A o \in Topics : Nothing[o] \in Seq(Says(o))
      BY DEF Nothing
    <2> QED BY <1>4, <2>1 DEF Disconnects, ShapeInv, Nothing, Says
  <1>5. CASE UNCHANGED viewerVars
    BY <1>5 DEF viewerVars, ShapeInv, Nothing, Says
  <1> QED BY <1>1, <1>2, <1>3, <1>4, <1>5 DEF ViewerNext

LEMMA ShapeAlways == ViewerSpec => []ShapeInv
  BY ShapeStart, ShapeStep, PTL DEF ViewerSpec, viewerVars
-----------------------------------------------------------------------------
(* A published message is a write of PisteMirror.                          *)
LEMMA PublishedIsWrite ==
    ASSUME ShapeInv, NEW topic \in Topics, Published(topic)
    PROVE  Promise!Write(topic)
  <1> DEFINE v == kept'[topic]
  <1>1. v # NoValue /\ kept' = [kept EXCEPT ![topic] = v] /\ UNCHANGED <<listening, mirror>>
    BY NoValueUnsaid DEF Published, Relays, Says
  <1>2. CASE listening /\ inbox' = [inbox EXCEPT ![topic] = Append(@, v)]
    <2>1. Coming' = [Coming EXCEPT ![topic] = Append(@, v)]
      BY <1>1, <1>2 DEF Coming
    <2> QED BY <1>1, <2>1 DEF Promise!Write
  <1>3. CASE listening /\ Lossy(topic) /\ UNCHANGED inbox
    <2>1. Coming' = Coming
      BY <1>1, <1>3 DEF Coming
    <2> QED BY <1>1, <1>3, <2>1 DEF Promise!Write
  <1>4. CASE ~ listening
    <2>1. Coming = [o \in Topics |-> Current(o)] /\ Coming' = [o \in Topics |-> Current(o)']
      BY <1>1, <1>4 DEF Coming
    <2>2. \A o \in Topics : Current(o)' = IF o = topic THEN <<v>> ELSE Current(o)
      BY <1>1 DEF Current, ShapeInv
    <2>3. Coming' = [Coming EXCEPT ![topic] = <<v>>]
      BY <2>1, <2>2
    <2> QED BY <1>1, <2>3 DEF Promise!Write
  <1> QED BY <1>2, <1>3, <1>4 DEF Published, Relays

(* The dispatch of a message is a value shown.                             *)
LEMMA OnMessageIsShow ==
    ASSUME ShapeInv, NEW topic \in Topics, OnMessage(topic), UNCHANGED kept
    PROVE  Promise!Show(topic)
  <1>1. listening
    BY DEF ShapeInv, OnMessage, Nothing
  <1>2. Coming = inbox /\ Coming' = inbox'
    BY <1>1 DEF Coming, OnMessage
  <1> QED BY <1>2 DEF OnMessage, Promise!Show, Promise!TypeOf

(* A new subscription changes nothing of what is still to come.            *)
LEMMA SubscribesIsStutter ==
    ASSUME Subscribes, UNCHANGED kept
    PROVE  Coming' = Coming /\ mirror' = mirror
  <1>1. Coming = [o \in Topics |-> Current(o)] /\ Coming' = inbox'
    BY DEF Coming, Subscribes
  <1> QED BY <1>1 DEF Subscribes

(* Only what the topics hold is still to come when a connection is lost.   *)
LEMMA DisconnectsIsStartOver ==
    ASSUME Disconnects, UNCHANGED kept
    PROVE  Promise!StartOver
  <1>1. Coming' = [o \in Topics |-> Current(o)]
    BY DEF Coming, Disconnects, Current
  <1> QED BY <1>1 DEF Disconnects, Promise!StartOver, Promise!Current, Current

(* The subscriber's mirror implements PisteMirror, whatever topics there   *)
(* are, however its connection comes and goes (onConnect and onMessage).   *)
THEOREM KeepsPromise == ViewerSpec => MirrorFollows
  <1>1. kept = [topic \in Topics |-> NoValue] /\ ViewerInit => Promise!Init
    BY DEF ViewerInit, Promise!Init, Coming, Current
  <1>2. ShapeInv /\ [ViewerNext]_viewerVars => [Promise!Next]_<<kept, Coming, mirror>>
    <2> SUFFICES ASSUME ShapeInv, [ViewerNext]_viewerVars
                 PROVE  [Promise!Next]_<<kept, Coming, mirror>>
      OBVIOUS
    <2>1. CASE \E topic \in Topics : Published(topic)
      BY <2>1, PublishedIsWrite DEF Promise!Next
    <2>2. CASE \E topic \in Topics : OnMessage(topic) /\ UNCHANGED kept
      BY <2>2, OnMessageIsShow DEF Promise!Next
    <2>3. CASE Subscribes /\ UNCHANGED kept
      BY <2>3, SubscribesIsStutter
    <2>4. CASE Disconnects /\ UNCHANGED kept
      BY <2>4, DisconnectsIsStartOver DEF Promise!Next
    <2>5. CASE UNCHANGED viewerVars
      BY <2>5 DEF viewerVars, Coming, Current
    <2> QED BY <2>1, <2>2, <2>3, <2>4, <2>5 DEF ViewerNext
  <1> QED BY <1>1, <1>2, ShapeAlways, PTL DEF ViewerSpec, MirrorFollows, Promise!Spec, viewerVars
-----------------------------------------------------------------------------
(* The newest of the messages of a topic on their way is the one retained, *)
(* and a topic that nothing was published on has none.                     *)
NewestKept ==
    \A topic \in Topics : inbox[topic] # <<>> /\ ~ Lossy(topic) =>
        /\ kept[topic] # NoValue
        /\ inbox[topic][Len(inbox[topic])] = kept[topic]

(* The field of a type shows what one of its topics holds, or is about to. *)
FieldFollows(t) ==
    \/ \E topic \in TopicsOf(t) : inbox[topic] # <<>>
    \/ \E topic \in TopicsOf(t) : kept[topic] # NoValue /\ mirror[t] = kept[topic]
    \/ mirror[t] = Default[t] /\ \A topic \in TopicsOf(t) : kept[topic] = NoValue

Reliable == {t \in Types : \A topic \in TopicsOf(t) : ~ Lossy(topic)}

FollowInv ==
    /\ ShapeInv
    /\ mirror = [t \in Types |-> mirror[t]]
    /\ NewestKept
    /\ \A t \in Reliable : listening => FieldFollows(t)
    /\ \A t \in Reliable : (\A topic \in TopicsOf(t) : kept[topic] = NoValue)
                             => mirror[t] = Default[t]

LEMMA FollowStart ==
    ASSUME kept = [topic \in Topics |-> NoValue], ViewerInit
    PROVE  FollowInv
  <1>1. ShapeInv
    BY DEF ShapeInv, ViewerInit, Nothing
  <1>2. mirror = [t \in Types |-> mirror[t]]
    BY DEF ViewerInit, Default
  <1>3. NewestKept
    BY DEF NewestKept, ViewerInit, Nothing
  <1> QED BY <1>1, <1>2, <1>3 DEF FollowInv, ViewerInit

(* What is published is still to come, or nobody is there to be told.      *)
LEMMA FollowPublished ==
    ASSUME FollowInv, ShapeInv', NEW topic \in Topics, Published(topic)
    PROVE  FollowInv'
  <1> DEFINE v == kept'[topic]
  <1>1. /\ v \in Says(topic) \ {NoValue}
        /\ \A o \in Topics \ {topic} : kept'[o] = kept[o]
        /\ UNCHANGED <<listening, mirror>>
    BY NoValueUnsaid DEF Published, Relays, FollowInv, ShapeInv, Says
  <1>2. \A o \in Topics \ {topic} : inbox'[o] = inbox[o]
    BY DEF Published, Relays, FollowInv, ShapeInv
  <1>3. ~ Lossy(topic) =>
           IF listening THEN inbox'[topic] = Append(inbox[topic], v) ELSE inbox'[topic] = <<>>
    BY DEF Published, Relays, FollowInv, ShapeInv, Nothing
  <1>4. inbox[topic] \in Seq(Says(topic))
    BY DEF FollowInv, ShapeInv
  <1>5. ~ Lossy(topic) /\ listening =>
           inbox'[topic] # <<>> /\ inbox'[topic][Len(inbox'[topic])] = v
    BY <1>1, <1>3, <1>4
  <1>6. NewestKept'
    BY <1>1, <1>2, <1>3, <1>5 DEF NewestKept, FollowInv, Lossy
  <1>7. ASSUME NEW t \in Reliable, listening PROVE FieldFollows(t)'
    <2>1. CASE topic \in TopicsOf(t)
      BY <1>5, <1>7, <2>1 DEF FieldFollows, Reliable, TopicsOf
    <2>2. CASE topic \notin TopicsOf(t)
      <3>1. \A o \in TopicsOf(t) : inbox'[o] = inbox[o] /\ kept'[o] = kept[o]
        BY <1>1, <1>2, <2>2 DEF TopicsOf
      <3>2. FieldFollows(t)
        BY <1>7 DEF FollowInv
      <3> QED BY <1>1, <3>1, <3>2 DEF FieldFollows, TopicsOf
    <2> QED BY <2>1, <2>2
  <1>8. ASSUME NEW t \in Reliable, \A o \in TopicsOf(t) : kept'[o] = NoValue
        PROVE  mirror'[t] = Default[t]
    <2>1. topic \notin TopicsOf(t)
      BY <1>1, <1>8
    <2> QED BY <1>1, <1>8, <2>1 DEF FollowInv, TopicsOf
  <1>9. mirror' = [t \in Types |-> mirror'[t]]
    BY <1>1 DEF FollowInv
  <1> QED BY <1>1, <1>6, <1>7, <1>8, <1>9 DEF FollowInv, Reliable, TopicsOf, Lossy

(* The last message of a topic leaves the field at what the topic holds.   *)
LEMMA FollowOnMessage ==
    ASSUME FollowInv, ShapeInv', NEW topic \in Topics, OnMessage(topic), UNCHANGED kept
    PROVE  FollowInv'
  <1> DEFINE s == inbox[topic]
             u == topic[2]
  <1>1. s \in Seq(Says(topic)) /\ s # <<>> /\ u \in Types
    BY DEF FollowInv, ShapeInv, OnMessage, Types
  <1>2. inbox'[topic] = Tail(s) /\ \A o \in Topics \ {topic} : inbox'[o] = inbox[o]
    BY DEF OnMessage, FollowInv, ShapeInv
  <1>3. mirror'[u] = Head(s) /\ \A t \in Types \ {u} : mirror'[t] = mirror[t]
    <2>1. mirror = [t \in Types |-> mirror[t]] /\ mirror' = [mirror EXCEPT ![u] = Head(s)]
      BY DEF OnMessage, FollowInv
    <2> QED BY <1>1, <2>1
  <1>4. Tail(s) = <<>> => Head(s) = s[Len(s)]
    BY <1>1, LastElement
  <1>5. Tail(s) # <<>> => Tail(s)[Len(Tail(s))] = s[Len(s)]
    BY <1>1, LastElement
  <1>6. NewestKept'
    BY <1>1, <1>2, <1>5 DEF NewestKept, FollowInv, Lossy
  <1>7. ASSUME NEW t \in Reliable, listening PROVE FieldFollows(t)'
    <2>1. CASE t = u
      <3>1. topic \in TopicsOf(t) /\ ~ Lossy(topic)
        BY <2>1 DEF TopicsOf, Reliable
      <3>2. kept[topic] # NoValue /\ s[Len(s)] = kept[topic]
        BY <1>1, <3>1 DEF FollowInv, NewestKept
      <3>3. CASE Tail(s) = <<>>
        BY <1>3, <1>4, <2>1, <3>1, <3>2, <3>3 DEF FieldFollows, TopicsOf
      <3>4. CASE Tail(s) # <<>>
        BY <1>2, <3>1, <3>4 DEF FieldFollows, TopicsOf
      <3> QED BY <3>3, <3>4
    <2>2. CASE t # u
      <3>1. \A o \in TopicsOf(t) : inbox'[o] = inbox[o]
        BY <1>2, <2>2 DEF TopicsOf
      <3>2. FieldFollows(t) /\ mirror'[t] = mirror[t]
        BY <1>3, <1>7, <2>2 DEF FollowInv, Reliable
      <3> QED BY <3>1, <3>2 DEF FieldFollows, TopicsOf
    <2> QED BY <2>1, <2>2
  <1>8. ASSUME NEW t \in Reliable, \A o \in TopicsOf(t) : kept[o] = NoValue
        PROVE  mirror'[t] = Default[t]
    <2>1. t # u
      BY <1>1, <1>8 DEF FollowInv, NewestKept, TopicsOf, Reliable
    <2> QED BY <1>3, <1>8, <2>1 DEF FollowInv, Reliable
  <1>9. mirror' = [t \in Types |-> mirror'[t]]
    BY DEF FollowInv, OnMessage
  <1> QED BY <1>6, <1>7, <1>8, <1>9 DEF FollowInv, Reliable, TopicsOf, Lossy, OnMessage

(* After a subscription all that topics hold is to come.                   *)
LEMMA FollowSubscribes ==
    ASSUME FollowInv, ShapeInv', Subscribes, UNCHANGED kept
    PROVE  FollowInv'
  <1>1. \A o \in Topics : inbox'[o] = Current(o)
    BY DEF Subscribes
  <1>2. NewestKept'
    BY <1>1, OneElement DEF NewestKept, Current, FollowInv, ShapeInv
  <1>3. ASSUME NEW t \in Reliable PROVE FieldFollows(t)'
    <2>1. CASE \A o \in TopicsOf(t) : kept[o] = NoValue
      <3>1. mirror[t] = Default[t]
        BY <2>1 DEF FollowInv
      <3> QED BY <2>1, <3>1 DEF FieldFollows, Subscribes, TopicsOf
    <2>2. CASE \E o \in TopicsOf(t) : kept[o] # NoValue
      <3>1. PICK o \in TopicsOf(t) : kept[o] # NoValue
        BY <2>2
      <3>2. inbox'[o] = <<kept[o]>> /\ kept[o] \in Says(o)
        BY <1>1, <3>1 DEF Current, TopicsOf, FollowInv, ShapeInv
      <3>3. inbox'[o] # <<>>
        BY <3>2, OneElement
      <3> QED BY <3>3 DEF FieldFollows, TopicsOf
    <2> QED BY <2>1, <2>2
  <1> QED BY <1>2, <1>3 DEF FollowInv, Reliable, TopicsOf, Lossy, Subscribes

LEMMA FollowDisconnects ==
    ASSUME FollowInv, ShapeInv', Disconnects, UNCHANGED kept
    PROVE  FollowInv'
  <1>1. NewestKept'
    BY DEF NewestKept, Disconnects, Nothing
  <1> QED BY <1>1 DEF FollowInv, Reliable, TopicsOf, Lossy, Disconnects

(* A subscriber that was told everything shows what a topic of each type   *)
(* holds: no reconnection leaves an older value (the loop of onMessage).   *)
THEOREM Settles == ViewerSpec => []SettledMirror
  <1>1. kept = [topic \in Topics |-> NoValue] /\ ViewerInit => FollowInv
    BY FollowStart
  <1>2. FollowInv /\ ShapeInv' /\ [ViewerNext]_viewerVars => FollowInv'
    <2> SUFFICES ASSUME FollowInv, ShapeInv', [ViewerNext]_viewerVars PROVE FollowInv'
      OBVIOUS
    <2>1. CASE UNCHANGED viewerVars
      BY <2>1 DEF viewerVars, FollowInv, ShapeInv, NewestKept, FieldFollows, Reliable,
                  TopicsOf, Lossy, Nothing
    <2> QED BY <2>1, FollowPublished, FollowOnMessage, FollowSubscribes, FollowDisconnects
            DEF ViewerNext
  <1>3. FollowInv => SettledMirror
    BY DEF FollowInv, SettledMirror, UpToDate, Nothing, FieldFollows, Reliable, TopicsOf
  <1> QED BY <1>1, <1>2, <1>3, ShapeAlways, PTL DEF ViewerSpec, viewerVars
-----------------------------------------------------------------------------
(* Types; the queues of the subscriber keep their bound.                   *)
LEMMA ViewerTypeStart ==
    ASSUME ViewerInit PROVE ViewerTypeOK
  <1>1. DOMAIN mirror = Types /\ \A t \in Types : mirror[t] \in Contents[t]
    BY SubscriberAssumption DEF ViewerInit, Default
  <1>2. \A topic \in Topics :
           inbox[topic] \in Seq(Contents[topic[2]]) /\ Len(inbox[topic]) <= MaxInbox
    <2>1. \A topic \in Topics : inbox[topic] = <<>>
      BY DEF ViewerInit, Nothing
    <2> TAKE topic \in Topics
    <2>2. <<>> \in Seq(Contents[topic[2]]) /\ Len(<<>>) = 0
      OBVIOUS
    <2>3. inbox[topic] = <<>>
      BY <2>1
    <2>4. 0 <= MaxInbox
      BY SubscriberAssumption
    <2> QED BY <2>2, <2>3, <2>4
  <1>3. subs \in 0 .. MaxSubs /\ listening = FALSE /\ inbox = Nothing /\ DOMAIN inbox = Topics
    BY SubscriberAssumption DEF ViewerInit, Nothing
  <1> QED BY <1>1, <1>2, <1>3 DEF ViewerTypeOK

(* The queue of a topic.                                                   *)
QueueOK(topic, q) == q \in Seq(Contents[topic[2]]) /\ Len(q) <= MaxInbox

LEMMA ViewerTypeStep ==
    ASSUME ShapeInv, ViewerTypeOK, [ViewerNext]_viewerVars PROVE ViewerTypeOK'
  <1>1. /\ DOMAIN inbox = Topics /\ \A topic \in Topics : QueueOK(topic, inbox[topic])
        /\ DOMAIN mirror = Types /\ \A t \in Types : mirror[t] \in Contents[t]
        /\ subs \in 0 .. MaxSubs /\ listening \in BOOLEAN
    BY DEF ViewerTypeOK, QueueOK
  <1>2. ASSUME DOMAIN inbox' = Topics, \A topic \in Topics : QueueOK(topic, inbox'[topic]),
               DOMAIN mirror' = Types, \A t \in Types : mirror'[t] \in Contents[t],
               subs' \in 0 .. MaxSubs, listening' \in BOOLEAN
        PROVE  ViewerTypeOK'
    <2>1. ~ listening' => inbox' = Nothing
      BY ShapeStep DEF ShapeInv, Nothing
    <2> QED BY <1>2, <2>1 DEF ViewerTypeOK, QueueOK, Nothing, Types
  <1>3. ASSUME NEW topic \in Topics, Published(topic) PROVE ViewerTypeOK'
    <2>1. CASE inbox' = [inbox EXCEPT ![topic] = Append(@, kept'[topic])]
      <3> DEFINE q == Append(inbox[topic], kept'[topic])
      <3>1. inbox[topic] \in Seq(Contents[topic[2]]) /\ Len(inbox[topic]) \in Nat
        <4>1. inbox[topic] \in Seq(Contents[topic[2]])
          BY <1>1 DEF QueueOK
        <4> QED BY <4>1, LenProperties
      <3>2. kept'[topic] \in Contents[topic[2]]
        BY <1>3 DEF Published
      <3>3. q \in Seq(Contents[topic[2]]) /\ Len(q) = Len(inbox[topic]) + 1
        BY <3>2, <3>1, OneMore
      <3>4. QueueOK(topic, q)
        BY <1>3, <3>3, <3>1, SubscriberAssumption DEF Published, Relays, QueueOK
      <3> HIDE DEF q
      <3>5. inbox' = [inbox EXCEPT ![topic] = q]
        BY <2>1 DEF q
      <3> QED BY <1>1, <1>2, <1>3, <3>4, <3>5 DEF Published, Relays
    <2>2. CASE UNCHANGED inbox
      BY <1>1, <1>2, <1>3, <2>2 DEF Published, Relays
    <2> QED BY <1>3, <2>1, <2>2 DEF Published, Relays
  <1>4. ASSUME NEW topic \in Topics, OnMessage(topic) PROVE ViewerTypeOK'
    <2> DEFINE q == inbox[topic]
    <2>1. q \in Seq(Contents[topic[2]]) /\ q # <<>> /\ Len(q) <= MaxInbox
      BY <1>1, <1>4 DEF OnMessage, QueueOK
    <2>2. Head(q) \in Contents[topic[2]] /\ Tail(q) \in Seq(Contents[topic[2]])
             /\ Len(Tail(q)) = Len(q) - 1 /\ Len(q) \in Nat
      <3> HIDE DEF q
      <3>1. Len(q) \in Nat
        BY <2>1, LenProperties
      <3>2. Head(q) \in Contents[topic[2]] /\ Tail(q) \in Seq(Contents[topic[2]])
        BY <2>1, HeadTailProperties
      <3>3. Len(Tail(q)) = Len(q) - 1
        BY <2>1, HeadTailProperties
      <3> QED BY <3>1, <3>2, <3>3
    <2>3. topic[2] \in Types /\ QueueOK(topic, Tail(q))
      BY <2>1, <2>2, SubscriberAssumption DEF Types, QueueOK
    <2>4. /\ mirror' = [mirror EXCEPT ![topic[2]] = Head(q)]
          /\ inbox' = [inbox EXCEPT ![topic] = Tail(q)]
          /\ UNCHANGED <<subs, listening>>
      BY <1>4 DEF OnMessage
    <2> HIDE DEF q
    <2> QED BY <1>1, <1>2, <2>2, <2>3, <2>4
  <1>5. CASE Subscribes
    <2>1. ASSUME NEW topic \in Topics PROVE QueueOK(topic, Current(topic))
      <3>1. CASE kept[topic] = NoValue
        BY <3>1, SubscriberAssumption DEF Current, QueueOK
      <3>2. CASE kept[topic] # NoValue
        <4>1. kept[topic] \in Contents[topic[2]]
          BY <3>2 DEF ShapeInv, Says
        <4>2. <<kept[topic]>> \in Seq(Contents[topic[2]]) /\ Len(<<kept[topic]>>) = 1
          BY <4>1, OneElement
        <4> QED BY <3>2, <4>2, SubscriberAssumption DEF Current, QueueOK
      <3> QED BY <3>1, <3>2
    <2>2. subs' \in 0 .. MaxSubs
      BY <1>1, <1>5, SubscriberAssumption DEF Subscribes
    <2> QED BY <1>1, <1>2, <1>5, <2>1, <2>2 DEF Subscribes
  <1>6. CASE Disconnects
    <2>1. \A topic \in Topics : QueueOK(topic, <<>>)
      BY SubscriberAssumption DEF QueueOK
    <2> QED BY <1>1, <1>2, <1>6, <2>1 DEF Disconnects, Nothing
  <1>7. CASE UNCHANGED viewerVars
    BY <1>1, <1>2, <1>7 DEF viewerVars
  <1> QED BY <1>3, <1>4, <1>5, <1>6, <1>7 DEF ViewerNext

LEMMA ViewerTyped == ViewerSpec => []ViewerTypeOK
  <1>1. ViewerTypeOK /\ ShapeInv /\ [ViewerNext]_viewerVars => ViewerTypeOK'
    BY ViewerTypeStep
  <1> QED BY <1>1, ViewerTypeStart, ShapeAlways, PTL DEF ViewerSpec, viewerVars
=============================================================================
