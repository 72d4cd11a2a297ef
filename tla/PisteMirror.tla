---------------------------- MODULE PisteMirror ------------------------------
(***************************************************************************)
(* What a subscriber's SystemState promises about the retained messages    *)
(* of a piste, whatever connections come and go: a field only ever shows   *)
(* values that a topic of its type has held, and each topic's in the order *)
(* it held them, ending with the current one.  Values may be skipped; only *)
(* a topic of QoS 0 may leave a field behind while the connection lasts.   *)
(***************************************************************************)
EXTENDS Sequences

CONSTANTS Topics,        \* the retained topics, <<publisher, type>>
          Lossy(_),      \* may messages of this topic be lost on the way?
          NotSet,        \* the value of a topic without a retained message
          Default        \* the fields of a SystemState nothing was written to

VARIABLES latest,        \* what each topic holds
          coming,        \* what the subscriber is still to be told, in order
          shown          \* the fields of the mirror

TypeOf(topic) == topic[2]

Current(topic) == IF latest[topic] = NotSet THEN <<>> ELSE <<latest[topic]>>

Init ==
    /\ latest = [topic \in Topics |-> NotSet]
    /\ coming = [topic \in Topics |-> <<>>]
    /\ shown = Default

(* A publisher writes: the value comes last, or in place of older ones.    *)
Write(topic) ==
    LET v == latest'[topic]
    IN  /\ v # NotSet
        /\ latest' = [latest EXCEPT ![topic] = v]
        /\ \/ coming' = [coming EXCEPT ![topic] = Append(@, v)]
           \/ coming' = [coming EXCEPT ![topic] = <<v>>]
           \/ Lossy(topic) /\ UNCHANGED coming
        /\ UNCHANGED shown

Show(topic) ==
    /\ coming[topic] # <<>>
    /\ shown' = [shown EXCEPT ![TypeOf(topic)] = Head(coming[topic])]
    /\ coming' = [coming EXCEPT ![topic] = Tail(@)]
    /\ UNCHANGED latest

(* The connection is lost or made: only what the topics hold now is still  *)
(* to come, again if it was shown before.                                  *)
StartOver ==
    /\ coming' = [topic \in Topics |-> Current(topic)]
    /\ UNCHANGED <<latest, shown>>

Next == StartOver \/ \E topic \in Topics : Write(topic) \/ Show(topic)

Spec == Init /\ [][Next]_<<latest, coming, shown>>
=============================================================================
