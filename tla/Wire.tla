-------------------------------- MODULE Wire ---------------------------------
(***************************************************************************)
(* A message on its way from one program to another through the wire       *)
(* formats.  The sender publishes the way the examples do: serialize()     *)
(* into a static buffer, buildFrom() into another, mosquitto_publish()     *)
(* from both, no result looked at but the last.  In the Linux example the  *)
(* callback onConnect does the same on the network thread, without a lock. *)
(* Programs that do not use the library publish as well.  The receiver     *)
(* parses the topic and deserializes the payload, into a struct it has     *)
(* just declared or into the one it used before.                           *)
(*                                                                         *)
(* A buffer changes as a whole: two threads are not in the same function   *)
(* at once.  written, verdict, a packet's origin, a buffer's of, and what  *)
(* call keeps of the buffers are there for the properties.                 *)
(***************************************************************************)
EXTENDS Serializer, MessageReader, TopicParser

Threads == {"main", "network"}

CONSTANTS Senders,       \* piste id (its segments), publisher, threads that call the library
          Structs(_, _), \* the structs of a type that a sender sends
          Others(_)      \* the payloads other programs publish on a topic of the type

ASSUME SendersAssumption ==
    Senders \subseteq [piste : Seq(STRING), publisher : STRING, threads : SUBSET Threads]

(* What main() and onConnect of the Linux apparatus publish. *)
RacingTypes == {"connection", "state", "clock", "lights", "score"}

(* The Linux apparatus is the program with two threads. *)
ASSUME ContentsAssumption ==
    \A t \in MessageTypes :
        /\ \A s \in Senders : \A m \in Structs(s, t) : IsStruct(t, m)
        /\ \A s \in Senders : s.threads = Threads /\ Structs(s, t) # {} => t \in RacingTypes
        /\ \A j \in Others(t) : IsJson(t, j)

VARIABLES self,          \* the sender
          buffer,        \* static char payload[JSON_SIZE_MAX]
          topic,         \* static char topic[64]
          call,          \* how far each thread is with a message
          written,       \* the message whose publication the packet is
          packet,        \* what the broker has: topic, payload, who sent it
          struct,        \* the receiver's struct and its type
          verdict        \* what it made of the packet, into which struct

vars == <<self, buffer, topic, call, written, packet, struct, verdict>>

TOPIC_SIZE == 64         \* static char topic[64]

(* The types whose largest messages do not fit JSON_SIZE_MAX bytes. *)
Oversize == {"fencers", "video_review"}

NoMessage == [type |-> UNKNOWN, struct |-> <<>>, result |-> "none"]
NoCall    == [stage |-> "idle", message |-> NoMessage, payload |-> EmptyBuffer, address |-> <<>>]
NoStruct  == [type |-> UNKNOWN, fields |-> <<>>]
NoPacket  == [topic |-> <<>>, buffer |-> EmptyBuffer, origin |-> "nobody"]
Unread    == [error |-> "unread", fresh |-> TRUE]

Init ==
    /\ self \in Senders
    /\ buffer = EmptyBuffer
    /\ topic = <<>>
    /\ call = [p \in Threads |-> NoCall]
    /\ written = NoMessage
    /\ packet = NoPacket
    /\ struct = NoStruct
    /\ verdict = Unread
-----------------------------------------------------------------------------
(* The last packet has been read, or never will be: a sender goes on only  *)
(* then, as reading a packet does not depend on the sender's steps.        *)
Quiet == verdict # Unread \/ ~ ParseOk(Parse(packet.topic))

Forgets ==
    /\ packet' = NoPacket
    /\ written' = NoMessage
    /\ verdict' = Unread

(* The types of the messages that threads are about to publish. *)
Underway == {call[p].message.type : p \in {q \in Threads : call[q].stage # "idle"}}

(* The receiver's struct is of use again only for the types on their way.  *)
KeepsStructOf(types) == struct' = IF struct.type \in types THEN struct ELSE NoStruct

(* onConnect publishes its messages in this order. *)
Announces(last) ==
    CASE last = "connection" -> "state"
      [] last = "state"      -> "score"
      [] last = "score"      -> "lights"
      [] OTHER               -> "connection"

(* publishState(), publishScore(), ...: the struct is filled and           *)
(* serialize() writes the buffer.                                          *)
Serializes(p, t, m, fits) ==
    LET done == Serialize(t, m, fits, buffer)
    IN  /\ p \in self.threads /\ Quiet
        /\ call[p].stage = "idle"
        /\ p = "network" => t = Announces(call[p].message.type)
        /\ fits \/ t \in Oversize
        /\ buffer' = done.buffer
        /\ call' = [call EXCEPT ![p] =
                        [stage |-> "serialized", payload |-> done.buffer, address |-> <<>>,
                         message |-> [type |-> t, struct |-> m, result |-> done.result]]]
        /\ Forgets
        /\ KeepsStructOf({t} \cup Underway)
        /\ UNCHANGED <<self, topic>>

(* opp2Publish(): first the topic, *)
BuildsTopic(p) ==
    /\ call[p].stage = "serialized" /\ Quiet
    /\ topic' = Build(self.piste, self.publisher, call[p].message.type, TOPIC_SIZE, topic).topic
    /\ call' = [call EXCEPT ![p].stage = "addressed", ![p].address = topic']
    /\ Forgets
    /\ UNCHANGED <<self, buffer, struct>>

(* then what the two buffers hold by now is sent.                          *)
MosquittoPublishes(p) ==
    /\ call[p].stage = "addressed" /\ Quiet
    /\ packet' = [topic |-> topic, buffer |-> buffer,
                  origin |-> IF buffer = call[p].payload /\ topic = call[p].address
                             THEN "own" ELSE "raced"]
    /\ written' = call[p].message
    /\ call' = [call EXCEPT ![p] = [NoCall EXCEPT !.message.type = call[p].message.type]]
    /\ verdict' = Unread
    /\ UNCHANGED <<self, buffer, topic, struct>>

(* Another program publishes. *)
OtherPublishes(t, j) ==
    /\ self.threads = {} /\ Quiet
    /\ packet' = [topic |-> <<TOPIC_PREFIX>> \o self.piste \o <<"software", t>>,
                  buffer |-> Holding(t, j), origin |-> "other"]
    /\ verdict' = Unread
    /\ KeepsStructOf({t})
    /\ UNCHANGED <<self, buffer, topic, call, written>>

(* The receiver, when the topic is one of this library: a refused payload  *)
(* leaves it without a message.                                            *)
Receive(reuse) ==
    LET t     == Parse(packet.topic).type
        error == ReadError(t, packet.buffer)
        into  == IF reuse THEN struct.fields ELSE Fresh(t)
    IN  /\ verdict = Unread
        /\ ParseOk(Parse(packet.topic))
        /\ reuse => struct.type = t
        /\ verdict' = [error |-> error, fresh |-> ~ reuse]
        /\ struct' = IF error = "OK"
                     THEN [type |-> t, fields |-> ReadInto(t, packet.buffer.json, into)]
                     ELSE NoStruct
        /\ UNCHANGED <<self, buffer, topic, call, written, packet>>

Next ==
    \/ \E p \in Threads, t \in MessageTypes : \E m \in Structs(self, t), fits \in BOOLEAN :
          Serializes(p, t, m, fits)
    \/ \E p \in Threads : BuildsTopic(p)
    \/ \E p \in Threads : MosquittoPublishes(p)
    \/ \E t \in MessageTypes : \E j \in Others(t) : OtherPublishes(t, j)
    \/ \E reuse \in BOOLEAN : Receive(reuse)

Spec == Init /\ [][Next]_vars
-----------------------------------------------------------------------------
TypeOK ==
    /\ self \in Senders
    /\ buffer.form \in Forms /\ buffer.of \in MessageTypes \cup {UNKNOWN}
    /\ \A p \in Threads : call[p].stage # "idle" =>
          p \in self.threads /\ IsStruct(call[p].message.type, call[p].message.struct)
    /\ written.type # UNKNOWN => IsStruct(written.type, written.struct)
    /\ verdict.error \in DeserializeErrors \cup {"unread"}
    /\ verdict.error = "OK" <=> struct # NoStruct /\ verdict # Unread
    /\ struct # NoStruct => IsStruct(struct.type, struct.fields)

(* The receiver has read the packet. *)
Understands(origins) == verdict.error = "OK" /\ packet.origin \in origins

(* A message that serialize() accepted, from the two buffers as it left them. *)
Undisturbed == packet.origin = "own" /\ written.result = "OK"

(* What the library publishes it accepts, as a message of the same type,   *)
(* and reads with the same meaning, whatever the fields hold: the two      *)
(* tables of words agree, a field left out is read as absent, the          *)
(* timestamp and the milliseconds are those that were sent.                *)
ReceivedAsSent ==
    Undisturbed /\ verdict # Unread =>
        /\ verdict.error = "OK"
        /\ struct.type = written.type
        /\ verdict.fresh => SameMeaning(struct.type, written.struct, struct.fields)

(* A message arrives under the piste, publisher and type it was published  *)
(* for or is not accepted at all, also when buildFrom() failed and its     *)
(* value was ignored.  When the other thread came between, its type may be *)
(* that of the other thread's message.                                     *)
AddressedAsMeant ==
    packet.origin \in {"own", "raced"} /\ ParseOk(Parse(packet.topic))
        => /\ <<Parse(packet.topic).piste>> = self.piste
           /\ Parse(packet.topic).publisher = self.publisher
           /\ packet.origin = "own" => Parse(packet.topic).type = written.type

(* As the examples are written: what a thread publishes is the payload it  *)
(* has serialized, on the topic it has built.                              *)
EachOnItsTopic ==
    written.result = "OK" /\ ParseOk(Parse(packet.topic))
        => /\ Parse(packet.topic).type = written.type
           /\ packet.buffer.of = written.type

(* A payload that is on the topic of another type, left in the buffer by a *)
(* serialize() that failed or through the other thread, is refused: the    *)
(* exception is a score taken for lights, which has all of their mandatory *)
(* fields.                                                                 *)
NotMistaken ==
    Understands({"own", "raced"})
        => \/ packet.buffer.of = struct.type
           \/ packet.origin = "raced" /\ struct.type = "lights" /\ packet.buffer.of = "score"

(* The words of a payload that its reader did not know, or did not find,   *)
(* but for the side of a command: parseSide() takes an unknown side for    *)
(* none, which a command may have.                                         *)
Lost(t, j) ==
    {k \in EnumKeys \cap Keys[t] :
        /\ <<t, k>> # <<"control", "side">>
        /\ k \in DOMAIN j => j[k] \notin DOMAIN MeaningOf(k)}

(* What was understood, from whoever it came, means the same to the next   *)
(* reader when the receiver publishes it again; it can do so exactly when  *)
(* no word was lost.                                                       *)
RelayFaithful ==
    Understands({"own", "other"}) /\ verdict.fresh
        => LET t == struct.type
               r == Serialize(t, struct.fields, TRUE, EmptyBuffer)
           IN  /\ r.result = "OK" <=> Lost(t, packet.buffer.json) = {}
               /\ r.result = "OK" =>
                     /\ ReadError(t, r.buffer) = "OK"
                     /\ SameMeaning(t, struct.fields, ReadInto(t, r.buffer.json, Fresh(t)))

(* The fields in which a struct has a time and its string. *)
TimesOf(t, m) == DOMAIN MsOf \cap Told(t, m)

(* A time and the string beside it show the same, whichever of them was    *)
(* received.  A string that was made from milliseconds has all of them but *)
(* the digits formatMs() does not print.  Milliseconds that were made from *)
(* a string are what it shows, unless that needs more than 32 bits (then   *)
(* they wrap: "71583:00" is read as 12.7 s); of the string that is kept    *)
(* only digits of the fraction may be missing.                             *)
TimesAgree ==
    verdict.error = "OK" =>
        \A k \in TimesOf(struct.type, struct.fields) :
            LET j  == packet.buffer.json
                ms == struct.fields[MsOf[k]]
                s  == struct.fields[k]
            IN  /\ MsOf[k] \in DOMAIN j => TimeOk(s) /\ ShownMs(s) = Truncated(ms)
                /\ MsOf[k] \notin DOMAIN j /\ ShownMs(j[k]) < Word =>
                      ms = ShownMs(j[k]) /\ ms - ShownMs(s) \in 0 .. 999

(* A struct that held another message before shows the new one, except for *)
(* optional fields, the two officials and the side of a command where the  *)
(* new message has none.                                                   *)
ReusedAsSent ==
    Undisturbed /\ verdict.error = "OK" =>
        LET t == written.type
            m == written.struct
        IN  \A k \in Told(t, m) :
               \/ SameField(k, m[k], struct.fields[k])
               \/ k \in Optionals /\ ~ m[k].present
               \/ k \in Officials /\ \A o \in Officials : ~ m[o].present
               \/ t = "control" /\ k = "side" /\ m[k] = "NONE"
=============================================================================
