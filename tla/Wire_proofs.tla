----------------------------- MODULE Wire_proofs -----------------------------
(***************************************************************************)
(* Theorems about Wire, for every piste id, every struct that is sent and  *)
(* every payload that other programs publish: first topics, built by       *)
(* buildFrom() and taken apart by parse(), then the fields one by one, then *)
(* what the threads, the buffers and the packet hold (TopicInv, PayloadInv) *)
(* and what the receiver has made of it (ReadInv).                         *)
(***************************************************************************)
EXTENDS Wire, Formats_proofs, SequenceTheorems

Full(id, publisher, t) == <<TOPIC_PREFIX>> \o id \o <<publisher, t>>

(* Short sequences.                                                        *)
LEMMA OneSegment ==
    ASSUME NEW S, NEW x \in S
    PROVE  <<x>> \in Seq(S) /\ Len(<<x>>) = 1 /\ <<x>>[1] = x
  <1>1. <<x>> = Append(<<>>, x)
    OBVIOUS
  <1>2. <<>> \in Seq(S) /\ Len(<<>>) = 0
    OBVIOUS
  <1> QED BY <1>1, <1>2, AppendProperties

LEMMA TwoSegments ==
    ASSUME NEW S, NEW x \in S, NEW y \in S
    PROVE  /\ <<x, y>> \in Seq(S) /\ Len(<<x, y>>) = 2
           /\ <<x, y>>[1] = x /\ <<x, y>>[2] = y
  <1>1. <<x, y>> \in [1 .. 2 -> S]
    OBVIOUS
  <1>2. <<x, y>> \in Seq(S)
    BY <1>1, SeqDef, 2 \in Nat
  <1> QED BY <1>2

(* The segments of a topic that was built. *)
LEMMA FullSegments ==
    ASSUME NEW S, TOPIC_PREFIX \in S, NEW id \in Seq(S), NEW publisher \in S, NEW t \in S
    PROVE  /\ Full(id, publisher, t) \in Seq(S)
           /\ Len(Full(id, publisher, t)) = Len(id) + 3
           /\ Len(id) = 1 => /\ Full(id, publisher, t)[2] = id[1]
                             /\ Full(id, publisher, t)[3] = publisher
                             /\ Full(id, publisher, t)[4] = t
  <1> DEFINE p == <<TOPIC_PREFIX>>
             q == <<publisher, t>>
  <1>1. p \in Seq(S) /\ Len(p) = 1
    BY OneSegment
  <1>2. q \in Seq(S) /\ Len(q) = 2 /\ q[1] = publisher /\ q[2] = t
    BY TwoSegments
  <1>3. Full(id, publisher, t) = (p \o id) \o q
    BY DEF Full
  <1> HIDE DEF p, q
  <1>4. /\ p \o id \in Seq(S) /\ Len(p \o id) = Len(id) + 1
        /\ \A i \in 1 .. Len(id) : (p \o id)[i + 1] = id[i]
    BY <1>1, ConcatProperties
  <1> DEFINE g == p \o id
  <1>5. g \in Seq(S) /\ Len(g) = Len(id) + 1 /\ Len(id) \in Nat
    BY <1>4, LenProperties
  <1> HIDE DEF g
  <1>6. /\ g \o q \in Seq(S) /\ Len(g \o q) = Len(id) + 3
        /\ \A i \in 1 .. Len(id) + 3 :
              (g \o q)[i] = IF i <= Len(id) + 1 THEN g[i] ELSE q[i - (Len(id) + 1)]
    <2>1. /\ g \o q \in Seq(S) /\ Len(g \o q) = Len(g) + Len(q)
          /\ \A i \in 1 .. Len(g) + Len(q) :
                (g \o q)[i] = IF i <= Len(g) THEN g[i] ELSE q[i - Len(g)]
      BY <1>2, <1>5, ConcatProperties
    <2>2. Len(g) = Len(id) + 1 /\ Len(q) = 2 /\ Len(g) + Len(q) = Len(id) + 3
      BY <1>2, <1>5
    <2> QED BY <2>1, <2>2
  <1>7. Len(id) = 1 => (g \o q)[2] = g[2] /\ (g \o q)[3] = q[1] /\ (g \o q)[4] = q[2]
    BY <1>6
  <1>8. /\ (p \o id) \o q \in Seq(S) /\ Len((p \o id) \o q) = Len(id) + 3
        /\ Len(id) = 1 => /\ ((p \o id) \o q)[2] = (p \o id)[2]
                          /\ ((p \o id) \o q)[3] = q[1]
                          /\ ((p \o id) \o q)[4] = q[2]
    BY <1>6, <1>7 DEF g
  <1> QED BY <1>2, <1>3, <1>4, <1>8

(* What parse() accepts of it is what it was built for.                    *)
LEMMA FullParsed ==
    ASSUME NEW S, TOPIC_PREFIX \in S, NEW id \in Seq(S), NEW publisher \in S, NEW t \in S,
           ParseOk(Parse(Full(id, publisher, t)))
    PROVE  /\ <<Parse(Full(id, publisher, t)).piste>> = id
           /\ Parse(Full(id, publisher, t)).publisher = publisher
           /\ Parse(Full(id, publisher, t)).type = t
  <1> DEFINE f == Full(id, publisher, t)
  <1>1. WellFormed(f) /\ Len(f) = 4
    <2>1. WellFormed(f)
      BY DEF ParseOk, Parse, NoTopic
    <2>2. Len(f) = 4
      BY <2>1 DEF ParseOk, Parse
    <2> QED BY <2>1, <2>2
  <1>2. Len(id) = 1 /\ f[2] = id[1] /\ f[3] = publisher /\ f[4] = t
    <2>1. PICK n \in Nat : n = Len(id)
      BY LenProperties
    <2>2. /\ f \in Seq(S)
          /\ Len(f) = Len(id) + 3
          /\ Len(id) = 1 => /\ f[2] = id[1]
                            /\ f[3] = publisher
                            /\ f[4] = t
      BY FullSegments
    <2>3. n + 3 = 4
      BY <1>1, <2>1, <2>2
    <2>4. n = 1
      BY <2>3
    <2>5. Len(id) = 1
      BY <2>1, <2>4
    <2> QED BY <2>2, <2>5
  <1>3. Parse(f) = [piste |-> f[2], publisher |-> PublisherFromString(f[3]),
                    type |-> MessageTypeFromString(f[4])]
    BY <1>1 DEF Parse
  <1>4. PublisherFromString(f[3]) = f[3] /\ MessageTypeFromString(f[4]) = f[4]
    <2>1. PublisherFromString(f[3]) # UNKNOWN /\ MessageTypeFromString(f[4]) # UNKNOWN
      BY <1>3 DEF ParseOk
    <2> QED BY <2>1 DEF PublisherFromString, MessageTypeFromString
  <1>5. <<id[1]>> = id
    BY <1>2
  <1> QED BY <1>2, <1>3, <1>4, <1>5

(* A topic that lost its end is refused.                                   *)
LEMMA CutRefused ==
    ASSUME NEW S, TOPIC_PREFIX \in S, NEW id \in Seq(S), NEW publisher \in S, NEW t \in S
    PROVE  ~ ParseOk(Parse(Cut(Full(id, publisher, t))))
  <1> DEFINE f == Full(id, publisher, t)
             c == Cut(f)
  <1>1. f \in Seq(S) /\ Len(f) \in Nat /\ Len(f) >= 3
    <2>1. Len(id) \in Nat
      BY LenProperties
    <2>2. f \in Seq(S) /\ Len(f) = Len(id) + 3
      BY FullSegments
    <2> QED BY <2>1, <2>2
  <1>2. Len(c) = Len(f) /\ c[Len(c)] = CutShort
    BY <1>1 DEF Cut
  <1>3. MessageTypeFromString(CutShort) = UNKNOWN
    BY DEF MessageTypeFromString, CutShort, MessageTypes
  <1> QED BY <1>2, <1>3 DEF Parse, ParseOk, NoTopic

LEMMA EmptyRefused == ~ ParseOk(Parse(<<>>))
  BY DEF ParseOk, Parse, WellFormed, NoTopic
-----------------------------------------------------------------------------
(* buildFrom() refuses a sender's arguments for all of its messages or for *)
(* none, so that what the buffer holds is always a topic of this sender,   *)
(* whichever thread has built it.                                          *)
ArgumentsRefused ==
    \/ TopicLen(self.piste) \notin 1 .. PISTE_ID_MAX - 1
    \/ self.publisher \notin Publishers

Mine(t) == Full(self.piste, self.publisher, t)

TopicsOf(types) == {<<>>} \cup {Mine(t) : t \in types} \cup {Cut(Mine(t)) : t \in types}

(* The types the sender has anything of. *)
SentTypes == {t \in MessageTypes : Structs(self, t) # {}}

TopicInv ==
    /\ self \in Senders
    /\ ArgumentsRefused => topic = <<>>
    /\ topic \in TopicsOf(SentTypes)
    /\ \A p \in Threads : call[p].stage # "idle" =>
          /\ call[p].message.type \in SentTypes
          /\ call[p].stage = "addressed" => call[p].address \in TopicsOf({call[p].message.type})
    /\ packet.origin \in {"own", "raced"} =>
          packet.topic \in TopicsOf(SentTypes) /\ written.type \in SentTypes
    /\ packet.origin = "own" => packet.topic \in TopicsOf({written.type})

(* What becomes of call when one thread goes on. *)
LEMMA OneCall ==
    ASSUME NEW c, DOMAIN c = Threads, NEW p \in Threads, NEW v
    PROVE  \A q \in Threads : [c EXCEPT ![p] = v][q] = IF q = p THEN v ELSE c[q]
  OBVIOUS

(* Each thread keeps a record of its message. *)
CallInv ==
    /\ DOMAIN call = Threads
    /\ \A p \in Threads : DOMAIN call[p] = {"stage", "message", "payload", "address"}

(* What a step of one thread does to its record.                           *)
LEMMA CallSerialized ==
    ASSUME CallInv, NEW p \in Threads, NEW t, NEW m, NEW fits, Serializes(p, t, m, fits)
    PROVE  LET done == Serialize(t, m, fits, buffer)
               v    == [stage |-> "serialized", payload |-> done.buffer, address |-> <<>>,
                        message |-> [type |-> t, struct |-> m, result |-> done.result]]
           IN  \A q \in Threads : call'[q] = IF q = p THEN v ELSE call[q]
  BY OneCall DEF Serializes, CallInv

LEMMA CallAddressed ==
    ASSUME CallInv, NEW p \in Threads, BuildsTopic(p)
    PROVE  \A q \in Threads :
              /\ q # p => call'[q] = call[q]
              /\ q = p => /\ DOMAIN call'[q] = {"stage", "message", "payload", "address"}
                          /\ call'[q].stage = "addressed" /\ call'[q].address = topic'
                          /\ call'[q].payload = call[q].payload
                          /\ call'[q].message = call[q].message
  <1> DEFINE v == [[call[p] EXCEPT !.stage = "addressed"] EXCEPT !.address = topic']
  <1>1. call' = [call EXCEPT ![p] = v]
    BY DEF BuildsTopic, CallInv
  <1>2. DOMAIN call[p] = {"stage", "message", "payload", "address"}
    BY DEF CallInv
  <1>3. /\ DOMAIN v = {"stage", "message", "payload", "address"}
        /\ v.stage = "addressed" /\ v.address = topic'
        /\ v.payload = call[p].payload /\ v.message = call[p].message
    BY <1>2
  <1> HIDE DEF v
  <1>4. \A q \in Threads : call'[q] = IF q = p THEN v ELSE call[q]
    BY <1>1, OneCall DEF CallInv
  <1> QED BY <1>3, <1>4

LEMMA CallEnded ==
    ASSUME CallInv, NEW p \in Threads, MosquittoPublishes(p)
    PROVE  \A q \in Threads :
              /\ q # p => call'[q] = call[q]
              /\ q = p => /\ call'[q].stage = "idle"
                          /\ DOMAIN call'[q] = {"stage", "message", "payload", "address"}
  <1> DEFINE v == [NoCall EXCEPT !.message.type = call[p].message.type]
  <1>1. v.stage = "idle" /\ DOMAIN v = {"stage", "message", "payload", "address"}
    BY DEF NoCall
  <1>2. call' = [call EXCEPT ![p] = v]
    BY DEF MosquittoPublishes
  <1> HIDE DEF v
  <1> QED BY <1>1, <1>2, OneCall DEF CallInv

LEMMA CallAlways == Spec => []CallInv
  <1>1. Init => CallInv
    BY DEF Init, CallInv, NoCall
  <1>2. CallInv /\ [Next]_vars => CallInv'
    <2> SUFFICES ASSUME CallInv, [Next]_vars PROVE CallInv'
      OBVIOUS
    <2>1. ASSUME NEW p \in Threads, NEW t, NEW m, NEW fits, Serializes(p, t, m, fits)
          PROVE  CallInv'
      <3>1. DOMAIN call' = Threads
        BY <2>1 DEF Serializes, CallInv
      <3> QED BY <2>1, <3>1, CallSerialized DEF CallInv
    <2>2. ASSUME NEW p \in Threads, BuildsTopic(p) PROVE CallInv'
      <3>1. DOMAIN call' = Threads
        BY <2>2 DEF BuildsTopic, CallInv
      <3> QED BY <2>2, <3>1, CallAddressed DEF CallInv
    <2>3. ASSUME NEW p \in Threads, MosquittoPublishes(p) PROVE CallInv'
      <3>1. DOMAIN call' = Threads
        BY <2>3 DEF MosquittoPublishes, CallInv
      <3> QED BY <2>3, <3>1, CallEnded DEF CallInv
    <2>4. CASE call' = call
      BY <2>4 DEF CallInv
    <2> QED BY <2>1, <2>2, <2>3, <2>4 DEF Next, OtherPublishes, Receive, vars
  <1> QED BY <1>1, <1>2, PTL DEF Spec

LEMMA TopicSerialized ==
    ASSUME TopicInv, CallInv, NEW p \in Threads, NEW t \in MessageTypes,
           NEW m \in Structs(self, t), NEW fits, Serializes(p, t, m, fits)
    PROVE  TopicInv'
  <1>1. self' = self /\ topic' = topic /\ packet'.origin = "nobody"
    BY DEF Serializes, Forgets, NoPacket
  <1>2. /\ ArgumentsRefused' = ArgumentsRefused /\ SentTypes' = SentTypes
        /\ \A types : TopicsOf(types)' = TopicsOf(types)
    BY <1>1 DEF ArgumentsRefused, SentTypes, TopicsOf, Mine
  <1>3. \A q \in Threads : /\ q # p => call'[q] = call[q]
                           /\ q = p => /\ call'[q].stage = "serialized"
                                       /\ call'[q].message.type = t
    <2> DEFINE done == Serialize(t, m, fits, buffer)
               v    == [stage |-> "serialized", payload |-> done.buffer, address |-> <<>>,
                        message |-> [type |-> t, struct |-> m, result |-> done.result]]
    <2>1. \A q \in Threads : call'[q] = IF q = p THEN v ELSE call[q]
      BY CallSerialized
    <2>2. v.stage = "serialized" /\ v.message.type = t
      OBVIOUS
    <2> HIDE DEF v
    <2> QED BY <2>1, <2>2
  <1>4. t \in SentTypes
    BY DEF SentTypes
  <1> QED BY <1>1, <1>2, <1>3, <1>4 DEF TopicInv

LEMMA TopicBuilt ==
    ASSUME TopicInv, CallInv, NEW p \in Threads, BuildsTopic(p)
    PROVE  TopicInv'
  <1> DEFINE t == call[p].message.type
  <1>1. self' = self /\ packet'.origin = "nobody"
    BY DEF BuildsTopic, Forgets, NoPacket
  <1>2. /\ ArgumentsRefused' = ArgumentsRefused /\ SentTypes' = SentTypes
        /\ \A types : TopicsOf(types)' = TopicsOf(types)
    BY <1>1 DEF ArgumentsRefused, SentTypes, TopicsOf, Mine
  <1>3. t \in SentTypes /\ t \in MessageTypes
    BY DEF BuildsTopic, TopicInv, SentTypes
  <1>4. topic' = Build(self.piste, self.publisher, t, TOPIC_SIZE, topic).topic
    BY DEF BuildsTopic
  <1>5. topic' \in TopicsOf({t}) /\ (ArgumentsRefused => topic' = <<>>)
    <2>1. CASE ArgumentsRefused
      <3>1. topic' = <<>>
        BY <1>4, <2>1 DEF TopicInv, Build, ArgumentsRefused
      <3> QED BY <3>1 DEF TopicsOf
    <2>2. CASE ~ ArgumentsRefused
      <3>1. topic' \in {Mine(t), Cut(Mine(t))}
        BY <1>3, <1>4, <2>2 DEF Build, ArgumentsRefused, Mine, Full
      <3> QED BY <2>2, <3>1 DEF TopicsOf
    <2> QED BY <2>1, <2>2
  <1>6. topic' \in TopicsOf(SentTypes)
    BY <1>3, <1>5 DEF TopicsOf
  <1>7. \A q \in Threads : /\ q # p => call'[q] = call[q]
                           /\ q = p => call'[q].message.type = t /\ call'[q].address = topic'
    BY CallAddressed
  <1> HIDE DEF t
  <1> QED BY <1>1, <1>2, <1>3, <1>5, <1>6, <1>7 DEF TopicInv

LEMMA TopicSent ==
    ASSUME TopicInv, CallInv, NEW p \in Threads, MosquittoPublishes(p)
    PROVE  TopicInv'
  <1>1. /\ self' = self /\ topic' = topic /\ written' = call[p].message
        /\ packet'.topic = topic
        /\ packet'.origin = "own" => topic = call[p].address
        /\ call[p].stage = "addressed"
    BY DEF MosquittoPublishes
  <1>2. /\ ArgumentsRefused' = ArgumentsRefused /\ SentTypes' = SentTypes
        /\ \A types : TopicsOf(types)' = TopicsOf(types)
    BY <1>1 DEF ArgumentsRefused, SentTypes, TopicsOf, Mine
  <1>3. \A q \in Threads : /\ q # p => call'[q] = call[q]
                           /\ q = p => call'[q].stage = "idle"
    BY CallEnded
  <1> QED BY <1>1, <1>2, <1>3 DEF TopicInv

LEMMA TopicAlways == Spec => []TopicInv
  <1>1. Init => TopicInv
    BY DEF Init, TopicInv, NoPacket, NoCall, TopicsOf
  <1>2. TopicInv /\ CallInv /\ [Next]_vars => TopicInv'
    <2> SUFFICES ASSUME TopicInv, CallInv, [Next]_vars PROVE TopicInv'
      OBVIOUS
    <2>1. ASSUME NEW p \in Threads, NEW t \in MessageTypes, NEW m \in Structs(self, t), NEW fits,
                 Serializes(p, t, m, fits)
          PROVE  TopicInv'
      BY <2>1, TopicSerialized
    <2>2. ASSUME NEW p \in Threads, BuildsTopic(p) PROVE TopicInv'
      BY <2>2, TopicBuilt
    <2>3. ASSUME NEW p \in Threads, MosquittoPublishes(p) PROVE TopicInv'
      BY <2>3, TopicSent
    <2>4. ASSUME UNCHANGED <<self, topic, call, written>>,
                 packet' = packet \/ packet'.origin = "other"
          PROVE  TopicInv'
      <3>1. /\ ArgumentsRefused' = ArgumentsRefused /\ SentTypes' = SentTypes
            /\ \A types : TopicsOf(types)' = TopicsOf(types)
        BY <2>4 DEF ArgumentsRefused, SentTypes, TopicsOf, Mine
      <3> QED BY <2>4, <3>1 DEF TopicInv
    <2>5. ASSUME NEW t, NEW j, OtherPublishes(t, j) PROVE TopicInv'
      BY <2>4, <2>5 DEF OtherPublishes
    <2>6. ASSUME NEW reuse, Receive(reuse) PROVE TopicInv'
      BY <2>4, <2>6 DEF Receive
    <2>7. CASE UNCHANGED vars
      BY <2>4, <2>7 DEF vars
    <2> QED BY <2>1, <2>2, <2>3, <2>5, <2>6, <2>7 DEF Next
  <1> QED BY <1>1, <1>2, CallAlways, PTL DEF Spec

(* A topic of this sender that parse() accepts.                            *)
LEMMA Meant ==
    ASSUME self \in Senders, NEW types \in SUBSET MessageTypes, NEW found \in TopicsOf(types),
           ParseOk(Parse(found))
    PROVE  /\ <<Parse(found).piste>> = self.piste
           /\ Parse(found).publisher = self.publisher
           /\ Parse(found).type \in types
  <1> DEFINE Text == STRING \cup {TOPIC_PREFIX, self.publisher} \cup types
  <1>1. self.piste \in Seq(STRING)
    BY SendersAssumption
  <1>2. /\ self.piste \in Seq(Text) /\ TOPIC_PREFIX \in Text /\ self.publisher \in Text
        /\ \A t \in types : t \in Text
    BY <1>1, SeqMonotonic
  <1> HIDE DEF Text
  <1>3. PICK t \in types : found = Mine(t)
    BY <1>2, EmptyRefused, CutRefused DEF TopicsOf, Mine
  <1> QED BY <1>2, <1>3, FullParsed DEF Mine

(* A message is accepted under no other piste or publisher than its        *)
(* sender's and, unless the other thread came between, under no other type *)
(* than it was published for: whatever the piste id, and although          *)
(* opp2Publish() ignores what buildFrom() returns.                         *)
THEOREM Addressed == Spec => []AddressedAsMeant
  <1>1. TopicInv => AddressedAsMeant
    <2> SUFFICES ASSUME TopicInv, packet.origin \in {"own", "raced"},
                        ParseOk(Parse(packet.topic))
                 PROVE  /\ <<Parse(packet.topic).piste>> = self.piste
                        /\ Parse(packet.topic).publisher = self.publisher
                        /\ packet.origin = "own" => Parse(packet.topic).type = written.type
      BY DEF AddressedAsMeant
    <2>1. SentTypes \subseteq MessageTypes /\ written.type \in MessageTypes
      BY DEF TopicInv, SentTypes
    <2>2. /\ <<Parse(packet.topic).piste>> = self.piste
          /\ Parse(packet.topic).publisher = self.publisher
      BY <2>1, Meant DEF TopicInv
    <2>3. packet.origin = "own" => Parse(packet.topic).type \in {written.type}
      BY <2>1, Meant DEF TopicInv
    <2> QED BY <2>2, <2>3
  <1> QED BY <1>1, TopicAlways, PTL
-----------------------------------------------------------------------------
(* The keys of a message are not those of its objects.                     *)
LEMMA KeyNames ==
    ASSUME NEW t \in MessageTypes
    PROVE  /\ "protocol" \notin Keys[t] /\ "right" \notin Keys[t] /\ "left" \notin Keys[t]
           /\ "common" \notin Keys[t]
           /\ t # "fencers" => Keys[t] \cap Officials = {}
           /\ "online" \in Keys[t] => t = "connection"
           /\ t = "connection" => Keys[t] = {"seq", "online", "device", "fw_version"}
           /\ t = "medical" => Keys[t] = {"seq", "active", "side", "duration_ms",
                                          "remaining_ms", "remaining"}
           /\ t = "control" => Keys[t] = {"seq", "ts", "command", "side", "duration"}
  BY DEF MessageTypes, Keys, Officials

LEMMA KeyClasses ==
    /\ DOMAIN MsOf = {"time", "remaining"}
    /\ MsOf["time"] = "time_ms" /\ MsOf["remaining"] = "remaining_ms"
    /\ Optionals = {"device", "fw_version", "scheduled", "duration"}
    /\ Persons = {"left.fencer", "right.fencer", "left.coach", "right.coach",
                  "common.referee", "common.video_official"}
    /\ Officials = {"common.referee", "common.video_official"}
    /\ Coaches = {"left.coach", "right.coach"}
    /\ Fencer = {"left.fencer", "right.fencer"}
    /\ Calls = {"left.calls", "right.calls"}
    /\ EnumKeys = {"right.status", "left.status", "priority", "state", "weapon", "type",
                   "phase_type", "command", "side"}
  BY DEF MsOf, Optionals, Persons, Officials, Coaches, Fencer, Calls, EnumKeys, Statuses

(* What serialize() writes is there to be read.                            *)
LEMMA JsonShape ==
    ASSUME NEW t \in MessageTypes, NEW m
    PROVE  /\ \A k \in Written(t, m) : k \in DOMAIN JsonOf(t, m) /\ JsonOf(t, m)[k] = ValueOut(m, k)
           /\ \A k \in Keys[t] : k \in DOMAIN JsonOf(t, m) <=> k \in Written(t, m)
           /\ Objects(t, m) \subseteq DOMAIN JsonOf(t, m)
           /\ "common" \in DOMAIN JsonOf(t, m) <=> "common" \in Objects(t, m)
           /\ "protocol" \in DOMAIN JsonOf(t, m) => JsonOf(t, m)["protocol"] = PROTOCOL_ID
           /\ \A k \in DOMAIN JsonOf(t, m) :
                 k \in Keys[t] \cup {"right", "left", "common", "protocol"}
  <1>1. Objects(t, m) \subseteq {"right", "left", "common"}
    BY DEF Objects
  <1>2. Written(t, m) \subseteq Keys[t]
    BY DEF Written
  <1>3. /\ \A k \in Written(t, m) : k \in DOMAIN JsonOf(t, m) /\ JsonOf(t, m)[k] = ValueOut(m, k)
        /\ Objects(t, m) \subseteq DOMAIN JsonOf(t, m)
    BY DEF JsonOf
  <1>4. \A k \in DOMAIN JsonOf(t, m) :
           k \in Written(t, m) \/ k \in Objects(t, m) \/ k = "protocol"
    BY DEF JsonOf
  <1>5. "protocol" \in DOMAIN JsonOf(t, m) => JsonOf(t, m)["protocol"] = PROTOCOL_ID
    BY <1>1, <1>2, KeyNames DEF JsonOf
  <1> QED BY <1>1, <1>2, <1>3, <1>4, <1>5, KeyNames

(* The words: what the switch statements write the strcmp() chains read.   *)
LEMMA WordsAgree ==
    ASSUME NEW k \in EnumKeys, NEW v \in DOMAIN WireForm[Table(k)]
    PROVE  /\ WireForm[Table(k)][v] \in DOMAIN MeaningOf(k)
           /\ MeaningOf(k)[WireForm[Table(k)][v]] = v
  <1>1. CASE k \in Statuses
    BY <1>1 DEF Table, WireForm, MeaningOf, Meaning
  <1>2. CASE k = "priority"
    BY <1>2 DEF Table, WireForm, MeaningOf, Meaning, Statuses
  <1>3. CASE k = "state"
    BY <1>3 DEF Table, WireForm, MeaningOf, Meaning, Statuses
  <1>4. CASE k = "weapon"
    BY <1>4 DEF Table, WireForm, MeaningOf, Meaning, Statuses
  <1>5. CASE k = "type"
    BY <1>5 DEF Table, WireForm, MeaningOf, Meaning, Statuses
  <1>6. CASE k = "phase_type"
    BY <1>6 DEF Table, WireForm, MeaningOf, Meaning, Statuses
  <1>7. CASE k = "command"
    BY <1>7 DEF Table, WireForm, MeaningOf, Meaning, Statuses
  <1>8. CASE k = "side"
    BY <1>8 DEF Table, WireForm, MeaningOf, Meaning, Statuses
  <1> QED BY <1>1, <1>2, <1>3, <1>4, <1>5, <1>6, <1>7, <1>8 DEF EnumKeys

(* ... and the other way round: each word has one meaning, which is        *)
(* written as that word.                                                   *)
LEMMA WordsKnown ==
    ASSUME NEW k \in EnumKeys, NEW w \in DOMAIN MeaningOf(k)
    PROVE  MeaningOf(k)[w] \in DOMAIN WireForm[Table(k)]
  <1>1. CASE k \in Statuses
    BY <1>1 DEF Table, WireForm, MeaningOf, Meaning
  <1>2. CASE k = "priority"
    BY <1>2 DEF Table, WireForm, MeaningOf, Meaning, Statuses
  <1>3. CASE k = "state"
    BY <1>3 DEF Table, WireForm, MeaningOf, Meaning, Statuses
  <1>4. CASE k = "weapon"
    BY <1>4 DEF Table, WireForm, MeaningOf, Meaning, Statuses
  <1>5. CASE k = "type"
    BY <1>5 DEF Table, WireForm, MeaningOf, Meaning, Statuses
  <1>6. CASE k = "phase_type"
    BY <1>6 DEF Table, WireForm, MeaningOf, Meaning, Statuses
  <1>7. CASE k = "command"
    BY <1>7 DEF Table, WireForm, MeaningOf, Meaning, Statuses
  <1>8. CASE k = "side"
    BY <1>8 DEF Table, WireForm, MeaningOf, Meaning, Statuses
  <1> QED BY <1>1, <1>2, <1>3, <1>4, <1>5, <1>6, <1>7, <1>8 DEF EnumKeys

(* A list of calls keeps every decision.                                   *)
LEMMA CallsBack ==
    ASSUME NEW v \in Seq([id : Nat, granted : Granted]), Len(v) <= MaxCalls,
           NEW j, NEW k \in DOMAIN j, j[k] = [i \in DOMAIN v |-> CallOut(v[i])]
    PROVE  CallsIn(k, j) = v
  <1>1. DOMAIN v = 1 .. Len(v) /\ Len(v) \in Nat /\ v = [i \in DOMAIN v |-> v[i]]
    BY LenProperties
  <1>2. ASSUME NEW i \in DOMAIN v PROVE CallIn(CallOut(v[i])) = v[i]
    <2>1. v[i] \in [id : Nat, granted : Granted]
      BY <1>1, ElementOfSeq
    <2>2. CASE v[i].granted = "GRANTED"
      BY <2>1, <2>2 DEF CallIn, CallOut
    <2>3. CASE v[i].granted = "DENIED"
      BY <2>1, <2>3 DEF CallIn, CallOut
    <2>4. CASE v[i].granted = "PENDING"
      BY <2>1, <2>4 DEF CallIn, CallOut
    <2> QED BY <2>1, <2>2, <2>3, <2>4 DEF Granted
  <1>3. DOMAIN j[k] = DOMAIN v /\ \A i \in DOMAIN v : j[k][i] = CallOut(v[i])
    OBVIOUS
  <1>4. {n \in DOMAIN j[k] : n <= MaxCalls} = DOMAIN v
    BY <1>1, <1>3, MaxCallsAssumption
  <1>5. CallsIn(k, j) = [i \in DOMAIN v |-> CallIn(j[k][i])]
    BY <1>4 DEF CallsIn
  <1>6. CallsIn(k, j) = [i \in DOMAIN v |-> v[i]]
    BY <1>2, <1>3, <1>5
  <1> QED BY <1>1, <1>6

(* A field that was written means the same when it is read.                *)
LEMMA FieldBack ==
    ASSUME NEW t \in MessageTypes, NEW m, IsStruct(t, m), ~ Refused(t, m),
           NEW k \in Written(t, m), NEW was
    PROVE  SameField(k, m[k], ValueIn(k, JsonOf(t, m), was))
  <1> DEFINE j == JsonOf(t, m)
  <1>1. k \in DOMAIN j /\ j[k] = ValueOut(m, k)
    BY JsonShape
  <1>2. k \in Keys[t] /\ FieldOK(k, m[k])
    BY DEF Written, IsStruct
  <1> HIDE DEF j
  <1> SUFFICES \/ ValueIn(k, j, was) = m[k]
               \/ k \in DOMAIN MsOf
               \/ k \in Fencer /\ ValueIn(k, j, was).value = m[k].value
    BY DEF j, SameField
  <1>3. CASE k = "ts"
    <2>1. j[k] = Encode(m[k])
      BY <1>1, <1>3, KeyClasses DEF ValueOut
    <2>2. m[k] \in TimestampType /\ m[k].value < Low
      BY <1>2, <1>3, KeyClasses DEF FieldOK, Switches
    <2>3. ValueIn(k, j, was) = Decode(j[k])
      BY <1>1, <1>3, KeyClasses DEF ValueIn
    <2> QED BY <2>1, <2>2, <2>3, TimestampRoundTrip
  <1>4. CASE k \in {"time_ms", "remaining_ms"}
    <2>1. j[k] = m[k]
      BY <1>1, <1>4, KeyClasses DEF ValueOut
    <2>2. ValueIn(k, j, was) = j[k]
      BY <1>1, <1>4, KeyClasses DEF ValueIn, MsIn
    <2> QED BY <2>1, <2>2
  <1>5. CASE k \in EnumKeys
    <2>1. m[k] \in DOMAIN WireForm[Table(k)]
      BY <1>5 DEF Refused
    <2>2. j[k] = WireForm[Table(k)][m[k]]
      BY <1>1, <1>5, KeyClasses DEF ValueOut
    <2>3. j[k] \in DOMAIN MeaningOf(k) /\ MeaningOf(k)[j[k]] = m[k]
      BY <1>5, <2>1, <2>2, WordsAgree
    <2>4. ValueIn(k, j, was) = MeaningOf(k)[j[k]]
      BY <1>1, <1>5, <2>3, KeyClasses DEF ValueIn, Understood
    <2> QED BY <2>3, <2>4
  <1>6. CASE k \in Optionals \cup Persons
    <2>1. j[k] = m[k].value
      BY <1>1, <1>6, KeyClasses DEF ValueOut
    <2>2. ValueIn(k, j, was) = Present(m[k].value)
      BY <1>1, <1>6, <2>1, KeyClasses DEF ValueIn
    <2>3. k \notin Fencer => m[k].present
      BY <1>6, KeyClasses DEF Written, Omitted
    <2>4. m[k] = [present |-> m[k].present, value |-> m[k].value] /\ m[k].present \in BOOLEAN
      BY <1>2, <1>6, KeyClasses DEF FieldOK, Switches
    <2>5. CASE k \in Fencer
      BY <2>2, <2>5 DEF Present
    <2>6. CASE k \notin Fencer
      BY <2>2, <2>3, <2>4, <2>6 DEF Present
    <2> QED BY <2>5, <2>6
  <1>7. CASE k \in Calls
    <2>1. j[k] = [i \in DOMAIN m[k] |-> CallOut(m[k][i])]
      BY <1>1, <1>7, KeyClasses DEF ValueOut
    <2>2. m[k] \in Seq([id : Nat, granted : Granted]) /\ Len(m[k]) <= MaxCalls
      BY <1>2, <1>7, KeyClasses DEF FieldOK, Switches
    <2>3. ValueIn(k, j, was) = CallsIn(k, j)
      BY <1>7, KeyClasses DEF ValueIn
    <2> QED BY <1>1, <2>1, <2>2, <2>3, CallsBack
  <1>8. CASE k \notin {"ts", "time_ms", "remaining_ms"} \cup EnumKeys \cup Optionals \cup Persons
                        \cup Calls \cup DOMAIN MsOf
    <2>1. j[k] = m[k]
      BY <1>1, <1>8 DEF ValueOut
    <2>2. ValueIn(k, j, was) = j[k]
      BY <1>1, <1>8 DEF ValueIn
    <2> QED BY <2>1, <2>2
  <1> QED BY <1>3, <1>4, <1>5, <1>6, <1>7, <1>8

(* What a message may leave untold it tells by fields that are written.    *)
LEMMA ToldWritten ==
    ASSUME NEW t \in MessageTypes, NEW m
    PROVE  /\ t = "connection" => "online" \in Written(t, m) /\ JsonOf(t, m)["online"] = m["online"]
           /\ t = "medical" => "active" \in Written(t, m) /\ JsonOf(t, m)["active"] = m["active"]
           /\ Told(t, JsonOf(t, m)) = Told(t, m)
  <1>1. ASSUME t = "connection"
        PROVE  "online" \in Written(t, m) /\ ValueOut(m, "online") = m["online"]
    BY <1>1, KeyNames, KeyClasses DEF Written, Omitted, ValueOut
  <1>2. ASSUME t = "medical"
        PROVE  "active" \in Written(t, m) /\ ValueOut(m, "active") = m["active"]
    BY <1>2, KeyNames, KeyClasses DEF Written, Omitted, ValueOut
  <1>3. t = "connection" => "online" \in Written(t, m) /\ JsonOf(t, m)["online"] = m["online"]
    BY <1>1, JsonShape
  <1>4. t = "medical" => "active" \in Written(t, m) /\ JsonOf(t, m)["active"] = m["active"]
    BY <1>2, JsonShape
  <1> QED BY <1>3, <1>4 DEF Told

(* What was written is read.                                               *)
LEMMA WrittenTouched ==
    ASSUME NEW t \in MessageTypes, NEW m, NEW k \in Written(t, m), k \in Told(t, m)
    PROVE  k \notin Untouched(t, JsonOf(t, m))
  <1> DEFINE j == JsonOf(t, m)
  <1>1. k \in Keys[t] /\ k \in DOMAIN j
    BY JsonShape DEF Written
  <1>2. k \in Officials => "common" \in DOMAIN j
    <2> SUFFICES ASSUME k \in Officials PROVE "common" \in DOMAIN j
      OBVIOUS
    <2>1. t = "fencers" /\ m[k].present
      BY <1>1, KeyNames DEF Written, Omitted
    <2>2. "common" \in Objects(t, m)
      BY <2>1 DEF Objects
    <2> QED BY <2>2, JsonShape
  <1>3. Told(t, j) = Told(t, m)
    BY ToldWritten
  <1> QED BY <1>1, <1>2, <1>3 DEF Untouched

(* The way back: what serialize() accepts, deserialize() reads into a    *)
(* fresh struct with the same meaning.                                     *)
LEMMA MeaningBack ==
    ASSUME NEW t \in MessageTypes, NEW m, IsStruct(t, m), ~ Refused(t, m)
    PROVE  SameMeaning(t, m, ReadInto(t, JsonOf(t, m), Fresh(t)))
  <1> DEFINE j == JsonOf(t, m)
             n == ReadInto(t, j, Fresh(t))
  <1>1. \A k \in Keys[t] :
           n[k] = IF k \in Untouched(t, j) THEN Initial(k) ELSE ValueIn(k, j, Initial(k))
    BY DEF ReadInto, Fresh
  <1>2. \A k \in Keys[t] : k \in DOMAIN j <=> k \in Written(t, m)
    BY JsonShape
  <1>3. Told(t, j) = Told(t, m) /\ Told(t, m) \subseteq Keys[t]
    BY ToldWritten, KeyNames DEF Told
  <1>4. /\ t = "connection" => j["online"] = m["online"] /\ "online" \in Written(t, m)
        /\ t = "medical" => j["active"] = m["active"] /\ "active" \in Written(t, m)
    BY ToldWritten
  <1>5. ASSUME NEW k \in Written(t, m), k \in Told(t, m) PROVE k \notin Untouched(t, j)
    BY <1>5, WrittenTouched
  <1> HIDE DEF j, n
  <1>6. ASSUME NEW k \in Told(t, m) PROVE SameField(k, m[k], n[k])
    <2>1. k \in Keys[t]
      BY <1>3, <1>6
    <2>2. CASE k \in Written(t, m)
      <3>1. n[k] = ValueIn(k, j, Initial(k))
        BY <1>1, <1>5, <1>6, <2>1, <2>2
      <3> QED BY <2>2, <3>1, FieldBack DEF j
    <2>3. CASE k \notin Written(t, m)
      <3>1. k \notin DOMAIN j /\ k \in Omitted(t, m)
        BY <1>2, <2>1, <2>3 DEF Written
      <3>2. CASE k \in Optionals \cup Coaches \cup Officials /\ ~ m[k].present
        <4>1. Initial(k) = Absent
          BY <3>2, KeyClasses DEF Initial, Switches, Texts
        <4>2. CASE k \in Untouched(t, j)
          BY <1>1, <2>1, <3>2, <4>1, <4>2 DEF Absent, SameField
        <4>3. CASE k \notin Untouched(t, j)
          <5>1. k \notin Optionals
            BY <2>1, <3>1, <4>3 DEF Untouched
          <5>2. ValueIn(k, j, Initial(k)) = [present |-> FALSE, value |-> Absent.value]
            BY <3>1, <3>2, <4>1, <5>1, KeyClasses DEF ValueIn
          <5> QED BY <1>1, <2>1, <3>2, <4>3, <5>2 DEF Absent, SameField
        <4> QED BY <4>2, <4>3
      <3>3. CASE t = "control" /\ k = "side" /\ m[k] = "NONE"
        <4>1. k \in Untouched(t, j)
          BY <2>1, <3>1, <3>3 DEF Untouched
        <4>2. Initial(k) = "NONE"
          BY <3>3, KeyClasses DEF Initial, EnumInitial, Switches, Texts, Statuses
        <4> QED BY <1>1, <2>1, <3>3, <4>1, <4>2 DEF SameField
      <3>4. CASE /\ t = "medical" /\ ~ m["active"]
                 /\ k \in {"duration_ms", "remaining_ms", "remaining"}
        BY <1>6, <3>4 DEF Told
      <3>5. CASE t = "connection" /\ ~ m["online"] /\ k # "online"
        BY <1>6, <3>5 DEF Told
      <3> QED BY <3>1, <3>2, <3>3, <3>4, <3>5 DEF Omitted
    <2> QED BY <2>2, <2>3
  <1>7. Told(t, n) = Told(t, m)
    <2>1. t = "connection" => n["online"] = m["online"]
      <3> SUFFICES ASSUME t = "connection" PROVE n["online"] = m["online"]
        OBVIOUS
      <3>1. "online" \in Told(t, m)
        BY KeyNames DEF Told
      <3> QED BY <1>6, <3>1, KeyClasses DEF SameField
    <2>2. t = "medical" => n["active"] = m["active"]
      <3> SUFFICES ASSUME t = "medical" PROVE n["active"] = m["active"]
        OBVIOUS
      <3>1. "active" \in Told(t, m)
        BY KeyNames DEF Told
      <3> QED BY <1>6, <3>1, KeyClasses DEF SameField
    <2> QED BY <2>1, <2>2 DEF Told
  <1>8. SameMeaning(t, m, n)
    BY <1>6, <1>7 DEF SameMeaning
  <1> QED BY <1>8 DEF j, n

(* What an accepted payload has.                                           *)
LEMMA Accepted ==
    ASSUME NEW t \in MessageTypes, NEW packed, ReadError(t, packed) = "OK"
    PROVE  /\ packed.form = "object"
           /\ t = "connection" => "online" \in DOMAIN packed.json
           /\ t = "clock" => "time_ms" \in DOMAIN packed.json
           /\ t = "uw2f" => \/ "time_ms" \in DOMAIN packed.json
                            \/ "time" \in DOMAIN packed.json /\ TimeOk(packed.json["time"])
           /\ t = "medical" => {"active", "side"} \subseteq DOMAIN packed.json
           /\ t = "medical" /\ packed.json["active"] =>
                 \/ "remaining_ms" \in DOMAIN packed.json
                 \/ "remaining" \in DOMAIN packed.json /\ TimeOk(packed.json["remaining"])
           /\ t = "fencers" => Fencer \subseteq DOMAIN packed.json
           /\ t = "lights" => "right" \in DOMAIN packed.json
           /\ t = "score" => "right.score" \in DOMAIN packed.json
           /\ t = "state" => "state" \in DOMAIN packed.json
           /\ t = "match" => "weapon" \in DOMAIN packed.json
           /\ t = "control" => "command" \in DOMAIN packed.json
  <1> DEFINE j == packed.json
             p == AsPayload(t, j)
  <1>1. packed.form = "object" /\ DeserError(t, p) = "OK" /\ p.form = "object"
    BY DEF ReadError, AsPayload
  <1>2. IsOffline(t, p) \/ Complete(t, p)
    BY <1>1 DEF DeserError
  <1>3. p.has = {k \in DOMAIN j : k \in DOMAIN MsOf => TimeOk(j[k])}
    BY DEF AsPayload
  <1>4. t = "connection" => "online" \in DOMAIN j
    <2>1. CASE IsOffline(t, p)
      BY <1>3, <2>1 DEF IsOffline
    <2>2. CASE Complete(t, p)
      <3> SUFFICES ASSUME t = "connection" PROVE "online" \in DOMAIN j
        OBVIOUS
      <3>1. {"online"} \in Required(t, p)
        BY DEF Required, Mandatory, MandatoryInAction, MandatoryInBout, MandatoryInPause, Clause
      <3> QED BY <1>3, <2>2, <3>1 DEF Complete
    <2> QED BY <1>2, <2>1, <2>2
  <1>5. ASSUME t # "connection", NEW f, {f} \in Mandatory[t] PROVE f \in DOMAIN j
    BY <1>2, <1>3, <1>5 DEF IsOffline, Complete, Required
  <1>6. t = "uw2f" => \/ "time_ms" \in DOMAIN j
                      \/ "time" \in DOMAIN j /\ TimeOk(j["time"])
    <2> SUFFICES ASSUME t = "uw2f" PROVE \E f \in {"time_ms", "time"} : f \in p.has
      BY <1>3, KeyClasses
    <2>1. {"time_ms", "time"} \in Required(t, p)
      BY DEF Required, Mandatory, MandatoryInAction, MandatoryInBout, MandatoryInPause
    <2> QED BY <1>2, <2>1 DEF IsOffline, Complete
  <1>7. t = "medical" /\ j["active"] =>
                 \/ "remaining_ms" \in DOMAIN j
                 \/ "remaining" \in DOMAIN j /\ TimeOk(j["remaining"])
    <2> SUFFICES ASSUME t = "medical", j["active"]
                 PROVE \E f \in {"remaining_ms", "remaining"} : f \in p.has
      BY <1>3, KeyClasses
    <2>0. "active" \in DOMAIN j
      <3>1. {"active"} \in Mandatory[t]
        BY DEF Mandatory, MandatoryInAction, MandatoryInBout, MandatoryInPause, Clause, MessageTypes
      <3> QED BY <1>5, <3>1
    <2>1. p.flag
      BY <2>0 DEF AsPayload
    <2>2. {"remaining_ms", "remaining"} \in Required(t, p)
      BY <2>1 DEF Required, MandatoryWhenActive
    <2> QED BY <1>2, <2>2 DEF IsOffline, Complete
  <1>8. /\ t = "clock" => {"time_ms"} \in Mandatory[t]
        /\ t = "lights" => {"right"} \in Mandatory[t]
        /\ t = "score" => {"right.score"} \in Mandatory[t]
    BY DEF Mandatory, MandatoryInAction, MandatoryInBout, MandatoryInPause, Clause
  <1>9. /\ t = "fencers" => {"left.fencer"} \in Mandatory[t] /\ {"right.fencer"} \in Mandatory[t]
        /\ t = "state" => {"state"} \in Mandatory[t]
        /\ t = "match" => {"weapon"} \in Mandatory[t]
    BY DEF Mandatory, MandatoryInAction, MandatoryInBout, MandatoryInPause, Clause
  <1>10. /\ t = "medical" => {"active"} \in Mandatory[t] /\ {"side"} \in Mandatory[t]
         /\ t = "control" => {"command"} \in Mandatory[t]
    BY DEF Mandatory, MandatoryInAction, MandatoryInBout, MandatoryInPause, Clause
  <1> QED BY <1>1, <1>4, <1>5, <1>6, <1>7, <1>8, <1>9, <1>10, KeyClasses

(* Which types have which fields.                                          *)
LEMMA KeyTypes ==
    ASSUME NEW t \in MessageTypes
    PROVE  /\ "time_ms" \in Keys[t] => t \in {"clock", "uw2f"}
           /\ "time" \in Keys[t] => t \in {"clock", "uw2f"}
           /\ "remaining_ms" \in Keys[t] => t = "medical"
           /\ "remaining" \in Keys[t] => t = "medical"
           /\ {"time_ms", "time"} \subseteq Keys["clock"]
           /\ {"time_ms", "time"} \subseteq Keys["uw2f"]
           /\ "right.score" \in Keys[t] => t = "score"
           /\ "state" \in Keys[t] => t = "state"
           /\ "weapon" \in Keys[t] => t = "match"
           /\ "command" \in Keys[t] => t = "control"
           /\ "active" \in Keys[t] /\ "side" \in Keys[t] => t = "medical"
           /\ Keys[t] \cap EnumKeys # {} => t \in {"score", "state", "match", "medical", "control"}
           /\ Keys[t] \cap Fencer # {} => t = "fencers"
  BY DEF MessageTypes, Keys, EnumKeys, Statuses, Fencer

LEMMA DecodedType ==
    ASSUME NEW raw \in Nat PROVE Decode(raw) \in TimestampType /\ Decode(raw).value < Low
  BY ValueFits, LowAssumption DEF Decode, TimestampType, SourceFlag

LEMMA ParsedMs ==
    ASSUME NEW s \in [min : Numeral, sec : Numeral, dot : BOOLEAN, frac : Numeral]
    PROVE  ParseToMs(s) \in 0 .. Word - 1
  <1>1. Centiseconds(s) \in Nat /\ s.min.val \in Nat /\ s.sec.val \in Nat
    BY DEF Numeral, Centiseconds
  <1>2. PICK n \in Nat : n = ShownMs(s)
    BY <1>1 DEF ShownMs
  <1>3. ParseToMs(s) = n % Word
    BY <1>2 DEF ParseToMs
  <1> QED BY <1>2, <1>3, WordAssumption, SMTT(30)

LEMMA SeqOfLength ==
    ASSUME NEW n \in Nat, NEW S, NEW f \in [1 .. n -> S]
    PROVE  f \in Seq(S) /\ Len(f) = n
  <1>1. f \in Seq(S)
    BY SeqDef
  <1>2. PICK l \in Nat : l = Len(f) /\ DOMAIN f = 1 .. l
    BY <1>1, LenProperties
  <1>3. \A i \in Int : i \in 1 .. n <=> i \in 1 .. l
    BY <1>2
  <1>4. n = l
    <2>1. n <= l
      BY <1>3
    <2>2. l <= n
      BY <1>3
    <2> QED BY <2>1, <2>2
  <1> QED BY <1>1, <1>2, <1>4

LEMMA CallsTyped ==
    ASSUME NEW j, NEW k, k \in DOMAIN j => j[k] \in Seq([id : Nat, granted : {{}, {TRUE}, {FALSE}}])
    PROVE  CallsIn(k, j) \in Seq([id : Nat, granted : Granted]) /\ Len(CallsIn(k, j)) <= MaxCalls
  <1>1. CASE k \notin DOMAIN j
    BY <1>1, MaxCallsAssumption DEF CallsIn
  <1>2. CASE k \in DOMAIN j
    <2> DEFINE v == j[k]
               S == {i \in DOMAIN v : i <= MaxCalls}
               n == IF Len(v) <= MaxCalls THEN Len(v) ELSE MaxCalls
    <2>1. v \in Seq([id : Nat, granted : {{}, {TRUE}, {FALSE}}])
      BY <1>2
    <2>2. DOMAIN v = 1 .. Len(v) /\ Len(v) \in Nat
      BY <2>1, LenProperties
    <2>3. S = 1 .. n /\ n \in Nat /\ n <= MaxCalls
      BY <2>2, MaxCallsAssumption
    <2>4. ASSUME NEW i \in 1 .. n PROVE CallIn(v[i]) \in [id : Nat, granted : Granted]
      <3>1. v[i] \in [id : Nat, granted : {{}, {TRUE}, {FALSE}}]
        BY <2>1, <2>2, <2>3, ElementOfSeq
      <3>2. CASE v[i].granted = {TRUE}
        BY <3>1, <3>2 DEF CallIn, Granted
      <3>3. CASE v[i].granted = {FALSE}
        BY <3>1, <3>3 DEF CallIn, Granted
      <3>4. CASE v[i].granted = {}
        BY <3>1, <3>4 DEF CallIn, Granted
      <3> QED BY <3>1, <3>2, <3>3, <3>4
    <2>5. CallsIn(k, j) = [i \in 1 .. n |-> CallIn(v[i])]
      BY <1>2, <2>3 DEF CallsIn
    <2> HIDE DEF n, v
    <2>6. CallsIn(k, j) \in [1 .. n -> [id : Nat, granted : Granted]]
      BY <2>4, <2>5
    <2>7. CallsIn(k, j) \in Seq([id : Nat, granted : Granted]) /\ Len(CallsIn(k, j)) = n
      BY <2>3, <2>6, SeqOfLength
    <2> QED BY <2>3, <2>7
  <1> QED BY <1>1, <1>2

LEMMA SwitchesApart ==
    ASSUME NEW k \in Switches
    PROVE  k \notin {"ts", "time_ms", "remaining_ms"} \cup DOMAIN MsOf \cup EnumKeys
                     \cup Optionals \cup Persons \cup Calls
  BY KeyClasses DEF Switches

(* Reading a payload that is accepted gives a struct, whatever was in it.  *)
LEMMA ReadTyped ==
    ASSUME NEW t \in MessageTypes, NEW packed, ReadError(t, packed) = "OK",
           IsJson(t, packed.json), NEW old, IsStruct(t, old)
    PROVE  IsStruct(t, ReadInto(t, packed.json, old))
  <1> DEFINE j == packed.json
             n == ReadInto(t, j, old)
  <1>1. /\ DOMAIN n = Keys[t]
        /\ \A k \in Keys[t] : n[k] = IF k \in Untouched(t, j) THEN old[k] ELSE ValueIn(k, j, old[k])
    BY DEF ReadInto
  <1>2. \A k \in Keys[t] : FieldOK(k, old[k])
    BY DEF IsStruct
  <1>3. \A k \in Keys[t] \cap DOMAIN j : JsonOK(k, j[k])
    BY DEF IsJson
  <1> HIDE DEF n
  <1>4. ASSUME NEW k \in Keys[t], k \notin Untouched(t, j) PROVE FieldOK(k, ValueIn(k, j, old[k]))
    <2>1. CASE k = "ts"
      <3>1. k \in DOMAIN j => j[k] \in Nat
        BY <1>3, <2>1, KeyClasses DEF JsonOK, Switches
      <3>2. NoTimestamp \in TimestampType /\ NoTimestamp.value < Low
        BY LowAssumption DEF NoTimestamp, TimestampType, SourceFlag
      <3>3. ValueIn(k, j, old[k]) = IF k \in DOMAIN j THEN Decode(j[k]) ELSE NoTimestamp
        BY <2>1, KeyClasses DEF ValueIn
      <3>4. ValueIn(k, j, old[k]) \in TimestampType /\ ValueIn(k, j, old[k]).value < Low
        BY <3>1, <3>2, <3>3, DecodedType
      <3> QED BY <2>1, <3>4, KeyClasses DEF FieldOK, Switches
    <2>2. CASE k \in Switches
      <3>1. ValueIn(k, j, old[k]) = IF k \in DOMAIN j THEN j[k] ELSE FALSE
        <4>1. k \notin {"ts", "time_ms", "remaining_ms"} \cup DOMAIN MsOf \cup EnumKeys
                     \cup Optionals \cup Persons \cup Calls
        BY <2>2, SwitchesApart
      <4>2. Initial(k) = FALSE
        BY <2>2, SwitchesApart DEF Initial, Texts, Switches
      <4> QED BY <4>1, <4>2 DEF ValueIn
      <3>2. k \in DOMAIN j => j[k] \in BOOLEAN
        BY <1>3, <2>2, KeyClasses DEF JsonOK, Switches
      <3>3. ValueIn(k, j, old[k]) \in BOOLEAN
        BY <3>1, <3>2
      <3> QED BY <2>2, <3>3, KeyClasses DEF FieldOK, Switches
    <2>3. CASE k \in {"time_ms", "remaining_ms"}
      <3> DEFINE s == IF k = "time_ms" THEN "time" ELSE "remaining"
      <3>1. k \notin DOMAIN j => s \in DOMAIN j
        <4>1. CASE t = "medical" /\ ~ j["active"]
          <5>1. k \in Untouched(t, j)
            BY <2>3, <4>1, KeyTypes DEF Untouched, Told
          <5> QED BY <1>4, <5>1
        <4>2. CASE ~ (t = "medical" /\ ~ j["active"])
          BY <2>3, <4>2, Accepted, KeyTypes
        <4> QED BY <4>1, <4>2
      <3>2. s \in Keys[t] /\ s \in DOMAIN MsOf /\ MsOf[s] = k
        <4>1. t \in {"clock", "uw2f"} => k = "time_ms"
          BY <2>3, KeyTypes
        <4>2. t = "medical" => "remaining" \in Keys[t]
          BY KeyNames
        <4> QED BY <2>3, <4>1, <4>2, KeyTypes, KeyClasses
      <3>3. (CHOOSE x \in DOMAIN MsOf : MsOf[x] = k) = s
        BY <2>3, <3>2, KeyClasses
      <3> HIDE DEF s
      <3>4. ValueIn(k, j, old[k]) = IF k \in DOMAIN j THEN j[k] ELSE ParseToMs(j[s])
        BY <2>3, <3>3, KeyClasses DEF ValueIn, MsIn
      <3>5. k \in DOMAIN j => j[k] \in 0 .. Word - 1
        BY <1>3, <2>3, KeyClasses DEF JsonOK, Switches
      <3>6. s \in DOMAIN j => j[s] \in [min : Numeral, sec : Numeral, dot : BOOLEAN, frac : Numeral]
        BY <1>3, <3>2, KeyClasses DEF JsonOK, Switches
      <3>7. ValueIn(k, j, old[k]) \in 0 .. Word - 1
        BY <3>1, <3>4, <3>5, <3>6, ParsedMs
      <3> QED BY <2>3, <3>7, KeyClasses DEF FieldOK, Switches
    <2>4. CASE k \in Optionals
      <3>1. ValueIn(k, j, old[k]) = Present(j[k])
        BY <2>4, KeyClasses DEF ValueIn
      <3> QED BY <2>4, <3>1, KeyClasses DEF FieldOK, Switches, Present
    <2>5. CASE k \in Persons
      <3>1. ValueIn(k, j, old[k]) = IF k \in DOMAIN j THEN Present(j[k])
                                     ELSE [present |-> FALSE, value |-> old[k].value]
        BY <2>5, KeyClasses DEF ValueIn
      <3>2. \E b \in BOOLEAN : \E v : ValueIn(k, j, old[k]) = [present |-> b, value |-> v]
        BY <3>1 DEF Present
      <3> QED BY <2>5, <3>2, KeyClasses DEF FieldOK, Switches
    <2>6. CASE k \in Calls
      <3>1. ValueIn(k, j, old[k]) = CallsIn(k, j)
        BY <2>6, KeyClasses DEF ValueIn
      <3>2. k \in DOMAIN j => j[k] \in Seq([id : Nat, granted : {{}, {TRUE}, {FALSE}}])
        BY <1>3, <2>6, KeyClasses DEF JsonOK, Switches
      <3>3. CallsIn(k, j) \in Seq([id : Nat, granted : Granted]) /\ Len(CallsIn(k, j)) <= MaxCalls
        BY <3>2, CallsTyped
      <3> QED BY <2>6, <3>1, <3>3, KeyClasses DEF FieldOK, Switches
    <2>7. CASE k \notin {"ts", "time_ms", "remaining_ms"} \cup Switches \cup Optionals
                          \cup Persons \cup Calls
      BY <2>7 DEF FieldOK
    <2> QED BY <2>1, <2>2, <2>3, <2>4, <2>5, <2>6, <2>7
  <1>5. IsStruct(t, n)
    BY <1>1, <1>2, <1>4 DEF IsStruct
  <1> QED BY <1>5 DEF n

LEMMA FreshTyped ==
    ASSUME NEW t \in MessageTypes PROVE IsStruct(t, Fresh(t))
  <1>1. ASSUME NEW k \in Keys[t] PROVE FieldOK(k, Initial(k))
    <2>1. CASE k = "ts"
      BY <2>1, LowAssumption, KeyClasses
         DEF FieldOK, Initial, Switches, Texts, NoTimestamp, TimestampType, SourceFlag
    <2>2. CASE k \in Switches
      BY <2>2, KeyClasses DEF FieldOK, Initial, Switches, Texts
    <2>3. CASE k \in {"time_ms", "remaining_ms"}
      <3>1. Initial(k) = 0
        BY <2>3, KeyClasses DEF Initial, Switches, Texts
      <3>2. 0 \in 0 .. Word - 1
        BY WordAssumption
      <3> QED BY <2>3, <3>1, <3>2, KeyClasses DEF FieldOK, Switches
    <2>4. CASE k \in Optionals \cup Persons
      BY <2>4, KeyClasses DEF FieldOK, Initial, Switches, Texts, Absent
    <2>5. CASE k \in Calls
      <3>1. Initial(k) = <<>>
        BY <2>5, KeyClasses DEF Initial, Switches, Texts
      <3> QED BY <2>5, <3>1, KeyClasses, MaxCallsAssumption DEF FieldOK, Switches
    <2>6. CASE k \notin {"ts", "time_ms", "remaining_ms"} \cup Switches \cup Optionals
                          \cup Persons \cup Calls
      BY <2>6 DEF FieldOK
    <2> QED BY <2>1, <2>2, <2>3, <2>4, <2>5, <2>6
  <1> QED BY <1>1 DEF IsStruct, Fresh

(* What serialize() writes is what ArduinoJson may find.                   *)
LEMMA JsonTyped ==
    ASSUME NEW t \in MessageTypes, NEW m, IsStruct(t, m)
    PROVE  IsJson(t, JsonOf(t, m))
  <1> DEFINE j == JsonOf(t, m)
  <1>1. ASSUME NEW k \in Keys[t] \cap DOMAIN j PROVE JsonOK(k, j[k])
    <2>1. j[k] = ValueOut(m, k) /\ FieldOK(k, m[k])
      BY JsonShape DEF IsStruct
    <2> HIDE DEF j
    <2>2. CASE k = "ts"
      <3>1. m[k] \in TimestampType
        BY <2>1, <2>2, KeyClasses DEF FieldOK, Switches
      <3>2. m[k].value \in Nat /\ SourceFlag[m[k].source] \in {0, 1, 255}
        BY <3>1 DEF TimestampType, SourceFlag
      <3>3. m[k].value % Low \in Nat
        BY <3>2, ValueFits, LowAssumption
      <3>4. Encode(m[k]) \in Nat
        BY <3>2, <3>3, LowAssumption DEF Encode
      <3> QED BY <2>1, <2>2, <3>4, KeyClasses DEF JsonOK, ValueOut, Switches
    <2>3. CASE k \in Switches
      BY <2>1, <2>3, KeyClasses DEF FieldOK, JsonOK, ValueOut, Switches
    <2>4. CASE k \in {"time_ms", "remaining_ms"}
      BY <2>1, <2>4, KeyClasses DEF FieldOK, JsonOK, ValueOut, Switches
    <2>5. CASE k \in DOMAIN MsOf
      <3>1. MsOf[k] \in Keys[t] /\ MsOf[k] \in {"time_ms", "remaining_ms"}
        BY <2>5, KeyTypes, KeyClasses, KeyNames
      <3>2. m[MsOf[k]] \in Nat
        <4>1. FieldOK(MsOf[k], m[MsOf[k]])
          BY <3>1 DEF IsStruct
        <4> QED BY <3>1, <4>1, KeyClasses, WordAssumption DEF FieldOK, Switches
      <3>3. TimeStr(m[MsOf[k]], TIME_BUF) \in
               [min : Numeral, sec : Numeral, dot : BOOLEAN, frac : Numeral]
        BY <3>2 DEF TimeStr, Format, Plain, Padded, NoDigits, Digits, Minutes, Seconds, Hundredths,
                    Numeral
      <3> QED BY <2>1, <2>5, <3>3, KeyClasses DEF JsonOK, ValueOut, Switches
    <2>6. CASE k \in Calls
      <3>1. m[k] \in Seq([id : Nat, granted : Granted])
        BY <2>1, <2>6, KeyClasses DEF FieldOK, Switches
      <3>2. DOMAIN m[k] = 1 .. Len(m[k]) /\ Len(m[k]) \in Nat
        BY <3>1, LenProperties
      <3>3. ASSUME NEW i \in 1 .. Len(m[k])
            PROVE  CallOut(m[k][i]) \in [id : Nat, granted : {{}, {TRUE}, {FALSE}}]
        <4>1. m[k][i] \in [id : Nat, granted : Granted]
          BY <3>1, ElementOfSeq
        <4> QED BY <4>1 DEF CallOut, Granted
      <3>4. j[k] = [i \in 1 .. Len(m[k]) |-> CallOut(m[k][i])]
        BY <2>1, <2>6, <3>2, KeyClasses DEF ValueOut
      <3>5. j[k] \in Seq([id : Nat, granted : {{}, {TRUE}, {FALSE}}])
        BY <3>2, <3>3, <3>4, SeqOfLength
      <3> QED BY <2>6, <3>5, KeyClasses DEF JsonOK, Switches
    <2>7. CASE k \notin {"ts", "time_ms", "remaining_ms"} \cup Switches \cup DOMAIN MsOf \cup Calls
      BY <2>7 DEF JsonOK
    <2> QED BY <2>2, <2>3, <2>4, <2>5, <2>6, <2>7
  <1> QED BY <1>1 DEF IsJson

-----------------------------------------------------------------------------
(* A payload that is a whole message of this sender. *)
Sound(b) ==
    \/ b = EmptyBuffer
    \/ \E u \in MessageTypes : \E m \in Structs(self, u) :
          ~ Refused(u, m) /\ b = Holding(u, JsonOf(u, m))

(* What serialize() leaves in the buffer: the message, nothing, or what    *)
(* was there before an argument was refused.                               *)
Carries(message, b) ==
    /\ message.result = "OK" =>
          /\ ~ Refused(message.type, message.struct)
          /\ b = Holding(message.type, JsonOf(message.type, message.struct))
    /\ message.result # "OK" => b = EmptyBuffer \/ Refused(message.type, message.struct)

OfSender(message) ==
    message.type \in MessageTypes /\ message.struct \in Structs(self, message.type)

(* Every thread that is with a message has the buffer as serialize() left  *)
(* it; it may find another one there only if it is not alone.              *)
CallsInv ==
    \A p \in Threads : call[p].stage # "idle" =>
        /\ p \in self.threads
        /\ OfSender(call[p].message)
        /\ Carries(call[p].message, call[p].payload)

OwnInv == packet.origin = "own" => Carries(written, packet.buffer)

RacedInv == packet.origin = "raced" => self.threads = Threads

OtherInv ==
    packet.origin = "other" =>
        \E t \in MessageTypes : \E j \in Others(t) :
            /\ packet.topic = Full(self.piste, "software", t)
            /\ packet.buffer = Holding(t, j)

(* A thread that is alone finds the buffers as it left them. *)
AloneInv ==
    self.threads # Threads =>
        \A p \in Threads : call[p].stage # "idle" =>
            /\ buffer = call[p].payload
            /\ call[p].stage = "addressed" => topic = call[p].address

PayloadInv ==
    /\ self \in Senders
    /\ Sound(buffer)
    /\ CallsInv /\ AloneInv
    /\ written.type # UNKNOWN => OfSender(written)
    /\ packet.origin \in {"nobody", "own", "raced", "other"}
    /\ packet.origin \in {"own", "raced"} => OfSender(written) /\ Sound(packet.buffer)
    /\ packet.origin = "nobody" => packet = NoPacket
    /\ OwnInv /\ RacedInv /\ OtherInv

LEMMA Serialized ==
    ASSUME NEW t \in MessageTypes, NEW m, NEW fits \in BOOLEAN, NEW buf
    PROVE  LET done == Serialize(t, m, fits, buf)
           IN  /\ Refused(t, m) => done = [result |-> "INVALID_ARG", buffer |-> buf]
               /\ ~ Refused(t, m) /\ fits =>
                     done = [result |-> "OK", buffer |-> Holding(t, JsonOf(t, m))]
               /\ ~ Refused(t, m) /\ ~ fits =>
                     done = [result |-> "BUFFER_SMALL", buffer |-> EmptyBuffer]
  BY DEF Serialize

(* Two threads of this program cannot both be the only one. *)
LEMMA OneThread ==
    ASSUME self \in Senders, self.threads # Threads,
           NEW p \in self.threads, NEW q \in self.threads
    PROVE  p = q
  BY SendersAssumption DEF Threads

LEMMA PayloadSerialized ==
    ASSUME PayloadInv, CallInv, NEW p \in Threads, NEW t \in MessageTypes,
           NEW m \in Structs(self, t), NEW fits \in BOOLEAN, Serializes(p, t, m, fits)
    PROVE  PayloadInv'
  <1> DEFINE done == Serialize(t, m, fits, buffer)
             v    == [stage |-> "serialized", payload |-> done.buffer, address |-> <<>>,
                      message |-> [type |-> t, struct |-> m, result |-> done.result]]
  <1>1. /\ self' = self /\ buffer' = done.buffer /\ packet' = NoPacket /\ written' = NoMessage
        /\ p \in self.threads
    BY DEF Serializes, Forgets
  <1>2. \A q \in Threads : call'[q] = IF q = p THEN v ELSE call[q]
    BY CallSerialized
  <1>3. /\ done.result = "OK" => ~ Refused(t, m) /\ done.buffer = Holding(t, JsonOf(t, m))
        /\ done.result # "OK" => done.buffer = EmptyBuffer \/ Refused(t, m)
        /\ Refused(t, m) => done.buffer = buffer
        /\ done.result # "OK" /\ ~ Refused(t, m) => done.buffer = EmptyBuffer
    BY Serialized
  <1>4. /\ v.stage = "serialized" /\ v.payload = done.buffer /\ v.message.type = t
        /\ v.message.struct = m /\ v.message.result = done.result
    OBVIOUS
  <1> HIDE DEF done, v
  <1>5. Sound(buffer)'
    BY <1>1, <1>3 DEF Sound, PayloadInv
  <1>6. CallsInv'
    BY <1>1, <1>2, <1>3, <1>4 DEF CallsInv, PayloadInv, OfSender, Carries
  <1>7. AloneInv'
    <2> SUFFICES ASSUME self.threads # Threads, NEW q \in Threads, call'[q].stage # "idle"
                 PROVE  buffer' = call'[q].payload /\ call'[q].stage # "addressed"
      BY <1>1 DEF AloneInv
    <2>1. q \in self.threads
      BY <1>1, <1>2 DEF PayloadInv, CallsInv
    <2>2. q = p
      BY <1>1, <2>1, OneThread DEF PayloadInv
    <2> QED BY <1>1, <1>2, <1>4, <2>2
  <1>8. packet'.origin = "nobody" /\ written'.type = UNKNOWN
    BY <1>1 DEF NoPacket, NoMessage
  <1> QED BY <1>1, <1>5, <1>6, <1>7, <1>8 DEF PayloadInv, OwnInv, RacedInv, OtherInv

LEMMA PayloadAddressed ==
    ASSUME PayloadInv, CallInv, NEW p \in Threads, BuildsTopic(p)
    PROVE  PayloadInv'
  <1>1. /\ self' = self /\ buffer' = buffer /\ packet' = NoPacket /\ written' = NoMessage
        /\ call[p].stage = "serialized"
    BY DEF BuildsTopic, Forgets
  <1>2. \A q \in Threads :
           /\ q # p => call'[q] = call[q]
           /\ q = p => /\ call'[q].stage = "addressed" /\ call'[q].address = topic'
                       /\ call'[q].payload = call[q].payload
                       /\ call'[q].message = call[q].message
    BY CallAddressed
  <1>3. Sound(buffer)'
    BY <1>1 DEF Sound, PayloadInv
  <1>4. CallsInv'
    BY <1>1, <1>2 DEF CallsInv, PayloadInv, OfSender
  <1>5. AloneInv'
    <2> SUFFICES ASSUME self.threads # Threads, NEW q \in Threads, call'[q].stage # "idle"
                 PROVE  buffer' = call'[q].payload /\ topic' = call'[q].address
      BY <1>1 DEF AloneInv
    <2>1. p \in self.threads /\ q \in self.threads
      BY <1>1, <1>2 DEF PayloadInv, CallsInv
    <2>2. q = p
      BY <2>1, OneThread DEF PayloadInv
    <2> QED BY <1>1, <1>2, <2>2 DEF PayloadInv, AloneInv
  <1>6. packet'.origin = "nobody" /\ written'.type = UNKNOWN
    BY <1>1 DEF NoPacket, NoMessage
  <1> QED BY <1>1, <1>3, <1>4, <1>5, <1>6 DEF PayloadInv, OwnInv, RacedInv, OtherInv

LEMMA PayloadSent ==
    ASSUME PayloadInv, CallInv, NEW p \in Threads, MosquittoPublishes(p)
    PROVE  PayloadInv'
  <1>1. /\ self' = self /\ buffer' = buffer /\ topic' = topic /\ written' = call[p].message
        /\ call[p].stage = "addressed"
        /\ packet'.buffer = buffer
        /\ packet'.origin \in {"own", "raced"}
        /\ packet'.origin = "own" => buffer = call[p].payload
        /\ packet'.origin = "raced" => buffer # call[p].payload \/ topic # call[p].address
    BY DEF MosquittoPublishes
  <1>2. \A q \in Threads : /\ q # p => call'[q] = call[q]
                           /\ q = p => call'[q].stage = "idle"
    BY CallEnded
  <1>3. Sound(buffer)' /\ Sound(packet.buffer)'
    BY <1>1 DEF Sound, PayloadInv
  <1>4. OfSender(written)' /\ Carries(call[p].message, call[p].payload)
    BY <1>1 DEF PayloadInv, CallsInv, OfSender
  <1>5. CallsInv'
    BY <1>1, <1>2 DEF PayloadInv, CallsInv, OfSender
  <1>6. AloneInv'
    BY <1>1, <1>2 DEF PayloadInv, AloneInv
  <1>7. OwnInv'
    BY <1>1, <1>4 DEF OwnInv
  <1>8. RacedInv'
    BY <1>1 DEF RacedInv, PayloadInv, AloneInv
  <1> QED BY <1>1, <1>3, <1>4, <1>5, <1>6, <1>7, <1>8 DEF PayloadInv, OtherInv

LEMMA PayloadAlways == Spec => []PayloadInv
  <1>1. Init => PayloadInv
    BY DEF Init, PayloadInv, Sound, NoPacket, NoMessage, NoCall, CallsInv, AloneInv,
           OwnInv, RacedInv, OtherInv
  <1>2. PayloadInv /\ CallInv /\ [Next]_vars => PayloadInv'
    <2> SUFFICES ASSUME PayloadInv, CallInv, [Next]_vars PROVE PayloadInv'
      OBVIOUS
    <2>1. ASSUME NEW p \in Threads, NEW t \in MessageTypes, NEW m \in Structs(self, t),
                 NEW fits \in BOOLEAN, Serializes(p, t, m, fits)
          PROVE  PayloadInv'
      BY <2>1, PayloadSerialized
    <2>2. ASSUME NEW p \in Threads, BuildsTopic(p) PROVE PayloadInv'
      BY <2>2, PayloadAddressed
    <2>3. ASSUME NEW p \in Threads, MosquittoPublishes(p) PROVE PayloadInv'
      BY <2>3, PayloadSent
    <2>4. ASSUME UNCHANGED <<self, buffer, topic, call, written>>
          PROVE  /\ Sound(buffer)' /\ CallsInv' /\ AloneInv'
                 /\ OfSender(written)' = OfSender(written)
      BY <2>4 DEF PayloadInv, Sound, CallsInv, AloneInv, OfSender
    <2>5. ASSUME NEW t \in MessageTypes, NEW j \in Others(t), OtherPublishes(t, j)
          PROVE  PayloadInv'
      <3>1. /\ packet' = [topic |-> Full(self.piste, "software", t), buffer |-> Holding(t, j),
                          origin |-> "other"]
            /\ UNCHANGED <<self, buffer, topic, call, written>>
        BY <2>5 DEF OtherPublishes, Full
      <3>2. OtherInv'
        BY <2>5, <3>1 DEF OtherInv
      <3>3. OwnInv' /\ RacedInv' /\ packet'.origin = "other"
        BY <3>1 DEF OwnInv, RacedInv
      <3> QED BY <2>4, <3>1, <3>2, <3>3 DEF PayloadInv
    <2>6. ASSUME UNCHANGED <<self, buffer, topic, call, written, packet>> PROVE PayloadInv'
      <3>1. Sound(packet.buffer)' = Sound(packet.buffer)
        BY <2>6 DEF Sound
      <3> QED BY <2>4, <2>6, <3>1 DEF PayloadInv, OwnInv, RacedInv, OtherInv
    <2>7. ASSUME NEW reuse, Receive(reuse) PROVE PayloadInv'
      BY <2>6, <2>7 DEF Receive
    <2>8. CASE UNCHANGED vars
      BY <2>6, <2>8 DEF vars
    <2> QED BY <2>1, <2>2, <2>3, <2>5, <2>7, <2>8 DEF Next
  <1> QED BY <1>1, <1>2, CallAlways, PTL DEF Spec
-----------------------------------------------------------------------------
(* What is read out of an accepted payload.                                *)

LEMMA ToldRead ==
    ASSUME NEW t \in MessageTypes, NEW packed, ReadError(t, packed) = "OK", NEW old
    PROVE  Told(t, ReadInto(t, packed.json, old)) = Told(t, packed.json)
  <1> DEFINE j == packed.json
             n == ReadInto(t, j, old)
  <1>1. \A k \in Keys[t] : n[k] = IF k \in Untouched(t, j) THEN old[k] ELSE ValueIn(k, j, old[k])
    BY DEF ReadInto
  <1>2. ASSUME t = "connection" PROVE n["online"] = j["online"]
    <2>1. "online" \in Keys[t] /\ "online" \in DOMAIN j
      BY <1>2, Accepted, KeyNames
    <2>2. "online" \notin Untouched(t, j)
      BY <1>2, <2>1, KeyClasses DEF Untouched, Told
    <2>3. ValueIn("online", j, old["online"]) = j["online"]
      BY <2>1, KeyClasses DEF ValueIn
    <2> QED BY <1>1, <2>1, <2>2, <2>3
  <1>3. ASSUME t = "medical" PROVE n["active"] = j["active"]
    <2>1. "active" \in Keys[t] /\ "active" \in DOMAIN j
      BY <1>3, Accepted, KeyNames
    <2>2. "active" \notin Untouched(t, j)
      BY <1>3, <2>1, KeyClasses DEF Untouched, Told
    <2>3. ValueIn("active", j, old["active"]) = j["active"]
      BY <2>1, KeyClasses DEF ValueIn
    <2> QED BY <1>1, <2>1, <2>2, <2>3
  <1> QED BY <1>2, <1>3 DEF Told

(* A time and its string, of the fields f that were read from j.           *)
InStep(k, j, f) ==
    /\ MsOf[k] \in DOMAIN j => TimeOk(f[k]) /\ ShownMs(f[k]) = Truncated(f[MsOf[k]])
    /\ MsOf[k] \notin DOMAIN j /\ ShownMs(j[k]) < Word =>
          f[MsOf[k]] = ShownMs(j[k]) /\ f[MsOf[k]] - ShownMs(f[k]) \in 0 .. 999

(* They come from the same number.                                         *)
LEMMA TimesMatch ==
    ASSUME NEW t \in MessageTypes, NEW packed, ReadError(t, packed) = "OK",
           IsJson(t, packed.json), NEW old,
           NEW k \in DOMAIN MsOf, k \in Told(t, packed.json)
    PROVE  InStep(k, packed.json, ReadInto(t, packed.json, old))
  <1> DEFINE j  == packed.json
             n  == ReadInto(t, j, old)
  <1>1. \A f \in Keys[t] : n[f] = IF f \in Untouched(t, j) THEN old[f] ELSE ValueIn(f, j, old[f])
    BY DEF ReadInto
  <1>2. /\ k \in Keys[t] /\ MsOf[k] \in Keys[t]
        /\ t \in {"clock", "uw2f", "medical"}
        /\ t = "medical" => j["active"]
    <2>1. k \in Keys[t]
      BY KeyNames DEF Told
    <2>2. t \in {"clock", "uw2f", "medical"}
      BY <2>1, KeyTypes, KeyClasses
    <2>3. MsOf[k] \in Keys[t]
      BY <2>1, KeyTypes, KeyClasses, KeyNames
    <2>4. t = "medical" => j["active"]
      BY <2>1, KeyTypes, KeyClasses DEF Told
    <2> QED BY <2>1, <2>2, <2>3, <2>4
  <1>3. k \notin Untouched(t, j) /\ MsOf[k] \notin Untouched(t, j)
    BY <1>2, KeyClasses DEF Untouched
  <1>4. n[k] = TimeIn(k, j) /\ n[MsOf[k]] = MsIn(MsOf[k], j)
    <2>1. ValueIn(k, j, old[k]) = TimeIn(k, j)
      BY KeyClasses DEF ValueIn
    <2>2. ValueIn(MsOf[k], j, old[MsOf[k]]) = MsIn(MsOf[k], j)
      BY KeyClasses DEF ValueIn
    <2> QED BY <1>1, <1>2, <1>3, <2>1, <2>2
  <1>5. CASE MsOf[k] \in DOMAIN j
    <2>1. n[MsOf[k]] = j[MsOf[k]] /\ n[k] = TimeStr(j[MsOf[k]], TIME_BUF)
      BY <1>4, <1>5 DEF TimeIn, MsIn
    <2>2. j[MsOf[k]] \in Milliseconds
      <3>1. JsonOK(MsOf[k], j[MsOf[k]])
        BY <1>2, <1>5 DEF IsJson
      <3> QED BY <3>1, KeyClasses DEF JsonOK, Switches, Milliseconds
    <2>3. TimeStr(j[MsOf[k]], TIME_BUF) = Format(j[MsOf[k]])
      BY <2>2, TimeFits DEF TimeStr, TIME_BUF
    <2>4. TimeOk(n[k]) /\ ShownMs(n[k]) = Truncated(n[MsOf[k]])
      BY <2>1, <2>2, <2>3, TimeRoundTrip
    <2> QED BY <1>5, <2>4 DEF InStep
  <1>6. CASE MsOf[k] \notin DOMAIN j
    <2>1. k \in DOMAIN j /\ TimeOk(j[k])
      BY <1>2, <1>6, Accepted, KeyClasses, KeyTypes
    <2>2. (CHOOSE x \in DOMAIN MsOf : MsOf[x] = MsOf[k]) = k
      BY KeyClasses
    <2>3. n[MsOf[k]] = ParseToMs(j[k]) /\ n[k] = CutTo(j[k], TIME_BUF)
      BY <1>4, <1>6, <2>2 DEF TimeIn, MsIn
    <2>4. j[k] \in TimeStrings
      <3>1. JsonOK(k, j[k])
        BY <1>2, <2>1 DEF IsJson
      <3> QED BY <3>1, KeyClasses DEF JsonOK, Switches, TimeStrings, Numeral
    <2>5. ShownMs(j[k]) \in Nat /\ ShownMs(j[k]) - ShownMs(n[k]) \in 0 .. 999
      BY <2>1, <2>3, <2>4, CutShows
    <2> HIDE DEF j, n
    <2>6. ASSUME ShownMs(j[k]) < Word PROVE n[MsOf[k]] = ShownMs(j[k])
      <3>1. ShownMs(j[k]) \in Milliseconds
        BY <2>5, <2>6, WordAssumption DEF Milliseconds
      <3> QED BY <2>3, <3>1, NoWrap DEF ParseToMs
    <2>7. ShownMs(j[k]) < Word => /\ n[MsOf[k]] = ShownMs(j[k])
                                  /\ n[MsOf[k]] - ShownMs(n[k]) \in 0 .. 999
      BY <2>5, <2>6
    <2>8. InStep(k, j, n)
      BY <1>6, <2>7 DEF InStep
    <2> QED BY <2>8 DEF j, n
  <1> QED BY <1>5, <1>6

(* A payload that serialize() has written lacks nothing.                   *)
AlwaysWritten(t) ==
    {f \in Keys[t] : /\ f \notin DOMAIN MsOf \cup Optionals \cup Coaches \cup Officials
                     /\ t = "connection" => f = "online"
                     /\ t = "medical" => f \in {"seq", "active", "side"}
                     /\ t = "control" => f # "side"}

LEMMA MandatoryKeys ==
    ASSUME NEW t \in MessageTypes, NEW c \in Mandatory[t]
    PROVE  \E f \in c : \/ f \in AlwaysWritten(t)
                        \/ f \in {"right", "left"} /\ t \in {"lights", "uw2f"}
  <1>1. CASE t = "lights"
    <2>1. PICK f \in {"seq", "right", "left"} : c = {f}
      BY <1>1 DEF Mandatory, MandatoryInAction, MandatoryInBout, MandatoryInPause, Clause
    <2> QED BY <1>1, <2>1, KeyClasses DEF AlwaysWritten, Keys
  <1>2. CASE t = "clock"
    <2>1. PICK f \in {"time_ms"} : c = {f}
      BY <1>2 DEF Mandatory, MandatoryInAction, MandatoryInBout, MandatoryInPause, Clause
    <2> QED BY <1>2, <2>1, KeyClasses DEF AlwaysWritten, Keys
  <1>3. CASE t = "blade_contact"
    <2>1. PICK f \in {"active"} : c = {f}
      BY <1>3 DEF Mandatory, MandatoryInAction, MandatoryInBout, MandatoryInPause, Clause
    <2> QED BY <1>3, <2>1, KeyClasses DEF AlwaysWritten, Keys
  <1>4. CASE t = "score"
    <2>1. PICK f \in {"seq", "right.score", "left.score"} : c = {f}
      BY <1>4 DEF Mandatory, MandatoryInAction, MandatoryInBout, MandatoryInPause, Clause
    <2> QED BY <1>4, <2>1, KeyClasses DEF AlwaysWritten, Keys
  <1>5. CASE t = "connection"
    <2>1. PICK f \in {"online"} : c = {f}
      BY <1>5 DEF Mandatory, MandatoryInAction, MandatoryInBout, MandatoryInPause, Clause
    <2> QED BY <1>5, <2>1, KeyClasses DEF AlwaysWritten, Keys
  <1>6. CASE t = "state"
    <2>1. PICK f \in {"seq", "state"} : c = {f}
      BY <1>6 DEF Mandatory, MandatoryInAction, MandatoryInBout, MandatoryInPause, Clause
    <2> QED BY <1>6, <2>1, KeyClasses DEF AlwaysWritten, Keys
  <1>7. CASE t = "fencers"
    <2>1. PICK f \in {"seq", "left.fencer", "right.fencer"} : c = {f}
      BY <1>7 DEF Mandatory, MandatoryInAction, MandatoryInBout, MandatoryInPause, Clause
    <2> QED BY <1>7, <2>1, KeyClasses DEF AlwaysWritten, Keys
  <1>8. CASE t = "match"
    <2>1. PICK f \in {"seq", "weapon", "type", "competition", 
                       "phase_type", "phase", "poule", "match", "round"} : c = {f}
      BY <1>8 DEF Mandatory, MandatoryInAction, MandatoryInBout, MandatoryInPause, Clause
    <2> QED BY <1>8, <2>1, KeyClasses DEF AlwaysWritten, Keys
  <1>9. CASE t = "medical"
    <2>1. PICK f \in {"seq", "active", "side"} : c = {f}
      BY <1>9 DEF Mandatory, MandatoryInAction, MandatoryInBout, MandatoryInPause, Clause
    <2> QED BY <1>9, <2>1, KeyClasses DEF AlwaysWritten, Keys
  <1>10. CASE t = "video_review"
    <2>1. PICK f \in {"seq", "left.remaining", "right.remaining"} : c = {f}
      BY <1>10 DEF Mandatory, MandatoryInAction, MandatoryInBout, MandatoryInPause, Clause
    <2> QED BY <1>10, <2>1, KeyClasses DEF AlwaysWritten, Keys
  <1>11. CASE t = "control"
    <2>1. PICK f \in {"seq", "command"} : c = {f}
      BY <1>11 DEF Mandatory, MandatoryInAction, MandatoryInBout, MandatoryInPause, Clause
    <2> QED BY <1>11, <2>1, KeyClasses DEF AlwaysWritten, Keys
  <1>12. CASE t = "uw2f"
    <2>1. c = {"time_ms", "time"} \/ \E f \in {"seq", "right", "left"} : c = {f}
      BY <1>12 DEF Mandatory, MandatoryInAction, MandatoryInBout, MandatoryInPause, Clause
    <2> QED BY <1>12, <2>1, KeyClasses DEF AlwaysWritten, Keys
  <1> QED BY <1>1, <1>2, <1>3, <1>4, <1>5, <1>6, <1>7, <1>8, <1>9, <1>10, <1>11, <1>12
          DEF MessageTypes

(* What serialize() accepts, deserialize() accepts as a message of the     *)
(* same type.                                                              *)
LEMMA Accepting ==
    ASSUME NEW t \in MessageTypes, NEW m, IsStruct(t, m)
    PROVE  ReadError(t, Holding(t, JsonOf(t, m))) = "OK"
  <1> DEFINE j == JsonOf(t, m)
             p == AsPayload(t, j)
  <1>1. /\ p.form = "object"
        /\ p.protocol \in {"OPP2", "absent"}
        /\ p.has = {k \in DOMAIN j : k \in DOMAIN MsOf => TimeOk(j[k])}
    BY JsonShape DEF AsPayload, PROTOCOL_ID
  <1>2. /\ t = "connection" => p.flag = m["online"] /\ "online" \in DOMAIN j
        /\ t = "medical" => p.flag = m["active"]
    BY ToldWritten, JsonShape DEF AsPayload
  <1>3. ASSUME NEW f \in Keys[t], f \notin DOMAIN MsOf, f \notin Omitted(t, m) PROVE f \in p.has
    BY <1>1, <1>3, JsonShape DEF Written
  <1>4. ASSUME NEW f \in {"right", "left"}, t \in {"lights", "uw2f"} PROVE f \in p.has
    BY <1>1, <1>4, JsonShape, KeyClasses DEF Objects
  <1> HIDE DEF p, j
  <1>5. CASE t = "connection" /\ ~ m["online"]
    <2>1. "online" \in p.has
      BY <1>1, <1>2, <1>5, KeyClasses
    <2> QED BY <1>1, <1>2, <1>5, <2>1 DEF IsOffline, DeserError, ReadError, Holding, p, j
  <1>6. CASE ~ (t = "connection" /\ ~ m["online"])
    <2>1. ASSUME NEW c \in Mandatory[t] PROVE c \cap p.has # {}
      <3>1. PICK f \in c : \/ f \in AlwaysWritten(t)
                           \/ f \in {"right", "left"} /\ t \in {"lights", "uw2f"}
        BY MandatoryKeys
      <3>2. CASE f \in AlwaysWritten(t)
        <4>1. f \notin Omitted(t, m)
          BY <1>6, <3>2 DEF AlwaysWritten, Omitted
        <4> QED BY <1>3, <3>2, <4>1 DEF AlwaysWritten
      <3> QED BY <1>4, <3>1, <3>2
    <2>2. ASSUME t = "medical", p.flag, NEW c \in MandatoryWhenActive PROVE c \cap p.has # {}
      <3>1. m["active"] /\ {"duration_ms", "remaining_ms"} \subseteq Keys[t]
        BY <1>2, <2>2, KeyNames
      <3>2. ASSUME NEW f \in {"duration_ms", "remaining_ms"} PROVE f \in p.has
        <4>1. f \notin Omitted(t, m)
          BY <2>2, <3>1, KeyClasses DEF Omitted
        <4> QED BY <1>3, <3>1, <4>1, KeyClasses
      <3> QED BY <2>2, <3>2 DEF MandatoryWhenActive
    <2>3. Complete(t, p)
      BY <2>1, <2>2 DEF Complete, Required
    <2>4. DeserError(t, p) = "OK"
      BY <1>1, <2>3 DEF DeserError
    <2> QED BY <2>4 DEF ReadError, Holding, p, j
  <1> QED BY <1>5, <1>6

(* One trip over the wire: whatever serialize() does not refuse, is        *)
(* accepted as a message of its type, and read with its meaning.           *)
THEOREM RoundTrip ==
    ASSUME NEW t \in MessageTypes, NEW m, IsStruct(t, m), ~ Refused(t, m)
    PROVE  LET r == Serialize(t, m, TRUE, EmptyBuffer)
           IN  /\ r.result = "OK"
               /\ ReadError(t, r.buffer) = "OK"
               /\ SameMeaning(t, m, ReadInto(t, r.buffer.json, Fresh(t)))
  <1> DEFINE r == Serialize(t, m, TRUE, EmptyBuffer)
  <1>1. r.result = "OK" /\ r.buffer = Holding(t, JsonOf(t, m))
    BY DEF Serialize
  <1>2. Holding(t, JsonOf(t, m)).json = JsonOf(t, m)
    BY DEF Holding
  <1> HIDE DEF r
  <1>3. ReadError(t, r.buffer) = "OK"
    BY <1>1, Accepting
  <1>4. SameMeaning(t, m, ReadInto(t, r.buffer.json, Fresh(t)))
    BY <1>1, <1>2, MeaningBack
  <1> QED BY <1>1, <1>3, <1>4 DEF r

LEMMA ErrorKinds ==
    ASSUME NEW t, NEW packed PROVE ReadError(t, packed) \in DeserializeErrors
  BY DEF ReadError, DeserError, AsPayload, DeserializeErrors

(* Whose payload can be taken for whose.                                   *)
LEMMA TakenFor ==
    ASSUME NEW t \in MessageTypes, NEW u \in MessageTypes, NEW m,
           ReadError(t, Holding(u, JsonOf(u, m))) = "OK"
    PROVE  /\ t \in {"connection", "state", "clock", "score"} /\ u # "uw2f" => u = t
           /\ t \in {"state", "match", "medical", "control", "score"} => u = t
           /\ t = "lights" => u \in {"lights", "score", "uw2f", "video_review", "fencers"}
  <1> DEFINE j == JsonOf(u, m)
  <1>1. Holding(u, j).json = j
    BY DEF Holding
  <1>2. /\ t = "connection" => "online" \in DOMAIN j
        /\ t = "clock" => "time_ms" \in DOMAIN j
        /\ t = "medical" => {"active", "side"} \subseteq DOMAIN j
        /\ t = "lights" => "right" \in DOMAIN j
        /\ t = "score" => "right.score" \in DOMAIN j
        /\ t = "state" => "state" \in DOMAIN j
        /\ t = "match" => "weapon" \in DOMAIN j
        /\ t = "control" => "command" \in DOMAIN j
    BY <1>1, Accepted
  <1>3. \A k \in DOMAIN j : k \in Keys[u] \cup Objects(u, m) \cup {"protocol"}
    BY DEF JsonOf, Written
  <1>4. Objects(u, m) \subseteq {"right", "left", "common"}
        /\ (Objects(u, m) # {} => u \in {"lights", "score", "uw2f", "video_review", "fencers"})
    BY DEF Objects
  <1> HIDE DEF j
  <1>5. ASSUME t = "lights" PROVE "right" \in Objects(u, m)
    BY <1>2, <1>3, <1>5, KeyNames
  <1>6. \A k \in {"online", "time_ms", "active", "side", "right.score", "state", "weapon",
                 "command"} :
           k \in DOMAIN j => k \in Keys[u]
    BY <1>3, <1>4
  <1> QED BY <1>2, <1>4, <1>5, <1>6, KeyTypes, KeyNames
-----------------------------------------------------------------------------
(* What the receiver has made of the packet.                               *)
Addressee == Parse(packet.topic).type

ReadInv ==
    /\ struct # NoStruct => struct.type \in MessageTypes /\ IsStruct(struct.type, struct.fields)
    /\ verdict # Unread =>
          /\ Addressee \in MessageTypes /\ ParseOk(Parse(packet.topic))
          /\ verdict.error = ReadError(Addressee, packet.buffer)
          /\ verdict.error # "OK" => struct = NoStruct
          /\ verdict.error = "OK" =>
                /\ struct # NoStruct
                /\ struct.type = Addressee
                /\ \E old : /\ IsStruct(struct.type, old)
                            /\ verdict.fresh => old = Fresh(struct.type)
                            /\ struct.fields = ReadInto(struct.type, packet.buffer.json, old)

LEMMA AddresseeKnown == ParseOk(Parse(packet.topic)) => Addressee \in MessageTypes
  BY DEF ParseOk, Parse, NoTopic, MessageTypeFromString, Addressee

LEMMA StructOf ==
    ASSUME NEW t \in MessageTypes, NEW f
    PROVE  [type |-> t, fields |-> f] # NoStruct
  <1>1. t # UNKNOWN
    BY DEF MessageTypes, UNKNOWN
  <1> QED BY <1>1 DEF NoStruct

(* Whatever is read has the JSON types that the code looks for: a payload  *)
(* of another program by assumption, one of the library also when it is    *)
(* read as another type.                                                   *)
LEMMA PacketJson ==
    ASSUME PayloadInv, ParseOk(Parse(packet.topic)),
           ReadError(Addressee, packet.buffer) = "OK"
    PROVE  IsJson(Addressee, packet.buffer.json)
  <1>1. Addressee \in MessageTypes
    BY AddresseeKnown
  <1>2. packet.buffer.form = "object"
    BY <1>1, Accepted
  <1>3. CASE packet.origin # "other"
    <2>0. PICK u \in MessageTypes : \E m \in Structs(self, u) :
             packet.buffer = Holding(u, JsonOf(u, m))
      BY <1>2, <1>3 DEF PayloadInv, Sound, EmptyBuffer, NoPacket
    <2>1. PICK m \in Structs(self, u) : packet.buffer = Holding(u, JsonOf(u, m))
      BY <2>0
    <2>2. IsJson(u, JsonOf(u, m))
      BY ContentsAssumption, JsonTyped DEF PayloadInv
    <2>3. \A k \in DOMAIN JsonOf(u, m) : k \in Keys[Addressee] => k \in Keys[u]
      BY <1>1, JsonShape, KeyNames
    <2> QED BY <2>1, <2>2, <2>3 DEF IsJson, Holding
  <1>4. CASE packet.origin = "other"
    <2>0. PICK t \in MessageTypes : \E j \in Others(t) :
             packet.topic = Full(self.piste, "software", t) /\ packet.buffer = Holding(t, j)
      BY <1>4 DEF PayloadInv, OtherInv
    <2>1. PICK j \in Others(t) :
             packet.topic = Full(self.piste, "software", t) /\ packet.buffer = Holding(t, j)
      BY <2>0
    <2> DEFINE Text == STRING \cup {TOPIC_PREFIX, "software", t}
    <2>2. self.piste \in Seq(STRING)
      BY SendersAssumption DEF PayloadInv
    <2>3. self.piste \in Seq(Text) /\ TOPIC_PREFIX \in Text /\ "software" \in Text /\ t \in Text
      BY <2>2, SeqMonotonic
    <2> HIDE DEF Text
    <2>4. Addressee = t
      BY <2>1, <2>3, FullParsed DEF Addressee
    <2> QED BY <2>1, <2>4, ContentsAssumption DEF Holding
  <1> QED BY <1>3, <1>4

LEMMA ReadOnce ==
    ASSUME PayloadInv, ReadInv, NEW reuse \in BOOLEAN, Receive(reuse)
    PROVE  ReadInv'
  <1> DEFINE t     == Addressee
             error == ReadError(t, packet.buffer)
             old   == IF reuse THEN struct.fields ELSE Fresh(t)
  <1>1. /\ packet' = packet /\ ParseOk(Parse(packet.topic))
        /\ verdict' = [error |-> error, fresh |-> ~ reuse]
        /\ reuse => struct.type = t
        /\ struct' = IF error = "OK"
                     THEN [type |-> t, fields |-> ReadInto(t, packet.buffer.json, old)]
                     ELSE NoStruct
    BY DEF Receive, Addressee
  <1>2. t \in MessageTypes /\ Addressee' = t
    BY <1>1, AddresseeKnown DEF Addressee
  <1>3. IsStruct(t, old)
    <2>1. CASE reuse
      <3>1. struct.type # UNKNOWN
        BY <1>1, <1>2, <2>1 DEF MessageTypes, UNKNOWN
      <3>2. struct # NoStruct
        BY <3>1 DEF NoStruct
      <3> QED BY <1>1, <2>1, <3>2 DEF ReadInv
    <2>2. CASE ~ reuse
      BY <1>2, <2>2, FreshTyped
    <2> QED BY <2>1, <2>2
  <1>4. ~ reuse => old = Fresh(t)
    OBVIOUS
  <1>5. error = "OK" => IsStruct(t, ReadInto(t, packet.buffer.json, old))
    BY <1>1, <1>2, <1>3, PacketJson, ReadTyped
  <1>6. error = ReadError(t, packet.buffer)
    OBVIOUS
  <1> HIDE DEF t, error, old
  <1>7. CASE error = "OK"
    <2>1. struct'.type = t /\ struct'.fields = ReadInto(t, packet.buffer.json, old)
      BY <1>1, <1>7
    <2>2. struct' # NoStruct
      BY <1>1, <1>2, <1>7, StructOf
    <2>3. verdict'.error = error /\ verdict'.fresh = ~ reuse
      BY <1>1
    <2> QED BY <1>1, <1>2, <1>3, <1>4, <1>5, <1>6, <1>7, <2>1, <2>2, <2>3 DEF ReadInv
  <1>8. CASE error # "OK"
    BY <1>1, <1>2, <1>6, <1>8 DEF ReadInv
  <1> QED BY <1>7, <1>8

LEMMA ReadAlways == Spec => []ReadInv
  <1>1. Init => ReadInv
    BY DEF Init, ReadInv
  <1>2. PayloadInv /\ ReadInv /\ [Next]_vars => ReadInv'
    <2> SUFFICES ASSUME PayloadInv, ReadInv, [Next]_vars PROVE ReadInv'
      OBVIOUS
    <2>1. ASSUME struct' \in {struct, NoStruct}, verdict' = Unread PROVE ReadInv'
      BY <2>1 DEF ReadInv
    <2>2. ASSUME NEW p, NEW t, NEW m, NEW fits, Serializes(p, t, m, fits) PROVE ReadInv'
      BY <2>1, <2>2 DEF Serializes, Forgets, KeepsStructOf
    <2>3. ASSUME NEW p, BuildsTopic(p) \/ MosquittoPublishes(p) PROVE ReadInv'
      BY <2>1, <2>3 DEF BuildsTopic, MosquittoPublishes, Forgets
    <2>4. ASSUME NEW t, NEW j, OtherPublishes(t, j) PROVE ReadInv'
      BY <2>1, <2>4 DEF OtherPublishes, KeepsStructOf
    <2>5. ASSUME NEW reuse \in BOOLEAN, Receive(reuse) PROVE ReadInv'
      BY <2>5, ReadOnce
    <2>6. CASE UNCHANGED vars
      BY <2>6 DEF vars, ReadInv, Addressee
    <2> QED BY <2>2, <2>3, <2>4, <2>5, <2>6 DEF Next
  <1> QED BY <1>1, <1>2, PayloadAlways, PTL DEF Spec
-----------------------------------------------------------------------------
(* Everything has its type: in particular what is read into a struct is a  *)
(* struct again, also from another type's payload or over an old message.  *)
THEOREM WireTyped == Spec => []TypeOK
  <1>1. PayloadInv /\ ReadInv => TypeOK
    <2> SUFFICES ASSUME PayloadInv, ReadInv PROVE TypeOK
      OBVIOUS
    <2>1. self \in Senders /\ buffer.form \in Forms /\ buffer.of \in MessageTypes \cup {UNKNOWN}
      BY DEF PayloadInv, Sound, EmptyBuffer, Holding, Forms
    <2>2. /\ written.type # UNKNOWN => IsStruct(written.type, written.struct)
          /\ \A p \in Threads : call[p].stage # "idle" =>
                p \in self.threads /\ IsStruct(call[p].message.type, call[p].message.struct)
      BY ContentsAssumption DEF PayloadInv, CallsInv, OfSender
    <2>3. CASE verdict = Unread
      <3>1. verdict.error = "unread"
        BY <2>3 DEF Unread
      <3> QED BY <2>1, <2>2, <2>3, <3>1 DEF TypeOK, ReadInv
    <2>4. CASE verdict # Unread
      <3>1. verdict.error \in DeserializeErrors
        BY <2>4, ErrorKinds DEF ReadInv
      <3> QED BY <2>1, <2>2, <2>4, <3>1 DEF TypeOK, ReadInv
    <2> QED BY <2>3, <2>4
  <1> QED BY <1>1, PayloadAlways, ReadAlways, PTL

(* What follows from verdict.error = "OK".                                 *)
LEMMA Understanding ==
    ASSUME PayloadInv, ReadInv, verdict.error = "OK"
    PROVE  /\ struct.type = Addressee /\ Addressee \in MessageTypes
           /\ ParseOk(Parse(packet.topic))
           /\ ReadError(struct.type, packet.buffer) = "OK"
           /\ IsJson(struct.type, packet.buffer.json)
           /\ IsStruct(struct.type, struct.fields)
           /\ \E old : /\ verdict.fresh => old = Fresh(struct.type)
                       /\ struct.fields = ReadInto(struct.type, packet.buffer.json, old)
  <1>1. verdict # Unread
    BY DEF Unread
  <1>2. /\ Addressee \in MessageTypes /\ ParseOk(Parse(packet.topic))
        /\ verdict.error = ReadError(Addressee, packet.buffer)
        /\ struct # NoStruct /\ struct.type = Addressee
        /\ \E old : /\ verdict.fresh => old = Fresh(struct.type)
                    /\ struct.fields = ReadInto(struct.type, packet.buffer.json, old)
    BY <1>1 DEF ReadInv
  <1>3. IsStruct(struct.type, struct.fields)
    BY <1>2 DEF ReadInv
  <1>4. ReadError(Addressee, packet.buffer) = "OK"
    BY <1>2
  <1>5. IsJson(Addressee, packet.buffer.json)
    BY <1>2, <1>4, PacketJson
  <1> QED BY <1>2, <1>3, <1>4, <1>5

(* The packet of a sender's own message that was not disturbed.            *)
LEMMA OwnPacket ==
    ASSUME PayloadInv, Undisturbed
    PROVE  /\ written.type \in MessageTypes /\ IsStruct(written.type, written.struct)
           /\ ~ Refused(written.type, written.struct)
           /\ packet.buffer = Holding(written.type, JsonOf(written.type, written.struct))
           /\ packet.buffer.json = JsonOf(written.type, written.struct)
  <1>1. OfSender(written) /\ Carries(written, packet.buffer)
    BY DEF PayloadInv, OwnInv, Undisturbed
  <1> QED BY <1>1, ContentsAssumption DEF PayloadInv, OfSender, Carries, Undisturbed, Holding

(* Whatever a library's program publishes with success is accepted, as a   *)
(* message of the type that was written, and read with its meaning.        *)
THEOREM SentAndReceived == Spec => []ReceivedAsSent
  <1>1. PayloadInv /\ ReadInv /\ AddressedAsMeant => ReceivedAsSent
    <2> SUFFICES ASSUME PayloadInv, ReadInv, AddressedAsMeant, Undisturbed, verdict # Unread
                 PROVE  /\ verdict.error = "OK"
                        /\ struct.type = written.type
                        /\ verdict.fresh =>
                              SameMeaning(struct.type, written.struct, struct.fields)
      BY DEF ReceivedAsSent
    <2>1. Addressee = written.type /\ verdict.error = ReadError(Addressee, packet.buffer)
      BY DEF Undisturbed, ReadInv, AddressedAsMeant, Addressee
    <2>2. verdict.error = "OK"
      BY <2>1, OwnPacket, Accepting
    <2>3. /\ struct.type = written.type
          /\ verdict.fresh =>
                struct.fields = ReadInto(struct.type, packet.buffer.json, Fresh(struct.type))
      BY <2>1, <2>2, Understanding
    <2> QED BY <2>2, <2>3, OwnPacket, MeaningBack
  <1> QED BY <1>1, PayloadAlways, ReadAlways, Addressed, PTL

(* No payload is taken for a message of another type, except a score for   *)
(* the lights it was published over.                                       *)
THEOREM Unmistaken == Spec => []NotMistaken
  <1>1. TopicInv /\ PayloadInv /\ ReadInv => NotMistaken
    <2> SUFFICES ASSUME TopicInv, PayloadInv, ReadInv, Understands({"own", "raced"})
                 PROVE  \/ packet.buffer.of = struct.type
                        \/ packet.origin = "raced" /\ struct.type = "lights"
                              /\ packet.buffer.of = "score"
      BY DEF NotMistaken
    <2> DEFINE t == struct.type
    <2>1. /\ t = Addressee /\ t \in MessageTypes /\ ReadError(t, packet.buffer) = "OK"
          /\ ParseOk(Parse(packet.topic)) /\ packet.origin \in {"own", "raced"}
      BY Understanding DEF Understands
    <2>2. packet.buffer.form = "object" /\ packet.buffer # EmptyBuffer
      BY <2>1, Accepted DEF EmptyBuffer
    <2>3. PICK u \in MessageTypes : \E m \in Structs(self, u) :
             packet.buffer = Holding(u, JsonOf(u, m))
      BY <2>1, <2>2 DEF PayloadInv, Sound
    <2>4. PICK m \in Structs(self, u) : packet.buffer = Holding(u, JsonOf(u, m))
      BY <2>3
    <2>5. packet.buffer.of = u /\ ReadError(t, Holding(u, JsonOf(u, m))) = "OK"
      BY <2>1, <2>4 DEF Holding
    <2>6. t \in SentTypes /\ (packet.origin = "own" => t = written.type)
      <3>1. SentTypes \subseteq MessageTypes /\ written.type \in MessageTypes
        BY <2>1 DEF TopicInv, SentTypes
      <3>2. t \in SentTypes
        BY <2>1, <3>1, Meant DEF TopicInv, Addressee
      <3>3. packet.origin = "own" => t \in {written.type}
        BY <2>1, <3>1, Meant DEF TopicInv, Addressee
      <3> QED BY <3>2, <3>3
    <2>7. CASE packet.origin = "own"
      <3>1. Carries(written, packet.buffer) /\ t = written.type
        BY <2>6, <2>7 DEF PayloadInv, OwnInv
      <3>2. packet.buffer.of = t \/ Refused(t, written.struct)
        BY <2>2, <3>1 DEF Carries, Holding
      <3>3. Refused(t, written.struct) => t \in {"score", "state", "match", "medical", "control"}
        BY <2>1, KeyTypes DEF Refused, Written
      <3> QED BY <2>1, <2>5, <3>2, <3>3, TakenFor
    <2>8. CASE packet.origin = "raced"
      <3>1. self \in Senders /\ self.threads = Threads
        BY <2>8 DEF PayloadInv, RacedInv
      <3>2. t \in RacingTypes /\ u \in RacingTypes
        BY <2>4, <2>6, <3>1, ContentsAssumption DEF SentTypes
      <3> QED BY <2>1, <2>5, <2>8, <3>2, TakenFor DEF RacingTypes
    <2> QED BY <2>1, <2>7, <2>8
  <1> QED BY <1>1, TopicAlways, PayloadAlways, ReadAlways, PTL

(* The time and the string beside it show the same in every struct that    *)
(* was read, up to the digits that are not printed or have no room, as     *)
(* long as what the string shows is less than 2^32 milliseconds.           *)
THEOREM TimesInStep == Spec => []TimesAgree
  <1>1. PayloadInv /\ ReadInv => TimesAgree
    <2> SUFFICES ASSUME PayloadInv, ReadInv, verdict.error = "OK",
                        NEW k \in TimesOf(struct.type, struct.fields)
                 PROVE  InStep(k, packet.buffer.json, struct.fields)
      BY DEF TimesAgree, InStep
    <2>1. PICK old : struct.fields = ReadInto(struct.type, packet.buffer.json, old)
      BY Understanding
    <2>2. /\ struct.type \in MessageTypes /\ ReadError(struct.type, packet.buffer) = "OK"
          /\ IsJson(struct.type, packet.buffer.json)
      BY Understanding
    <2>3. k \in DOMAIN MsOf /\ k \in Told(struct.type, packet.buffer.json)
      BY <2>1, <2>2, ToldRead DEF TimesOf
    <2> QED BY <2>1, <2>2, <2>3, TimesMatch
  <1> QED BY <1>1, PayloadAlways, ReadAlways, PTL

(* A message that is read over another one.                                *)
LEMMA ReadOver ==
    ASSUME NEW t \in MessageTypes, NEW m, IsStruct(t, m), ~ Refused(t, m),
           NEW old, NEW k \in Told(t, m)
    PROVE  \/ SameField(k, m[k], ReadInto(t, JsonOf(t, m), old)[k])
           \/ k \in Optionals /\ ~ m[k].present
           \/ k \in Officials /\ \A o \in Officials : ~ m[o].present
           \/ t = "control" /\ k = "side" /\ m[k] = "NONE"
  <1> DEFINE j == JsonOf(t, m)
             n == ReadInto(t, j, old)
  <1>1. k \in Keys[t] /\ n[k] = IF k \in Untouched(t, j) THEN old[k] ELSE ValueIn(k, j, old[k])
    BY KeyNames DEF ReadInto, Told
  <1>2. CASE k \in Written(t, m)
    BY <1>1, <1>2, WrittenTouched, FieldBack
  <1>3. CASE k \notin Written(t, m)
    <2>1. k \in Omitted(t, m) /\ k \notin DOMAIN j
      BY <1>1, <1>3, JsonShape DEF Written
    <2>2. \/ k \in Optionals /\ ~ m[k].present
          \/ k \in Coaches \cup Officials /\ ~ m[k].present
          \/ t = "control" /\ k = "side" /\ m[k] = "NONE"
      BY <2>1 DEF Omitted, Told
    <2>3. CASE k \in Coaches \cup Officials /\ ~ m[k].present
      <3>1. t = "fencers"
        BY <1>1, <2>3 DEF MessageTypes, Keys, Coaches, Officials
      <3>2. CASE k \notin Untouched(t, j)
        <4>1. n[k] = [present |-> FALSE, value |-> old[k].value]
          BY <1>1, <2>1, <2>3, <3>2, KeyClasses DEF ValueIn
        <4>2. ~ n[k].present
          BY <4>1
        <4> QED BY <2>3, <4>2 DEF SameField
      <3>3. CASE k \in Untouched(t, j)
        <4>1. "common" \notin DOMAIN j /\ k \in Officials
          BY <2>3, <3>1, <3>3, KeyClasses DEF Untouched
        <4>2. "common" \notin Objects(t, m)
          BY <4>1, JsonShape
        <4> QED BY <3>1, <4>1, <4>2 DEF Objects
      <3> QED BY <3>2, <3>3
    <2> QED BY <2>2, <2>3
  <1> QED BY <1>2, <1>3

(* A struct that held another message before shows the new one, but for    *)
(* optional fields, officials and the side of a command that the new one   *)
(* does not have.                                                          *)
THEOREM ReadOverOld == Spec => []ReusedAsSent
  <1>1. PayloadInv /\ ReadInv /\ AddressedAsMeant => ReusedAsSent
    <2> DEFINE t == written.type
               m == written.struct
    <2> SUFFICES ASSUME PayloadInv, ReadInv, AddressedAsMeant, Undisturbed, verdict.error = "OK",
                        NEW k \in Told(t, m)
                 PROVE  \/ SameField(k, m[k], struct.fields[k])
                        \/ k \in Optionals /\ ~ m[k].present
                        \/ k \in Officials /\ \A o \in Officials : ~ m[o].present
                        \/ t = "control" /\ k = "side" /\ m[k] = "NONE"
      BY DEF ReusedAsSent
    <2>1. struct.type = t
      BY Understanding DEF Undisturbed, AddressedAsMeant, Addressee
    <2>2. PICK old : struct.fields = ReadInto(t, packet.buffer.json, old)
      BY <2>1, Understanding
    <2>3. struct.fields = ReadInto(t, JsonOf(t, m), old)
      BY <2>2, OwnPacket
    <2> HIDE DEF t, m
    <2> QED BY <2>3, OwnPacket, ReadOver DEF t, m
  <1> QED BY <1>1, PayloadAlways, ReadAlways, Addressed, PTL

(* What is read of a word.                                                 *)
LEMMA WordRead ==
    ASSUME NEW t \in MessageTypes, NEW j, NEW old, NEW k \in EnumKeys \cap Keys[t],
           k \in DOMAIN j \/ <<t, k>> # <<"control", "side">>
    PROVE  ReadInto(t, j, old)[k] = Understood(k, j)
  <1>1. k \notin Untouched(t, j)
    <2>1. t # "connection"
      BY KeyNames, KeyClasses
    <2>2. t = "medical" => k = "side"
      BY KeyNames, KeyClasses
    <2> QED BY <2>1, <2>2, KeyClasses DEF Untouched, Told
  <1>2. ReadInto(t, j, old)[k] = ValueIn(k, j, old[k])
    BY <1>1 DEF ReadInto
  <1> QED BY <1>2, KeyClasses DEF ValueIn

(* The values that stand for an unknown word cannot be written.            *)
LEMMA NoWord ==
    ASSUME NEW k \in EnumKeys
    PROVE  /\ UNKNOWN \notin DOMAIN WireForm[Table(k)]
           /\ k = "side" => "NONE" \notin DOMAIN WireForm[Table(k)]
  <1>1. CASE k \in Statuses
    BY <1>1 DEF Table, WireForm, Statuses, UNKNOWN
  <1>2. CASE k = "priority"
    BY <1>2 DEF Table, WireForm, Statuses, UNKNOWN
  <1>3. CASE k = "state"
    BY <1>3 DEF Table, WireForm, Statuses, UNKNOWN
  <1>4. CASE k = "weapon"
    BY <1>4 DEF Table, WireForm, Statuses, UNKNOWN
  <1>5. CASE k = "type"
    BY <1>5 DEF Table, WireForm, Statuses, UNKNOWN
  <1>6. CASE k = "phase_type"
    BY <1>6 DEF Table, WireForm, Statuses, UNKNOWN
  <1>7. CASE k = "command"
    BY <1>7 DEF Table, WireForm, Statuses, UNKNOWN
  <1>8. CASE k = "side"
    BY <1>8 DEF Table, WireForm, Statuses, UNKNOWN
  <1> QED BY <1>1, <1>2, <1>3, <1>4, <1>5, <1>6, <1>7, <1>8 DEF EnumKeys

(* A struct that was read can be written when no word was lost, and only   *)
(* then.                                                                   *)
LEMMA Rewritable ==
    ASSUME NEW t \in MessageTypes, NEW j
    PROVE  Refused(t, ReadInto(t, j, Fresh(t))) <=> Lost(t, j) # {}
  <1> DEFINE f == ReadInto(t, j, Fresh(t))
  <1>1. ASSUME NEW k \in Lost(t, j)
        PROVE  k \in Written(t, f) \cap EnumKeys /\ f[k] \notin DOMAIN WireForm[Table(k)]
    <2>1. /\ k \in EnumKeys \cap Keys[t] /\ <<t, k>> # <<"control", "side">>
          /\ ~ (k \in DOMAIN j /\ j[k] \in DOMAIN MeaningOf(k))
      BY DEF Lost
    <2>2. f[k] = Understood(k, j)
      BY <2>1, WordRead
    <2>3. f[k] = IF k = "side" THEN "NONE" ELSE UNKNOWN
      BY <2>1, <2>2 DEF Understood
    <2>4. k \notin Omitted(t, f)
      <3>1. k \notin Optionals \cup Coaches \cup Officials
        BY <2>1, KeyClasses
      <3>2. k \notin {"duration_ms", "remaining_ms", "remaining"} /\ t # "connection"
        BY <2>1, KeyClasses, KeyNames
      <3> QED BY <2>1, <3>1, <3>2 DEF Omitted
    <2> QED BY <2>1, <2>3, <2>4, NoWord DEF Written
  <1>2. ASSUME NEW k \in Written(t, f) \cap EnumKeys, f[k] \notin DOMAIN WireForm[Table(k)]
        PROVE  k \in Lost(t, j)
    <2>1. k \in EnumKeys \cap Keys[t] /\ (t = "control" /\ k = "side" => f[k] # "NONE")
      BY DEF Written, Omitted
    <2>2. CASE k \in DOMAIN j /\ j[k] \in DOMAIN MeaningOf(k)
      <3>1. f[k] = MeaningOf(k)[j[k]]
        BY <2>1, <2>2, WordRead DEF Understood
      <3> QED BY <1>2, <2>1, <2>2, <3>1, WordsKnown
    <2>3. CASE ~ (k \in DOMAIN j /\ j[k] \in DOMAIN MeaningOf(k))
      <3>1. ASSUME t = "control", k = "side" PROVE FALSE
        <4>1. CASE k \in DOMAIN j
          <5>1. f[k] = "NONE"
            BY <2>1, <2>3, <3>1, <4>1, WordRead DEF Understood
          <5> QED BY <2>1, <3>1, <5>1
        <4>2. CASE k \notin DOMAIN j
          <5>1. k \in Untouched(t, j)
            BY <2>1, <3>1, <4>2 DEF Untouched
          <5>2. f[k] = Initial(k)
            BY <2>1, <5>1 DEF ReadInto, Fresh
          <5>3. Initial(k) = "NONE"
            BY <3>1, KeyClasses DEF Initial, EnumInitial, Switches, Texts, Statuses
          <5> QED BY <2>1, <3>1, <5>2, <5>3
        <4> QED BY <4>1, <4>2
      <3>2. <<t, k>> # <<"control", "side">>
        BY <3>1
      <3> QED BY <2>1, <2>3, <3>2 DEF Lost
    <2> QED BY <2>2, <2>3
  <1> HIDE DEF f
  <1>3. Refused(t, f) <=> Lost(t, j) # {}
    BY <1>1, <1>2 DEF Refused
  <1> QED BY <1>3 DEF f

(* Who relays what it has understood changes nothing; it can relay it if   *)
(* no word was lost on it, and not otherwise.                              *)
THEOREM Relayed == Spec => []RelayFaithful
  <1>1. PayloadInv /\ ReadInv => RelayFaithful
    <2> DEFINE t == struct.type
               f == struct.fields
               r == Serialize(t, f, TRUE, EmptyBuffer)
    <2> SUFFICES ASSUME PayloadInv, ReadInv, verdict.error = "OK", verdict.fresh
                 PROVE  /\ r.result = "OK" <=> Lost(t, packet.buffer.json) = {}
                        /\ r.result = "OK" =>
                              /\ ReadError(t, r.buffer) = "OK"
                              /\ SameMeaning(t, f, ReadInto(t, r.buffer.json, Fresh(t)))
      BY DEF RelayFaithful, Understands
    <2>1. t \in MessageTypes /\ IsStruct(t, f)
      BY Understanding
    <2>2. f = ReadInto(t, packet.buffer.json, Fresh(t))
      BY Understanding
    <2>3. r.result = "OK" <=> ~ Refused(t, f)
      BY DEF Serialize
    <2>4. r.result = "OK" <=> Lost(t, packet.buffer.json) = {}
      BY <2>1, <2>2, <2>3, Rewritable
    <2>5. ASSUME r.result = "OK"
          PROVE  /\ ReadError(t, r.buffer) = "OK"
                 /\ SameMeaning(t, f, ReadInto(t, r.buffer.json, Fresh(t)))
      <3> HIDE DEF t, f
      <3> QED BY <2>1, <2>3, <2>5, RoundTrip
    <2> QED BY <2>4, <2>5
  <1> QED BY <1>1, PayloadAlways, ReadAlways, PTL
=============================================================================
