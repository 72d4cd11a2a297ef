---------------------------- MODULE Deserializer -----------------------------
(***************************************************************************)
(* Deserializer of opp2_deserialize.h: which payload is accepted as which  *)
(* message, and with which error it is refused.  A payload is abstracted   *)
(* to what decides that: the state of the buffer, the value of "protocol", *)
(* the set of fields present with a JSON type the code accepts, the value  *)
(* of the Boolean that changes what is mandatory ("online", "active"), and *)
(* a body that stands for the values of all other fields.  ArduinoJson is  *)
(* external: whether it can parse the bytes is the form of the payload.    *)
(***************************************************************************)
EXTENDS OPP2Types

CONSTANT Bodies         \* the contents that two messages of one type may differ in

NoBody == "no body"     \* the in-class initialisers of the message structs

ASSUME BodiesAssumption == NoBody \notin Bodies

Forms     == {"null", "empty", "invalid", "object"}
Protocols == {"absent", "OPP2", "other"}

(* Each clause is a set of fields of which one is required. *)
Clause(fields) == {{f} : f \in fields}

(* Faulty variant: the two sides of lights are not looked for.             *)
MandatoryInActionSeq ==
    [lights        |-> Clause({"seq"}),
     clock         |-> Clause({"time_ms"}),
     blade_contact |-> Clause({"active"}),
     score         |-> Clause({"seq", "right.score", "left.score"})]

(* What each overload of deserialize() requires once the protocol is      *)
(* accepted.  "a.b" is field b of object a: when a is null its fields are *)
(* not there either.  "time" and "remaining" are strings that parseToMs   *)
(* accepts, used only when the integer beside them is absent.             *)
MandatoryInAction ==
    [lights        |-> Clause({"seq", "right", "left"}),
     clock         |-> Clause({"time_ms"}),
     blade_contact |-> Clause({"active"}),
     score         |-> Clause({"seq", "right.score", "left.score"})]

MandatoryInBout ==
    [connection |-> Clause({"online"}),
     state      |-> Clause({"seq", "state"}),
     fencers    |-> Clause({"seq", "left.fencer", "right.fencer"}),
     match      |-> Clause({"seq", "weapon", "type", "competition", "phase_type",
                            "phase", "poule", "match", "round"}),
     uw2f       |-> Clause({"seq", "right", "left"}) \cup {{"time_ms", "time"}}]

MandatoryInPause ==
    [medical      |-> Clause({"seq", "active", "side"}),
     video_review |-> Clause({"seq", "left.remaining", "right.remaining"}),
     control      |-> Clause({"seq", "command"})]

Mandatory ==
    [t \in MessageTypes |->
        CASE t \in DOMAIN MandatoryInAction -> MandatoryInAction[t]
          [] t \in DOMAIN MandatoryInBout   -> MandatoryInBout[t]
          [] t \in DOMAIN MandatoryInPause  -> MandatoryInPause[t]]

(* A medical intervention that is under way also carries its times. *)
MandatoryWhenActive == {{"duration_ms"}, {"remaining_ms", "remaining"}}

(* The types with a sender's timestamp, which no overload requires. *)
Timestamped == {"lights", "clock", "blade_contact", "control"}

Fields == UNION UNION {Mandatory[t] : t \in MessageTypes}
              \cup UNION MandatoryWhenActive \cup {"ts"}

Payload == [form : Forms, protocol : Protocols, has : SUBSET Fields,
            flag : BOOLEAN, body : Bodies]

Message == [type : MessageTypes, flag : BOOLEAN, stamped : BOOLEAN,
            body : Bodies \cup {NoBody}]

(* A message struct nothing was parsed into. *)
DefaultMessage(t) ==
    [type |-> t, flag |-> FALSE, stamped |-> FALSE, body |-> NoBody]

Required(t, p) ==
    Mandatory[t] \cup (IF t = "medical" /\ p.flag THEN MandatoryWhenActive ELSE {})

Complete(t, p) == \A c \in Required(t, p) : c \cap p.has # {}

(* {"online": false} is the LWT form: accepted before the protocol is     *)
(* looked at, and nothing else of the payload is read.                    *)
IsOffline(t, p) == t = "connection" /\ "online" \in p.has /\ ~ p.flag

(* The value deserialize() returns for a payload taken as type t.         *)
(* connection is the only overload that looks for a mandatory field       *)
(* before the protocol.                                                   *)
DeserError(t, p) ==
    CASE p.form = "null"                                -> "BUFFER_NULL"
      [] p.form \in {"empty", "invalid"}                -> "INVALID_JSON"
      [] p.form = "object" /\ IsOffline(t, p)           -> "OK"
      [] p.form = "object" /\ ~ IsOffline(t, p) ->
           IF t = "connection" /\ ~ Complete(t, p) THEN "MISSING_FIELD"
           ELSE IF p.protocol = "other" THEN "WRONG_PROTOCOL"
           ELSE IF Complete(t, p) THEN "OK" ELSE "MISSING_FIELD"

(* Faulty variant: a struct with a field that no overload fills.          *)
DeserializedInPart(t, p) ==
    [type |-> t, flag |-> p.flag, stamped |-> t \in Timestamped /\ "ts" \in p.has,
     body |-> "indeterminate"]

(* The struct deserialize() has filled when it returns OK. *)
Deserialized(t, p) ==
    IF IsOffline(t, p)
    THEN DefaultMessage(t)
    ELSE [type |-> t, flag |-> p.flag,
          stamped |-> t \in Timestamped /\ "ts" \in p.has, body |-> p.body]
=============================================================================
