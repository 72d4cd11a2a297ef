------------------------------ MODULE OPP2Types ------------------------------
(***************************************************************************)
(* The enumerations and the per-message-type metadata of opp2_types.h.     *)
(* There is no state here: the other modules EXTEND this one.              *)
(***************************************************************************)

(* The wire tables of opp2_topic.h map a topic segment to an enum value;  *)
(* an enum value is named here by that segment, so that the tables become *)
(* the membership tests PublisherFromString and MessageTypeFromString of  *)
(* TopicParser.                                                           *)
UNKNOWN == "UNKNOWN"

Publishers == {"apparatus", "software", "remote"}

MessageTypes == {"lights", "clock", "blade_contact", "score", "connection",
                 "state", "fencers", "match", "uw2f", "medical",
                 "video_review", "control"}

(* MESSAGE_META: the delivery class of each message type.  The column     *)
(* expected_publisher is left out: no code of the library reads it.       *)
Retained == MessageTypes \ {"blade_contact", "control"}

Qos == [t \in MessageTypes |-> IF t \in {"clock", "blade_contact"} THEN 0 ELSE 1]

(* The fields of a SystemState: one per retained message type.            *)
MirrorFields == {"lights", "clock", "score", "connection", "state", "fencers",
                 "match", "uw2f", "medical", "video_review"}

(* Whoever reads a mirror relies on the two lists being the same.         *)
ASSUME MirrorsWhatIsRetained == MirrorFields = Retained

DispatchResults == {"OK", "UNKNOWN_TOPIC", "DESERIALIZE_ERROR", "NO_CALLBACK",
                    "UNKNOWN_TYPE"}

DeserializeErrors == {"OK", "INVALID_JSON", "MISSING_FIELD", "WRONG_PROTOCOL",
                      "BUFFER_NULL"}
=============================================================================
