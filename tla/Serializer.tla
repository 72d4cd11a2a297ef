----------------------------- MODULE Serializer ------------------------------
(***************************************************************************)
(* Serializer of opp2_serialize.h.  A JSON object is a function from the   *)
(* keys it holds to their values, "a.b" for key b of the object under a;   *)
(* an object under a key is there as that key too.  Documents never run    *)
(* full, as with ArduinoJson 7.                                            *)
(***************************************************************************)
EXTENDS Messages

PROTOCOL_ID == "OPP2"

(* The switch statements: a value without a wire form is refused. *)
WireForm ==
    [status     |-> [UNDEFINED |-> "U", VICTORY |-> "V", DEFEAT |-> "D",
                     ABANDONMENT |-> "A", EXCLUSION |-> "E", DNS |-> "DNS"],
     priority   |-> [NONE |-> "N", RIGHT |-> "R", LEFT |-> "L"],
     state      |-> [FENCING |-> "F", HALT |-> "H", PAUSE |-> "P", WAITING |-> "W",
                     ENDING |-> "E"],
     weapon     |-> [FOIL |-> "F", EPEE |-> "E", SABRE |-> "S"],
     type       |-> [INDIVIDUAL |-> "I", TEAM |-> "T"],
     phase_type |-> [POOL |-> "pool", DE |-> "DE", REPECHAGE |-> "repechage",
                     CLASSIFICATION |-> "classification"],
     side       |-> [LEFT |-> "left", RIGHT |-> "right"],
     command    |-> [c \in {"NEXT", "PREV", "END", "MEDICAL", "RESERVE", "ACK", "NAK",
                            "VIDEO_REVIEW_REQUEST", "VIDEO_REVIEW_GRANTED",
                            "VIDEO_REVIEW_DENIED", "BEGIN", "HALT", "RESET",
                            "VALIDATE"} |-> c]]

(* The table for the field at this key. *)
Table(k) == IF k \in Statuses THEN "status" ELSE k

(* The objects a message has besides its root. *)
Objects(t, m) ==
    CASE t \in {"lights", "score", "uw2f", "video_review"} -> {"right", "left"}
      [] t = "fencers" -> {"right", "left"} \cup
                          {"common" : k \in {o \in Officials : m[o].present}}
      [] OTHER -> {}

(* What is left out of the payload. *)
Omitted(t, m) ==
    {k \in Keys[t] : \/ k \in Optionals \cup Coaches \cup Officials /\ ~ m[k].present
                     \/ t = "control" /\ k = "side" /\ m[k] = "NONE"
                     \/ /\ t = "medical" /\ ~ m["active"]
                        /\ k \in {"duration_ms", "remaining_ms", "remaining"}
                     \/ t = "connection" /\ ~ m["online"] /\ k # "online"}

Written(t, m) == Keys[t] \ Omitted(t, m)

(* Faulty variant: every call says whether it was granted.                 *)
CallOutDecided(c) == [id |-> c.id, granted |-> {c.granted = "GRANTED"}]

(* A call that is pending has no "granted". *)
CallOut(c) ==
    [id |-> c.id, granted |-> CASE c.granted = "GRANTED" -> {TRUE}
                                [] c.granted = "DENIED"  -> {FALSE}
                                [] OTHER                 -> {}]

ValueOut(m, k) ==
    CASE k = "ts"                     -> Encode(m[k])
      [] k \in DOMAIN MsOf            -> TimeStr(m[MsOf[k]], TIME_BUF)
      [] k \in EnumKeys               -> WireForm[Table(k)][m[k]]
      [] k \in Optionals \cup Persons -> m[k].value
      [] k \in Calls                  -> [i \in DOMAIN m[k] |-> CallOut(m[k][i])]
      [] OTHER                        -> m[k]

(* The object serialize() fills. *)
JsonOf(t, m) ==
    LET protocol == {"protocol" : k \in Written(t, m) \ {"online"}}
    IN  [k \in Written(t, m) \cup Objects(t, m) \cup protocol |->
            IF k \in Written(t, m) THEN ValueOut(m, k)
            ELSE IF k \in Objects(t, m) THEN "object" ELSE PROTOCOL_ID]

Refused(t, m) ==
    \E k \in Written(t, m) \cap EnumKeys : m[k] \notin DOMAIN WireForm[Table(k)]

(* What the caller's buffer holds: nothing, or the payload of a message.   *)
EmptyBuffer == [form |-> "empty", of |-> UNKNOWN, json |-> <<>>]
Holding(t, json) == [form |-> "object", of |-> t, json |-> json]

(* serialize(): its value, and the buffer after it, which was buf before.  *)
(* The buffer is not touched when an argument is refused.                  *)
Serialize(t, m, fits, buf) ==
    CASE Refused(t, m)            -> [result |-> "INVALID_ARG", buffer |-> buf]
      [] ~ Refused(t, m) /\ ~ fits -> [result |-> "BUFFER_SMALL", buffer |-> EmptyBuffer]
      [] ~ Refused(t, m) /\ fits   -> [result |-> "OK", buffer |-> Holding(t, JsonOf(t, m))]
=============================================================================
