---------------------------- MODULE MessageReader ----------------------------
(***************************************************************************)
(* What the overloads of deserialize() put into the fields of a struct,    *)
(* next to Deserializer, which says what they accept.                      *)
(***************************************************************************)
EXTENDS Messages, Deserializer

(* The strcmp() chains of the parse functions, written apart from the      *)
(* switch statements of the serializer.                                    *)
Meaning ==
    [status     |-> [U |-> "UNDEFINED", V |-> "VICTORY", D |-> "DEFEAT",
                     A |-> "ABANDONMENT", E |-> "EXCLUSION", DNS |-> "DNS"],
     priority   |-> [N |-> "NONE", R |-> "RIGHT", L |-> "LEFT"],
     state      |-> [F |-> "FENCING", H |-> "HALT", P |-> "PAUSE", W |-> "WAITING",
                     E |-> "ENDING"],
     weapon     |-> [F |-> "FOIL", E |-> "EPEE", S |-> "SABRE"],
     type       |-> [I |-> "INDIVIDUAL", T |-> "TEAM"],
     phase_type |-> [pool |-> "POOL", DE |-> "DE", repechage |-> "REPECHAGE",
                     classification |-> "CLASSIFICATION"],
     side       |-> [left |-> "LEFT", right |-> "RIGHT"],
     command    |-> [c \in {"NEXT", "PREV", "END", "MEDICAL", "RESERVE", "ACK", "NAK",
                            "VIDEO_REVIEW_REQUEST", "VIDEO_REVIEW_GRANTED",
                            "VIDEO_REVIEW_DENIED", "BEGIN", "HALT", "RESET",
                            "VALIDATE"} |-> c]]

MeaningOf(k) == Meaning[IF k \in Statuses THEN "status" ELSE k]

Numeral == [len : Nat, val : Nat]

(* What ArduinoJson may find at a key that the code reads; a member of     *)
(* another JSON type is as if it were absent.                              *)
JsonOK(k, v) ==
    CASE k = "ts"               -> v \in Nat
      [] k \in Switches         -> v \in BOOLEAN
      [] k \in {"time_ms", "remaining_ms"} -> v \in 0 .. Word - 1
      [] k \in DOMAIN MsOf      -> v \in [min : Numeral, sec : Numeral,
                                           dot : BOOLEAN, frac : Numeral]
      [] k \in Calls            -> v \in Seq([id : Nat, granted : {{}, {TRUE}, {FALSE}}])
      [] OTHER                  -> TRUE

IsJson(t, j) == \A k \in Keys[t] \cap DOMAIN j : JsonOK(k, j[k])

(* The payload as Deserializer sees it. *)
AsPayload(t, j) ==
    [form     |-> "object",
     protocol |-> IF "protocol" \in DOMAIN j THEN j["protocol"] ELSE "absent",
     has      |-> {k \in DOMAIN j : k \in DOMAIN MsOf => TimeOk(j[k])},
     flag     |-> CASE t = "connection" /\ "online" \in DOMAIN j -> j["online"]
                    [] t = "medical" /\ "active" \in DOMAIN j    -> j["active"]
                    [] OTHER                                     -> FALSE,
     body     |-> NoBody]

(* deserialize()'s value for a buffer taken as a message of type t. *)
ReadError(t, buffer) ==
    IF buffer.form = "object" THEN DeserError(t, AsPayload(t, buffer.json))
    ELSE "INVALID_JSON"

(* Faulty variant: whatever the payload does not mention is skipped.       *)
UntouchedIfAbsent(t, j) == Keys[t] \ DOMAIN j

(* The fields an accepted payload does not touch. *)
Untouched(t, j) ==
    {k \in Keys[t] :
        \/ k \notin DOMAIN j /\ k \in Optionals
        \/ k \notin DOMAIN j /\ t = "connection" /\ k = "seq"
        \/ k \notin DOMAIN j /\ t = "control" /\ k = "side"
        \/ "common" \notin DOMAIN j /\ k \in Officials
        \/ t = "medical" /\ ~ j["active"] /\ k \notin Told(t, j)
        \/ t = "connection" /\ ~ j["online"] /\ k \notin Told(t, j)}

(* An unknown word is taken for UNKNOWN, an unknown side for none. *)
Understood(k, j) ==
    IF k \in DOMAIN j /\ j[k] \in DOMAIN MeaningOf(k) THEN MeaningOf(k)[j[k]]
    ELSE IF k = "side" THEN "NONE" ELSE UNKNOWN

CallIn(c) ==
    [id |-> c.id, granted |-> CASE c.granted = {TRUE}  -> "GRANTED"
                                [] c.granted = {FALSE} -> "DENIED"
                                [] c.granted = {}      -> "PENDING"]

(* The first MaxCalls of the calls. *)
CallsIn(k, j) ==
    IF k \notin DOMAIN j THEN <<>>
    ELSE [i \in {n \in DOMAIN j[k] : n <= MaxCalls} |-> CallIn(j[k][i])]

(* Faulty variant: the string is kept when there is one.                   *)
TimeInAsSent(k, j) ==
    IF k \in DOMAIN j THEN CutTo(j[k], TIME_BUF) ELSE TimeStr(j[MsOf[k]], TIME_BUF)

(* parseTimePair(): the milliseconds decide, the string stands in for them. *)
TimeIn(k, j) ==
    IF MsOf[k] \in DOMAIN j THEN TimeStr(j[MsOf[k]], TIME_BUF) ELSE CutTo(j[k], TIME_BUF)

MsIn(k, j) ==
    IF k \in DOMAIN j THEN j[k]
    ELSE ParseToMs(j[CHOOSE s \in DOMAIN MsOf : MsOf[s] = k])

(* What a field that is touched is set to, with was its value before. *)
ValueIn(k, j, was) ==
    CASE k = "ts"             -> IF k \in DOMAIN j THEN Decode(j[k]) ELSE NoTimestamp
      [] k \in DOMAIN MsOf    -> TimeIn(k, j)
      [] k \in {"time_ms", "remaining_ms"} -> MsIn(k, j)
      [] k \in EnumKeys       -> Understood(k, j)
      [] k \in Optionals      -> Present(j[k])
      [] k \in Persons        -> IF k \in DOMAIN j THEN Present(j[k])
                                 ELSE [present |-> FALSE, value |-> was.value]
      [] k \in Calls          -> CallsIn(k, j)
      [] OTHER                -> IF k \in DOMAIN j THEN j[k] ELSE Initial(k)

(* Faulty variant: fields nobody assigned hold nothing to rely on.         *)
ReadIntoRaw(t, j, old) == [k \in Keys[t] \ Untouched(t, j) |-> ValueIn(k, j, old[k])]

(* The struct after an accepted payload was read into it. *)
ReadInto(t, j, old) ==
    [k \in Keys[t] |-> IF k \in Untouched(t, j) THEN old[k] ELSE ValueIn(k, j, old[k])]
=============================================================================
