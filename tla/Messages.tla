------------------------------ MODULE Messages -------------------------------
(***************************************************************************)
(* The message structs of opp2_types.h with their in-class initialisers.   *)
(* A struct of message type t is a function on Keys[t].  A field is named  *)
(* by its place in the JSON payload ("right.green" is right.on_target); a  *)
(* field with a presence flag is a record of the flag and the value, and a *)
(* Person is the same, its id, name and nation taken as one value.         *)
(***************************************************************************)
EXTENDS OPP2Types, TimeFormat, Timestamp, Sequences

CONSTANT MaxCalls       \* OPP2_MAX_VIDEO_CALLS: 16 unless the build says otherwise

ASSUME MaxCallsAssumption == MaxCalls \in Nat \ {0}

Keys ==
    [lights        |-> {"seq", "ts", "right.green", "right.white", "left.red",
                        "left.white"},
     clock         |-> {"ts", "running", "time_ms", "time"},
     blade_contact |-> {"ts", "active"},
     score         |-> {"seq", "priority",
                        "right.score", "right.status", "right.yellow_card",
                        "right.red_cards", "right.black_card",
                        "left.score", "left.status", "left.yellow_card",
                        "left.red_cards", "left.black_card"},
     connection    |-> {"seq", "online", "device", "fw_version"},
     state         |-> {"seq", "state"},
     fencers       |-> {"seq", "left.fencer", "left.coach", "right.fencer",
                        "right.coach", "common.referee", "common.video_official"},
     match         |-> {"seq", "weapon", "type", "competition", "phase_type",
                        "phase", "poule", "match", "round", "scheduled"},
     uw2f          |-> {"seq", "time_ms", "time", "right.p_card", "left.p_card"},
     medical       |-> {"seq", "active", "side", "duration_ms", "remaining_ms",
                        "remaining"},
     video_review  |-> {"seq", "left.remaining", "left.calls", "right.remaining",
                        "right.calls"},
     control       |-> {"seq", "ts", "command", "side", "duration"}]

Switches == {"right.green", "right.white", "left.red", "left.white", "running",
             "active", "online", "right.yellow_card", "right.black_card",
             "left.yellow_card", "left.black_card"}

Texts == {"competition", "phase", "poule"}

(* Fields with a flag beside them: device_present, ... *)
Optionals == {"device", "fw_version", "scheduled", "duration"}

Fencer    == {"left.fencer", "right.fencer"}
Coaches   == {"left.coach", "right.coach"}
Officials == {"common.referee", "common.video_official"}
Persons   == Fencer \cup Coaches \cup Officials

Calls == {"left.calls", "right.calls"}

(* A formatted time and the milliseconds it is made from. *)
MsOf == [time |-> "time_ms", remaining |-> "remaining_ms"]

Statuses == {"right.status", "left.status"}

EnumKeys == Statuses \cup {"priority", "state", "weapon", "type", "phase_type",
                           "command", "side"}

(* A member of the enumeration of this name, when nothing was assigned. *)
EnumInitial(k) ==
    CASE k \in Statuses           -> "UNDEFINED"
      [] k = "state"              -> "WAITING"
      [] k \in {"priority", "side"} -> "NONE"
      [] OTHER                    -> UNKNOWN

NoText == ""
NoTime == [min |-> NoDigits, sec |-> NoDigits, dot |-> FALSE, frac |-> NoDigits]

Present(v) == [present |-> TRUE, value |-> v]
Absent     == [present |-> FALSE, value |-> NoText]

Initial(k) ==
    CASE k \in Switches              -> FALSE
      [] k \in Texts                 -> NoText
      [] k \in Optionals \cup Persons -> Absent
      [] k \in Calls                 -> <<>>
      [] k \in DOMAIN MsOf           -> NoTime
      [] k \in EnumKeys              -> EnumInitial(k)
      [] k = "ts"                    -> NoTimestamp
      [] k = "round"                 -> 1
      [] OTHER                       -> 0

(* A struct that was declared and not filled. *)
Fresh(t) == [k \in Keys[t] |-> Initial(k)]

Granted == {"PENDING", "GRANTED", "DENIED"}

(* What a member of a struct may hold; of a timestamp the 56 bits that     *)
(* encode() has room for.                                                  *)
FieldOK(k, v) ==
    CASE k = "ts"                     -> v \in TimestampType /\ v.value < Low
      [] k \in Switches               -> v \in BOOLEAN
      [] k \in {"time_ms", "remaining_ms"} -> v \in 0 .. Word - 1
      [] k \in Optionals \cup Persons -> /\ v.present \in BOOLEAN
                                         /\ v = [present |-> v.present, value |-> v.value]
      [] k \in Calls                  -> /\ v \in Seq([id : Nat, granted : Granted])
                                         /\ Len(v) <= MaxCalls
      [] OTHER                        -> TRUE

IsStruct(t, m) == DOMAIN m = Keys[t] /\ \A k \in Keys[t] : FieldOK(k, m[k])

(* Nothing more can be told from a connection message that says offline,   *)
(* nor about the times of an intervention that is not under way.           *)
Told(t, m) ==
    CASE t = "connection" /\ ~ m["online"] -> {"online"}
      [] t = "medical" /\ ~ m["active"]    -> {"seq", "active", "side"}
      [] OTHER                             -> Keys[t]

(* Two values of a field say the same to whoever looks at its flag first.  *)
(* A fencer is always present; a time is told by its milliseconds.         *)
SameField(k, v, w) ==
    \/ v = w
    \/ k \in DOMAIN MsOf
    \/ k \in Optionals \cup Coaches \cup Officials /\ ~ v.present /\ ~ w.present
    \/ k \in Fencer /\ v.value = w.value

SameMeaning(t, m, n) ==
    /\ Told(t, m) = Told(t, n)
    /\ \A k \in Told(t, m) : SameField(k, m[k], n[k])
=============================================================================
