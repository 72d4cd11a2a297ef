------------------------------ MODULE Timestamp ------------------------------
(***************************************************************************)
(* Timestamp of opp2_types.h: a clock source in the upper byte of a 64-bit *)
(* integer, milliseconds in the other seven.                               *)
(***************************************************************************)
EXTENDS Integers

CONSTANT Low            \* the number of values of the lower bytes: 2^56 in the code

ASSUME LowAssumption == Low \in Nat \ {0}

SourceFlag == [NTP |-> 0, SESSION |-> 1, UNKNOWN |-> 255]

TimestampType == [source : DOMAIN SourceFlag, value : Nat]

NoTimestamp == [source |-> "SESSION", value |-> 0]

(* Faulty variant: the flag of an unknown source is left at zero.          *)
EncodeKnown(ts) ==
    (IF ts.source = "UNKNOWN" THEN 0 ELSE SourceFlag[ts.source] * Low) + (ts.value % Low)

Encode(ts) == SourceFlag[ts.source] * Low + (ts.value % Low)

Decode(raw) ==
    [source |-> CASE raw \div Low = 0 -> "NTP"
                  [] raw \div Low = 1 -> "SESSION"
                  [] OTHER            -> "UNKNOWN",
     value  |-> raw % Low]

FromEpochMs(ms) == [source |-> "NTP", value |-> ms]
FromMillis(ms)  == [source |-> "SESSION", value |-> ms]
=============================================================================
