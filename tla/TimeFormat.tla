----------------------------- MODULE TimeFormat ------------------------------
(***************************************************************************)
(* TimeFormat of opp2_time.h: "M:SS" and "M:SS.cc".  A time string is its  *)
(* numerals, each with its value and its number of digits, and whether it  *)
(* has a fraction; strings with anything but digits in a numeral, which    *)
(* parseToMs() refuses, are represented by numerals without digits.        *)
(***************************************************************************)
EXTENDS Integers

CONSTANT Word           \* the number of values of a uint32_t: 2^32 in the code

ASSUME WordAssumption ==
    /\ Word \in Nat
    /\ Word >= 10000
    /\ Word \div 65536 <= 65536

MIN_BUF  == 8           \* parseToMs(): digits of the minutes, with the null
TIME_BUF == 12          \* the time members of the message structs

(* The digits that %u prints. *)
Digits(n) ==
    IF n < 10 THEN 1 ELSE IF n < 100 THEN 2 ELSE IF n < 1000 THEN 3
    ELSE IF n < 10000 THEN 4 ELSE IF n < 100000 THEN 5 ELSE 6

Plain(n)  == [len |-> Digits(n), val |-> n]          \* %u
Padded(n) == [len |-> 2, val |-> n]                  \* %02u below 100
NoDigits  == [len |-> 0, val |-> 0]

StrLen(s) == s.min.len + 1 + s.sec.len + (IF s.dot THEN 1 + s.frac.len ELSE 0)

TenSeconds == 10000

Minutes(ms)    == ((ms \div 10) \div 100) \div 60
Seconds(ms)    == ((ms \div 10) \div 100) % 60
Hundredths(ms) == (ms \div 10) % 100

(* What formatMs() prints: hundredths below ten seconds only. *)
Format(ms) ==
    [min |-> Plain(Minutes(ms)), sec |-> Padded(Seconds(ms)), dot |-> ms < TenSeconds,
     frac |-> IF ms < TenSeconds THEN Padded(Hundredths(ms)) ELSE NoDigits]

(* The return value of formatMs(). *)
FormatFits(ms, size) == size >= 9 /\ StrLen(Format(ms)) < size

(* populateTimeStr(), with its fallback "0:00". *)
TimeStr(ms, size) ==
    IF FormatFits(ms, size)
    THEN Format(ms)
    ELSE [min |-> Plain(0), sec |-> Padded(0), dot |-> FALSE, frac |-> NoDigits]

(* The fraction in hundredths: one digit stands for tenths. *)
Centiseconds(s) ==
    IF ~ s.dot THEN 0 ELSE IF s.frac.len = 1 THEN s.frac.val * 10 ELSE s.frac.val

(* The return value of parseToMs(). *)
TimeOk(s) ==
    /\ s.min.len \in 1 .. MIN_BUF - 1
    /\ s.sec.len \in 1 .. 2
    /\ s.sec.val <= 59
    /\ s.dot => s.frac.len \in 1 .. 2
    /\ Centiseconds(s) <= 99

(* The time a string shows, and what parseToMs() makes of it in 32 bits.   *)
ShownMs(s) == (s.min.val * 60 + s.sec.val) * 1000 + Centiseconds(s) * 10

ParseToMs(s) == ShownMs(s) % Word

(* strncpy() into a member of this size: the end of a long fraction is     *)
(* lost (seven digits of minutes leave none of it).                        *)
CutTo(s, size) ==
    IF StrLen(s) < size THEN s
    ELSE LET left == size - 1 - (StrLen(s) - s.frac.len)
         IN  [s EXCEPT !.frac = IF left = 1 THEN [len |-> 1, val |-> @.val \div 10]
                                            ELSE NoDigits]

(* What a time string keeps of the milliseconds it was made from. *)
Truncated(ms) == IF ms < TenSeconds THEN ms - (ms % 10) ELSE ms - (ms % 1000)
=============================================================================
