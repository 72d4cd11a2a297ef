--------------------------- MODULE Formats_proofs ----------------------------
(***************************************************************************)
(* What the conversions of opp2_time.h and opp2_types.h preserve, for      *)
(* every value.                                                            *)
(***************************************************************************)
EXTENDS TimeFormat, Timestamp, TLAPS

Milliseconds == 0 .. Word - 1

(* A time is its minutes, seconds, hundredths and a rest.                  *)
LEMMA TimeParts ==
    ASSUME NEW ms \in Milliseconds
    PROVE  /\ ms \in Nat
           /\ Minutes(ms) \in Nat
           /\ Seconds(ms) \in 0 .. 59
           /\ Hundredths(ms) \in 0 .. 99
           /\ ms % 10 \in 0 .. 9
           /\ ms = (Minutes(ms) * 60 + Seconds(ms)) * 1000 + Hundredths(ms) * 10 + (ms % 10)
           /\ ms % 1000 = Hundredths(ms) * 10 + (ms % 10)
  <1>1. ms \in Nat
    BY WordAssumption DEF Milliseconds
  <1>2. PICK cs \in Nat, r \in 0 .. 9 : ms = cs * 10 + r /\ cs = ms \div 10 /\ r = ms % 10
    BY <1>1
  <1>3. PICK s \in Nat, c \in 0 .. 99 : cs = s * 100 + c /\ s = cs \div 100 /\ c = cs % 100
    BY <1>2
  <1>4. PICK m \in Nat, sec \in 0 .. 59 : s = m * 60 + sec /\ m = s \div 60 /\ sec = s % 60
    BY <1>3
  <1>5. ms = cs * 10 + r /\ cs = s * 100 + c /\ s = m * 60 + sec
    BY <1>2, <1>3, <1>4
  <1>6. ms = (m * 60 + sec) * 1000 + c * 10 + r
    BY <1>5
  <1>7. ms % 1000 = c * 10 + r
    BY <1>6
  <1>8. Hundredths(ms) = c
    BY <1>2, <1>3 DEF Hundredths
  <1>9. Seconds(ms) = sec /\ Minutes(ms) = m
    <2>1. s = (ms \div 10) \div 100
      BY <1>2, <1>3
    <2>2. m = s \div 60 /\ sec = s % 60
      BY <1>4
    <2>3. Seconds(ms) = s % 60
      BY <2>1 DEF Seconds
    <2>4. Minutes(ms) = s \div 60
      BY <2>1 DEF Minutes
    <2> QED BY <2>2, <2>3, <2>4
  <1>10. ms % 10 = r
    BY <1>2
  <1> QED BY <1>1, <1>6, <1>7, <1>8, <1>9, <1>10

(* There are at most five digits of minutes, and one below ten seconds.    *)
LEMMA MinutesDigits ==
    ASSUME NEW ms \in Milliseconds
    PROVE  Digits(Minutes(ms)) \in 1 .. 5 /\ (ms < TenSeconds => Digits(Minutes(ms)) = 1)
  <1>1. ms < 4295032832
    BY WordAssumption DEF Milliseconds
  <1>2. Minutes(ms) * 60000 <= ms
    BY TimeParts
  <1>3. Minutes(ms) <= 99999 /\ (ms < TenSeconds => Minutes(ms) = 0)
    BY <1>1, <1>2, TimeParts DEF TenSeconds
  <1> QED BY <1>3, TimeParts DEF Digits

(* A number below the word size is itself in that arithmetic.              *)
LEMMA NoWrap ==
    ASSUME NEW n \in Milliseconds
    PROVE  n % Word = n
  BY WordAssumption, SMTT(30) DEF Milliseconds

(* The parts of the string that formatMs() prints.                         *)
LEMMA FormatParts ==
    ASSUME NEW ms \in Nat
    PROVE  /\ Format(ms).min.val = Minutes(ms)
           /\ Format(ms).min.len = Digits(Minutes(ms))
           /\ Format(ms).sec.val = Seconds(ms)
           /\ Format(ms).sec.len = 2
           /\ ms < TenSeconds => /\ Format(ms).dot
                            /\ Format(ms).frac.len = 2
                            /\ Format(ms).frac.val = Hundredths(ms)
           /\ ms >= TenSeconds => ~ Format(ms).dot
           /\ Format(ms).dot => Format(ms).frac.len = 2
  <1>1. Format(ms).min = Plain(Minutes(ms)) /\ Format(ms).sec = Padded(Seconds(ms))
    BY DEF Format
  <1>2. ms < TenSeconds => Format(ms).dot /\ Format(ms).frac = Padded(Hundredths(ms))
    BY DEF Format
  <1>3. Format(ms).dot <=> ms < TenSeconds
    BY DEF Format
  <1>4. ms >= TenSeconds => ~ (ms < TenSeconds)
    BY DEF TenSeconds
  <1>5. ASSUME NEW n PROVE Plain(n).val = n /\ Plain(n).len = Digits(n)
    BY DEF Plain
  <1>6. ASSUME NEW n PROVE Padded(n).val = n /\ Padded(n).len = 2
    BY DEF Padded
  <1>7. /\ Format(ms).min.val = Minutes(ms)
        /\ Format(ms).min.len = Digits(Minutes(ms))
    BY <1>1, <1>5
  <1>8. Format(ms).sec.val = Seconds(ms) /\ Format(ms).sec.len = 2
    BY <1>1, <1>6
  <1>9. ms < TenSeconds => /\ Format(ms).frac.len = 2
                           /\ Format(ms).frac.val = Hundredths(ms)
    BY <1>2, <1>6
  <1>10. ms < TenSeconds => Format(ms).dot
    BY <1>2, Zenon
  <1>11. ms >= TenSeconds => ~ Format(ms).dot
    BY <1>3, <1>4, Zenon
  <1>12. Format(ms).dot => Format(ms).frac.len = 2
    BY <1>3, <1>9, Zenon
  <1> QED BY <1>7, <1>8, <1>9, <1>10, <1>11, <1>12, Zenon

(* formatMs() never needs more than the nine bytes it asks for.            *)
THEOREM TimeFits ==
    ASSUME NEW ms \in Milliseconds, NEW size \in Nat, size >= 9
    PROVE  FormatFits(ms, size)
  <1>1. ms \in Nat
    BY TimeParts
  <1>2. CASE ms < TenSeconds
    <2>1. StrLen(Format(ms)) = 1 + 1 + 2 + (1 + 2)
      BY <1>1, <1>2, MinutesDigits, FormatParts DEF StrLen
    <2> QED BY <2>1 DEF FormatFits
  <1>3. CASE ms >= TenSeconds
    <2>1. StrLen(Format(ms)) = Digits(Minutes(ms)) + 1 + 2 + 0
      BY <1>1, <1>3, FormatParts DEF StrLen
    <2> QED BY <2>1, MinutesDigits DEF FormatFits
  <1> QED BY <1>1, <1>2, <1>3 DEF TenSeconds

(* What formatMs() prints shows the time, cut to hundredths below ten      *)
(* seconds and to seconds from there on.                                   *)
LEMMA FormatShows ==
    ASSUME NEW ms \in Milliseconds
    PROVE  /\ ShownMs(Format(ms)) = Truncated(ms)
           /\ Centiseconds(Format(ms)) \in 0 .. 99
           /\ Truncated(ms) \in Milliseconds
  <1>1. ms \in Nat
    BY TimeParts
  <1>2. CASE ms < TenSeconds
    <2>1. Centiseconds(Format(ms)) = Hundredths(ms)
      BY <1>1, <1>2, FormatParts DEF Centiseconds
    <2>2. ShownMs(Format(ms)) =
             (Minutes(ms) * 60 + Seconds(ms)) * 1000 + Hundredths(ms) * 10
      BY <1>1, <2>1, FormatParts DEF ShownMs
    <2>3. Truncated(ms) = (Minutes(ms) * 60 + Seconds(ms)) * 1000 + Hundredths(ms) * 10
      BY <1>2, TimeParts DEF Truncated, TenSeconds
    <2>4. Truncated(ms) \in Milliseconds
      BY <1>2, WordAssumption, TimeParts DEF Truncated, TenSeconds, Milliseconds
    <2> QED BY <2>1, <2>2, <2>3, <2>4, TimeParts
  <1>3. CASE ms >= TenSeconds
    <2>1. Centiseconds(Format(ms)) = 0
      BY <1>1, <1>3, FormatParts, Zenon DEF Centiseconds
    <2>2. ShownMs(Format(ms)) = (Minutes(ms) * 60 + Seconds(ms)) * 1000 + 0 * 10
      BY <1>1, <2>1, FormatParts DEF ShownMs
    <2>3. Truncated(ms) = ms - (ms % 1000)
      BY <1>1, <1>3 DEF Truncated, TenSeconds
    <2>4. Truncated(ms) = (Minutes(ms) * 60 + Seconds(ms)) * 1000 + 0 * 10
      <3>1. /\ Minutes(ms) \in Nat /\ Seconds(ms) \in 0 .. 59
            /\ Hundredths(ms) \in 0 .. 99 /\ ms % 10 \in 0 .. 9
            /\ ms = (Minutes(ms) * 60 + Seconds(ms)) * 1000 + Hundredths(ms) * 10 + (ms % 10)
            /\ ms % 1000 = Hundredths(ms) * 10 + (ms % 10)
        BY TimeParts
      <3>2. PICK rest \in Nat : rest = ms % 1000
        BY <1>1, <3>1
      <3>3. PICK tens \in Nat : tens = Hundredths(ms) * 10 + (ms % 10)
        BY <3>1
      <3>4. PICK whole \in Nat : whole = (Minutes(ms) * 60 + Seconds(ms)) * 1000
        BY <3>1
      <3>5. ms = whole + tens /\ rest = tens
        BY <3>1, <3>2, <3>3, <3>4
      <3>6. ms - rest = whole
        BY <1>1, <3>5
      <3> QED BY <2>3, <3>2, <3>4, <3>6
    <2>5. Truncated(ms) \in Milliseconds
      BY <1>3, <2>3, WordAssumption, TimeParts DEF TenSeconds, Milliseconds
    <2> QED BY <2>1, <2>2, <2>4, <2>5
  <1> QED BY <1>1, <1>2, <1>3 DEF TenSeconds

(* parseToMs() accepts what formatMs() prints and gives back the time that *)
(* is shown: nothing wraps.                                                *)
THEOREM TimeRoundTrip ==
    ASSUME NEW ms \in Milliseconds
    PROVE  /\ TimeOk(Format(ms))
           /\ ShownMs(Format(ms)) = Truncated(ms)
           /\ ParseToMs(Format(ms)) = Truncated(ms)
  <1>1. TimeOk(Format(ms))
    <2>1. ms \in Nat
      BY TimeParts
    <2>2. Format(ms).dot => Format(ms).frac.len = 2
      BY <2>1, FormatParts, Zenon
    <2>3. Format(ms).min.len \in 1 .. 5 /\ Format(ms).sec.val \in 0 .. 59
      BY <2>1, MinutesDigits, TimeParts, FormatParts
    <2>4. Format(ms).sec.len = 2 /\ Centiseconds(Format(ms)) \in 0 .. 99
      BY <2>1, FormatShows, FormatParts
    <2> QED BY <2>2, <2>3, <2>4 DEF TimeOk, MIN_BUF
  <1>2. ShownMs(Format(ms)) = Truncated(ms) /\ Truncated(ms) % Word = Truncated(ms)
    BY FormatShows, NoWrap
  <1> QED BY <1>1, <1>2 DEF ParseToMs

(* What parseToMs() accepts shows a time, of which strncpy() into a struct *)
(* may lose the fraction, no more.                                         *)
TimeStrings ==
    LET Numerals == [len : Nat, val : Nat]
    IN  [min : Numerals, sec : Numerals, dot : BOOLEAN, frac : Numerals]

LEMMA CutShows ==
    ASSUME NEW s \in TimeStrings, TimeOk(s)
    PROVE  /\ ShownMs(s) \in Nat
           /\ ShownMs(s) - ShownMs(CutTo(s, TIME_BUF)) \in 0 .. 999
  <1> DEFINE c == CutTo(s, TIME_BUF)
  <1>1. PICK m \in Nat, sec \in Nat, cs \in 0 .. 99 :
           m = s.min.val /\ sec = s.sec.val /\ cs = Centiseconds(s)
    BY DEF TimeStrings, Centiseconds, TimeOk
  <1>2. ShownMs(s) = (m * 60 + sec) * 1000 + cs * 10
    BY <1>1 DEF ShownMs
  <1>3. c.min = s.min /\ c.sec = s.sec /\ c.dot = s.dot
    BY DEF CutTo, TimeStrings
  <1>4. PICK d \in 0 .. cs : d = Centiseconds(c)
    <2>1. CASE ~ s.dot
      BY <1>1, <1>3, <2>1 DEF Centiseconds
    <2>2. CASE s.dot /\ StrLen(s) < TIME_BUF
      BY <1>1, <2>2 DEF CutTo
    <2>3. CASE s.dot /\ StrLen(s) >= TIME_BUF
      <3> DEFINE left == TIME_BUF - 1 - (StrLen(s) - s.frac.len)
      <3>1. ~ (StrLen(s) < TIME_BUF)
        BY <2>3 DEF StrLen, TimeStrings, TIME_BUF
      <3>2. c = [s EXCEPT !.frac = IF left = 1 THEN [len |-> 1, val |-> s.frac.val \div 10]
                                               ELSE NoDigits]
        BY <3>1 DEF CutTo
      <3>3. StrLen(s) = s.min.len + 1 + s.sec.len + 1 + s.frac.len
        BY <2>3 DEF StrLen, TimeStrings
      <3>4. s.min.len \in 1 .. 7 /\ s.sec.len \in 1 .. 2 /\ s.frac.len \in 1 .. 2
        BY <2>3 DEF TimeOk, MIN_BUF
      <3>5. left = 1 => s.frac.len = 2
        BY <2>3, <3>3, <3>4 DEF TIME_BUF
      <3>6. c.frac = IF left = 1 THEN [len |-> 1, val |-> s.frac.val \div 10] ELSE NoDigits
        BY <3>2 DEF TimeStrings
      <3> HIDE DEF c, left
      <3>7. CASE left = 1
        <4>1. Centiseconds(c) = (s.frac.val \div 10) * 10
          BY <1>3, <2>3, <3>6, <3>7 DEF Centiseconds
        <4>2. cs = s.frac.val
          BY <1>1, <2>3, <3>5, <3>7 DEF Centiseconds
        <4>3. (cs \div 10) * 10 \in 0 .. cs
          BY <1>1
        <4> QED BY <4>1, <4>2, <4>3
      <3>8. CASE left # 1
        <4>1. Centiseconds(c) = 0
          BY <1>3, <2>3, <3>6, <3>8 DEF Centiseconds, NoDigits
        <4> QED BY <1>1, <4>1
      <3> QED BY <3>7, <3>8
    <2> QED BY <2>1, <2>2, <2>3 DEF StrLen, TimeStrings, TIME_BUF
  <1>5. ShownMs(c) = (m * 60 + sec) * 1000 + d * 10
    BY <1>1, <1>3, <1>4 DEF ShownMs
  <1>6. PICK whole \in Nat : whole = (m * 60 + sec) * 1000
    BY <1>1
  <1>7. ShownMs(s) = whole + cs * 10 /\ ShownMs(c) = whole + d * 10
    BY <1>2, <1>5, <1>6
  <1> HIDE DEF c
  <1>8. ShownMs(s) \in Nat /\ ShownMs(s) - ShownMs(c) \in 0 .. 999
    <2>1. cs * 10 - d * 10 \in 0 .. 999
      BY <1>1, <1>4
    <2>2. (whole + cs * 10) - (whole + d * 10) = cs * 10 - d * 10
      BY <1>1, <1>4, <1>6
    <2>3. whole + cs * 10 \in Nat
      BY <1>1, <1>6
    <2> QED BY <1>7, <2>1, <2>2, <2>3
  <1> QED BY <1>8 DEF c
-----------------------------------------------------------------------------
(* A flag byte and a value below it are found again.                       *)
LEMMA SplitRaw ==
    ASSUME NEW f \in {0, 1, 255}, NEW v \in 0 .. Low - 1
    PROVE  /\ (f * Low + v) \div Low = f
           /\ (f * Low + v) % Low = v
  BY LowAssumption, SMTT(60)

(* The value part of a timestamp always fits its seven bytes.              *)
LEMMA ValueFits ==
    ASSUME NEW n \in Nat
    PROVE  n % Low \in 0 .. Low - 1
  BY LowAssumption, SMTT(30)

(* A timestamp of seven bytes survives the wire.                           *)
THEOREM TimestampRoundTrip ==
    ASSUME NEW ts \in TimestampType, ts.value < Low
    PROVE  Decode(Encode(ts)) = ts
  <1>1. ts.value \in 0 .. Low - 1
    BY LowAssumption DEF TimestampType
  <1> QED BY <1>1, SplitRaw, LowAssumption DEF Decode, Encode, SourceFlag, TimestampType

(* Relaying a timestamp does not change what its receivers make of it,     *)
(* although a flag of a later protocol version is replaced by UNKNOWN's.   *)
THEOREM RelayedTimestamp ==
    ASSUME NEW raw \in Nat
    PROVE  Decode(Encode(Decode(raw))) = Decode(raw)
  <1>1. Decode(raw) \in TimestampType /\ Decode(raw).value < Low
    BY ValueFits, LowAssumption DEF Decode, TimestampType, SourceFlag
  <1> QED BY <1>1, TimestampRoundTrip
=============================================================================
