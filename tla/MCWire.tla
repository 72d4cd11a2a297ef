------------------------------- MODULE MCWire --------------------------------
(***************************************************************************)
(* Wire on one base struct per message type and every change of one field. *)
(***************************************************************************)
EXTENDS Wire

(* strlen() of the segments that occur. *)
MCSegLen(s) ==
    CASE s \in {"clock", "score", "state", "match"} -> 5
      [] s \in {"lights", "remote"}                 -> 6
      [] s \in {"fencers", "medical", "control"}    -> 7
      [] s = "software"                             -> 8
      [] s \in {"openpiste", "apparatus"}           -> 9
      [] s = "connection"                           -> 10
      [] s = "video_review"                         -> 12
      [] s = "blade_contact"                        -> 13
      [] s = "piste of 31"                          -> 31
      [] s = "piste of 32"                          -> 32
      [] s = "uw2f"                                 -> 4
      [] s = CutShort                               -> 3
      [] OTHER                                      -> 1

MCSenders ==
    [piste : {<<"1">>}, publisher : {"apparatus"}, threads : {{}, {"main"}, Threads}]
        \cup [piste : {<<"piste of 31">>, <<"piste of 32">>, <<"1", "a">>},
              publisher : {"apparatus"}, threads : {{"main"}}]

Call(n, g) == [id |-> n, granted |-> g]

(* What an assignment may put into a field. *)
ValuesOf(k) ==
    CASE k \in Switches              -> BOOLEAN
      [] k \in Texts                 -> {NoText, "text"}
      [] k \in Optionals \cup Persons -> {Absent, Present("x"), [Absent EXCEPT !.value = "x"]}
      [] k \in Calls                 -> {<<>>, <<Call(1, "GRANTED"), Call(2, "PENDING")>>,
                                         <<Call(1, "DENIED")>>}
      [] k \in DOMAIN MsOf           -> {NoTime}
      [] k = "side"                  -> {"LEFT", "RIGHT", "NONE"}
      [] k \in EnumKeys \ {"side"}   -> DOMAIN WireForm[Table(k)] \cup {EnumInitial(k), UNKNOWN}
      [] k = "ts"                    -> {FromMillis(2)}
      [] k \in {"time_ms", "remaining_ms"} -> {59990, 9999}
      [] k \in {"right.score", "left.score"} -> {-1, 15}
      [] OTHER                       -> {2}

(* A struct as the programs that use the library fill it. *)
Base(t) ==
    [k \in Keys[t] |->
        CASE k \in {"online", "active", "running", "right.green"} -> TRUE
          [] k \in {"device", "left.coach", "common.referee", "left.fencer"} -> Present("x")
          [] k \in {"side", "priority"}        -> "LEFT"
          [] k = "weapon"                      -> "EPEE"
          [] k = "type"                        -> "TEAM"
          [] k = "phase_type"                  -> "POOL"
          [] k = "command"                     -> "NEXT"
          [] k = "ts"                          -> FromEpochMs(1)
          [] k \in {"seq", "left.score"}       -> 1
          [] k \in {"time_ms", "remaining_ms"} -> 5250
          [] k = "left.calls"                  -> <<Call(1, "PENDING")>>
          [] OTHER                             -> Initial(k)]

StructsOf ==
    [t \in MessageTypes |->
        {Base(t), Fresh(t)}
            \cup UNION {{[Base(t) EXCEPT ![k] = v] : v \in ValuesOf(k)} : k \in Keys[t]}]

(* Under another piste id the payloads are no different, and what threads  *)
(* do to each other does not depend on the contents.                       *)
MCStructs(sender, t) ==
    CASE sender.threads = Threads -> IF t \in RacingTypes THEN {Base(t)} ELSE {}
      [] sender.threads # Threads ->
            IF sender.piste = <<"1">> THEN StructsOf[t] ELSE {Base(t)}

(* Strings a sender without milliseconds may use: "20:00" wraps in this    *)
(* word, the third has no digits, the last two are longer than the field.  *)
Strings == {[min |-> Plain(20), sec |-> Padded(0), dot |-> FALSE, frac |-> NoDigits],
            [min |-> Plain(0), sec |-> Plain(5), dot |-> TRUE, frac |-> Plain(5)],
            NoTime,
            [min |-> [len |-> 6, val |-> 1], sec |-> Padded(2), dot |-> TRUE, frac |-> Padded(25)],
            [min |-> [len |-> 7, val |-> 1], sec |-> Padded(2), dot |-> TRUE, frac |-> Padded(25)]}

Without(j, keys) == [k \in DOMAIN j \ keys |-> j[k]]

(* Payloads that older, newer or other programs publish. *)
OthersOf ==
  [t \in MessageTypes |->
    LET j == JsonOf(t, Base(t))
    IN  {j} \cup {Without(j, {k}) : k \in DOMAIN j}
        \cup {Without(j, {"common", "common.referee"})}
        \cup {[j EXCEPT !["protocol"] = "other"]}
        \cup {[j EXCEPT ![k] = "word of a later version"] : k \in EnumKeys \cap DOMAIN j}
        \cup {[j EXCEPT !["ts"] = 7 * Low + 1] : x \in {"ts"} \cap DOMAIN j}
        \cup {[j EXCEPT ![k] = s] : k \in DOMAIN MsOf \cap DOMAIN j, s \in Strings}
        \cup {[Without(j, {MsOf[k]}) EXCEPT ![k] = s] : k \in DOMAIN MsOf \cap DOMAIN j, s \in Strings}
        \cup {[j EXCEPT ![k] = [i \in 1 .. MaxCalls + 1 |-> [id |-> i, granted |-> {}]]]
                  : k \in Calls \cap DOMAIN j}]

MCOthers(t) == OthersOf[t]
=============================================================================
