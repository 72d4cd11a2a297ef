----------------------------- MODULE MCDispatcher ----------------------------
(***************************************************************************)
(* Small applications of the Dispatcher, and the messages they receive.    *)
(***************************************************************************)
EXTENDS Dispatcher
LOCAL INSTANCE TLC

MCSegLen(s) == CASE s = ""     -> 0
                 [] s = "id32" -> 32
                 [] OTHER      -> 8

App(piste, type) == <<"openpiste", piste, "apparatus", type>>

(* One piste: retained and event types, a publisher and a type that this  *)
(* version does not know, an id that is too long.                         *)
OnePiste == {App("17", "lights"), App("17", "control"),
             App("17", "temperature"), App("id32", "lights"),
             <<"openpiste", "17", "drone", "lights">>}

TwoTypes == {App("17", "lights"), App("17", "connection"), <<"">>}

TwoPistes == {App(p, t) : p \in {"17", "18"}, t \in {"lights", "connection"}}

Full(flag) == [form |-> "object", protocol |-> "OPP2", has |-> Fields,
               flag |-> flag, body |-> "b"]

(* A complete message, an offline notice, a message without its          *)
(* sequence number.                                                       *)
Mixed == {Full(TRUE),
          [Full(FALSE) EXCEPT !.protocol = "absent", !.has = {"online"}],
          [Full(TRUE) EXCEPT !.has = Fields \ {"seq"}]}

Valid == {Full(TRUE)}

MCBodies == {"b"}

OneTypeSlots == {"lights", "control", "any", "error"}

(* The dispatcher treats the mirrors of an application alike.             *)
MirrorSymmetry == Permutations(Mirrors)

AllPistesSlots == {"lights", "connection", "any", "error"}
=============================================================================
