----------------------------- MODULE Dispatcher ------------------------------
(***************************************************************************)
(* The Dispatcher of opp2_dispatcher.h: one object, one thread.            *)
(*                                                                         *)
(* Between two steps control is either with the application's own loop     *)
(* (depth = 0) or inside a callback the dispatcher has invoked; every step *)
(* of the library runs from the point where the application calls it, or   *)
(* returns to it, up to the next callback or the return of dispatch().  A  *)
(* callback is application code: it may dispatch again, attach another     *)
(* mirror, and set or clear any callback but those that are executing      *)
(* (a std::function may not be replaced while it runs).  NestIn and        *)
(* ReconfigureIn say where the application at hand does so.                *)
(***************************************************************************)
EXTENDS TopicParser, Deserializer

CONSTANTS Mirrors,        \* the SystemState objects of the application
          NoMirror,       \* the null SystemState pointer
          Topics,         \* the topics that messages arrive on
          Payloads,       \* the payloads they carry
          AppSlots,       \* the callbacks the application ever registers
          NestIn,         \* the callbacks that call dispatch()
          ReconfigureIn,  \* where callbacks and the mirror are set
          MaxDepth,       \* bound: nested calls of dispatch()
          MaxDispatches   \* bound: calls of dispatch() in a behaviour

Callbacks == {"any", "type", "error"}       \* the kinds of callback
Slots     == MessageTypes \cup {"any", "error"}

ASSUME DispatcherAssumption ==
    /\ NoMirror \notin Mirrors
    /\ Payloads \subseteq Payload
    /\ AppSlots \subseteq Slots
    /\ NestIn \subseteq Callbacks
    /\ ReconfigureIn \subseteq Callbacks \cup {"setup", "idle"}
    /\ MaxDepth \in Nat \ {0}
    /\ MaxDispatches \in Nat

VARIABLES
    registered,   \* the callbacks that are set
    attached,     \* state_: the mirror, or NoMirror
    mirrors,      \* the contents of every SystemState object
    lastErr,      \* last_deser_err_
    lastResult,   \* last_result_
    depth,        \* the calls of dispatch() that have not returned
    frame,        \* their stack frames
    \* history: not in the code
    count,        \* calls of dispatch() so far; the id of the latest
    seen,         \* the id of the latest message given to each type callback
    ret           \* the value returned last, and the outcome it is to report

config  == <<registered, attached>>
history == <<count, seen, ret>>
vars == <<registered, attached, mirrors, lastErr, lastResult, depth, frame,
          count, seen, ret>>

(* A SystemState field: the message, and the call and the piste it came   *)
(* from (the code keeps neither).                                         *)
PisteIds == {Parse(segs).piste : segs \in Topics}

Written == [msg : Message, id : 1 .. MaxDispatches, piste : PisteIds]

Initial(f) == [msg |-> DefaultMessage(f), id |-> 0, piste |-> NoPiste]

Field == Written \cup {Initial(f) : f \in MirrorFields}

(* A frame: the callback it is in, the id and type of its message, the    *)
(* mirror it has updated, and for the error callback the result.          *)
NoFrame == [pc |-> "none", id |-> 0, type |-> UNKNOWN, mirror |-> NoMirror,
            outcome |-> "OK"]

Frames == [pc : Callbacks \cup {"none"}, id : 0 .. MaxDispatches,
           type : MessageTypes \cup {UNKNOWN}, mirror : Mirrors \cup {NoMirror},
           outcome : DispatchResults]

TypeOK ==
    /\ registered \subseteq AppSlots
    /\ attached \in Mirrors \cup {NoMirror}
    /\ mirrors \in [Mirrors -> [MirrorFields -> Field]]
    /\ lastErr \in DeserializeErrors
    /\ lastResult \in DispatchResults
    /\ depth \in 0 .. MaxDepth
    /\ frame \in [1 .. MaxDepth -> Frames]
    /\ count \in 0 .. MaxDispatches
    /\ seen \in [MessageTypes -> 0 .. MaxDispatches]
    /\ ret \in [result : DispatchResults, outcome : DispatchResults,
                err : DeserializeErrors]

Init ==
    /\ registered = {}
    /\ attached = NoMirror
    /\ mirrors = [m \in Mirrors |-> [f \in MirrorFields |-> Initial(f)]]
    /\ lastErr = "OK"
    /\ lastResult = "OK"
    /\ depth = 0
    /\ frame = [i \in 1 .. MaxDepth |-> NoFrame]
    /\ count = 0
    /\ seen = [t \in MessageTypes |-> 0]
    /\ ret = [result |-> "OK", outcome |-> "OK", err |-> "OK"]
-----------------------------------------------------------------------------
(* Where the application's code is.                                       *)
Place == IF depth > 0 THEN frame[depth].pc
         ELSE IF count = 0 THEN "setup" ELSE "idle"

CanDispatch == /\ depth < MaxDepth
               /\ count < MaxDispatches
               /\ Place \in NestIn \cup {"setup", "idle"}

(* dispatch() or a part of it invokes a callback, and waits in frame b+1. *)
Invoke(b, f) ==
    /\ depth' = b + 1
    /\ frame' = [frame EXCEPT ![b + 1] = f]

(* dispatch() returns: frame b+1, if it was entered, is gone. *)
Leave(b) ==
    /\ depth' = b
    /\ frame' = [i \in 1 .. MaxDepth |-> IF i = b + 1 THEN NoFrame ELSE frame[i]]

(* "return last_result_": what the member holds, which is to be outcome.  *)
Return(b, outcome) ==
    /\ Leave(b)
    /\ ret' = [result |-> lastResult', outcome |-> outcome, err |-> lastErr']

(* The end of dispatchByType for an accepted message: the type callback,  *)
(* or NO_CALLBACK, which dispatch() stores and returns.  When there is a  *)
(* callback, last_result_ keeps r until it returns.                       *)
CallTypeCallback(b, f, r) ==
    IF f.type \in registered
    THEN /\ Invoke(b, [f EXCEPT !.pc = "type"])
         /\ seen' = [seen EXCEPT ![f.type] = f.id]
         /\ lastResult' = r
         /\ UNCHANGED ret
    ELSE /\ lastResult' = "NO_CALLBACK"
         /\ Return(b, "NO_CALLBACK")
         /\ UNCHANGED seen

(* The onError callback, if it is set; then the return. *)
CallErrorCallback(result) ==
    /\ lastResult' = result
    /\ IF "error" \in registered
       THEN /\ Invoke(depth, [NoFrame EXCEPT !.pc = "error", !.id = count',
                                             !.outcome = result])
            /\ UNCHANGED ret
       ELSE Return(depth, result)
    /\ UNCHANGED <<config, mirrors, seen>>

(* Faulty variant: one of the cases forgets its "if (state_)" line.        *)
TargetButConnection(t) ==
    IF t \in MirrorFields \ {"connection"} THEN attached ELSE NoMirror

(* The mirror a message of type t is written to. *)
Target(t) == IF t \in MirrorFields THEN attached ELSE NoMirror

(* Faulty variant: the mirror is not written before onAny is called.       *)
UpdateMirrorUnlessAny(topic, msg) ==
    mirrors' = [m \in Mirrors |->
        IF m = Target(topic.type) /\ "any" \notin registered
        THEN [mirrors[m] EXCEPT ![topic.type] =
                [msg |-> msg, id |-> count', piste |-> topic.piste]]
        ELSE mirrors[m]]

(* "if (state_) state_->... = msg;"                                       *)
UpdateMirror(topic, msg) ==
    mirrors' = [m \in Mirrors |->
        IF m = Target(topic.type)
        THEN [mirrors[m] EXCEPT ![topic.type] =
                [msg |-> msg, id |-> count', piste |-> topic.piste]]
        ELSE mirrors[m]]
-----------------------------------------------------------------------------
(* dispatch() of a topic that is no OPP2 topic.                           *)
DispatchUnknownTopic(segs) ==
    /\ CanDispatch
    /\ ~ ParseOk(Parse(segs)) /\ Parse(segs).piste = NoPiste
    /\ count' = count + 1
    /\ lastErr' = "OK"
    /\ CallErrorCallback("UNKNOWN_TOPIC")

(* Faulty variant: "return DispatchResult::UNKNOWN_TYPE", stored nowhere.  *)
DispatchUnknownTypeUnstored(segs) ==
    /\ CanDispatch
    /\ Parse(segs).piste # NoPiste
    /\ Parse(segs).type = UNKNOWN
    /\ count' = count + 1
    /\ lastErr' = "OK"
    /\ lastResult' = lastResult
    /\ Return(depth, lastResult)
    /\ UNCHANGED <<config, mirrors, seen>>

(* dispatch() of a message type this version does not know: no callback.  *)
DispatchUnknownType(segs) ==
    /\ CanDispatch
    /\ Parse(segs).piste # NoPiste
    /\ Parse(segs).type = UNKNOWN
    /\ count' = count + 1
    /\ lastErr' = "OK"
    /\ lastResult' = "UNKNOWN_TYPE"
    /\ Return(depth, "UNKNOWN_TYPE")
    /\ UNCHANGED <<config, mirrors, seen>>

(* Faulty variant: the payload is parsed straight into the mirror.         *)
DispatchMalformedInPlace(segs, p) ==
    LET topic == Parse(segs)
    IN  /\ CanDispatch
        /\ topic.type # UNKNOWN
        /\ DeserError(topic.type, p) # "OK"
        /\ count' = count + 1
        /\ lastErr' = DeserError(topic.type, p)
        /\ lastResult' = "DESERIALIZE_ERROR"
        /\ UpdateMirror(topic, DefaultMessage(topic.type))
        /\ Return(depth, "DESERIALIZE_ERROR")
        /\ UNCHANGED <<config, seen>>

(* dispatch() of a payload that deserialize() refuses.                    *)
DispatchMalformed(segs, p) ==
    LET topic == Parse(segs)
    IN  /\ CanDispatch
        /\ topic.type # UNKNOWN
        /\ DeserError(topic.type, p) # "OK"
        /\ count' = count + 1
        /\ lastErr' = DeserError(topic.type, p)
        /\ CallErrorCallback("DESERIALIZE_ERROR")

(* dispatch() of a message that is accepted, whoever has published it:    *)
(* mirror, then onAny, then the type callback.                            *)
DispatchAccepted(segs, p) ==
    LET topic == Parse(segs)
        f     == [pc |-> "any", id |-> count + 1, type |-> topic.type,
                  mirror |-> Target(topic.type), outcome |-> "OK"]
    IN  /\ CanDispatch
        /\ topic.type # UNKNOWN
        /\ DeserError(topic.type, p) = "OK"
        /\ count' = count + 1
        /\ lastErr' = "OK"
        /\ UpdateMirror(topic, Deserialized(topic.type, p))
        /\ IF "any" \in registered
           THEN Invoke(depth, f) /\ lastResult' = "OK" /\ UNCHANGED <<seen, ret>>
           ELSE CallTypeCallback(depth, f, "OK")
        /\ UNCHANGED config

InCallback(pc) == depth > 0 /\ frame[depth].pc = pc

(* onAny returns, and dispatchByType goes on. *)
AnyReturns ==
    /\ InCallback("any")
    /\ UNCHANGED <<config, mirrors, lastErr, count>>
    /\ CallTypeCallback(depth - 1, frame[depth], lastResult)

(* Faulty variants: the result of the type callback is not stored again    *)
(* after it; the callback is called once more, by dispatch().              *)
TypeReturnsStale ==
    /\ InCallback("type")
    /\ UNCHANGED <<config, mirrors, lastErr, lastResult, count, seen>>
    /\ Return(depth - 1, "OK")

TypeReturnsTwice ==
    /\ InCallback("type")
    /\ lastResult' = "OK"
    /\ seen' = [seen EXCEPT ![frame[depth].type] = frame[depth].id]
    /\ UNCHANGED <<config, mirrors, lastErr, count>>
    /\ Return(depth - 1, "OK")

(* The type callback returns: dispatchByType and dispatch() return OK.    *)
TypeReturns ==
    /\ InCallback("type")
    /\ lastResult' = "OK"
    /\ UNCHANGED <<config, mirrors, lastErr, count, seen>>
    /\ Return(depth - 1, "OK")

(* onError returns: dispatch() returns last_result_ as it now is.         *)
ErrorReturns ==
    /\ InCallback("error")
    /\ UNCHANGED <<config, mirrors, lastErr, lastResult, count, seen>>
    /\ Return(depth - 1, frame[depth].outcome)
-----------------------------------------------------------------------------
(* The application configures the dispatcher. *)
SetSystemState(m) ==
    /\ Place \in ReconfigureIn
    /\ attached' = m
    /\ UNCHANGED <<registered, mirrors, lastErr, lastResult, depth, frame, history>>

Slot(f) == IF f.pc = "type" THEN f.type ELSE f.pc

SetCallbacks(slots) ==
    /\ Place \in ReconfigureIn
    /\ \A i \in 1 .. depth : Slot(frame[i]) \in slots
    /\ registered' = slots
    /\ UNCHANGED <<attached, mirrors, lastErr, lastResult, depth, frame, history>>

Dispatch ==
    \E segs \in Topics :
        \/ DispatchUnknownTopic(segs)
        \/ DispatchUnknownType(segs)
        \/ \E p \in Payloads : \/ DispatchMalformed(segs, p)
                               \/ DispatchAccepted(segs, p)

CallbackReturns == AnyReturns \/ TypeReturns \/ ErrorReturns

Configure == \/ \E m \in Mirrors \cup {NoMirror} : SetSystemState(m)
             \/ \E slots \in SUBSET AppSlots : SetCallbacks(slots)

Next == Dispatch \/ CallbackReturns \/ Configure

Spec == Init /\ [][Next]_vars
-----------------------------------------------------------------------------
(* dispatch() returns the outcome of its own message ("@return             *)
(* DispatchResult indicating outcome"), whatever its callbacks dispatched  *)
(* meanwhile, although result and error live in members that a nested call *)
(* overwrites.                                                             *)
ReturnIsOwnOutcome == ret.result = ret.outcome

(* Whoever reads DESERIALIZE_ERROR, from the return value or from          *)
(* lastDispatchResult(), finds the reason in lastDeserializeError(), also  *)
(* after nested calls have rewritten both.                                 *)
ErrorExplained ==
    /\ lastResult = "DESERIALIZE_ERROR" => lastErr # "OK"
    /\ ret.result = "DESERIALIZE_ERROR" => ret.err # "OK"

(* A callback that looks at the mirror its message was written to finds    *)
(* that message or a later one, never an older state.                      *)
MirrorNotBehind ==
    \A i \in 1 .. depth :
        frame[i].mirror # NoMirror =>
            mirrors[frame[i].mirror][frame[i].type].id >= frame[i].id

(* A step changes a mirror only if it accepts a message of a retained      *)
(* type: then one field of the mirror attached at that moment, to what     *)
(* that very call was given.  Refused and unknown messages, returns from   *)
(* callbacks and reconfiguration leave every mirror as it was.             *)
MirrorStep ==
    mirrors' # mirrors =>
        /\ count' = count + 1
        /\ lastErr' = "OK"
        /\ lastResult' \notin {"UNKNOWN_TOPIC", "UNKNOWN_TYPE"}
        /\ \E t \in Retained :
              /\ mirrors'[attached][t].id = count'
              /\ mirrors' = [mirrors EXCEPT ![attached][t] = mirrors'[attached][t]]

MirrorChangesOnlyByDelivery == [][MirrorStep]_vars

(* Unless onAny dispatches, each type callback is given the messages in    *)
(* the order they were dispatched in, nested ones included.                *)
CallbackOrder == [][\A t \in MessageTypes : seen'[t] >= seen[t]]_vars

(* An application configured before the traffic starts may read its state  *)
(* from the mirror or keep it in its callbacks: but for a message that is  *)
(* still with onAny the two agree on the latest message of each type.      *)
ViewsAgree ==
    attached # NoMirror =>
        \A t \in MirrorFields \cap registered :
            \/ seen[t] = mirrors[attached][t].id
            \/ \E i \in 1 .. depth : frame[i].pc = "any" /\ frame[i].type = t

(* "Initialise one SystemState per piste_id": what a mirror shows is the   *)
(* state of one piste.                                                     *)
MirrorOfOnePiste ==
    \A m \in Mirrors :
        \A f, g \in {t \in MirrorFields : mirrors[m][t].id # 0} :
            mirrors[m][f].piste = mirrors[m][g].piste
-----------------------------------------------------------------------------
(* The strengthenings that make the properties inductive, with which       *)
(* Dispatcher_proofs proves them.                                          *)

(* The frames up to depth are in a callback, for a call already made; a    *)
(* frame with a mirror holds a message of a mirrored type.                 *)
StackInv ==
    /\ \A i \in 1 .. depth :
          /\ frame[i].pc # "none"
          /\ frame[i].id <= count
          /\ frame[i].mirror # NoMirror => frame[i].type \in MirrorFields
    /\ MirrorNotBehind

(* An application that does not dispatch from onError is in onError only   *)
(* at the top of the stack, and there last_result_ is still the outcome.   *)
ErrorOnTop ==
    "error" \notin NestIn =>
        \A i \in 1 .. depth :
            frame[i].pc = "error" => i = depth /\ lastResult = frame[i].outcome

OutcomeInv == ReturnIsOwnOutcome /\ ErrorOnTop

(* An application that does not dispatch from onAny is in onAny only at    *)
(* the top of the stack and with the latest message.                       *)
AnyOnTop ==
    "any" \notin NestIn =>
        \A i \in 1 .. depth :
            frame[i].pc = "any" => i = depth /\ frame[i].id = count

OrderInv == (\A t \in MessageTypes : seen[t] <= count) /\ AnyOnTop

(* In an application configured before the traffic no mirror is ahead of   *)
(* the calls made, and a message with onAny was written to the mirror that *)
(* is attached.                                                            *)
ViewInv ==
    /\ \A m \in Mirrors, f \in MirrorFields : mirrors[m][f].id <= count
    /\ \A i \in 1 .. depth :
          frame[i].pc = "any" => frame[i].mirror = Target(frame[i].type)
    /\ ViewsAgree
=============================================================================
