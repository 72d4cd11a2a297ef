-------------------------- MODULE Dispatcher_proofs --------------------------
(***************************************************************************)
(* Theorems about the Dispatcher, for every application: any mirrors,      *)
(* topics, payloads and callbacks, any nesting and any reconfiguration.    *)
(* First the types; then the safety properties, each by a strengthening    *)
(* stated in module Dispatcher that is inductive, given the types, and     *)
(* implies the property.                                                   *)
(***************************************************************************)
EXTENDS Dispatcher, TLAPS

(* What parse() leaves in its output. *)
LEMMA ParseType ==
    ASSUME NEW segs \in Topics
    PROVE  /\ Parse(segs).piste \in PisteIds
           /\ Parse(segs).type \in MessageTypes \cup {UNKNOWN}
  BY DEF PisteIds, Parse, NoTopic, MessageTypeFromString

(* deserialize() returns one of its errors, and fills a struct of its type. *)
LEMMA DeserializeType ==
    ASSUME NEW t \in MessageTypes, NEW p \in Payloads
    PROVE  /\ DeserError(t, p) \in DeserializeErrors
           /\ Deserialized(t, p) \in Message
  <1>1. p \in Payload
    BY DispatcherAssumption
  <1>2. /\ p.form \in Forms
        /\ p.flag \in BOOLEAN
        /\ p.body \in Bodies
    BY <1>1 DEF Payload
  <1>3. DeserError(t, p) \in DeserializeErrors
    BY <1>2 DEF DeserError, DeserializeErrors, Forms
  <1>4. Deserialized(t, p) \in Message
    BY <1>2 DEF Deserialized, DefaultMessage, Message
  <1> QED BY <1>3, <1>4

LEMMA InitType == Init => TypeOK
  <1> SUFFICES ASSUME Init PROVE TypeOK
    OBVIOUS
  <1>1. NoFrame \in Frames
    BY DispatcherAssumption DEF NoFrame, Frames, DispatchResults
  <1>2. \A f \in MirrorFields : Initial(f) \in Field
    BY DEF Field
  <1> QED
    BY <1>1, <1>2, DispatcherAssumption
    DEF Init, TypeOK, DeserializeErrors, DispatchResults

LEMMA InvokeType ==
    ASSUME TypeOK, NEW b \in 0 .. MaxDepth - 1, NEW f \in Frames, Invoke(b, f)
    PROVE  depth' \in 0 .. MaxDepth /\ frame' \in [1 .. MaxDepth -> Frames]
  BY DispatcherAssumption DEF TypeOK, Invoke

LEMMA LeaveType ==
    ASSUME TypeOK, NEW b \in 0 .. MaxDepth, Leave(b)
    PROVE  depth' \in 0 .. MaxDepth /\ frame' \in [1 .. MaxDepth -> Frames]
  <1>1. NoFrame \in Frames
    BY DispatcherAssumption DEF NoFrame, Frames, DispatchResults
  <1> QED BY <1>1, DispatcherAssumption DEF TypeOK, Leave

RetType == [result : DispatchResults, outcome : DispatchResults,
            err : DeserializeErrors]

LEMMA CallTypeCallbackType ==
    ASSUME TypeOK, NEW b \in 0 .. MaxDepth - 1, NEW f \in Frames,
           NEW r \in DispatchResults, lastErr' \in DeserializeErrors,
           CallTypeCallback(b, f, r)
    PROVE  /\ depth' \in 0 .. MaxDepth
           /\ frame' \in [1 .. MaxDepth -> Frames]
           /\ lastResult' \in DispatchResults
           /\ seen' \in [MessageTypes -> 0 .. MaxDispatches]
           /\ ret' \in RetType
  <1>1. CASE f.type \in registered
    <2>1. [f EXCEPT !.pc = "type"] \in Frames
      BY DEF Frames, Callbacks
    <2>2. f.id \in 0 .. MaxDispatches
      BY DEF Frames
    <2>3. Invoke(b, [f EXCEPT !.pc = "type"])
      BY <1>1 DEF CallTypeCallback
    <2>4. depth' \in 0 .. MaxDepth /\ frame' \in [1 .. MaxDepth -> Frames]
      BY <2>1, <2>3, InvokeType
    <2> QED BY <1>1, <2>2, <2>4 DEF CallTypeCallback, TypeOK, RetType
  <1>2. CASE f.type \notin registered
    <2>1. /\ Leave(b)
          /\ lastResult' = "NO_CALLBACK"
          /\ seen' = seen
          /\ ret' = [result |-> lastResult', outcome |-> "NO_CALLBACK",
                     err |-> lastErr']
      BY <1>2 DEF CallTypeCallback, Return
    <2>2. depth' \in 0 .. MaxDepth /\ frame' \in [1 .. MaxDepth -> Frames]
      BY <2>1, LeaveType, DispatcherAssumption
    <2> QED BY <2>1, <2>2 DEF TypeOK, DispatchResults, RetType
  <1> QED BY <1>1, <1>2

LEMMA CallErrorCallbackType ==
    ASSUME TypeOK, depth < MaxDepth, NEW r \in DispatchResults,
           lastErr' \in DeserializeErrors, count' \in 0 .. MaxDispatches,
           CallErrorCallback(r)
    PROVE  TypeOK'
  <1>1. depth \in 0 .. MaxDepth - 1
    BY DispatcherAssumption DEF TypeOK
  <1>2. depth' \in 0 .. MaxDepth /\ frame' \in [1 .. MaxDepth -> Frames]
    <2>1. CASE "error" \in registered
      <3> DEFINE f == [NoFrame EXCEPT !.pc = "error", !.id = count', !.outcome = r]
      <3>1. f \in Frames
        BY DispatcherAssumption DEF NoFrame, Frames, Callbacks
      <3>2. Invoke(depth, f)
        BY <2>1 DEF CallErrorCallback
      <3> HIDE DEF f
      <3> QED BY <1>1, <3>1, <3>2, InvokeType
    <2>2. CASE "error" \notin registered
      BY <1>1, <2>2, LeaveType DEF CallErrorCallback, Return, TypeOK
    <2> QED BY <2>1, <2>2
  <1>3. ret' \in RetType /\ lastResult' \in DispatchResults
    BY DEF CallErrorCallback, Return, TypeOK, RetType
  <1> QED BY <1>2, <1>3 DEF CallErrorCallback, config, TypeOK, RetType

LEMMA UpdateMirrorType ==
    ASSUME TypeOK, NEW segs \in Topics, NEW p \in Payloads,
           Parse(segs).type \in MessageTypes, count' \in 1 .. MaxDispatches,
           UpdateMirror(Parse(segs), Deserialized(Parse(segs).type, p))
    PROVE  mirrors' \in [Mirrors -> [MirrorFields -> Field]]
  <1> DEFINE topic == Parse(segs)
             w == [msg |-> Deserialized(topic.type, p), id |-> count',
                   piste |-> topic.piste]
  <1>1. w \in Field
    BY ParseType, DeserializeType DEF Field, Written
  <1>2. mirrors' = [m \in Mirrors |->
            IF m = Target(topic.type)
            THEN [mirrors[m] EXCEPT ![topic.type] = w] ELSE mirrors[m]]
    BY DEF UpdateMirror
  <1> HIDE DEF w
  <1> QED BY <1>1, <1>2 DEF TypeOK

LEMMA NextType == TypeOK /\ [Next]_vars => TypeOK'
  <1> SUFFICES ASSUME TypeOK, [Next]_vars PROVE TypeOK'
    OBVIOUS
  <1>1. CASE UNCHANGED vars
    BY <1>1 DEF TypeOK, vars
  <1>2. ASSUME CanDispatch, count' = count + 1
        PROVE  count' \in 1 .. MaxDispatches /\ depth \in 0 .. MaxDepth - 1
    BY <1>2, DispatcherAssumption DEF CanDispatch, TypeOK
  <1>3. ASSUME NEW segs \in Topics, DispatchUnknownTopic(segs)
        PROVE  TypeOK'
    <2>1. lastErr' \in DeserializeErrors /\ "UNKNOWN_TOPIC" \in DispatchResults
      BY <1>3 DEF DispatchUnknownTopic, DeserializeErrors, DispatchResults
    <2> QED
      BY <1>2, <1>3, <2>1, CallErrorCallbackType
      DEF DispatchUnknownTopic, CanDispatch
  <1>4. ASSUME NEW segs \in Topics, DispatchUnknownType(segs)
        PROVE  TypeOK'
    <2>1. depth' \in 0 .. MaxDepth /\ frame' \in [1 .. MaxDepth -> Frames]
      BY <1>4, LeaveType DEF DispatchUnknownType, Return, TypeOK
    <2> QED
      BY <1>2, <1>4, <2>1
      DEF DispatchUnknownType, Return, TypeOK, config, DeserializeErrors,
          DispatchResults
  <1>5. ASSUME NEW segs \in Topics, NEW p \in Payloads, DispatchMalformed(segs, p)
        PROVE  TypeOK'
    <2>1. Parse(segs).type \in MessageTypes
      BY <1>5, ParseType DEF DispatchMalformed
    <2>2. lastErr' \in DeserializeErrors /\ "DESERIALIZE_ERROR" \in DispatchResults
      BY <1>5, <2>1, DeserializeType DEF DispatchMalformed, DispatchResults
    <2> QED
      BY <1>2, <1>5, <2>2, CallErrorCallbackType DEF DispatchMalformed, CanDispatch
  <1>6. ASSUME NEW segs \in Topics, NEW p \in Payloads, DispatchAccepted(segs, p)
        PROVE  TypeOK'
    <2> DEFINE f == [pc |-> "any", id |-> count + 1, type |-> Parse(segs).type,
                     mirror |-> Target(Parse(segs).type), outcome |-> "OK"]
    <2>1. /\ CanDispatch
          /\ count' = count + 1
          /\ lastErr' = "OK"
          /\ Parse(segs).type # UNKNOWN
          /\ UpdateMirror(Parse(segs), Deserialized(Parse(segs).type, p))
          /\ UNCHANGED config
          /\ \/ Invoke(depth, f) /\ lastResult' = "OK" /\ UNCHANGED <<seen, ret>>
             \/ CallTypeCallback(depth, f, "OK")
      BY <1>6 DEF DispatchAccepted
    <2>2. count' \in 1 .. MaxDispatches /\ depth \in 0 .. MaxDepth - 1
      BY <1>2, <2>1
    <2>3. Parse(segs).type \in MessageTypes
      BY <2>1, ParseType
    <2>4. mirrors' \in [Mirrors -> [MirrorFields -> Field]]
      BY <2>1, <2>2, <2>3, UpdateMirrorType
    <2>5. f \in Frames
      BY <2>1, <2>2, <2>3
      DEF Frames, Callbacks, Target, TypeOK, DispatchResults
    <2>6. lastErr' \in DeserializeErrors /\ "OK" \in DispatchResults
      BY <2>1 DEF DeserializeErrors, DispatchResults
    <2> HIDE DEF f
    <2>7. /\ depth' \in 0 .. MaxDepth
          /\ frame' \in [1 .. MaxDepth -> Frames]
          /\ lastResult' \in DispatchResults
          /\ seen' \in [MessageTypes -> 0 .. MaxDispatches]
          /\ ret' \in RetType
      <3>1. CASE Invoke(depth, f) /\ lastResult' = "OK" /\ UNCHANGED <<seen, ret>>
        BY <2>2, <2>5, <2>6, <3>1, InvokeType DEF TypeOK, RetType
      <3>2. CASE CallTypeCallback(depth, f, "OK")
        BY <2>2, <2>5, <2>6, <3>2, CallTypeCallbackType
      <3> QED BY <2>1, <3>1, <3>2
    <2> QED
      BY <2>1, <2>2, <2>4, <2>6, <2>7 DEF TypeOK, config, RetType
  <1>7. ASSUME NEW pc \in Callbacks, InCallback(pc)
        PROVE  /\ depth - 1 \in 0 .. MaxDepth - 1
               /\ frame[depth] \in Frames
    BY <1>7, DispatcherAssumption DEF InCallback, TypeOK
  <1>8. CASE AnyReturns
    <2>1. /\ InCallback("any")
          /\ CallTypeCallback(depth - 1, frame[depth], lastResult)
          /\ UNCHANGED <<config, mirrors, lastErr, count>>
      BY <1>8 DEF AnyReturns
    <2>2. /\ depth' \in 0 .. MaxDepth
          /\ frame' \in [1 .. MaxDepth -> Frames]
          /\ lastResult' \in DispatchResults
          /\ seen' \in [MessageTypes -> 0 .. MaxDispatches]
          /\ ret' \in RetType
      BY <1>7, <2>1, CallTypeCallbackType DEF TypeOK, Callbacks
    <2> QED BY <2>1, <2>2 DEF TypeOK, config, RetType
  <1>9. CASE TypeReturns
    <2>1. depth' \in 0 .. MaxDepth /\ frame' \in [1 .. MaxDepth -> Frames]
      BY <1>7, <1>9, LeaveType, DispatcherAssumption
      DEF TypeReturns, Return, Callbacks
    <2> QED BY <1>9, <2>1 DEF TypeReturns, Return, TypeOK, config, DispatchResults
  <1>10. CASE ErrorReturns
    <2>1. /\ depth' \in 0 .. MaxDepth
          /\ frame' \in [1 .. MaxDepth -> Frames]
          /\ frame[depth] \in Frames
      BY <1>7, <1>10, LeaveType, DispatcherAssumption
      DEF ErrorReturns, Return, Callbacks
    <2>2. frame[depth].outcome \in DispatchResults
      BY <2>1 DEF Frames
    <2> QED BY <1>10, <2>1, <2>2 DEF ErrorReturns, Return, TypeOK, config
  <1>11. CASE Configure
    BY <1>11 DEF Configure, SetSystemState, SetCallbacks, history, TypeOK
  <1> QED
    BY <1>1, <1>3, <1>4, <1>5, <1>6, <1>8, <1>9, <1>10, <1>11
    DEF Next, Dispatch, CallbackReturns

(* Every variable keeps its type in every behaviour of the dispatcher. *)
THEOREM TypeCorrect == Spec => []TypeOK
  BY InitType, NextType, PTL DEF Spec
-----------------------------------------------------------------------------
(* The parts of a step that the proofs share. *)

LEMMA DispatchFacts ==
    ASSUME TypeOK, CanDispatch
    PROVE  /\ depth \in 0 .. MaxDepth - 1
           /\ count + 1 \in 1 .. MaxDispatches
           /\ depth > 0 => frame[depth].pc \in NestIn
  <1>1. depth \in 0 .. MaxDepth - 1 /\ count + 1 \in 1 .. MaxDispatches
    BY DispatcherAssumption DEF TypeOK, CanDispatch
  <1>2. ASSUME depth > 0 PROVE frame[depth].pc \in NestIn
    <2>1. frame[depth].pc \in NestIn \cup {"setup", "idle"}
      BY <1>2 DEF CanDispatch, Place
    <2>2. frame[depth] \in Frames
      BY <1>1, <1>2, DispatcherAssumption DEF TypeOK
    <2>3. frame[depth].pc \notin {"setup", "idle"}
      BY <2>2 DEF Frames, Callbacks
    <2> QED BY <2>1, <2>3
  <1> QED BY <1>1, <1>2

LEMMA ReturnFacts ==
    ASSUME TypeOK, NEW pc \in Callbacks, InCallback(pc)
    PROVE  /\ depth \in 1 .. MaxDepth
           /\ frame[depth] \in Frames
           /\ frame[depth].pc = pc
  BY DispatcherAssumption DEF TypeOK, InCallback

(* Invoke and Leave keep the frames below. *)
LEMMA LeaveShape ==
    ASSUME TypeOK, NEW b \in 0 .. MaxDepth - 1, Leave(b)
    PROVE  depth' = b /\ \A i \in 1 .. b : frame'[i] = frame[i]
  BY DispatcherAssumption DEF TypeOK, Leave

LEMMA InvokeShape ==
    ASSUME TypeOK, NEW b \in 0 .. MaxDepth - 1, NEW f, Invoke(b, f)
    PROVE  /\ depth' = b + 1
           /\ frame'[b + 1] = f
           /\ \A i \in 1 .. b : frame'[i] = frame[i]
  BY DispatcherAssumption DEF TypeOK, Invoke
-----------------------------------------------------------------------------
LEMMA ErrorExplainedInit == Init => ErrorExplained
  BY DEF Init, ErrorExplained

LEMMA ErrorExplainedStep == ErrorExplained /\ [Next]_vars => ErrorExplained'
  <1> SUFFICES ASSUME ErrorExplained, [Next]_vars PROVE ErrorExplained'
    OBVIOUS
  <1>1. CASE UNCHANGED vars
    BY <1>1 DEF vars, ErrorExplained
  <1>2. ASSUME NEW segs \in Topics, DispatchUnknownTopic(segs)
        PROVE  ErrorExplained'
    BY <1>2 DEF DispatchUnknownTopic, CallErrorCallback, Return, ErrorExplained
  <1>3. ASSUME NEW segs \in Topics, DispatchUnknownType(segs)
        PROVE  ErrorExplained'
    BY <1>3 DEF DispatchUnknownType, Return, ErrorExplained
  <1>4. ASSUME NEW segs \in Topics, NEW p \in Payloads, DispatchMalformed(segs, p)
        PROVE  ErrorExplained'
    BY <1>4 DEF DispatchMalformed, CallErrorCallback, Return, ErrorExplained
  <1>5. ASSUME NEW segs \in Topics, NEW p \in Payloads, DispatchAccepted(segs, p)
        PROVE  ErrorExplained'
    BY <1>5 DEF DispatchAccepted, CallTypeCallback, Return, ErrorExplained
  <1>6. CASE AnyReturns
    BY <1>6 DEF AnyReturns, CallTypeCallback, Return, ErrorExplained
  <1>7. CASE TypeReturns
    BY <1>7 DEF TypeReturns, Return, ErrorExplained
  <1>8. CASE ErrorReturns
    BY <1>8 DEF ErrorReturns, Return, ErrorExplained
  <1>9. CASE Configure
    BY <1>9 DEF Configure, SetSystemState, SetCallbacks, history, ErrorExplained
  <1> QED
    BY <1>1, <1>2, <1>3, <1>4, <1>5, <1>6, <1>7, <1>8, <1>9
    DEF Next, Dispatch, CallbackReturns

(* Whenever result or error accessor or return value says                  *)
(* DESERIALIZE_ERROR, lastDeserializeError() holds a reason.               *)
THEOREM ErrorsAreExplained == Spec => []ErrorExplained
  BY ErrorExplainedInit, ErrorExplainedStep, PTL DEF Spec
-----------------------------------------------------------------------------
LEMMA OutcomeInit == Init => OutcomeInv
  BY DEF Init, OutcomeInv, ReturnIsOwnOutcome, ErrorOnTop

(* No frame is in onError while the application can call dispatch(). *)
LEMMA NoErrorFrameBelow ==
    ASSUME TypeOK, OutcomeInv, "error" \notin NestIn, CanDispatch,
           NEW i \in 1 .. depth
    PROVE  frame[i].pc # "error"
  BY DispatchFacts DEF OutcomeInv, ErrorOnTop, TypeOK

LEMMA CallTypeCallbackOutcome ==
    ASSUME TypeOK, ReturnIsOwnOutcome, NEW b \in 0 .. MaxDepth - 1,
           NEW f \in Frames, NEW r,
           "error" \notin NestIn => \A i \in 1 .. b : frame[i].pc # "error",
           CallTypeCallback(b, f, r)
    PROVE  OutcomeInv'
  <1>1. CASE f.type \in registered
    <2>1. /\ depth' = b + 1
          /\ frame'[b + 1].pc = "type"
          /\ \A i \in 1 .. b : frame'[i] = frame[i]
          /\ ret' = ret
      BY <1>1, DispatcherAssumption
      DEF CallTypeCallback, Invoke, TypeOK, Frames
    <2> QED BY <2>1 DEF OutcomeInv, ReturnIsOwnOutcome, ErrorOnTop
  <1>2. CASE f.type \notin registered
    <2>1. /\ depth' = b
          /\ \A i \in 1 .. b : frame'[i] = frame[i]
          /\ ret'.result = ret'.outcome
      BY <1>2, LeaveShape DEF CallTypeCallback, Return
    <2> QED BY <2>1 DEF OutcomeInv, ReturnIsOwnOutcome, ErrorOnTop
  <1> QED BY <1>1, <1>2

LEMMA CallErrorCallbackOutcome ==
    ASSUME TypeOK, OutcomeInv, CanDispatch, NEW r, CallErrorCallback(r)
    PROVE  OutcomeInv'
  <1>1. depth \in 0 .. MaxDepth - 1
    BY DispatchFacts
  <1>2. CASE "error" \in registered
    <2>1. /\ depth' = depth + 1
          /\ frame'[depth + 1].outcome = r
          /\ \A i \in 1 .. depth : frame'[i] = frame[i]
          /\ ret' = ret
          /\ lastResult' = r
      BY <1>1, <1>2, InvokeShape DEF CallErrorCallback, NoFrame
    <2> QED
      BY <1>1, <2>1, NoErrorFrameBelow DEF OutcomeInv, ReturnIsOwnOutcome, ErrorOnTop
  <1>3. CASE "error" \notin registered
    <2>1. /\ depth' = depth
          /\ \A i \in 1 .. depth : frame'[i] = frame[i]
          /\ ret'.result = ret'.outcome
      BY <1>1, <1>3, LeaveShape DEF CallErrorCallback, Return
    <2> QED
      BY <1>1, <2>1, NoErrorFrameBelow DEF OutcomeInv, ReturnIsOwnOutcome, ErrorOnTop
  <1> QED BY <1>2, <1>3

LEMMA OutcomeStep ==
    ASSUME "error" \notin NestIn
    PROVE  TypeOK /\ OutcomeInv /\ [Next]_vars => OutcomeInv'
  <1> SUFFICES ASSUME TypeOK, OutcomeInv, [Next]_vars PROVE OutcomeInv'
    OBVIOUS
  <1> USE DEF OutcomeInv
  <1>1. CASE UNCHANGED vars
    BY <1>1 DEF vars, ReturnIsOwnOutcome, ErrorOnTop
  <1>2. ASSUME NEW segs \in Topics, DispatchUnknownTopic(segs)
        PROVE  OutcomeInv'
    BY <1>2, CallErrorCallbackOutcome DEF DispatchUnknownTopic
  <1>3. ASSUME NEW segs \in Topics, DispatchUnknownType(segs)
        PROVE  OutcomeInv'
    <2>1. CanDispatch /\ depth \in 0 .. MaxDepth - 1
      BY <1>3, DispatchFacts DEF DispatchUnknownType
    <2>2. /\ depth' = depth
          /\ \A i \in 1 .. depth : frame'[i] = frame[i]
          /\ ret'.result = ret'.outcome
      BY <1>3, <2>1, LeaveShape DEF DispatchUnknownType, Return
    <2> QED
      BY <2>1, <2>2, NoErrorFrameBelow DEF ReturnIsOwnOutcome, ErrorOnTop
  <1>4. ASSUME NEW segs \in Topics, NEW p \in Payloads, DispatchMalformed(segs, p)
        PROVE  OutcomeInv'
    BY <1>4, CallErrorCallbackOutcome DEF DispatchMalformed
  <1>5. ASSUME NEW segs \in Topics, NEW p \in Payloads, DispatchAccepted(segs, p)
        PROVE  OutcomeInv'
    <2> DEFINE f == [pc |-> "any", id |-> count + 1, type |-> Parse(segs).type,
                     mirror |-> Target(Parse(segs).type), outcome |-> "OK"]
    <2>1. /\ CanDispatch
          /\ depth \in 0 .. MaxDepth - 1
          /\ count + 1 \in 1 .. MaxDispatches
          /\ \/ Invoke(depth, f) /\ ret' = ret
             \/ CallTypeCallback(depth, f, "OK")
      BY <1>5, DispatchFacts DEF DispatchAccepted
    <2>2. f \in Frames
      BY <2>1, ParseType DEF Frames, Callbacks, Target, TypeOK, DispatchResults
    <2>3. f.pc = "any"
      OBVIOUS
    <2> HIDE DEF f
    <2>4. CASE Invoke(depth, f) /\ ret' = ret
      <3>1. /\ depth' = depth + 1
            /\ frame'[depth + 1] = f
            /\ \A i \in 1 .. depth : frame'[i] = frame[i]
        BY <2>1, <2>4, InvokeShape
      <3> QED
        BY <2>1, <2>3, <2>4, <3>1, NoErrorFrameBelow DEF ReturnIsOwnOutcome, ErrorOnTop
    <2>5. CASE CallTypeCallback(depth, f, "OK")
      BY <2>1, <2>2, <2>5, NoErrorFrameBelow, CallTypeCallbackOutcome
    <2> QED BY <2>1, <2>4, <2>5
  <1>6. ASSUME NEW pc \in Callbacks, InCallback(pc)
        PROVE  /\ depth \in 1 .. MaxDepth
               /\ frame[depth] \in Frames
               /\ frame[depth].pc = pc
               /\ \A i \in 1 .. depth - 1 : frame[i].pc # "error"
    BY <1>6, ReturnFacts DEF ErrorOnTop, TypeOK
  <1>7. CASE AnyReturns
    <2>1. InCallback("any") /\ CallTypeCallback(depth - 1, frame[depth], lastResult)
      BY <1>7 DEF AnyReturns
    <2>2. /\ depth - 1 \in 0 .. MaxDepth - 1
          /\ frame[depth] \in Frames
          /\ \A i \in 1 .. depth - 1 : frame[i].pc # "error"
      BY <1>6, <2>1, DispatcherAssumption DEF Callbacks
    <2> QED BY <2>1, <2>2, CallTypeCallbackOutcome
  <1>8. CASE TypeReturns
    <2>1. /\ depth' = depth - 1
          /\ \A i \in 1 .. depth - 1 : frame'[i] = frame[i]
          /\ ret'.result = ret'.outcome
      BY <1>6, <1>8, LeaveShape, DispatcherAssumption DEF TypeReturns, Return, Callbacks
    <2> QED BY <1>6, <1>8, <2>1 DEF TypeReturns, ReturnIsOwnOutcome, ErrorOnTop, Callbacks
  <1>9. CASE ErrorReturns
    <2>1. InCallback("error")
      BY <1>9 DEF ErrorReturns
    <2>2. lastResult = frame[depth].outcome
      BY <1>6, <2>1 DEF ErrorOnTop, Callbacks
    <2>3. /\ depth' = depth - 1
          /\ \A i \in 1 .. depth - 1 : frame'[i] = frame[i]
          /\ ret'.result = ret'.outcome
      BY <1>6, <1>9, <2>1, <2>2, LeaveShape, DispatcherAssumption DEF ErrorReturns, Return, Callbacks
    <2> QED BY <1>6, <2>1, <2>3 DEF ReturnIsOwnOutcome, ErrorOnTop, Callbacks
  <1>10. CASE Configure
    BY <1>10
    DEF Configure, SetSystemState, SetCallbacks, history, ReturnIsOwnOutcome, ErrorOnTop
  <1> QED
    BY <1>1, <1>2, <1>3, <1>4, <1>5, <1>7, <1>8, <1>9, <1>10
    DEF Next, Dispatch, CallbackReturns

(* An application that does not call dispatch() from onError is always     *)
(* returned the outcome of the message it has dispatched.                  *)
THEOREM OwnOutcome ==
    ASSUME "error" \notin NestIn
    PROVE  Spec => []ReturnIsOwnOutcome
  <1>1. OutcomeInv => ReturnIsOwnOutcome
    BY DEF OutcomeInv
  <1> QED BY <1>1, OutcomeInit, OutcomeStep, TypeCorrect, PTL DEF Spec
-----------------------------------------------------------------------------
(* A frame as StackInv requires it, seen after a step. *)
GoodFrame(f) ==
    /\ f.pc # "none"
    /\ f.id <= count
    /\ f.mirror # NoMirror => /\ f.type \in MirrorFields
                              /\ mirrors[f.mirror][f.type].id >= f.id

LEMMA StackInvFrames == StackInv <=> \A i \in 1 .. depth : GoodFrame(frame[i])
  BY DEF StackInv, MirrorNotBehind, GoodFrame

(* What a step may do to the mirrors: keep a field, or write the message  *)
(* of the latest call to it.                                              *)
MirrorsForward ==
    /\ count' \in Nat
    /\ count' >= count
    /\ \A m \in Mirrors, t \in MirrorFields :
          \/ mirrors'[m][t] = mirrors[m][t]
          \/ mirrors'[m][t].id = count'

LEMMA GoodFrameKept ==
    ASSUME TypeOK, MirrorsForward, NEW f \in Frames, GoodFrame(f)
    PROVE  /\ f.pc # "none"
           /\ f.id <= count'
           /\ f.mirror # NoMirror => /\ f.type \in MirrorFields
                                     /\ mirrors'[f.mirror][f.type].id >= f.id
  <1>1. f.id \in Nat /\ f.mirror \in Mirrors \cup {NoMirror}
    BY DispatcherAssumption DEF Frames
  <1>2. f.id <= count'
    BY <1>1 DEF GoodFrame, MirrorsForward, TypeOK
  <1> QED BY <1>1, <1>2 DEF GoodFrame, MirrorsForward

LEMMA FramesKept ==
    ASSUME TypeOK, StackInv, MirrorsForward, NEW b \in 0 .. MaxDepth - 1, b <= depth,
           \A i \in 1 .. b : frame'[i] = frame[i]
    PROVE  \A i \in 1 .. b : GoodFrame(frame[i])'
  <1> SUFFICES ASSUME NEW i \in 1 .. b PROVE GoodFrame(frame[i])'
    OBVIOUS
  <1>1. /\ i \in 1 .. depth
        /\ frame[i] \in Frames
        /\ frame'[i] = frame[i]
    BY DispatcherAssumption DEF TypeOK
  <1>2. GoodFrame(frame[i])
    BY <1>1, StackInvFrames
  <1> QED BY <1>1, <1>2, GoodFrameKept DEF GoodFrame

LEMMA StackAfterLeave ==
    ASSUME TypeOK, StackInv, MirrorsForward, NEW b \in 0 .. MaxDepth - 1, b <= depth,
           Leave(b)
    PROVE  StackInv'
  <1>1. depth' = b /\ \A i \in 1 .. b : frame'[i] = frame[i]
    BY LeaveShape
  <1>2. \A i \in 1 .. b : GoodFrame(frame[i])'
    BY <1>1, FramesKept
  <1> QED BY <1>1, <1>2 DEF StackInv, MirrorNotBehind, GoodFrame

LEMMA StackAfterInvoke ==
    ASSUME TypeOK, StackInv, MirrorsForward, NEW b \in 0 .. MaxDepth - 1, b <= depth,
           NEW f, Invoke(b, f),
           f.pc # "none", f.id <= count',
           f.mirror # NoMirror => /\ f.type \in MirrorFields
                                  /\ mirrors'[f.mirror][f.type].id >= f.id
    PROVE  StackInv'
  <1>1. /\ depth' = b + 1
        /\ frame'[b + 1] = f
        /\ \A i \in 1 .. b : frame'[i] = frame[i]
    BY InvokeShape
  <1>2. \A i \in 1 .. b : GoodFrame(frame[i])'
    BY <1>1, FramesKept
  <1>3. GoodFrame(frame[b + 1])'
    BY <1>1 DEF GoodFrame
  <1>4. \A i \in 1 .. b + 1 : i \in 1 .. b \/ i = b + 1
    OBVIOUS
  <1> QED BY <1>1, <1>2, <1>3, <1>4 DEF StackInv, MirrorNotBehind, GoodFrame

LEMMA StackAfterTypeCallback ==
    ASSUME TypeOK, StackInv, MirrorsForward, NEW b \in 0 .. MaxDepth - 1, b <= depth,
           NEW f \in Frames, NEW r, CallTypeCallback(b, f, r), f.id <= count',
           f.mirror # NoMirror => /\ f.type \in MirrorFields
                                  /\ mirrors'[f.mirror][f.type].id >= f.id
    PROVE  StackInv'
  <1>1. CASE f.type \in registered
    <2> DEFINE g == [f EXCEPT !.pc = "type"]
    <2>1. /\ g.pc = "type"
          /\ g.id = f.id
          /\ g.type = f.type
          /\ g.mirror = f.mirror
      BY DEF Frames
    <2>2. Invoke(b, g)
      BY <1>1 DEF CallTypeCallback
    <2> HIDE DEF g
    <2> QED BY <2>1, <2>2, StackAfterInvoke
  <1>2. CASE f.type \notin registered
    BY <1>2, StackAfterLeave DEF CallTypeCallback, Return
  <1> QED BY <1>1, <1>2

LEMMA StackAfterErrorCallback ==
    ASSUME TypeOK, StackInv, CanDispatch, count' = count + 1, NEW r,
           CallErrorCallback(r)
    PROVE  StackInv'
  <1>1. depth \in 0 .. MaxDepth - 1 /\ count + 1 \in 1 .. MaxDispatches
    BY DispatchFacts
  <1>2. MirrorsForward
    BY <1>1, DispatcherAssumption DEF MirrorsForward, CallErrorCallback, TypeOK
  <1>3. CASE "error" \in registered
    <2> DEFINE g == [NoFrame EXCEPT !.pc = "error", !.id = count', !.outcome = r]
    <2>1. g.pc = "error" /\ g.id = count' /\ g.mirror = NoMirror
      BY DEF NoFrame
    <2>2. Invoke(depth, g)
      BY <1>3 DEF CallErrorCallback
    <2> HIDE DEF g
    <2> QED BY <1>1, <1>2, <2>1, <2>2, StackAfterInvoke DEF MirrorsForward
  <1>4. CASE "error" \notin registered
    BY <1>1, <1>2, <1>4, StackAfterLeave DEF CallErrorCallback, Return
  <1> QED BY <1>3, <1>4

LEMMA StackInvInit == Init => StackInv
  BY DEF Init, StackInv, MirrorNotBehind

(* What a call that accepts a message writes. *)
LEMMA UpdateMirrorFacts ==
    ASSUME TypeOK, NEW segs \in Topics, NEW p \in Payloads, NEW msg,
           Parse(segs).type \in MessageTypes, count' = count + 1,
           UpdateMirror(Parse(segs), msg)
    PROVE  /\ MirrorsForward
           /\ Target(Parse(segs).type) # NoMirror =>
                 /\ Parse(segs).type \in MirrorFields
                 /\ mirrors'[Target(Parse(segs).type)][Parse(segs).type].id = count'
  <1> DEFINE t == Parse(segs).type
             w == [msg |-> msg, id |-> count', piste |-> Parse(segs).piste]
  <1>1. mirrors' = [m \in Mirrors |->
            IF m = Target(t) THEN [mirrors[m] EXCEPT ![t] = w] ELSE mirrors[m]]
    BY DEF UpdateMirror
  <1>2. w.id = count'
    OBVIOUS
  <1> HIDE DEF w, t
  <1>3. \A m \in Mirrors, u \in MirrorFields :
            mirrors'[m][u] = mirrors[m][u] \/ mirrors'[m][u].id = count'
    BY <1>1, <1>2 DEF TypeOK
  <1>4. MirrorsForward
    BY <1>3, DispatcherAssumption DEF MirrorsForward, TypeOK
  <1>5. ASSUME Target(t) # NoMirror
        PROVE  t \in MirrorFields /\ mirrors'[Target(t)][t].id = count'
    <2>1. t \in MirrorFields /\ Target(t) \in Mirrors
      BY <1>5 DEF Target, TypeOK
    <2> QED BY <1>1, <1>2, <2>1 DEF TypeOK
  <1> QED BY <1>4, <1>5 DEF t

LEMMA StackInvStep == TypeOK /\ StackInv /\ [Next]_vars => StackInv'
  <1> SUFFICES ASSUME TypeOK, StackInv, [Next]_vars PROVE StackInv'
    OBVIOUS
  <1>1. CASE UNCHANGED vars
    BY <1>1 DEF vars, StackInv, MirrorNotBehind
  <1>2. ASSUME NEW segs \in Topics, DispatchUnknownTopic(segs)
        PROVE  StackInv'
    BY <1>2, StackAfterErrorCallback DEF DispatchUnknownTopic
  <1>3. ASSUME NEW segs \in Topics, DispatchUnknownType(segs)
        PROVE  StackInv'
    <2>1. depth \in 0 .. MaxDepth - 1 /\ Leave(depth)
      BY <1>3, DispatchFacts DEF DispatchUnknownType, Return
    <2>2. MirrorsForward
      BY <1>3, DispatcherAssumption DEF MirrorsForward, DispatchUnknownType, TypeOK
    <2> QED BY <2>1, <2>2, StackAfterLeave
  <1>4. ASSUME NEW segs \in Topics, NEW p \in Payloads, DispatchMalformed(segs, p)
        PROVE  StackInv'
    BY <1>4, StackAfterErrorCallback DEF DispatchMalformed
  <1>5. ASSUME NEW segs \in Topics, NEW p \in Payloads, DispatchAccepted(segs, p)
        PROVE  StackInv'
    <2> DEFINE f == [pc |-> "any", id |-> count + 1, type |-> Parse(segs).type,
                     mirror |-> Target(Parse(segs).type), outcome |-> "OK"]
    <2>1. /\ CanDispatch
          /\ depth \in 0 .. MaxDepth - 1
          /\ count + 1 \in 1 .. MaxDispatches
          /\ count' = count + 1
          /\ Parse(segs).type # UNKNOWN
          /\ UpdateMirror(Parse(segs), Deserialized(Parse(segs).type, p))
          /\ Invoke(depth, f) \/ CallTypeCallback(depth, f, "OK")
      BY <1>5, DispatchFacts DEF DispatchAccepted
    <2>2. f \in Frames /\ Parse(segs).type \in MessageTypes
      BY <2>1, ParseType DEF Frames, Callbacks, Target, TypeOK, DispatchResults
    <2>3. /\ MirrorsForward
          /\ f.mirror # NoMirror => /\ f.type \in MirrorFields
                                    /\ mirrors'[f.mirror][f.type].id = count'
      BY <2>1, <2>2, UpdateMirrorFacts
    <2>4. f.pc = "any" /\ f.id = count'
      BY <2>1
    <2>5. count' \in Nat /\ count' >= count'
      BY <2>1
    <2> HIDE DEF f
    <2>6. CASE Invoke(depth, f)
      BY <2>1, <2>3, <2>4, <2>5, <2>6, StackAfterInvoke
    <2>7. CASE CallTypeCallback(depth, f, "OK")
      BY <2>1, <2>2, <2>3, <2>4, <2>5, <2>7, StackAfterTypeCallback
    <2> QED BY <2>1, <2>6, <2>7
  <1>6. ASSUME NEW pc \in Callbacks, InCallback(pc)
        PROVE  /\ depth - 1 \in 0 .. MaxDepth - 1
               /\ depth - 1 <= depth
               /\ frame[depth] \in Frames
               /\ GoodFrame(frame[depth])
    BY <1>6, ReturnFacts, StackInvFrames, DispatcherAssumption
  <1>7. ASSUME UNCHANGED <<mirrors, count>>
        PROVE  MirrorsForward
    BY <1>7, DispatcherAssumption DEF MirrorsForward, TypeOK
  <1>8. CASE AnyReturns
    <2>1. /\ InCallback("any")
          /\ UNCHANGED <<mirrors, count>>
          /\ CallTypeCallback(depth - 1, frame[depth], lastResult)
      BY <1>8 DEF AnyReturns
    <2>2. GoodFrame(frame[depth]) /\ MirrorsForward
      BY <1>6, <1>7, <2>1 DEF Callbacks
    <2> QED
      BY <1>6, <2>1, <2>2, StackAfterTypeCallback DEF GoodFrame, Callbacks
  <1>9. CASE TypeReturns
    BY <1>6, <1>7, <1>9, StackAfterLeave DEF TypeReturns, Return, Callbacks
  <1>10. CASE ErrorReturns
    BY <1>6, <1>7, <1>10, StackAfterLeave DEF ErrorReturns, Return, Callbacks
  <1>11. CASE Configure
    BY <1>11
    DEF Configure, SetSystemState, SetCallbacks, history, StackInv, MirrorNotBehind
  <1> QED
    BY <1>1, <1>2, <1>3, <1>4, <1>5, <1>8, <1>9, <1>10, <1>11
    DEF Next, Dispatch, CallbackReturns

(* Whatever the callbacks dispatch, attach and register, the mirror a      *)
(* message was written to is never behind a callback that holds it.        *)
THEOREM NeverBehind == Spec => []MirrorNotBehind
  <1>1. StackInv => MirrorNotBehind
    BY DEF StackInv
  <1> QED BY <1>1, StackInvInit, StackInvStep, TypeCorrect, PTL DEF Spec
-----------------------------------------------------------------------------
LEMMA MirrorStepOfNext == TypeOK /\ [Next]_vars => MirrorStep
  <1> SUFFICES ASSUME TypeOK, Next, mirrors' # mirrors PROVE MirrorStep
    BY DEF vars, MirrorStep
  <1>1. PICK segs \in Topics, p \in Payloads : DispatchAccepted(segs, p)
    BY DEF Next, Dispatch, CallbackReturns, Configure, DispatchUnknownTopic,
           DispatchUnknownType, DispatchMalformed, CallErrorCallback, AnyReturns,
           TypeReturns, ErrorReturns, SetSystemState, SetCallbacks
  <1> DEFINE t == Parse(segs).type
             w == [msg |-> Deserialized(t, p), id |-> count',
                   piste |-> Parse(segs).piste]
  <1>2. /\ CanDispatch
        /\ count' = count + 1
        /\ lastErr' = "OK"
        /\ t \in MessageTypes
        /\ mirrors' = [m \in Mirrors |->
               IF m = Target(t) THEN [mirrors[m] EXCEPT ![t] = w] ELSE mirrors[m]]
    BY <1>1, ParseType DEF DispatchAccepted, UpdateMirror
  <1>3. lastResult' \in {"OK", "NO_CALLBACK"}
    BY <1>1 DEF DispatchAccepted, CallTypeCallback
  <1>4. w.id = count'
    OBVIOUS
  <1> HIDE DEF w, t
  <1>5. t \in MirrorFields /\ Target(t) = attached /\ attached \in Mirrors
    <2>1. Target(t) \in Mirrors
      BY <1>2 DEF TypeOK
    <2> QED BY <2>1, DispatcherAssumption DEF Target
  <1>6. t \in Retained
    BY <1>5, MirrorsWhatIsRetained
  <1>7. mirrors'[attached][t] = w
    BY <1>2, <1>5 DEF TypeOK
  <1>8. mirrors' = [mirrors EXCEPT ![attached][t] = w]
    BY <1>2, <1>5 DEF TypeOK
  <1> QED BY <1>2, <1>3, <1>4, <1>6, <1>7, <1>8 DEF MirrorStep

(* No step but the acceptance of a retained message changes a mirror, and  *)
(* that one changes one field of the attached mirror.                      *)
THEOREM MirrorDelivery == Spec => MirrorChangesOnlyByDelivery
  BY MirrorStepOfNext, TypeCorrect, PTL DEF Spec, MirrorChangesOnlyByDelivery
-----------------------------------------------------------------------------
LEMMA OrderInit == Init => OrderInv
  BY DEF Init, OrderInv, AnyOnTop

(* One frame is replaced or goes, and the frames below it are in other    *)
(* callbacks than onAny.                                                  *)
LEMMA OrderAfter ==
    ASSUME TypeOK, "any" \notin NestIn, NEW b \in 0 .. MaxDepth - 1,
           \A i \in 1 .. b : frame[i].pc # "any",
           \/ Leave(b)
           \/ \E f : Invoke(b, f) /\ (f.pc = "any" => f.id = count')
    PROVE  AnyOnTop'
  <1>1. CASE Leave(b)
    BY <1>1, LeaveShape DEF AnyOnTop
  <1>2. ASSUME NEW f, Invoke(b, f), f.pc = "any" => f.id = count'
        PROVE  AnyOnTop'
    <2>1. /\ depth' = b + 1
          /\ frame'[b + 1] = f
          /\ \A i \in 1 .. b : frame'[i] = frame[i]
      BY <1>2, InvokeShape
    <2> QED BY <1>2, <2>1 DEF AnyOnTop
  <1> QED BY <1>1, <1>2

LEMMA CallTypeCallbackOrder ==
    ASSUME TypeOK, OrderInv, "any" \notin NestIn, NEW b \in 0 .. MaxDepth - 1,
           \A i \in 1 .. b : frame[i].pc # "any",
           NEW f \in Frames, f.id = count', count' \in Nat, count' >= count,
           NEW r, CallTypeCallback(b, f, r)
    PROVE  OrderInv' /\ \A t \in MessageTypes : seen'[t] >= seen[t]
  <1>1. CASE f.type \in registered
    <2> DEFINE g == [f EXCEPT !.pc = "type"]
    <2>1. g.pc = "type"
      BY DEF Frames
    <2>2. Invoke(b, g) /\ seen' = [seen EXCEPT ![f.type] = count']
      BY <1>1 DEF CallTypeCallback
    <2> HIDE DEF g
    <2>3. AnyOnTop'
      BY <2>1, <2>2, OrderAfter
    <2>4. \A t \in MessageTypes : seen'[t] >= seen[t] /\ seen'[t] <= count'
      BY <2>2, DispatcherAssumption DEF TypeOK, OrderInv
    <2> QED BY <2>3, <2>4 DEF OrderInv
  <1>2. CASE f.type \notin registered
    <2>1. Leave(b) /\ seen' = seen
      BY <1>2 DEF CallTypeCallback, Return
    <2>2. AnyOnTop'
      BY <2>1, OrderAfter
    <2> QED BY <2>1, <2>2, DispatcherAssumption DEF TypeOK, OrderInv
  <1> QED BY <1>1, <1>2

LEMMA OrderStep ==
    ASSUME "any" \notin NestIn
    PROVE  TypeOK /\ OrderInv /\ [Next]_vars =>
              OrderInv' /\ \A t \in MessageTypes : seen'[t] >= seen[t]
  <1> SUFFICES ASSUME TypeOK, OrderInv, [Next]_vars
               PROVE  OrderInv' /\ \A t \in MessageTypes : seen'[t] >= seen[t]
    OBVIOUS
  <1>1. ASSUME UNCHANGED <<depth, frame, count, seen>>
        PROVE  OrderInv' /\ \A t \in MessageTypes : seen'[t] >= seen[t]
    BY <1>1, DispatcherAssumption DEF OrderInv, AnyOnTop, TypeOK
  <1>2. ASSUME UNCHANGED seen, count' = count + 1 \/ count' = count, AnyOnTop'
        PROVE  OrderInv' /\ \A t \in MessageTypes : seen'[t] >= seen[t]
    BY <1>2, DispatcherAssumption DEF OrderInv, TypeOK
  <1>3. ASSUME CanDispatch
        PROVE  /\ depth \in 0 .. MaxDepth - 1
               /\ count + 1 \in 1 .. MaxDispatches
               /\ \A i \in 1 .. depth : frame[i].pc # "any"
    BY <1>3, DispatchFacts DEF OrderInv, AnyOnTop
  <1>4. ASSUME CanDispatch, count' = count + 1, NEW r, CallErrorCallback(r)
        PROVE  OrderInv' /\ \A t \in MessageTypes : seen'[t] >= seen[t]
    <2>1. \/ Leave(depth)
          \/ Invoke(depth, [NoFrame EXCEPT !.pc = "error", !.id = count',
                                           !.outcome = r])
      BY <1>4 DEF CallErrorCallback, Return
    <2>2. [NoFrame EXCEPT !.pc = "error", !.id = count', !.outcome = r].pc = "error"
      BY DEF NoFrame
    <2>3. AnyOnTop'
      BY <1>3, <1>4, <2>1, <2>2, OrderAfter
    <2> QED BY <1>2, <1>4, <2>3 DEF CallErrorCallback
  <1>5. ASSUME NEW segs \in Topics, DispatchUnknownTopic(segs)
        PROVE  OrderInv' /\ \A t \in MessageTypes : seen'[t] >= seen[t]
    BY <1>4, <1>5 DEF DispatchUnknownTopic
  <1>6. ASSUME NEW segs \in Topics, DispatchUnknownType(segs)
        PROVE  OrderInv' /\ \A t \in MessageTypes : seen'[t] >= seen[t]
    <2>1. /\ CanDispatch /\ Leave(depth)
          /\ UNCHANGED seen /\ count' = count + 1
      BY <1>6 DEF DispatchUnknownType, Return
    <2> QED BY <1>2, <1>3, <2>1, OrderAfter
  <1>7. ASSUME NEW segs \in Topics, NEW p \in Payloads, DispatchMalformed(segs, p)
        PROVE  OrderInv' /\ \A t \in MessageTypes : seen'[t] >= seen[t]
    BY <1>4, <1>7 DEF DispatchMalformed
  <1>8. ASSUME NEW segs \in Topics, NEW p \in Payloads, DispatchAccepted(segs, p)
        PROVE  OrderInv' /\ \A t \in MessageTypes : seen'[t] >= seen[t]
    <2> DEFINE f == [pc |-> "any", id |-> count + 1, type |-> Parse(segs).type,
                     mirror |-> Target(Parse(segs).type), outcome |-> "OK"]
    <2>1. /\ CanDispatch /\ count' = count + 1
          /\ \/ Invoke(depth, f) /\ UNCHANGED seen
             \/ CallTypeCallback(depth, f, "OK")
      BY <1>8 DEF DispatchAccepted
    <2>2. f \in Frames
      BY <1>3, <2>1, ParseType DEF Frames, Callbacks, Target, TypeOK, DispatchResults
    <2>3. f.id = count' /\ count' \in Nat /\ count' >= count
      BY <1>3, <2>1, DispatcherAssumption DEF TypeOK
    <2> HIDE DEF f
    <2>4. CASE Invoke(depth, f) /\ UNCHANGED seen
      BY <1>2, <1>3, <2>1, <2>3, <2>4, OrderAfter
    <2>5. CASE CallTypeCallback(depth, f, "OK")
      BY <1>3, <2>1, <2>2, <2>3, <2>5, CallTypeCallbackOrder
    <2> QED BY <2>1, <2>4, <2>5
  <1>9. ASSUME NEW pc \in Callbacks, InCallback(pc)
        PROVE  /\ depth - 1 \in 0 .. MaxDepth - 1
               /\ frame[depth] \in Frames
               /\ frame[depth].pc = pc
               /\ \A i \in 1 .. depth - 1 : frame[i].pc # "any"
    BY <1>9, ReturnFacts, DispatcherAssumption DEF OrderInv, AnyOnTop
  <1>10. CASE AnyReturns
    <2>1. /\ InCallback("any") /\ "any" \in Callbacks
          /\ count' = count
          /\ CallTypeCallback(depth - 1, frame[depth], lastResult)
      BY <1>10 DEF AnyReturns, Callbacks
    <2>2. depth \in 1 .. MaxDepth
      BY <2>1, ReturnFacts
    <2>3. frame[depth].id = count' /\ count' \in Nat /\ count' >= count
      BY <1>9, <2>1, <2>2, DispatcherAssumption DEF OrderInv, AnyOnTop, TypeOK
    <2> QED BY <1>9, <2>1, <2>3, CallTypeCallbackOrder
  <1>11. CASE TypeReturns \/ ErrorReturns
    <2>1. /\ depth - 1 \in 0 .. MaxDepth - 1
          /\ \A i \in 1 .. depth - 1 : frame[i].pc # "any"
      BY <1>9, <1>11 DEF TypeReturns, ErrorReturns, Callbacks
    <2>2. Leave(depth - 1) /\ UNCHANGED <<seen, count>>
      BY <1>11 DEF TypeReturns, ErrorReturns, Return
    <2> QED BY <1>2, <2>1, <2>2, OrderAfter
  <1>12. CASE Configure \/ UNCHANGED vars
    BY <1>1, <1>12 DEF Configure, SetSystemState, SetCallbacks, history, vars
  <1> QED
    BY <1>5, <1>6, <1>7, <1>8, <1>10, <1>11, <1>12
    DEF Next, Dispatch, CallbackReturns

(* Unless onAny calls dispatch(), no type callback is ever given a message *)
(* older than one it has been given before.                                *)
THEOREM InOrder ==
    ASSUME "any" \notin NestIn
    PROVE  Spec => CallbackOrder
  BY OrderInit, OrderStep, TypeCorrect, PTL DEF Spec, CallbackOrder
-----------------------------------------------------------------------------
LEMMA ViewInit == Init => ViewInv
  BY DispatcherAssumption DEF Init, ViewInv, ViewsAgree, Initial

(* For one type: mirror and callback tell the same, or onAny is to come.  *)
Agrees(t) ==
    \/ seen[t] = mirrors[attached][t].id
    \/ \E i \in 1 .. depth : frame[i].pc = "any" /\ frame[i].type = t

LEMMA ViewsAgreeByType ==
    ViewsAgree <=> (attached # NoMirror => \A t \in MirrorFields \cap registered : Agrees(t))
  BY DEF ViewsAgree, Agrees

(* A type whose field and callback are not touched, while no frame of     *)
(* onAny goes.                                                            *)
LEMMA AgreesKept ==
    ASSUME NEW t, Agrees(t), NEW b, depth' >= b, b \in Nat, depth' \in Nat,
           attached' = attached,
           \A i \in 1 .. b : frame'[i] = frame[i],
           \A i \in 1 .. depth : frame[i].pc = "any" => i \in 1 .. b,
           seen'[t] = seen[t], mirrors'[attached][t] = mirrors[attached][t]
    PROVE  Agrees(t)'
  <1>1. CASE seen[t] = mirrors[attached][t].id
    BY <1>1 DEF Agrees
  <1>2. ASSUME NEW i \in 1 .. depth, frame[i].pc = "any", frame[i].type = t
        PROVE  Agrees(t)'
    <2>1. i \in 1 .. b /\ i \in 1 .. depth'
      BY <1>2
    <2> QED BY <1>2, <2>1 DEF Agrees
  <1> QED BY <1>1, <1>2 DEF Agrees

(* A call that is refused, or a return from the type callback or onError:  *)
(* mirrors and the history of callbacks stay.                              *)
LEMMA ViewsKept ==
    ASSUME TypeOK, ViewInv, NEW b \in 0 .. MaxDepth - 1, b <= depth,
           \A i \in 1 .. depth : frame[i].pc = "any" => i \in 1 .. b,
           \/ Leave(b)
           \/ \E f : Invoke(b, f) /\ f.pc # "any",
           UNCHANGED <<config, mirrors, seen>>, count' \in {count, count + 1}
    PROVE  ViewInv'
  <1>1. depth' \in {b, b + 1} /\ b \in Nat
    BY LeaveShape, InvokeShape, DispatcherAssumption
  <1>2. \A i \in 1 .. b : frame'[i] = frame[i]
    BY LeaveShape, InvokeShape
  <1>3. \A i \in 1 .. depth' : frame'[i].pc = "any" => i \in 1 .. b
    BY LeaveShape, InvokeShape, <1>1
  <1>4. /\ registered' = registered /\ attached' = attached
        /\ mirrors' = mirrors /\ seen' = seen
    BY DEF config
  <1>5. \A m \in Mirrors, f \in MirrorFields : mirrors'[m][f].id <= count'
    <2>1. \A m \in Mirrors, f \in MirrorFields : mirrors[m][f].id \in 0 .. MaxDispatches
      BY DispatcherAssumption DEF TypeOK, Field, Written, Initial
    <2> QED BY <1>4, <2>1, DispatcherAssumption DEF ViewInv, TypeOK
  <1>6. (\A i \in 1 .. depth :
            frame[i].pc = "any" => frame[i].mirror = Target(frame[i].type))'
    <2> SUFFICES ASSUME NEW i \in 1 .. depth', frame'[i].pc = "any"
                 PROVE  frame'[i].mirror = Target(frame[i].type)'
      OBVIOUS
    <2>1. i \in 1 .. b /\ frame'[i] = frame[i]
      BY <1>2, <1>3
    <2>2. i \in 1 .. depth
      BY <2>1, DispatcherAssumption DEF TypeOK
    <2> QED BY <1>4, <2>1, <2>2 DEF ViewInv, Target
  <1>7. ViewsAgree'
    <2> SUFFICES ASSUME attached # NoMirror, NEW t \in MirrorFields \cap registered
                 PROVE  Agrees(t)'
      BY <1>4, ViewsAgreeByType DEF ViewsAgree, Agrees
    <2>1. Agrees(t)
      BY ViewsAgreeByType DEF ViewInv
    <2>2. depth' >= b /\ depth' \in Nat
      BY <1>1
    <2> QED BY <1>1, <1>2, <1>4, <2>1, <2>2, AgreesKept
  <1> QED BY <1>5, <1>6, <1>7 DEF ViewInv

(* A message is handed on: to onAny, to its type callback, or to nobody.   *)
LEMMA ViewsHandedOn ==
    ASSUME TypeOK, ViewInv, NEW b \in 0 .. MaxDepth - 1, NEW f \in Frames,
           f.id = count', f.mirror = Target(f.type),
           UNCHANGED config,
           \A i \in 1 .. b : frame[i].pc # "any",
           \A i \in 1 .. depth : frame[i].pc = "any" => frame[i].type = f.type,
           \A m \in Mirrors, u \in MirrorFields : mirrors'[m][u].id <= count',
           attached # NoMirror =>
              /\ \A u \in MirrorFields \ {f.type} : mirrors'[attached][u] = mirrors[attached][u]
              /\ f.type \in MirrorFields => mirrors'[attached][f.type].id = count',
           \/ Invoke(b, f) /\ f.pc = "any" /\ UNCHANGED seen
           \/ \E r : CallTypeCallback(b, f, r)
    PROVE  ViewInv'
  <1>1. registered' = registered /\ attached' = attached
    BY DEF config
  <1>2. \/ /\ Invoke(b, f) /\ f.pc = "any" /\ seen' = seen
        \/ /\ Invoke(b, [f EXCEPT !.pc = "type"]) /\ f.type \in registered
           /\ seen' = [seen EXCEPT ![f.type] = count']
        \/ Leave(b) /\ f.type \notin registered /\ seen' = seen
    BY DEF CallTypeCallback, Return
  <1>3. \A u \in MessageTypes \ {f.type} : seen'[u] = seen[u]
    BY <1>2 DEF TypeOK
  <1>4. ASSUME attached # NoMirror, NEW u \in MirrorFields \cap registered, u # f.type
        PROVE  Agrees(u)'
    <2>1. u \in MessageTypes
      BY DEF MirrorFields, MessageTypes
    <2>2. seen[u] = mirrors[attached][u].id
      BY <1>4, ViewsAgreeByType DEF ViewInv, Agrees
    <2> QED BY <1>1, <1>3, <1>4, <2>1, <2>2 DEF Agrees
  <1>5. ASSUME NEW i \in 1 .. depth', frame'[i].pc = "any"
        PROVE  i = b + 1 /\ frame'[i] = f
    <2>1. CASE Invoke(b, f)
      BY <1>5, <2>1, InvokeShape
    <2>2. CASE Invoke(b, [f EXCEPT !.pc = "type"])
      <3> DEFINE g == [f EXCEPT !.pc = "type"]
      <3>1. g.pc = "type" /\ Invoke(b, g)
        BY <2>2 DEF Frames
      <3> HIDE DEF g
      <3> QED BY <1>5, <3>1, InvokeShape
    <2>3. CASE Leave(b)
      BY <1>5, <2>3, LeaveShape
    <2> QED BY <1>2, <2>1, <2>2, <2>3
  <1>6. ASSUME attached # NoMirror, f.type \in MirrorFields \cap registered
        PROVE  Agrees(f.type)'
    <2>1. CASE Invoke(b, f) /\ f.pc = "any"
      <3>1. b + 1 \in 1 .. depth' /\ frame'[b + 1] = f
        BY <2>1, InvokeShape
      <3> QED BY <2>1, <3>1 DEF Agrees
    <2>2. CASE seen' = [seen EXCEPT ![f.type] = count']
      <3>1. f.type \in MessageTypes
        BY <1>6 DEF MirrorFields, MessageTypes
      <3>2. seen'[f.type] = count'
        BY <2>2, <3>1 DEF TypeOK
      <3> QED BY <1>1, <1>6, <3>2 DEF Agrees
    <2> QED BY <1>2, <1>6, <2>1, <2>2
  <1>7. ViewsAgree'
    <2> SUFFICES ASSUME attached # NoMirror, NEW t \in MirrorFields \cap registered
                 PROVE  Agrees(t)'
      BY <1>1, ViewsAgreeByType DEF ViewsAgree, Agrees
    <2> QED BY <1>4, <1>6
  <1>8. (\A i \in 1 .. depth :
            frame[i].pc = "any" => frame[i].mirror = Target(frame[i].type))'
    BY <1>1, <1>5 DEF Target
  <1> QED BY <1>7, <1>8 DEF ViewInv

(* What the acceptance of a message does to the fields.                    *)
LEMMA AcceptedFields ==
    ASSUME TypeOK, ViewInv, NEW segs \in Topics, NEW p \in Payloads,
           DispatchAccepted(segs, p), count + 1 \in 1 .. MaxDispatches
    PROVE  /\ \A m \in Mirrors, u \in MirrorFields : mirrors'[m][u].id <= count'
           /\ attached # NoMirror =>
                /\ \A u \in MirrorFields \ {Parse(segs).type} :
                       mirrors'[attached][u] = mirrors[attached][u]
                /\ Parse(segs).type \in MirrorFields =>
                       mirrors'[attached][Parse(segs).type].id = count'
  <1> DEFINE t == Parse(segs).type
             w == [msg |-> Deserialized(t, p), id |-> count', piste |-> Parse(segs).piste]
  <1>1. /\ mirrors' = [m \in Mirrors |->
               IF m = Target(t) THEN [mirrors[m] EXCEPT ![t] = w] ELSE mirrors[m]]
        /\ count' = count + 1
    BY DEF DispatchAccepted, UpdateMirror
  <1>2. w.id = count'
    OBVIOUS
  <1> HIDE DEF w, t
  <1>3. \A m \in Mirrors, u \in MirrorFields : mirrors[m][u].id \in Nat
    BY DispatcherAssumption DEF TypeOK, Field, Written, Initial
  <1>4. \A m \in Mirrors, u \in MirrorFields :
            mirrors'[m][u] = mirrors[m][u] \/ mirrors'[m][u].id = count'
    BY <1>1, <1>2 DEF TypeOK
  <1>5. ASSUME NEW m \in Mirrors, NEW u \in MirrorFields PROVE mirrors'[m][u].id <= count'
    <2>1. mirrors[m][u].id <= count /\ mirrors[m][u].id \in Nat /\ count \in Nat
      BY <1>3, DispatcherAssumption DEF ViewInv, TypeOK
    <2> QED BY <1>1, <1>4, <2>1
  <1>6. ASSUME attached # NoMirror
        PROVE  /\ \A u \in MirrorFields \ {t} : mirrors'[attached][u] = mirrors[attached][u]
               /\ t \in MirrorFields => mirrors'[attached][t].id = count'
    BY <1>1, <1>2, <1>6 DEF TypeOK, Target
  <1> QED BY <1>5, <1>6 DEF t

(* Before the first message everything is as it was initialised.           *)
LEMMA ViewsBeforeTraffic ==
    ASSUME TypeOK, ViewInv, OrderInv, ReconfigureIn \subseteq {"setup"}, Configure
    PROVE  ViewInv'
  <1>1. Place \in ReconfigureIn
    BY DEF Configure, SetSystemState, SetCallbacks
  <1>2. depth = 0 /\ count = 0
    <2>1. ASSUME depth > 0 PROVE FALSE
      <3>1. frame[depth].pc = "setup"
        BY <1>1, <2>1 DEF Place
      <3>2. frame[depth] \in Frames
        BY <2>1, DispatcherAssumption DEF TypeOK
      <3> QED BY <3>1, <3>2 DEF Frames, Callbacks
    <2>2. depth = 0
      BY <2>1 DEF TypeOK
    <2> QED BY <1>1, <2>2 DEF Place
  <1>3. UNCHANGED <<mirrors, depth, frame, count, seen>> /\ attached' \in Mirrors \cup {NoMirror}
    BY DEF Configure, SetSystemState, SetCallbacks, history, TypeOK
  <1>4. \A t \in MirrorFields : seen[t] = 0
    BY <1>2, DispatcherAssumption DEF OrderInv, TypeOK, MirrorFields, MessageTypes
  <1>5. \A m \in Mirrors, t \in MirrorFields : mirrors[m][t].id = 0
    BY <1>2, DispatcherAssumption DEF ViewInv, TypeOK, Field, Written, Initial
  <1> QED BY <1>2, <1>3, <1>4, <1>5 DEF ViewInv, ViewsAgree

LEMMA ViewStep ==
    ASSUME "any" \notin NestIn, ReconfigureIn \subseteq {"setup"}
    PROVE  TypeOK /\ OrderInv /\ StackInv /\ ViewInv /\ [Next]_vars => ViewInv'
  <1> SUFFICES ASSUME TypeOK, OrderInv, StackInv, ViewInv, [Next]_vars
               PROVE  ViewInv'
    OBVIOUS
  <1>1. CASE UNCHANGED vars
    BY <1>1 DEF vars, ViewInv, ViewsAgree, Target
  <1>2. ASSUME CanDispatch
        PROVE  /\ depth \in 0 .. MaxDepth - 1 /\ depth <= depth
               /\ count + 1 \in 1 .. MaxDispatches
               /\ \A i \in 1 .. depth : frame[i].pc # "any"
    BY <1>2, DispatchFacts DEF OrderInv, AnyOnTop
  <1>3. ASSUME CanDispatch, count' = count + 1, NEW r, CallErrorCallback(r)
        PROVE  ViewInv'
    <2>1. \/ Leave(depth)
          \/ Invoke(depth, [NoFrame EXCEPT !.pc = "error", !.id = count',
                                           !.outcome = r])
      BY <1>3 DEF CallErrorCallback, Return
    <2>2. [NoFrame EXCEPT !.pc = "error", !.id = count', !.outcome = r].pc # "any"
      BY DEF NoFrame
    <2>3. UNCHANGED <<config, mirrors, seen>>
      BY <1>3 DEF CallErrorCallback
    <2> QED BY <1>2, <1>3, <2>1, <2>2, <2>3, ViewsKept
  <1>4. ASSUME NEW segs \in Topics, DispatchUnknownTopic(segs)
        PROVE  ViewInv'
    BY <1>3, <1>4 DEF DispatchUnknownTopic
  <1>5. ASSUME NEW segs \in Topics, DispatchUnknownType(segs)
        PROVE  ViewInv'
    <2>1. /\ CanDispatch /\ Leave(depth) /\ count' = count + 1
          /\ UNCHANGED <<config, mirrors, seen>>
      BY <1>5 DEF DispatchUnknownType, Return
    <2> QED BY <1>2, <2>1, ViewsKept
  <1>6. ASSUME NEW segs \in Topics, NEW p \in Payloads, DispatchMalformed(segs, p)
        PROVE  ViewInv'
    BY <1>3, <1>6 DEF DispatchMalformed
  <1>7. ASSUME NEW segs \in Topics, NEW p \in Payloads, DispatchAccepted(segs, p)
        PROVE  ViewInv'
    <2> DEFINE t == Parse(segs).type
               f == [pc |-> "any", id |-> count + 1, type |-> t,
                     mirror |-> Target(t), outcome |-> "OK"]
    <2>1. /\ CanDispatch /\ count' = count + 1 /\ UNCHANGED config
          /\ t # UNKNOWN
          /\ \/ Invoke(depth, f) /\ UNCHANGED seen
             \/ CallTypeCallback(depth, f, "OK")
      BY <1>7 DEF DispatchAccepted
    <2>2. /\ depth \in 0 .. MaxDepth - 1
          /\ count + 1 \in 1 .. MaxDispatches
          /\ \A i \in 1 .. depth : frame[i].pc # "any"
      BY <1>2, <2>1
    <2>3. t \in MessageTypes
      BY <2>1, ParseType
    <2>4. f \in Frames
      BY <2>2, <2>3 DEF Frames, Callbacks, Target, TypeOK, DispatchResults
    <2>5. /\ f.pc = "any" /\ f.id = count' /\ f.type = t /\ f.mirror = Target(f.type)
      BY <2>1
    <2>6. /\ \A m \in Mirrors, u \in MirrorFields : mirrors'[m][u].id <= count'
          /\ attached # NoMirror =>
                /\ \A u \in MirrorFields \ {f.type} :
                       mirrors'[attached][u] = mirrors[attached][u]
                /\ f.type \in MirrorFields => mirrors'[attached][f.type].id = count'
      BY <1>7, <2>2, <2>5, AcceptedFields
    <2> HIDE DEF f, t
    <2> QED BY <2>1, <2>2, <2>3, <2>4, <2>5, <2>6, ViewsHandedOn
  <1>8. ASSUME NEW pc \in Callbacks, InCallback(pc)
        PROVE  /\ depth - 1 \in 0 .. MaxDepth - 1 /\ depth - 1 <= depth
               /\ depth \in 1 .. depth
               /\ frame[depth] \in Frames
               /\ frame[depth].pc = pc
               /\ \A i \in 1 .. depth - 1 : frame[i].pc # "any"
    BY <1>8, ReturnFacts, DispatcherAssumption DEF OrderInv, AnyOnTop
  <1>9. CASE AnyReturns
    <2>1. /\ InCallback("any") /\ "any" \in Callbacks
          /\ UNCHANGED <<config, mirrors, count>>
          /\ CallTypeCallback(depth - 1, frame[depth], lastResult)
      BY <1>9 DEF AnyReturns, Callbacks
    <2> DEFINE f == frame[depth]
    <2>2. /\ depth - 1 \in 0 .. MaxDepth - 1 /\ depth \in 1 .. depth
          /\ f \in Frames /\ f.pc = "any"
          /\ \A i \in 1 .. depth - 1 : frame[i].pc # "any"
      BY <1>8, <2>1
    <2>3. \A i \in 1 .. depth : frame[i].pc = "any" => frame[i].type = f.type
      BY <2>2 DEF OrderInv, AnyOnTop
    <2>4. f.id = count' /\ f.mirror = Target(f.type)
      BY <2>1, <2>2 DEF OrderInv, AnyOnTop, ViewInv
    <2>5. \A m \in Mirrors, u \in MirrorFields : mirrors'[m][u].id <= count'
      BY <2>1 DEF ViewInv
    <2>6. ASSUME attached # NoMirror
          PROVE  /\ \A u \in MirrorFields \ {f.type} : mirrors'[attached][u] = mirrors[attached][u]
                 /\ f.type \in MirrorFields => mirrors'[attached][f.type].id = count'
      <3>1. f.type \in MirrorFields => mirrors[attached][f.type].id >= count
        BY <2>1, <2>2, <2>4, <2>6 DEF StackInv, MirrorNotBehind, Target
      <3>2. f.type \in MirrorFields => mirrors[attached][f.type].id = count
        <4>1. ASSUME f.type \in MirrorFields
              PROVE  mirrors[attached][f.type].id \in Nat /\ mirrors[attached][f.type].id <= count
          BY <2>6, <4>1, DispatcherAssumption
          DEF ViewInv, TypeOK, Field, Written, Initial
        <4> QED BY <3>1, <4>1 DEF TypeOK
      <3> QED BY <2>1, <3>2
    <2> HIDE DEF f
    <2> QED BY <2>1, <2>2, <2>3, <2>4, <2>5, <2>6, ViewsHandedOn DEF f
  <1>10. CASE TypeReturns \/ ErrorReturns
    <2>1. PICK pc \in {"type", "error"} : InCallback(pc)
      BY <1>10 DEF TypeReturns, ErrorReturns
    <2>2. /\ depth - 1 \in 0 .. MaxDepth - 1 /\ depth - 1 <= depth
          /\ frame[depth].pc # "any" /\ depth \in Nat
          /\ \A i \in 1 .. depth - 1 : frame[i].pc # "any"
      BY <1>8, <2>1, DispatcherAssumption DEF Callbacks, TypeOK
    <2>3. \A i \in 1 .. depth : frame[i].pc = "any" => i \in 1 .. depth - 1
      BY <2>2
    <2>4. /\ Leave(depth - 1) /\ UNCHANGED <<config, mirrors, seen>>
          /\ count' \in {count, count + 1}
      BY <1>10 DEF TypeReturns, ErrorReturns, Return
    <2> QED BY <2>2, <2>3, <2>4, ViewsKept
  <1>11. CASE Configure
    BY <1>11, ViewsBeforeTraffic
  <1> QED
    BY <1>1, <1>4, <1>5, <1>6, <1>7, <1>9, <1>10, <1>11
    DEF Next, Dispatch, CallbackReturns

(* In an application that is configured before the traffic and does not    *)
(* dispatch from onAny, whoever keeps state in callbacks and whoever reads *)
(* it from the mirror have the same latest message of every type.          *)
THEOREM MirrorAgrees ==
    ASSUME "any" \notin NestIn, ReconfigureIn \subseteq {"setup"}
    PROVE  Spec => []ViewsAgree
  <1>1. ViewInv => ViewsAgree
    BY DEF ViewInv
  <1> QED
    BY <1>1, ViewInit, ViewStep, OrderInit, OrderStep, StackInvInit, StackInvStep,
       TypeCorrect, PTL DEF Spec
=============================================================================
