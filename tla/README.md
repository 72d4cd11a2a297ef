# Verification of the OPP2 library

TLA+ models of [opp2-library](https://github.com/OpenPiste/opp2-library), the
header-only C++ implementation of OpenPiste Protocol Level 2 (MQTT topics with
JSON payloads for fencing equipment), and of the example programs that show how
it is to be used, with the broker between them. TLC checks small instances;
TLAPS proves for every instance each type invariant and every safety property
that a passing run checks. `PROJECT.json` lists components, runs, theorems,
hazards, findings and, per definition, the source lines it models.

    tlc -config MCDispatcherStatic.cfg MCDispatcher      # one of the runs
    tlapm Dispatcher_proofs.tla                          # one of the proofs

## 1. Inventory

| Part | State | Operations | What makes it correct |
|---|---|---|---|
| `opp2_types.h` | none; enumerations, message structs, `MESSAGE_META` | `Timestamp::encode/decode` | the mirror has a field for exactly the retained types; a timestamp survives the wire |
| `opp2_topic.h` TopicParser | none | `parse`, `build`, `buildFrom`, `buildLwtTopic` | accepts four known segments and only those; keeps the piste id of an unknown publisher or type; parse inverts build |
| `opp2_time.h` TimeFormat | none | `formatMs`, `parseToMs`, `populateTimeStr` | no wrap in 32 bits; parse inverts format, up to what the format drops |
| `opp2_serialize.h` Serializer | none (caller's buffer, an ArduinoJson document on the stack) | one `serialize` per message type | what is written can be read back; no silent loss in a full document |
| `opp2_deserialize.h` Deserializer | none | one `deserialize` per message type | mandatory fields and protocol are required; the offline notice is accepted; unknown values do not fail |
| `opp2_dispatcher.h` Dispatcher | callbacks, mirror pointer, last result, last error, the stack of active `dispatch()` calls | `dispatch`, `setSystemState`, assignment of callbacks | each message reaches mirror, `onAny` and its callback in this order; results and errors belong together |
| `SystemState` | one message per retained type | written by the dispatcher | never older than what callbacks have seen; changes only by delivery; one piste |
| Apparatus example, Linux | flags and times of the simulated bout, sequence counter, two static buffers; main thread and mosquitto's network thread | `main`, `onConnect`, `onSignal` | retained status follows presence; the halt is final; the bout ends |
| Apparatus example, ESP32 | the same, one thread | `setup`, `mqttConnect`, `loop` | the same, and it connects again |
| Subscriber examples | a dispatcher, one mirror, a connection | `onConnect`, `onMessage`, callbacks that print | the mirror follows what the topics hold, through lost connections; it shows one piste |
| Broker and client libraries (external) | sessions, wills, retained messages, QoS 1 queues | CONNECT, PUBLISH, keep-alive | as MQTT 3.1.1 has it |
| Tests, build files | – | – | sequential unit tests, read for what the authors intend |

How the parts interact. An apparatus fills a struct, *serialises* it, *builds* a
topic and hands both to its MQTT client. The broker keeps the last message of
each retained topic and publishes the will (`{"online":false}`) of a client
whose session ends without DISCONNECT. A subscriber's client calls
`Dispatcher::dispatch(topic, payload)`, which *parses*, *deserialises*, writes
the mirror and calls application code; that code runs inside `dispatch()` and
may call back into the dispatcher. The library itself has no threads and no
locks; the Linux apparatus has two threads.

What is hard here: callbacks that re-enter the dispatcher while results live in
members; connections that the two ends do not agree about, with wills that fire
late; announcements of a new connection crossing resent messages of the old;
a loop that is blocked through the moment it waits for; a mirror that has to
catch up with what it missed; two threads and one buffer; and, in the wire
formats, two sets of tables that must agree, optional parts, failed calls whose
result nobody looks at, capacities and boundaries. Section "hazards" of `PROJECT.json` has the list,
each at its line, with the property that covers it or the reason none does yet.

## 2. Modules

| Module | Models | Correspondence |
|---|---|---|
| `OPP2Types` | enumerations, `MESSAGE_META`, fields of `SystemState` | an enum value is named by its wire segment |
| `TopicParser` | `TopicParser::parse`, `build`, `buildFrom` | a topic is the sequence of its segments with their lengths; `Parse` returns what the output struct holds, `ParseOk` the return value; `Build` returns both the value and the buffer, which holds what fitted when it fails |
| `Timestamp`, `TimeFormat` | `Timestamp`, `TimeFormat` | a time string is its numerals with their digits; arithmetic is modulo `Word` |
| `Messages` | the message structs | a function on the field names of `Keys`; an optional field or person is a record with its flag |
| `Deserializer` | acceptance by every `deserialize` overload | a payload is its form, protocol, set of usable fields, the Boolean that changes what is mandatory, and a body; `DeserError` is the return value, `Deserialized` the struct |
| `Serializer` | every `serialize` overload | an object is a function from its keys to values; `Serialize` returns the value and the buffer after it |
| `MessageReader` | the fields every `deserialize` overload sets | `ReadInto` is the struct after the call, given the struct before it |
| `Wire`, `MCWire` | sender, packet, receiver | composes the wire formats as `opp2Publish()` and the dispatcher use them |
| `Dispatcher` | `Dispatcher` and its mirror | see below |
| `MCDispatcher` | applications of the dispatcher | the constants of four runs |
| `Dispatcher_proofs`, `Formats_proofs`, `Wire_proofs`, `MqttLink_proofs`, `ApparatusLinux_proofs`, `ApparatusEsp32_proofs`, `Subscriber_proofs`, `PisteSystem_proofs` | – | theorems and lemmas about the module they are named for (`Formats_proofs`: `Timestamp`, `TimeFormat`) |
| `MqttLink` | client library, connections, broker (external) | one client; sessions numbered in the order they are opened |
| `ApparatusLinux` | `examples/linux/apparatus_basic` | composes with `MqttLink` by INSTANCE; one action per stretch of `main()` between waits, `onConnect` in the network thread's `IsConnected` |
| `ApparatusEsp32` | `examples/esp32/apparatus_basic` | composes with `MqttLink`; `Dial`/`DialSucceeds` are the loop in `mqttConnect()` |
| `PisteMirror` | – | abstract: what a mirror promises about the topics of a piste |
| `Subscriber` | `examples/*/subscriber_basic` | `Subscribes` and `OnMessage` are `onConnect` and `onMessage` (`mqttConnect` and `mqttCallback` on the ESP32); what is on the way to it is a queue per topic |
| `PisteSystem` | apparatus, broker, software, subscriber | extends `ApparatusLinux` and `Subscriber` |

**Dispatcher.** Variables: `registered`, `attached`, `mirrors`, `lastErr`,
`lastResult` are the members and what they point to; `depth` and `frame` are the
C++ call stack: one frame per `dispatch()` that is waiting for a callback, with
the callback's kind. One step goes from the application's call (or its return
from a callback) to the next callback or the end of `dispatch()`: nothing else
can run in between, as the library is single-threaded. So `DispatchAccepted`
parses, deserialises, writes the mirror and calls `onAny`, or, without one, the
type callback, or returns `NO_CALLBACK`; `AnyReturns`, `TypeReturns`,
`ErrorReturns` go on from there. Inside a callback the application may do what
its constants say: call `dispatch()` (`NestIn`), attach a mirror or set
callbacks (`ReconfigureIn`), except replacing a callback that is running, which
C++ does not allow. History variables `count`, `seen` and `ret` record which
message is the latest, which each type callback was given, and what was returned.
Every mirror field carries the number and piste of its message for the same
purpose; the code keeps neither.

**MqttLink.** A session is requested, open or closed; `stream` is what is on the
way to the broker. The client may have given up a session the broker keeps
(until `KeepaliveExpires` or a takeover by the same client id) and the reverse
(`Partition`, found out by `LinkFoundDead`). A lost connection delivers a prefix
of its stream. With `Resends`, QoS 1 messages are held until acknowledged and
sent again on the next connection, before or after what the connect handler
publishes. A PUBACK, taken while the session is open, acknowledges the oldest
message held, if more are held than are on their way. Only the topics in
`Watched` are followed (`Followed`); the delivery of one topic does not depend
on another, so each run follows those its properties speak of.

**Apparatus programs.** Time is counted in periods of the clock message; the
touch is at `TouchAt`, the halt at `HaltAt`, in the proportions of the code
(5 s and 6 s: one period apart). A turn of the Linux loop may be arbitrarily late;
the ESP32 loop misses no tick unless a connect blocks it. The model of the ESP32
takes `mqtt.setWill()` at its word, which PubSubClient 2.8 as it is published does not
have, and lets a publish be lost, as that client sends with QoS 0 whatever
`apparatus_basic.ino:60` says; a client id from `millis()` is taken as always new,
equal ones being possible only after a restart to the same millisecond. A publish is one
step, and so is `onConnect`; what its use of the shared buffers can do is in
`Wire`.

**Wire.** A message takes three steps of a thread: `Serializes` is
`publishState()`, `publishScore()` and the like up to `serialize()` into the
static `payload`; `BuildsTopic` and `MosquittoPublishes` are the two calls in
`opp2Publish()`, which writes the static `topic` and sends what both buffers
hold by then. `serialize()` and `buildFrom()` fail as they do, and nobody looks
at it. A sender has the threads its constant says: none (another program),
`main`, or, as the Linux apparatus, `main` and the `network` thread, whose
`onConnect` publishes its four messages in order. The steps of the two
interleave in every way, over both buffers; a packet is `own` when both are as
its thread left them, `raced` otherwise. Each buffer changes as a whole: writes
torn by the second thread are left out. A packet is read, or never will be,
before the sender goes on (`Quiet`): reading touches nothing the sender does,
and what connects two messages, the buffers and the receiver's struct, is state
here. A document never runs full, as with ArduinoJson 7. A text, and a person's
id, name and nation together, is one value. A type in `Oversize` may not fit
`JSON_SIZE_MAX` (fencers, video_review); `serialize()` then leaves an empty
buffer, and the example goes on to publish a payload of length zero, which a
broker takes as the order to forget the retained message. `OtherPublishes` are
programs that do not use the library: fields missing, words and clock sources of
later versions, times as strings only. `Receive` reads into a new struct, as the
dispatcher does, or into the one used before, as an application may. What may be
sent is a constant, of which `ContentsAssumption` says that the library's
programs send structs (`IsStruct`: Booleans, 32-bit times, 56-bit timestamps, at
most `MaxCalls` calls), that what others send has at each key the JSON type the
reader looks for (a member of another type is as if absent, and so is left out),
and that a sender with two threads sends the types of `RacingTypes` only, which
are those of the Linux apparatus.

**Subscriber, PisteMirror, PisteSystem.** MQTT keeps messages in order for each
topic, not between topics: `inbox` has a queue per topic. On a subscription the
broker sends what each topic retains; a lost connection loses what was on the
way, as the session is clean. QoS 0, of the message or of the subscription
(`SubscribedQos`: 1 on Linux, 0 on the ESP32), allows a loss at any time
(`Lossy`). `ViewerSpec` is a subscriber with any broker and any publishers.
`PisteMirror` is the abstract specification: publishers `Write` to topics, the
mirror `Show`s values of a topic in the order the topic held them, and a
connection `StartOver`s with what the topics hold now. `Contents` are, by type,
what messages can say (`PisteContents` in the system: what the apparatus
publishes, and the corrected score). The refinement `MirrorFollows` maps what a
topic still has to tell to the queue while the subscriber is connected, and to
the retained message while it is not.
`PisteSystem` puts the Linux apparatus of `ApparatusLinux` at the other end:
every step in which the broker retains a message also passes it on (`Publishes`);
the competition software corrects the score under its own topic, which lands in
the same field of the mirror. Signals and a second start of the program are left
to `ApparatusLinux`, and the system specification states no fairness: its
properties are about safety.

Definitions called *faulty variant* are plausible bugs, one per property of a
passing run: put in place of the definition that follows, TLC finds the property
violated. They are used by nothing else.

## 3. Runs

| Run | Module, configuration | Shows |
|---|---|---|
| `dispatcher_reentrant` | `MCDispatcherReentrant.cfg` | `ReturnIsOwnOutcome`, `ErrorExplained`, `MirrorNotBehind`, `MirrorChangesOnlyByDelivery` hold although `onAny` and type callbacks dispatch and every callback may reconfigure |
| `dispatcher_static` | `MCDispatcherStatic.cfg` | for an application configured before the traffic, mirror and callbacks agree (`ViewsAgree`) and callbacks are in order (`CallbackOrder`), with dispatches from type and error callbacks nested three deep |
| `dispatcher_onerror_reentry` | violation | a dispatch from `onError` replaces the outer call's return value |
| `subscriber_all_pistes` | violation | one mirror, several pistes: the subscriber example mixes them |
| `linux_presence` | `ApparatusLinuxPresence.cfg` | `PresentIsOnline`, `OnlineNoticed`, `OfflineAfterExit`, `BoutHalts` |
| `linux_reconnect` | violation | WAITING is announced in the middle of a bout |
| `esp32_live` | `ApparatusEsp32Live.cfg` | `OfflineAfterPowerLoss`, `Reconnects` |
| `esp32_presence` | violation | the will of an abandoned session marks a connected device offline |
| `esp32_halt` | violation | the halt is missed for good when a reconnection blocks the loop |
| `wire` | `MCWire.cfg` | `ReceivedAsSent`: what the library publishes it accepts and reads with the same meaning; `AddressedAsMeant`: never under another piste or publisher, nor, undisturbed, another type; `NotMistaken`: a payload on the topic of another message is refused, but for a score on the topic of lights; `RelayFaithful`: what was understood can be passed on, with its meaning, exactly when no word of it was lost; `TimesAgree`: a time and its string show the same below 2^32 ms; `ReusedAsSent`: a used struct shows the new message, but for what is optional and absent from it |
| `wire_threads` | `MCWireThreads.cfg`, violation | a payload is published on the topic of the other thread's message |
| `piste_system` | `PisteSystem.cfg` | `MirrorFollows`: the mirror implements `PisteMirror`; `SettledMirror`: without messages on the way each field is what a topic of its type holds; `HaltIsFinal`: no resent message undoes the retained halt; `ViewersSeeHalt`: nor the one the subscriber shows |

**Bounds.** Dispatcher: three dispatches, two deep, with two mirrors (symmetric)
reach every interleaving of one nested call with a reconfiguration, before or
after a refused one; four dispatches, three deep, reach a nested call inside a
nested call with one before them. Two retained types and one event type stand
for the twelve, as all cases of `dispatchByType` differ only in whether they
write the mirror; payloads: complete, offline notice, a mandatory field missing.
Connections: `MaxSessions` = 3 is a connection, one lost with its session still
open at the broker, and one after a further fault; the last connection allowed
does not fail by network faults, so that a behaviour has an end in which
liveness can be judged (the client may still die on it). Wire: every field of
every type takes each value its reader tells apart, one field changed at a time
from a filled and from an empty struct, as no overload reads one field
differently for the value of another, except the Booleans that are fields
themselves; piste ids of 1, 31 and 32 bytes and one with a slash; words of 2^20
and 2 bits stand for 32 and 56 (the wrap of `parseToMs()` then comes at 17
minutes instead of 71582); two calls of a review instead of 16, so that three
are too many. Any two messages of one thread follow each other, which is all
that the buffers or a used struct can carry from one to the next. With two
threads every interleaving of any two messages occurs, each type with one
struct: what a race does depends on the types. System: two connections of the
apparatus (a loss with messages to be resent) and two of the subscriber; two
messages of a topic on the way, enough for one to overtake; the topics are
independent, and `state` and `score` stand for those with one publisher and with
two (`lights`, which go through the same steps as `state`, are not followed in
this run; of them `HaltIsFinal` and `ViewersSeeHalt` are theorems). It has about
1.2 million states. `Horizon` lies one tick after the halt where a property
needs time to pass it by. Deadlock is not checked where behaviours end at a
bound (dispatches, starts, sessions) or with the exit of the program.

**Fairness.** The dispatcher has none and no liveness: it acts only when called.
For the apparatus: the threads run (weak fairness on their steps), time
advances (Linux: `LoopTurn` at a later time is weakly fair; ESP32: strongly fair
at `now + 1`, as the loop passes that point again and again while `millis()`
goes on), the client library connects again and notices a closed connection, and
the broker accepts, delivers and lets keep-alives expire (60 s in `main.cpp:40`'s
`KEEPALIVE`, PubSubClient's default on the ESP32). No fault, signal,
restart or power-on is fair: none need ever happen. `LoopEnds` and `MainExits`
are not fair either: no property needs the program to exit.

**Findings.** Six runs end in a violation of what the repository says: the
return value after a dispatch in `onError` (`opp2_dispatcher.h:164`), one mirror
for all pistes in the subscriber (`opp2_types.h:704`), WAITING in a bout
(`opp2_types.h:111`), the online status of a connected ESP32
(`opp2_types.h:488`), the ESP32's halt (`apparatus_basic.ino:217`), payloads
of the Linux apparatus on each other's topics (`opp2_types.h:85`). The runs that
pass show what stays true beside them: an application that does not dispatch
from `onError` gets its own outcome; the Linux client, with one client id for
all connections of a process, is not marked offline by its own earlier session
(on the ESP32, where the earlier session lives on, even its undelivered messages
may arrive after those of the new connection);
the halt, once published, is not undone by resending; of the payloads on a wrong
topic only a score is ever accepted, as lights.

Three more disagreements of code and documents have no run of their own; a
property of the run `wire` names each as an exception.

- `opp2_deserialize.h:18-19` says that missing optional fields leave their
  default and set the flag to false. The flags are set when the field is there
  and never reset (`:459-466`, `:571-574`, `:698-701`), the officials are read
  only when `common` is there (`:528`), and a command without a side, as the
  offline notice (`:448-451`, against `:28`), leaves what was there: a struct
  that is used again keeps these. `ReusedAsSent` says it keeps nothing else. The
  dispatcher, which declares a struct per message, is not concerned.
- `opp2_deserialize.h:13` promises an UNKNOWN for words that are not known;
  `Side` has none, and `parseSide()` (`:208`) returns NONE, "the field was absent"
  (`opp2_types.h:199`). By `RelayFaithful` a medical message then cannot be passed
  on; a command is passed on without its side.
- `opp2_time.h:40-42` leaves minutes unlimited, and `:155` computes in 32 bits:
  "71583:00" is accepted and read as 12.7 s. `TimesAgree` holds below 2^32 ms.

Smaller observations:

- a score on the topic of lights is accepted as lights that are off, as it has
  all of their mandatory fields;
- `JSON_SIZE_MAX` (512) is called a "Safe size for any single OPP2 message"
  (`opp2_serialize.h:80`, and `:21` for Linux), beside 640 and 1024 for the two
  types of `Oversize`; lengths in bytes are not modelled, so no run shows it;
- the quick start of the repository's README (lines 109-111) serialises a message
  of 135 bytes into 128;
- `test_time.cpp:122-131` says that the time string gives back its milliseconds,
  which holds for the values it tries and not for 10250, say, whose fraction is
  not printed;
- a time with six digits of minutes or more is accepted, but the string kept of
  it loses the fraction or its last digit (lemma `CutShows`: never more);
- a missing status or priority is read as UNKNOWN although the initialisers are
  U and N.

## 4. Proofs

**Dispatcher**, for all constants that satisfy `DispatcherAssumption` and
`BodiesAssumption`: any topics, payloads, mirrors, callbacks and depth.

| Theorem | Statement | Argument |
|---|---|---|
| `TypeCorrect` | `Spec => []TypeOK` | inductive as it stands; one lemma per operator the actions share (`Invoke`, `Leave`, `UpdateMirror`, ...), then one step per action |
| `ErrorsAreExplained` | `Spec => []ErrorExplained` | inductive: whoever sets DESERIALIZE_ERROR has set the error, whoever clears the error sets another result, and a return copies both |
| `OwnOutcome` | if `"error" \notin NestIn`, `Spec => []ReturnIsOwnOutcome` | the property speaks of the step that returns; the strengthening `OutcomeInv` adds `ErrorOnTop`: `onError` is the innermost call and `lastResult` still what it was called for |
| `NeverBehind` | `Spec => []MirrorNotBehind` | ids only grow, but only together with `StackInv`: an active frame belongs to a call already counted, is in a callback, and has a mirror only for a mirrored type |
| `MirrorDelivery` | `Spec => MirrorChangesOnlyByDelivery` | by action; only `DispatchAccepted` changes a mirror, and `MirrorsWhatIsRetained` says a mirrored type is retained |
| `InOrder` | if `"any" \notin NestIn`, `Spec => CallbackOrder` | `OrderInv`: no type callback has seen a call not yet made, and a message with `onAny` is the latest, so handing it on cannot go back |
| `MirrorAgrees` | if `"any" \notin NestIn` and `ReconfigureIn \subseteq {"setup"}`, `Spec => []ViewsAgree` | `ViewInv`: `ViewsAgree`, no mirror ahead of `count`, and a message with `onAny` went to the mirror its callback will find |

The hypotheses are not conveniences: without that on `onError` the run
`dispatcher_onerror_reentry` has the counterexample, without that on `onAny` it
may dispatch a message of the same type that overtakes its own, and a mirror or a
callback exchanged in the traffic has missed what came before.

**Formats**, for every `Word` up to 2^32 and every `Low`:

| Theorem | Statement | Argument |
|---|---|---|
| `TimeFits` | `formatMs()` fits the nine bytes it asks for | the minutes have at most five digits, and one where a fraction follows |
| `TimeRoundTrip` | the string shows the milliseconds (`ShownMs(Format(ms)) = Truncated(ms)`), is accepted, and is parsed back to them | the parts of a time add up to it (`FormatShows`); nothing wraps, as the sum is at most `ms` |
| `TimestampRoundTrip` | a timestamp of seven bytes is decoded as it was encoded | quotient and remainder of a sum |
| `RelayedTimestamp` | decoding, encoding and decoding again changes nothing, for any 64-bit number | an unknown flag is UNKNOWN's before and after |

**Wire**, for any structs, payloads, segments and their lengths, under
`SendersAssumption` and `ContentsAssumption`:

| Theorem | Statement | Argument |
|---|---|---|
| `Addressed` | `Spec => []AddressedAsMeant` | `TopicInv`: the topic buffer, each thread's and the packet's copy of it hold the full topic of some message of this sender, that topic cut, or nothing (`TopicsOf`); a cut topic, one with a piste id of several segments and the empty one are refused by `Parse`, a full one is parsed into its parts. An `own` packet has the topic of its own message |
| `RoundTrip` | for a struct `m` of any type: if `serialize()` does not refuse it, `deserialize()` accepts the result and reads the meaning of `m` | `FieldBack`: each kind of field survives, words by going through both tables, calls one by one; `Accepting`: every mandatory field is one that is always written |
| `WireTyped` | `Spec => []TypeOK` | `ReadTyped`: what is read into a struct is a struct, if the payload has the types the reader looks for, which `PacketJson` shows also of payloads read as another type |
| `SentAndReceived` | `Spec => []ReceivedAsSent` | `OwnPacket`: after a call that succeeded, an `own` packet is that struct's payload on its topic; then `RoundTrip` |
| `Unmistaken` | `Spec => []NotMistaken` | `Sound`: a buffer is empty or a whole payload of some type; undisturbed, it holds another type only where an argument was refused and an older payload left (`Carries`), and raced only a type both threads send; `TakenFor`: of these pairs only lights and score agree in all mandatory fields |
| `TimesInStep` | `Spec => []TimesAgree` | the string was made from the milliseconds (`TimeRoundTrip`), or they from it, below 2^32 without a wrap, and the copy kept of it shows as much up to a fraction (`CutShows`) |
| `ReadOverOld` | `Spec => []ReusedAsSent` | field by field: the overload writes it (`WrittenTouched`), and then `RoundTrip`'s `FieldBack` applies whatever was there before, or the message does not have it, and then it is one of those the property names |
| `Relayed` | `Spec => []RelayFaithful` | `Rewritable`: what was read has a word that `serialize()` refuses exactly when the payload has one the reader does not know (`WordRead`) or lacks one (`NoWord`); otherwise it is a struct (`ReadTyped`) and `RoundTrip` applies |

Their invariants are `CallInv` (how far a thread can be with what), `TopicInv`,
`PayloadInv` (what buffer, calls and packet hold: `CallsInv`, and by who put it into
the packet `OwnInv`, `RacedInv`, `OtherInv`) and `ReadInv` (the struct is `ReadInto`
of the packet and of some struct, a fresh one if the property says so). None of the
properties is inductive: they compare what was sent with what was read and say
nothing of a packet that is still to be read.

**Link and Linux apparatus**, for any set of followed types, times of the bout,
number of starts and of connections (`ApparatusAssumption`):

| Theorem | Statement | Argument |
|---|---|---|
| `WellTyped` | `Spec => []TypeOK` | `SafeInv`: `TypeOK`, `SessionInv` (no two open sessions of one client id) and `MainInv` (when nothing waits to be published). The link's half is proved once, in `MqttLink_proofs`, as lemmas about any step of a client and of the broker, and used for both apparatus |
| `HaltFinal` | `Spec => []HaltIsFinal` | `HaltInv`: after the halt, `LastWord(HaltBad)` |
| `PresentOnline` | if `"connection" \in Watched`, `Spec => []PresentIsOnline` | `PresentInv`: up to the end of the bout, `LastWord(AwayBad)` |

`LastWord(Bad)` is why a resent message cannot win. Of what is retained, on its
way, held by the library and about to be published, each message in `Bad` is
followed, there or in a later one of these, by another one of its type that is
not. Publishing, resending before or after the announcements, acknowledging and
delivering all keep that, since `onConnect` itself says nothing bad and corrects
every type it could have been said of (`Announces`). It needs `ClientInv`: one
client id for all connections of a process, so that a new session ends the old
one and no will or late message of it can come after. That is why both
properties speak of the first instance of the program: one that was killed and
started again has another id, as PROJECT.json's hazards say.

**ESP32 apparatus**, under `Esp32Assumption`:

| Theorem | Statement | Argument |
|---|---|---|
| `DeviceTyped` | `Spec => []TypeOK` | the same lemmas about the link, one step per action of the program; the properties that correspond to `HaltFinal` and `PresentOnline` are false here (runs `esp32_halt`, `esp32_presence`) |

**Subscriber**, for any topics, contents and bounds (`SubscriberAssumption`):

| Theorem | Statement | Argument |
|---|---|---|
| `KeepsPromise` | `ViewerSpec => MirrorFollows` | the step simulation, one lemma per action (`Published` is a `Write`, `OnMessage` a `Show`, `Disconnects` a `StartOver`, `Subscribes` a stutter), from `ShapeInv`: without a connection nothing is on the way |
| `Settles` | `ViewerSpec => []SettledMirror` | `FollowInv`: the last message on the way on a reliable topic is what the topic retains, and a type of which nothing is on the way, to a connected subscriber, already shows what one of its topics retains |

**System**, for any number of connections of either side and any bound of the
queues (`SystemAssumption`):

| Theorem | Statement | Argument |
|---|---|---|
| `SystemTyped` | `SystemSpec => []SystemTypeOK` | `OneMemory`: the broker's memory as the apparatus and as the subscriber see it is one, and the program is started once |
| `SystemFollows` | `SystemSpec => MirrorFollows` | every step is one of the subscriber with some publisher, so `SystemSpec => ViewerSpec`; then `KeepsPromise` |
| `SystemSettles` | `SystemSpec => []SettledMirror` | the same with `Settles` |
| `SystemHaltFinal` | `SystemSpec => []HaltIsFinal` | every step is one of the apparatus or leaves it alone, so `SystemSpec => ApparatusSpec` |
| `ViewersSee` | if `SubscribedQos # 0`, `SystemSpec => []ViewersSeeHalt` | what the mirror shows is retained (`SettledMirror`), the apparatus is the only publisher of state and lights, and what is retained is not `FENCING` (`HaltIsFinal`, `OneMemory`) |

`SystemSettles` says nothing of a topic that may lose messages, which with a
subscription of QoS 0 is every topic; hence the hypothesis of `ViewersSee`.

Only model-checked: the liveness properties `OnlineNoticed`, `OfflineAfterExit`,
`BoutHalts` (`linux_presence`), `OfflineAfterPowerLoss` and `Reconnects`
(`esp32_live`), as fairness and ENABLED are beyond the prover. The six findings
are counterexamples of TLC.

## 5. Plan and what is not modelled

Done: the dispatcher with parser and acceptance; the two apparatus programs with
their connection; the wire formats with their round trips; the subscriber and
its composition with apparatus and broker, refining an abstract mirror; a proof
of every safety property that a passing run checks. The most important behaviour
came first: what application code relies on when it is called back, then what
the piste's retained messages say while connections fail, then that a message
means to its reader what it meant to its writer.

Worth doing next: properties, with their proofs, for what the hazards without one
leave open and a weaker promise may still hold of: what a restarted Linux
program can rely on once its predecessor's session is gone; what a subscriber
shows when messages of an abandoned session of the ESP32 have all arrived; and
how far `LastWord` carries for a device that does not resend.

Not modelled:

- the fixed document pool of ArduinoJson 6 (`opp2_serialize.h:67-78`): what fits
  depends on the size of its slots on each platform;
- writes of the two threads of the Linux apparatus that tear a buffer or the
  sequence counter: any mixture of bytes would be possible, and no code compares
  sequence numbers;
- the size of the client's buffer on the ESP32 (512 bytes), longer messages being
  dropped there; WiFi association; the wrap of `millis()` after 49 days;
- the truncation of texts to the size of their members;
- log lines and the callbacks of the subscriber examples, which print;
- the conformance of ArduinoJson, of brokers and of client libraries to their
  standards.
