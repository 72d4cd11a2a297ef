----------------------------- MODULE TopicParser -----------------------------
(***************************************************************************)
(* TopicParser of opp2_topic.h.  An MQTT topic is the sequence of its      *)
(* segments, the text between two slashes; a segment is an atomic token    *)
(* with a length.  <<>> stands for a null pointer, <<"">> for the empty    *)
(* string.                                                                 *)
(***************************************************************************)
EXTENDS OPP2Types, Integers, Sequences
LOCAL INSTANCE FiniteSetsExt

CONSTANT SegLen(_)      \* the number of bytes of a segment

TOPIC_PREFIX == "openpiste"
PISTE_ID_MAX == 32      \* with the terminating null
TOPIC_BUF    == 128     \* the stack copy parse() splits

NoPiste == ""

(* strlen() of the joined topic. *)
TopicLen(segs) ==
    MapThenSumSet(LAMBDA i : SegLen(segs[i]), DOMAIN segs) + Len(segs) - 1

PublisherFromString(s) == IF s \in Publishers THEN s ELSE UNKNOWN

MessageTypeFromString(s) == IF s \in MessageTypes THEN s ELSE UNKNOWN

NoTopic == [piste |-> NoPiste, publisher |-> UNKNOWN, type |-> UNKNOWN]

(* What parse() needs before it writes anything to its output: prefix,    *)
(* at least three slashes, a piste id that fits.                          *)
WellFormed(segs) ==
    /\ segs # <<>>
    /\ TopicLen(segs) < TOPIC_BUF
    /\ Len(segs) >= 4
    /\ segs[1] = TOPIC_PREFIX
    /\ SegLen(segs[2]) \in 1 .. PISTE_ID_MAX - 1

(* The output of parse().  The splitting loop stops at the third slash:   *)
(* what follows it is one segment, which no message type matches when it  *)
(* holds a slash itself.                                                  *)
Parse(segs) ==
    IF ~ WellFormed(segs)
    THEN NoTopic
    ELSE [piste     |-> segs[2],
          publisher |-> PublisherFromString(segs[3]),
          type      |-> IF Len(segs) = 4 THEN MessageTypeFromString(segs[4])
                                         ELSE UNKNOWN]

(* The return value of parse(). *)
ParseOk(topic) == topic.publisher # UNKNOWN /\ topic.type # UNKNOWN

(* A topic that lost its end: what is left of its last segment names no   *)
(* message type.                                                          *)
CutShort == "..."
Cut(topic) == [topic EXCEPT ![Len(topic)] = CutShort]

(* Faulty variant: the text that fits is copied only when all of it does.  *)
BuildAllOrNothing(id, publisher, type, size, buf) ==
    LET topic == <<TOPIC_PREFIX>> \o id \o <<publisher, type>>
    IN  IF /\ TopicLen(id) \in 1 .. PISTE_ID_MAX - 1
           /\ publisher \in Publishers
           /\ type \in MessageTypes
           /\ TopicLen(topic) < size
        THEN [ok |-> TRUE, topic |-> topic]
        ELSE [ok |-> FALSE, topic |-> buf]

(* buildFrom(): its value, and the buffer of this size after it, which was *)
(* buf before.  The piste id is the sequence of its segments.  Nothing is  *)
(* written when an argument is refused; snprintf() writes what fits.       *)
Build(id, publisher, type, size, buf) ==
    LET topic   == <<TOPIC_PREFIX>> \o id \o <<publisher, type>>
        refused == \/ TopicLen(id) \notin 1 .. PISTE_ID_MAX - 1
                   \/ publisher \notin Publishers
                   \/ type \notin MessageTypes
    IN  [ok    |-> ~ refused /\ TopicLen(topic) < size,
         topic |-> IF refused THEN buf
                   ELSE IF TopicLen(topic) < size THEN topic ELSE Cut(topic)]
=============================================================================
