--------------------------- MODULE MCCommunicator ---------------------------
EXTENDS Communicator

CONSTANTS a, b

Field(kind, n) == [kind |-> kind, n |-> n, v |-> 1]
DtoMessage(kinds, lengths, way, reserve) ==
    [kinds |-> kinds, way |-> way, reserve |-> reserve,
     fields |-> [i \in DOMAIN kinds |->
                    Field(kinds[i], IF kinds[i] \in Arrays THEN lengths[i]
                                    ELSE 0)]]

Short == 0..3
Quiet == [fallback |-> [c \in {} |-> FALSE], qos |-> [c \in {} |-> 0],
          profiles |-> {}, says |-> [t \in Tables |-> {}], ends |-> FALSE,
          uses |-> Tables, typed |-> {}]

\* The strings of an EventDTO: in this order in the message.
EventLengths == {[i \in 1..7 |-> CASE i = 2 -> l[1] [] i = 3 -> l[2]
                                   [] i = 4 -> l[3] [] i = 6 -> l[4]
                                   [] i = 7 -> l[5] [] OTHER -> 0] :
                    l \in [1..5 -> Short]}

Events == {DtoMessage(EventKinds, l, "cdr", 0) : l \in EventLengths}
DecodedEvents == {[m EXCEPT !.kinds = EventDecodedKinds] : m \in Events}
LegacyEvents == {DtoMessage(LegacyKinds, l, "legacy", 0) : l \in EventLengths}

\* The other DTOs, by both ways, with long strings too.
Others == {DtoMessage(kinds, [i \in DOMAIN kinds |-> n + (i % 3)], way, reserve) :
              kinds \in {HeartbeatKinds, Image2dKinds, Pose3dKinds,
                         SimplePoseKinds, SampleKinds,
                         <<"bool", "double", "uint8", "bytes", "int64">>},
              n \in {0, 1, 2, 3, 5, 700}, way \in {"cdr", "binary"},
              reserve \in {0, 16, 512}}

DTO(n) == DtoMessage(LegacyKinds, [i \in 1..7 |-> n], "legacy", 0).fields

Profile(history, depth) == [history |-> history, depth |-> depth]

Talk(fallback, profile, profiles, texts, dtos, ends) ==
    [Quiet EXCEPT !.fallback = fallback,
                  !.qos = [c \in DOMAIN fallback |-> profile],
                  !.profiles = profiles, !.ends = ends,
                  !.says = [t \in Tables |-> IF t = "text" THEN texts
                                             ELSE dtos]]

Both(x, y) == [c \in {a, b} |-> IF c = a THEN x ELSE y]

MCWorlds == {
    [Quiet EXCEPT !.typed = DecodedEvents \cup LegacyEvents \cup Others],
    \* one sends DTOs, or texts too, to itself, with its own copies
    Talk([c \in {a} |-> TRUE], Profile("keep_last", 0),
         {Profile("keep_last", 2), Profile("keep_all", 1)}, {}, {DTO(1)}, TRUE),
    Talk([c \in {a} |-> TRUE], Profile("keep_last", 2), {}, {<< >>}, {DTO(2)},
         FALSE),
    \* two, of which one has copies
    [Talk(Both(TRUE, FALSE), Profile("keep_last", 1), {}, {<< >>}, {}, FALSE)
        EXCEPT !.uses = {"text"}]}
=============================================================================
