-------------------------------- MODULE Codec --------------------------------
(***************************************************************************)
(* How DTOs become bytes and come back: BinarySerializer and CdrSerializer  *)
(* with their deserializers (src/dto_core.cpp), what the DTOs write through *)
(* them, and the encoding of EventDTO that FastDDSCommunicator has of its   *)
(* own (src/communication.cpp).                                            *)
(*                                                                         *)
(* Bytes are abstracted to the fields that lie in them and where each       *)
(* starts.  A field is [kind, n, v]: n is the length of a string or byte    *)
(* array.  What Fast CDR does is external: it aligns a number to its width, *)
(* puts the length before a string and a zero after it, and throws when     *)
(* its buffer, which is of fixed size, is full.                            *)
(***************************************************************************)
EXTENDS Integers, Sequences, FiniteSets, SequencesExt

Arrays == {"string", "bytes"}

Width(kind) == CASE kind \in {"bool", "uint8"} -> 1
                 [] kind \in {"uint64", "int64", "double"} -> 8
                 [] OTHER -> 4

Size(way, f) ==
    Width(f.kind) + f.n + IF f.kind = "string" /\ way # "binary" THEN 1 ELSE 0

-----------------------------------------------------------------------------
(* A buffer being filled: its size while it is, the bytes used, and the      *)
(* fields at their places.  Alignment counts from the end of the            *)
(* encapsulation, which only the communicator writes.                      *)

Header(way) == IF way = "legacy" THEN 4 ELSE 0

New(way, size) == [way |-> way, size |-> size, used |-> Header(way),
                   at |-> << >>]
Failed == [way |-> "none", size |-> 0, used |-> 0, at |-> << >>]

Aligned(way, offset, kind) ==
    IF way = "binary" THEN offset
    ELSE offset + ((Header(way) - offset) % Width(kind))

Place(b, f) == Aligned(b.way, b.used, f.kind)
Behind(b, f) == Place(b, f) + Size(b.way, f)

Put(b, f) == [b EXCEPT !.used = Behind(b, f),
                       !.at = [p \in DOMAIN b.at \cup {Place(b, f)} |->
                                  IF p = Place(b, f) THEN f ELSE b.at[p]]]

\* A vector that grows with what is appended.
BinaryWrite(b, f) == Put([b EXCEPT !.size = Behind(b, f)], f)

Larger(m, n) == IF m > n THEN m ELSE n

ensure_capacity(size, need) == IF need <= size THEN size
                               ELSE Larger(need, 2 * size + 1024)

\* The room that is made before a field is written, with some for alignment.
Need(b, f) == b.used + Width(f.kind) + f.n
              + IF f.kind \in Arrays \/ Width(f.kind) = 8 THEN 8 ELSE 4

\* The sizes of the buffer over the attempts at f, each larger.
Sizes(b, f) ==
    LET more == IF Width(f.kind) = 1 THEN 256 ELSE 1024 + f.n
        size[k \in 0..4] == IF k = 0 THEN ensure_capacity(b.size, Need(b, f))
                            ELSE ensure_capacity(size[k - 1],
                                                 2 * size[k - 1] + more)
    IN size

CdrWrite(b, f) ==
    LET attempts == 0..(IF f.kind \in Arrays THEN 4 ELSE 3)
        enough == {k \in attempts : Behind(b, f) <= Sizes(b, f)[k]}
    IN IF enough = {} THEN Failed
       ELSE Put([b EXCEPT !.size = Sizes(b, f)[Min(enough)]], f)

\* One buffer of an estimated size: Fast CDR throws if it is too small.
FixedWrite(b, f) == IF Behind(b, f) > b.size THEN Failed ELSE Put(b, f)

Write(b, f) == CASE b = Failed -> Failed
                 [] b.way = "binary" -> BinaryWrite(b, f)
                 [] b.way = "cdr" -> CdrWrite(b, f)
                 [] b.way = "legacy" -> FixedWrite(b, f)

Lengths(fields) == FoldLeft(LAMBDA sum, f : sum + f.n, 0, fields)

\* Mutation: no slack.
Bug_Estimate(fields) == 4 + 5 * 4 + 8 + Lengths(fields)

Estimate(fields) == 4 + 5 * 4 + 8 + Lengths(fields) + 32

\* serialize_event_dto_to_cdr_bytes: the buffer is as large as estimated.
LegacyEncoded(fields) ==
    FoldLeft(Write, New("legacy", Estimate(fields)), fields)

\* The bytes of a DTO, or Failed: a serializer begins with what its caller
\* reserves and is written to until a field fails.
Encoded(way, fields, reserve) ==
    IF way = "legacy" THEN LegacyEncoded(fields)
    ELSE FoldLeft(Write, New(way, reserve), fields)

-----------------------------------------------------------------------------
(* Reading.  A deserializer that finds no field of the kind it looks for at  *)
(* its place reads past the end or reads what is not meant: both fail here. *)

Read(b, r, kind) ==
    LET p == Aligned(b.way, r.offset, kind) IN
    IF r.ok /\ p \in DOMAIN b.at /\ b.at[p].kind = kind
    THEN [ok |-> TRUE, offset |-> p + Size(b.way, b.at[p]),
          fields |-> Append(r.fields, b.at[p])]
    ELSE [r EXCEPT !.ok = FALSE]

\* What a DTO with these fields is after it was read from b, all or in part.
Decoded(b, kinds) ==
    FoldLeft(LAMBDA r, kind : Read(b, r, kind),
             [ok |-> TRUE, offset |-> Header(b.way), fields |-> << >>], kinds)

-----------------------------------------------------------------------------
(* The DTOs, each read and written in the order of its IDL. *)

EventKinds == <<"uint32", "string", "string", "string", "uint64", "string",
                "string">>
EventDecodedKinds == <<"uint32", "string", "string", "string", "uint64",
                       "string", "string">>
HeartbeatKinds == <<"uint32", "string", "uint64", "uint32", "string">>
Image2dKinds == <<"uint32", "uint32", "uint32", "string", "string", "string">>
Pose3dKinds == [i \in 1..7 |-> "double"] \o <<"string">>
SimplePoseKinds == <<"double", "double", "double", "double">>
SampleKinds == <<"string", "uint64", "string", "string">>

\* Written by one field after another in the communicator.
LegacyKinds == <<"uint32", "string", "string", "string", "uint64", "string",
                 "string">>
=============================================================================
