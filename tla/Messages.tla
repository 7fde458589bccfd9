------------------------------ MODULE Messages ------------------------------
(***************************************************************************)
(* The messages of protocol/message, their frames, and the parser of the   *)
(* frames.  The byte and the width of every field are scaled down; a frame *)
(* is its type byte followed by its payload.                               *)
(***************************************************************************)
EXTENDS Integers, SequencesExt

CONSTANTS
    Base,      \* how many values a byte has
    Width32,   \* bytes of a u32
    Width64,   \* bytes of a u64
    KeySize,   \* bytes of a key, a nonce or a resource id; a signature has two
    TextBytes  \* the bytes of valid UTF-8 text

ASSUME WidthsAssumption ==
    /\ Base \in Nat /\ Base > 7 /\ TextBytes \subseteq 0..(Base - 1)
    /\ Width32 \in Nat \ {0} /\ Width64 \in Nat \ {0} /\ KeySize \in Nat \ {0}

\* What is left of an unsigned integer without its last k bytes.
Left(n, width) ==
    LET left[k \in 0..width] == IF k = 0 THEN n ELSE left[k - 1] \div Base IN left

\* An integer of the width.
FitsIn(n, width) == n \in Nat /\ Left(n, width)[width] = 0

\* to_be_bytes; what exceeds the width is lost.
ToBytes(n, width) == [k \in 1..width |-> Left(n, width)[width - k] % Base]

\* from_be_bytes.
FromBytes(b) ==
    LET value[k \in 0..Len(b)] == IF k = 0 THEN 0 ELSE value[k - 1] * Base + b[k]
    IN  value[Len(b)]

U32(n) == ToBytes(n, Width32)
U64(n) == ToBytes(n, Width64)

-----------------------------------------------------------------------------
(* Message -> Frame.                                                       *)

Handshake == {"Hello", "HelloProof"}

MessageType ==
    [Hello |-> 1, HelloProof |-> 2, ListResources |-> 3, ResourceList |-> 4,
     DownloadResource |-> 5, ResourceChunk |-> 6, ResourceEnd |-> 7]

\* What a message may hold.
Byte == 0..(Base - 1)
Keys == {s \in Seq(Byte) : Len(s) = KeySize}
Ids == {n \in Nat : FitsIn(n, Width32)}
Names == {s \in Seq(TextBytes) : FitsIn(Len(s), Width32)}
Infos == [id : Keys, name : Names, size : {n \in Nat : FitsIn(n, Width64)}]

Message ==
    [type : {"Hello"}, public_key : Keys, nonce : Keys]
    \cup [type : {"HelloProof"}, signature : {s \in Seq(Byte) : Len(s) = 2 * KeySize}]
    \cup [type : {"ListResources"}, request_id : Ids]
    \cup [type : {"ResourceList"}, request_id : Ids,
          resources : {s \in Seq(Infos) : FitsIn(Len(s), Width32)}]
    \cup [type : {"DownloadResource", "ResourceEnd"}, request_id : Ids, id : Keys]
    \cup [type : {"ResourceChunk"}, request_id : Ids, id : Keys,
          offset : {n \in Nat : FitsIn(n, Width64)}, data : Seq(Byte)]

Entry(r) == r.id \o U32(Len(r.name)) \o r.name \o U64(r.size)

Entries(rs) ==
    LET upTo[k \in 0..Len(rs)] == IF k = 0 THEN <<>> ELSE upTo[k - 1] \o Entry(rs[k])
    IN  upTo[Len(rs)]

Payload(m) ==
    CASE m.type = "Hello" -> m.public_key \o m.nonce
      [] m.type = "HelloProof" -> m.signature
      [] m.type = "ListResources" -> U32(m.request_id)
      [] m.type = "ResourceList" ->
            U32(m.request_id) \o U32(Len(m.resources)) \o Entries(m.resources)
      [] m.type \in {"DownloadResource", "ResourceEnd"} -> U32(m.request_id) \o m.id
      [] m.type = "ResourceChunk" ->
            U32(m.request_id) \o m.id \o U64(m.offset) \o m.data

FrameOf(m) == <<MessageType[m.type]>> \o Payload(m)

-----------------------------------------------------------------------------
(* Message::try_from(Frame).                                               *)

Bad == [type |-> "Bad"]

Fits(p, off, n) == off + n <= Len(p)
At(p, off, n) == SubSeq(p, off + 1, off + n)
Rest(p, off) == SubSeq(p, off + 1, Len(p))
Number(p, off, width) == FromBytes(At(p, off, width))

\* Id and name of a request or of an end of a transfer.
ParseIdAndKey(type, p) ==
    IF Len(p) # Width32 + KeySize THEN Bad
    ELSE [type |-> type, request_id |-> Number(p, 0, Width32),
          id |-> At(p, Width32, KeySize)]

ParseChunk(p) ==
    LET head == Width32 + KeySize + Width64 IN
    IF Len(p) < head THEN Bad
    ELSE [type |-> "ResourceChunk", request_id |-> Number(p, 0, Width32),
          id |-> At(p, Width32, KeySize),
          offset |-> Number(p, Width32 + KeySize, Width64),
          data |-> Rest(p, head)]

EntrySize == KeySize + Width32 + Width64

\* One round of the loop of parse_resource_list: got is the offset reached and
\* the entries read.  Every field is compared with what is left of the payload.
ParseEntry(p, got) ==
    LET nameAt == got.off + KeySize + Width32
        nl == Number(p, got.off + KeySize, Width32)
        name == At(p, nameAt, nl)
    IN  IF \/ ~Fits(p, got.off, KeySize + Width32)
           \/ ~Fits(p, nameAt, nl)
           \/ \E k \in DOMAIN name : name[k] \notin TextBytes
           \/ ~Fits(p, nameAt + nl, Width64)
        THEN Bad
        ELSE [type |-> "Entries", off |-> nameAt + nl + Width64,
              resources |-> Append(got.resources,
                 [id |-> At(p, got.off, KeySize), name |-> name,
                  size |-> Number(p, nameAt + nl, Width64)])]

\* Bug variant: as many entries as fit are refused too.
CountFitsStrictly(p, off, count) == count < (Len(p) - off) \div EntrySize

\* The capacity is reserved before the entries are read: no more of them than
\* the payload could hold with empty names.
CountFits(p, off, count) == count <= (Len(p) - off) \div EntrySize

\* What follows the last entry is ignored.
ParseList(p) ==
    LET head == 2 * Width32
        count == Number(p, Width32, Width32)
        start == [type |-> "Entries", off |-> head, resources |-> <<>>]
        read[k \in 0..count] ==
            IF k = 0 THEN start
            ELSE IF read[k - 1] = Bad THEN Bad
            ELSE ParseEntry(p, read[k - 1])
    IN  IF ~Fits(p, 0, head) \/ ~CountFits(p, head, count) \/ read[count] = Bad THEN Bad
        ELSE [type |-> "ResourceList", request_id |-> Number(p, 0, Width32),
              resources |-> read[count].resources]

ParseHello(p) ==
    IF Len(p) # 2 * KeySize THEN Bad
    ELSE [type |-> "Hello", public_key |-> At(p, 0, KeySize),
          nonce |-> At(p, KeySize, KeySize)]

ParseProof(p) ==
    IF Len(p) # 2 * KeySize THEN Bad ELSE [type |-> "HelloProof", signature |-> p]

ParseListResources(p) ==
    IF Len(p) # Width32 THEN Bad
    ELSE [type |-> "ListResources", request_id |-> Number(p, 0, Width32)]

TryFrom(frame) ==
    LET p == Tail(frame) IN
    CASE frame[1] = 1 -> ParseHello(p)
      [] frame[1] = 2 -> ParseProof(p)
      [] frame[1] = 3 -> ParseListResources(p)
      [] frame[1] = 4 -> ParseList(p)
      [] frame[1] = 5 -> ParseIdAndKey("DownloadResource", p)
      [] frame[1] = 6 -> ParseChunk(p)
      [] frame[1] = 7 -> ParseIdAndKey("ResourceEnd", p)
      [] OTHER -> Bad

-----------------------------------------------------------------------------
(* What parsing and writing promise each other.                            *)

\* A message read from its own frame is that message.
Returns(m) == TryFrom(FrameOf(m)) = m

\* A frame is refused, or it is the frame of the message read from it, of a list
\* with something behind: no byte is read twice, skipped or made up, and no field
\* is read past the end.
ReadAsWritten(frame) ==
    LET m == TryFrom(frame) IN
    \/ m = Bad
    \/ FrameOf(m) = frame
    \/ m.type = "ResourceList" /\ IsStrictPrefix(FrameOf(m), frame)
=============================================================================
