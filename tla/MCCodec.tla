------------------------------ MODULE MCCodec ------------------------------
(***************************************************************************)
(* Codec with eight-valued bytes, a u32 of two and a u64, a key of one of  *)
(* them and a limit of nine: frames from four bytes to one over the limit. *)
(***************************************************************************)
EXTENDS Codec

Info(id, name, size) == [id |-> <<id>>, name |-> name, size |-> size]
List(infos) == [type |-> "ResourceList", request_id |-> 9, resources |-> infos]

MCItems ==
    {[type |-> "ListResources", request_id |-> 8],
     [type |-> "ResourceEnd", request_id |-> 1, id |-> <<7>>],
     List(<<Info(2, <<>>, 1)>>),      \* as long as a frame may be
     List(<<Info(2, <<1>>, 1)>>),     \* a byte longer
     [type |-> "HelloProof", signature |-> <<1, 2>>],
     [type |-> "Foreign", frame |-> <<3, 1>>],
     [type |-> "Foreign", frame |-> <<0, 0, 0>>]}

SomeInfos == [id : {<<0>>, <<7>>}, name : SeqOf({0, 1}, 2), size : {0, 7}]
Bytes012 == SeqOf({0, 1, 2}, 6)

\* Messages of every type with fields at the ends of their ranges, among them the
\* lists of up to two entries with names from empty on.
MCMessages ==
    [type : {"Hello"}, public_key : {<<0>>, <<7>>}, nonce : {<<0>>, <<7>>}]
    \cup [type : {"HelloProof"}, signature : {<<0, 0>>, <<7, 0>>}]
    \cup [type : {"ListResources"}, request_id : 0..63]
    \cup [type : {"ResourceList"}, request_id : {0, 63}, resources : SeqOf(SomeInfos, 2)]
    \cup [type : {"DownloadResource", "ResourceEnd"}, request_id : {0, 63}, id : {<<5>>}]
    \cup [type : {"ResourceChunk"}, request_id : {0, 63}, id : {<<5>>}, offset : 0..7,
          data : SeqOf({0, 7}, 2)]

\* Every payload of up to six small bytes behind every type byte, and every list
\* that announces one or two entries in as many more of them.
MCFrames ==
    {<<t>> \o p : t \in 0..7, p \in Bytes012}
    \cup {<<4, 0, 0, 0, n>> \o p : n \in {1, 2}, p \in Bytes012}

\* An integer fits a width if it is less than the power.
ASSUME FitsInAssumption ==
    \A n \in 0..(2 * Base^Width32) : FitsIn(n, Width32) <=> n < Base^Width32
=============================================================================
