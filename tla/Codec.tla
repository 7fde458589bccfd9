------------------------------- MODULE Codec -------------------------------
(***************************************************************************)
(* One direction of an established connection: LengthPrefixCodec between   *)
(* the writer thread of one end and the reader thread of the other, from   *)
(* messages to messages.  The frame limit is scaled down like the fields   *)
(* of Messages.                                                            *)
(***************************************************************************)
EXTENDS Messages

CONSTANTS
    MaxFrameSize,  \* MAX_FRAME_SIZE
    Items,         \* the messages a writer may be handed, and what a peer that
                   \* is no parsip of this version may write in their place
    MaxSent,       \* how many it is handed
    ProbeMessages, \* messages the parser is tried with
    ProbeFrames    \* and frames of any peer

\* What is written for an item.
Written(m) == IF m.type = "Foreign" THEN m.frame ELSE FrameOf(m)

\* Bug variant: a message the parser accepts is taken in any phase.
AcceptsAny(m) == m # Bad

\* A message of the handshake is a protocol violation here.
Accepts(m) == m # Bad /\ m.type \notin Handshake

ASSUME SizesAssumption == MaxFrameSize \in Nat /\ MaxSent \in Nat
\* An item is a message, or a frame that is none of the session, and the length of
\* its frame fits the prefix: no message of 2^32 bytes is ever built.
ASSUME ItemsAssumption ==
    \A m \in Items :
        /\ \/ m \in Message
           \/ /\ m.type = "Foreign" /\ m.frame \in Seq(Byte) \ {<<>>}
              /\ ~Accepts(TryFrom(m.frame))
        /\ FitsIn(Len(Written(m)), Width32)
ASSUME ProbesAssumption ==
    ProbeMessages \subseteq Message /\ ProbeFrames \subseteq Seq(Byte) \ {<<>>}

VARIABLES
    sent,       \* history: what was handed to the writer
    queue,      \* the writer's channel, frames
    iov,        \* the slices still to write; <<>> between two frames
    writer,     \* "running", "done" (channel closed) or "failed"
    wire,       \* bytes written and not read
    reader,     \* "prefix", "body", "eof" (Ok(None)), "error" or "refused"
    need,       \* the length read from the prefix
    delivered,  \* messages handed to the event loop
    faults      \* history: whether the network or a timeout interfered

writerVars == <<queue, iov, writer>>
readerVars == <<reader, need, delivered>>
vars == <<sent, writerVars, wire, readerVars, faults>>

Init ==
    /\ sent = <<>> /\ queue = <<>> /\ iov = <<>> /\ writer = "running"
    /\ wire = <<>>
    /\ reader = "prefix" /\ need = 0 /\ delivered = <<>>
    /\ faults = FALSE

\* What is left of a slice n bytes further on.
Skip(s, n) == IF n <= 0 THEN s ELSE Rest(s, n)

-----------------------------------------------------------------------------
(* The writer thread.                                                      *)

\* Peer::send queues the frame of a message.
Send(m) ==
    /\ writer = "running"
    /\ Len(sent) < MaxSent
    /\ sent' = Append(sent, m)
    /\ queue' = Append(queue, Written(m))
    /\ UNCHANGED <<iov, writer, wire, readerVars, faults>>

\* encode: prefix, type byte and payload as three slices.
StartFrame ==
    /\ writer = "running"
    /\ iov = <<>>
    /\ queue # <<>>
    /\ LET f == Head(queue) IN iov' = <<U32(Len(f)), <<f[1]>>, Tail(f)>>
    /\ queue' = Tail(queue)
    /\ UNCHANGED <<sent, writer, wire, readerVars, faults>>

Bytes(slices) == slices[1] \o slices[2] \o slices[3]

\* Bug variant: only the first slice is advanced.
AdvanceFirst(slices, n) == <<Skip(slices[1], n), slices[2], slices[3]>>

\* The slices after n bytes were written: the written ones become empty.
Advance(slices, n) ==
    <<Skip(slices[1], n),
      Skip(slices[2], n - Len(slices[1])),
      Skip(slices[3], n - Len(slices[1]) - Len(slices[2]))>>

\* write_vectored takes any number of bytes.
WriteSome ==
    /\ writer = "running"
    /\ iov # <<>>
    /\ LET left == Len(Bytes(iov)) IN
       \E n \in 1..left :
          /\ wire' = wire \o SubSeq(Bytes(iov), 1, n)
          /\ iov' = IF n = left THEN <<>> ELSE Advance(iov, n)
    /\ UNCHANGED <<sent, queue, writer, readerVars, faults>>

\* A write error, or none written: the socket is shut down both ways.
WriteFails ==
    /\ writer = "running"
    /\ iov # <<>>
    /\ writer' = "failed"
    /\ faults' = TRUE
    /\ UNCHANGED <<sent, queue, iov, wire, readerVars>>

\* Bug variant: a dropped sender ends the thread whatever is queued.
WriterDoneEarly ==
    /\ writer = "running"
    /\ iov = <<>>
    /\ writer' = "done"
    /\ UNCHANGED <<sent, queue, iov, wire, readerVars, faults>>

\* The sender was dropped: recv fails once the channel is drained.
WriterDone ==
    /\ writer = "running"
    /\ iov = <<>> /\ queue = <<>>
    /\ writer' = "done"
    /\ UNCHANGED <<sent, queue, iov, wire, readerVars, faults>>

-----------------------------------------------------------------------------
(* The reader thread.                                                      *)

Reading == reader \in {"prefix", "body"}
Wanted == IF reader = "prefix" THEN Width32 ELSE need

ValidLength(n) == n > 0 /\ n <= MaxFrameSize

ReadPrefix ==
    /\ reader = "prefix"
    /\ Len(wire) >= Width32
    /\ LET n == FromBytes(At(wire, 0, Width32)) IN
       /\ need' = n
       /\ reader' = IF ValidLength(n) THEN "body" ELSE "error"
    /\ wire' = Rest(wire, Width32)
    /\ UNCHANGED <<sent, writerVars, delivered, faults>>

\* A message that is refused ends the connection.
ReadBody ==
    /\ reader = "body"
    /\ Len(wire) >= need
    /\ LET m == TryFrom(At(wire, 0, need)) IN
       IF Accepts(m)
       THEN delivered' = Append(delivered, m) /\ reader' = "prefix"
       ELSE reader' = "refused" /\ UNCHANGED delivered
    /\ wire' = Rest(wire, need)
    /\ UNCHANGED <<sent, writerVars, need, faults>>

\* The stream ends early: inside a prefix that counts as its regular end,
\* inside a body it is an error.
ReadEof ==
    /\ Reading
    /\ writer # "running"
    /\ Len(wire) < Wanted
    /\ reader' = IF reader = "prefix" THEN "eof" ELSE "error"
    /\ wire' = <<>>
    /\ UNCHANGED <<sent, writerVars, need, delivered, faults>>

\* A read error, or no byte for 60 s, maybe in the middle of a frame.
ReadFails ==
    /\ Reading
    /\ Len(wire) < Wanted
    /\ reader' = "error"
    /\ faults' = TRUE
    /\ UNCHANGED <<sent, writerVars, wire, need, delivered>>

Writer == StartFrame \/ WriteSome \/ WriteFails
Reader == ReadPrefix \/ ReadBody \/ ReadEof \/ ReadFails

Next == \/ \E m \in Items : Send(m)
        \/ Writer \/ WriterDone \/ Reader

Spec == Init /\ [][Next]_vars

\* Both threads run.
FairSpec == Spec /\ WF_vars(Writer) /\ WF_vars(Reader)

-----------------------------------------------------------------------------
(* Properties.                                                             *)

\* What the event loop of the other end may be given.
Session == {m \in Items : m.type \notin Handshake \cup {"Foreign"}}

\* The type invariant.
TypeOK ==
    /\ sent \in Seq(Items) /\ delivered \in Seq(Session)
    /\ \A k \in DOMAIN queue : \E m \in Items : queue[k] = Written(m)
    /\ writer \in {"running", "done", "failed"}
    /\ wire \in Seq(Byte)
    /\ reader \in {"prefix", "body", "eof", "error", "refused"}
    /\ FitsIn(need, Width32)
    /\ faults \in BOOLEAN

\* Messages survive the way to their frame and back, up to the bounds of every
\* field and of the entry count; and a frame of any peer is refused or read as
\* exactly what its bytes say, truncated, empty-named and miscounted lists too.
ParserInvertsWriter ==
    /\ \A m \in ProbeMessages : Returns(m)
    /\ \A f \in ProbeFrames : ReadAsWritten(f)

\* Both ends of a connection stay within their types, and the parser between
\* them is the inverse of the writer.
CodecInv == TypeOK /\ ParserInvertsWriter

\* However the kernel splits writes, and wherever a write or a read fails, the
\* messages the event loop is given are those sent, whole, in order and once,
\* and nothing of, or after, a frame that is none of the session.
Channel == INSTANCE MessageChannel WITH over <- ~Reading
ImplementsMessageChannel == Channel!Spec

\* A frame queued before the sender is dropped is not lost by an orderly close:
\* the reader that gets Ok(None) from it has had them all.
CleanCloseLosesNothing ==
    (reader = "eof" /\ writer = "done") => delivered = sent

\* A message is delivered unless the network fails, or a frame up to it is over
\* the limit, which the sender does not check, or is not of the session.
MessagesArrive ==
    \A k \in 1..MaxSent :
        Len(sent) >= k ~>
            \/ Len(delivered) >= k \/ faults
            \/ \E i \in 1..k \cap DOMAIN sent :
                  \/ Len(Written(sent[i])) > MaxFrameSize
                  \/ sent[i] \notin Session
=============================================================================
