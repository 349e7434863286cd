------------------------- MODULE EventStreamFraming -------------------------
(***************************************************************************)
(* EventStreamFramer (transport/event_stream.rs): one step per turn of the *)
(* loop in extract_frames_with_limit.  A frame is a record of what the     *)
(* decoder finds out about it, in the order it does, and a byte is a frame *)
(* and a position in it.  Lengths are scaled: Prelude and Crc units for 12 *)
(* and 4 bytes.                                                            *)
(***************************************************************************)
EXTENDS EventPipeline, FiniteSetsExt

CONSTANTS Frames,       \* the frames that occur in one body
          Prelude,      \* PRELUDE_LENGTH
          Crc,          \* MESSAGE_CRC_LENGTH
          MaxFrame      \* MAX_FRAME_LENGTH

\* A frame's fields: do its checksums match, the two lengths it declares, do
\* its headers and its payload decode, is it a failure, the event's size.
FrameFields ==
    {"preludeOk", "total", "headers", "crcOk", "decodes", "failure", "size"}

ASSUME FrameAssumption ==
    /\ Prelude \in Nat \ {0} /\ Crc \in Nat \ {0} /\ MaxFrame \in Nat
    /\ \A f \in Frames : DOMAIN f = FrameFields /\ f.total \in Nat /\ f.size \in Nat

\* EventStreamFramer::new
AwsInit == SharedInit /\ framer = <<>>

----------------------------------------------------------------------------
(* What a body can be: frames one after the other.  One whose lengths cannot *)
(* be believed is followed by anything; nothing behind its prelude is read.  *)

\* Mutant: a frame may be larger than the limit.
TrustedUnlimited(f) ==
    /\ f.preludeOk
    /\ f.total \in (Prelude + Crc)..MaxFrame
    /\ f.headers <= f.total - Prelude - Crc

\* The checks made on a prelude before a frame is awaited.
Trusted(f) ==
    /\ f.preludeOk
    /\ f.total <= limits.frame
    /\ f.total \in (Prelude + Crc)..MaxFrame
    /\ f.headers <= f.total - Prelude - Crc

PreludeError(f) == IF f.preludeOk /\ f.total > limits.frame THEN "FrameLimit" ELSE "Decode"

\* The bytes that may follow what was received.
NextBytes ==
    LET last == Last(received)
    IN IF received = <<>> \/ (last[2] = last[1].total /\ last[2] >= Prelude)
       THEN {<<f, 1>> : f \in Frames}
       ELSE {<<last[1], last[2] + 1>>}

----------------------------------------------------------------------------
(* extract_frames_with_limit and EventStreamFramer::push *)

\* into_event, behind the frame's own checksum and its headers.
Decoded(f) ==
    CASE ~f.crcOk \/ ~f.decodes -> Err("Decode")
      [] f.crcOk /\ f.decodes /\ f.failure -> Err("Provider")
      [] OTHER -> [type |-> "Event", frame |-> f, size |-> f.size]

\* push first adds the chunk to the buffer.
Buffer == framer \o chunk

\* Mutant: a prelude is looked at when the frame it declares is there.
ReadyWhenWhole(f) == Len(Buffer) >= Max({Prelude, f.total})

\* A prelude is looked at as soon as it is there.
Ready(f) == Len(Buffer) >= Prelude

Behind(f) == SubSeq(Buffer, f.total + 1, Len(Buffer))

\* The first error clears the buffer and ends framing.
Fail(e) == framer' = <<>> /\ Fails(e)

AwsTurn ==
    /\ step = "Framing"
    /\ LET f == Head(Buffer)[1] IN
       \/ /\ Buffer = <<>> \/ ~Ready(f)
          /\ framer' = Buffer /\ Returns
       \/ /\ Buffer # <<>> /\ Ready(f) /\ ~Trusted(f)
          /\ Fail(PreludeError(f))
       \/ /\ Buffer # <<>> /\ Ready(f) /\ Trusted(f)
          /\ \/ Len(Buffer) < f.total /\ framer' = Buffer /\ Returns
             \/ Len(Buffer) >= f.total /\ IsErr(Decoded(f)) /\ Fail(Decoded(f).error)
             \/ /\ Len(Buffer) >= f.total /\ ~IsErr(Decoded(f))
                /\ framer' = Behind(f)
                /\ Found(<<>>, <<Decoded(f)>>)

\* finish: the protocol has no frame to flush; a cut frame is dropped.
AwsFinish == Flushes(<<>>) /\ UNCHANGED framer

AwsNext ==
    \/ AwsTurn \/ AwsFinish \/ Shared
    \/ \E b \in NextBytes : Arrive(b)

AwsSpec == AwsInit /\ [][AwsNext]_vars

----------------------------------------------------------------------------
(* The reference: the results of a whole body *)

\* Where the frames of b begin, and the positions where each is decided: a bad
\* prelude as soon as it is there, a good frame at its last byte.
Starts(b) == {i \in DOMAIN b : b[i][2] = 1}

DecidedAt(b, i) == i - 1 + IF Trusted(b[i][1]) THEN b[i][1].total ELSE Prelude

ResultAt(b, i) ==
    IF Trusted(b[i][1]) THEN Decoded(b[i][1]) ELSE Err(PreludeError(b[i][1]))

\* Frames count up to the first that fails.
Parsed(b) ==
    LET decided == {i \in Starts(b) : DecidedAt(b, i) <= Len(b)}
        read == {i \in decided : \A j \in decided : j < i => ~IsErr(ResultAt(b, j))}
        order == SetToSortSeq(read, <)
    IN [k \in DOMAIN order |-> ResultAt(b, order[k])]

----------------------------------------------------------------------------
(* Properties *)

\* However the body was split into chunks, the decoder gets the frames that
\* the whole body has, up to the first error: what a caller receives never
\* depends on how the bytes were split (doc of EventStreamFramer).  A frame
\* whose prelude is corrupt fails at once; its length is never waited for.
ChunkingInvisible ==
    LET framed == Parsed(received)
        broken == {Append(framed, Err(e)) : e \in {"Network", "Idle"}}
    IN /\ step = "Reading" /\ chunk = <<>> => out = WithinOutput(framed)
       /\ step = "Over" =>
             \/ out = WithinOutput(framed)
             \/ \E items \in broken : out = WithinOutput(items)

\* Between two chunks less than one frame is held, and no more than the limit.
HeldWithinLimit ==
    step = "Reading" => Len(framer) < Prelude \/ Len(framer) < limits.frame

=============================================================================
