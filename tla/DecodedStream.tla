--------------------------- MODULE DecodedStream ----------------------------
(***************************************************************************)
(* The driver of the stream decoders (decode_stream and finish_stream of   *)
(* providers/mod.rs): one decoder over the events of one transport stream. *)
(*                                                                         *)
(* The transport is as unreliable as the property tests of                 *)
(* providers/decoder_properties.rs assume: the events of a protocol come   *)
(* in any order and number, and the stream ends or breaks anywhere.  So    *)
(* the decoder modules, which extend this one, define the wire events of   *)
(* their protocol and what each does, and every event may come at every    *)
(* step.  Unless the stream is the telling of one document: then its       *)
(* events come in their order, and none is lost.                           *)
(***************************************************************************)
EXTENDS StreamAssembler, Naturals

CONSTANTS Codecs,       \* the codecs that a stream may be decoded by
          Frag,         \* fragments of text, arguments or opaque data
          MaxIndex,     \* bounds the indexes and item ids on the wire
          MaxWire       \* bounds the events of a transport stream

ASSUME DriverAssumption == MaxIndex \in Nat /\ MaxWire \in Nat

VARIABLES
    codec,      \* which StreamDecoder is driven
    asm,        \* the decoder's StreamAssembler
    own,        \* the decoder's own fields
    over,       \* the driver reads no further event
    wire,       \* the number of events read
    exchange    \* the events that are to come, and the answer they tell

vars == <<codec, asm, own, over, wire, exchange>>

Index == 0..MaxIndex

Texts == {<<f>> : f \in Frag}

MaybeText == Texts \cup {<<>>}

\* The reasons a provider gives.  ToolCall stands for the others too.
Reasons == {"Stop", "ToolCall", "Length"}

MaybeReason == {"None"} \cup Reasons

\* The payload of a redacted reasoning block, which nobody but the provider reads.
Sealed == <<"sealed">>

\* The block id of a protocol that numbers its blocks.
IndexId(n) == <<"index", n>>

BlockIds == {IndexId(n) : n \in Index}

\* What an event says besides: how the answer ends, and usage.
Reported(a, reason) == IF reason = "None" THEN a ELSE SetFinish(a, reason)

Counted(a, counted) == IF counted THEN Usage(a) ELSE a

\* Rate limits of the response headers lead the stream.
InitStream ==
    /\ asm \in {New, Usage(New)}
    /\ over = FALSE
    /\ wire = 0

\* The stream may be the telling of one document, event by event.
Planned == exchange.events # <<>>

\* The events that codec c may read next, of all that its protocol has.
Upcoming(c, protocol) ==
    IF codec # c \/ over THEN {}
    ELSE IF Planned THEN {exchange.events[i] : i \in {wire + 1} \cap DOMAIN exchange.events}
    ELSE IF wire < MaxWire THEN protocol
    ELSE {}

\* decode answers with events; a batch that has Ended in it is the last one.
Decode(a, o) ==
    /\ asm' = a /\ own' = o
    /\ over' = a.completed
    /\ wire' = wire + 1
    /\ UNCHANGED <<codec, exchange>>

\* decode answers with an error, and the events of this step are lost.
Fail ==
    /\ asm' = Emit(asm, Err("Decode"))
    /\ over' = TRUE
    /\ UNCHANGED <<codec, own, wire, exchange>>

\* The transport of codec c ends without an error.
Ends(c) == codec = c /\ ~over /\ wire >= Len(exchange.events)

\* What finish answers is the last batch.
Finish(a) ==
    /\ asm' = a
    /\ over' = TRUE
    /\ UNCHANGED <<codec, own, wire, exchange>>

\* A transport error, or an event that carries an error or cannot be parsed.
Broken ==
    /\ ~over /\ ~Planned
    /\ asm' = Emit(asm, Err("Transport"))
    /\ over' = TRUE
    /\ UNCHANGED <<codec, own, wire, exchange>>

Over == over /\ UNCHANGED vars
=============================================================================
