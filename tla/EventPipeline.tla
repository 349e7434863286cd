---------------------------- MODULE EventPipeline ----------------------------
(***************************************************************************)
(* The pipeline between a response body and a stream decoder               *)
(* (transport/stream.rs): with_idle_timeout over the chunks, frame_stream  *)
(* over a Framer, bound_event_data over its events.                        *)
(*                                                                         *)
(* This module has what the two framers share.  A byte is whatever the     *)
(* framer can tell apart, and SizeOf says how many real bytes it stands    *)
(* for.  Bytes arrive one at a time and become a chunk at any moment, so   *)
(* every way to split a body into chunks is covered.                       *)
(***************************************************************************)
EXTENDS Integers, SequencesExt

CONSTANTS Limits,     \* pairs of a frame limit and an output limit
          MaxBytes    \* bounds the body, in units of the framer's alphabet

ASSUME PipelineAssumption ==
    /\ \A l \in Limits : l.frame \in Nat /\ l.output \in Nat
    /\ MaxBytes \in Nat

VARIABLES
    limits,      \* ResponseLimits: frame and output
    received,    \* every byte the body has delivered
    chunk,       \* bytes of the current chunk that were not framed yet
    framer,      \* the state of the Framer
    step,        \* what the pipeline does
    batch,       \* results of the current chunk that were not polled yet
    closed,      \* scan's ended flag, or the flush behind the last chunk
    used,        \* bound_event_data's used
    out          \* the events and the error that reached the decoder

vars == <<limits, received, chunk, framer, step, batch, closed, used, out>>

Err(e) == [type |-> "Err", error |-> e]

IsErr(x) == x.type = "Err"

\* The sum of the first n of a sequence of numbers.
SumUpTo(numbers, n) ==
    LET sum[i \in 0..n] == IF i = 0 THEN 0 ELSE sum[i - 1] + numbers[i]
    IN  sum[n]

SharedInit ==
    /\ limits \in Limits
    /\ received = <<>> /\ chunk = <<>>
    /\ step = "Reading" /\ batch = <<>> /\ closed = FALSE
    /\ used = 0 /\ out = <<>>

----------------------------------------------------------------------------
(* The body and the idle timer *)

\* One more byte of the chunk that is on its way.
Arrive(b) ==
    /\ step = "Reading" /\ Len(received) < MaxBytes
    /\ chunk' = Append(chunk, b)
    /\ received' = Append(received, b)
    /\ UNCHANGED <<limits, framer, step, batch, closed, used, out>>

\* The chunk is handed to Framer::push.
Push ==
    /\ step = "Reading" /\ chunk # <<>>
    /\ step' = "Framing"
    /\ UNCHANGED <<limits, received, chunk, framer, batch, closed, used, out>>

\* A read fails, or the idle timer fires.  Either is the last chunk.
ReadFails ==
    /\ step = "Reading" /\ chunk = <<>>
    /\ \E e \in {"Network", "Idle"} : batch' = <<Err(e)>>
    /\ step' = "Yielding" /\ closed' = TRUE
    /\ UNCHANGED <<limits, received, chunk, framer, used, out>>

----------------------------------------------------------------------------
(* frame_stream and bound_event_data *)

\* Mutant: every event is compared with the limit on its own.
DeliverUncounted ==
    /\ step = "Yielding" /\ batch # <<>>
    /\ LET x == Head(batch)
           fits == IsErr(x) \/ x.size <= limits.output IN
       /\ out' = Append(out, IF fits THEN x ELSE Err("OutputLimit"))
       /\ IF fits /\ ~IsErr(x)
          THEN step' = step /\ batch' = Tail(batch) /\ used' = used
          ELSE step' = "Over" /\ batch' = <<>> /\ used' = used
    /\ UNCHANGED <<limits, received, chunk, framer, closed>>

\* The decoder polls one result.  An error ends the stream.
Deliver ==
    /\ step = "Yielding" /\ batch # <<>>
    /\ LET x == Head(batch)
           fits == IsErr(x) \/ x.size <= limits.output - used IN
       /\ out' = Append(out, IF fits THEN x ELSE Err("OutputLimit"))
       /\ IF fits /\ ~IsErr(x)
          THEN step' = step /\ batch' = Tail(batch) /\ used' = used + x.size
          ELSE step' = "Over" /\ batch' = <<>> /\ used' = used
    /\ UNCHANGED <<limits, received, chunk, framer, closed>>

\* All results of the chunk were polled.
NextChunk ==
    /\ step = "Yielding" /\ batch = <<>>
    /\ step' = IF closed THEN "Over" ELSE "Reading"
    /\ UNCHANGED <<limits, received, chunk, framer, batch, closed, used, out>>

Over == step = "Over" /\ UNCHANGED vars

Shared == Push \/ ReadFails \/ Deliver \/ NextChunk \/ Over

----------------------------------------------------------------------------
(* What a framer's push and finish do to the pipeline *)

\* The loop of push goes on with rest; it found result, or nothing yet.
Found(rest, result) ==
    /\ chunk' = rest
    /\ batch' = batch \o result
    /\ UNCHANGED <<limits, received, step, closed, used, out>>

\* An error is pushed; neither the framer nor scan looks at another byte.
Fails(e) ==
    /\ batch' = Append(batch, Err(e))
    /\ chunk' = <<>> /\ step' = "Yielding" /\ closed' = TRUE
    /\ UNCHANGED <<limits, received, used, out>>

\* push returns what it found.
Returns ==
    /\ chunk' = <<>> /\ step' = "Yielding"
    /\ UNCHANGED <<limits, received, batch, closed, used, out>>

\* The body ended: finish is called once, and its results are the last.
Flushes(results) ==
    /\ step = "Reading" /\ chunk = <<>>
    /\ batch' = results
    /\ step' = "Yielding" /\ closed' = TRUE
    /\ UNCHANGED <<limits, received, chunk, used, out>>

----------------------------------------------------------------------------
(* The reference: what bound_event_data makes of a list of results *)

\* The size of the first n of a list of events and errors.
SizeUpTo(items, n) ==
    SumUpTo([i \in DOMAIN items |-> IF IsErr(items[i]) THEN 0 ELSE items[i].size], n)

\* Events as long as they fit, then the error that comes first.
WithinOutput(items) ==
    LET Bad(i) == IsErr(items[i]) \/ SizeUpTo(items, i) > limits.output
        bad == {i \in DOMAIN items : Bad(i)}
        first == CHOOSE i \in bad : \A j \in bad : i <= j
    IN IF bad = {} THEN items
       ELSE Append(SubSeq(items, 1, first - 1),
                   IF IsErr(items[first]) THEN items[first] ELSE Err("OutputLimit"))

----------------------------------------------------------------------------
(* Properties *)

\* The events that reach the decoder fit the output limit together.
DeliveredWithinLimit == SizeUpTo(out, Len(out)) <= limits.output

=============================================================================
