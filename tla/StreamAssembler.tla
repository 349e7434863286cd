-------------------------- MODULE StreamAssembler ---------------------------
(***************************************************************************)
(* The StreamAssembler that every stream decoder owns                      *)
(* (codecs/assembler.rs).  Each operator is one of its methods: it takes   *)
(* the assembler to the assembler after the call, which has appended the   *)
(* events the method returns to out.                                       *)
(*                                                                         *)
(* Text, reasoning, arguments and opaque data are sequences of fragments.  *)
(* Warnings, costs, ids and the raw document are left out.                 *)
(***************************************************************************)
EXTENDS StreamContract, SequencesExt

\* What a block holds.  A tool call that never had a name is told apart.
Kinds == {"Text", "Reasoning", "Call", "NamelessCall", "Opaque"}

IsCall(kind) == kind \in {"Call", "NamelessCall"}

\* BlockShape::matches
Fits(shape, kind) == IF shape = "Call" THEN IsCall(kind) ELSE kind = shape

New ==
    [blocks    |-> <<>>,        \* the known blocks, open and closed, by id
     opened    |-> <<>>,        \* the ids of the open ones, oldest first
     parts     |-> <<>>,        \* assembled parts, in closing order
     finish    |-> "None",      \* the recorded finish reason
     started   |-> FALSE,
     completed |-> FALSE,
     out       |-> <<>>]        \* the events of all calls so far

Known(a, id) == id \in DOMAIN a.blocks

IsOpen(a, id) == Known(a, id) /\ a.blocks[id].open

OpenAs(a, id, shape) == IsOpen(a, id) /\ Fits(shape, a.blocks[id].kind)

Emit(a, event) == [a EXCEPT !.out = Append(@, event)]

----------------------------------------------------------------------------
(* Opening *)

\* Mutant: an id that closed may open again.
OpenAgain(a, id, kind, announced) ==
    IF IsOpen(a, id) THEN a
    ELSE [a EXCEPT
        !.blocks = [i \in DOMAIN @ \cup {id} |->
            IF i # id THEN @[i]
            ELSE [kind |-> kind, announced |-> announced, open |-> TRUE,
                  text |-> <<>>, redacted |-> FALSE, signed |-> FALSE]],
        !.opened = Append(@, id),
        !.out = Append(@, [type |-> "BlockStart", id |-> id, kind |-> kind])]

\* open_block_with: an id that is known, open or closed, is left alone.
Open(a, id, kind, announced) ==
    IF Known(a, id) THEN a
    ELSE [a EXCEPT
        !.blocks = [i \in DOMAIN @ \cup {id} |->
            IF i # id THEN @[i]
            ELSE [kind |-> kind, announced |-> announced, open |-> TRUE,
                  text |-> <<>>, redacted |-> FALSE, signed |-> FALSE]],
        !.opened = Append(@, id),
        !.out = Append(@, [type |-> "BlockStart", id |-> id, kind |-> kind])]

Start(a, id, kind) == Open(a, id, kind, TRUE)

Latch(a, id, kind) == Open(a, id, kind, FALSE)

AnnouncedCall(a, id) ==
    Known(a, id) /\ a.blocks[id].announced /\ IsCall(a.blocks[id].kind)

HasCall(a) == \E id \in DOMAIN a.blocks : IsCall(a.blocks[id].kind)

----------------------------------------------------------------------------
(* Filling *)

Grow(a, id, text) == [a EXCEPT !.blocks[id].text = @ \o text]

DeltaOf(id, shape, text) ==
    [type |-> "Delta", id |-> id, shape |-> shape, text |-> text]

\* What text, reasoning and arguments do with an open block of their shape.
\* A sealed reasoning block takes its payload without an event.
AppendTo(a, id, shape, text) ==
    IF ~OpenAs(a, id, shape) THEN a
    ELSE IF shape = "Reasoning" /\ a.blocks[id].redacted THEN Grow(a, id, text)
    ELSE Emit(Grow(a, id, text), DeltaOf(id, shape, text))

Text(a, id, text) == AppendTo(Latch(a, id, "Text"), id, "Text", text)

Reasoning(a, id, text) ==
    AppendTo(Latch(a, id, "Reasoning"), id, "Reasoning", text)

Arguments(a, id, text) ==
    AppendTo(Latch(a, id, "NamelessCall"), id, "Call", text)

\* A change of an open block that no event tells of.
Mark(a, id, field, value) ==
    IF IsOpen(a, id) THEN [a EXCEPT !.blocks[id][field] = value] ELSE a

Signature(a, id) == Mark(Latch(a, id, "Reasoning"), id, "signed", TRUE)

SetRedacted(a, id) == Mark(Latch(a, id, "Reasoning"), id, "redacted", TRUE)

\* Only the part of an opaque block shows its data.
SetOpaqueData(a, id, data) ==
    LET b == Latch(a, id, "Opaque")
    IN  IF OpenAs(b, id, "Opaque") THEN Mark(b, id, "text", data) ELSE b

\* The metadata itself is left out.
ProviderMetadata(a, id) == Latch(a, id, "NamelessCall")

RepairIdentity(a, id, kind) ==
    IF OpenAs(a, id, "Call") THEN Mark(a, id, "kind", kind) ELSE a

ShapeOf(kind) == IF IsCall(kind) THEN "Call" ELSE kind

\* What text lacks of the whole, if it is a prefix of it (str::strip_prefix).
Missing(text, whole) == {tail \in Suffixes(whole) : text \o tail = whole}

\* Mutant: a buffer that disagrees with the whole is left as it is.
ReconcileTailOnly(a, id, kind, whole) ==
    LET b == Latch(a, id, kind)
        block == b.blocks[id]
        missing == Missing(block.text, whole)
    IN  IF ~block.open \/ block.text = whole \/ block.kind = "Opaque" \/ missing = {} THEN b
        ELSE AppendTo(b, id, ShapeOf(block.kind), CHOOSE tail \in missing : TRUE)

\* reconcile: the missing tail is a delta; a buffer that is not a prefix of the
\* whole is replaced without one.
Reconcile(a, id, kind, whole) ==
    LET b == Latch(a, id, kind)
        block == b.blocks[id]
        missing == Missing(block.text, whole)
    IN  IF ~block.open \/ block.text = whole \/ block.kind = "Opaque" THEN b
        ELSE IF missing = {} THEN Mark(b, id, "text", whole)
        ELSE AppendTo(b, id, ShapeOf(block.kind), CHOOSE tail \in missing : TRUE)

----------------------------------------------------------------------------
(* Closing *)

\* Block::into_part
PartOf(block) ==
    [kind     |-> block.kind,
     text     |-> block.text,
     redacted |-> block.kind = "Reasoning" /\ block.redacted,
     signed   |-> block.kind = "Reasoning" /\ block.signed]

BlockEndOf(a, id) == [type |-> "BlockEnd", id |-> id, part |-> PartOf(a.blocks[id])]

End(a, id) ==
    IF ~IsOpen(a, id) THEN a
    ELSE [a EXCEPT
        !.blocks[id].open = FALSE,
        !.opened = RemoveFirst(@, id),
        !.parts = Append(@, PartOf(a.blocks[id])),
        !.out = Append(@, BlockEndOf(a, id))]

\* discard: the block ends, and is forgotten together with its part.
Discard(a, id) ==
    IF ~IsOpen(a, id) THEN a
    ELSE [a EXCEPT
        !.blocks = [i \in DOMAIN @ \ {id} |-> @[i]],
        !.opened = RemoveFirst(@, id),
        !.out = Append(@, BlockEndOf(a, id))]

----------------------------------------------------------------------------
(* The response *)

Started(a) ==
    IF a.started THEN a
    ELSE Emit([a EXCEPT !.started = TRUE], [type |-> "Started"])

\* usage, merge_usage
Usage(a) == Emit(a, [type |-> "Accounting"])

SetFinish(a, reason) == [a EXCEPT !.finish = reason]

\* promote_tool_finish (codecs/content.rs)
Promoted(reason, calls) == IF reason = "Stop" /\ calls THEN "ToolCall" ELSE reason

\* Response::is_unfinished, and suppress_unfinished_tool_calls
Unfinished(reason) == reason \in {"Length", "Incomplete"}

Answerable(parts, reason) ==
    IF Unfinished(reason) THEN SelectSeq(parts, LAMBDA part : ~IsCall(part.kind))
    ELSE parts

\* Mutant: the calls of a truncated response stay in it.
CompleteWithCutCalls(a) ==
    LET ends   == [i \in DOMAIN a.opened |-> BlockEndOf(a, a.opened[i])]
        parts  == a.parts \o [i \in DOMAIN ends |-> ends[i].part]
        reason == IF a.finish = "None" THEN "Incomplete" ELSE a.finish
    IN  IF a.completed THEN a
        ELSE [a EXCEPT
            !.completed = TRUE,
            !.blocks = [id \in DOMAIN @ |-> [@[id] EXCEPT !.open = FALSE]],
            !.opened = <<>>,
            !.parts = parts,
            !.out = @ \o Append(ends, [type |-> "Ended", finish |-> reason, content |-> parts])]

\* complete: close what is open, oldest first, then Ended; once.
Complete(a) ==
    LET ends   == [i \in DOMAIN a.opened |-> BlockEndOf(a, a.opened[i])]
        parts  == a.parts \o [i \in DOMAIN ends |-> ends[i].part]
        reason == IF a.finish = "None" THEN "Incomplete" ELSE a.finish
    IN  IF a.completed THEN a
        ELSE [a EXCEPT
            !.completed = TRUE,
            !.blocks = [id \in DOMAIN @ |-> [@[id] EXCEPT !.open = FALSE]],
            !.opened = <<>>,
            !.parts = parts,
            !.out = @ \o Append(ends, [type |-> "Ended", finish |-> reason,
                                       content |-> Answerable(parts, reason)])]
=============================================================================
