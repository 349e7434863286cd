-------------------------- MODULE AnthropicStream ---------------------------
(***************************************************************************)
(* AnthropicStreamDecoder (codecs/anthropic/stream.rs): blocks are known   *)
(* by their index and announced by a start event.  Its own field opaque    *)
(* holds what server-side blocks have streamed of their input.             *)
(***************************************************************************)
EXTENDS DecodedStream

AnthropicNew == [opaque |-> <<>>]

Anthropic(a) == Decode(a, own)

\* The content blocks of a message, whose text member has one of these texts.
\* The input of a call and of a server-side block is its text.
MessageBlocks(texts) ==
         [type : {"text"}, text : texts]
    \cup [type : {"thinking"}, text : texts, signed : BOOLEAN]
    \cup [type : {"redacted_thinking"}]
    \cup [type : {"tool_use"}, text : texts, named : BOOLEAN]
    \cup [type : {"server_tool_use"}, text : texts]

\* A block starts with a snapshot of it; a call has no input then.
Snapshots ==
    {block \in MessageBlocks(MaybeText) :
        block.type \in {"tool_use", "server_tool_use"} => block.text = <<>>}

AnthropicEvents ==
         [type : {"message_start"}, counted : BOOLEAN]
    \cup [type : {"content_block_start"}, id : BlockIds, block : Snapshots]
    \cup [type : {"text_delta", "thinking_delta", "input_json_delta"},
          id : BlockIds, text : MaybeText]
    \cup [type : {"signature_delta"}, id : BlockIds]
    \cup [type : {"content_block_stop"}, id : BlockIds, signed : BOOLEAN, parses : BOOLEAN]
    \cup [type : {"message_delta"}, reason : MaybeReason \cup {"Refusal"}, counted : BOOLEAN]
    \cup [type : {"message_stop", "ping"}]

\* Mutant: what the snapshot holds is taken without telling the caller.
SeedSilently(a, id, shape, seed) ==
    IF seed # <<>> /\ OpenAs(a, id, shape) THEN Grow(a, id, seed) ELSE a

Seed(a, id, shape, seed) ==
    IF seed = <<>> THEN a
    ELSE IF shape = "Text" THEN Text(a, id, seed)
    ELSE Reasoning(a, id, seed)

\* content_block_start, with what the snapshot already holds.
StartBlock(id, block) ==
    \/ /\ block.type = "text"
       /\ Anthropic(Seed(Start(asm, id, "Text"), id, "Text", block.text))
    \/ /\ block.type = "thinking"
       /\ LET a == Start(asm, id, "Reasoning")
          IN  Anthropic(Seed(IF block.signed THEN Signature(a, id) ELSE a,
                             id, "Reasoning", block.text))
    \/ /\ block.type = "redacted_thinking"
       /\ Anthropic(Reasoning(SetRedacted(Start(asm, id, "Reasoning"), id), id, Sealed))
    \/ /\ block.type = "tool_use"
       /\ Anthropic(Start(asm, id, IF block.named THEN "Call" ELSE "NamelessCall"))
    \/ /\ block.type = "server_tool_use"
       /\ Decode(SetOpaqueData(Start(asm, id, "Opaque"), id, <<"snapshot">>),
                 [opaque |-> [i \in DOMAIN own.opaque \cup {id} |->
                                 IF i = id THEN <<>> ELSE own.opaque[i]]])

\* Mutant: fragments are taken whether or not their call was announced.
InputDeltaUnannounced(id, text) ==
    IF id \in DOMAIN own.opaque
    THEN Decode(asm, [opaque |-> [own.opaque EXCEPT ![id] = @ \o text]])
    ELSE Anthropic(Arguments(asm, id, text))

\* A fragment goes to the server-side block that streams its input, or to an
\* announced call; a lost announcement fails the stream.
InputDelta(id, text) ==
    IF id \in DOMAIN own.opaque
    THEN Decode(asm, [opaque |-> [own.opaque EXCEPT ![id] = @ \o text]])
    ELSE IF AnnouncedCall(asm, id) THEN Anthropic(Arguments(asm, id, text))
    ELSE Fail

BlockDelta(e) ==
    \/ e.type = "signature_delta" /\ Anthropic(Signature(asm, e.id))
    \/ e.type = "text_delta" /\ Anthropic(Text(asm, e.id, e.text))
    \/ e.type = "thinking_delta" /\ Anthropic(Reasoning(asm, e.id, e.text))
    \/ e.type = "input_json_delta" /\ InputDelta(e.id, e.text)

\* Server-side blocks among ids that have streamed something.
Streamed(ids) == {id \in ids \cap DOMAIN own.opaque : own.opaque[id] # <<>>}

\* flush_opaque of the blocks whose input parses.  They are all known: their
\* own start event has opened them unless they were open before.
Flush(a, parsing) ==
    [a EXCEPT !.blocks = [id \in DOMAIN @ |->
        IF id \in parsing /\ OpenAs(a, id, "Opaque")
        THEN [@[id] EXCEPT !.text = own.opaque[id]]
        ELSE @[id]]]

\* content_block_stop, which some dialects sign the block on.
BlockStop(id, signed, parses) ==
    LET a == IF signed THEN Signature(asm, id) ELSE asm
    IN  Decode(End(Flush(a, IF parses THEN Streamed({id}) ELSE {}), id),
               [opaque |-> [i \in DOMAIN own.opaque \ {id} |-> own.opaque[i]]])

\* message_delta; a refusal fails the stream.
MessageDelta(reason, counted) ==
    IF reason = "Refusal" THEN Fail
    ELSE Anthropic(Counted(Reported(asm, reason), counted))

AnthropicEnds ==
    /\ Ends("anthropic")
    /\ \E parsing \in SUBSET Streamed(DOMAIN own.opaque) :
        Finish(Complete(Flush(asm, parsing)))

AnthropicEvent(e) ==
    \/ e.type = "message_start" /\ Anthropic(Counted(Started(asm), e.counted))
    \/ e.type = "content_block_start" /\ StartBlock(e.id, e.block)
    \/ BlockDelta(e)
    \/ e.type = "content_block_stop" /\ BlockStop(e.id, e.signed, e.parses)
    \/ e.type = "message_delta" /\ MessageDelta(e.reason, e.counted)
    \/ e.type = "message_stop" /\ Anthropic(Complete(asm))
    \/ e.type = "ping" /\ Anthropic(asm)      \* or an event of another type

AnthropicNext ==
    \/ \E e \in Upcoming("anthropic", AnthropicEvents) : AnthropicEvent(e)
    \/ AnthropicEnds
=============================================================================
