----------------------------- MODULE ChatStream -----------------------------
(***************************************************************************)
(* ChatStreamDecoder (codecs/openai_chat/stream.rs).  The protocol has no  *)
(* blocks: the decoder makes up their ids.  Its own fields: the structured *)
(* reasoning so far, the tool-call slots and whether they have a name, and *)
(* whether the model has begun to refuse.                                  *)
(*                                                                         *)
(* A chunk may carry several members, each of which goes to blocks of its  *)
(* own; here it carries one, followed by the chunk's totals.               *)
(***************************************************************************)
EXTENDS DecodedStream

TextBlock == <<"text", 0>>
ReasoningBlock == <<"reasoning", 0>>
DetailsBlock == <<"details", 0>>

ChatNew == [details |-> <<>>, named |-> <<>>, refused |-> FALSE]

ChatMembers ==
         [member : {"none", "refusal", "no index"}]
    \cup [member : {"reasoning_details", "reasoning", "content"}, text : Texts]
    \cup [member : {"tool_calls"}, index : Index, names : BOOLEAN, text : MaybeText]

ChatEvents ==
    [delta : ChatMembers, reason : MaybeReason, counted : BOOLEAN]
        \cup [delta : {[member |-> "[DONE]"]}]

\* chunk_totals
Chunk(e, a, o) == Decode(Counted(Reported(a, e.reason), e.counted), o)

\* The coalesced details are set whole every time.
DetailsChunk(e) ==
    LET details == own.details \o e.delta.text
    IN  Chunk(e, SetOpaqueData(Start(Started(asm), DetailsBlock, "Opaque"), DetailsBlock, details),
              [own EXCEPT !.details = details])

\* decode_tool_call_delta: any fragment opens its slot, and a name that comes
\* late repairs the open block.
CallChunk(e) ==
    LET n     == e.delta.index
        id    == <<"tool", n>>
        named == e.delta.names \/ (n \in DOMAIN own.named /\ own.named[n])
        kind  == IF named THEN "Call" ELSE "NamelessCall"
        a     == RepairIdentity(Start(Started(asm), id, kind), id, kind)
    IN  Chunk(e, IF e.delta.text = <<>> THEN a ELSE Arguments(a, id, e.delta.text),
              [own EXCEPT !.named = [i \in DOMAIN @ \cup {n} |-> IF i = n THEN named ELSE @[i]]])

\* Mutant: only a refusal fails the stream.
ChatFailsOnRefusal == own.refused

\* finish: a refusal and a tool call without a finish reason fail the stream.
ChatFails == own.refused \/ (HasCall(asm) /\ asm.finish = "None")

ChatResult == Complete(SetFinish(asm, Promoted(asm.finish, HasCall(asm))))

ChatEvent(e) ==
    LET member == e.delta.member
    IN  \/ member = "none" /\ Chunk(e, Started(asm), own)
        \/ member = "refusal" /\ Chunk(e, Started(asm), [own EXCEPT !.refused = TRUE])
        \/ member = "reasoning_details" /\ DetailsChunk(e)
        \/ /\ member = "reasoning"
           /\ Chunk(e, Reasoning(Started(asm), ReasoningBlock, e.delta.text), own)
        \/ member = "content" /\ Chunk(e, Text(Started(asm), TextBlock, e.delta.text), own)
        \/ member = "tool_calls" /\ CallChunk(e)
        \/ member = "no index" /\ Fail
        \/ member = "[DONE]" /\ IF ChatFails THEN Fail ELSE Decode(ChatResult, own)

ChatNext ==
    \/ \E e \in Upcoming("chat", ChatEvents) : ChatEvent(e)
    \/ Ends("chat") /\ IF ChatFails THEN Fail ELSE Finish(ChatResult)
=============================================================================
