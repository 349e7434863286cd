--------------------------- MODULE BedrockStream ----------------------------
(***************************************************************************)
(* BedrockStreamDecoder (codecs/bedrock/stream.rs).  Its own fields: the   *)
(* blocks that received a sealed reasoning payload, and those that         *)
(* received readable reasoning.                                            *)
(***************************************************************************)
EXTENDS DecodedStream

BedrockNew == [redacted |-> {}, readable |-> {}]

Bedrock(a) == Decode(a, own)

\* The text member of a delta that may have none; an empty one is a text too.
Told == {{}} \cup {{text} : text \in MaybeText}

BedrockEvents ==
         [type : {"messageStart", "metadata", "unknown"}]
    \cup [type : {"contentBlockStart"}, id : BlockIds, named : BOOLEAN]
    \cup [type : {"text"}, id : BlockIds, text : Texts]
    \cup [type : {"toolUse"}, id : BlockIds, text : MaybeText]
    \cup [type : {"reasoningContent"}, id : BlockIds, told : Told,
          signed : BOOLEAN, sealed : BOOLEAN]
    \cup [type : {"contentBlockStop"}, id : BlockIds]
    \cup [type : {"messageStop"}, reason : Reasons \cup {"Refusal"}]

CallDelta(id, text) ==
    IF AnnouncedCall(asm, id) THEN Bedrock(Arguments(asm, id, text)) ELSE Fail

Say(a, id, told) ==
    IF told = {} THEN a ELSE Reasoning(a, id, CHOOSE text \in told : TRUE)

\* Mutant: readable text is taken into a sealed block.
ReasoningDeltaMixing(id, told, signed, sealed) ==
    LET a == Say(asm, id, told)
        b == IF signed THEN Signature(a, id) ELSE a
        readable == own.readable \cup (IF told # {} THEN {id} ELSE {})
    IN  IF ~sealed THEN Decode(b, [own EXCEPT !.readable = readable])
        ELSE IF id \in readable THEN Fail
        ELSE Decode(Reasoning(SetRedacted(b, id), id, Sealed),
                    [redacted |-> own.redacted \cup {id}, readable |-> readable])

\* reasoning_delta: text after a sealed payload is dropped, and a sealed payload
\* after text fails the stream.
ReasoningDelta(id, told, signed, sealed) ==
    LET shown == IF id \in own.redacted THEN {} ELSE told
        a == Say(asm, id, shown)
        b == IF signed THEN Signature(a, id) ELSE a
        readable == own.readable \cup (IF shown # {} THEN {id} ELSE {})
    IN  IF ~sealed THEN Decode(b, [own EXCEPT !.readable = readable])
        ELSE IF id \in readable THEN Fail
        ELSE Decode(Reasoning(SetRedacted(b, id), id, Sealed),
                    [redacted |-> own.redacted \cup {id}, readable |-> readable])

ConverseStop(reason) ==
    IF reason = "Refusal" THEN Fail ELSE Bedrock(SetFinish(asm, reason))

\* metadata carries the usage and ends the stream.
Metadata == Bedrock(Complete(Usage(asm)))

BedrockEvent(e) ==
    \/ e.type = "messageStart" /\ Bedrock(Started(asm))
    \/ /\ e.type = "contentBlockStart"
       /\ Bedrock(Start(asm, e.id, IF e.named THEN "Call" ELSE "NamelessCall"))
    \/ e.type = "text" /\ Bedrock(Text(asm, e.id, e.text))
    \/ e.type = "toolUse" /\ CallDelta(e.id, e.text)
    \/ e.type = "reasoningContent" /\ ReasoningDelta(e.id, e.told, e.signed, e.sealed)
    \/ e.type = "contentBlockStop" /\ Bedrock(End(asm, e.id))
    \/ e.type = "messageStop" /\ ConverseStop(e.reason)
    \/ e.type = "metadata" /\ Metadata
    \/ e.type = "unknown" /\ Bedrock(asm)

BedrockNext ==
    \/ \E e \in Upcoming("bedrock", BedrockEvents) : BedrockEvent(e)
    \/ Ends("bedrock") /\ Finish(Complete(asm))
=============================================================================
