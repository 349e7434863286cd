-------------------------- MODULE CompleteAnswers --------------------------
(***************************************************************************)
(* decode_response of the five codecs: what each makes of a whole response *)
(* document; and the ways in which its provider tells the same document as *)
(* a stream.  A document is the sequence of its blocks (parts, items) and  *)
(* the reason it ended for; a body that is no document of the protocol is  *)
(* left out, and so is a call without a name where the protocol has none.  *)
(***************************************************************************)
EXTENDS AnthropicStream, BedrockStream, ChatStream, GeminiStream, ResponsesStream

CONSTANTS DocumentTexts,    \* the texts of blocks, sequences of fragments
          MaxBlocks         \* bounds the blocks of a document

ASSUME DocumentsAssumption == MaxBlocks \in Nat

Plain(kind, text) == [kind |-> kind, text |-> text, redacted |-> FALSE, signed |-> FALSE]

ReasoningPart(text, signed) == [Plain("Reasoning", text) EXCEPT !.signed = signed]

SealedPart == [Plain("Reasoning", Sealed) EXCEPT !.redacted = TRUE]

\* suppress_unfinished_tool_calls is the last thing each codec does.
Reply(parts, reason) ==
    [ok |-> TRUE, content |-> Answerable(parts, reason), finish |-> reason]

Refused == [ok |-> FALSE]

Calls(parts) == \E i \in DOMAIN parts : IsCall(parts[i].kind)

\* The parts of each of a sequence, one after the other.
Each(of(_), blocks) == FlattenSeq([i \in DOMAIN blocks |-> of(blocks[i])])

\* A text told in fragments, or at once; an empty one needs no event.
Fragments(text) ==
    {IF text = <<>> THEN <<>> ELSE <<text>>, [i \in DOMAIN text |-> <<text[i]>>]}

\* All the ways to tell block after block, each of them in one of its ways.
Tellings(of(_, _), blocks) ==
    FoldLeft(LAMBDA told, n : {t \o u : t \in told, u \in of(n - 1, blocks[n])},
             {<<>>}, [n \in DOMAIN blocks |-> n])

Documents(blocks, reasons) ==
    [blocks : BoundedSeq(blocks, MaxBlocks), reason : reasons]

----------------------------------------------------------------------------
(* Anthropic Messages *)

\* decode_block.  A server-side block is kept whole.
MessagePart(block) ==
    CASE block.type = "text" -> Plain("Text", block.text)
      [] block.type = "thinking" -> ReasoningPart(block.text, block.signed)
      [] block.type = "redacted_thinking" -> SealedPart
      [] block.type = "tool_use" ->
            Plain(IF block.named THEN "Call" ELSE "NamelessCall", block.text)
      [] block.type = "server_tool_use" ->
            Plain("Opaque", IF block.text = <<>> THEN <<"snapshot">> ELSE block.text)

AnthropicAnswer(doc) ==
    IF doc.reason = "Refusal" THEN Refused
    ELSE Reply(Each(LAMBDA block : <<MessagePart(block)>>, doc.blocks), doc.reason)

AnthropicTelling(n, block) ==
    LET id == IndexId(n)
        Begin(b) == <<[type |-> "content_block_start", id |-> id, block |-> b]>>
        Deltas(type, text) ==
            {[i \in DOMAIN f |-> [type |-> type, id |-> id, text |-> f[i]]] : f \in Fragments(text)}
        Stop(signed) ==
            <<[type |-> "content_block_stop", id |-> id, signed |-> signed, parses |-> TRUE]>>
        Empty == [block EXCEPT !.text = <<>>]
    IN  CASE block.type = "text" ->
                UNION {{Begin([block EXCEPT !.text = SubSeq(block.text, 1, seed)]) \o d \o Stop(FALSE) :
                            d \in Deltas("text_delta", SubSeq(block.text, seed + 1, Len(block.text)))} :
                        seed \in 0..Len(block.text)}
          [] block.type = "thinking" ->
                LET unsigned == [Empty EXCEPT !.signed = FALSE]
                IN  UNION {
                    {Begin(Empty) \o d \o Stop(FALSE),
                     Begin(unsigned) \o d \o Stop(block.signed),
                     Begin(unsigned) \o d
                        \o (IF block.signed THEN <<[type |-> "signature_delta", id |-> id]>> ELSE <<>>)
                        \o Stop(FALSE)} : d \in Deltas("thinking_delta", block.text)}
          [] block.type = "redacted_thinking" -> {Begin(block) \o Stop(FALSE)}
          [] OTHER ->
                {Begin(Empty) \o d \o Stop(FALSE) : d \in Deltas("input_json_delta", block.text)}

AnthropicStory(doc, told) ==
    <<[type |-> "message_start", counted |-> FALSE]>> \o told
        \o <<[type |-> "message_delta", reason |-> doc.reason, counted |-> TRUE],
             [type |-> "message_stop"]>>

----------------------------------------------------------------------------
(* Bedrock Converse *)

ConverseBlocks ==
         [type : {"text", "toolUse"}, text : DocumentTexts]
    \cup [type : {"reasoningText"}, text : DocumentTexts, signed : BOOLEAN]
    \cup [type : {"redactedContent", "image"}]

\* decode_content_block.  An empty text and a block of another kind are skipped.
ConverseParts(block) ==
    CASE block.type = "text" /\ block.text # <<>> -> <<Plain("Text", block.text)>>
      [] block.type = "toolUse" -> <<Plain("Call", block.text)>>
      [] block.type = "reasoningText" -> <<ReasoningPart(block.text, block.signed)>>
      [] block.type = "redactedContent" -> <<SealedPart>>
      [] OTHER -> <<>>

BedrockAnswer(doc) ==
    IF doc.reason = "Refusal" THEN Refused
    ELSE Reply(Each(ConverseParts, doc.blocks), doc.reason)

BedrockTelling(n, block) ==
    LET id == IndexId(n)
        Reason(told, signed, sealed) ==
            [type |-> "reasoningContent", id |-> id, told |-> told,
             signed |-> signed, sealed |-> sealed]
        Stop == <<[type |-> "contentBlockStop", id |-> id]>>
        Deltas(type) ==
            {[i \in DOMAIN f |-> [type |-> type, id |-> id, text |-> f[i]]] :
                f \in Fragments(block.text)}
    IN  CASE block.type = "text" -> {d \o Stop : d \in Deltas("text")}
          [] block.type = "toolUse" ->
                {<<[type |-> "contentBlockStart", id |-> id, named |-> TRUE]>> \o d \o Stop :
                    d \in Deltas("toolUse")}
          [] block.type = "reasoningText" ->
                {<<Reason({<<>>}, FALSE, FALSE)>>
                    \o [i \in DOMAIN f |-> Reason({f[i]}, FALSE, FALSE)]
                    \o (IF block.signed THEN <<Reason({}, TRUE, FALSE)>> ELSE <<>>)
                    \o Stop : f \in Fragments(block.text)}
          [] block.type = "redactedContent" -> {<<Reason({}, FALSE, TRUE)>> \o Stop}
          [] OTHER -> {<<[type |-> "unknown"]>> \o Stop}

BedrockStory(doc, told) ==
    <<[type |-> "messageStart"]>> \o told
        \o <<[type |-> "messageStop", reason |-> doc.reason], [type |-> "metadata"]>>

----------------------------------------------------------------------------
(* Chat Completions: the message has one member of each kind, and its calls. *)

\* In the order in which the parts are answered.
ChatDocuments ==
    [reasoning_details : DocumentTexts, reasoning : DocumentTexts, content : DocumentTexts,
     refusal : BOOLEAN, calls : BoundedSeq(DocumentTexts, MaxBlocks), reason : Reasons]

MemberPart(kind, text) == IF text = <<>> THEN <<>> ELSE <<Plain(kind, text)>>

ChatParts(doc) ==
    MemberPart("Opaque", doc.reasoning_details) \o MemberPart("Reasoning", doc.reasoning)
        \o MemberPart("Text", doc.content)
        \o Each(LAMBDA text : <<Plain("Call", text)>>, doc.calls)

\* Mutant: the reported reason stands although the message has calls.
ChatAnswerAsReported(doc) ==
    IF doc.refusal THEN Refused ELSE Reply(ChatParts(doc), doc.reason)

ChatAnswer(doc) ==
    IF doc.refusal THEN Refused
    ELSE Reply(ChatParts(doc), Promoted(doc.reason, Calls(ChatParts(doc))))

ChatChunk(delta, reason) == [delta |-> delta, reason |-> reason, counted |-> FALSE]

\* A call is named by its first fragment, which may carry some of its arguments.
ChatTelling(n, text) ==
    LET Fragment(names, t) ==
            ChatChunk([member |-> "tool_calls", index |-> n, names |-> names, text |-> t], "None")
    IN  {<<Fragment(TRUE, <<>>)>> \o [i \in DOMAIN f |-> Fragment(FALSE, f[i])] : f \in Fragments(text)}
            \cup {<<Fragment(TRUE, text)>>}

ChatStory(doc, told) ==
    LET Member(member, text) ==
            [i \in DOMAIN text |-> ChatChunk([member |-> member, text |-> <<text[i]>>], "None")]
    IN  Member("reasoning_details", doc.reasoning_details) \o Member("reasoning", doc.reasoning)
            \o Member("content", doc.content)
            \o (IF doc.refusal THEN <<ChatChunk([member |-> "refusal"], "None")>> ELSE <<>>)
            \o told
            \o <<ChatChunk([member |-> "none"], doc.reason),
                 [delta |-> [member |-> "[DONE]"]]>>

----------------------------------------------------------------------------
(* Gemini *)

\* decode_text, decode_tool_call
CandidatePart(part) ==
    CASE part.type = "text" -> Plain("Text", part.text)
      [] part.type = "thought" -> ReasoningPart(part.text, part.signed)
      [] part.type = "functionCall" -> Plain("Call", part.text)

\* decode_candidate
GeminiAnswer(doc) ==
    LET parts == Each(LAMBDA part : <<CandidatePart(part)>>, doc.blocks)
    IN  Reply(parts, Promoted(doc.reason, Calls(parts)))

GeminiChunk(part, reason) == [part |-> part, reason |-> reason, counted |-> TRUE]

\* The last fragment of a signed thought brings the signature.
GeminiTelling(n, part) ==
    LET Of(t, i) ==
            IF part.type = "thought"
            THEN [type |-> "thought", text |-> t[i], signed |-> part.signed /\ i = Len(t)]
            ELSE [part EXCEPT !.text = t[i]]
        texts == IF part.type = "functionCall" \/ part.text = <<>> THEN {<<part.text>>}
                 ELSE Fragments(part.text)
    IN  {[i \in DOMAIN t |-> GeminiChunk(Of(t, i), "None")] : t \in texts}

GeminiStory(doc, told) ==
    told \o <<GeminiChunk([type |-> "none"], doc.reason)>>

\* The stream cannot tell a part that goes on from one that follows it: it joins
\* what is not sealed by a signature.
Runs(parts) ==
    FoldLeft(LAMBDA runs, part :
                IF /\ runs # <<>> /\ Last(runs).kind = part.kind
                   /\ part.kind \in {"Text", "Reasoning"} /\ ~Last(runs).signed
                THEN Append(Front(runs), [part EXCEPT !.text = Last(runs).text \o @])
                ELSE Append(runs, part),
             <<>>, parts)

----------------------------------------------------------------------------
(* OpenAI Responses *)

OutputItems ==
         [type : {"Text"}, text : DocumentTexts, refusal : BOOLEAN]
    \cup [type : {"Reasoning"}, list : {"content", "summary"},
          entries : BoundedSeq(DocumentTexts \ {<<>>}, 2)]
    \cup [type : {"Call", "NamelessCall"}, text : DocumentTexts]
    \cup [type : {"Other"}]

\* reasoning_text
JoinedEntries(entries) ==
    FoldLeft(LAMBDA text, entry : IF text = <<>> THEN entry ELSE text \o Blank \o entry,
             <<>>, entries)

ItemText(item) ==
    IF item.type = "Reasoning" THEN JoinedEntries(item.entries)
    ELSE IF item.type = "Other" THEN <<>> ELSE item.text

\* decode_output.  Messages and reasoning are also kept whole, and a call
\* without a name is model-internal.
ItemParts(item) ==
    LET text  == IF ItemText(item) = <<>> THEN <<>> ELSE <<Plain(item.type, ItemText(item))>>
        whole == <<Plain("Opaque", <<"item">>)>>
    IN  CASE item.type \in {"Text", "Reasoning"} -> text \o whole
          [] item.type = "Call" -> <<Plain("Call", item.text)>>
          [] OTHER -> <<>>

\* decode_document, decode_finish_reason: the status knows no tool calls.
ResponsesAnswer(doc) ==
    LET parts == Each(ItemParts, doc.blocks)
    IN  IF \E i \in DOMAIN doc.blocks : doc.blocks[i].type = "Text" /\ doc.blocks[i].refusal
        THEN Refused
        ELSE Reply(parts, Promoted(doc.reason, Calls(parts)))

\* An item may be announced or not, and its fragments may be lost, as the event
\* that ends it tells it whole.
ResponsesTelling(n, item) ==
    LET id    == ItemId(n)
        whole == ItemText(item)
        Added == <<[type |-> "added", id |-> id, kind |-> item.type]>>
        Done  == <<[type |-> "done", id |-> id, kind |-> item.type, whole |-> whole]>>
        Deltas ==
            CASE item.type = "Text" ->
                    {[i \in DOMAIN f |-> [type |-> "text", id |-> id, text |-> f[i]]] :
                        f \in Fragments(item.text)}
              [] item.type \in {"Call", "NamelessCall"} ->
                    {[i \in DOMAIN f |-> [type |-> "arguments", id |-> id, text |-> f[i]]] :
                        f \in Fragments(item.text)}
              [] item.type = "Reasoning" ->
                    {[i \in DOMAIN item.entries |->
                        [type |-> "reasoning", id |-> id, list |-> item.list,
                         entry |-> i - 1, text |-> item.entries[i]]]}
              [] OTHER -> {<<>>}
    IN  {added \o d \o Done : added \in {<<>>, Added}, d \in Deltas \cup {<<>>}}

\* The terminal event repeats the document, and so a refusal.
ResponsesStory(doc, told) ==
    told \o (IF ResponsesAnswer(doc).ok
             THEN <<[type |-> "completed", reason |-> doc.reason, counted |-> TRUE]>>
             ELSE <<[type |-> "refusal"]>>)

----------------------------------------------------------------------------
(* One document, answered whole and told as a stream *)

Exchange(answer, story) == [events |-> story, answer |-> answer]

Exchanges(c) ==
    CASE c = "anthropic" ->
            UNION {{Exchange(AnthropicAnswer(doc), AnthropicStory(doc, told)) :
                        told \in Tellings(AnthropicTelling, doc.blocks)} :
                    doc \in Documents(MessageBlocks(DocumentTexts), Reasons \cup {"Refusal"})}
      [] c = "bedrock" ->
            UNION {{Exchange(BedrockAnswer(doc), BedrockStory(doc, told)) :
                        told \in Tellings(BedrockTelling, doc.blocks)} :
                    doc \in Documents(ConverseBlocks, Reasons \cup {"Refusal"})}
      [] c = "chat" ->
            UNION {{Exchange(ChatAnswer(doc), ChatStory(doc, told)) :
                        told \in Tellings(ChatTelling, doc.calls)} :
                    doc \in ChatDocuments}
      [] c = "gemini" ->
            UNION {{Exchange(GeminiAnswer(doc), GeminiStory(doc, told)) :
                        told \in Tellings(GeminiTelling, doc.blocks)} :
                    doc \in Documents(GeminiParts(DocumentTexts), Reasons)}
      [] c = "responses" ->
            UNION {{Exchange(ResponsesAnswer(doc), ResponsesStory(doc, told)) :
                        told \in Tellings(ResponsesTelling, doc.blocks)} :
                    doc \in Documents(OutputItems, {"Stop", "Length"})}

NoExchange == Exchange(Refused, <<>>)
=============================================================================
