-------------------------- MODULE RequestEncoders ---------------------------
(***************************************************************************)
(* The encoders: OpenAI Chat Completions (codecs/openai_chat/encode.rs)    *)
(* and Responses (codecs/openai/encode.rs); the protocols that front       *)
(* Claude, with the reasoning policy they share (codecs/claude.rs),        *)
(* Anthropic Messages (codecs/anthropic/encode.rs) and Bedrock Converse    *)
(* (codecs/bedrock/encode.rs); Gemini generateContent                      *)
(* (codecs/gemini/encode.rs).                                              *)
(*                                                                         *)
(* Token counts are below 2^32: saturation at u32 is out of the reach of   *)
(* every limit a catalog row records.                                      *)
(***************************************************************************)
EXTENDS RequestContent

----------------------------------------------------------------------------
(* Chat Completions *)

ChatNamespace == "openai_compatible"

\* preflight
ChatRefuses(request) ==
    HasCustomTool(request) \/ \E p \in PartsOf(request) : p.kind \in {"Audio", "Document"}

\* dropped_controls
ChatTold(request) ==
    Labels([metadata |-> Has(request, "metadata"),
            speed |-> Has(request, "speed"),
            result_flag |-> \E p \in ResultsOf(request) : "Failed" \in p.is,
            result_content |-> FlattensResult(request, TextOrJsonOnly)])

ChatResult(i, j, p) == {<<i, j, 0, "part">>} \cup ResultText(i, j, p)

ChatResults(i, m) == BlocksWhere(i, m, LAMBDA p : p.kind = "ToolResult", ChatResult)

\* What one message carries besides its results: its content, its calls, the
\* reasoning that is not redacted, and the fields of this dialect.
InChatMessage(p) ==
    CASE p.kind \in {"Text", "Json", "Image", "ToolCall"} -> TRUE
      [] p.kind = "Reasoning" -> "Redacted" \notin p.is
      [] p.kind = "Opaque" -> ~Foreign(p, ChatNamespace)
      [] OTHER -> FALSE

ChatMessage(i, m) ==
    UNION {PartFacts(i, j, m.parts[j]) : j \in {n \in DOMAIN m.parts : InChatMessage(m.parts[n])}}

ChatPlainAnswer(i, m) ==
    PlainText(i, m) \cup (IF "Answers" \in m.is THEN {AnswerFact(i)} ELSE {})

\* encode_message: the wire messages of one message, one block each.
ChatBlocks(i, m) ==
    IF m.role = "Tool"
    THEN IF ChatResults(i, m) # <<>> THEN ChatResults(i, m) ELSE <<ChatPlainAnswer(i, m)>>
    ELSE <<ChatMessage(i, m)>> \o ChatResults(i, m)

ChatTurns(messages) ==
    [i \in DOMAIN messages |-> [role |-> "message", blocks |-> ChatBlocks(i, messages[i])]]

ChatControls(row, request) ==
    Controls({"tools", "choice", "format", "effort", "sampling", "limit", "stop"}, request)
        \cup (IF CacheKeySent(row, request) THEN {Control("cacheHint")} ELSE {})

EncodeChat(row, request) ==
    Encoded({}, ChatTurns(request.messages), ChatControls(row, request), ChatTold(request), "Absent")

----------------------------------------------------------------------------
(* Responses: `codex` is the deployment that rejects sampling *)

ResponsesNamespace == "openai"

\* unencodable_part
ResponsesRefuses(request) ==
    \E p \in PartsOf(request) :
        p.kind = "Audio" \/ (p.kind = "Document" /\ {"Unnamed", "Url"} \cap p.is = {"Unnamed"})

OwnItem(p) == p.kind = "Opaque" /\ ~Foreign(p, ResponsesNamespace)
Replays(m, item) == \E p \in Range(m.parts) : OwnItem(p) /\ item \in p.is

\* dropped_controls
ResponsesTold(codex, request) ==
    Labels([reasoning_text |->
                \E m \in Range(request.messages) :
                    (\E p \in Range(m.parts) : p.kind = "Reasoning") /\ ~Replays(m, "reasoning"),
            result_content |-> FlattensResult(request, TextOrJsonOnly),
            system_content |->
                IF codex THEN FlattensSystem(request, IsText)
                ELSE FlattensSystem(request, LAMBDA p : p.kind \notin {"Image", "Document"}),
            sampling |-> codex /\ Has(request, "sampling"),
            limit |-> codex /\ Has(request, "limit"),
            stop |-> Has(request, "stop")])

\* message_content: what is collected into the one item of a message.
InItem(m, p) ==
    CASE p.kind = "Text" -> ~Replays(m, "message")
      [] p.kind \in {"Image", "Document"} -> ~IsInstruction(m)
      [] OTHER -> p.kind = "Json"

\* Parts that place the item, whether or not they are in it.
PlacesItem(m, p) ==
    p.kind \in {"Json", "Image", "Document"} \/ (p.kind = "Text" /\ ~Replays(m, "message"))

MessageItem(i, m) ==
    UNION {PartFacts(i, j, m.parts[j]) : j \in {n \in DOMAIN m.parts : InItem(m, m.parts[n])}}

\* Custom results have no error flag.
OutputItem(i, j, p) ==
    {<<i, j, 0, "part">>} \cup ResultText(i, j, p)
        \cup (IF "Failed" \in p.is /\ "AnswersCustom" \notin p.is
              THEN {<<i, j, 0, "Failed">>} ELSE {})

\* input_items: in the order of the parts, the item of the message where the
\* first part that belongs to it is.
InputItems(i, m) ==
    LET joins(j) == InItem(m, m.parts[j])
        first == {j \in DOMAIN m.parts : PlacesItem(m, m.parts[j])
                     /\ \A k \in 1..(j - 1) : ~PlacesItem(m, m.parts[k])}
        hasItem == \E j \in DOMAIN m.parts : joins(j)
        ItemAt(j) ==
            LET p == m.parts[j]
            IN  CASE OwnItem(p) \/ (p.kind = "ToolCall" /\ "Nameless" \notin p.is) ->
                        <<PartFacts(i, j, p)>>
                  [] p.kind = "ToolResult" -> <<OutputItem(i, j, p)>>
                  [] j \in first /\ hasItem -> <<MessageItem(i, m)>>
                  [] OTHER -> <<>>
    IN  IF PlainAnswer(m)
        THEN BlocksWhere(i, m, OwnItem, PartFacts) \o <<PlainText(i, m) \cup {AnswerFact(i)}>>
        ELSE FlattenSeq([j \in DOMAIN m.parts |-> ItemAt(j)])

ResponsesTurns(codex, messages) ==
    [i \in DOMAIN messages |->
        [role |-> "items",
         blocks |-> IF codex /\ IsInstruction(messages[i]) THEN <<>> ELSE InputItems(i, messages[i])]]

ResponsesControls(codex, row, request) ==
    Controls({"tools", "choice", "format", "effort", "speed", "metadata"}
                \cup (IF codex THEN {} ELSE {"sampling", "limit"}), request)
        \cup (IF CacheKeySent(row, request) THEN {Control("cacheHint")} ELSE {})

EncodeResponses(codex, row, request) ==
    Encoded(IF codex THEN SystemText(request.messages, Len(request.messages)) ELSE {},
            ResponsesTurns(codex, request.messages), ResponsesControls(codex, row, request),
            ResponsesTold(codex, request), RequestedSpeed(request))

\* count_tokens_request: the generation request as far as COUNT_TOKENS_FIELDS;
\* codex has no count.
CountResponses(row, request) ==
    [EncodeResponses(FALSE, row, request) EXCEPT
        !.controls = @ \cap {Control(c) : c \in {"tools", "choice", "format", "effort"}}]

----------------------------------------------------------------------------
(* The protocols that front Claude *)

DefaultMaxTokens == 65536
MinThinkingBudget == 1024
Signatures == "anthropic"

----------------------------------------------------------------------------
(* ThinkingPlan *)

\* The share of the output limit that an effort thinks with.
BudgetShare(effort, limit) ==
    CASE effort \in {"Minimal", "Low"} -> limit \div 4
      [] effort = "Medium" -> limit \div 2
      [] effort = "High" -> (limit * 3) \div 4
      [] effort = "Xhigh" -> (limit * 7) \div 8
      [] effort = "Max" -> limit

ThinkingBudget(effort, limit) ==
    IF BudgetShare(effort, limit) < MinThinkingBudget THEN MinThinkingBudget
    ELSE BudgetShare(effort, limit)

OutputLimit(row, request) ==
    IF Has(request, "limit") THEN request.controls.limit
    ELSE IF row.limit # {} THEN CHOOSE limit \in row.limit : TRUE
    ELSE DefaultMaxTokens

TakesEffortLevels(row) == row.levels \/ row.passthrough
Forced(request) == Choice(request) \in {"Required", "Tool"}

\* A raw `thinking` option; Bedrock has none.
RawThinking(request) == Has(request, "options") /\ request.controls.options = "thinking"

\* for_call: thinking is the budget, if one is sent.
ThinkingPlan(row, request, rawThinking) ==
    LET limit == OutputLimit(row, request)
        budget ==
            IF Forced(request) \/ rawThinking \/ TakesEffortLevels(row) THEN {}
            ELSE {ThinkingBudget(request.controls.effort, limit) :
                     c \in DOMAIN request.controls \cap {"effort"}}
    IN  [maxTokens |-> IF \E b \in budget : limit <= b
                       THEN (CHOOSE b \in budget : TRUE) + MinThinkingBudget ELSE limit,
         thinking |-> budget,
         effort |-> Has(request, "effort") /\ TakesEffortLevels(row) /\ ~Forced(request),
         suppressed |->
            Labels([effort_forced |-> Forced(request) /\ Has(request, "effort"),
                    thinking_forced |-> Forced(request) /\ rawThinking])]

EffortCarried(plan) == IF plan.effort \/ plan.thinking # {} THEN {Control("effort")} ELSE {}

----------------------------------------------------------------------------
(* Anthropic Messages *)

AnthropicNamespace == "anthropic"

\* preflight: a custom tool, defined or called in the conversation, or audio.
AnthropicRefuses(request) ==
    \/ HasCustomTool(request)
    \/ \E p \in PartsOf(request) :
          p.kind = "Audio" \/ (p.kind = "ToolCall" /\ "Custom" \in p.is)

AnthropicTold(request, plan) ==
    Labels([system_content |-> FlattensSystem(request, IsText),
            result_content |->
                FlattensResult(request, LAMBDA h : Range(h) \subseteq {"Text", "Json", "Image"}),
            signature |-> CarriesForeignSignature(request, Signatures),
            format_forced |-> Forced(request) /\ Format(request) = "JsonSchema"])
        \cup plan.suppressed

\* content_block: redacted reasoning replays whoever sealed it.
HasBlock(p) ==
    CASE p.kind \in {"Text", "Json", "Image", "Document", "ToolCall", "ToolResult"} -> TRUE
      [] p.kind = "Reasoning" -> "Redacted" \in p.is \/ ~ForeignSignature(p, Signatures)
      [] p.kind = "Opaque" -> ~Foreign(p, AnthropicNamespace)
      [] OTHER -> FALSE

\* No detail of an image is sent.
ContentBlock(i, j, p) ==
    (PartFacts(i, j, p) \ {<<i, j, 0, "Detail">>})
        \cup HeldFacts(i, j, HeldOf(p, {"Text", "Json", "Image"}))

LeadingRun(messages) ==
    LET others == {i \in DOMAIN messages : ~IsInstruction(messages[i])}
    IN  IF others = {} THEN Len(messages) ELSE (CHOOSE i \in others : \A k \in others : i <= k) - 1

\* wire_turns: a model that takes system turns gets the later ones in place.
InPlace(row, messages, i) == row.systemTurns /\ i > LeadingRun(messages)

WireTurns(row, messages) ==
    LET RoleOf(i, m) ==
            IF IsInstruction(m) THEN "system"
            ELSE IF m.role = "Assistant" THEN "assistant" ELSE "user"
        BlocksOf(i, m) ==
            IF ~IsInstruction(m) THEN BlocksWhere(i, m, HasBlock, ContentBlock)
            ELSE IF InPlace(row, messages, i) /\ PlainText(i, m) # {} THEN <<PlainText(i, m)>>
            ELSE <<>>
    IN  TurnsOf(messages, RoleOf, BlocksOf)

AnthropicControls(request, plan) ==
    Controls({"tools", "choice", "limit", "sampling", "stop", "metadata", "speed"}, request)
        \cup EffortCarried(plan)
        \cup (IF Format(request) \in {"Text", "JsonObject"}
                 \/ (Format(request) = "JsonSchema" /\ ~Forced(request))
              THEN {Control("format")} ELSE {})

AnthropicPlan(row, request) == ThinkingPlan(row, request, RawThinking(request))

EncodeAnthropic(row, request) ==
    LET messages == request.messages
        plan == AnthropicPlan(row, request)
    IN  Encoded(SystemText(messages, IF row.systemTurns THEN LeadingRun(messages) ELSE Len(messages)),
                WireTurns(row, messages), AnthropicControls(request, plan),
                AnthropicTold(request, plan), RequestedSpeed(request))

\* count_tokens_request: the generation body as far as COUNT_TOKENS_FIELDS, and
\* nothing is reported of it.  An effort is there as a thinking budget, never
\* as a level; a format, as the instruction in the system text alone.
CountAnthropic(row, request) ==
    LET thinks == AnthropicPlan(row, request).thinking # {}
        kept == {"tools", "choice"} \cup (IF thinks THEN {"effort"} ELSE {})
                    \cup (IF Format(request) \in {"Text", "JsonObject"} THEN {"format"} ELSE {})
    IN  [EncodeAnthropic(row, request) EXCEPT
            !.controls = @ \cap {Control(c) : c \in kept}, !.told = {}, !.speed = "Absent"]

----------------------------------------------------------------------------
(* Bedrock Converse *)

BedrockNamespace == "bedrock"

\* preflight, and the media that the encoding itself refuses, inside tool
\* results too: behind a URL, or of a type with no format.
Unnameable(request) ==
    \/ \E t \in Tools(request) : "OddName" \in t.is
    \/ \E m \in Range(request.messages) : "OddId" \in m.is
    \/ \E p \in PartsOf(request) :
          \/ p.kind = "ToolCall" /\ p.is \cap {"OddName", "OddId", "Nameless"} # {}
          \/ p.kind = "ToolResult" /\ "OddId" \in p.is

UnsendableMedia(m, p) ==
    ~IsInstruction(m) /\ p.kind \in {"Image", "Document", "ToolResult"} /\ p.is \cap {"Url", "OddType"} # {}

BedrockRefuses(request) ==
    \/ HasCustomTool(request)
    \/ \E p \in PartsOf(request) : p.kind = "Audio"
    \/ Unnameable(request)
    \/ \E m \in Range(request.messages) : \E p \in Range(m.parts) : UnsendableMedia(m, p)

HistoryHasTools(request) == \E p \in PartsOf(request) : p.kind \in {"ToolCall", "ToolResult"}

\* tool_config: no tool may be called when no tool is offered, unless the
\* history needs the configuration.
OffersTools(request) ==
    Tools(request) # {} /\ (Choice(request) = "None" => HistoryHasTools(request))

InResultUnion(holds) == Range(holds) \subseteq {"Text", "Json", "Image", "Document"}

BedrockTold(request, plan) ==
    Labels([metadata |-> Has(request, "metadata"),
            choice_none |->
                Choice(request) = "None" /\ Tools(request) # {} /\ HistoryHasTools(request),
            signature |-> CarriesForeignSignature(request, Signatures),
            format |-> Has(request, "format"),
            system_content |-> FlattensSystem(request, IsText),
            result_content |-> FlattensResult(request, InResultUnion)])
        \cup plan.suppressed

\* encode_content_part: a foreign signature counts before redaction does.
Converses(p) ==
    CASE p.kind = "Text" -> "Blank" \notin p.is
      [] p.kind \in {"Json", "Image", "Document", "ToolCall", "ToolResult"} -> TRUE
      [] p.kind = "Reasoning" -> ~ForeignSignature(p, Signatures)
      [] p.kind = "Opaque" -> ~Foreign(p, BedrockNamespace)
      [] OTHER -> FALSE

ConverseBlock(i, j, p) ==
    (PartFacts(i, j, p) \ {<<i, j, 0, "Detail">>})
        \cup HeldFacts(i, j, HeldOf(p, {"Text", "Json", "Image", "Document"}))

\* conversation: a plain answer becomes a result when nothing else is left.
Conversation(messages) ==
    LET RoleOf(i, m) == IF m.role = "Assistant" THEN "assistant" ELSE "user"
        BlocksOf(i, m) ==
            LET blocks == BlocksWhere(i, m, Converses, ConverseBlock)
            IN  IF IsInstruction(m) THEN <<>>
                ELSE IF blocks = <<>> /\ m.role = "Tool" /\ "Answers" \in m.is
                THEN <<PlainText(i, m) \cup {AnswerFact(i)}>>
                ELSE blocks
    IN  TurnsOf(messages, RoleOf, BlocksOf)

\* Withholding the tools is how `none` is said.
BedrockControls(request, plan) ==
    Controls({"sampling", "limit", "stop", "speed"}, request) \cup EffortCarried(plan)
        \cup (IF OffersTools(request)
              THEN Controls({"tools"}, request)
                       \cup (IF Choice(request) = "None" THEN {} ELSE Controls({"choice"}, request))
              ELSE IF Tools(request) # {} THEN {Control("tools"), Control("choice")}
              ELSE IF Choice(request) \in {"None", "Auto"} THEN {Control("choice")} ELSE {})

BedrockPlan(row, request) == ThinkingPlan(row, request, FALSE)

EncodeBedrock(row, request) ==
    LET plan == BedrockPlan(row, request)
    IN  Encoded(SystemText(request.messages, Len(request.messages)),
                Conversation(request.messages), BedrockControls(request, plan),
                BedrockTold(request, plan), RequestedSpeed(request))

\* encode_count_tokens: the conversation and the system text alone.
CountBedrock(row, request) ==
    [EncodeBedrock(row, request) EXCEPT !.controls = {}, !.told = {}, !.speed = "Absent"]

----------------------------------------------------------------------------
(* Gemini *)

GeminiNamespace == "gemini"

\* function_declarations
GeminiRefuses(request) == HasCustomTool(request)

\* dropped_controls
GeminiTold(row, request) ==
    Labels([metadata |-> Has(request, "metadata"),
            system_content |-> FlattensSystem(request, IsText),
            result_content |-> FlattensResult(request, TextOrJsonOnly),
            speed |-> Has(request, "speed"),
            effort |-> Has(request, "effort") /\ ~row.levels,
            signature |-> CarriesForeignSignature(request, GeminiNamespace)])

\* encode_part: an opaque part is one of the protocol's only as an object.
EncodesPart(p) ==
    CASE p.kind = "Reasoning" -> ~ForeignSignature(p, GeminiNamespace)
      [] p.kind = "Opaque" -> ~Foreign(p, GeminiNamespace) /\ "NotObject" \notin p.is
      [] OTHER -> p.kind # "Unknown"

\* encode_tool_result: values of their own, or the text and nothing else.  A
\* failure is said by the key of the payload.
GeminiPart(i, j, p) ==
    (PartFacts(i, j, p) \ {<<i, j, 0, "Detail">>})
        \cup HeldFacts(i, j, IF p.holds # <<>> /\ Range(p.holds) \subseteq {"Json"}
                             THEN DOMAIN p.holds ELSE HeldOf(p, {"Text"}))

Contents(messages) ==
    LET RoleOf(i, m) == IF m.role = "Assistant" THEN "model" ELSE "user"
        BlocksOf(i, m) ==
            IF IsInstruction(m) THEN <<>> ELSE BlocksWhere(i, m, EncodesPart, GeminiPart)
    IN  TurnsOf(messages, RoleOf, BlocksOf)

GeminiControls(row, request) ==
    Controls({"tools", "choice", "format", "sampling", "limit", "stop"}
                \cup (IF row.levels THEN {"effort"} ELSE {}), request)

EncodeGemini(row, request) ==
    Encoded(SystemText(request.messages, Len(request.messages)), Contents(request.messages),
            GeminiControls(row, request), GeminiTold(row, request), "Absent")

\* count_tokens_request: the whole body, and nothing is reported of it.
CountGemini(row, request) == [EncodeGemini(row, request) EXCEPT !.told = {}]

=============================================================================
