----------------------------- MODULE ClientCall -----------------------------
(***************************************************************************)
(* One call of a client, from the request to what the caller gets          *)
(* (client/mod.rs, middleware/mod.rs, providers/mod.rs, bedrock.rs,        *)
(* types/limits.rs).                                                       *)
(*                                                                         *)
(* The call passes one application layer, which may map the request,       *)
(* answer it alone, rewrite what comes back and repeat what may be         *)
(* repeated; an adapter, which encodes it for a provider; and the response *)
(* policy, once below the layer and once above it.                         *)
(*                                                                         *)
(* Every step can be interrupted by the deadline or by cancellation.  A    *)
(* response, a verdict, a stream and an error are told apart by `type`.    *)
(***************************************************************************)
EXTENDS RequestEncoders, EvaluationAnswers

CONSTANTS
    Cases,              \* setups with the operation that is called
    Rewrites(_),        \* what the layer may map a request to
    LayerOutputs,       \* what the layer may answer by itself
    Replies(_, _),      \* what a provider may reply: of a mode, opened as a stream
    MaxAttempts         \* the attempts the layer makes

ASSUME AttemptsAssumption == MaxAttempts \in Nat \ {0}

Modes == {"Complete", "Stream", "Count", "Evaluate"}
Operations == Modes \cup {"CompleteObject"}

\* The output limit is a number of bytes; an evaluation that was built asks
\* questions of the known kinds, each under an id of its own.
ASSUME CasesAssumption ==
    \A case \in Cases :
        /\ case.setup.policy.output \in Nat /\ case.setup.policy.retainRaw \in BOOLEAN
        /\ case.call.op \in Operations
        /\ \A i, j \in DOMAIN case.call.evaluation :
              case.call.evaluation[i].id = case.call.evaluation[j].id => i = j
        /\ \A i \in DOMAIN case.call.evaluation :
              /\ case.call.evaluation[i].kind \in EvaluationKinds
              /\ case.call.evaluation[i].of \in Seq(Range(case.call.evaluation[i].of))

VARIABLES
    setup,      \* the client and the row that the call resolves to
    call,       \* the operation with its request or evaluation
    phase,      \* "Start", "Layer", "Dispatch", "Sent", "Back", "Streaming" or "Done"
    mode,       \* Call::mode, absent until the pipeline starts
    request,    \* Call::request
    wire,       \* what was encoded last, absent before
    attempts,   \* the requests sent
    reply,      \* the provider's last reply, absent before
    output,     \* the Output or error on its way back
    used,       \* the budgets of the two policies around a stream
    delivered,  \* the events the caller has got
    made,       \* who made the output: "Provider", "Adapter" or "Layer"
    result      \* what the caller got, absent before

vars == <<setup, call, phase, mode, request, wire, attempts, reply, output, used,
          delivered, made, result>>

Nothing == [type |-> "Nothing"]

----------------------------------------------------------------------------
(* Outputs and the response policy *)

Response(finish, calls, size, raw, warnings, limits, object) ==
    [type |-> "Response", finish |-> finish, calls |-> calls, withheld |-> {}, size |-> size,
     raw |-> raw, warnings |-> warnings, limits |-> limits, object |-> object]
Count == [type |-> "Count"]
Items(items) == [type |-> "Stream", items |-> items]

\* A stream item; what ends a stream is a response or an error.
Event(kind, size) == [type |-> "Event", kind |-> kind, size |-> size]
EndsStream(item) == item.type \in {"Response", "Error"}

\* What has a size and can be in an output.
IsResponse(x) ==
    /\ x.type = "Response" /\ x.size \in Nat /\ x.limits \in BOOLEAN
    /\ DOMAIN x = {"type", "finish", "calls", "withheld", "size", "raw", "warnings", "limits", "object"}
    /\ \A a, b \in x.object : a = b
IsVerdict(x) ==
    /\ x.type = "Verdict" /\ x.size \in Nat /\ x.limits \in BOOLEAN
    /\ DOMAIN x = {"type", "answers", "rounding", "size", "raw", "warnings", "limits"}
IsItem(x) == (x.type = "Event" /\ x.size \in Nat) \/ IsResponse(x) \/ IsError(x)
IsStream(x) ==
    x.type = "Stream" /\ x.items \in Seq(Range(x.items)) /\ \A item \in Range(x.items) : IsItem(item)
IsOutput(x) == IsResponse(x) \/ IsVerdict(x) \/ IsStream(x) \/ x.type = "Count" \/ IsError(x)

ASSUME LayerAssumption == \A own \in LayerOutputs : IsOutput(own)

\* An answer holds what a decoder made of it, a native verdict what was read.
ASSUME RepliesAssumption ==
    \A m \in Modes, opening \in BOOLEAN : \A answer \in Replies(m, opening) :
        /\ answer.kind \in {"NotSent", "Status", "Broken", "Refusal", "Malformed", "Answered", "Streamed"}
        /\ answer.kind = "Broken" => answer.cause \in {"TooLong", "TimedOut", "Lost", "NotJson"}
        /\ answer.kind = "Answered" =>
              IF m = "Evaluate" THEN answer.value.size \in Nat
              ELSE IsResponse(answer.value) \/ answer.value.type = "Count"
        /\ answer.kind = "Streamed" => IsStream(Items(answer.items))

Unfinished(response) == response.finish \in {"Length", "Incomplete"}

\* suppress_unfinished_tool_calls; its warning counts against no budget here.
Suppress(response) ==
    IF Unfinished(response) /\ response.calls # {}
    THEN [response EXCEPT !.withheld = @ \cup response.calls, !.calls = {},
                          !.warnings = @ \cup {"truncated_tool_call"}]
    ELSE response

NoRaw == 0
Retained(policy, x) == IF policy.retainRaw THEN x ELSE [x EXCEPT !.raw = NoRaw]

\* Mutant: the policy leaves the raw body and the calls as they are.
PolicyOnSize(policy, x) ==
    IF x.type \in {"Response", "Verdict"} /\ x.size > policy.output
    THEN Final("ResourceLimit") ELSE x

\* ResponsePolicy::response and ::verdict: the raw body does not count.
PolicyOf(policy, x) ==
    IF x.type \notin {"Response", "Verdict"} THEN x
    ELSE IF x.size > policy.output THEN Final("ResourceLimit")
    ELSE Retained(policy, IF x.type = "Response" THEN Suppress(x) ELSE x)

\* ResponsePolicy::stream, one item: block starts and deltas have one budget,
\* assembled blocks another, the last response one of its own.
NoneUsed == [Incremental |-> 0, Assembled |-> 0]
PolicyStep(policy, budget, item) ==
    IF item.type = "Event" /\ item.kind \in DOMAIN budget
    THEN IF budget[item.kind] + item.size > policy.output
         THEN [item |-> Final("ResourceLimit"), budget |-> budget]
         ELSE [item |-> item, budget |-> [budget EXCEPT ![item.kind] = @ + item.size]]
    ELSE [item |-> PolicyOf(policy, item), budget |-> budget]

\* ResponseStream: the next item; a stream that just ends has failed.
NextItem(items) == IF items = <<>> THEN ChunkError("Cut") ELSE Head(items)

\* Mutant: the events are folded without the rate limits.
FoldedBare(policy, items) == PolicyOf(policy, NextItem(SelectSeq(items, EndsStream)))

\* What the events of one budget add up to.
TotalOf(kind, items) ==
    LET total[n \in 0..Len(items)] ==
            IF n = 0 THEN 0
            ELSE total[n - 1] +
                 (IF items[n].type = "Event" /\ items[n].kind = kind THEN items[n].size ELSE 0)
    IN  total[Len(items)]

\* The n-th item is the one that ResponsePolicy::stream answers with an error.
Exceeds(policy, items, n) ==
    /\ items[n].type = "Event" /\ items[n].kind \in DOMAIN NoneUsed
    /\ TotalOf(items[n].kind, SubSeq(items, 1, n)) > policy.output

TellsLimits(item) == item.type = "Event" /\ item.kind = "RateLimits"

\* complete_by_streaming: what ends the stream, a response with the rate
\* limits that led.
Folded(policy, items) ==
    LET ends == {n \in DOMAIN items : EndsStream(items[n]) \/ Exceeds(policy, items, n)}
                    \cup {Len(items) + 1}
        end == CHOOSE n \in ends : \A k \in ends : n <= k
        last == PolicyOf(policy, NextItem(SubSeq(items, end, Len(items))))
    IN  IF last.type = "Event" THEN Final("ResourceLimit")
        ELSE IF last.type = "Error" THEN last
        ELSE [last EXCEPT !.limits = @ \/ \E n \in 1..(end - 1) : TellsLimits(items[n])]

----------------------------------------------------------------------------
(* Codecs *)

Row == setup.row
Dispatching == setup.adapter \in {"http", "bedrock"}

\* select_codec: the first codec of the family that the row reaches.
Codecs == DeriveCodecs(Row.claims, setup.codecs)
Selected(generation) ==
    LET reached == SelectSeq(Codecs, LAMBDA c : ServesGeneration(c) = generation)
    IN  IF reached = <<>> THEN {} ELSE {Head(reached)}
CodecOf(m) == CHOOSE c \in Selected(m # "Evaluate") : TRUE

Refuses(codec, r) ==
    CASE codec = "openai-chat" -> ChatRefuses(r)
      [] codec = "openai-responses" -> ResponsesRefuses(r)
      [] codec = "anthropic-messages" -> AnthropicRefuses(r)
      [] codec = "gemini-generate" -> GeminiRefuses(r)
      [] codec = "bedrock-converse" -> BedrockRefuses(r)
      [] codec \in EvaluationCodecs ->
            \E i \in DOMAIN call.evaluation : ~QuestionCarried(codec, call.evaluation[i])

Encode(codec, r) ==
    CASE codec = "openai-chat" -> EncodeChat(Row, r)
      [] codec = "openai-responses" -> EncodeResponses(setup.codex, Row, r)
      [] codec = "anthropic-messages" -> EncodeAnthropic(Row, r)
      [] codec = "gemini-generate" -> EncodeGemini(Row, r)
      [] codec = "bedrock-converse" -> EncodeBedrock(Row, r)
      [] codec \in EvaluationCodecs ->
            Encoded({}, <<>>, {}, EvaluationDropped(codec, call.settings), "Absent")

\* encode_count_tokens: a protocol may have no count.
Counts(codec) == codec # "openai-chat" /\ ~(codec = "openai-responses" /\ setup.codex)
EncodeCount(codec, r) ==
    CASE codec = "openai-responses" -> CountResponses(Row, r)
      [] codec = "anthropic-messages" -> CountAnthropic(Row, r)
      [] codec = "gemini-generate" -> CountGemini(Row, r)
      [] codec = "bedrock-converse" -> CountBedrock(Row, r)

----------------------------------------------------------------------------
(* Starting *)

Init ==
    /\ \E case \in Cases : setup = case.setup /\ call = case.call
    /\ phase = "Start" /\ mode = "Absent"
    /\ request = call.request
    /\ wire = Nothing /\ attempts = 0 /\ reply = Nothing /\ output = Nothing
    /\ used = [below |-> NoneUsed, above |-> NoneUsed]
    /\ delivered = <<>> /\ made = "Provider" /\ result = Nothing

Finish(outcome) == phase' = "Done" /\ result' = outcome

\* The pipeline starts with its layer, if one is registered.
Enter(m, r) ==
    /\ phase' = IF setup.layer THEN "Layer" ELSE "Dispatch"
    /\ mode' = m /\ request' = r
    /\ UNCHANGED result

Refused == /\ Finish(UnsupportedCapability) /\ UNCHANGED <<mode, request>>

\* call: codec and request are checked, in this order, before any layer.
Begin(m, r) ==
    IF Dispatching /\ Selected(TRUE) = {} THEN Refused
    ELSE IF ~RequestFits(Row, r) THEN Refused ELSE Enter(m, r)

KindsFit(evaluation) ==
    \A i \in DOMAIN evaluation :
        EvaluationSupport(Row.claims, evaluation[i].kind) # "Unsupported"

\* complete_object attaches its schema.
ObjectRequest(r) ==
    [r EXCEPT !.controls =
        [c \in DOMAIN r.controls \cup {"format"} |-> IF c = "format" THEN "JsonSchema" ELSE r.controls[c]]]

StartGeneration ==
    /\ phase = "Start" /\ call.op # "Evaluate"
    /\ IF call.op = "CompleteObject" THEN Begin("Complete", ObjectRequest(call.request))
       ELSE Begin(call.op, call.request)
    /\ UNCHANGED <<setup, call, wire, attempts, reply, output, used, delivered, made>>

Native == IF Dispatching THEN Selected(FALSE) # {} ELSE setup.native

\* reasoning_effort_for: the lowest effort of a row that reasons by default.
JudgeEffort ==
    LET claimed == SelectSeq(Efforts, LAMBDA e : EffortSupport(Row.claims, e) = "Supported")
    IN  IF setup.reasonsByDefault /\ claimed # <<>> THEN {Head(claimed)} ELSE {}

\* The settings of an evaluation, as the controls of its request.
SettingsAs(controls) ==
    [c \in DOMAIN controls \cup call.settings |->
        IF c \in call.settings THEN "Valid" ELSE controls[c]]

\* The state alone: what middleware sees of a native evaluation.
StandIn == Request(<<Message("User", <<Part("Text", {})>>, {})>>, SettingsAs(<<>>))

\* request_for: the judge's instructions, the questions, and their schema.
JudgeRequest ==
    LET text == <<Part("Text", {})>>
        controls == [c \in {"format"} \cup {"effort" : e \in JudgeEffort} |->
                        IF c = "format" THEN "JsonSchema" ELSE CHOOSE e \in JudgeEffort : TRUE]
    IN  Request(<<Message("System", text, {}), Message("User", text, {})>>, SettingsAs(controls))

\* evaluate_with_context
StartEvaluation ==
    /\ phase = "Start" /\ call.op = "Evaluate"
    /\ IF ~KindsFit(call.evaluation) THEN Refused
       ELSE IF setup.adapter = "none"
            THEN Finish(Final("Configuration")) /\ UNCHANGED <<mode, request>>
       ELSE IF Native THEN Enter("Evaluate", StandIn) ELSE Begin("Complete", JudgeRequest)
    /\ UNCHANGED <<setup, call, wire, attempts, reply, output, used, delivered, made>>

----------------------------------------------------------------------------
(* The layer *)

Return(outcome) == output' = outcome /\ phase' = "Back"

Forward ==
    /\ phase = "Layer" /\ phase' = "Dispatch"
    /\ UNCHANGED <<setup, call, mode, request, wire, attempts, reply, output, used, delivered,
                   made, result>>

\* Call::map_request: the selector stays what it is.
MapRequest ==
    /\ phase = "Layer"
    /\ \E mapped \in Rewrites(request) :
          IF ~Builds(mapped.request) THEN Return(Final("InvalidRequest")) /\ UNCHANGED request
          ELSE IF mapped.moved THEN Return(Final("Middleware")) /\ UNCHANGED request
          ELSE phase' = "Dispatch" /\ request' = mapped.request /\ UNCHANGED output
    /\ UNCHANGED <<setup, call, mode, wire, attempts, reply, used, delivered, made, result>>

\* A cache hit, or what a layer makes of what came back.
AnswerItself ==
    /\ phase = "Layer" \/ (phase = "Back" /\ setup.layer /\ made # "Layer" /\ ~IsError(output))
    /\ \E own \in LayerOutputs : output' = own
    /\ phase' = "Back" /\ made' = "Layer"
    /\ used' = [below |-> NoneUsed, above |-> NoneUsed]
    /\ UNCHANGED <<setup, call, mode, request, wire, attempts, reply, delivered, result>>

\* What came from below the layer, of which it repeats what it may.
Repeat ==
    /\ phase = "Back" /\ setup.layer /\ made # "Layer"
    /\ IsError(output) /\ IsRetryable(output) /\ attempts < MaxAttempts
    /\ phase' = "Dispatch" /\ output' = Nothing
    /\ UNCHANGED <<setup, call, mode, request, wire, attempts, reply, used, delivered, made,
                   result>>

----------------------------------------------------------------------------
(* The adapter *)

\* Mutant: the check before the layers is the only one.
CheckedBefore == TRUE

\* dispatch: what reaches an adapter is checked once more.
Dispatchable == IF mode = "Evaluate" THEN KindsFit(call.evaluation) ELSE RequestFits(Row, request)

RefuseDispatch ==
    /\ phase = "Dispatch"
    /\ \/ setup.adapter = "none" /\ Return(Final("Configuration"))
       \/ setup.adapter # "none" /\ ~Dispatchable /\ Return(UnsupportedCapability)
    /\ UNCHANGED <<setup, call, mode, request, wire, attempts, reply, used, delivered, made,
                   result>>

Ready == phase = "Dispatch" /\ setup.adapter # "none" /\ Dispatchable

\* A count that the protocol does not have.
NoCount ==
    /\ Ready /\ Dispatching /\ mode = "Count" /\ ~Counts(CodecOf(mode))
    /\ Return(Count)
    /\ UNCHANGED <<setup, call, mode, request, wire, attempts, reply, used, delivered, made,
                   result>>

ToEncode == Ready /\ Dispatching /\ (mode = "Count" => Counts(CodecOf(mode)))

\* The credentials come first only where an http adapter generates.
EncodesFirst == setup.adapter = "bedrock" \/ mode \in {"Count", "Evaluate"}

FailBeforeSending ==
    /\ ToEncode
    /\ \/ Refuses(CodecOf(mode), request) /\ Return(UnsupportedCapability)
       \/ /\ ~(EncodesFirst /\ Refuses(CodecOf(mode), request))
          /\ Return(Final("Authentication"))
    /\ UNCHANGED <<setup, call, mode, request, wire, attempts, reply, used, delivered, made,
                   result>>

Send ==
    /\ ToEncode /\ ~Refuses(CodecOf(mode), request)
    /\ wire' = IF mode = "Count" THEN EncodeCount(CodecOf(mode), request)
               ELSE Encode(CodecOf(mode), request)
    /\ attempts' = attempts + 1
    /\ phase' = "Sent"
    /\ UNCHANGED <<setup, call, mode, request, reply, output, used, delivered, made, result>>

\* Whether the request opens a stream: also where only streams are served.
Opening == mode = "Stream" \/ (mode = "Complete" /\ setup.forced)

\* The output that each mode has.
Expected == CASE mode = "Complete" -> "Response" [] mode = "Stream" -> "Stream"
              [] mode = "Count" -> "Count" [] mode = "Evaluate" -> "Verdict"

\* An adapter of the application answers in its own way, or fails.
AnswerByAdapter ==
    /\ Ready /\ setup.adapter = "custom"
    /\ \E own \in LayerOutputs :
          /\ IsError(own) \/ own.type = Expected
          /\ Return(PolicyOf(setup.policy, own))
    /\ made' = "Adapter"
    /\ UNCHANGED <<setup, call, mode, request, wire, attempts, reply, used, delivered, result>>

\* Mutant: the warnings are the decoder's alone.
DecodedAlone(told, x) == x

\* finish_response: the warnings of the encoder join those of the decoder.
WithWarnings(told, x) ==
    IF x.type \in {"Response", "Verdict"} THEN [x EXCEPT !.warnings = @ \cup told] ELSE x

\* decode_stream: nothing behind the item that ends a stream is read.
Decoded(items) ==
    LET ends == {n \in DOMAIN items : EndsStream(items[n])}
        last == IF ends = {} THEN Len(items) ELSE CHOOSE n \in ends : \A k \in ends : n <= k
    IN  [n \in 1..last |-> WithWarnings(wire.told, items[n])]

\* What a reply means to the adapter.
Meaning(answer) ==
    CASE answer.kind = "NotSent" ->
            SendError(answer.timedOut, answer.connecting, IF Opening THEN "Safe" ELSE "Never")
      [] answer.kind = "Status" ->
            HttpError(answer.status, answer.cause, answer.body, answer.wait)
      [] answer.kind = "Broken" -> BodyError(answer.cause)
      [] answer.kind = "Refusal" -> Refusal
      [] answer.kind = "Malformed" -> MalformedSuccess
      [] answer.kind = "Answered" ->
            IF mode = "Evaluate"
            THEN DecodeVerdict(call.evaluation, CodecOf(mode), answer.value)
            ELSE answer.value
      [] answer.kind = "Streamed" -> Items(answer.items)

\* The response headers' rate limits: on a response, or leading a stream.
Limited(answer, x) ==
    IF ~answer.limits THEN x
    ELSE CASE x.type \in {"Response", "Verdict"} -> [x EXCEPT !.limits = TRUE]
           [] x.type = "Stream" -> Items(<<Event("RateLimits", 0)>> \o x.items)
           [] OTHER -> x

Receive ==
    /\ phase = "Sent"
    /\ \E answer \in Replies(mode, Opening) :
          LET outcome == Limited(answer, Meaning(answer))
          IN  /\ reply' = answer
              /\ Return(IF outcome.type = "Stream"
                        THEN IF mode = "Complete"
                             THEN PolicyOf(setup.policy, Folded(setup.policy, Decoded(outcome.items)))
                             ELSE Items(Decoded(outcome.items))
                        ELSE PolicyOf(setup.policy, WithWarnings(wire.told, outcome)))
    /\ UNCHANGED <<setup, call, mode, request, wire, attempts, used, delivered, made, result>>

----------------------------------------------------------------------------
(* The client boundary *)

\* complete_object, and what the judge makes of it.
FromObject(response) ==
    IF response.object = {} THEN Final("ResponseDecode")
    ELSE IF call.op = "CompleteObject" THEN response
    ELSE JudgeVerdict(call.evaluation, response, CHOOSE object \in response.object : TRUE)

\* Mutant: a verdict that a layer made is trusted.
AsMade(x) == x

\* validate_verdict, on both paths.
Checked(x) ==
    IF x.type = "Verdict" /\ ~VerdictFits(call.evaluation, x) THEN InvalidVerdict ELSE x

Outcome ==
    LET policed == IF mode = "Evaluate" /\ output.type # "Verdict" THEN output
                   ELSE PolicyOf(setup.policy, output)
    IN  IF IsError(policed) THEN policed
        ELSE IF policed.type # Expected THEN Final("Middleware")
        ELSE IF call.op = "CompleteObject" \/ (call.op = "Evaluate" /\ mode = "Complete")
             THEN Checked(FromObject(policed))
        ELSE IF mode = "Evaluate" THEN Checked(policed) ELSE policed

PassOn ==
    /\ phase = "Back"
    /\ IF Outcome.type = "Stream" THEN phase' = "Streaming" /\ UNCHANGED result
       ELSE Finish(Outcome)
    /\ UNCHANGED <<setup, call, mode, request, wire, attempts, reply, output, used, delivered,
                   made>>

\* One poll of the caller: the item passes the policy below the layer, unless
\* the stream is the layer's, and the one above it.
Poll ==
    /\ phase = "Streaming"
    /\ LET item == NextItem(output.items)
           below == IF made = "Layer" THEN [item |-> item, budget |-> used.below]
                    ELSE PolicyStep(setup.policy, used.below, item)
           above == PolicyStep(setup.policy, used.above, below.item)
       IN  /\ used' = [below |-> below.budget, above |-> above.budget]
           /\ output' = Items(IF output.items = <<>> THEN <<>> ELSE Tail(output.items))
           /\ IF EndsStream(above.item)
              THEN Finish(above.item) /\ UNCHANGED delivered
              ELSE delivered' = Append(delivered, above.item) /\ UNCHANGED <<phase, result>>
    /\ UNCHANGED <<setup, call, mode, request, wire, attempts, reply, made>>

\* The guards: the deadline passes, or the call is cancelled.
Interrupt ==
    /\ phase # "Done"
    /\ \E kind \in {"Timeout", "Cancelled"} : Finish(Final(kind))
    /\ UNCHANGED <<setup, call, mode, request, wire, attempts, reply, output, used, delivered,
                   made>>

Done == phase = "Done" /\ UNCHANGED vars

Next ==
    \/ StartGeneration \/ StartEvaluation
    \/ Forward \/ MapRequest \/ AnswerItself \/ Repeat
    \/ RefuseDispatch \/ NoCount \/ FailBeforeSending \/ Send \/ AnswerByAdapter
    \/ Receive \/ PassOn \/ Poll \/ Interrupt \/ Done

Spec == Init /\ [][Next]_vars

----------------------------------------------------------------------------
(* What is sent *)

Generating == wire.type = "Encoded" /\ mode \in {"Complete", "Stream"}

\* What the row says its model does not take.
DeniesControl(c, value) ==
    CASE c \in {"tools", "sampling"} -> Row.claims[c] = "Unsupported"
      [] c = "choice" -> ToolChoiceSupport(Row.claims, value) = "Unsupported"
      [] c = "format" -> ResponseFormatSupport(Row.claims, value) = "Unsupported"
      [] c = "effort" -> EffortSupport(Row.claims, value) = "Unsupported"
      [] c = "speed" -> Row.claims[value] = "Unsupported"
      [] c = "limit" -> \E limit \in Row.limit : ~(value <= limit)
      [] OTHER -> FALSE

Denied ==
    FactsWhere(request, LAMBDA m, p : ContentSupport(Row.claims, p.kind) = "Unsupported")
        \cup {Control(c) : c \in {n \in DOMAIN request.controls :
                                     DeniesControl(n, request.controls[n])}}

\* No part, control or question that the row denies is ever on the wire, to be
\* answered or to be counted, whatever a layer has made of the request since
\* the client checked it
\* (client/mod.rs, `call`; middleware/mod.rs, `dispatch`).
OnlyWhatTheRowTakes ==
    /\ wire.type = "Encoded" /\ mode # "Evaluate" => CarriedBy(wire) \cap Denied = {}
    /\ wire.type = "Encoded" /\ mode = "Evaluate" => KindsFit(call.evaluation)

\* The facts that a reported drop accounts for.
Accounted(label) ==
    CASE label \in {"metadata", "speed", "stop", "sampling", "limit", "effort", "format"} ->
            {Control(label)}
      [] label = "effort_forced" -> {Control("effort")}
      [] label = "format_forced" -> {Control("format")}
      [] label = "choice_none" -> {Control("choice")}
      [] label = "result_flag" -> {f \in Facts(request) : f[4] = "Failed"}
      [] label = "result_content" -> Held(request)
      [] label = "system_content" ->
            FactsWhere(request, LAMBDA m, p : IsInstruction(m) /\ p.kind # "Text")
      [] label \in {"signature", "reasoning_text"} ->
            FactsWhere(request, LAMBDA m, p : p.kind = "Reasoning")
      [] OTHER -> {}

Namespace(codec) ==
    CASE codec = "openai-chat" -> ChatNamespace
      [] codec = "openai-responses" -> ResponsesNamespace
      [] codec = "anthropic-messages" -> AnthropicNamespace
      [] codec = "gemini-generate" -> GeminiNamespace
      [] codec = "bedrock-converse" -> BedrockNamespace

\* What each encoder leaves out and says nothing of: opaque parts of another
\* protocol, cache hints outside the OpenAI protocols, and its own gaps.
Unspoken(codec) ==
    LET Parts(Picks(_, _)) == FactsWhere(request, Picks)
        Answering == {AnswerFact(i) : i \in DOMAIN request.messages}
        Failed == {f \in Facts(request) : f[4] = "Failed"}
        Details == {f \in Facts(request) : f[4] = "Detail"}
    IN  Parts(LAMBDA m, p : Foreign(p, Namespace(codec))) \cup {Control("cacheHint")} \cup
        CASE codec = "openai-chat" ->
                Parts(LAMBDA m, p : \/ p.kind = "Reasoning" /\ "Redacted" \in p.is
                                    \/ m.role = "Tool" /\ p.kind \notin {"Text", "ToolResult"}
                                    \/ m.role = "Tool" /\ ~PlainAnswer(m) /\ p.kind # "ToolResult")
          [] codec = "openai-responses" ->
                Parts(LAMBDA m, p : \/ p.kind = "ToolCall" /\ "Nameless" \in p.is
                                    \/ p.kind = "Reasoning" /\ Replays(m, "reasoning")
                                    \/ p.kind = "Text" /\ Replays(m, "message")
                                    \/ PlainAnswer(m) /\ p.kind # "Text")
                    \cup Failed
          [] codec = "gemini-generate" ->
                Parts(LAMBDA m, p : p.kind = "Opaque" /\ "NotObject" \in p.is)
                    \cup Answering \cup Details
          [] codec = "anthropic-messages" ->
                Answering \cup Details
                    \cup (IF RawThinking(request) THEN {Control("effort")} ELSE {})
          [] codec = "bedrock-converse" ->
                Answering \cup Details \cup (IF Tools(request) = {} THEN {Control("choice")} ELSE {})

\* Two blocks of the wire, and what is hoisted, have nothing in common.
SentOnce ==
    LET blocks == FlattenSeq([n \in DOMAIN wire.turns |-> wire.turns[n].blocks])
    IN  \A a \in DOMAIN blocks :
            /\ blocks[a] \cap wire.hoisted = {}
            /\ \A b \in DOMAIN blocks : a # b => blocks[a] \cap blocks[b] = {}

\* The turns follow the messages.
InOrder ==
    \A a, b \in DOMAIN wire.turns : a < b =>
        \A x \in UNION Range(wire.turns[a].blocks), y \in UNION Range(wire.turns[b].blocks) :
            x[1] <= y[1]

Alternating ==
    \A n \in DOMAIN wire.turns :
        /\ wire.turns[n].blocks # <<>>
        /\ n > 1 => wire.turns[n].role # wire.turns[n - 1].role

\* A thinking budget has its minimum and leaves room for an answer.
ThinkingFits(plan) ==
    \A b \in plan.thinking : b >= MinThinkingBudget /\ b < plan.maxTokens

\* Whatever the caller put into a request is on the wire, once and in order,
\* or its drop is reported, or it is one of the omissions listed above; the
\* turns of the protocols that want them to alternate do; and a thinking
\* budget is one that Claude accepts (codecs/*/encode.rs, codecs/claude.rs).
EncodedFaithfully ==
    Generating =>
        LET codec == CodecOf(mode)
        IN  /\ Facts(request) \subseteq
                  CarriedBy(wire) \cup UNION {Accounted(l) : l \in wire.told} \cup Unspoken(codec)
            /\ SentOnce /\ InOrder
            /\ codec \in {"anthropic-messages", "bedrock-converse", "gemini-generate"} => Alternating
            /\ codec = "anthropic-messages" => ThinkingFits(AnthropicPlan(Row, request))
            /\ codec = "bedrock-converse" => ThinkingFits(BedrockPlan(Row, request))

\* A tool message that answers a call with plain content is an answer on the
\* wire (codecs/bedrock/encode.rs, `conversation`): "A tool message whose
\* result rides on the message rather than in a `ToolResult` part still has
\* to reach the wire as a `toolResult`".
PlainAnswersAreResults ==
    Generating /\ CodecOf(mode) = "bedrock-converse" =>
        \A i \in DOMAIN request.messages :
            PlainAnswer(request.messages[i]) => AnswerFact(i) \in CarriedBy(wire)

----------------------------------------------------------------------------
(* What comes back *)

\* However the output came about, from a provider, an adapter of the
\* application or a layer, in one piece or as a stream: the caller gets no
\* more than the output limit of each budget, no call of an unfinished turn,
\* and a raw body only when it is to be retained (types/limits.rs).
DeliveredWithinPolicy ==
    /\ \A kind \in DOMAIN NoneUsed : TotalOf(kind, delivered) <= setup.policy.output
    /\ result.type \in {"Response", "Verdict"} =>
          /\ result.size <= setup.policy.output
          /\ result.raw # NoRaw => setup.policy.retainRaw
    /\ result.type = "Response" => (Unfinished(result) => result.calls = {})

Succeeded(answer) ==
    \/ answer.kind = "Answered"
    \/ answer.kind = "Streamed" /\ \E n \in DOMAIN answer.items : answer.items[n].type = "Response"

\* In the headers of the reply, or in its stream before that ends.
LimitsSeen(answer) ==
    \/ answer.limits
    \/ answer.kind = "Streamed" /\ \E n \in DOMAIN answer.items :
          /\ TellsLimits(answer.items[n])
          /\ \A k \in 1..n : ~EndsStream(answer.items[k])

\* What a judge's value says of a question, by the rubric it was shown.
SaysSo(question, value, answer) ==
    IF question.kind = "choice" THEN answer.choice = Rubric(question)[value.n]
    ELSE answer.number = value.n

\* Every verdict fits the evaluation it answers, whoever made it.  What a
\* provider answered rests on a reply that succeeded, with every drop of the
\* encoder and the rate limits reported with it, also when a stream was folded
\* into it, and a judge's verdict says what its codes stood for (client/mod.rs,
\* `evaluate_with_context`; providers/mod.rs, `finish_response` and
\* `complete_by_streaming`; client/judge.rs).
AnswersTheCall ==
    /\ result.type = "Verdict" => VerdictFits(call.evaluation, result)
    /\ made = "Provider" /\ result.type \in {"Response", "Verdict"} =>
          /\ Succeeded(reply)
          /\ wire.told \subseteq result.warnings
          /\ mode # "Stream" => (LimitsSeen(reply) => result.limits)
          /\ result.type = "Verdict" /\ mode = "Complete" /\ reply.kind = "Answered" =>
                \A i \in DOMAIN call.evaluation : \A object \in reply.value.object :
                    SaysSo(call.evaluation[i], object[Key(i)],
                           result.answers[call.evaluation[i].id])

NamedSpent(message) == \E phrase \in message : phrase = "SpentQuota"

\* A reply that settles its call: the provider may be at work on it, has
\* refused it, or has said that asking again is of no use.
Settles(answer) ==
    CASE answer.kind = "NotSent" -> answer.timedOut /\ ~answer.connecting /\ ~Opening
      [] answer.kind = "Broken" -> answer.cause \in {"TooLong", "TimedOut"}
      [] answer.kind = "Status" ->
            \/ answer.status \in {401, 403, 404, 412, 413}
            \/ /\ answer.status = 429 /\ answer.cause = Absent
               /\ \/ FirstField(answer.body, CodeFields, NoCode) = SpentQuotaCode
                  \/ NamedSpent(FirstField(answer.body, MessageFields, NoMessage))
      [] OTHER -> answer.kind = "Refusal" \/ (answer.kind = "Answered" /\ mode = "Evaluate")

\* A layer that repeats what is retryable never sends a request again whose
\* last reply settled it (transport/mod.rs, `finish`; transport/classify.rs;
\* transport/body.rs; client/mod.rs, `evaluate`).
RepeatsAreSafe ==
    [][attempts' > attempts /\ reply # Nothing => ~Settles(reply)]_vars

=============================================================================
