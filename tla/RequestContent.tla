--------------------------- MODULE RequestContent ---------------------------
(***************************************************************************)
(* A request, the checks it passes before any codec sees it                *)
(* (types/request.rs, resolver/validation.rs), and what the encoders share *)
(* (codecs/content.rs, codecs/options.rs).                                 *)
(*                                                                         *)
(* A part has a kind, the marks it is told by, and for a tool result the   *)
(* kinds it holds.  What a caller puts into a request is a set of facts:   *)
(* <<i, j, k, what>> is about part j of message i, about the k-th part of  *)
(* the result when k > 0, about the message when j = 0, and a control when *)
(* i = 0.  A wire block is the set of the facts it carries.                *)
(***************************************************************************)
EXTENDS Capabilities, FiniteSets, SequencesExt

Part(kind, is) == [kind |-> kind, is |-> is, holds |-> <<>>]
Result(holds, is) == [kind |-> "ToolResult", is |-> is, holds |-> holds]

\* `is` of a message: Answers when it labels the call it answers, OddId when
\* that label is no identifier of Bedrock's.
Message(role, parts, is) == [role |-> role, parts |-> parts, is |-> is]

\* Only the controls that are set are in the domain of `controls`.
Request(messages, controls) == [messages |-> messages, controls |-> controls]
Has(request, control) == control \in DOMAIN request.controls
Tools(request) == IF Has(request, "tools") THEN Range(request.controls.tools) ELSE {}
Choice(request) == IF Has(request, "choice") THEN request.controls.choice ELSE "Absent"
Format(request) == IF Has(request, "format") THEN request.controls.format ELSE "Absent"

PartsOf(request) == UNION {Range(m.parts) : m \in Range(request.messages)}
ResultsOf(request) == {p \in PartsOf(request) : p.kind = "ToolResult"}
IsInstruction(m) == m.role \in {"System", "Developer"}

----------------------------------------------------------------------------
(* Building and validating *)

\* The values RequestBuilder::build refuses.
Flaws ==
    [limit |-> 0, sampling |-> "OutOfRange", stop |-> "Blank", metadata |-> "BlankKey",
     format |-> "BlankSchema", choice |-> "Undefined", timeout |-> "Zero",
     options |-> "BlankNamespace"]

Builds(request) ==
    /\ request.messages # <<>>
    /\ \A m \in Range(request.messages) : m.parts # <<>>
    /\ \A c \in DOMAIN request.controls \cap DOMAIN Flaws : request.controls[c] # Flaws[c]
    /\ \A t \in Tools(request) : t.is \cap {"Nameless", "NoFormat"} = {}
    /\ Has(request, "tools") =>
          LET tools == request.controls.tools
          IN  \A a, b \in DOMAIN tools : tools[a].name = tools[b].name => a = b

\* check_controls of a row that makes the claims `c`.
ControlsFit(c, request) ==
    LET Denied(control, support) == Has(request, control) /\ support = "Unsupported"
    IN  /\ ~Denied("tools", c["tools"])
        /\ Has(request, "choice") =>
              ToolChoiceSupport(c, request.controls.choice) # "Unsupported"
        /\ Has(request, "format") =>
              ResponseFormatSupport(c, request.controls.format) # "Unsupported"
        /\ Has(request, "effort") => EffortSupport(c, request.controls.effort) # "Unsupported"
        /\ ~Denied("sampling", c["sampling"])
        /\ Has(request, "cacheHint") /\ request.controls.cacheHint # "Disabled" =>
              c["cache_routing"] # "Unsupported"
        /\ Has(request, "speed") => c[request.controls.speed] # "Unsupported"

\* A row records no limit when its limit is empty.
LimitFits(row, request) ==
    Has(request, "limit") => \A limit \in row.limit : request.controls.limit <= limit

\* check_content: an unknown part is refused whatever the row claims.
ContentFits(c, request) ==
    \A p \in PartsOf(request) : p.kind # "Unknown" /\ ContentSupport(c, p.kind) # "Unsupported"

\* validate_request
RequestFits(row, request) ==
    ControlsFit(row.claims, request) /\ LimitFits(row, request) /\ ContentFits(row.claims, request)

----------------------------------------------------------------------------
(* The facts of a request *)

PartFacts(i, j, p) ==
    (IF "Blank" \in p.is THEN {} ELSE {<<i, j, 0, "part">>})
        \cup {<<i, j, 0, mark>> : mark \in p.is \cap {"Detail", "Failed"}}
HeldFacts(i, j, held) == {<<i, j, k, "part">> : k \in held}

FactsWhere(request, Picks(_, _)) ==
    UNION {UNION {IF Picks(request.messages[i], request.messages[i].parts[j])
                  THEN PartFacts(i, j, request.messages[i].parts[j]) ELSE {}
                  : j \in DOMAIN request.messages[i].parts} : i \in DOMAIN request.messages}

Held(request) ==
    UNION {UNION {HeldFacts(i, j, DOMAIN request.messages[i].parts[j].holds)
                  : j \in DOMAIN request.messages[i].parts} : i \in DOMAIN request.messages}

\* The label of a tool message that has no result to answer with.
PlainAnswer(m) ==
    m.role = "Tool" /\ "Answers" \in m.is /\ \A p \in Range(m.parts) : p.kind # "ToolResult"
AnswerFact(i) == <<i, 0, 0, "answer">>

Control(c) == <<0, 0, 0, c>>
Controls(names, request) == {Control(c) : c \in names \cap DOMAIN request.controls}

\* What shapes the answer; a timeout and raw options are no part of it.
PortableControls ==
    {"tools", "choice", "format", "effort", "sampling", "limit", "speed", "cacheHint",
     "stop", "metadata"}

Facts(request) ==
    FactsWhere(request, LAMBDA m, p : TRUE) \cup Held(request)
        \cup {AnswerFact(i) : i \in {n \in DOMAIN request.messages : PlainAnswer(request.messages[n])}}
        \cup Controls(PortableControls, request)

----------------------------------------------------------------------------
(* What the encoders share *)

\* plain_text: the text parts of one message, joined.
PlainText(i, m) ==
    UNION {PartFacts(i, j, m.parts[j]) : j \in {n \in DOMAIN m.parts : m.parts[n].kind = "Text"}}

\* system_text: a message without text contributes nothing.
SystemText(messages, last) ==
    UNION {PlainText(i, messages[i]) : i \in {n \in 1..last : IsInstruction(messages[n])}}

FlattensSystem(request, Text(_)) ==
    \E m \in Range(request.messages) : IsInstruction(m) /\ \E p \in Range(m.parts) : ~Text(p)
IsText(p) == p.kind = "Text"

TextOrJsonOnly(holds) == Range(holds) \subseteq {"Text"} \/ Range(holds) \subseteq {"Json"}
FlattensResult(request, Whole(_)) == \E p \in ResultsOf(request) : ~Whole(p.holds)

HeldOf(p, kinds) == {k \in DOMAIN p.holds : p.holds[k] \in kinds}

\* tool_result_text: the text when there is any, else everything serialized.
ResultText(i, j, p) ==
    HeldFacts(i, j, IF "Text" \in Range(p.holds) THEN HeldOf(p, {"Text"}) ELSE DOMAIN p.holds)

\* has_foreign_signature and carries_foreign_signature: of another family or
\* of none.  An opaque part belongs to the codec of its namespace.
ForeignSignature(p, family) == p.kind = "Reasoning" /\ "Signed" \in p.is /\ family \notin p.is
CarriesForeignSignature(request, family) ==
    \E p \in PartsOf(request) : ForeignSignature(p, family)
Foreign(p, namespace) == p.kind = "Opaque" /\ namespace \notin p.is

HasCustomTool(request) == \E t \in Tools(request) : "Custom" \in t.is

\* Mutant: a turn of its own for every message.
AppendTurn(turns, role, blocks) == Append(turns, [role |-> role, blocks |-> blocks])

\* Turns: consecutive turns of one role merge, a turn of no blocks is dropped.
PushTurn(turns, role, blocks) ==
    IF blocks = <<>> THEN turns
    ELSE IF turns # <<>> /\ Last(turns).role = role
         THEN [turns EXCEPT ![Len(turns)].blocks = @ \o blocks]
         ELSE Append(turns, [role |-> role, blocks |-> blocks])

\* The turns of a conversation, each message in order.
TurnsOf(messages, RoleOf(_, _), BlocksOf(_, _)) ==
    FoldLeftDomain(
        LAMBDA turns, i : PushTurn(turns, RoleOf(i, messages[i]), BlocksOf(i, messages[i])),
        <<>>, messages)

\* One block for every part that has one, in the order of the parts.
BlocksWhere(i, m, Carries(_), Block(_, _, _)) ==
    LET kept == SelectSeq([j \in DOMAIN m.parts |-> j], LAMBDA j : Carries(m.parts[j]))
    IN  [n \in DOMAIN kept |-> Block(i, kept[n], m.parts[kept[n]])]

\* cache_routing_key: whether a key is sent, and whether it is the caller's.
CacheKeySent(row, request) ==
    /\ row.claims["cache_routing"] = "Supported"
    /\ CASE Has(request, "cacheHint") /\ request.controls.cacheHint = "Disabled" -> FALSE
         [] Has(request, "cacheHint") /\ request.controls.cacheHint = "Key" -> TRUE
         [] OTHER -> row.autoCache /\ row.claims["caching"] = "Supported"

\* An encoded request: the texts hoisted out of the conversation, the turns,
\* the controls on the wire, the drops that are reported, the speed applied.
Encoded(hoisted, turns, controls, told, speed) ==
    [type |-> "Encoded", hoisted |-> hoisted, turns |-> turns, controls |-> controls,
     told |-> told, speed |-> speed]

CarriedBy(encoded) ==
    encoded.hoisted \cup encoded.controls
        \cup UNION {UNION Range(turn.blocks) : turn \in Range(encoded.turns)}

RequestedSpeed(request) == IF Has(request, "speed") THEN request.controls.speed ELSE "Absent"

\* The labels of what was dropped, those whose condition holds.
Labels(conditions) == {label \in DOMAIN conditions : conditions[label]}

=============================================================================
