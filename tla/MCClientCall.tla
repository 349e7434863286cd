---------------------------- MODULE MCClientCall ----------------------------
(***************************************************************************)
(* Model-checking values for parts that share no state: a call of a        *)
(* client, with conversations through every encoder and calls through      *)
(* every outcome; the layer that reads local files; the bill and the       *)
(* estimate of a conversation; what an application builds for a call, and  *)
(* the time that the call gets; what a provider reports, and the date      *)
(* until which it asks to wait.  A behaviour is about one of them.         *)
(***************************************************************************)
EXTENDS ClientCall

CONSTANTS FileCalls, Trees, Links, Home, Cwd, MaxFileBytes, MaxTreeChanges,
          Rates, Counters, Sayings, Shapes, MaxCount, PerRate, MediaFloor, MaxCalls, MaxSayings,
          Kinds, Beginnings, BuilderCalls, MaxBuilderCalls, Timeouts, ContextDeadlines, LastInstant,
          MaxPasses, LastYear

\* The roots of a layer are a list, if it has any; sizes are numbers.
ASSUME FilesAssumption ==
    /\ FileCalls # {} /\ MaxFileBytes \in Nat
    /\ \A t \in Trees : \A p \in DOMAIN t : t[p].size \in Nat
    /\ \A c \in FileCalls : \A roots \in c.roots :
          roots \in Seq({roots[i] : i \in DOMAIN roots})

\* A call has one deadline or none, and a payload or a client one timeout or none.
ASSUME TimeAssumption ==
    /\ ContextDeadlines # {}
    /\ \A some \in ContextDeadlines \cup Timeouts :
          some \subseteq Nat /\ \A s, t \in some : s = t

VARIABLES part, fileCall, tree, stage, fates, resolved, rootAt, failure, seen, treeChanges,
          rates, parts, total, calls, shape, said, estimate,
          building, told, builder, product, reloaded, passes, now, context, deadline,
          report,     \* of a provider, its code and the phrases of its message
          civil,      \* a date of the calendar
          elapsed     \* the days since the epoch

Local == INSTANCE LocalFiles
Bill == INSTANCE Accounting
Building == INSTANCE RequestBuilding

\* The same modules for the values below, on which the others depend.
File == INSTANCE LocalFiles WITH FileCalls <- {}
Cost == INSTANCE Accounting WITH Rates <- {}, Sayings <- {}
Told == INSTANCE RequestBuilding WITH Beginnings <- <<>>, BuilderCalls <- <<>>

localVars == <<fileCall, tree, stage, fates, resolved, rootAt, failure, seen, treeChanges>>
billVars == <<rates, parts, total, calls, shape, said, estimate>>
buildVars == <<building, told, builder, product, reloaded>>
timeVars == <<passes, now, context, deadline>>
wordVars == <<report, civil, elapsed>>
partVars == <<part, vars, localVars, billVars, buildVars, timeVars, wordVars>>

\* The parts that a behaviour is not about.
SomeCase == CHOOSE c \in Cases : TRUE
NoCall == setup = SomeCase.setup /\ call = SomeCase.call /\ Init
NoFiles ==
    /\ fileCall = CHOOSE c \in FileCalls : TRUE
    /\ tree = CHOOSE t \in Trees : TRUE
    /\ Local!FileInit

NoBill ==
    /\ rates = CHOOSE r \in Rates : TRUE
    /\ shape = CHOOSE s \in Shapes : TRUE
    /\ Bill!BillInit

NoBuilder == Building!BeginWith(CHOOSE k \in Kinds : TRUE, 1)
NoTime ==
    /\ context = CHOOSE d \in ContextDeadlines : TRUE
    /\ Building!TimeInit

\* The calendar: the dates, one after another.
Leap(year) == year % 4 = 0 /\ (year % 100 # 0 \/ year % 400 = 0)
LastDay(year, month) ==
    IF month = 2 THEN IF Leap(year) THEN 29 ELSE 28 ELSE IF month \in {4, 6, 9, 11} THEN 30 ELSE 31
Date(year, month, day) == [year |-> year, month |-> month, day |-> day]
DateAfter(d) ==
    IF d.day < LastDay(d.year, d.month) THEN [d EXCEPT !.day = @ + 1]
    ELSE IF d.month < 12 THEN Date(d.year, d.month + 1, 1) ELSE Date(d.year + 1, 1, 1)
NextDay == civil' = DateAfter(civil) /\ elapsed' = elapsed + 1 /\ UNCHANGED report

Epoch == civil = Date(1970, 1, 1) /\ elapsed = 0
NoWord == report = [code |-> NoCode, message |-> {}] /\ Epoch

\* The codes that providers send: those of the tables, and a few that only a
\* rule knows or nothing knows.
RuleOf ==
    [name \in {"request_too_large", "image_too_large", "prompt_too_long", "invalid_api_key",
               "invalid_authentication", "invalid_request_error", "invalid_argument", "invalid_value",
               "unsupported_value", "model_not_found", "monthly_quota_exceeded"} |->
        CASE name \in {"request_too_large", "image_too_large"} -> "too_large"
          [] name = "prompt_too_long" -> "too_long"
          [] name = "unsupported_value" -> "unsupported"
          [] name = "model_not_found" -> "not_found"
          [] name = "monthly_quota_exceeded" -> "quota_exceeded"
          [] OTHER -> "invalid"]
CodeNames == DOMAIN RuleOf \cup {"teapot"} \cup UNION {t.codes : t \in Range(CodeTables)}
Codes == {NoCode} \cup {Code(n, IF n \in DOMAIN RuleOf THEN RuleOf[n] ELSE Absent) : n \in CodeNames}
Phrases == Range(PhraseOrder) \cup {"SpentQuota"}

ReportInit == report \in [code : Codes, message : {{}}] /\ Epoch
AddPhrase ==
    /\ \E p \in Phrases \ report.message : report' = [report EXCEPT !.message = @ \cup {p}]
    /\ UNCHANGED <<civil, elapsed>>
SaysEverything == report.message = Phrases /\ UNCHANGED wordVars
LastDate == civil = Date(LastYear, 12, 31) /\ UNCHANGED wordVars

OneCallInit ==
    \/ part = "call" /\ NoFiles /\ NoBill /\ NoBuilder /\ NoTime /\ Init
    \/ part = "files" /\ Local!FileInit /\ NoBill /\ NoBuilder /\ NoTime /\ NoCall
    \/ part \in {"bill", "estimate"} /\ Bill!BillInit /\ NoFiles /\ NoBuilder /\ NoTime /\ NoCall
    \/ part = "builder" /\ Building!BuildInit /\ NoTime /\ NoFiles /\ NoBill /\ NoCall
    \/ part = "time" /\ Building!TimeInit /\ NoBuilder /\ NoFiles /\ NoBill /\ NoCall

MCInit ==
    \/ OneCallInit /\ NoWord
    \/ /\ NoFiles /\ NoBill /\ NoBuilder /\ NoTime /\ NoCall
       /\ (part = "report" /\ ReportInit) \/ (part = "calendar" /\ NoWord)

CallStep ==
    part = "call" /\ Next /\ UNCHANGED <<part, localVars, billVars, buildVars, timeVars, wordVars>>
FileStep ==
    part = "files" /\ Local!FileNext
    /\ UNCHANGED <<part, vars, billVars, buildVars, timeVars, wordVars>>
ChargeStep ==
    /\ part = "bill" /\ (Bill!ChargeNext \/ Bill!AllCharged)
    /\ UNCHANGED <<part, vars, localVars, buildVars, timeVars, wordVars>>
EstimateStep ==
    /\ part = "estimate" /\ (Bill!EstimateNext \/ Bill!AllSaid)
    /\ UNCHANGED <<part, vars, localVars, buildVars, timeVars, wordVars>>
BuilderStep ==
    /\ part = "builder" /\ (Building!BuildNext \/ Building!BuildOver)
    /\ UNCHANGED <<part, vars, localVars, billVars, timeVars, wordVars>>
TimeStep ==
    /\ part = "time" /\ (Building!TimeNext \/ Building!TimeOver)
    /\ UNCHANGED <<part, vars, localVars, billVars, buildVars, wordVars>>
ReportStep ==
    /\ part = "report" /\ (AddPhrase \/ SaysEverything)
    /\ UNCHANGED <<part, vars, localVars, billVars, buildVars, timeVars>>
CalendarStep ==
    /\ part = "calendar" /\ ((civil # Date(LastYear, 12, 31) /\ NextDay) \/ LastDate)
    /\ UNCHANGED <<part, vars, localVars, billVars, buildVars, timeVars>>

MCNext ==
    \/ CallStep \/ FileStep \/ ChargeStep \/ EstimateStep \/ BuilderStep \/ TimeStep
    \/ ReportStep \/ CalendarStep

MCSpec == MCInit /\ [][MCNext]_partVars

\* A provider's report means the same in a response as inside a stream, where
\* the status says nothing of its own, unless it blames the key (classify,
\* transport/classify.rs); spent quota is told from throttling in both; and
\* what the provider may have worked on until its own deadline is asked again
\* on neither, but for a response that says 429.
ReportsAgree ==
    part = "report" =>
      LET meant(status) == Classify(status, report.code, report.message, {})
          inStream == meant(NoStatus)
      IN /\ KindFromCode(report.code) # Absent =>
               /\ meant(402) = inStream
               /\ KindFromMessage(report.message) # "Authentication" =>
                     meant(400) = inStream /\ meant(422) = inStream
         /\ inStream.kind = "QuotaExceeded" => meant(429) = inStream
         /\ report.code.name = "deadline_exceeded" =>
               \A status \in {NoStatus, 402, 404, 408, 500, 503, 504} : ~IsRetryable(meant(status))

\* A wait until a date ends at that date, by the calendar (parse_retry_after,
\* transport/classify.rs), and a date that is past asks for no wait.
WaitsEndOnTime ==
    part = "calendar" =>
      \A hour \in {0, 23}, today \in (elapsed - 1)..(elapsed + 1), second \in {0, 43200, 86399} :
          LET asked == DateHeader(civil.year, civil.month, civil.day, hour, 59, 30)
              left == (elapsed - today) * 86400 + hour * 3600 + 59 * 60 + 30 - second
          IN  ParseRetryAfter(asked, [day |-> today, second |-> second]) = {left} \cap 1..200000

\* Nothing is repeated that was settled, and what is repeated waits as long as
\* the provider asked for, and no longer.
RepeatsAreSound == RepeatsAreSafe /\ [](ReportsAgree /\ WaitsEndOnTime)

\* A request is what its caller made it: what was built says what the builder
\* was told, through JSON and middleware, its call has the time it was given,
\* and a file in it is inlined whole or not at all.
RequestsAreWhole ==
    Building!BuiltAsTold /\ Building!DeadlineOnlyNears /\ Local!FilesAreWhole

\* A bill is the sum of what its calls cost, and an estimate that is kept is
\* the estimate of the whole request.
TotalsAreHonest == Bill!BillIsHonest /\ Bill!EstimateIsWhole

----------------------------------------------------------------------------

T == Part("Text", {})
Empty == Part("Text", {"Blank"})
User == Message("User", <<T>>, {})
Says(content) == Message("Assistant", content, {})
Answering(content) == Message("Tool", content, {"Answers"})
Called(is) == Says(<<T, Part("ToolCall", is)>>)

Conversations ==
    {<<Message("System", <<T>>, {}), User, Message("Developer", <<T, Part("Image", {})>>, {}), User,
       Message("System", <<T>>, {})>>,
     <<User, Message("User", <<T, Part("Image", {"Detail"}), Part("Json", {})>>, {})>>,
     <<User, Called({}), Message("Tool", <<Result(<<"Text">>, {}), T>>, {}), User>>,
     <<User, Called({}), Message("Tool", <<Result(<<"Text", "Image">>, {"Failed"}),
                                           Result(<<"Json", "Json">>, {})>>, {})>>,
     <<User, Called({"Custom"}), Message("Tool", <<Result(<<"Image">>, {"Failed", "AnswersCustom"})>>, {})>>,
     <<User, Called({"Nameless"}), Message("Tool", <<Result(<<"Document", "Text">>, {})>>, {"Answers"})>>,
     <<User, Called({}), Answering(<<T, Part("Json", {})>>)>>,
     <<User, Called({}), Answering(<<Empty>>), Answering(<<Part("Reasoning", {})>>)>>,
     <<User, Says(<<Part("Reasoning", {"Signed", "anthropic"}), T>>), Says(<<Empty>>), User>>,
     <<User, Says(<<Part("Reasoning", {"Signed", "openai", "Redacted"}), T>>)>>,
     <<User, Says(<<Part("Reasoning", {"Signed", "gemini"}), T, T>>), User>>,
     <<User, Says(<<Part("Opaque", {"openai", "reasoning"}), Part("Reasoning", {}), T>>)>>,
     <<User, Says(<<T, Part("Opaque", {"openai", "message"}), Part("Opaque", {"anthropic"})>>)>>,
     <<User, Says(<<Part("Opaque", {"gemini", "NotObject"}), Part("Opaque", {"bedrock"}),
                    Part("Opaque", {"openai_compatible"}), Part("Opaque", {"gemini"})>>)>>,
     <<Message("User", <<T, Part("Audio", {})>>, {})>>,
     <<Message("User", <<Part("Document", {"Unnamed"}), T>>, {})>>,
     <<Message("User", <<Part("Document", {}), Part("Image", {"Url"})>>, {})>>,
     <<Message("User", <<T, Part("Unknown", {})>>, {})>>}

\* A tool message of text alone, labelled with the call that it answers.
Plain == <<User, Called({}), Answering(<<T>>), User>>

Tool(is) == [name |-> "t", is |-> is]
Controlled ==
    {[effort |-> "High", limit |-> 2000], [effort |-> "Max", limit |-> 900], [effort |-> "Low"],
     [tools |-> <<Tool({})>>, choice |-> "Required", effort |-> "Medium", format |-> "JsonSchema"],
     [tools |-> <<Tool({})>>, choice |-> "None", format |-> "Text"], [choice |-> "Auto"], [choice |-> "Required"],
     [tools |-> <<Tool({"Custom"})>>], [tools |-> <<Tool({"OddName"})>>],
     [metadata |-> "Valid", stop |-> "Valid", sampling |-> "Valid", speed |-> "fast"],
     [cacheHint |-> "Key"], [cacheHint |-> "Disabled", limit |-> 5000],
     [options |-> "thinking", effort |-> "High"]}

Encodings ==
    {Request(m, c) : m \in Conversations \cup {<<User>>, Plain}, c \in Controlled \cup {<<>>}}

\* Rows that take everything, and their protocols.
All == [k \in Claims |-> IF k \in EvaluationClaims THEN "Unknown" ELSE "Supported"]
FullRow(levels, turns, claims) ==
    [claims |-> claims, limit |-> {4000}, levels |-> levels, passthrough |-> FALSE,
     systemTurns |-> turns, autoCache |-> turns]

Setup(row, codecs, adapter, is, policy) ==
    [row |-> row, codecs |-> codecs, adapter |-> adapter, policy |-> policy,
     codex |-> "codex" \in is, forced |-> "forced" \in is, native |-> "native" \in is,
     reasonsByDefault |-> "reasons" \in is, layer |-> "layer" \in is]
Policy(most, retainRaw) == [output |-> most, retainRaw |-> retainRaw]

EncodingSetups ==
    {Setup(FullRow(levels, ~levels, All), <<codec>>, "http", {}, Policy(4, FALSE)) :
        levels \in BOOLEAN,
        codec \in {"openai-chat", "openai-responses", "anthropic-messages", "gemini-generate"}}
    \cup {Setup(FullRow(levels, FALSE, All), <<"bedrock-converse">>, "bedrock", {}, Policy(4, FALSE)) :
        levels \in BOOLEAN}
    \cup {Setup(FullRow(TRUE, FALSE, All), <<"openai-responses">>, "http", {"codex", "forced"},
                Policy(4, TRUE))}

Call(op, r, evaluation, settings) ==
    [op |-> op, request |-> r, evaluation |-> evaluation, settings |-> settings]

EncodingCases ==
    {[setup |-> s, call |-> Call("Complete", r, <<>>, {})] : s \in EncodingSetups, r \in Encodings}

\* A row of a small model: no images, no audio, no custom effort.
Small == Claiming([text |-> "Supported", tools |-> "Supported", json_schema |-> "Supported",
                   reasoning |-> "Supported", Minimal |-> "Unsupported", Low |-> "Supported",
                   boolean |-> "Unsupported"])
Judging == Claiming([choice |-> "Supported", score |-> "Supported", boolean |-> "Supported"])

SmallRow == FullRow(TRUE, FALSE, Small)
FlowSetups ==
    {Setup(SmallRow, <<"openai-chat">>, "http", {"layer", "reasons"}, Policy(4, FALSE)),
     Setup(SmallRow, <<"openai-responses">>, "http", {"layer", "codex", "forced"}, Policy(4, FALSE)),
     Setup(SmallRow, <<"bedrock-converse">>, "bedrock", {"layer"}, Policy(4, TRUE)),
     Setup(FullRow(TRUE, FALSE, Judging), <<"openai-chat", "vercel-evaluation">>, "http", {"layer"},
           Policy(4, FALSE)),
     Setup(FullRow(TRUE, FALSE, Judging), <<"systemone">>, "http", {}, Policy(4, TRUE)),
     Setup(SmallRow, <<>>, "custom", {"native", "layer"}, Policy(4, FALSE)),
     Setup(SmallRow, <<>>, "custom", {}, Policy(4, FALSE)),
     Setup(SmallRow, <<>>, "none", {"layer"}, Policy(4, FALSE))}

Tone == Question("tone", "choice", <<"kind", "curt">>)
Grade == Question("grade", "score", <<"low", "mid", "high">>)
Wide == Question("tone", "choice", <<"kind", "curt", "flat">>)
Evaluations == {<<Tone, Grade>>, <<Question("sure", "boolean", <<>>)>>, <<Wide>>}

Asked == Request(<<User>>, [effort |-> "Low"])
FlowCases ==
    {[setup |-> s, call |-> Call(op, Asked, <<>>, {})] :
        s \in FlowSetups, op \in {"Complete", "CompleteObject", "Stream", "Count"}}
    \cup {[setup |-> s, call |-> Call("Evaluate", Asked, e, {"metadata"})] :
        s \in FlowSetups, e \in Evaluations}

MCCases == EncodingCases \cup FlowCases

MCRewrites(r) ==
    {[request |-> [r EXCEPT !.messages = @ \o <<Message("User", <<Part("Image", {})>>, {})>>],
      moved |-> FALSE],
     [request |-> [r EXCEPT !.messages = <<>>], moved |-> FALSE],
     [request |-> r, moved |-> TRUE],
     [request |-> Request(<<User>>, [limit |-> 9000]), moved |-> FALSE]}

----------------------------------------------------------------------------

Object == [k \in {0, 1} |-> IF k = 0 THEN Coded(1) ELSE Number(Unit)]
Ended(finish, toolCalls, size, object) == Response(finish, toolCalls, size, 1, {"decoder"}, FALSE, object)
Whole == Ended("Stop", {}, 3, {Object})

Fits ==
    [id \in {"tone", "grade"} |->
        IF id = "tone"
        THEN Answer("choice", "curt", 0, {[o \in {"kind", "curt"} |-> IF o = "curt" THEN 150 ELSE 50]})
        ELSE Answer("score", NoChoice, Unit, {[n \in 0..2 |-> IF n = 1 THEN Unit ELSE 0]})]
Skewed == [Fits EXCEPT !["tone"].choice = "kind"]

\* The answers of a native protocol: some that fit, and some in each way wrong.
Wires ==
    {Fits, Skewed, [id \in {"tone"} |-> Fits[id]], [Fits EXCEPT !["grade"].kind = "none"],
     [Fits EXCEPT !["grade"].number = 3 * Unit],
     [Fits EXCEPT !["grade"].spread = {}, !["tone"].spread = {[o \in {"kind", "curt"} |-> 101]}],
     [Fits EXCEPT !["tone"].spread = {[o \in {"curt"} |-> Unit]}],
     [id \in {"tone", "grade", "more"} |-> IF id = "more" THEN Fits["grade"] ELSE Fits[id]]}

MCLayerOutputs ==
    {Ended("Length", {"c"}, 3, {}), Ended("Stop", {}, 5, {}), Count,
     Items(<<Event("Incremental", 3), Event("Incremental", 2), Whole>>),
     Items(<<Event("Assembled", 4), Event("Incremental", 1), Ended("Incomplete", {"c"}, 2, {})>>),
     Verdict(Fits, NoRounding, 3, 1, {}, FALSE), Verdict(Skewed, NoRounding, 3, 1, {}, FALSE),
     Repeatable("Server")}

Status(status, cause, body, header) ==
    [kind |-> "Status", status |-> status, cause |-> cause, body |-> body,
     wait |-> ParseRetryAfter(header, [day |-> 1, second |-> 0]), limits |-> FALSE]
NotSent(timedOut, connecting) ==
    [kind |-> "NotSent", timedOut |-> timedOut, connecting |-> connecting, limits |-> FALSE]
Broken(cause) == [kind |-> "Broken", cause |-> cause, limits |-> FALSE]
Answered(value, limits) == [kind |-> "Answered", value |-> value, limits |-> limits]
Streamed(items, limits) == [kind |-> "Streamed", items |-> items, limits |-> limits]

CodeField(code) == [f \in {"error.code"} |-> code]
MessageField(message) == [f \in {"error.message"} |-> message]

Failures ==
    {NotSent(TRUE, FALSE), NotSent(TRUE, TRUE), Status(503, Absent, NoBody, SecondsHeader(2)),
     Status(429, Absent, CodeField(SpentQuotaCode), TextHeader),
     Status(429, Absent, MessageField({"SpentQuota", "RateLimit"}), TextHeader),
     Status(429, Absent, NoBody, TextHeader), Status(401, Absent, NoBody, TextHeader),
     Status(500, "TooLong", NoBody, TextHeader), Status(404, Absent, NoBody, SecondsHeader(2)),
     Status(400, Absent, CodeField(Code("prompt_too_long", "too_long")), TextHeader),
     Status(422, Absent, MessageField({"Authentication", "RateLimit"}), TextHeader),
     Status(500, Absent, CodeField(Code("deadline_exceeded", Absent)), TextHeader),
     Status(402, Absent, CodeField(Code("unsupported_value", "unsupported")), TextHeader),
     Status(429, "Lost", CodeField(SpentQuotaCode), SecondsHeader(2))}

Streams ==
    {Streamed(<<Event("RateLimits", 0), Event("Incremental", 3), Event("Assembled", 3), Whole>>, FALSE),
     Streamed(<<Event("Incremental", 1), Ended("Length", {"c"}, 2, {}), ChunkError("Lost")>>, TRUE),
     Streamed(<<Event("Incremental", 3), Event("Incremental", 2), Whole>>, FALSE),
     Streamed(<<Event("Incremental", 3)>>, TRUE),
     Streamed(<<Event("Assembled", 1), ChunkError("Idle")>>, FALSE)}

MCReplies(m, opening) ==
    Failures \cup
    IF opening THEN Streams
    ELSE {Broken("TimedOut"), Broken("Lost"), Broken("TooLong")} \cup
         CASE m = "Count" -> {Answered(Count, FALSE)}
           [] m = "Complete" ->
                {[kind |-> "Refusal", limits |-> FALSE], [kind |-> "Malformed", limits |-> FALSE],
                 Answered(Whole, TRUE), Answered(Ended("Length", {"c"}, 3, {Object}), FALSE),
                 Answered(Ended("Stop", {}, 5, {}), FALSE)}
           [] m = "Evaluate" ->
                {Answered([answers |-> [id \in DOMAIN a |-> WireAnswer(a[id], legend)],
                           rounding |-> r, size |-> 3, raw |-> 1], TRUE) :
                    a \in Wires, legend \in BOOLEAN,
                    r \in {NoRounding, [probability |-> 2, score |-> 2], [probability |-> 16, score |-> 0]}}
           [] m = "Stream" -> {}

----------------------------------------------------------------------------

Node(kind, size, readable) == [kind |-> kind, size |-> size, readable |-> readable]
Directory == Node("directory", 0, TRUE)
MCTree ==
    (<<>> :> Directory) @@ (<<"in">> :> Directory) @@ (<<"out">> :> Directory)
    @@ (<<"in", "a">> :> Node("file", 1, TRUE)) @@ (<<"in", "locked">> :> Node("file", 1, FALSE))
    @@ (<<"in", "big">> :> Node("file", 3, TRUE)) @@ (<<"in", "pipe">> :> Node("pipe", 0, TRUE))
    @@ (<<"out", "s">> :> Node("file", 2, TRUE))
MCTrees == {MCTree}
MCLinks == (<<"in", "link">> :> <<"out", "s">>) @@ (<<"door">> :> <<"in">>)
MCHome == <<"in">>
MCCwd == <<"out">>

Image(form, names) == File!Media("Image", File!Url(form, names))
Words == File!PlainPart("Text")
Images ==
    {Image("/", <<"in", "a">>), Image("file:///", <<"in", "link">>), Image("/", <<"door", "a">>),
     Image("~/", <<"locked">>), Image("./", <<"..", "in", "big">>), Image("/", <<"in", "pipe">>),
     Image("./", <<"s">>), Image("file://", <<"in", "a">>), Image("https://", <<"a">>),
     Image("/", <<"in", "a", ".", "a">>), Image("/", <<"in", "gone">>)}

MCFileCalls ==
    {[roots |-> r, messages |-> <<File!MessageOf("User", ps), File!MessageOf("Tool", <<last>>)>>] :
        r \in {File!Anywhere, {<<<<"in">>>>}, {<<<<"gone">>, <<"door">>, <<"in">>>>}},
        ps \in {<<Words, i>> : i \in Images} \cup {<<i>> : i \in Images} \cup {<<Words>>},
        last \in {Words, File!Holding(<<Words, Image("/", <<"in", "a">>)>>),
                  File!Holding(<<Image("/", <<"in", "gone">>)>>)}}

----------------------------------------------------------------------------

Rate(in, out, read, write) ==
    [k \in Cost!Priced |-> CASE k = "input" -> in [] k = "output" -> out
                             [] k = "cache_read" -> read [] k = "cache_write" -> write]
Base == Rate({20}, {40}, {2}, {30})
Pricing(base, long, speeds) == [base |-> base, long |-> long, speeds |-> speeds]
Tiered ==
    Pricing([Base EXCEPT !["cache_write"] = {}], {[above |-> 30, rates |-> Rate({40}, {}, {4}, {})]},
            [s \in {"fast"} |-> Rate({}, {90}, {}, {})])
PricedRow(pricing, codec, codecs, speed) ==
    [pricing |-> pricing, codec |-> codec, codecs |-> codecs, applied |-> speed]
MCRates ==
    {PricedRow({Tiered}, {"anthropic-messages"}, <<"openai-chat">>, "fast"),
     PricedRow({Tiered}, {}, <<"vercel-evaluation", "bedrock-converse">>, "slow"),
     PricedRow({Tiered}, {"openai-chat"}, <<"anthropic-messages">>, "none"),
     PricedRow({Pricing(Base, {}, [s \in {} |-> Base])}, {"openai-chat"}, <<"openai-chat">>, "fast"),
     PricedRow({Pricing([Base EXCEPT !["output"] = {}], {}, [s \in {} |-> Base])}, {"openai-chat"}, <<>>, "none"),
     PricedRow({}, {"openai-chat"}, <<"openai-chat">>, "none")}

CountersOf(in, read, write, out, reasoning, cost) ==
    [input |-> in, cache_read |-> read, cache_write |-> write, output |-> out,
     reasoning |-> reasoning, cost |-> cost]
MCCounters ==
    {CountersOf(0, 0, 0, 0, 0, {}), CountersOf(20, 0, 0, 7, 3, {}), CountersOf(31, 25, 0, 0, 0, {}),
     CountersOf(35, 5, 10, 4, 0, {}), CountersOf(20, 15, 9, 5, 9, {}), CountersOf(0, 0, 0, 8, 0, {}),
     CountersOf(30, 0, 0, 1, 1, {7}), CountersOf(900, 0, 0, 900, 0, {}), CountersOf(0, 4, 0, 0, 5, {2})}

Sized(kind, lengths) == Cost!Sized(kind, lengths)
WithPayload(kind, lengths, payload) == [Sized(kind, lengths) EXCEPT !.payload = payload]
Saying(labels, ps) == [labels |-> labels, parts |-> ps]
MCSayings ==
    {Saying(<<4>>, <<Sized("Text", <<7>>)>>),
     Saying(<<4, 3>>, <<Sized("Text", <<0>>), WithPayload("Image", <<9, 3>>, {8})>>),
     Saying(<<4>>, <<WithPayload("Document", <<9, 30>>, {}), WithPayload("Audio", <<9>>, {80})>>),
     Saying(<<9>>, <<[Sized("Reasoning", <<5, 6>>) EXCEPT !.mark = 1], Sized("ToolCall", <<2, 3, 17>>)>>),
     Saying(<<4, 5>>, <<[Sized("ToolResult", <<2, 3>>) EXCEPT
                           !.holds = <<Sized("Json", <<13>>), Sized("Opaque", <<6, 900>>)>>]>>),
     Saying(<<4>>, <<Sized("Unknown", <<40>>), WithPayload("Image", <<9>>, {400})>>)}
MCShapes ==
    {[tools |-> <<>>, controls |-> <<>>, options |-> {}],
     [tools |-> <<<<4, 9, 30>>, <<3, 0, 12>>>>, controls |-> <<6, 40>>, options |-> {21}]}

----------------------------------------------------------------------------

MCKinds == {"request", "evaluation"}

AModel == Told!Set("model", "m")
ATool(name, is) == Told!Push("tools", [name |-> name, kind |-> is])
TheTool(name) == Told!Set("tool_choice", [kind |-> "tool", name |-> name])
AState == Told!Set("state", "Text")
AScale == <<"low", "high">>

MCBeginnings ==
    [k \in MCKinds |->
        IF k = "request"
        THEN <<<<AModel, Told!User("hello")>>, <<Told!System("short"), Told!User("hello")>>,
               <<AModel, ATool("t", "function")>> >>
        ELSE <<<<AModel, AState>>, <<AModel, Told!BooleanQuestion(1)>>,
               <<AState, Told!ScoreQuestion(2, AScale)>> >>]

SharedCalls ==
    <<Told!Set("model", " "), Told!Set("timeout", 0), Told!Set("timeout", 1),
     Told!Set("timeout", 5), Told!MetadataEntry("k", "v"), Told!MetadataEntry("k", "w"),
     Told!MetadataEntry(" ", "v"), Told!ProviderOption("p", "x", 1),
     Told!ProviderOption("p", "y", 2), Told!ProviderOption(" ", "x", 1),
     Told!ProviderOptions("p", [k \in {"x"} |-> 3])>>

MCBuilderCalls ==
    [k \in MCKinds |-> SharedCalls \o
        IF k = "request"
        THEN <<Told!Developer("hurry"), Told!Push("messages", [role |-> "User", content |-> <<>>]),
              ATool("t", "custom"), ATool("u", "custom_without_format"), ATool(" ", "function"), TheTool("t"),
              Told!Set("tool_choice", [kind |-> "auto"]), Told!Set("response_format", " "),
              Told!Set("max_output_tokens", 0), Told!Set("max_output_tokens", 7),
              Told!Set("temperature", "OutOfRange"), Told!Set("top_p", "OutOfRange"),
              Told!CacheKey("tenant"), Told!Set("cache_hint", "Auto"),
              Told!Push("stop_sequences", "end"), Told!Push("stop_sequences", " ")>>
        ELSE <<Told!Set("state", "JsonString"), Told!Set("state", "Null"),
              Told!ChoiceQuestion(1, <<"a", "b", "a">>), Told!ChoiceQuestion(2, <<>>),
              Told!ChoiceQuestion(3, <<"a", " ">>), Told!ScoreQuestion(1, <<"low">>),
              Told!ScoreQuestion(3, AScale), Told!BooleanWithCriteria(2, "yes", "no"),
              Told!BooleanQuestion(0)>>]

MCTimeouts == {{}, {0}, {2}, {3}, {7}}
MCContextDeadlines == {{}, {1}, {4}}
=============================================================================
