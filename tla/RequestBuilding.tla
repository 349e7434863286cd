--------------------------- MODULE RequestBuilding ---------------------------
(***************************************************************************)
(* What an application builds for a call (types/request.rs,                *)
(* evaluation/builder.rs, evaluation/question.rs), and the time the call   *)
(* gets (client/mod.rs, middleware/guard.rs).                              *)
(*                                                                         *)
(* A request or an evaluation is built by one call of its builder after    *)
(* another, may be kept as JSON and read back, and is turned into a        *)
(* builder again by middleware.  A call of a builder is a record of the    *)
(* method, the field or the key, and the value.  A duration is a number of *)
(* halves of a millisecond, a question id a number, 0 for a blank one.     *)
(***************************************************************************)
EXTENDS Integers, SequencesExt

CONSTANTS
    Kinds,              \* "request" and "evaluation"
    Beginnings,         \* of each kind, the calls that a behaviour may begin with, as a sequence
    BuilderCalls,       \* of each kind, the calls that may follow, as a sequence
    MaxBuilderCalls,    \* how many calls there are
    Timeouts,           \* what a call's payload, or the client's default, may be: at most one
    ContextDeadlines,   \* the deadlines of a context, at most one
    LastInstant,        \* the last instant of the platform's clock
    MaxPasses           \* how often a call passes through a client

VARIABLES
    building,   \* what is built
    told,       \* the builder's calls so far
    builder,    \* RequestBuilder or EvaluationBuilder
    product,    \* what build returned, Unmade before
    reloaded,   \* the calls made before JSON was read last
    passes,     \* of each pass through a client, the instant and the timeout
    now,
    context,    \* the deadline the caller set
    deadline    \* CallContext::deadline, or TooLate once a timeout was refused

buildVars == <<building, told, builder, product, reloaded>>
timeVars == <<passes, now, context, deadline>>

Blank == " "
Unmade == [type |-> "Unmade"]

----------------------------------------------------------------------------
(* The builders *)

\* A method that sets a field, pushes to a list, inserts at a key, replaces a
\* provider's options, or adds a question.
Set(field, value) == [method |-> "Set", at |-> field, value |-> value]
Push(list, value) == [method |-> "Push", at |-> list, value |-> value]
MetadataEntry(key, value) == [method |-> "MetadataEntry", at |-> key, value |-> value]
ProviderOption(provider, key, value) ==
    [method |-> "ProviderOption", at |-> provider, key |-> key, value |-> value]
ProviderOptions(provider, options) ==
    [method |-> "ProviderOptions", at |-> provider, value |-> options]
AddQuestion(id, question) == [method |-> "AddQuestion", at |-> id, value |-> question]

\* The shorthands.
System(text) == Push("messages", [role |-> "System", content |-> <<text>>])
Developer(text) == Push("messages", [role |-> "Developer", content |-> <<text>>])
User(text) == Push("messages", [role |-> "User", content |-> <<text>>])
CacheKey(key) == Set("cache_hint", key)

\* choice: options of one name become one, where the first was.
Named(options) ==
    FoldLeft(LAMBDA kept, o : IF o \in Range(kept) THEN kept ELSE Append(kept, o), <<>>, options)
ChoiceQuestion(id, options) == AddQuestion(id, [kind |-> "choice", of |-> Named(options)])
ScoreQuestion(id, levels) == AddQuestion(id, [kind |-> "score", of |-> levels])
BooleanQuestion(id) == AddQuestion(id, [kind |-> "boolean", of |-> <<>>])
BooleanWithCriteria(id, true, false) == AddQuestion(id, [kind |-> "boolean", of |-> <<true, false>>])

With(f, key, value) == [k \in DOMAIN f \cup {key} |-> IF k = key THEN value ELSE f[k]]
At(f, key, none) == IF key \in DOMAIN f THEN f[key] ELSE none
Empty == [k \in {} |-> {}]

DefaultBuilder ==
    [fields |-> Empty, lists |-> [l \in {"messages", "tools", "stop_sequences"} |-> <<>>],
     metadata |-> Empty, options |-> Empty, questions |-> Empty, duplicate |-> {}]

\* Mutant: a question under a known id takes the place of the one before.
QuestionReplaced(b, id, question) == [b EXCEPT !.questions = With(@, id, question)]

\* question: the first one stays, and the first id that is taken is kept.
QuestionAdded(b, id, question) ==
    IF id \notin DOMAIN b.questions THEN [b EXCEPT !.questions = With(@, id, question)]
    ELSE IF b.duplicate = {} THEN [b EXCEPT !.duplicate = {id}] ELSE b

Applied(b, c) ==
    CASE c.method = "Set" -> [b EXCEPT !.fields = With(@, c.at, c.value)]
      [] c.method = "Push" -> [b EXCEPT !.lists[c.at] = Append(@, c.value)]
      [] c.method = "MetadataEntry" -> [b EXCEPT !.metadata = With(@, c.at, c.value)]
      [] c.method = "ProviderOption" ->
            [b EXCEPT !.options = With(@, c.at, With(At(@, c.at, Empty), c.key, c.value))]
      [] c.method = "ProviderOptions" -> [b EXCEPT !.options = With(@, c.at, c.value)]
      [] c.method = "AddQuestion" -> QuestionAdded(b, c.at, c.value)

----------------------------------------------------------------------------
(* build *)

\* The first check that fails, of pairs of an error and whether it applies.
FirstFailing(checks) ==
    LET failing == SelectSeq(checks, LAMBDA c : c[2])
    IN  IF failing = <<>> THEN {} ELSE {Head(failing)[1]}

Is(b, field, value) == field \in DOMAIN b.fields /\ b.fields[field] = value

\* The loop over the tools: of the first that is refused, the first reason.
ToolChecks(tools) ==
    FlattenSeq([n \in DOMAIN tools |->
        <<<<"EmptyToolName", tools[n].name = Blank>>,
          <<"DuplicateToolName", \E m \in 1..(n - 1) : tools[m].name = tools[n].name>>,
          <<"CustomToolFormatRequired", tools[n].kind = "custom_without_format">> >>])

\* RequestBuilder::build, check after check.
RequestChecks(b) ==
    <<<<"MissingModel", "model" \notin DOMAIN b.fields>>,
      <<"EmptyModel", Is(b, "model", Blank)>>,
      <<"NoMessages", b.lists.messages = <<>> >>,
      <<"EmptyMessage", \E m \in Range(b.lists.messages) : m.content = <<>> >>,
      <<"ZeroOutputTokens", Is(b, "max_output_tokens", 0)>>,
      <<"InvalidTemperature", Is(b, "temperature", "OutOfRange")>>,
      <<"InvalidTopP", Is(b, "top_p", "OutOfRange")>>,
      <<"ZeroTimeout", Is(b, "timeout", 0)>>,
      <<"EmptyStopSequence", Blank \in Range(b.lists.stop_sequences)>>,
      <<"EmptyMetadataKey", Blank \in DOMAIN b.metadata>> >>
    \o ToolChecks(b.lists.tools) \o
    <<<<"UnknownToolChoice",
        /\ "tool_choice" \in DOMAIN b.fields /\ b.fields.tool_choice.kind = "tool"
        /\ \A t \in Range(b.lists.tools) : t.name # b.fields.tool_choice.name>>,
      <<"EmptySchemaName", Is(b, "response_format", Blank)>>,
      <<"EmptyProviderNamespace", Blank \in DOMAIN b.options>> >>

\* The questions in the order of their ids.
QuestionChecks(questions) ==
    LET ids == SetToSortSeq(DOMAIN questions, <)
    IN  FlattenSeq([n \in DOMAIN ids |->
            LET q == questions[ids[n]]
            IN  <<<<"EmptyQuestionId", ids[n] = 0>>,
                  <<"NoOptions", q.kind = "choice" /\ q.of = <<>> >>,
                  <<"EmptyOptionName", q.kind = "choice" /\ Blank \in Range(q.of)>>,
                  <<"TooFewLevels", q.kind = "score" /\ Len(q.of) < 2>> >>])

\* EvaluationBuilder::build: its timeout, metadata and options are not checked.
EvaluationChecks(b) ==
    <<<<"MissingModel", At(b.fields, "model", Blank) = Blank>>,
      <<"MissingState", At(b.fields, "state", "Null") = "Null">>,
      <<"NoQuestions", b.questions = Empty>>,
      <<"DuplicateQuestion", b.duplicate # {}>> >>
    \o QuestionChecks(b.questions)

BuildError(k, b) == FirstFailing(IF k = "request" THEN RequestChecks(b) ELSE EvaluationChecks(b))

\* A request and an evaluation have the fields of their builder.
Built(k, b) ==
    IF BuildError(k, b) = {} THEN [type |-> "Made", thing |-> b]
    ELSE [type |-> "Refused", error |-> CHOOSE e \in BuildError(k, b) : TRUE]

IntoBuilder(thing) == [thing EXCEPT !.duplicate = {}]

----------------------------------------------------------------------------
(* JSON *)

Millis(duration) == 2 * (duration \div 2)

\* A text state and a JSON string are the same in JSON.
Stored(field, value) ==
    IF field = "timeout" THEN Millis(value)
    ELSE IF field = "state" /\ value = "JsonString" THEN "Text"
    ELSE value

\* Mutant: the options of the providers are not serialized.
FromJsonLosingOptions(thing) ==
    [thing EXCEPT !.fields = [f \in DOMAIN @ |-> Stored(f, @[f])], !.options = Empty]

\* What is serialized, and read back into a builder.
FromJson(thing) ==
    [thing EXCEPT !.fields = [f \in DOMAIN @ |-> Stored(f, @[f])], !.duplicate = {}]

----------------------------------------------------------------------------
(* An application builds *)

BeginWith(kind, n) ==
    /\ building = kind /\ told = Beginnings[kind][n]
    /\ builder = FoldLeft(Applied, DefaultBuilder, told)
    /\ product = Unmade /\ reloaded = 0

BuildInit == \E kind \in Kinds : \E n \in DOMAIN Beginnings[kind] : BeginWith(kind, n)

MayFollow == Len(told) < MaxBuilderCalls

CallBuilder ==
    /\ product = Unmade /\ MayFollow
    /\ \E n \in DOMAIN BuilderCalls[building] :
          LET c == BuilderCalls[building][n]
          IN  builder' = Applied(builder, c) /\ told' = Append(told, c)
    /\ UNCHANGED <<building, product, reloaded>>

Build ==
    /\ product = Unmade
    /\ product' = Built(building, builder)
    /\ UNCHANGED <<building, told, builder, reloaded>>

\* Request::into_builder, Evaluation::into_builder
Reopen ==
    /\ product.type = "Made" /\ MayFollow
    /\ builder' = IntoBuilder(product.thing) /\ product' = Unmade
    /\ UNCHANGED <<building, told, reloaded>>

\* Reading JSON builds.
Reload ==
    /\ product.type = "Made"
    /\ builder' = FromJson(product.thing) /\ product' = Built(building, FromJson(product.thing))
    /\ reloaded' = Len(told)
    /\ UNCHANGED <<building, told>>

BuildNext == CallBuilder \/ Build \/ Reopen \/ Reload

\* What was refused is not built upon.
BuildOver == product.type = "Refused" /\ UNCHANGED buildVars

----------------------------------------------------------------------------
(* The time a call gets *)

TimeInit ==
    /\ context \in ContextDeadlines /\ deadline = context
    /\ passes = <<>> /\ now = 0

\* A timeout past the end of the clock is refused.
TooLate == {-1}

\* Mutant: a timeout replaces the deadline.
WithTimeoutReplacing(before, timeout) ==
    IF now + timeout > LastInstant THEN TooLate ELSE {now + timeout}

\* CallGuard::with_timeout: the earlier of the two deadlines.
WithTimeout(before, timeout) ==
    IF now + timeout > LastInstant THEN TooLate
    ELSE {IF \E d \in before : d < now + timeout THEN CHOOSE d \in before : TRUE ELSE now + timeout}

\* prepare_context_for_timeout, at every pass: a judge, and middleware that
\* calls a client in the same context, pass again.
Prepare ==
    /\ deadline # TooLate /\ Len(passes) < MaxPasses
    /\ \E own \in Timeouts, default \in Timeouts :
          LET timeout == IF own # {} THEN own ELSE default
          IN  /\ deadline' = IF timeout = {} THEN deadline
                             ELSE WithTimeout(deadline, CHOOSE t \in timeout : TRUE)
              /\ passes' = Append(passes, [at |-> now, own |-> own, default |-> default])
    /\ UNCHANGED <<now, context>>

TimePasses == now < LastInstant /\ now' = now + 1 /\ UNCHANGED <<passes, context, deadline>>

TimeNext == Prepare \/ TimePasses
TimeOver == now = LastInstant /\ UNCHANGED timeVars

----------------------------------------------------------------------------
(* Properties *)

\* The calls of a method, in order, with their places.
CallsOf(method, at) == {n \in DOMAIN told : told[n].method = method /\ told[n].at = at}
LastOf(places) == CHOOSE n \in places : \A m \in places : m <= n
Kept(n) == IF n <= reloaded /\ told[n].method = "Set" THEN Stored(told[n].at, told[n].value)
           ELSE told[n].value

\* What the calls say about one option of a provider: the last that touched it.
OptionTold(provider, key) ==
    LET places == CallsOf("ProviderOptions", provider)
                  \cup {n \in CallsOf("ProviderOption", provider) : told[n].key = key}
        last == told[LastOf(places)]
    IN  IF places = {} THEN {}
        ELSE IF last.method = "ProviderOption" THEN {last.value}
        ELSE {last.value[k] : k \in DOMAIN last.value \cap {key}}

Providers == {told[n].at : n \in {m \in DOMAIN told :
                                     told[m].method \in {"ProviderOption", "ProviderOptions"}}}
OptionKeys == {told[n].key : n \in {m \in DOMAIN told : told[m].method = "ProviderOption"}}
              \cup UNION {DOMAIN told[n].value : n \in {m \in DOMAIN told :
                                                           told[m].method = "ProviderOptions"}}

\* What was built says what its builder was told, whatever was built, kept and
\* reopened in between: the last value of a field, a key and an option, every
\* message, tool and stop sequence in order, and every question, so that no
\* question has replaced another.  It can be built again as it is; from JSON
\* too, unless a timeout of a request is less than the millisecond that is kept.
BuiltAsTold ==
    product.type = "Made" =>
      LET thing == product.thing
          field(f) == CallsOf("Set", f)
      IN /\ DOMAIN thing.fields = {told[n].at : n \in {m \in DOMAIN told : told[m].method = "Set"}}
         /\ \A f \in DOMAIN thing.fields : thing.fields[f] = Kept(LastOf(field(f)))
         /\ \A l \in DOMAIN thing.lists :
               LET pushes == SelectSeq(told, LAMBDA c : c.method = "Push" /\ c.at = l)
               IN  thing.lists[l] = [n \in DOMAIN pushes |-> pushes[n].value]
         /\ \A n \in DOMAIN told : told[n].method = "MetadataEntry" =>
               At(thing.metadata, told[n].at, Blank) = Kept(LastOf(CallsOf("MetadataEntry", told[n].at)))
         /\ \A p \in Providers : \A k \in OptionKeys :
               LET kept == At(thing.options, p, Empty)
               IN  OptionTold(p, k) = {kept[x] : x \in DOMAIN kept \cap {k}}
         /\ \A n \in DOMAIN told : told[n].method = "AddQuestion" =>
               thing.questions[told[n].at] = told[n].value
         /\ Built(building, IntoBuilder(thing)) = product
         /\ \/ Built(building, FromJson(thing)).type = "Made"
            \/ building = "request" /\ At(thing.fields, "timeout", 0) = 1

\* The deadlines of a call: its context's, and what each pass allowed, from the
\* instant of that pass, by the payload's own timeout or else by the client's.
Allowed(p) == {p.at + t : t \in IF p.own # {} THEN p.own ELSE p.default}
Deadlines == context \cup UNION {Allowed(passes[n]) : n \in DOMAIN passes}

\* Every pass may bring a call's deadline forward, none moves it back: it is the
\* earliest of what the caller set and what each pass allowed.
DeadlineOnlyNears ==
    deadline # TooLate => deadline = {d \in Deadlines : \A e \in Deadlines : d <= e}

=============================================================================
