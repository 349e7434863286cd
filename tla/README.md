# Verification of lithos-llm

TLA+ models of the parts of lithos-llm whose correctness depends on the order
in which things happen, the TLC configurations that check small instances of
them, and TLAPS proofs of the main results for every value of the constants.

Paths below are relative to the crate's `src/` directory. A module's opening
comment names the code it models; the definitions that stand for code, but for some
abbreviations and constructors of values, are traced to its lines in `PROJECT.json` (`map`). Definitions keep the code's names
where TLA+ allows it. Operators whose comment begins with *Mutant* are not part
of a specification: each is a plausible bug, and `PROJECT.json` (`mutants`)
names the property that TLC reports broken when the bug replaces the original.

## 1. Inventory

| Component | State | Operations | What is hard |
|---|---|---|---|
| Response stream (`types/stream.rs`) | the inner stream, or nothing after the terminal item | `poll_next`, `inspect`/`map` layers around it | one terminal item, nothing after it; blocks that start once, take deltas while open and end once |
| Retry (`middleware/retry.rs`) | attempt number, `RetryStage`, `Phase::Holding(held)`/`Delivering`, the current attempt's stream | `handle`, `step`, `reconnect`, `wait_before_retry`, `into_output` | a retry must be invisible; failures before and after content; a backoff against a deadline and cancellation |
| Guard (`middleware/guard.rs`) | none of its own: deadline and token of the call | `check`, `run`, `stream`, `permits_retry_after` | races of timer, token and answer; two guards around one layer |
| Concurrency limiter (`middleware/concurrency.rs`) | a semaphore; the permit moves from handler to stream | `handle`, drops | permits lost or held by a call that sleeps or waits for another permit |
| Cancellation token (`middleware/mod.rs`) | a flag and a `Notify` | `cancel`, `cancelled` | a lost wake-up |
| Observer (`middleware/observer.rs`) | `FinishGuard::finished` | `handle`, `Drop` | exactly one outcome, and the right one |
| Stream assembler (`codecs/assembler.rs`) | blocks, parts in closing order, finish reason, `started`, `completed` | `start`, `text`, `reasoning`, `arguments`, `signature`, `reconcile`, `end`, `discard`, `complete`, ... | events that are lost, doubled, out of order or of the wrong kind |
| Stream decoders (`codecs/*/stream.rs`) | an assembler each and a few fields | one handler per wire event, `finish` | the same, plus what each protocol says only implicitly |
| Stream driver (`providers/mod.rs`) | transport stream and decoder | `decode_stream`, `finish_stream`, `complete_by_streaming` | where the stream ends, and how often `finish` runs |
| Transport (`transport/`) | framing buffers, byte counts, idle timer | `push`, `finish`, bounds | chunk boundaries, corrupt lengths, stalls, limits |
| Response policy (`types/limits.rs`) | two byte counts per stream | `response`, `verdict`, `stream` | budgets applied at two boundaries |
| Failure classification (`transport/classify.rs`) | none | `extract`, `classify`, `parse_retry_after` | which failure may be repeated, and when |
| Requests and evaluations (`types/request.rs`, `evaluation/builder.rs`) | a builder | setters, `build`, `into_builder`, serde | one of many fields lost on one of many ways; a question that replaces another |
| Credentials (`credentials.rs`, `transport/headers.rs`, `transport/aws.rs`) | tables; a store another thread changes | registrations, `credentials`, `resolve`, `readiness`, merging and signing of headers | secrets read one after another while they change; which failure of a chain is reported; what is signed |
| Client (`client/mod.rs`) | built adapters, available providers, issues | `build`, `build_ready`, `complete`, `stream`, `complete_object`, `count_input_tokens`, `evaluate` | partial failure of a build; selection never widened; the order of checks, layers and limits around a call |
| Catalog, resolver (`catalog/`, `resolver.rs`) | layers, tables | `merge`, `build`, `resolve`, `offerings`, capability checks | precedence of layers, ids, aliases and defaults; the layer that a failure names |
| Evaluation and judge (`evaluation/`, `client/judge.rs`) | none | `request_for`, `verdict_from`, `validate_verdict`, native decoders | an answer that does not fit its question; rounding |
| Encoders and blocking decoders (`codecs/*/encode.rs`, `decode.rs`) | none | `preflight`, `encode`, `encode_count_tokens`, `decode_response` | five grammars for one conversation: content lost, repeated or reordered in silence |
| Provider adapters (`providers/`) | none of their own | `complete`, `stream`, `count_input_tokens`, `evaluate` | the order of encoding, credentials and sending; completing by streaming |
| Estimates and cost (`estimate.rs`, `cost.rs`, `types/response.rs`) | running sums | `estimate_*`, `estimate_catalog_cost`, `saturating_add` | counters that exceed their totals; sums that saturate or miss a price |
| Local files (`middleware/local_files.rs`) | the roots | `handle`, `load`, `read` | files that change between check and use |
| Probe (`client/probe.rs`) | turns, token counts | `probe` | a verdict that the answers do not support |
| `lllm` (`bin/lllm/`) | arguments, standard streams, a signal | the commands | the reader that leaves, the signal that comes at any await, input that is half read |
| Tracing (`middleware/tracing_layer.rs`) | spans | `handle` | wording; not modelled |

How they interact: the client gives a call to the middleware pipeline.
`Next::run` puts a guard around every layer. Below the last layer the provider
adapter encodes the request, sends it, and drives one `StreamDecoder` over the
transport's events; every decoder owns one `StreamAssembler`, which is where
`StreamEvent`s come from. Each layer wraps the `ResponseStream` it got from
below in one of its own, so a stream's owner owns everything under it, and
dropping the stream drops it all. What comes back passes the response policy
twice, below the layers and at the client's boundary. Nothing is persisted; the
shared state between calls is the limiter's semaphore and the token, and, outside
the crate, the secret store and the file system, which others change meanwhile.

What makes each part correct is stated as properties of its module (section
3); the hazards they answer are listed in `PROJECT.json` (`hazards`) at the line
where each bites.

## 2. Modules

| Module | Models | Uses |
|---|---|---|
| `StreamContract` | `StreamEvent` and the contract that the crate's test oracle `contract::violation` checks | |
| `LogicalStream` | abstract: a caller receives one stream that keeps the contract | `StreamContract` |
| `RetryStream` | `RetryPolicy::next_delay` (budget, backoff, jitter, `Retry-After`), and `RetryMiddleware` between an outer and an inner `CallGuard` | `StreamContract`; refines `LogicalStream` |
| `ConcurrencyLimit` | calls sharing a limiter, retries outside or inside of it | |
| `CancellationToken` | the token's flag and `Notify`, one action per atomic access | |
| `ObservedCall` | `ObserverMiddleware` and `FinishGuard` between two guards | |
| `StreamAssembler` | `StreamAssembler`, one operator per method | `StreamContract` |
| `DecodedStream` | `decode_stream`, `finish_stream`: one decoder, an unreliable transport | `StreamAssembler` |
| `AnthropicStream`, `BedrockStream`, `ChatStream`, `GeminiStream`, `ResponsesStream` | the five `StreamDecoder`s, one action per wire event | `DecodedStream` |
| `CompleteAnswers` | the five blocking decoders, and how a provider tells one document as a stream | the five |
| `ProviderStreams` | any of the five, and their properties | `CompleteAnswers` |
| `EventPipeline` | `with_idle_timeout`, `frame_stream`, `bound_event_data`: what both framers share | |
| `SseFraming` | `SseFramer`, `LineSplitter`, `EventBuilder` | `EventPipeline` |
| `EventStreamFraming` | `EventStreamFramer`, `extract_frames_with_limit` | `EventPipeline` |
| `Authentication` | registration of conventional credentials, `resolve` against a changing store, headers, the URL check, signing for AWS | |
| `Capabilities` | the claims of a row, and the codecs it reaches by them | |
| `CatalogDocument` | TOML documents: `merge`, and the checks of a provider's table | `Capabilities` |
| `CatalogLoad` | `CatalogBuilder` and `Catalog::from_document` | `CatalogDocument` |
| `RouteChoice` | `CatalogResolver` and the listing of offerings | |
| `ClientBuild` | `build`, `build_ready`, `readiness`, `ChainedCredentials` | `RouteChoice` |
| `CommandModels` | `lllm`'s model query and suggestions | `ClientBuild` |
| `RequestContent` | a request as encoders see it, `validate_request`, what encoders share | `Capabilities` |
| `RequestEncoders` | the encoders of Chat and Responses, of Anthropic and Bedrock (with `ThinkingPlan`), of Gemini | `RequestContent` |
| `FailureClass` | `extract`, `classify`, `parse_retry_after`, the failures of the transport | |
| `EvaluationAnswers` | `validate_verdict`, the judge's request and verdict, the native decoders | `FailureClass` |
| `ClientCall` | one call of a client through a layer, an adapter and the response policy | `RequestEncoders`, `EvaluationAnswers` |
| `RequestBuilding` | both builders, their checks, JSON, `into_builder`; the deadline of a call | |
| `LocalFiles` | `InlineLocalFiles`, one action per await | |
| `Accounting` | estimates, token buckets, prices and sums | |
| `CommandInput`, `CommandLine` | the `lllm` process: its input and its life; the library's probe | |
| `RetryStream_proofs`, `StreamContract_proofs`, `Middleware_proofs`, `ProviderStreams_proofs`, `ClientBuild_proofs`, `ClientCall_proofs`, `Transport_proofs` | theorems and proofs | the modules they are about |
| `MC*` | constants for TLC, and the choice of a part | |

A run over parts that share no state picks the part in its initial state
(`part`, or `life` in `MCCatalog`); the variables of the others stay as they start.
That keeps one run per question and does not interleave what does not interact.

### RetryStream

One call, streaming or not. `pc` is where the layer's future or stream stands,
`stage` and `phase` are the code's enums, `held` is the held bookkeeping,
`batch` the items a step returned that the caller has not polled yet. `given` and
`out` are histories: what the current attempt yielded and what the caller has
received. The code is asynchronous but single threaded, so the model's unit of
interleaving is what happens between two awaits: a poll enters through the outer
guard (`Enter`) and runs one action at a time; cancellation (`Cancel`), the clock
(`Tick`), and a drop by the caller may come between any two of them, which is
how a deadline that passes while the policy decides, while the backoff runs, or
between the backoff and the next request is covered. The provider (`Answer`) is
any environment that keeps the stream contract within each attempt, and answers
or not.

Left out: header and request contents; durations are ticks; the response's
finish reason is *Incomplete* or not.

### ConcurrencyLimit

Several calls, one semaphore. The permit is owned by the handler, then by the
stream. The semaphore is outside the repository: the model uses only that a
returned permit goes to a waiter if there is one, and that dropping a granted
acquire passes the permit on. `order` is which of the two layers is registered
first. `RetryOutside` is the case the limiter was hard to get right for: the
same call comes back for another permit.

### StreamAssembler, DecodedStream, the decoders, CompleteAnswers

The assembler is a record and its methods are functions from an assembler to an
assembler, because a decoder calls several of them for one event. Text is a
sequence of fragments, which is enough to tell a prefix from a disagreement
(`reconcile`) and a missing delta from a repeated one. A wire event is a record of
its kind and of the members the decoder looks at.

A stream is one of two things. The transport may deliver the events of a protocol
in *any* order and number, then end or break: losing, doubling, reordering and
truncating are all special cases. This is the assumption of
`providers/decoder_properties.rs`, whose property tests mutate recorded streams.
Or the stream is the telling of one document (`CompleteAnswers`): the events that
a provider sends for it, in one of the ways the protocol leaves open (fragments or
the whole at the end, announced or not, with or without its totals). The same
document also goes through `decode_response`, so that the two decoders of a codec
can be compared (`StreamedAsComplete`).

Left out: JSON shapes, usage values, warnings, ids of calls, metadata, the raw
document, and a body that is no document of the protocol. A chunk of the Chat or
Gemini protocol carries one content member, and its totals and reason with it; a
chunk with several content members is as many chunks here, as each member goes to
blocks of its own, in an order the protocol does not fix. A call without a name
fails or is skipped in the blocking decoders of Chat and Bedrock but becomes a
nameless call in their streams; documents therefore have no such call.

### CancellationToken

The one place where threads meet without a lock. `cancel` (`CancelToken`) is two
steps and a poll of `cancelled` up to four, so a canceller may stop between its two
statements and a waiter between any two of its looks. Each step is one atomic access
and the steps of all threads form one order. The flag is stored with `Release` and
read with `Acquire`; the registration of a `Notified` and `notify_waiters` meet at an
atomic of their own inside `Notify`, so a waiter that registered too late for the
notification also sees the flag that was stored before it. Of `Notify`, which is
outside the repository, the model uses two documented facts: `notify_waiters`
reaches every `Notified` that exists, also one not polled yet, and keeps no
permit for later ones.

### ObservedCall

One call, from the first poll of the layer to the end of its destructors. The
guards are the same as in `RetryStream`; here the drop of what a guard
abandoned (`DropGuard`) is a step of its own, after the error was answered,
because `FinishGuard::drop` asks the token and the clock again and both may have
moved. `told` is what the observer saw, `outcomes` what it was told at the end,
`out` what the layer above got. `Complete` stands for every operation that does
not stream.

### EventPipeline, SseFraming, EventStreamFraming

The body is a sequence of symbols that become a chunk at any moment, so every
split is covered. A framer's `push` takes one step per turn of its loop. Then the
decoder polls the results one by one through `bound_event_data`. The body may end,
or a read may fail or stall between any two chunks; the idle timer is not a
clock but the choice to fire, as the code makes no promise on what a late chunk
does to it.

The symbols of `SseFraming` are the tokens the parser looks for, with their width
in bytes for the limits; a line ending is a symbol of its own, so CR and LF can
be split. Left out: the space after a colon, and the fields `id` and `retry`, which
the parser ignores. A symbol is never split, which matters for the byte-order mark
and for the field names only; both are looked for in the complete line.

A frame of `EventStreamFraming` is a record of what the decoder finds out about it,
in that order: prelude checksum, lengths, frame checksum, headers and payload, the
message type. Lengths are scaled to units. `push` and `extract_frames_with_limit`
are one loop here; in the code the second runs over all frames before the first
looks at any, with the same result, since an error clears what the other read.

Each module ends with the reference its framer is compared with: the events of
the whole body, found by position and without a state (`Parsed`).

### Authentication

A behaviour is the building of one table of mappings (`WithHttp`, `Replace` and
`PushFallback`, whose overwriting makes the order of registration matter) and then up to
two attempts of a call. Each secret of a mapping is read in a step of its own, and another thread may
change the store between two of them: the code's `resolve` does not await, but asks
the application's lookup name by name. Then come the merge of the headers of
application, row and credentials (`Merged`), the check of the URL, and the signing
for AWS with the region chosen from row, configuration and environment. One attempt
runs at a time: attempts share nothing but the store, whose changes are arbitrary.

### CatalogDocument, CatalogLoad, Capabilities

A TOML document is a function from paths to leaves and tables. `CatalogLoad` adds
layers one by one in any order of built-in, file, text and parsed ones (a file may
be missing or unparsable), then merges and checks them as the builder does: file by
file, first the types that the schema takes, then the rules of a provider's table,
then what holds between providers, and the failure names a layer. `Capabilities`
are the claims of a row, and the codecs a row reaches by them.

### RouteChoice, ClientBuild

`RouteChoice` is without state. An operator is a function of the resolver with the
set of its possible results: the code takes the first element of a sorted list, the
model the least elements of the order the list is sorted by, and that there is
exactly one is part of a property. Ids and aliases are numbers in the order of the
catalog's maps; an empty name and the text of an error are left out.

A behaviour of `ClientBuild` is one call of `build` or `build_ready`: `StartReady` is
the selection, `AskLink` one lookup by one link of the chain, `Narrow` what is left
of the selection, `Attempt` one round of the loop. A store that is not a chain is a
chain of one link. `enabled_providers` that was never called is the selection of
every provider, which each of the three places it is read at treats the same way.
`SchemeMismatch` and `Unusable` are handled alike and are one value. An adapter's
factory succeeds or fails; a missing or compiled-out one is a failure.

### CommandModels

`select_query`, the listing and the suggestions of `lllm`, over the client that
`ClientBuild` built and with the answers of `RouteChoice`. Spellings are abstract:
which term is part of which name is a table.

### RequestContent, RequestEncoders

A request is messages of parts with marks, and a set of controls. What a caller puts
into it is a set of facts, each with its place; a wire block is the set of the facts
it carries. An encoder is an operator from a request, a row and a setup to a plan: the
blocks of each turn, the controls, the reported drops, or the failure of `preflight` or
`encode`. `Unspoken` in `ClientCall` lists the few omissions that the encoders make in
silence, each with the place in the code that makes it; anything else that is neither
on the wire nor reported breaks `EncodedFaithfully`. A count is each protocol's own
narrowing of its generation request (`CountAnthropic`, `CountResponses`, `CountGemini`,
`CountBedrock`); `OnlyWhatTheRowTakes` holds of counts too. `ThinkingPlan` is the arithmetic
of thinking budgets, on the numbers of the code.

### FailureClass

`extract` and `classify` as functions of the status, the set of fields of an error body
and the headers. The code tables are the source's (`CodeTables`), spelling by spelling;
the phrases of a message are abstract. `parse_retry_after` takes a number of seconds, a
date or something else; the date goes through the same integer arithmetic as the code
(`DaysFromCivil`). The same operator classifies an error of a response and one
inside a stream, where the status is 200.

### EvaluationAnswers

Questions and their answers as whole numbers of parts, wider than the code's tolerance;
the request a judge sends, with one code per option; what becomes of the judge's
reply; and the verdicts of the two native decoders. Every answer passes
`validate_verdict`, in the codec and again at the client.

### ClientCall

One call of a client: its checks, one application layer, an adapter, the policy. The
layer may map the request, answer alone, rewrite what comes back (`Rewrites`, which
keep to what a layer can build with the public API) and repeat what is retryable that
came from below it. The adapter is a codec's, with or without completing by streaming, or
the application's own, which answers or fails as it likes. `Folded` says what
`complete_by_streaming` leaves of a stream: the first item that ends it or exceeds its
budget decides, and the rate limits count that were told before. It and
`DeliveredWithinPolicy` go by `TotalOf`, what the events of one budget add up to. `Phase` is the place at which the future stands between two awaits, and the
deadline or the token may end the call at each of them. A reply is a status and a body,
a stream with a cut at any item, or a failure of the transport before, during or after the
exchange. The encoders' cases and the flow's cases are initial states of one module:
every conversation goes through the five encoders with the simplest flow, every flow
with the simplest conversations.

### RequestBuilding

The builder is a sequence of calls (`setting`, `building`), any of which may be
`build`, the way through JSON, or `into_builder`; the value that counts is
remembered call by call in a history. The second half is time: each pass through the
client or a layer applies a timeout of the payload or the default (`with_timeout`),
while the clock moves.

### LocalFiles

One action per await of `load`: canonicalizing the path, looking for the root, opening,
asking for the size, reading. Between any two of them another program may replace, grow,
shrink or remove what is at a path. Links stay the same during a call, so the model
does not say what becomes of a path whose link is turned after it was resolved.

### Accounting

Estimates of messages, added up in any order; usage reports as each provider counts
them; the cost at the row's rates, with cached and written tokens at their own; and the
sum of several calls, in any grouping. `u64` saturates at `MaxCount`.

### CommandInput, CommandLine

`CommandInput` is the way from the command line and standard input to one request.
`CommandLine` is the process: which future is polled when, the signal that may
come at any await, the reader of standard output that may leave, blocking reads of
standard input, the exit status. The library's probe runs inside of it, turn by turn.

## 3. Runs

A name in parentheses behind a property is what it is the conjunction of. The
`about` of each row of `PROJECT.json` (`runs`) says the same in a sentence.

| Run | Instance | Properties |
|---|---|---|
| `retry_stream` | 2 blocks, 3 attempts, 3 events per attempt, deadline none or 2 ticks, waits up to 2, `Retry-After` below and above its cap, jitter | `OneAttemptDelivered`, `Accounted`, `OneLogicalStream`, `NoReplay`, `NoWorkAfterStop`, `CallEnds` |
| `provider_streams` | 2 indexes or item ids, 1 fragment, 3 wire events in any order; documents of up to 2 blocks, each text empty or of two fragments, in every telling; five codecs | `OrdinaryContractKept`, `CallerSawTheResponse`, `FinishedAsTold` (`StreamedAsComplete`, `FinishFitsTheCalls`), `BlocksKeepTheirWord` (`SealedStaysWhole`, `CallsAnnounced`, `DoneTellsTheItem`) |
| `middleware` | limiter: 4 calls, 2 permits, 2 attempts; token: 2 cancellers, 3 waiters; observer: deadline none, 0, 1 or 2 ticks, 2 events; process: lines of up to 2 options and chosen longer ones, 5 kinds of standard input, 2 deltas, a probe of up to 5 turns | `PermitsConserved`, `HeldWhileInside`, `EveryCallAdmitted`; `NoLostWakeup`, `CancelEndsWaits`; `OneOutcome`, `OutcomeIsTrue`, `ToldIsDelivered`, `SilentAfterFinish`; `OutcomeIsShown`, `InputIsWhole`, `ProbeIsHonest`; `StopsAreHonoured` (`StopIsReported`, `InterruptStops`) |
| `transport` | SSE: 6 symbols out of three alphabets, both dispatch policies; event streams: 13 units of 11 kinds of frame; a tight frame and a tight output limit each. Authentication: 3 of 9 registrations, 7 rows, 2 stores, 1 change, 2 attempts, 3 AWS configurations | `SplitInvisible`, `HeldWithinLimit`, `WithinLimits`; `FirstCompleteServes`, `HeadersAreRight` |
| `catalog_and_client` | up to 3 layers; 3 providers, two of which stand in for the third, 4 models with shared names, a chain of 2 links, all switches with one explicit adapter and a sample with others | `SoundCatalog`, `OverlayIsLocal`; `ReadyExactly`, `RouteServable`; `ChoicesAgree` (`ListingAgrees`, `CommandFindsModels`) |
| `client_call` | see below | `OnlyWhatTheRowTakes`, `EncodedFaithfully`; `DeliveredWithinPolicy`, `AnswersTheCall`; `RequestsAreWhole` (`BuiltAsTold`, `DeadlineOnlyNears`, `FilesAreWhole`); `TotalsAreHonest` (`BillIsHonest`, `EstimateIsWhole`); `RepeatsAreSound` (`RepeatsAreSafe`, `ReportsAgree`, `WaitsEndOnTime`) |
| `responses_contract`, `internal_calls` | 1 item id, 4 wire events, Responses only | `ContractKept`; `InternalCallsStayOut`: section 6 |
| `unusable_reported`, `query_order` | as `catalog_and_client` | `UnusableIsReported`; `QueryAgreesWithResolver`: section 6 |
| `plain_answers` | as `client_call` | `PlainAnswersAreResults`: section 6 |
| `mid_line` | as `middleware` | `DiagnosticsStartLines`: section 6 |

What they show:

* **`retry_stream`**. `OneLogicalStream` (refinement of `LogicalStream`): the caller
  cannot tell how many attempts there were. `OneAttemptDelivered`: nothing of an
  abandoned attempt and nothing missing of the delivered one. `NoReplay`: no attempt
  after content. `Accounted`: the three places that retry share one counter, one budget
  and one sequence of reports. `NoWorkAfterStop`: no request and no report once the
  call is cancelled or late, wherever in a poll that happens. `CallEnds`: liveness.
* **`provider_streams`**. `OrdinaryContractKept`: the stream contract, and deltas of
  the kind of their block, for all blocks but those of model-internal Responses
  calls. `CallerSawTheResponse`: what block ends and deltas said is the content of the
  final response, without discarded blocks and without calls of an unfinished turn.
  `StreamedAsComplete`: a document told as a stream gives what it gives whole.
  `FinishFitsTheCalls`: the reason a caller loops on. `SealedStaysWhole`: a Bedrock
  payload is never mixed with readable text or shown. `CallsAnnounced`: no call is made
  up whose announcement was lost. `DoneTellsTheItem`: the event that ends a
  Responses item wins over its fragments.
* **`middleware`**. Permits are neither lost nor made up; a call sleeps without one if
  each attempt is limited by itself, and with it otherwise; nobody waits for ever, not
  for its own permit either. Whoever sleeps on a cancelled token has a wake-up or one on
  its way. `on_finish` comes once, whoever is first of the terminal item, the request's
  error and the destructor, with the outcome the layer above got, in all orders but one:
  a call that timed out and is cancelled before it is dropped is reported as cancelled.
  The process' outputs, its exit status and its call agree; what is on the command line
  reaches the request once; a probe's report is what the answers show.
* **`transport`**. What the decoder gets is what the reference finds in the whole body,
  errors and their place included, and memory and output are bounded. Of the registered
  credentials the first whose secrets are all there serves, whatever changes meanwhile;
  the headers sent have the right last word, are marked, signed as sent, and secrets
  stay off an open network.
* **`catalog_and_client`**. Each value is that of the last layer that says anything at
  its place; a failure names a layer that can be corrected; a catalog that loads
  fulfils every assumption of `RouteChoice`. `ready`, the adapters and the issues are
  those of the providers that catalog, application and credentials all leave in, and
  every selector leads to one provider that can serve it, or to one error. Three pieces
  of code that choose a model agree, but for the order in section 6.
* **`client_call`**. Nothing the row denies is ever sent; whatever the caller asked for
  is sent once, in order, or its drop is reported; whatever comes back is within the
  policy and answers what was asked; nothing settled is asked for again, and a wait that
  a provider asks for ends when it said. What is built is what was told; a deadline only
  comes nearer; a file is inlined whole or not at all; bills and estimates add up.

**Bounds.** *Streams.* Three attempts are a first, a repeated and a last one; two blocks
let an event hit the block of another; three events are enough for a block with
content and for a start, an end and a synthesized terminal. The deadline of two
ticks lies before, at and after the waits of one and two ticks that the policy
computes. For the decoders, every hazard needs an event that creates a block,
one that contradicts it and one that ends the stream; the ends and breaks of the
transport are not counted, and documents are told in full whatever their number of
events (`MaxWire` bounds only the arbitrary ones). *Middleware.* Four calls and two
permits leave two waiters, so a returned permit has a choice; two cancellers and three
waiters let one cancel finish, or stop half-way, while a wait of each phase is under way;
five turns of a probe are its longest exchange. *Transport.* Six symbols hold two SSE
lines with a name, data and a CRLF, and the next line's beginning; thirteen units hold
three frames; three registrations are enough for a replacement between two fallbacks.
*Client.* Two links put each failure in front of and behind each other one; three
providers let a provider be missing with two stand-ins built, and let two models tie up
to the id; three layers are a value, its replacement and one that says nothing.

*`client_call`.* Conversations of up to five messages that hold each kind of part
beside each role's peculiarities, each set of controls, eleven setups of encoders; eight
setups for the flow: a codec's adapter, one that completes by streaming, Bedrock's,
the application's own with and without evaluation, none. Two attempts (`MaxAttempts`),
so that a settled one may be followed by another; two options and three levels
(`MaxOptions`, `MaxLevels`); replies of every class, streams cut at every item. Files: two
bytes at most, two changes, three lists of roots and eleven kinds of path. The bill:
`MaxCount` 1000 lets a sum saturate; three calls in every grouping, nine counters, six
rows; three messages of six kinds. Builders: four calls, of which the first two are given
(`Beginnings`) so that every order in which two calls touch one field, key or question
occurs; the clock has six instants and the call two passes. A report is every code of
the tables and some of the rules, with a message of any of six phrases, with any status
the rules tell apart. The calendar is every day from 1970 to the end of 2101, which holds
leap years, a leap year divisible by 400 and a common year divisible by 100.

The proofs do not depend on any of these.

**Fairness.** `RetryStream!FairSpec`: the caller keeps polling (a future that is
not polled makes no progress, and nothing in the crate polls for it) and the
clock goes on (tokio's timers wake the task). The provider is under no
obligation: a call that was stopped ends without it, and `CallEnds` assumes, in
the formula, that attempts are answered only for a call without a deadline.
`LimitFairness`: callers that have started poll on, and attempts end. No call has to
start and nobody has to leave, so admission does not rest on a neighbour giving up.
`TokenFairness`: a thread inside `cancel` finishes it and the runtime polls a woken
task; nobody has to cancel. `ObservedFairness`: as for `RetryStream`, and a destructor
that is due runs. `LineFairness`: the runtime polls a ready task; neither providers,
nor users, nor the readers of its outputs have to do anything.

`CHECK_DEADLOCK` stays on: the end of a call is a stuttering action
(`Finished`, `AllDone`, `Over`, `Done`), so a deadlock would be a call with nothing left
to do that is not over.

## 4. Proofs

All are for arbitrary constants: any policy, set of blocks and deadlines; any finite set
of calls, limit and budget; any threads, tasks and frames; any number of wire events,
items and fragments; any finite catalog and chain of stores; any request, row, layer,
reply and number of attempts.

* `StreamContract_proofs`: lemmas on the contract. It is kept by prefixes; an
  item that may follow extends it; an error may follow any history that has no
  terminal item.
* `RetryStream_proofs`: `TypeCorrect`, `Invariant`, `AttemptsAreAccounted`,
  `RetryIsOneLogicalStream`, `ContentIsNeverReplayed`, `StoppedCallsStartNothing`,
  `OneAttemptIsDelivered`. None of the properties is inductive by itself. The invariant
  `IInv` adds how the counters follow `pc` (`CountInv`: a report is one ahead of the
  attempt exactly during a backoff) and what the caller has, together with what it is
  about to get (`StreamInv`: `out \o batch` keeps the contract; while events are held
  nothing has been delivered, and `held` is what the attempt gave; once delivering,
  they are together what it gave). The refinement follows because every step that
  changes `out` appends one item of a history that keeps the contract. For
  `OneAttemptDelivered`, `EchoInv` says that what is delivered, with what is about to be,
  echoes what the last attempt gave, and echoes all of it once it has ended.
* `Middleware_proofs`, about four parts that share no state; a probe is one run of the process.
  *The limiter*: `LimiterTypeCorrect`, `PermitsAreConserved`, `PermitsAreHeldInside`,
  `LimitIsKept`. `LimitInv` (`AlwaysLimitInv`) adds that a call is queued or
  granted exactly while it is acquiring, and never both; then each semaphore step
  moves one permit, and the limit follows because the active calls own one each.
  *The token*: `WakeupsAreNotLost`, `WakeupsMeanCancelled`. `TokenInv`
  (`AlwaysTokenInv`) adds the types and that a pending notification implies the flag.
  *The observer*: `ObserverTypeCorrect`, `FinishesOnce`, `OutcomesAreTrue`,
  `NothingAfterFinish`, `ObserverMissesNothing`. `OutcomeIsTrue` speaks of the end only;
  `ObservedInv` (`AlwaysObservedInv`) adds that nothing is reported while the call is
  alive, and that an unreported answer in front of the destructor is the outer guard's
  own, with the signal it answered for still up. `ToldInv` adds that what was told was
  delivered, but for an error of the outer guard, which the observer is told as an outcome.
  *The probe*: `ProbesAreHonest`. `SoundProbe` adds that as long as there is no verdict every
  answer was good and, in a tool probe, came with calls, and that the
  probe's own count says whether a call was made. A turn extends two sums by one addend,
  that of the tokens and that of the messages each answer led to; so a result that was in
  its place stays there, and the new ones stand behind all others.
  *The process*: `OutcomesAreShown`, `InterruptSilences`. `ProcessInv`: before its answer the
  process has printed nothing; a stream has printed what it heard, and its writer knows whether
  that ended a line (`Streamed`); an interrupt is taken only while a provider is awaited
  (`SignalInv`). Each way to end is a lemma (`EndsWell`, `EndsBadly`, `Describes`, `Reports`).
  What `--extract` prints is compared with a reference that looks for the fences in all lines at
  once. The scan keeps, behind every line (`Blocks`): its first block is the
  reference's first, and behind its last block the lines read so far have no other; as long as a
  block is open, its content is what stands between (`Reading`).
* `ProviderStreams_proofs`: `DecoderInvariant`, `DecodersKeepTheContract`,
  `CallersHearTheResponse`, `BlocksTellTheTruth`. Nothing is assumed of the events, so the
  proof is about what the assembler remembers. `DecoderInv`: as long as the stream is live,
  the assembler knows, of every block it has told of, whether it is open, of which kind, and
  whether it has ended (`Coherent`); its blocks are the ends it has told, in order, and the
  text of a readable block is what its deltas say (`Honest`). Once it is over, the contract was
  kept (`Kept`) and what the stream told is the response (`Tells`). One lemma per method of
  the assembler shows that it keeps this; each of the five decoders only composes methods.
  `discard` is the one method that forgets a block, and only the Responses decoder calls
  it: the blocks of the calls it keeps to itself are exempt in property and invariant, and
  `responses_contract` (section 6) shows that they must be.
  The content of a response is compared with the events put together. Both are
  concatenations along a history (`Gathered`, a recursive function); that they agree is shown
  by the least index at which they would not (`EachInTurn`, `OneByOne`). For a sealed Bedrock
  payload, `SealedInv` adds that the sealed and the readable blocks are apart, and that
  a sealed one has had no delta. `DoneTellsTheItem` is an action property of the two ways a
  Responses item ends, reconciled or replayed.
* `ClientBuild_proofs`: `BuildInvariant`, `BuildIsExact`, `RoutesAreServable`,
  `ResolverAnswersOnce`. `BuildInv` says what the lookups so far have found (`LookupInv`),
  what they leave of the selection (`SelectionInv`), which issues they raised
  (`IssuesInv`), and of the loop that each provider it has reached is served or explained,
  in the order of the catalog (`LoopInv`). That the resolver answers at all is an existence proof: the finite set of candidates
  has a least element of the order the code sorts by, by a minimal counterexample on
  the number of candidates, since induction over an operator is out of reach.
* `ClientCall_proofs`: `CallInvariant`, `OnlyWhatItTakes`, `WithinPolicy`, `AnswersFit`,
  `NothingSettledIsRepeated`. `CallInv` is a conjunction of parts, one per question: what was
  encoded had passed the check in front of the adapter (`CheckedInv`), and a request
  that passes it has nothing that the row denies (`NothingDenied`); the budget above the
  layer is what the delivered events add up to (`BudgetInv`); an error that may be
  repeated is not the meaning of a reply that settled the call (`RepeatInv`); what
  a provider gave rests on its last reply, with the warnings of the encoder
  and the rate limits (`AnswerInv`). Each transformation on the way (`Meaning`,
  `Limited`, `Decoded`, `Folded`, `PolicyOf`, `Outcome`) has a lemma on what it keeps.
  Running totals are a recursive function; that they exist and that a total depends
  only on the items before it is shown by the least counterexample (`LeastNumber`).
  *Reports and the calendar*: `RepetitionIsSound`. The day number that the code computes
  for a date grows by one from each date to the next, for every date from 1970 on, which
  takes the leap rule through all its cases; that the reports of a response and of a stream
  agree is shown over the code's own tables, case by case.
  *The time of a call*: `DeadlinesOnlyNear`. `TimeInv` says that the deadline is the least of
  what the context and the passes so far allow, and that there is none exactly if they allow
  nothing; each pass adds one instant to that set.
  *Local files*: `FilesAreReadSoundly`. `FileInv` says what is known at each await of a read:
  the tree as it is is one that was seen; behind `Resolve` the path was the canonical one in a
  tree that was seen; behind `Root` it was inside a root in one; in front of `Read` there is a
  regular file or nothing. That another program changes the tree only adds a tree to
  those that were seen. Nothing relates the trees of two awaits, and the theorem does not
  say that one tree had all of it: the code does not look again.
* `Transport_proofs`, about the transport, before and behind the request.
  *Authentication*: `AuthInvariant`, `RequestsAreAuthenticated`. `AuthInv` adds to
  `HeadersAreRight` that every registration leaves a table of mappings, that an attempt
  reads one of them, and that only a mapping without keys is signed for, in the region
  that was resolved (`AttemptIsSound`). The lemmas are about a header map:
  inserting a list keeps the last header of each name (`LastIsInserted`), a list that is
  inserted later replaces what it names and nothing else (`LaterReplaces`), and so the
  merge of five sources and the credentials has each header from the last that names
  it (`MergedIsRight`).
  *The mappings*: `FirstRegisteredServes`. `ServeInv` has two halves. `TableInv`: the table asks
  for what the registrations that count name, in their order; each call of the builder
  appends to that list or replaces it (`TableFits`). `AttemptFits`: each value that was read
  was held under its name, each mapping that was passed over missed a secret, and the
  first miss is the one remembered. That a concatenation of lists has the members of all of
  them is shown by the least counterexample, and that names which are looked up once are
  still all of the names by counting.
  *Framing*: `FramerIsBounded` and `BodiesFitTheLimits`. The event-stream framer keeps its
  bound between chunks only, because the prelude is checked before a frame is awaited. What
  the SSE framer holds of an event is the sum of its lines, no more than the frame limit,
  and what it passed on no more than the output limit.

The assumptions are the named `ASSUME`s of the modules: the budget is positive
(`RetryPolicy::max_attempts` takes a non-zero count), delays are natural numbers,
`NoDeadline` is no number, frame lengths are natural numbers and neither the prelude
nor a checksum is empty, the calls are finitely many and the limit is positive, a catalog
is finite (`FiniteCatalog`). Those of `ClientCall`: the output limit is a number and the
questions of an evaluation that was built have distinct ids and known kinds
(`CasesAssumption`); a layer answers with an output or an error (`LayerAssumption`); a
reply is one of the seven kinds, its value what the decoder of its mode can give, its
items those of a stream (`RepliesAssumption`). The headers of a catalog row, a codec and an
application are lists of names with values, and a provider has a scheme
(`ServedAssumption`); a store tells of every secret, if only that it is absent
(`SecretsAssumption`). Limits and token counts are unsigned (`SseAssumption`,
`ProbeAssumption`), a context has one deadline or none, a payload or a client one timeout or
none, never negative (`TimeAssumption`), the text of an answer is a list (`TextsAssumption`), and the roots of a layer are a list, the sizes of
files numbers (`FilesAssumption`). They are the Rust types of these values;
what a layer or a provider *says* is left open.

Only model-checked, and why:

* liveness (`CallEnds`, `EveryCallAdmitted`, `CancelEndsWaits`, `StopsAreHonoured` but for its
  action property, `NothingAfterSignal`): fairness is out of the prover's reach;
* what compares a whole sequence with a reference by a library fold or by `SelectSeq`
  (`SplitInvisible`, `FinishedAsTold`, `StreamedAsComplete`, `TotalsAreHonest`,
  `InputIsWhole`, `EncodedFaithfully`, `RequestsAreWhole` but for the two parts named above,
  `ChoicesAgree`): induction over an operator is out of reach. Where the recursion is a
  function of the module itself (`Gathered`, `SumUpTo`, the totals of a stream), the least
  counterexample does instead;
* `SoundCatalog` and `OverlayIsLocal`: their modules are recursive over TOML documents.

## 5. What is not modelled, and the plan

**Not modelled**, with the reason:

* Tracing spans (`middleware/tracing_layer.rs`): wording, no state that a call sees.
* The public helpers around `FinalizeStream` (`middleware/mod.rs`): nothing under `src/`
  uses them. `AdapterRegistry` is a map with a lock; its factories are a choice between
  success and failure in `ClientBuild`.
* The nearest offering by price (a listing order), raw provider options and cache
  breakpoints (passed through as they are), the wire formats, prompts and JSON
  schemas of evaluations, the tables, wording and credential files of `lllm`.
* JSON itself: shapes, numbers and duplicate keys (the last one wins in `serde_json`).
  A body that is no document of its protocol is one class of failure.
* The AWS libraries, reqwest, tokio's semaphore and `Notify`, clap: external, each as
  what the crate assumes of it.
* The idle timer's clock: the timer may fire whenever it is armed.

**Abstractions a reader should know.** One call at a time, but for the limiter, the
token and the secret store. `Unspoken` lists the omissions of the encoders that no
warning reports; the model accepts these and no other. One attempt at a time in
`Authentication`. Links on the file system are fixed during a call.

**Plan.** The rest of `FilesAreWhole`, that a part is dropped
only if its file was not to be had, and `BuiltAsTold`, both once the folds they rest on
(`Canonical`, `BeginWith`, the checks of `build`) are recursive functions of their modules.

## 6. Findings

Six runs end in a violation. Each contradicts what a comment of the source says.

* `responses_contract`. For one Responses item: an argument delta (its
  `output_item.added` was lost) opens a fallback block; `output_item.done` shows
  a call without a name, so `discard` ends the block and forgets its id; a text
  delta for the same item opens a block with that id again. The caller sees two
  starts of one block, against `providers/decoder_properties.rs` ("Whatever the
  provider sends, the caller's stream must keep the `StreamEvent` contract").
  `arguments_delta` looks at `skipped`; `text_delta` and `reasoning_delta` do not.
* `internal_calls`. The same item, but its `output_item.added` arrives late instead
  of never: `start_item` only notes the id in `skipped`, and `end_item` then
  returns before the `discard` that the comment there promises. The nameless call
  stays in the response, and the finish reason becomes *tool call*.
* `unusable_reported`. A chain's first link answers `MissingSecret`, its second
  `Unusable` (an expired token, say). The chain reports the first error that is not
  `NotConfigured`, the missing secret; `is_not_configured` then counts that as a store
  that holds nothing, so `build_ready` leaves the provider out in silence although it
  promises an issue for "providers with material that cannot be used".
* `plain_answers`. A tool message with a `tool_call_id` and plain text reaches Bedrock as
  user text, although the comment at `codecs/bedrock/encode.rs:328` says that it "still
  has to reach the wire as a `toolResult`": that is done only if the message has no
  other block, and its text is one.
* `query_order`. `lllm -q` ranks an id and an alias alike and breaks ties by length; the
  resolver ranks ids first and breaks ties by provider. The comment at
  `app/models.rs:72` claims "the same order".
* `mid_line`. An interruption, or a stream without its completed response, leaves the
  delta loop of `app/prompt.rs` without `finish_line`, so the diagnostic starts in the
  middle of a line, against the comment at line 125.

Seen while modelling, without a run:

* Calls. The `None` arm of `StreamRetry::step` (`middleware/retry.rs:412`) cannot be
  reached, because a `ResponseStream` ends only after a terminal item or an error. An
  observer outside the client's response policy can report a response that the client
  then turns into a resource-limit error. The comments on `TimeoutRetry`
  (`transport/mod.rs:155`) say that a completion that timed out is never retried; with
  `force_streaming_complete` it opens as a stream, whose timeout is. The module
  comment of `classify.rs` says that a code means the same in a response and in a stream;
  a spent quota under a status of 500 and above is a retryable server failure in the first
  and final in the second (`ReportsAgree` leaves 5xx out).
* Client and catalog. `build_ready` promises "the same failures as `build`", but replaces
  the selection by ids of the catalog before the check for unknown ones and so never
  reports `UnknownEnabledProvider`. A factory registered by an application under the id
  `http` is treated as one of this crate's for dispatch.
* Encoding. A `Max` effort on a row without levels sends `max_tokens` of limit + 1024,
  past the row's limit. Chat tool messages lose the parts beside their results without a
  warning; Bedrock drops a tool choice without tools without one; a cache key hint on a
  row with unknown `cache_routing` passes validation and is not sent.
* Decoding. A call without a name fails or is skipped in the blocking decoders of Chat
  and Bedrock, and is a nameless call in their streams.
* Building. `middleware/local_files.rs:308` says that every other field is "preserved byte
  for byte", but a timeout is floored to milliseconds on the way and one below a
  millisecond fails the rebuild. The module's comment has an unreadable file dropped with
  a warning; a message that was only that file fails the call. An evaluation with a
  timeout of zero, a blank metadata key or namespace builds, and fails when asked.
  `choice()` merges options of one name without an error.
* Credentials. `with_http` edits the first mapping, which is a fallback if one was
  registered first (`FallbackFirst` leaves this out).
* `lllm`. A signal during the first poll of the run is seen only after the call started
  (`app/mod.rs:140`). Standard input that blocks cannot be interrupted once `ctrl_c` was
  polled. A probe counts calls of tools it never offered as calls.

## 7. Running

From this directory: `tlc -config MCTransport.cfg MCTransport`,
`tlc -config RetryStream.cfg RetryStream`, and so on for each row of `PROJECT.json`
(`runs`); the largest, `MCClientCall`, has about a million states and takes a minute or
two. `tlapm Middleware_proofs.tla`, and the same for the other modules of section 4. The
six configurations of section 6 end in the violation they are there to show.
