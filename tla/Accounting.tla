----------------------------- MODULE Accounting -----------------------------
(***************************************************************************)
(* What a conversation costs: the tokens that an application estimates     *)
(* before a call (estimate.rs), the counts a provider reports, the price   *)
(* of the catalog (cost.rs, catalog/model.rs, resolver.rs), and the sum of *)
(* several calls (types/response.rs).                                      *)
(*                                                                         *)
(* A text, a serialized value and an inline payload are their lengths.     *)
(* Integers of 64 bits saturate at MaxCount, and a rate is for PerRate     *)
(* tokens.  A rate or a cost that is not known is an empty set.            *)
(***************************************************************************)
EXTENDS Integers, Sequences, SequencesExt, FiniteSets

CONSTANTS
    Rates,          \* the rows with their pricing, a codec and a speed
    Counters,       \* what a provider may report of a call
    Sayings,        \* the messages an application may add
    Shapes,         \* the tools and controls of a request
    MaxCount, PerRate, MediaFloor,
    MaxCalls, MaxSayings

VARIABLES
    rates,          \* the row that answers
    parts,          \* the usages of the calls, those that were summed as one
    total,          \* the usage of all calls, summed one by one
    calls,          \* the calls so far, each with its counters
    shape,          \* the request's tools and controls
    said,           \* its messages
    estimate        \* the estimate kept for it

billVars == <<rates, parts, total, calls, shape, said, estimate>>

Least(a, b) == IF a < b THEN a ELSE b
Most(a, b) == IF a < b THEN b ELSE a
Sum(a, b) == Least(a + b, MaxCount)
Left(a, b) == Most(a - b, 0)
SumOf(numbers) == FoldLeft(Sum, 0, numbers)
CeilDiv(n, d) == (n + d - 1) \div d

----------------------------------------------------------------------------
(* Counts *)

Buckets == {"input", "output", "reasoning", "cache_read", "cache_write"}
NoTokens == [b \in Buckets |-> 0]

\* A plausible slip: the details are believed.
Unclamped(c) ==
    [input |-> Left(Left(c.input, c.cache_read), c.cache_write), output |-> Left(c.output, c.reasoning),
     reasoning |-> c.reasoning, cache_read |-> c.cache_read, cache_write |-> c.cache_write]

\* TokenCounts::from_inclusive: a detail is no larger than what its total has
\* left.
FromInclusive(c) ==
    LET read == Least(c.cache_read, c.input)
        write == Least(c.cache_write, c.input - read)
        reasoning == Least(c.reasoning, c.output)
    IN [input |-> c.input - read - write, output |-> c.output - reasoning,
        reasoning |-> reasoning, cache_read |-> read, cache_write |-> write]

Total(tokens) == SumOf(<<tokens.input, tokens.output, tokens.reasoning, tokens.cache_read, tokens.cache_write>>)
BillableOutput(tokens) == Sum(tokens.output, tokens.reasoning)
AddTokens(a, b) == [k \in Buckets |-> Sum(a[k], b[k])]

----------------------------------------------------------------------------
(* Prices *)

Priced == {"input", "output", "cache_read", "cache_write"}

\* Option::or, rate by rate.
Over(rate, base) == [k \in Priced |-> IF rate[k] # {} THEN rate[k] ELSE base[k]]

\* Pricing::for_input_tokens and ::for_speed
ForInputTokens(pricing, prompt) ==
    IF \E long \in pricing.long : prompt > long.above
    THEN [pricing EXCEPT !.base = Over((CHOOSE long \in pricing.long : TRUE).rates, @)]
    ELSE pricing
ForSpeed(pricing, speed) ==
    IF speed \in DOMAIN pricing.speeds THEN [pricing EXCEPT !.base = Over(pricing.speeds[speed], @)]
    ELSE pricing

\* A row's first generation codec stands in for a codec that is not known.
AnthropicRates(codec, codecs) ==
    LET generation == SelectSeq(codecs, LAMBDA c : c # "vercel-evaluation")
        known == IF codec # {} THEN codec ELSE IF generation = <<>> THEN {} ELSE {Head(generation)}
    IN known \cap {"anthropic-messages", "bedrock-converse"} # {}

TokenCost(tokens, rate) == IF rate = {} THEN 0 ELSE Least((tokens * (CHOOSE r \in rate : TRUE)) \div PerRate, MaxCount)

\* A plausible slip: the tier is chosen by the tokens that were not cached.
PromptUncached(tokens) == tokens.input
Prompt(tokens) == Sum(Sum(tokens.input, tokens.cache_read), tokens.cache_write)

\* catalog_cost
CatalogCost(tokens, pricing, speed, anthropic) ==
    LET base == ForSpeed(ForInputTokens(pricing, Prompt(tokens)), speed).base
        write == IF base["cache_write"] = {} /\ anthropic
                 THEN {Least(r * 5, MaxCount) \div 4 : r \in base["input"]} ELSE base["cache_write"]
        used == [k \in Priced |-> IF k = "output" THEN BillableOutput(tokens) ELSE tokens[k]]
        rate == [base EXCEPT !["cache_write"] = write]
    IN IF \E k \in Priced : used[k] > 0 /\ rate[k] = {} THEN {}
       ELSE {[micros |-> SumOf(<<TokenCost(used["input"], rate["input"]),
                                 TokenCost(used["cache_read"], rate["cache_read"]),
                                 TokenCost(used["cache_write"], rate["cache_write"]),
                                 TokenCost(used["output"], rate["output"])>>),
              source |-> "Catalog"]}

\* estimate_catalog_cost
EstimateCost(tokens, codec, speed) ==
    UNION {CatalogCost(tokens, pricing, speed, AnthropicRates(codec, rates.codecs)) : pricing \in rates.pricing}

\* apply_catalog_cost: a cost of the provider's own is kept.
Charge(counters, codec, speed) ==
    LET tokens == FromInclusive(counters)
    IN [tokens |-> tokens,
        cost |-> IF counters.cost # {} THEN {[micros |-> c, source |-> "Provider"] : c \in counters.cost}
                 ELSE EstimateCost(tokens, codec, speed)]

----------------------------------------------------------------------------
(* Sums *)

NoUsage == [tokens |-> NoTokens, cost |-> {}]

\* A plausible slip: what is not priced costs nothing.
AddUsageAsFree(a, b) ==
    [tokens |-> AddTokens(a.tokens, b.tokens),
     cost |-> IF a.cost = {} THEN b.cost ELSE IF b.cost = {} THEN a.cost
              ELSE {[micros |-> Sum(x.micros, y.micros), source |-> x.source] : x \in a.cost, y \in b.cost}]

\* Usage::saturating_add
AddUsage(a, b) ==
    [tokens |-> AddTokens(a.tokens, b.tokens),
     cost |-> IF a.cost # {} /\ b.cost # {}
              THEN {[micros |-> Sum(x.micros, y.micros),
                     source |-> IF x.source = y.source THEN x.source ELSE "Application"] :
                        x \in a.cost, y \in b.cost}
              ELSE IF b = NoUsage THEN a.cost
              ELSE IF a = NoUsage THEN b.cost
              ELSE {}]

Charged(counters, codec, speed) ==
    /\ Len(calls) < MaxCalls
    /\ parts' = Append(parts, Charge(counters, codec, speed))
    /\ total' = AddUsage(total, Charge(counters, codec, speed))
    /\ calls' = Append(calls, [counters |-> counters, speed |-> speed, codec |-> codec])
    /\ UNCHANGED <<rates, shape, said, estimate>>

\* finish_response and finish_stream: the codec that answered, at the speed
\* that it sent.
ChargeResponse(counters) == Charged(counters, rates.codec, rates.applied)

\* An evaluation is charged at no speed.
ChargeVerdict(counters) == Charged(counters, rates.codec, "none")

\* A part of the conversation is summed first.
SumParts(i) ==
    /\ parts' = [k \in 1..(Len(parts) - 1) |->
                    IF k < i THEN parts[k]
                    ELSE IF k = i THEN AddUsage(parts[i], parts[i + 1]) ELSE parts[k + 1]]
    /\ UNCHANGED <<rates, total, calls, shape, said, estimate>>

----------------------------------------------------------------------------
(* Estimates *)

Estimate(tokens, warnings) == [tokens |-> tokens, warnings |-> warnings]

\* A plausible slip: the warnings of what is added are lost.
PlusTokens(a, b) == Estimate(Sum(a.tokens, b.tokens), a.warnings)

\* AddAssign: estimates add, with the warnings of both.
Plus(a, b) == Estimate(Sum(a.tokens, b.tokens), a.warnings \cup b.warnings)

\* text_tokens and byte_tokens, and what base64 decodes to.
LengthTokens(n) == CeilDiv(n, 4)
Decoded64(n) == (n \div 4) * 3
LengthsOf(lengths) == SumOf([k \in DOMAIN lengths |-> LengthTokens(lengths[k])])

\* A part is the lengths of what is measured of it, the floor apart.
Sized(kind, lengths) == [kind |-> kind, lengths |-> lengths, payload |-> {}, mark |-> 0, holds |-> <<>>]
IsMedia(p) == p.kind \in {"Image", "Audio", "Document"}

MediaTokens(p) ==
    IF ~IsMedia(p) THEN 0
    ELSE IF p.payload = {} THEN MediaFloor
    ELSE LET bytes == LengthTokens(Decoded64(CHOOSE n \in p.payload : TRUE))
         IN IF p.kind = "Image" THEN Most(bytes, MediaFloor) ELSE bytes

WarningOf(p) ==
    IF IsMedia(p) THEN {"media"} ELSE IF p.kind \in {"Unknown", "Opaque"} THEN {"opaque_content"} ELSE {}

\* content_part_tokens of all but a result, and tool_result_tokens.
PlainTokens(p) == Estimate(Sum(Sum(LengthsOf(p.lengths), MediaTokens(p)), p.mark), WarningOf(p))
ContentPartTokens(p) ==
    FoldLeft(Plus, PlainTokens(p), [k \in DOMAIN p.holds |-> PlainTokens(p.holds[k])])

\* message_tokens: four, the role and the labels, and one for each part.
MessageTokens(m) ==
    FoldLeft(Plus, Estimate(4 + LengthsOf(m.labels), {}),
             [k \in DOMAIN m.parts |-> Plus(Estimate(1, {}), ContentPartTokens(m.parts[k]))])

ToolTokens(lengths) == Sum(8, LengthsOf(lengths))

\* request_control_tokens
ControlTokens(s) ==
    Plus(Estimate(LengthsOf(s.controls), {}),
         IF s.options = {} THEN Estimate(0, {})
         ELSE Estimate(LengthTokens(CHOOSE n \in s.options : TRUE), {"provider_options"}))

\* request_tokens
RequestTokens(messages, s) ==
    Plus(FoldLeft(Plus, Estimate(0, {}),
                  [k \in DOMAIN messages |-> MessageTokens(messages[k])]
                  \o [k \in DOMAIN s.tools |-> Estimate(ToolTokens(s.tools[k]), {})]),
         ControlTokens(s))

\* An application keeps its estimate up to date, message by message.
Say(m) ==
    /\ Len(said) < MaxSayings
    /\ said' = Append(said, m)
    /\ estimate' = Plus(estimate, MessageTokens(m))
    /\ UNCHANGED <<rates, parts, total, calls, shape>>

BillInit ==
    /\ rates \in Rates /\ parts = <<>> /\ total = NoUsage /\ calls = <<>>
    /\ shape \in Shapes /\ said = <<>> /\ estimate = RequestTokens(<<>>, shape)

ChargeNext ==
    \/ \E c \in Counters : ChargeResponse(c) \/ ChargeVerdict(c)
    \/ \E i \in 1..(Len(parts) - 1) : SumParts(i)
EstimateNext == \E m \in Sayings : Say(m)

\* Nothing is left to charge or to say.
AllCharged == Len(calls) = MaxCalls /\ Len(parts) <= 1 /\ UNCHANGED billVars
AllSaid == Len(said) = MaxSayings /\ UNCHANGED billVars

----------------------------------------------------------------------------
(* Properties *)

\* The rate of a bucket: that of the speed before that of a long prompt,
\* before that of the row; 5/4 of the input's where a Claude writes its cache.
RateOf(k, call, pricing, prompt) ==
    LET offers == <<IF call.speed \in DOMAIN pricing.speeds THEN pricing.speeds[call.speed][k] ELSE {},
                    UNION {long.rates[k] : long \in {l \in pricing.long : prompt > l.above}},
                    pricing.base[k]>>
        known == SelectSeq(offers, LAMBDA r : r # {})
    IN IF known = <<>> THEN {} ELSE Head(known)

BilledAs == [b \in Buckets |-> IF b = "reasoning" THEN "output" ELSE b]

\* What a call costs without a price of the provider's: every token once, at
\* one rate, or nothing is said of the cost.
HonestCost(call) ==
    LET tokens == FromInclusive(call.counters)
        prompt == call.counters.input
        Rate(b, pricing) ==
            LET r == RateOf(BilledAs[b], call, pricing, prompt)
            IN IF b = "cache_write" /\ r = {} /\ AnthropicRates(call.codec, rates.codecs)
               THEN {(x * 5) \div 4 : x \in RateOf("input", call, pricing, prompt)} ELSE r
        Of(b, pricing) == FoldSet(LAMBDA x, y : x + y, 0, {tokens[b] * r : r \in Rate(b, pricing)})
    IN {Least((Of("input", p) \div PerRate) + (Of("cache_read", p) \div PerRate) + (Of("cache_write", p) \div PerRate)
              + ((Of("output", p) + Of("reasoning", p)) \div PerRate), MaxCount) :
            p \in {q \in rates.pricing : \A b \in Buckets : tokens[b] > 0 => Rate(b, q) # {}}}

Known(call) == IF call.counters.cost # {} THEN call.counters.cost ELSE HonestCost(call)
Used(call) == call.counters.input + call.counters.output > 0

\* The bill of a conversation is that of its calls, however the calls were
\* grouped when they were summed: as many tokens as the providers reported,
\* none twice; a cost exactly when each call that used tokens has one, and
\* then the sum of what each call costs at the rates that apply to it.
BillIsHonest ==
    LET sum == FoldLeft(AddUsage, NoUsage, parts)
        all == {i \in DOMAIN calls : TRUE}
        Micros(i) == CHOOSE c \in Known(calls[i]) : TRUE
        priced == {i \in all : Known(calls[i]) # {}}
    IN /\ sum = total
       /\ Total(total.tokens) = Least(FoldSet(LAMBDA i, n : n + calls[i].counters.input + calls[i].counters.output,
                                              0, all), MaxCount)
       /\ total.cost # {} <=> priced # {} /\ \A i \in all \ priced : ~Used(calls[i])
       /\ \A c \in total.cost : c.micros = Least(FoldSet(LAMBDA i, n : n + Micros(i), 0, priced), MaxCount)

\* The estimate that is kept is that of the whole request, in whatever order
\* its messages came; it warns exactly of what could only be approximated,
\* also inside a result, and no message is free.
EstimateIsWhole ==
    /\ estimate = RequestTokens(said, shape)
    /\ \A w \in {"media", "opaque_content"} :
          w \in estimate.warnings <=>
             \E n \in DOMAIN said : \E p \in ToSet(said[n].parts) : \E q \in {p} \cup ToSet(p.holds) : w \in WarningOf(q)
    /\ estimate.tokens >= Least(5 * Len(said), MaxCount)
=============================================================================
