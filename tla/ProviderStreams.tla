-------------------------- MODULE ProviderStreams ---------------------------
(***************************************************************************)
(* The stream of one call through any of the five codecs, from the events  *)
(* of the provider's protocol to the events of StreamContract.  The events *)
(* come anyhow, or they tell one document.                                 *)
(***************************************************************************)
EXTENDS CompleteAnswers

NewDecoder ==
    [anthropic |-> AnthropicNew, bedrock |-> BedrockNew, chat |-> ChatNew,
     gemini |-> GeminiNew, responses |-> ResponsesNew]

Init ==
    /\ InitStream
    /\ codec \in Codecs
    /\ own = NewDecoder[codec]
    /\ exchange \in {NoExchange} \cup Exchanges(codec)

Next ==
    \/ AnthropicNext \/ BedrockNext \/ ChatNext \/ GeminiNext \/ ResponsesNext
    \/ Broken \/ Over

Spec == Init /\ [][Next]_vars

----------------------------------------------------------------------------
(* Properties *)

out == asm.out

OutType ==
    {"Started", "Accounting", "BlockStart", "Delta", "BlockEnd", "Ended", "Err"}

\* The open blocks are listed once each, and every list is a sequence of what
\* it should hold.
TypeOK ==
    /\ codec \in Codecs
    /\ over \in BOOLEAN
    /\ wire \in 0..MaxWire
    /\ \A i \in DOMAIN out : out[i].type \in OutType
    /\ \A id \in DOMAIN asm.blocks : asm.blocks[id].kind \in Kinds
    /\ {asm.opened[i] : i \in DOMAIN asm.opened} = {id \in DOMAIN asm.blocks : IsOpen(asm, id)}
    /\ IsInjective(asm.opened)

\* Deltas carry what their block holds, but for the blocks in exempt.
DeltasFit(h, exempt) ==
    \A i, j \in DOMAIN h :
        /\ h[i].type = "BlockStart" /\ h[j].type = "Delta" /\ h[i].id = h[j].id
        /\ h[i].id \notin exempt
        => Fits(h[j].shape, h[i].kind)

\* "Whatever the provider sends, the caller's stream must keep the StreamEvent
\* contract" (providers/decoder_properties.rs).
ContractKept == KeepsContract(out) /\ DeltasFit(out, {})

Skipped == IF codec = "responses" THEN own.skipped ELSE {}

\* Of no block in exempt.
Ordinary(x, exempt) == "id" \in DOMAIN x => x.id \notin exempt

\* The contract holds for every item but those of the blocks of model-internal calls.
OrdinaryContractKept ==
    /\ \A i \in DOMAIN out : Ordinary(out[i], Skipped) => MayFollow(SubSeq(out, 1, i - 1), out[i])
    /\ DeltasFit(out, Skipped)

Ending(x) == out # <<>> /\ Last(out).type = x

\* The pieces that some of the first n positions hold, put together in order.
Gathered(n, pieces) ==
    LET upTo[i \in 0..n] ==
            IF i = 0 THEN <<>>
            ELSE IF i \in DOMAIN pieces THEN upTo[i - 1] \o pieces[i]
            ELSE upTo[i - 1]
    IN  upTo[n]

\* The parts that history h tells of the blocks in ids.
PartsTold(h, ids) ==
    Gathered(Len(h), [i \in {j \in DOMAIN h : h[j].type = "BlockEnd" /\ h[j].id \in ids}
                         |-> <<h[i].part>>])

\* The block ends that the caller saw tell all of the response: its content is
\* their parts, in order, without discarded ones and without calls cut short.
ResponseIsItsBlocks ==
    Ending("Ended") /\ KeepsContract(out) =>
        Last(out).content = Answerable(PartsTold(out, DOMAIN asm.blocks), Last(out).finish)

DeltasOf(h, id) == {i \in DOMAIN h : h[i].type = "Delta" /\ h[i].id = id}

\* A caller that puts the deltas of a block together has the text of its part.
Joined(h, id) == Gathered(Len(h), [i \in DeltasOf(h, id) |-> h[i].text])

IsReadable(part) == part.kind \in {"Text", "Reasoning"} /\ ~part.redacted

\* A Responses item that is done is told whole, whatever its deltas said.
DeltasTellThePart ==
    codec # "responses" =>
        \A i \in DOMAIN out :
            out[i].type = "BlockEnd" /\ IsReadable(out[i].part)
                => out[i].part.text = Joined(out, out[i].id)

\* What a caller saw of the stream tells it all of the response.
CallerSawTheResponse == ResponseIsItsBlocks /\ DeltasTellThePart

\* "both paths must decode one exchange the same way" (codecs/openai_chat/mod.rs):
\* a document that is told as a stream gives the response, or fails, as it does
\* when it comes whole, except that a Gemini stream joins neighbouring parts.
StreamedAsComplete ==
    Planned /\ over =>
        IF exchange.answer.ok
        THEN /\ Ending("Ended")
             /\ Last(out).finish = exchange.answer.finish
             /\ Last(out).content = IF codec = "gemini" THEN Runs(exchange.answer.content)
                                    ELSE exchange.answer.content
        ELSE Ending("Err")

\* Three protocols keep what they say of a block.  A sealed reasoning payload
\* reaches the provider again as it was: a Bedrock block never mixes it with
\* readable text, and no delta shows it.
SealedStaysWhole ==
    \A i \in DOMAIN out :
        codec = "bedrock" /\ out[i].type = "BlockEnd" /\ out[i].part.redacted
            => /\ \A j \in DOMAIN out[i].part.text : out[i].part.text[j] = Sealed[1]
               /\ DeltasOf(out, out[i].id) = {}

\* Anthropic and Bedrock announce every call, and give none that was not announced.
CallsAnnounced ==
    \A id \in DOMAIN asm.blocks :
        codec \in {"anthropic", "bedrock"} /\ IsCall(asm.blocks[id].kind)
            => asm.blocks[id].announced

\* "streaming and blocking decode the same response identically": the part of
\* a Responses item that is done is the whole item, whatever its fragments said.
DoneTellsTheItem ==
    [][\A n \in Index, kind \in {"Text", "Reasoning", "Call"}, whole \in Wholes \ {<<>>} :
          LET id == ItemId(n)
          IN  /\ codec = "responses" /\ id \notin Skipped
              /\ OpenAs(asm, id, kind)
              /\ ItemDone(id, kind, whole)
              => \E i \in DOMAIN out' :
                    /\ out'[i].type = "BlockEnd" /\ out'[i].id = id
                    /\ out'[i].part.text = whole]_vars

\* What a protocol says of a block holds of the part the caller gets: sealed
\* payloads, announced calls and finished items.
BlocksKeepTheirWord ==
    [](SealedStaysWhole /\ CallsAnnounced) /\ DoneTellsTheItem

\* The finish reason fits the calls: a chat stream with a call succeeds only when
\* the provider said why it ended, and one with a refusal never does; and a
\* response with a call to answer does not say that the model just stopped.
FinishFitsTheCalls ==
    Ending("Ended") =>
        /\ codec = "chat" =>
              /\ ~own.refused
              /\ HasCall(asm) => (Last(out).finish # "Incomplete")
        /\ /\ codec \in {"chat", "gemini", "responses"}
           /\ \E i \in DOMAIN Last(out).content : IsCall(Last(out).content[i].kind)
           => Last(out).finish # "Stop"

\* A stream that ends well is the whole of the answer, and ends as it says.
FinishedAsTold == StreamedAsComplete /\ FinishFitsTheCalls

\* "a nameless call must not become content or flip the finish reason": not
\* when the provider has named it as model-internal.
InternalCallsStayOut ==
    Ending("Ended") =>
        \A i \in DOMAIN out :
            /\ out[i].type = "BlockEnd" /\ out[i].id \in Skipped
            /\ IsCall(out[i].part.kind)
            => out[i].part \notin {Last(out).content[j] : j \in DOMAIN Last(out).content}

----------------------------------------------------------------------------
(* Model-checking values *)

MCCodecs == {"anthropic", "bedrock", "chat", "gemini", "responses"}
MCResponses == {"responses"}

MCTexts == {<<>>, <<"a", "b">>}

\* Every block id that one of the decoders may use within MaxWire events.
MCBlock ==
    {"index", "item", "replay", "text", "reasoning", "details", "tool", "Text", "Reasoning"}
        \X (0..MaxWire)
=============================================================================
