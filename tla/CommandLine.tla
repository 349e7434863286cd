----------------------------- MODULE CommandLine -----------------------------
(***************************************************************************)
(* The lllm process (bin/lllm/main.rs, app/mod.rs, app/prompt.rs,          *)
(* app/output.rs, app/probe.rs) and the library's probe (client/probe.rs). *)
(*                                                                         *)
(* A step runs from one await to the next; reading standard input blocks   *)
(* and is a step of its own.  The signal future is polled with the run, so *)
(* it is registered before the first poll or when that returns, and looked *)
(* at only while the run waits.                                            *)
(***************************************************************************)
EXTENDS CommandInput, FiniteSets

CONSTANTS
    Cases,        \* what the process is started with
    Texts,        \* the deltas of an answer
    MaxDeltas,    \* bound: the deltas of one answer
    ProbeAnswers, \* the answers to a probe's requests
    MaxTokens     \* the largest token count

VARIABLES
    asked,      \* the process's arguments, environment and standard input
    stage,      \* what the run waits for
    handler,    \* whether ctrl_c() was polled
    interrupt,  \* "none", "pending" (the signal arrived) or "taken" (the token is cancelled)
    sink,       \* standard output: open, closed by its reader, or failing
    printed,    \* what standard output received
    notes,      \* what standard error received
    request,    \* the prompt's request, once its call was begun
    said,       \* the deltas that the provider sent
    ended,      \* whether the stream gave its completed response
    deltas,     \* DeltaWriter
    probe,      \* Probe, with the answers that it received
    status      \* ExitStatus

lineVars == <<asked, stage, handler, interrupt, sink, printed, notes, request, said, ended,
              deltas, probe, status>>

Awaits == {"Opening", "Completing", "Streaming", "Probing"}
Running == stage # "Done"

NoProbe == [messages |-> <<>>, calls |-> 0, usage |-> 0, answers |-> <<>>, outcome |-> None]

LineInit ==
    /\ asked \in Cases
    /\ stage = "Startup" /\ handler = FALSE /\ interrupt = "none" /\ sink = "open"
    /\ printed = <<>> /\ notes = <<>> /\ request = {} /\ said = <<>> /\ ended = FALSE
    /\ deltas = [wrote |-> FALSE, line |-> FALSE] /\ probe = NoProbe /\ status = None

----------------------------------------------------------------------------

\* Output (app/output.rs, app/mod.rs).
EndsLine(text) == text # <<>> /\ Last(text) = Newline
FullLine(text) == IF EndsLine(text) THEN text ELSE Append(text, Newline)

Exit(code, out, err) ==
    /\ stage' = "Done" /\ status' = code /\ notes' = notes \o err
    /\ printed' = IF sink = "open" THEN printed \o out ELSE printed
    /\ UNCHANGED <<asked, handler, interrupt, sink>>

\* status_for
StatusFor(kind) ==
    CASE kind \in {"ModelSelection", "InvalidRequest", "Input"} -> "Usage"
      [] kind \in {"Cancelled", "Interrupted"} -> "Interrupted"
      [] OTHER -> "Failure"

FailWith(kind) == Exit(StatusFor(kind), <<>>, <<"diagnostic">>)

\* write_text at the end of a command: a closed pipe is no failure.
Finish(text, code, err) ==
    IF sink = "failing" THEN FailWith("Output") ELSE Exit(code, FullLine(text), err)

----------------------------------------------------------------------------

\* main: a broken catalog file ends the process unless the arguments are no
\* command, which the run reports.
Startup ==
    /\ stage = "Startup"
    /\ IF asked.catalog = Bad /\ asked.command \notin {"invalid", "help"}
       THEN FailWith("Configuration")
       ELSE stage' = "Start" /\ UNCHANGED <<asked, handler, interrupt, sink, printed, notes, status>>
    /\ UNCHANGED <<request, said, ended, deltas, probe>>

\* run: clap's refusals and help, models and resolve.
Describe ==
    /\ stage = "Start"
    /\ \/ asked.command = "invalid" /\ Exit("Usage", <<>>, <<"diagnostic">>)
       \/ asked.command = "help" /\ Exit("Success", <<"help">>, <<>>)
       \/ asked.command = "show" /\ asked.model = Bad /\ FailWith("Input")
       \/ asked.command = "show" /\ asked.model # Bad /\ Finish(<<"models">>, "Success", <<>>)
    /\ UNCHANGED <<request, said, ended, deltas, probe>>

\* prompt::run from its input to the first poll of the call.
Prompt(stdin) ==
    LET built == BuildRequest(asked.line, asked.flags, asked.terminal, stdin, "provider")
    IN /\ IF built = Failed \/ asked.model = Bad
          THEN FailWith("Input") /\ UNCHANGED request
          ELSE /\ stage' = IF asked.output = "stream" THEN "Opening" ELSE "Completing"
               /\ request' = {built}
               /\ UNCHANGED <<asked, handler, interrupt, sink, printed, notes, status>>
       /\ UNCHANGED <<said, ended, deltas, probe>>

StartPrompt ==
    /\ stage = "Start" /\ asked.command = "prompt"
    /\ IF ReadsStdin(asked.line, asked.terminal)
       THEN /\ stage' = "Reading"
            /\ UNCHANGED <<asked, handler, interrupt, sink, printed, notes, request, said, ended,
                           deltas, probe, status>>
       ELSE Prompt(<<>>)

\* The reader of standard input comes to its end, or fails.
ReadStdin == stage = "Reading" /\ Prompt(asked.stdin)

StdinFails ==
    /\ stage = "Reading" /\ FailWith("Input")
    /\ UNCHANGED <<request, said, ended, deltas, probe>>

----------------------------------------------------------------------------

\* run_until_signal: ctrl_c is polled before the run or after its first poll.
Register ==
    /\ ~handler /\ stage \in Awaits \cup {"Start"}
    /\ handler' = TRUE
    /\ UNCHANGED <<asked, stage, interrupt, sink, printed, notes, request, said, ended, deltas,
                   probe, status>>

RegisterFails ==
    /\ ~handler /\ stage \in Awaits \cup {"Start"}
    /\ Exit("Failure", <<>>, <<"diagnostic">>)
    /\ UNCHANGED <<request, said, ended, deltas, probe>>

\* The user's signal: without a handler it kills the process.
Signal ==
    /\ Running /\ interrupt = "none" /\ interrupt' = "pending"
    /\ stage' = IF handler THEN stage ELSE "Done"
    /\ status' = IF handler THEN status ELSE "Killed"
    /\ UNCHANGED <<asked, handler, sink, printed, notes, request, said, ended, deltas, probe>>

TakeSignal ==
    /\ handler /\ stage \in Awaits /\ interrupt = "pending"
    /\ interrupt' = "taken"
    /\ UNCHANGED <<asked, stage, handler, sink, printed, notes, request, said, ended, deltas,
                   probe, status>>

\* cancellable looks at the token first.
GiveUp ==
    /\ stage \in Awaits /\ interrupt = "taken"
    /\ FailWith("Interrupted")
    /\ UNCHANGED <<request, said, ended, deltas, probe>>

\* Mutant: the token and the call are looked at in any order.
AnswerableUnbiased(at) == stage = at /\ handler

Answerable(at) == stage = at /\ handler /\ interrupt # "taken"

\* The reader of standard output goes away, or writing to it fails.
Break ==
    /\ Running /\ sink = "open" /\ sink' \in {"closed", "failing"}
    /\ UNCHANGED <<asked, stage, handler, interrupt, printed, notes, request, said, ended, deltas,
                   probe, status>>

----------------------------------------------------------------------------

\* The kinds of failure that status_for tells apart.
Kinds == {"ModelSelection", "Cancelled", "Server"}

Answer == FlattenSeq(said)
UsageNote == IF asked.usage THEN <<"usage">> ELSE <<>>

\* buffered_text
Buffered(text) == IF asked.output = "json" THEN <<"envelope">> ELSE Extract(asked.output, text)

\* PromptSession::complete
Complete ==
    /\ Answerable("Completing")
    /\ \/ \E texts \in SeqOf(Texts, MaxDeltas) :
            /\ said' = texts /\ ended' = TRUE
            /\ Finish(Buffered(FlattenSeq(texts)), "Success", UsageNote)
       \/ \E kind \in Kinds : FailWith(kind) /\ UNCHANGED <<said, ended>>
    /\ UNCHANGED <<request, deltas, probe>>

Opened ==
    /\ Answerable("Opening")
    /\ \/ /\ stage' = "Streaming"
          /\ UNCHANGED <<asked, handler, interrupt, sink, printed, notes, status>>
       \/ \E kind \in Kinds : FailWith(kind)
    /\ UNCHANGED <<request, said, ended, deltas, probe>>

\* DeltaWriter::write, then the next item.
TextDelta ==
    /\ Answerable("Streaming") /\ ~ended /\ Len(said) < MaxDeltas
    /\ \E text \in Texts :
         /\ said' = Append(said, text)
         /\ deltas' = [wrote |-> TRUE, line |-> IF text = <<>> THEN deltas.line ELSE EndsLine(text)]
         /\ CASE sink = "closed" -> Exit("Success", <<>>, <<>>)
              [] sink = "failing" -> FailWith("Output")
              [] OTHER -> /\ printed' = printed \o text
                          /\ UNCHANGED <<asked, stage, handler, interrupt, sink, notes, status>>
    /\ UNCHANGED <<request, ended, probe>>

\* The completed response; its text is the deltas', or whole if there was none.
Ended ==
    /\ Answerable("Streaming") /\ ~ended /\ ended' = TRUE
    /\ \/ UNCHANGED said
       \/ said = <<>> /\ \E text \in Texts : said' = <<text>>
    /\ UNCHANGED <<asked, stage, handler, interrupt, sink, printed, notes, request, deltas, probe,
                   status>>

\* Mutant: the last line is ended whether or not the deltas ended it.
LineEndAlways == IF deltas.wrote THEN <<Newline>> ELSE <<>>

\* finish_line
LineEnd == IF deltas.wrote /\ ~deltas.line THEN <<Newline>> ELSE <<>>

StreamFails ==
    /\ Answerable("Streaming") /\ ~ended
    /\ CASE LineEnd # <<>> /\ sink = "closed" -> Exit("Success", <<>>, <<>>)
         [] LineEnd # <<>> /\ sink = "failing" -> FailWith("Output")
         [] OTHER -> \E kind \in Kinds : Exit(StatusFor(kind), LineEnd, <<"diagnostic">>)
    /\ UNCHANGED <<request, said, ended, deltas, probe>>

\* The end of the stream, and PromptSession::finish.
StreamOver ==
    /\ Answerable("Streaming")
    /\ CASE ~ended -> FailWith("ResponseDecode")
         [] ended /\ ~deltas.wrote -> Finish(Answer, "Success", UsageNote)
         [] ended /\ deltas.wrote /\ LineEnd # <<>> /\ sink = "failing" -> FailWith("Output")
         [] OTHER -> Exit("Success", LineEnd, UsageNote)
    /\ UNCHANGED <<request, said, ended, deltas, probe>>

----------------------------------------------------------------------------

\* The library's probe.
MaxToolTurns == 5
ToolName == "add"

Integer(call, key) == IF key \in DOMAIN call.input THEN call.input[key] ELSE 0

\* Mutant: only the first call of an answer is answered.
ResultsOfFirst(calls) ==
    IF calls = <<>> THEN <<>>
    ELSE <<[result |-> calls[1].id, value |-> Integer(calls[1], "a") + Integer(calls[1], "b"),
            failed |-> calls[1].name # ToolName \/ ~calls[1].parses]>>

\* tool_result_message, of every call.
Results(calls) ==
    [i \in DOMAIN calls |->
        LET fails == calls[i].name # ToolName \/ ~calls[i].parses
        IN [result |-> calls[i].id, failed |-> fails,
            value |-> IF fails THEN 0 ELSE Integer(calls[i], "a") + Integer(calls[i], "b")]]

\* add_usage
AddUsage(total, usage) == IF total + usage > MaxTokens THEN MaxTokens ELSE total + usage

\* turn, and what one_word or tool_exchange make of its answer.
Judged(p, answer) ==
    LET used == [p EXCEPT !.answers = Append(@, answer), !.usage = AddUsage(@, answer.usage)]
        calls == used.calls + Len(answer.calls)
    IN IF answer.kind # "Response" THEN [p EXCEPT !.answers = Append(@, answer), !.outcome = "Failed"]
       ELSE IF ~asked.tools THEN [used EXCEPT !.outcome = "Passed"]
       ELSE IF answer.calls = <<>>
            THEN [used EXCEPT !.outcome = IF p.calls > 0 /\ answer.total THEN "Passed" ELSE "Incorrect"]
       ELSE [used EXCEPT !.calls = calls,
                         !.messages = Append(@, [calls |-> answer.calls]) \o Results(answer.calls),
                         !.outcome = IF Len(used.answers) = MaxToolTurns THEN "Incorrect" ELSE None]

StartProbe ==
    /\ stage = "Start" /\ asked.command = "probe"
    /\ IF asked.model = Bad THEN FailWith("Input") /\ UNCHANGED probe
       ELSE /\ stage' = "Probing" /\ probe' = [NoProbe EXCEPT !.messages = <<[prompt |-> asked.tools]>>]
            /\ UNCHANGED <<asked, handler, interrupt, sink, printed, notes, status>>
    /\ UNCHANGED <<request, said, ended, deltas>>

\* probe::run: another turn, or the report.
ProbeTurn ==
    /\ Answerable("Probing")
    /\ \E answer \in ProbeAnswers :
         /\ probe' = Judged(probe, answer)
         /\ IF probe'.outcome = None
            THEN UNCHANGED <<asked, stage, handler, interrupt, sink, printed, notes, status>>
            ELSE Finish(<<probe'.outcome>>, IF probe'.outcome = "Passed" THEN "Success" ELSE "Failure", <<>>)
    /\ UNCHANGED <<request, said, ended, deltas>>

----------------------------------------------------------------------------

\* main returned.
Over == stage = "Done" /\ UNCHANGED lineVars

LineNext ==
    \/ Startup \/ Describe \/ StartPrompt \/ ReadStdin \/ StdinFails \/ StartProbe
    \/ Register \/ RegisterFails \/ Signal \/ TakeSignal \/ GiveUp \/ Break
    \/ Complete \/ Opened \/ TextDelta \/ Ended \/ StreamFails \/ StreamOver \/ ProbeTurn
    \/ Over

\* The runtime polls a task that is ready; providers and users need do nothing.
LineFairness ==
    WF_lineVars(Startup \/ Describe \/ StartPrompt \/ StartProbe \/ Register \/ TakeSignal \/ GiveUp)

LineSpec == LineInit /\ [][LineNext]_lineVars /\ LineFairness

----------------------------------------------------------------------------

\* What the answer prints: the part of it that was asked for, as one text
\* that ends its line.
FirstBlock(lines) ==
    LET opens == {i \in DOMAIN lines : OpeningFence(lines[i])}
        first == CHOOSE i \in opens : \A j \in opens : i <= j
        closes == {j \in DOMAIN lines : j > first /\ ClosingFence(lines[j], lines[first])}
    IN IF opens = {} \/ closes = {} THEN <<0, 0>>
       ELSE <<first, CHOOSE j \in closes : \A k \in closes : j <= k>>

Wanted(output, text) ==
    LET lines == Lines(text)
        block == FirstBlock(lines)
        inside == FlattenSeq(SubSeq(lines, block[1] + 1, block[2] - 1))
    IN CASE output = "json" -> {<<"envelope">>}
         [] output = "extract" /\ block # <<0, 0>> -> {inside}
         [] output = "extract_last" /\ block # <<0, 0>> ->
              {b \in {FlattenSeq(SubSeq(lines, i + 1, j - 1)) : i, j \in DOMAIN lines} :
                 \E i, j \in DOMAIN lines :
                     /\ i < j /\ OpeningFence(lines[i]) /\ ClosingFence(lines[j], lines[i])
                     /\ b = FlattenSeq(SubSeq(lines, i + 1, j - 1))
                     /\ FirstBlock(SubSeq(lines, j + 1, Len(lines))) = <<0, 0>>}
         [] OTHER -> {text}

\* Standard output, standard error and the exit status agree: success is a
\* whole answer with one line end, streamed or not, or a reader that left;
\* everything else leaves a diagnostic, and nothing is printed that the
\* provider did not say.
OutcomeIsShown ==
    LET prompt == asked.command = "prompt"
        whole == {FullLine(text) : text \in Wanted(asked.output, Answer)}
    IN /\ stage # "Done" /\ prompt => \E w \in whole : IsPrefix(printed, w)
       /\ status = "Success" /\ prompt =>
            /\ request # {} /\ "diagnostic" \notin Range(notes)
            /\ \/ ended /\ printed \in whole /\ notes = UsageNote
               \/ sink = "closed" /\ \E w \in whole : IsPrefix(printed, w)
       /\ stage = "Done" /\ status \notin {"Success", "Killed"} /\ asked.command # "probe" =>
            Last(notes) = "diagnostic"
       /\ status = "Success" /\ asked.command = "probe" => probe.outcome = "Passed"
       /\ status = "Failure" /\ asked.command = "probe" =>
            probe.outcome \in {"Failed", "Incorrect"} \/ "diagnostic" \in Range(notes)

\* Once a signal is taken nothing more is printed or asked for,
NothingAfterSignal == [][interrupt = "taken" => UNCHANGED <<printed, request, said, probe>>]_lineVars

\* and a signal that comes while the run waits for a provider ends the process.
InterruptStops ==
    /\ NothingAfterSignal
    /\ (interrupt = "pending" /\ stage \in Awaits) ~> stage = "Done"

Occurs(item, sequence) == Cardinality({i \in DOMAIN sequence : sequence[i] = item})

\* A line that is accepted arrives whole: every fragment, word and attachment
\* once and in the order given, with the type given, and standard input in
\* one place or, from a terminal, in none.  The first argument that is no
\* global option names the command.
InputIsWhole ==
    /\ LET arguments == asked.arguments
           \* The values of --catalog, and what is left of the line.
           values == CHOOSE V \in SUBSET DOMAIN arguments :
               \A j \in DOMAIN arguments :
                   j \in V <=> j > 1 /\ arguments[j - 1] = "--catalog" /\ j - 1 \notin V
           free == {j \in DOMAIN arguments \ values :
                      arguments[j] \notin {"--verbose", "--catalog", "--catalog=FILE"}}
           named == \E j \in free : arguments[j] \in CommandNames /\ \A k \in free : j <= k
       IN NormalizeArgs(arguments) = IF named THEN arguments ELSE <<"prompt">> \o arguments
    /\ \A sent \in request :
         LET line == asked.line
             files == SelectSeq(line, LAMBDA g : g.option = "fragment")
             attached == SelectSeq(line, LAMBDA g : g.option \in {"attachment", "attachment_type"})
             words == SelectSeq(line, LAMBDA g : g.option = "word")
             media == SelectSeq(sent.parts, LAMBDA p : p.kind # "Text")
             texts == SelectSeq(sent.parts, LAMBDA p : p.kind = "Text")
             typed == FlattenSeq([i \in DOMAIN texts |-> texts[i].text])
             piped == ReadsStdin(line, asked.terminal)
         IN /\ Len(media) = Len(attached)
            /\ \A i \in DOMAIN media :
                 /\ attached[i].type # None =>
                      media[i].kind = CASE attached[i].type = "image" -> "Image"
                                        [] attached[i].type = "audio" -> "Audio" [] OTHER -> "Document"
                 /\ IF attached[i].value = Stdin THEN media[i].source = <<"base64", asked.stdin>>
                    ELSE media[i].source \in {<<"url", attached[i].value>>,
                                              <<"base64", Holds[attached[i].value].bytes>>}
            /\ \A i \in DOMAIN files : texts[i].text = Holds[files[i].value].bytes
            /\ SelectSeq(typed, LAMBDA t : \E w \in Range(words) : t = w.value)
                 = [i \in DOMAIN words |-> words[i].value]
            /\ "schema" \in DOMAIN sent.format /\ asked.flags.schema.form = "short" =>
                 LET schema == IF "multi" \in asked.flags.is THEN sent.format.schema.items ELSE sent.format.schema
                 IN /\ Range(schema.required) = DOMAIN schema.properties
                    /\ Len(schema.required) = Cardinality(DOMAIN schema.properties)
                    /\ Len(schema.required) = Len(asked.flags.schema.fields)
            /\ \A i \in DOMAIN asked.stdin :
                 Occurs(asked.stdin[i], typed)
                 + Cardinality({j \in DOMAIN media : media[j].source = <<"base64", asked.stdin>>})
                   = IF piped THEN 1 ELSE 0

\* The sum of the first n of a sequence of numbers.
SumUpTo(numbers, n) ==
    LET sum[i \in 0..n] == IF i = 0 THEN 0 ELSE sum[i - 1] + numbers[i]
    IN  sum[n]

\* The tokens of each answer, and the messages that follow on it: one that
\* repeats its calls, and a result for each of them.
Good(answer) == answer.kind = "Response"
Tokens(answers) == [i \in DOMAIN answers |-> IF Good(answers[i]) THEN answers[i].usage ELSE 0]
Following(answers) ==
    [i \in DOMAIN answers |->
        IF Good(answers[i]) /\ answers[i].calls # <<>> THEN 1 + Len(answers[i].calls) ELSE 0]

\* A call was made, and the answer behind the last one has the total.
Solved(answers) ==
    /\ \E i \in DOMAIN answers : answers[i].calls # <<>>
    /\ answers[Len(answers)].calls = <<>> /\ answers[Len(answers)].total

Answers(message, call) ==
    /\ message.result = call.id
    /\ message.failed <=> call.name # ToolName \/ ~call.parses
    /\ ~message.failed => message.value = Integer(call, "a") + Integer(call, "b")

\* The first message is the prompt; behind those that the first i - 1 answers
\* led to stands the k-th result for the i-th answer.
AnsweredInPlace(messages, answers) ==
    /\ Len(messages) = 1 + SumUpTo(Following(answers), Len(answers))
    /\ \A i \in DOMAIN answers : Good(answers[i]) =>
          \A k \in DOMAIN answers[i].calls :
              Answers(messages[2 + SumUpTo(Following(answers), i - 1) + k], answers[i].calls[k])

Honest(p, tools) ==
    LET sum == SumUpTo(Tokens(p.answers), Len(p.answers))
    IN /\ Len(p.answers) <= MaxToolTurns
       /\ p.usage = IF sum > MaxTokens THEN MaxTokens ELSE sum
       /\ tools /\ p.answers # <<>> => AnsweredInPlace(p.messages, p.answers)
       /\ p.outcome = "Passed" =>
             (\A i \in DOMAIN p.answers : Good(p.answers[i])) /\ (tools => Solved(p.answers))
       /\ p.outcome = "Incorrect" => tools /\ ~Solved(p.answers)
       /\ p.outcome = "Failed" => ~Good(p.answers[Len(p.answers)])

\* A report is what the answers show: it counts every answer's tokens, passes
\* a tool probe exactly when a call was made and the last answer has the
\* total, and every call was answered once, with its sum, before the next
\* request.
ProbeIsHonest == Honest(probe, asked.tools)

\* "A failure after deltas were written ends the open line first, so the
\* diagnostic on standard error does not start mid-line" (app/prompt.rs).
DiagnosticsStartLines ==
    "diagnostic" \in Range(notes) /\ sink = "open" /\ printed # <<>> => EndsLine(printed)

=============================================================================
