---------------------------- MODULE MCMiddleware -----------------------------
(***************************************************************************)
(* Model-checking values for four parts that share no state: calls at a    *)
(* limiter, an observed call, the token that ends calls, and the process   *)
(* that cancels its call when it is told to.  A behaviour is about one of  *)
(* them; the others stay at rest, where none of their fair steps is        *)
(* enabled.                                                                *)
(***************************************************************************)
EXTENDS ConcurrencyLimit, CancellationToken, ObservedCall

CONSTANTS Holds, Binary, Cases, Texts, MaxDeltas, ProbeAnswers, MaxTokens

\* Token counts are unsigned, and the largest one fits.
ASSUME ProbeAssumption ==
    /\ MaxTokens \in Nat
    /\ \A answer \in ProbeAnswers :
          /\ answer.calls \in Seq({answer.calls[k] : k \in DOMAIN answer.calls})
          /\ answer.kind = "Response" => answer.usage \in Nat /\ answer.total \in BOOLEAN
    /\ Cases # {} /\ \A c \in Cases : c.tools \in BOOLEAN

\* A text is a list of words and separators.
ASSUME TextsAssumption == \A text \in Texts : text \in Seq({text[i] : i \in DOMAIN text})

VARIABLES part, asked, stage, handler, interrupt, sink, printed, notes, request, said, ended,
          deltas, probe, status

Lllm == INSTANCE CommandLine

\* For the values below, which an instance of CommandLine would depend on.
Typed == INSTANCE CommandInput

processVars == <<asked, stage, handler, interrupt, sink, printed, notes, request, said, ended,
                 deltas, probe, status>>
middlewareVars == <<part, vars, tokenVars, observedVars, processVars>>

\* No call has reached the observer, and none will.
NobodyObserved ==
    /\ op = "Complete" /\ pc = "Gone" /\ entered = FALSE
    /\ left = NoDeadline /\ cancelled = FALSE
    /\ started = FALSE /\ told = <<>> /\ outcomes = <<>> /\ out = <<>>

\* The process is over before it did anything.
NoProcess ==
    /\ asked = CHOOSE c \in Cases : TRUE
    /\ stage = "Done" /\ handler = FALSE /\ interrupt = "none" /\ sink = "open"
    /\ printed = <<>> /\ notes = <<>> /\ request = {} /\ said = <<>> /\ ended = FALSE
    /\ deltas = [wrote |-> FALSE, line |-> FALSE] /\ probe = Lllm!NoProbe /\ status = "Killed"

MCInit ==
    /\ Init /\ TokenInit
    /\ \/ part = "observer" /\ ObservedInit /\ NoProcess
       \/ part \in {"limiter", "token"} /\ NobodyObserved /\ NoProcess
       \/ part = "process" /\ NobodyObserved /\ Lllm!LineInit /\ order = "RetryOutside"

LimiterStep == part = "limiter" /\ Next /\ UNCHANGED <<part, tokenVars, observedVars, processVars>>
TokenStep == part = "token" /\ TokenNext /\ UNCHANGED <<part, vars, observedVars, processVars>>
ObserverStep == part = "observer" /\ ObservedNext /\ UNCHANGED <<part, vars, tokenVars, processVars>>
ProcessStep == part = "process" /\ Lllm!LineNext /\ UNCHANGED <<part, vars, tokenVars, observedVars>>

MCNext == LimiterStep \/ TokenStep \/ ObserverStep \/ ProcessStep

MCSpec ==
    /\ MCInit /\ [][MCNext]_middlewareVars
    /\ LimitFairness /\ TokenFairness /\ ObservedFairness /\ Lllm!LineFairness

\* The properties of the process, with their texts in CommandLine.  Its exit
\* status and its output say how the call ended:
OutcomeIsShown == Lllm!OutcomeIsShown

\* the request holds each input of the command line once, in its place:
InputIsWhole == Lllm!InputIsWhole

\* a probe's verdict fits what the model did:
ProbeIsHonest == Lllm!ProbeIsHonest

\* a call that is stopped, by its context or by a signal, stops and says so:
StopsAreHonoured == StopIsReported /\ Lllm!InterruptStops

\* a diagnostic never starts in the middle of a line of output:
DiagnosticsStartLines == Lllm!DiagnosticsStartLines

----------------------------------------------------------------------------

File(bytes, magic, extension) ==
    [at |-> "file", bytes |-> bytes, magic |-> magic, extension |-> extension]

MCHolds == [f \in {"notes", "photo", "sound", "clip", "gone", "link"} |->
    CASE f = "notes" -> File(<<"n">>, "none", "text")
      [] f = "photo" -> File(<<"p", Binary>>, "image", "none")
      [] f = "sound" -> File(<<"w", Binary>>, "none", "audio")
      [] f = "clip" -> File(<<"c", Binary>>, "video", "none")
      [] f = "gone" -> [File(<<>>, "none", "none") EXCEPT !.at = "missing"]
      [] f = "link" -> [File(<<>>, "none", "application") EXCEPT !.at = "url"]]

Word == Typed!Given("word", "w1", "none")
Options ==
    {Word, Typed!Given("word", "w2", "none"), Typed!Given("attachment_type", "-", "image"),
     Typed!Given("attachment_type", "sound", "audio"), Typed!Given("attachment_type", "clip", "text")}
    \cup {Typed!Given("fragment", f, "none") : f \in {"notes", "photo"}}
    \cup {Typed!Given("attachment", f, "none") : f \in {"photo", "link", "gone", "clip"}}

\* Standard input: of a terminal or piped.
Inputs == {<<TRUE, <<>>>>, <<TRUE, <<"s1">>>>, <<FALSE, <<>>>>, <<FALSE, <<"s1", "s2">>>>,
           <<FALSE, <<"s1", Binary>>>>}

NoFlags == [is |-> {}, schema |-> [form |-> "none"], options |-> <<>>]
Field(name, type) == [name |-> name, type |-> type]
Short(fields) == [form |-> "short", fields |-> fields]

\* lllm w1
Plain ==
    [command |-> "prompt", arguments |-> <<"w1">>, line |-> <<Word>>, flags |-> NoFlags,
     terminal |-> TRUE, stdin |-> <<>>, output |-> "text", usage |-> FALSE, tools |-> FALSE,
     model |-> "known", catalog |-> "fine"]

MCCases ==
    {[Plain EXCEPT !.line = l, !.terminal = p[1], !.stdin = p[2]] :
        l \in Typed!SeqOf(Options, 2), p \in Inputs}
    \cup {[Plain EXCEPT !.line = l, !.output = "json"] :
        l \in {<<Typed!Given("attachment_type", "sound", "audio"), Word, Typed!Given("attachment", "photo", "none"),
                 Typed!Given("attachment_type", "clip", "text")>>,
               <<Typed!Given("system", "s", "none"), Typed!Given("system-fragment", "notes", "none"), Word>>,
               <<Typed!Given("system-fragment", "photo", "none"), Word>>}}
    \cup {[Plain EXCEPT !.output = o, !.usage = u, !.terminal = t] :
        o \in {"stream", "text", "json", "extract", "extract_last"}, u \in BOOLEAN, t \in BOOLEAN}
    \cup {[Plain EXCEPT !.flags.schema = s, !.flags.is = is, !.output = "json"] :
        s \in {Short(<<Field("x", ""), Field("y", "int")>>), Short(<<Field("x", ""), Field("x", "bool")>>),
               Short(<<Field("x", "date")>>), [form |-> "json", document |-> Typed!Failed],
               [form |-> "file", document |-> [type |-> "object"]]},
        is \in {{"multi"}, {"no_cache", "temperature"}}}
    \cup {[Plain EXCEPT !.flags = [is |-> {"json_object", "cache_key", "timeout"}, schema |-> [form |-> "none"],
                                   options |-> <<"k1", "k2">>]]}
    \cup {[Plain EXCEPT !.command = c, !.tools = t, !.model = m, !.catalog = k] :
        c \in {"prompt", "probe", "show", "help", "invalid"}, t \in BOOLEAN, m \in {"known", "bad"},
        k \in {"fine", "bad"}}
    \cup {[Plain EXCEPT !.arguments = a, !.line = <<>>,
                        !.command = IF Typed!HasExplicitCommand(a) THEN "show" ELSE "prompt"] :
        a \in Typed!SeqOf({"--verbose", "--catalog", "--catalog=FILE", "models", "w1", "--"}, 3)}

MCTexts ==
    {<<>>, <<"a">>, <<"three backticks", "\n", "a", "\n">>,
     <<"four backticks", "\n", "three backticks", "\n">>,
     <<"three backticks", "\n", "b", "\n", "four backticks", "\n">>}

ToolCall(id, name, input, parses) == [id |-> id, name |-> name, input |-> input, parses |-> parses]
Adds == ToolCall(1, "add", [k \in {"a", "b"} |-> IF k = "a" THEN 1 ELSE 2], TRUE)
Reply(calls, total, usage) == [kind |-> "Response", calls |-> calls, total |-> total, usage |-> usage]

MCProbeAnswers ==
    {Reply(<<>>, TRUE, 1), Reply(<<>>, FALSE, 1), Reply(<<Adds>>, FALSE, 2),
     Reply(<<Adds, ToolCall(2, "add", [k \in {"b"} |-> 3], TRUE), ToolCall(3, "sub", [k \in {} |-> 0], TRUE)>>, FALSE, 0),
     Reply(<<ToolCall(4, "add", [k \in {} |-> 0], FALSE)>>, TRUE, 1),
     [kind |-> "Timeout", calls |-> <<>>]}
=============================================================================
