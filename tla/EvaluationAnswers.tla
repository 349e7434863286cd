-------------------------- MODULE EvaluationAnswers --------------------------
(***************************************************************************)
(* Questions, the forms in which a model is asked them, and the checks its *)
(* answers pass (evaluation/validate.rs, client/judge.rs,                  *)
(* codecs/evaluation_common.rs, systemone.rs, vercel_evaluation.rs).       *)
(*                                                                         *)
(* An evaluation is a sequence of questions; `of` lists the options of a   *)
(* choice or the levels of a score.  A probability is a whole number of    *)
(* parts of Unit, and so is a score, whose level n is n * Unit.  A part is *)
(* wider than the tolerance of the code.  What may be absent is a set with *)
(* at most one element.                                                    *)
(***************************************************************************)
EXTENDS FailureClass, FiniteSetsExt

CONSTANTS
    MaxOptions,     \* the ceilings of the native protocols
    MaxLevels

ASSUME CeilingsAssumption == MaxOptions \in Nat /\ MaxLevels \in Nat

Unit == 200

EvaluationKinds == {"choice", "score", "boolean"}

Question(id, kind, of) == [id |-> id, kind |-> kind, of |-> of]
Ids(evaluation) == {evaluation[i].id : i \in DOMAIN evaluation}
QuestionOf(evaluation, id) ==
    {evaluation[i] : i \in {j \in DOMAIN evaluation : evaluation[j].id = id}}

\* An answer: a choice has a label, the others a number; spread is the
\* distribution over options, or over levels from 0.
Answer(kind, choice, number, spread) ==
    [kind |-> kind, choice |-> choice, number |-> number, spread |-> spread]
NoChoice == ""

\* The most places a provider may declare, and no declaration.
MaxDecimals == 15
NoDecimals == -1
NoRounding == [probability |-> NoDecimals, score |-> NoDecimals]

Verdict(answers, rounding, size, raw, warnings, limits) ==
    [type |-> "Verdict", answers |-> answers, rounding |-> rounding, size |-> size, raw |-> raw,
     warnings |-> warnings, limits |-> limits]

InvalidVerdict == Final("ResponseDecode")

----------------------------------------------------------------------------
(* validate_verdict *)

\* Half a unit in the last declared place.
RoundingError(decimals) ==
    CASE decimals = NoDecimals -> 0
      [] decimals \in 0..2 -> Unit \div (2 * 10^decimals)
      [] OTHER -> 0

Outcomes(question) ==
    IF question.kind = "choice" THEN Range(question.of) ELSE 0..(Len(question.of) - 1)

\* Whether two numbers differ by no more than the error allows.
Close(a, b, error) == a - b <= error /\ b - a <= error

SpreadFits(question, spread, error) ==
    /\ DOMAIN spread = Outcomes(question)
    /\ \A o \in DOMAIN spread : spread[o] \in 0..Unit
    /\ Close(MapThenSumSet(LAMBDA o : spread[o], DOMAIN spread), Unit,
             Cardinality(DOMAIN spread) * error)

\* The sum of what is weighed by its level.
Weighed(levels, Weight(_)) == MapThenSumSet(LAMBDA n : n * Weight(n), levels)

AnswerFits(question, answer, rounding) ==
    LET error == RoundingError(rounding.probability)
        levels == Outcomes(question)
    IN  /\ answer.kind = question.kind
        /\ \A spread \in answer.spread : SpreadFits(question, spread, error)
        /\ CASE question.kind = "choice" ->
                  /\ answer.choice \in Range(question.of)
                  /\ \A spread \in answer.spread : \A o \in DOMAIN spread :
                        spread[o] <= spread[answer.choice]
             [] question.kind = "score" ->
                  /\ answer.number \in 0..((Len(question.of) - 1) * Unit)
                  /\ \A spread \in answer.spread :
                        Close(Weighed(levels, LAMBDA n : spread[n]), answer.number,
                              Weighed(levels, LAMBDA n : error) + RoundingError(rounding.score))
             [] question.kind = "boolean" -> answer.number \in 0..Unit

VerdictFits(evaluation, verdict) ==
    /\ verdict.rounding.probability <= MaxDecimals /\ verdict.rounding.score <= MaxDecimals
    /\ DOMAIN verdict.answers = Ids(evaluation)
    /\ \A i \in DOMAIN evaluation :
          AnswerFits(evaluation[i], verdict.answers[evaluation[i].id], verdict.rounding)

----------------------------------------------------------------------------
(* The judge: one property per question under an internal key *)

\* Keys and option codes count from 0: "q0" is Key(1), "c0" is 0.
Key(index) == index - 1

\* The rubric of a choice: the label that each code stands for.
Rubric(question) == [code \in 0..(Len(question.of) - 1) |-> question.of[code + 1]]

\* A judge's value: a code, a number, or something else.
Coded(code) == [kind |-> "code", n |-> code]
Number(n) == [kind |-> "number", n |-> n]
OtherValue == [kind |-> "other", n |-> 0]

NumberIn(value, range) == range \cap (IF value.kind = "number" THEN {value.n} ELSE {})

\* Mutant: codes count from 1.
LabelFromOne(question, code) == {question.of[i] : i \in DOMAIN question.of \cap {code}}

\* The label a code stands for, if it stands for one.
LabelOf(question, code) == {question.of[i] : i \in {j \in DOMAIN question.of : code = j - 1}}

\* One answer, or none for a value outside the rubric.
JudgeAnswer(question, value) ==
    CASE question.kind = "choice" ->
            {Answer("choice", label, 0, {}) :
                label \in (IF value.kind = "code" THEN LabelOf(question, value.n) ELSE {})}
      [] question.kind = "score" ->
            {Answer("score", NoChoice, n, {}) :
                n \in NumberIn(value, 0..((Len(question.of) - 1) * Unit))}
      [] question.kind = "boolean" ->
            {Answer("boolean", NoChoice, n, {}) :
                n \in NumberIn(value, 0..Unit)}

\* verdict_from: of a completion that ended with Stop and whose object has
\* exactly one value per question.
JudgeVerdict(evaluation, response, object) ==
    LET answered(i) == JudgeAnswer(evaluation[i], object[Key(i)])
        index(id) == CHOOSE i \in DOMAIN evaluation : evaluation[i].id = id
    IN  IF /\ response.finish = "Stop"
           /\ DOMAIN object = {Key(i) : i \in DOMAIN evaluation}
           /\ \A i \in DOMAIN evaluation : answered(i) # {}
        THEN Verdict([id \in Ids(evaluation) |-> CHOOSE a \in answered(index(id)) : TRUE],
                     NoRounding, response.size, response.raw, response.warnings, response.limits)
        ELSE InvalidVerdict

----------------------------------------------------------------------------
(* The native protocols *)

\* encode_question: only the gateway bounds the options.
QuestionCarried(codec, question) ==
    CASE question.kind = "choice" ->
            codec = "vercel-evaluation" => Len(question.of) <= MaxOptions
      [] question.kind = "score" -> Len(question.of) <= MaxLevels
      [] OTHER -> TRUE

\* What no dialect carries: the gateway has room for provider options.
EvaluationDropped(codec, settings) ==
    settings \cap ({"metadata"} \cup (IF codec = "systemone" THEN {"options"} ELSE {}))

\* A wire answer: an answer whose kind may be of no known type, and whether
\* its legend, if it has one, names the levels of its question.
WireAnswer(answer, legend) == [answer |-> answer, legend |-> legend]

\* decode_answer: a distribution names each outcome once and no other; an
\* answer to no question is left to the checks behind.
AnswerDecodes(evaluation, codec, id, wire) ==
    /\ wire.answer.kind \in EvaluationKinds
    /\ \A question \in QuestionOf(evaluation, id) :
          /\ question.kind = wire.answer.kind =>
                \A spread \in wire.answer.spread : DOMAIN spread = Outcomes(question)
          /\ codec = "systemone" /\ question.kind = "score" /\ wire.answer.kind = "score"
                => wire.legend

\* decode_verdict: System One rounds to two places and does not say so.
DecodeVerdict(evaluation, codec, wire) ==
    IF \E id \in DOMAIN wire.answers : ~AnswerDecodes(evaluation, codec, id, wire.answers[id])
    THEN InvalidVerdict
    ELSE Verdict([id \in DOMAIN wire.answers |-> wire.answers[id].answer],
                 IF codec = "systemone" THEN [probability |-> 2, score |-> 2]
                 ELSE wire.rounding,
                 wire.size, wire.raw, {}, FALSE)

=============================================================================
