---------------------------- MODULE ObservedCall ----------------------------
(***************************************************************************)
(* One call through ObserverMiddleware (middleware/observer.rs), between   *)
(* the guard that Next::run keeps around the layer and the guarded layers  *)
(* below it (middleware/guard.rs).                                         *)
(*                                                                         *)
(* The layer's FinishGuard reports one outcome: when the answer or the     *)
(* terminal item passes, or when it is dropped.  Dropping is a step of its *)
(* own, because the token and the clock move between the error that the    *)
(* outer guard answers and the destructor that asks why it runs.           *)
(***************************************************************************)
EXTENDS Integers, Sequences, SequencesExt

CONSTANTS Deadlines,    \* the possible deadlines, in ticks from the start
          NoDeadline,   \* a call without a deadline
          MaxEvents     \* bounds the events before the terminal item

ASSUME ObservedAssumption ==
    /\ Deadlines \subseteq Nat
    /\ NoDeadline \notin Nat
    /\ MaxEvents \in Nat

VARIABLES
    op,           \* Call::mode; Complete stands for every operation without a stream
    pc,           \* what is left of the layer's future or stream
    entered,      \* the outer guard has let the current poll through
    left,         \* ticks left until the deadline
    cancelled,    \* the CancellationToken's flag
    started,      \* Observer::on_start was called
    told,         \* what Observer::on_stream_event was told
    outcomes,     \* what Observer::on_finish was told
    out           \* what the layer above received

signals  == <<left, cancelled>>
observer == <<started, told, outcomes>>
observedVars     == <<op, pc, entered, signals, observer, out>>

Error == {"Provider", "Timeout", "Cancelled"}
Err(e) == [type |-> "Err", error |-> e]
Terminal == [type : {"Response"}] \cup [type : {"Err"}, error : Error]
Item == [type : {"Event"}] \cup Terminal

\* A cancelled call is no failure.
Outcome ==
    [type : {"Response", "Cancelled", "Dropped"}] \cup [type : {"Failed"}, error : Error \ {"Cancelled"}]

ObservedTypeOK ==
    /\ op \in {"Complete", "Stream"}
    /\ pc \in {"Fresh", "Running", "Reading", "Dropping", "Gone"}
    /\ entered \in BOOLEAN
    /\ left \in Nat \cup {NoDeadline}
    /\ cancelled \in BOOLEAN
    /\ started \in BOOLEAN
    /\ told \in Seq(Item)
    /\ outcomes \in Seq(Outcome)
    /\ out \in Seq(Item)

ObservedInit ==
    /\ op \in {"Complete", "Stream"}
    /\ pc = "Fresh" /\ entered = FALSE
    /\ left \in Deadlines \cup {NoDeadline}
    /\ cancelled = FALSE
    /\ started = FALSE /\ told = <<>> /\ outcomes = <<>> /\ out = <<>>

----------------------------------------------------------------------------
(* CallGuard *)

Stopped == cancelled \/ left = 0

\* CallGuard::check
GuardError == IF cancelled THEN "Cancelled" ELSE "Timeout"

Alive == pc \in {"Fresh", "Running", "Reading"}

\* A poll passes the outer guard; the first one calls the handler.
Enter ==
    /\ Alive /\ ~entered /\ ~Stopped
    /\ entered' = TRUE
    /\ pc' = IF pc = "Fresh" THEN "Running" ELSE pc
    /\ started' = TRUE
    /\ UNCHANGED <<op, signals, told, outcomes, out>>

\* Mutant: the guard covers the request but not the stream's consumption.
GuardFiresForRequestsOnly ==
    /\ pc \in {"Fresh", "Running"} /\ ~entered /\ Stopped
    /\ out' = Append(out, Err(GuardError))
    /\ pc' = "Dropping"
    /\ UNCHANGED <<op, entered, signals, observer>>

\* The outer guard answers with its own error and drops what it guards.
GuardFires ==
    /\ Alive /\ ~entered /\ Stopped
    /\ out' = Append(out, Err(GuardError))
    /\ pc' = "Dropping"
    /\ UNCHANGED <<op, entered, signals, observer>>

\* Nothing to deliver yet.  A stopped call is answered by the inner guard.
Pend ==
    /\ entered /\ ~Stopped
    /\ entered' = FALSE
    /\ UNCHANGED <<op, pc, signals, observer, out>>

----------------------------------------------------------------------------
(* FinishGuard *)

\* Mutant: finish does not look at finished.
FinishAgain(o) == outcomes' = Append(outcomes, o)

\* FinishGuard::finish
Finish(o) == outcomes' = IF outcomes = <<>> THEN <<o>> ELSE outcomes

\* FinishGuard::error, and the outcome of an answer.
OutcomeOf(x) ==
    CASE x.type = "Response" -> x
      [] x = Err("Cancelled") -> [type |-> "Cancelled"]
      [] OTHER -> [type |-> "Failed", error |-> x.error]

\* Mutant: an abandoned call is reported as dropped, whatever stopped it.
DropSaysDropped ==
    /\ pc = "Dropping"
    /\ pc' = "Gone"
    /\ Finish([type |-> "Dropped"])
    /\ UNCHANGED <<op, entered, signals, started, told, out>>

\* FinishGuard::drop.  Before the first poll there is no FinishGuard.
DropGuard ==
    /\ pc = "Dropping"
    /\ pc' = "Gone"
    /\ IF started
       THEN Finish(IF Stopped THEN OutcomeOf(Err(GuardError)) ELSE [type |-> "Dropped"])
       ELSE UNCHANGED outcomes
    /\ UNCHANGED <<op, entered, signals, started, told, out>>

----------------------------------------------------------------------------
(* ObserverMiddleware::handle *)

Pass(x) ==
    /\ out' = Append(out, x)
    /\ entered' = FALSE
    /\ UNCHANGED <<op, signals, started>>

\* The layers below return a response, a count, a verdict or an error.
Answer(x) ==
    /\ pc = "Running" /\ entered
    /\ x.type = "Response" => op = "Complete"
    /\ Finish(OutcomeOf(x))
    /\ pc' = "Dropping"
    /\ Pass(x)
    /\ UNCHANGED told

\* They return a stream, which the layer wraps; the FinishGuard moves into it.
WrapStream ==
    /\ pc = "Running" /\ entered /\ op = "Stream"
    /\ pc' = "Reading" /\ entered' = FALSE
    /\ UNCHANGED <<op, signals, observer, out>>

\* An item passes the inspecting stream.
Observe(x) ==
    /\ pc = "Reading" /\ entered
    /\ told' = Append(told, x)
    /\ IF x \in Terminal THEN Finish(OutcomeOf(x)) ELSE UNCHANGED outcomes

\* Mutant: the guard looks again before it hands the item on.
YieldIfNotStopped(x) ==
    /\ Observe(x)
    /\ pc' = IF x \in Terminal THEN "Dropping" ELSE pc
    /\ Pass(IF Stopped THEN Err(GuardError) ELSE x)

\* Mutant: the stream can be polled after its terminal item.
YieldWithoutFuse(x) ==
    /\ Observe(x)
    /\ pc' = pc
    /\ Pass(x)

\* The ResponseStream around the layer drops it at the terminal item.
Yield(x) ==
    /\ Observe(x)
    /\ pc' = IF x \in Terminal THEN "Dropping" ELSE pc
    /\ Pass(x)

----------------------------------------------------------------------------
(* The surroundings *)

\* What the layers below may answer: an error of their own at any time, and
\* the inner guard's error once the call is stopped.
Below ==
    \/ \E x \in Terminal : Answer(x) \/ Yield(x)
    \/ WrapStream
    \/ Len(told) < MaxEvents /\ Yield([type |-> "Event"])

InnerGuardFires == Stopped /\ (Answer(Err(GuardError)) \/ Yield(Err(GuardError)))

\* The layer above loses interest between two polls.
DropCall ==
    /\ Alive /\ ~entered
    /\ pc' = "Dropping"
    /\ UNCHANGED <<op, entered, signals, observer, out>>

CancelCall ==
    /\ pc # "Gone" /\ ~cancelled
    /\ cancelled' = TRUE
    /\ UNCHANGED <<op, pc, entered, left, observer, out>>

Tick ==
    /\ pc # "Gone" /\ left # NoDeadline /\ left > 0
    /\ left' = left - 1
    /\ UNCHANGED <<op, pc, entered, cancelled, observer, out>>

Over == pc = "Gone" /\ UNCHANGED observedVars

ObservedNext ==
    \/ Enter \/ GuardFires \/ Pend \/ DropGuard
    \/ Below \/ InnerGuardFires
    \/ DropCall \/ CancelCall \/ Tick \/ Over

ObservedSpec == ObservedInit /\ [][ObservedNext]_observedVars

\* A poll that began ends, the layer above polls on or drops, time passes.
ObservedFairness ==
    /\ WF_observedVars(Enter \/ GuardFires \/ Pend \/ InnerGuardFires)
    /\ WF_observedVars(DropGuard)
    /\ WF_observedVars(Tick)

----------------------------------------------------------------------------
(* Properties *)

\* on_finish is called once for a call that was started, also when the call is
\* abandoned (doc of Observer::on_finish), and never for one that was not.
OneOutcome ==
    /\ Len(outcomes) <= IF started THEN 1 ELSE 0
    /\ pc = "Gone" => Len(outcomes) = IF started THEN 1 ELSE 0

\* The outcome is what the layer above got.  They differ in one race only: a
\* call that timed out and is cancelled before it is dropped is Cancelled.
OutcomeIsTrue ==
    pc = "Gone" /\ started =>
        LET o == Head(outcomes) IN
        IF out # <<>> /\ Last(out) \in Terminal
        THEN \/ o = OutcomeOf(Last(out))
             \/ Last(out) = Err("Timeout") /\ cancelled /\ o.type = "Cancelled"
        ELSE IF Stopped THEN o = OutcomeOf(Err(GuardError)) ELSE o.type = "Dropped"

\* The observer is told every item that is delivered and no other; only the
\* outer guard's own error passes it by.
ToldIsDelivered ==
    op = "Stream" /\ pc # "Running" /\ told # <<>> =>
        \/ out = told
        \/ Stopped /\ out \in {Append(told, Err(e)) : e \in {"Timeout", "Cancelled"}}

\* After on_finish the observer hears no more of the call.
SilentAfterFinish == [][outcomes # <<>> => UNCHANGED observer]_observedVars

\* A call that was started and is stopped is reported.
StopIsReported == started /\ Stopped ~> outcomes # <<>>

=============================================================================
