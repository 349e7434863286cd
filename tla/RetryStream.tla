---------------------------- MODULE RetryStream -----------------------------
(***************************************************************************)
(* One call through RetryMiddleware (middleware/retry.rs), between the     *)
(* guard that Next::run keeps around the layer and the guarded attempts    *)
(* below it (middleware/guard.rs).                                         *)
(*                                                                         *)
(* The caller polls.  A poll that passes the outer guard (entered) runs    *)
(* until an item is delivered or the layer has to wait.  Cancellation and  *)
(* the clock move at any moment, between polls and in the middle of one.   *)
(* The provider answers an attempt whenever and with whatever it likes, as *)
(* long as each of its streams keeps the contract of StreamContract.       *)
(***************************************************************************)
EXTENDS Integers, StreamContract, SequencesExt

(***************************************************************************)
(* RetryPolicy: the whole decision of whether, and after which wait, a     *)
(* failed attempt is repeated.  Time is counted in ticks.                  *)
(***************************************************************************)

CONSTANTS MaxAttempts,      \* the attempt budget
          InitialDelay,     \* the wait after the first failure
          MaxDelay,         \* the cap of the computed waits
          RetryAfterCap,    \* the longest Retry-After that is honored
          Jitter,           \* are computed waits spread over a random range?
          RetryAfters       \* the Retry-After waits that providers ask for

ASSUME PolicyAssumption ==
    /\ MaxAttempts \in Nat \ {0}
    /\ InitialDelay \in Nat
    /\ MaxDelay \in Nat
    /\ RetryAfterCap \in Nat
    /\ Jitter \in BOOLEAN
    /\ RetryAfters \subseteq Nat

\* An error as the retry layer reads it: a source, a retry classification and,
\* when the classification is After, the wait that the provider asked for.
Error == [kind  : {"Provider", "Incomplete", "Middleware", "Cancelled", "Timeout"},
          retry : {"Never", "Safe", "After"},
          after : RetryAfters \cup {0}]

Final(kind) == [kind |-> kind, retry |-> "Never", after |-> 0]

\* incomplete_error: how the policy classifies a response that ended incomplete.
IncompleteError == [kind |-> "Incomplete", retry |-> "Safe", after |-> 0]

\* What a provider attempt fails with.
ProviderErrors ==
    {e \in Error : e.kind = "Provider" /\ (e.retry # "After" => e.after = 0)}

AtMost(a, b) == IF a <= b THEN a ELSE b

\* jittered: anything between half of the delay and the delay.
Spread(delay) == IF Jitter THEN (delay \div 2)..delay ELSE {delay}

Backoff(n) == AtMost(InitialDelay * 2^AtMost(n - 1, 31), MaxDelay)

\* RetryPolicy::next_delay after n attempts: the waits it may answer, none when it refuses.
NextDelays(n, e) ==
    IF n >= MaxAttempts \/ e.retry = "Never" THEN {}
    ELSE IF e.retry = "After" THEN {d \in {e.after} : d <= RetryAfterCap}
    ELSE Spread(Backoff(n))

----------------------------------------------------------------------------

CONSTANTS Deadlines,    \* the possible deadlines, in ticks from the start
          NoDeadline,   \* a call without a deadline
          MaxEvents     \* bounds the events of one attempt's stream

ASSUME DeadlineAssumption ==
    /\ Deadlines \subseteq Nat
    /\ NoDeadline \notin Nat
    /\ MaxEvents \in Nat

VARIABLES
    op,           \* Call::mode; Complete stands for every operation without a stream
    pc,           \* where the layer's future or stream stands
    stage,        \* RetryStage: has the caller been given the stream yet?
    phase,        \* Phase: are events held back?
    attempt,      \* CallContext::attempt
    held,         \* Phase::Holding(held)
    batch,        \* items of the last step, not yet polled by the caller
    given,        \* what the current attempt's stream has yielded so far
    out,          \* what the caller has received
    sleep,        \* ticks left of the backoff
    left,         \* ticks left until the deadline
    cancelled,    \* the CancellationToken's flag
    entered,      \* the outer guard has let the current poll through
    dispatches,   \* attempts that reached the layers below
    reports       \* what Observer::on_retry was told

call   == <<op, left, cancelled>>
loop   == <<stage, attempt, sleep, dispatches, reports>>
stream == <<phase, held>>
vars   == <<call, loop, stream, given, pc, batch, out, entered>>

Item == ItemsFailingWith(Error)

TypeOK ==
    /\ op \in {"Complete", "Stream"}
    /\ pc \in {"Dispatch", "Opening", "Backoff", "Reading", "Done"}
    /\ stage \in {"Request", "Stream"}
    /\ phase \in {"Holding", "Delivering"}
    /\ attempt \in Nat \ {0}
    /\ held \in Seq(Event)
    /\ batch \in Seq(Item)
    /\ given \in Seq(Item)
    /\ out \in Seq(Item)
    /\ sleep \in Int
    /\ left \in Nat \cup {NoDeadline}
    /\ cancelled \in BOOLEAN
    /\ entered \in BOOLEAN
    /\ dispatches \in Nat
    /\ reports \in Seq([attempt : Nat, stage : {"Request", "Stream"}])

Init ==
    /\ op \in {"Complete", "Stream"}
    /\ pc = "Dispatch" /\ stage = "Request" /\ phase = "Holding"
    /\ attempt = 1 /\ dispatches = 0 /\ sleep = 0
    /\ held = <<>> /\ batch = <<>> /\ given = <<>> /\ out = <<>> /\ reports = <<>>
    /\ left \in Deadlines \cup {NoDeadline}
    /\ cancelled = FALSE
    /\ entered = FALSE

----------------------------------------------------------------------------
(* CallGuard *)

Expired == left = 0

Stopped == cancelled \/ Expired

\* CallGuard::check: cancellation is reported before the deadline.
GuardError == Final(IF cancelled THEN "Cancelled" ELSE "Timeout")

\* CallGuard::permits_retry_after: the wait must end strictly before the deadline.
Permits(delay) == ~Stopped /\ (left # NoDeadline => delay < left)

Enter ==
    /\ pc # "Done" /\ ~entered /\ ~Stopped
    /\ entered' = TRUE
    /\ UNCHANGED <<call, loop, stream, given, pc, batch, out>>

\* Mutant: the guard covers the request but not the stream's consumption.
GuardFiresForRequestsOnly ==
    /\ pc # "Done" /\ ~entered /\ Stopped /\ stage = "Request"
    /\ out' = Append(out, Err(GuardError))
    /\ pc' = "Done" /\ batch' = <<>>
    /\ UNCHANGED <<call, loop, stream, given, entered>>

\* The guard's own error ends the call and drops everything below it.
GuardFires ==
    /\ pc # "Done" /\ ~entered /\ Stopped
    /\ out' = Append(out, Err(GuardError))
    /\ pc' = "Done" /\ batch' = <<>>
    /\ UNCHANGED <<call, loop, stream, given, entered>>

\* A poll that finds nothing to do.  The inner guard answers a poll of a
\* stopped attempt at once, so only a backoff sleeps on.
Pend ==
    /\ entered /\ batch = <<>>
    /\ \/ pc \in {"Opening", "Reading"} /\ ~Stopped
       \/ pc = "Backoff" /\ sleep > 0
    /\ entered' = FALSE
    /\ UNCHANGED <<call, loop, stream, given, pc, batch, out>>

----------------------------------------------------------------------------
(* What the caller receives *)

\* The handler returns its output, or an error instead of one.
Return(x) ==
    /\ out' = Append(out, x)
    /\ pc' = "Done" /\ entered' = FALSE
    /\ UNCHANGED <<loop, stream, batch>>

\* Mutant: the stream is not dropped at its terminal item.
DeliverWithoutFuse ==
    /\ entered /\ batch # <<>>
    /\ out' = Append(out, Head(batch))
    /\ entered' = FALSE
    /\ pc' = pc /\ batch' = Tail(batch)
    /\ UNCHANGED <<call, loop, stream, given>>

\* The caller polls one item of the last batch.  The ResponseStream around the
\* layer drops it at the terminal item.
Deliver ==
    /\ entered /\ batch # <<>>
    /\ out' = Append(out, Head(batch))
    /\ entered' = FALSE
    /\ IF IsTerminal(Head(batch))
       THEN pc' = "Done" /\ batch' = <<>>
       ELSE pc' = pc /\ batch' = Tail(batch)
    /\ UNCHANGED <<call, loop, stream, given>>

----------------------------------------------------------------------------
(* Retrier::wait_before_retry and its two outcomes *)

\* Report the retry and start the backoff.
Retry(delay) ==
    /\ pc' = "Backoff"
    /\ sleep' = delay
    /\ reports' = Append(reports, [attempt |-> attempt, stage |-> stage])
    /\ UNCHANGED <<stage, attempt, dispatches, stream, batch, out, entered>>

\* Mutant: the held bookkeeping is lost when the retries are spent.
GiveUpWithoutHeld(x) ==
    \/ stage = "Request" /\ Return(x)
    \/ /\ stage = "Stream"
       /\ batch' = <<x>>
       /\ held' = <<>>
       /\ pc' = "Reading"
       /\ UNCHANGED <<loop, phase, out, entered>>

\* No further attempt: the caller gets what was held of the abandoned attempt
\* and then its outcome x.
GiveUp(x) ==
    \/ stage = "Request" /\ Return(x)
    \/ /\ stage = "Stream"
       /\ batch' = Append(held, x)
       /\ held' = <<>>
       /\ pc' = "Reading"
       /\ UNCHANGED <<loop, phase, out, entered>>

\* An attempt the policy classifies by e and the caller would receive as x.
Abandon(e, x) ==
    \/ \E delay \in NextDelays(attempt, e) : Permits(delay) /\ Retry(delay)
    \/ /\ \/ NextDelays(attempt, e) = {}
          \/ \E delay \in NextDelays(attempt, e) : ~Permits(delay)
       /\ GiveUp(x)

\* Mutant: the attempt number is not advanced.
WakeSameAttempt ==
    /\ entered /\ pc = "Backoff" /\ sleep <= 0
    /\ pc' = "Dispatch"
    /\ UNCHANGED <<call, loop, stream, given, batch, out, entered>>

\* The backoff has elapsed: the call names the next attempt.
Wake ==
    /\ entered /\ pc = "Backoff" /\ sleep <= 0
    /\ pc' = "Dispatch"
    /\ attempt' = attempt + 1
    /\ UNCHANGED <<call, stage, sleep, dispatches, reports, stream, given, batch, out, entered>>

\* Mutant: a new attempt is sent without asking the guard.
DispatchUnchecked ==
    /\ entered /\ pc = "Dispatch"
    /\ pc' = "Opening"
    /\ dispatches' = dispatches + 1
    /\ UNCHANGED <<call, stage, attempt, sleep, reports, stream, given, batch, out, entered>>

\* next.run: the inner guard lets the attempt through to the layers below.
Dispatch ==
    /\ entered /\ pc = "Dispatch" /\ ~Stopped
    /\ pc' = "Opening"
    /\ dispatches' = dispatches + 1
    /\ UNCHANGED <<call, stage, attempt, sleep, reports, stream, given, batch, out, entered>>

----------------------------------------------------------------------------
(* The attempt answers *)

\* next.run answers with an error.
AttemptFails(e) ==
    /\ entered
    /\ Abandon(e, Err(e))
    /\ UNCHANGED <<call, given>>

\* Mutant: a reconnect keeps the bookkeeping held from the abandoned attempt.
AttemptStreamsKeepingHeld ==
    /\ entered /\ pc = "Opening" /\ op = "Stream"
    /\ pc' = "Reading" /\ stage' = "Stream"
    /\ phase' = "Holding" /\ held' = held /\ given' = <<>>
    /\ entered' = (stage = "Stream")
    /\ UNCHANGED <<call, attempt, sleep, dispatches, reports, batch, out>>

\* next.run answers with a stream: the first one goes back to the caller, a
\* later one replaces the abandoned attempt's and is read in the same poll.
AttemptStreams ==
    /\ entered /\ pc = "Opening" /\ op = "Stream"
    /\ pc' = "Reading" /\ stage' = "Stream"
    /\ phase' = "Holding" /\ held' = <<>> /\ given' = <<>>
    /\ entered' = (stage = "Stream")
    /\ UNCHANGED <<call, attempt, sleep, dispatches, reports, batch, out>>

\* Mutant: an incomplete response turns into the error it is classified by.
IncompleteBecomesError(response) ==
    /\ entered /\ pc = "Opening"
    /\ \/ /\ op = "Complete"
          /\ IF IsIncomplete(response)
             THEN Abandon(IncompleteError, Err(IncompleteError))
             ELSE Return(response)
       \/ stage = "Stream" /\ GiveUp(Err(Final("Middleware")))
    /\ UNCHANGED <<call, given>>

\* next.run answers with a response.  Only a broken layer does so while a
\* stream is being reconnected.
AttemptResponds(response) ==
    /\ entered /\ pc = "Opening"
    /\ \/ /\ op = "Complete"
          /\ IF IsIncomplete(response)
             THEN Abandon(IncompleteError, response)
             ELSE Return(response)
       \/ stage = "Stream" /\ GiveUp(Err(Final("Middleware")))
    /\ UNCHANGED <<call, given>>

\* Bookkeeping and block ends are held until content reaches the caller.
IsHeldBack(x) == x \in Event /\ (~IsVisible(x) \/ x.type = "BlockEnd")

EndsAttempt(x) == x.type = "Err" \/ IsIncomplete(x)

\* The error an ended attempt is classified by.
Classified(x) == IF x.type = "Err" THEN x.error ELSE IncompleteError

\* StreamRetry::step: what one item x of the attempt's stream does.
Pass(x) ==
    /\ phase = "Delivering"
    /\ batch' = <<x>>
    /\ UNCHANGED <<loop, stream, pc, out, entered>>

Hold(x) ==
    /\ phase = "Holding" /\ IsHeldBack(x)
    /\ held' = Append(held, x)
    /\ UNCHANGED <<loop, phase, pc, batch, out, entered>>

Release(x) ==
    /\ phase = "Holding" /\ ~IsHeldBack(x) /\ ~EndsAttempt(x)
    /\ batch' = Append(held, x)
    /\ held' = <<>>
    /\ phase' = "Delivering"
    /\ UNCHANGED <<loop, pc, out, entered>>

\* Mutant: a failure is retried although content has been delivered.
ReconnectAnytime(x) == EndsAttempt(x) /\ Abandon(Classified(x), x)

Reconnect(x) ==
    /\ phase = "Holding" /\ EndsAttempt(x)
    /\ Abandon(Classified(x), x)

Step(x) ==
    /\ entered /\ pc = "Reading" /\ batch = <<>>
    /\ given' = Append(given, x)
    /\ UNCHANGED call
    /\ Pass(x) \/ Hold(x) \/ Release(x) \/ Reconnect(x)

----------------------------------------------------------------------------
(* The environment *)

\* What the provider's stream may yield next.
ProviderItems ==
    {x \in ItemsFailingWith(ProviderErrors) :
        /\ MayFollow(given, x)
        /\ Len(given) >= MaxEvents => IsTerminal(x)}

\* An answer of the layers below, which a stopped call no longer waits for.
Answer ==
    /\ ~Stopped
    /\ \/ pc = "Opening" /\ \E e \in ProviderErrors : AttemptFails(e)
       \/ AttemptStreams
       \/ \E response \in Ended : AttemptResponds(response)
       \/ \E x \in ProviderItems : Step(x)

\* The inner guard answers a stopped attempt.
InnerGuardFires ==
    /\ Stopped
    /\ \/ pc \in {"Dispatch", "Opening"} /\ AttemptFails(GuardError)
       \/ Step(Err(GuardError))

Cancel ==
    /\ pc # "Done" /\ ~cancelled
    /\ cancelled' = TRUE
    /\ UNCHANGED <<op, left, loop, stream, given, pc, batch, out, entered>>

\* The caller drops the future or the stream between two polls.
Drop ==
    /\ pc # "Done" /\ ~entered
    /\ pc' = "Done" /\ batch' = <<>>
    /\ UNCHANGED <<call, loop, stream, given, out, entered>>

Tick ==
    /\ pc # "Done"
    /\ \/ sleep > 0
       \/ left # NoDeadline /\ left > 0
    /\ sleep' = IF sleep > 0 THEN sleep - 1 ELSE sleep
    /\ left' = IF left # NoDeadline /\ left > 0 THEN left - 1 ELSE left
    /\ UNCHANGED <<op, cancelled, stage, attempt, dispatches, reports, stream, given,
                   pc, batch, out, entered>>

Finished == pc = "Done" /\ UNCHANGED vars

\* What happens as long as the caller polls.
Poll ==
    \/ Enter \/ GuardFires \/ Pend \/ Deliver
    \/ Wake \/ Dispatch \/ InnerGuardFires

Next == Poll \/ Answer \/ Cancel \/ Drop \/ Tick \/ Finished

Spec == Init /\ [][Next]_vars

\* The caller keeps polling and the clock keeps moving.  Nothing is assumed of
\* the provider.
FairSpec == Spec /\ WF_vars(Poll) /\ WF_vars(Tick)

----------------------------------------------------------------------------
(* Properties *)

\* The layer's caller sees one stream that keeps the contract, whatever the
\* attempts behind it did: one Started, no block twice, one terminal item.
Promise == INSTANCE LogicalStream WITH Failure <- Error
OneLogicalStream == Promise!Spec

\* Apart from a closing error, the caller sees the items of one attempt, in
\* order and without gaps; when it sees Ended it has seen all that attempt gave.
\* The error that classifies an incomplete response is the policy's own: when
\* no attempt replaces the response, the caller gets the response.
WithoutError(h) == IF h # <<>> /\ Last(h).type = "Err" THEN Front(h) ELSE h

OneAttemptDelivered ==
    /\ op = "Stream" => IsPrefix(WithoutError(out), given)
    /\ op = "Stream" /\ out # <<>> /\ Last(out).type = "Ended" => out = given
    /\ \A i \in DOMAIN out : out[i].type = "Err" => out[i].error.kind # "Incomplete"

\* No attempt is made once the caller has seen content of an earlier one.
ContentSeen == \E i \in DOMAIN out : out[i].type \in {"Delta", "Ended"}

NoReplay == [][ContentSeen => dispatches' = dispatches]_vars

\* Every attempt after the first one was reported, once, under the number of
\* the attempt that failed; no attempt runs beyond the budget.
Accounted ==
    /\ dispatches <= MaxAttempts
    /\ \A i \in DOMAIN reports : reports[i].attempt = i
    /\ Len(reports) \in {attempt - 1, attempt}
    /\ dispatches \in {attempt - 1, attempt}

\* A call that was cancelled or ran out of time makes no further attempt and
\* announces none, not even from the middle of a poll or of a backoff.
NoWorkAfterStop ==
    [][Stopped => dispatches' = dispatches /\ reports' = reports]_vars

\* A call that is cancelled or has a deadline ends, whatever it is waiting for:
\* an answer that never comes, the next item, or its own backoff.  Without a
\* deadline it ends when every attempt is answered in the end.
CallEnds ==
    /\ cancelled \/ left # NoDeadline ~> pc = "Done"
    /\ SF_vars(Answer) => <>(pc = "Done")
=============================================================================
