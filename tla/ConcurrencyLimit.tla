-------------------------- MODULE ConcurrencyLimit --------------------------
(***************************************************************************)
(* Concurrent calls that share one ConcurrencyLimitMiddleware              *)
(* (middleware/concurrency.rs), each retried by a RetryMiddleware          *)
(* (middleware/retry.rs) outside or inside the limiter.                    *)
(*                                                                         *)
(* A permit is owned by the handler while it opens the attempt and by the  *)
(* returned stream afterwards; dropping the owner gives it back.  Of the   *)
(* semaphore (tokio, outside src/) only this is used: a permit that comes  *)
(* back goes to a waiting acquire if there is one, and an acquire dropped  *)
(* before it is polled passes its permit on.  Which waiter is chosen is    *)
(* left open here; tokio picks the oldest.                                 *)
(***************************************************************************)
EXTENDS Integers, FiniteSets

CONSTANTS Call,          \* the concurrent calls
          Limit,         \* ConcurrencyLimitMiddleware::new(limit)
          MaxAttempts    \* RetryPolicy::max_attempts

ASSUME LimitAssumption ==
    /\ IsFiniteSet(Call)
    /\ Limit \in Nat \ {0}
    /\ MaxAttempts \in Nat \ {0}

VARIABLES
    order,       \* which of the two layers is the outer one
    state,       \* where each call stands
    tries,       \* attempts each call has begun
    shown,       \* calls whose caller has seen content
    available,   \* the semaphore's free permits
    waiting,     \* calls in the semaphore's queue
    granted,     \* calls handed a permit that they have not picked up yet
    holders      \* calls whose handler or stream owns a permit

semaphore == <<available, waiting, granted, holders>>
vars == <<order, state, tries, shown, semaphore>>

States == {"Idle", "Acquiring", "Opening", "Streaming", "Backoff", "Done"}

TypeOK ==
    /\ order \in {"RetryOutside", "LimitOutside"}
    /\ state \in [Call -> States]
    /\ tries \in [Call -> Nat]
    /\ shown \in SUBSET Call
    /\ available \in Nat
    /\ waiting \in SUBSET Call
    /\ granted \in SUBSET Call
    /\ holders \in SUBSET Call

Init ==
    /\ order \in {"RetryOutside", "LimitOutside"}
    /\ state = [c \in Call |-> "Idle"]
    /\ tries = [c \in Call |-> 0]
    /\ shown = {}
    /\ available = Limit
    /\ waiting = {} /\ granted = {} /\ holders = {}

----------------------------------------------------------------------------
(* The semaphore, as the limiter uses it *)

\* acquire_owned().await: a permit at once, or a place in the queue.
Acquire(c) ==
    \/ /\ available > 0
       /\ available' = available - 1
       /\ holders' = holders \cup {c}
       /\ state' = [state EXCEPT ![c] = "Opening"]
       /\ UNCHANGED <<waiting, granted>>
    \/ /\ available = 0
       /\ waiting' = waiting \cup {c}
       /\ state' = [state EXCEPT ![c] = "Acquiring"]
       /\ UNCHANGED <<available, granted, holders>>

\* One permit comes back; rest are the granted calls that stay granted.
PassOn(rest) ==
    \/ /\ waiting = {}
       /\ available' = available + 1
       /\ granted' = rest
       /\ UNCHANGED waiting
    \/ \E w \in waiting :
       /\ granted' = rest \cup {w}
       /\ waiting' = waiting \ {w}
       /\ UNCHANGED available

\* The owner of c's permit is dropped.
Release(c) ==
    /\ holders' = holders \ {c}
    /\ PassOn(granted)

----------------------------------------------------------------------------
(* One call *)

Move(c, from, to) ==
    /\ state[c] = from
    /\ state' = [state EXCEPT ![c] = to]

BeginAttempt(c) == tries' = [tries EXCEPT ![c] = @ + 1]

\* The call reaches the limiter: directly, or with its first attempt.
Start(c) ==
    /\ state[c] = "Idle"
    /\ Acquire(c)
    /\ BeginAttempt(c)
    /\ UNCHANGED <<order, shown>>

\* The handler is polled again after its acquire was granted.
PickUp(c) ==
    /\ c \in granted
    /\ Move(c, "Acquiring", "Opening")
    /\ granted' = granted \ {c}
    /\ holders' = holders \cup {c}
    /\ UNCHANGED <<order, tries, shown, available, waiting>>

\* Mutant: the permit stays with the handler and goes when the handler returns.
OpenStreamWithoutPermit(c) ==
    /\ Move(c, "Opening", "Streaming")
    /\ Release(c)
    /\ UNCHANGED <<order, tries, shown>>

\* The layers below answer with a stream, which takes the permit along.
OpenStream(c) ==
    /\ Move(c, "Opening", "Streaming")
    /\ UNCHANGED <<order, tries, shown, semaphore>>

\* Mutant: the permit lives as long as the stream object, not until its end.
EndCallKeepingPermit(c) ==
    /\ \/ Move(c, "Opening", "Done") /\ Release(c)
       \/ Move(c, "Streaming", "Done") /\ UNCHANGED semaphore
    /\ UNCHANGED <<order, tries, shown>>

\* The attempt ends: an error or a whole output instead of a stream, or the
\* stream's terminal item, at which its ResponseStream drops the permit.
EndCall(c) ==
    /\ \/ Move(c, "Opening", "Done")
       \/ Move(c, "Streaming", "Done")
    /\ Release(c)
    /\ UNCHANGED <<order, tries, shown>>

\* Content reaches the caller, so that a later failure is not retried.
ShowContent(c) ==
    /\ state[c] = "Streaming" /\ c \notin shown
    /\ shown' = shown \cup {c}
    /\ UNCHANGED <<order, state, tries, semaphore>>

MayRetry(c) == tries[c] < MaxAttempts /\ c \notin shown

\* Mutant: the failed attempt is kept until the next one replaces it.
FailAttemptKeepingStream(c) ==
    /\ MayRetry(c)
    /\ \/ Move(c, "Opening", "Backoff")
       \/ Move(c, "Streaming", "Backoff")
    /\ UNCHANGED <<order, tries, shown, semaphore>>

\* The attempt fails and the retry layer backs off.  Outside the limiter it
\* has let go of the attempt, and so of its permit, before it sleeps.
FailAttempt(c) ==
    /\ MayRetry(c)
    /\ \/ Move(c, "Opening", "Backoff")
       \/ Move(c, "Streaming", "Backoff")
    /\ \/ order = "RetryOutside" /\ Release(c)
       \/ order = "LimitOutside" /\ UNCHANGED semaphore
    /\ UNCHANGED <<order, tries, shown>>

\* The backoff ends; outside the limiter the next attempt queues up again.
Retry(c) ==
    /\ state[c] = "Backoff"
    /\ \/ order = "RetryOutside" /\ Acquire(c)
       \/ /\ order = "LimitOutside"
          /\ Move(c, "Backoff", "Opening")
          /\ UNCHANGED semaphore
    /\ BeginAttempt(c)
    /\ UNCHANGED <<order, shown>>

\* Mutant: a dropped stream does not drop its permit.
LeaveLeakingPermit(c) ==
    /\ state[c] \notin {"Idle", "Done"}
    /\ state' = [state EXCEPT ![c] = "Done"]
    /\ holders' = holders \ {c}
    /\ \/ c \in granted /\ PassOn(granted \ {c})
       \/ c \notin granted /\ waiting' = waiting \ {c} /\ UNCHANGED <<available, granted>>
    /\ UNCHANGED <<order, tries, shown>>

\* The call's guard fires, or the caller drops the future or the stream: all
\* that the call owns is dropped where it stands.
Leave(c) ==
    /\ state[c] \notin {"Idle", "Done"}
    /\ state' = [state EXCEPT ![c] = "Done"]
    /\ \/ c \in holders /\ Release(c)
       \/ c \in granted /\ PassOn(granted \ {c}) /\ UNCHANGED holders
       \/ /\ c \notin holders \cup granted
          /\ waiting' = waiting \ {c}
          /\ UNCHANGED <<available, granted, holders>>
    /\ UNCHANGED <<order, tries, shown>>

\* What a polled call does while the layers below keep answering.
Proceed(c) ==
    \/ PickUp(c) \/ OpenStream(c) \/ EndCall(c)
    \/ FailAttempt(c) \/ Retry(c)

AllDone == (\A c \in Call : state[c] = "Done") /\ UNCHANGED vars

Next ==
    \/ \E c \in Call : Start(c) \/ Proceed(c) \/ ShowContent(c) \/ Leave(c)
    \/ AllDone

Spec == Init /\ [][Next]_vars

\* Callers keep polling and attempts are answered in the end.  Nobody has to
\* leave, and no call has to start.
LimitFairness == \A c \in Call : WF_vars(Proceed(c))

----------------------------------------------------------------------------
(* Properties *)

\* A permit is free, handed to a waiter, or owned by one call: none is lost and
\* none is made up by a failure, a retry, a dropped stream or a dropped acquire.
PermitsConserved ==
    /\ granted \cap holders = {}
    /\ available + Cardinality(granted \cup holders) = Limit

\* "Limits the number of calls active inside this middleware layer."
Active == {c \in Call : state[c] \in {"Opening", "Streaming"}}

LimitKept == Cardinality(Active) <= Limit

\* A call sleeps in its backoff without a permit exactly when each attempt is
\* limited by itself; a call that is over never keeps one.
HeldWhileInside ==
    holders = Active \cup {c \in Call : state[c] = "Backoff" /\ order = "LimitOutside"}

\* No call waits for a permit for ever, itself and its own retries included.
EveryCallAdmitted ==
    \A c \in Call : state[c] = "Acquiring" ~> state[c] # "Acquiring"
=============================================================================
