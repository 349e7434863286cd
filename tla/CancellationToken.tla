-------------------------- MODULE CancellationToken --------------------------
(***************************************************************************)
(* CancellationToken (middleware/mod.rs): an AtomicBool and a tokio Notify *)
(* shared by the threads that cancel and the tasks that wait.              *)
(*                                                                         *)
(* One action per atomic access, so cancellers and waiters interleave at   *)
(* every point.  A poll of cancelled() runs from its first check to its    *)
(* return or its sleep; it is dropped only between polls.  Of Notify       *)
(* (outside src/) this is used: notify_waiters reaches every Notified that *)
(* exists, polled or not, and none that is created later.                  *)
(***************************************************************************)
EXTENDS Naturals

CONSTANTS Canceller,    \* threads that call cancel()
          Waiter        \* tasks that await cancelled()

VARIABLES
    isCancelled,  \* CancellationState::cancelled
    notifying,    \* cancellers between the two statements of cancel()
    at,           \* the next access of each waiter's cancelled()
    alerted       \* waiters whose Notified was reached by notify_waiters

tokenVars == <<isCancelled, notifying, at, alerted>>

\* Waiters that own a Notified.
Owners == {w \in Waiter : at[w] \in {"Recheck", "Await", "Asleep"}}

TokenTypeOK ==
    /\ isCancelled \in BOOLEAN
    /\ notifying \subseteq Canceller
    /\ at \in [Waiter -> {"Away", "Check", "Create", "Recheck", "Await", "Asleep", "Returned"}]
    /\ alerted \subseteq Owners

TokenInit ==
    /\ isCancelled = FALSE
    /\ notifying = {}
    /\ at = [w \in Waiter |-> "Away"]
    /\ alerted = {}

----------------------------------------------------------------------------
(* cancel *)

SetFlag == isCancelled' = TRUE /\ UNCHANGED alerted

\* Mutant: one waiter is woken (notify_one), the others sleep on.
WakeOne ==
    /\ IF Owners = {} THEN alerted' = alerted ELSE \E w \in Owners : alerted' = alerted \cup {w}
    /\ UNCHANGED isCancelled

WakeAll == alerted' = alerted \cup Owners /\ UNCHANGED isCancelled

\* The flag first, then notify_waiters.
CancelToken(c) ==
    /\ UNCHANGED at
    /\ \/ c \notin notifying /\ notifying' = notifying \cup {c} /\ SetFlag
       \/ c \in notifying /\ notifying' = notifying \ {c} /\ WakeAll

----------------------------------------------------------------------------
(* cancelled *)

Moves(w, from, to) ==
    /\ at[w] = from
    /\ at' = [at EXCEPT ![w] = to]
    /\ UNCHANGED <<isCancelled, notifying>>

Wait(w) == Moves(w, "Away", "Check") /\ UNCHANGED alerted

Check(w) == Moves(w, "Check", IF isCancelled THEN "Returned" ELSE "Create") /\ UNCHANGED alerted

\* Mutant: cancelled() awaits its Notified without a second look at the flag.
CreateWithoutRecheck(w) == Moves(w, "Create", "Await") /\ UNCHANGED alerted

\* let notified = notify.notified()
Create(w) == Moves(w, "Create", "Recheck") /\ UNCHANGED alerted

\* A return drops the Notified.
Recheck(w) ==
    /\ Moves(w, "Recheck", IF isCancelled THEN "Returned" ELSE "Await")
    /\ alerted' = IF isCancelled THEN alerted \ {w} ELSE alerted

\* notified.await: asleep unless notify_waiters has reached it already.
Await(w) ==
    \/ Moves(w, "Await", "Asleep") /\ w \notin alerted /\ UNCHANGED alerted
    \/ Moves(w, "Await", "Check") /\ w \in alerted /\ alerted' = alerted \ {w}

\* The runtime polls a task that was woken: the loop starts over.
Wake(w) ==
    /\ w \in alerted
    /\ Moves(w, "Asleep", "Check")
    /\ alerted' = alerted \ {w}

\* CallGuard::run drops the wait when its timer or its future is first.
DropWait(w) ==
    /\ Moves(w, "Asleep", "Away")
    /\ alerted' = alerted \ {w}

\* The task that awaited goes on; it may wait on the token again.
Resume(w) == Moves(w, "Returned", "Away") /\ UNCHANGED alerted

----------------------------------------------------------------------------

Poll(w) == Check(w) \/ Create(w) \/ Recheck(w) \/ Await(w) \/ Wake(w)

TokenNext ==
    \/ \E c \in Canceller : CancelToken(c)
    \/ \E w \in Waiter : Wait(w) \/ Poll(w) \/ DropWait(w) \/ Resume(w)

TokenSpec == TokenInit /\ [][TokenNext]_tokenVars

\* A thread inside cancel() finishes it, and a task that can run is polled.
\* Nobody has to cancel, and no sleeping wait has to be dropped.
TokenFairness ==
    /\ \A c \in Canceller : WF_tokenVars(c \in notifying /\ CancelToken(c))
    /\ \A w \in Waiter : WF_tokenVars(Poll(w))

----------------------------------------------------------------------------
(* Properties *)

\* Nobody sleeps through a cancellation: a waiter that sleeps, or is about to,
\* after the flag was set has a wake-up, or one is still on its way
\* (cancel sets the flag first; cancelled looks again after creating its Notified).
NoLostWakeup ==
    isCancelled =>
        \A w \in Waiter : at[w] \in {"Await", "Asleep"} => w \in alerted \/ notifying # {}

\* A wake-up means cancellation: no waiter is sent round the loop for nothing,
\* so each wait sleeps once at most.
WokenWhenCancelled == alerted # {} => isCancelled

\* Once the token is cancelled every wait on it ends, whichever side was first.
CancelEndsWaits ==
    \A w \in Waiter : isCancelled ~> at[w] \in {"Away", "Returned"}

=============================================================================
