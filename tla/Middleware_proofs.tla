-------------------------- MODULE Middleware_proofs --------------------------
(***************************************************************************)
(* Proofs about the parts that MCMiddleware checks one at a time: the      *)
(* limiter, for any finite set of calls, any limit and any attempt budget; *)
(* the token, for any number of threads and tasks; the observer, for any   *)
(* deadline and any number of events; and the process, for any command     *)
(* lines, texts and answers to a probe.                                    *)
(***************************************************************************)
EXTENDS MCMiddleware, FiniteSetTheorems, SequenceTheorems, WellFoundedInduction, TLAPS

----------------------------------------------------------------------------
(* The limiter never loses a permit *)

\* Who may be in the semaphore's queue, and who has been handed a permit.
Queued == waiting \cup granted = {c \in Call : state[c] = "Acquiring"}

QueueInv == Queued /\ waiting \cap granted = {}

LimitInv == TypeOK /\ QueueInv /\ HeldWhileInside /\ PermitsConserved

----------------------------------------------------------------------------
(* What the semaphore's steps do to the permits *)

\* The owners of permits are finitely many, and a new owner counts as one.
LEMMA OwnerCounts ==
    ASSUME NEW S \in SUBSET Call, NEW c \in Call
    PROVE  /\ IsFiniteSet(S) /\ Cardinality(S) \in Nat
           /\ c \notin S => Cardinality(S \cup {c}) = Cardinality(S) + 1
           /\ c \in S => Cardinality(S \ {c}) = Cardinality(S) - 1
  <1>1. IsFiniteSet(S)
    BY FS_Subset, LimitAssumption
  <1>. QED
    BY <1>1, FS_CardinalityType, FS_AddElement, FS_RemoveElement

\* Taking a free permit conserves the permits.
LEMMA AcquireConserves ==
    ASSUME TypeOK, PermitsConserved, NEW c \in Call,
           c \notin granted \cup holders, Acquire(c)
    PROVE  PermitsConserved'
  <1>1. CASE available > 0 /\ available' = available - 1
             /\ holders' = holders \cup {c} /\ granted' = granted
    <2>1. (granted \cup holders)' = (granted \cup holders) \cup {c}
      BY <1>1
    <2>2. Cardinality((granted \cup holders)') = Cardinality(granted \cup holders) + 1
      BY <2>1, OwnerCounts DEF TypeOK
    <2>3. Cardinality(granted \cup holders) \in Nat
      BY OwnerCounts DEF TypeOK
    <2>. QED
      BY <1>1, <2>2, <2>3, LimitAssumption DEF PermitsConserved, TypeOK
  <1>2. CASE UNCHANGED <<available, granted, holders>>
    BY <1>2 DEF PermitsConserved
  <1>. QED
    BY <1>1, <1>2 DEF Acquire

\* Passing on the permit of c, whoever owned it, conserves the permits.
LEMMA PassOnConserves ==
    ASSUME TypeOK, PermitsConserved, QueueInv,
           waiting \cap holders = {},
           NEW c \in granted \cup holders,
           holders' = holders \ {c}, PassOn(granted \ {c})
    PROVE  PermitsConserved'
  <1>. DEFINE owners == granted \cup holders
  <1>1. owners \in SUBSET Call /\ c \in Call /\ owners \ {c} \in SUBSET Call
    BY DEF TypeOK
  <1>2. Cardinality(owners) \in Nat /\ Cardinality(owners \ {c}) = Cardinality(owners) - 1
    BY <1>1, OwnerCounts
  <1>3. CASE available' = available + 1 /\ granted' = granted \ {c}
    <2>1. (granted \cup holders)' = owners \ {c} /\ (granted \cap holders)' = {}
      BY <1>3 DEF PermitsConserved
    <2>2. Cardinality((granted \cup holders)') = Cardinality(owners \ {c})
      BY <2>1, Zenon
    <2>. HIDE DEF owners
    <2>3. available' + Cardinality((granted \cup holders)') = available + Cardinality(owners)
      BY <1>2, <1>3, <2>2 DEF TypeOK
    <2>. QED
      BY <2>1, <2>3 DEF PermitsConserved, owners
  <1>4. ASSUME NEW w \in waiting, available' = available,
               granted' = (granted \ {c}) \cup {w}
        PROVE  PermitsConserved'
    <2>1. w \in Call /\ w \notin owners
      BY DEF TypeOK, QueueInv
    <2>2. (granted \cup holders)' = (owners \ {c}) \cup {w} /\ (granted \cap holders)' = {}
      BY <1>4, <2>1 DEF PermitsConserved
    <2>3. Cardinality((owners \ {c}) \cup {w}) = Cardinality(owners \ {c}) + 1
      BY <1>1, <2>1, OwnerCounts
    <2>4. Cardinality((granted \cup holders)') = Cardinality((owners \ {c}) \cup {w})
      BY <2>2, Zenon
    <2>. HIDE DEF owners
    <2>5. available' + Cardinality((granted \cup holders)') = available + Cardinality(owners)
      BY <1>2, <1>4, <2>3, <2>4 DEF TypeOK
    <2>. QED
      BY <2>2, <2>5 DEF PermitsConserved, owners
  <1>. QED
    BY <1>3, <1>4 DEF PassOn

----------------------------------------------------------------------------
(* The inductive invariant *)

LEMMA InitLimitInv == Init => LimitInv
  <1>. SUFFICES ASSUME Init PROVE LimitInv
    OBVIOUS
  <1>1. TypeOK
    BY LimitAssumption DEF Init, TypeOK, States
  <1>2. QueueInv /\ HeldWhileInside
    BY DEF Init, QueueInv, Queued, HeldWhileInside, Active
  <1>3. granted \cup holders = {} /\ available = Limit
    BY DEF Init
  <1>4. PermitsConserved
    BY <1>3, FS_EmptySet, LimitAssumption DEF PermitsConserved, Init
  <1>. QED
    BY <1>1, <1>2, <1>4 DEF LimitInv

LEMMA NextLimitInv == LimitInv /\ [Next]_vars => LimitInv'
  <1>. SUFFICES ASSUME LimitInv, [Next]_vars PROVE LimitInv'
    OBVIOUS
  <1>. USE DEF LimitInv
  <1>0. waiting \cap holders = {} /\ granted \cap holders = {}
    BY DEF QueueInv, Queued, HeldWhileInside, Active, PermitsConserved
  <1>1. ASSUME NEW c \in Call, Start(c) PROVE LimitInv'
    <2>0. c \notin granted \cup holders
      BY <1>1 DEF Start, QueueInv, Queued, HeldWhileInside, Active, TypeOK
    <2>1. TypeOK'
      BY <1>1 DEF TypeOK, Start, Acquire, BeginAttempt, States
    <2>2. QueueInv'
      BY <1>1, <2>0 DEF QueueInv, Queued, Start, Acquire, TypeOK
    <2>3. HeldWhileInside'
      BY <1>1 DEF HeldWhileInside, Active, Start, Acquire, TypeOK
    <2>4. PermitsConserved'
      BY <1>1, <2>0, AcquireConserves DEF Start
    <2>. QED
      BY <2>1, <2>2, <2>3, <2>4
  <1>2. ASSUME NEW c \in Call, PickUp(c) PROVE LimitInv'
    <2>1. TypeOK'
      BY <1>2 DEF TypeOK, PickUp, Move, States
    <2>2. QueueInv'
      BY <1>2 DEF QueueInv, Queued, PickUp, Move, TypeOK
    <2>3. HeldWhileInside'
      BY <1>2 DEF HeldWhileInside, Active, PickUp, Move, TypeOK
    <2>4. (granted \cup holders)' = granted \cup holders /\ (granted \cap holders)' = {}
      BY <1>2, <1>0 DEF PickUp
    <2>5. PermitsConserved'
      BY <1>2, <2>4 DEF PermitsConserved, PickUp
    <2>. QED
      BY <2>1, <2>2, <2>3, <2>5
  <1>3. ASSUME NEW c \in Call, OpenStream(c) PROVE LimitInv'
    BY <1>3 DEF TypeOK, QueueInv, Queued, HeldWhileInside, Active, PermitsConserved,
                OpenStream, Move, States, semaphore
  <1>4. ASSUME NEW c \in Call, EndCall(c) PROVE LimitInv'
    <2>0. c \in holders /\ granted \ {c} = granted
      BY <1>4, <1>0 DEF EndCall, Move, HeldWhileInside, Active
    <2>1. TypeOK'
      BY <1>4 DEF TypeOK, EndCall, Move, Release, PassOn, States
    <2>2. QueueInv'
      BY <1>4 DEF QueueInv, Queued, EndCall, Move, Release, PassOn, TypeOK
    <2>3. HeldWhileInside'
      BY <1>4 DEF HeldWhileInside, Active, EndCall, Move, Release, TypeOK
    <2>4. PermitsConserved'
      BY <1>4, <1>0, <2>0, PassOnConserves DEF EndCall, Release
    <2>. QED
      BY <2>1, <2>2, <2>3, <2>4
  <1>5. ASSUME NEW c \in Call, FailAttempt(c) PROVE LimitInv'
    <2>0. c \in holders /\ granted \ {c} = granted
      BY <1>5, <1>0 DEF FailAttempt, Move, HeldWhileInside, Active
    <2>1. TypeOK'
      BY <1>5 DEF TypeOK, FailAttempt, Move, Release, PassOn, States, semaphore
    <2>2. QueueInv'
      BY <1>5 DEF QueueInv, Queued, FailAttempt, Move, Release, PassOn, TypeOK, semaphore
    <2>3. HeldWhileInside'
      BY <1>5 DEF HeldWhileInside, Active, FailAttempt, Move, Release, TypeOK, semaphore
    <2>4. PermitsConserved'
      <3>1. CASE Release(c)
        BY <3>1, <1>0, <2>0, PassOnConserves DEF Release
      <3>2. CASE UNCHANGED semaphore
        BY <3>2 DEF PermitsConserved, semaphore
      <3>. QED
        BY <1>5, <3>1, <3>2 DEF FailAttempt
    <2>. QED
      BY <2>1, <2>2, <2>3, <2>4
  <1>6. ASSUME NEW c \in Call, Retry(c) PROVE LimitInv'
    <2>1. TypeOK'
      BY <1>6 DEF TypeOK, Retry, Move, Acquire, BeginAttempt, States, semaphore
    <2>2. CASE order = "RetryOutside" /\ Acquire(c)
      <3>0. c \notin granted \cup holders
        BY <1>6, <2>2 DEF Retry, QueueInv, Queued, HeldWhileInside, Active
      <3>1. QueueInv'
        BY <1>6, <2>2, <3>0 DEF QueueInv, Queued, Retry, Acquire, TypeOK
      <3>2. HeldWhileInside'
        BY <1>6, <2>2 DEF HeldWhileInside, Active, Retry, Acquire, TypeOK
      <3>3. PermitsConserved'
        BY <2>2, <3>0, AcquireConserves
      <3>. QED
        BY <2>1, <3>1, <3>2, <3>3
    <2>3. CASE order = "LimitOutside" /\ Move(c, "Backoff", "Opening") /\ UNCHANGED semaphore
      BY <1>6, <2>1, <2>3 DEF Retry, Move, QueueInv, Queued, HeldWhileInside, Active,
                              PermitsConserved, TypeOK, semaphore
    <2>. QED
      BY <1>6, <2>2, <2>3 DEF Retry
  <1>7. ASSUME NEW c \in Call, ShowContent(c) PROVE LimitInv'
    BY <1>7 DEF TypeOK, QueueInv, Queued, HeldWhileInside, Active, PermitsConserved,
                ShowContent, semaphore
  <1>8. ASSUME NEW c \in Call, Leave(c) PROVE LimitInv'
    <2>1. TypeOK'
      BY <1>8 DEF TypeOK, Leave, Release, PassOn, States
    <2>0. holders' = holders \ {c} /\ order' = order /\ state' = [state EXCEPT ![c] = "Done"]
      BY <1>8, <1>0 DEF Leave, Release
    <2>2. HeldWhileInside'
      BY <2>0 DEF HeldWhileInside, Active, TypeOK
    <2>3. CASE c \in holders /\ Release(c)
      <3>0. granted \ {c} = granted /\ state[c] # "Acquiring"
        BY <2>3, <1>0 DEF HeldWhileInside, Active
      <3>1. QueueInv'
        BY <1>8, <2>3, <3>0 DEF QueueInv, Queued, Leave, Release, PassOn, TypeOK
      <3>2. PermitsConserved'
        BY <2>3, <1>0, <3>0, PassOnConserves DEF Release
      <3>. QED
        BY <2>1, <2>2, <3>1, <3>2
    <2>4. CASE c \in granted /\ PassOn(granted \ {c}) /\ UNCHANGED holders
      <3>0. holders' = holders \ {c} /\ c \notin waiting /\ state[c] = "Acquiring"
        BY <2>4, <1>0 DEF QueueInv, Queued
      <3>1. QueueInv'
        BY <1>8, <2>4, <3>0 DEF QueueInv, Queued, Leave, PassOn, TypeOK
      <3>2. PermitsConserved'
        BY <2>4, <1>0, <3>0, PassOnConserves
      <3>. QED
        BY <2>1, <2>2, <3>1, <3>2
    <2>5. CASE /\ c \notin holders \cup granted
               /\ waiting' = waiting \ {c}
               /\ UNCHANGED <<available, granted, holders>>
      <3>1. QueueInv'
        BY <1>8, <2>5 DEF QueueInv, Queued, Leave, TypeOK
      <3>2. PermitsConserved'
        BY <2>5 DEF PermitsConserved
      <3>. QED
        BY <2>1, <2>2, <3>1, <3>2
    <2>. QED
      BY <1>8, <2>3, <2>4, <2>5 DEF Leave
  <1>9. CASE UNCHANGED vars
    BY <1>9 DEF TypeOK, QueueInv, Queued, HeldWhileInside, Active, PermitsConserved,
                vars, semaphore
  <1>. QED
    BY <1>1, <1>2, <1>3, <1>4, <1>5, <1>6, <1>7, <1>8, <1>9 DEF Next, Proceed, AllDone

THEOREM AlwaysLimitInv == Spec => []LimitInv
  BY InitLimitInv, NextLimitInv, PTL DEF Spec

----------------------------------------------------------------------------
(* Theorems *)

\* The variables keep their types.
THEOREM LimiterTypeCorrect == Spec => []TypeOK
  <1>1. LimitInv => TypeOK
    BY DEF LimitInv
  <1>. QED
    BY AlwaysLimitInv, <1>1, PTL

\* No permit is lost or made up, for any number of calls, any limit and either
\* order of the layers.
THEOREM PermitsAreConserved == Spec => []PermitsConserved
  <1>1. LimitInv => PermitsConserved
    BY DEF LimitInv
  <1>. QED
    BY AlwaysLimitInv, <1>1, PTL

\* A permit is owned exactly while a call is inside the limiter.
THEOREM PermitsAreHeldInside == Spec => []HeldWhileInside
  <1>1. LimitInv => HeldWhileInside
    BY DEF LimitInv
  <1>. QED
    BY AlwaysLimitInv, <1>1, PTL

\* The limiter keeps its promise: never more than Limit attempts inside it.
THEOREM LimitIsKept == Spec => []LimitKept
  <1>1. ASSUME LimitInv PROVE LimitKept
    <2>1. Active \in SUBSET (granted \cup holders) /\ granted \cup holders \in SUBSET Call
      BY <1>1 DEF LimitInv, TypeOK, HeldWhileInside, Active
    <2>2. IsFiniteSet(granted \cup holders) /\ IsFiniteSet(Active)
      BY <2>1, FS_Subset, LimitAssumption
    <2>3. /\ Cardinality(Active) \in Nat
          /\ Cardinality(granted \cup holders) \in Nat
          /\ Cardinality(Active) <= Cardinality(granted \cup holders)
      BY <2>1, <2>2, FS_Subset, FS_CardinalityType
    <2>. QED
      BY <1>1, <2>3, LimitAssumption DEF LimitInv, PermitsConserved, LimitKept, TypeOK
  <1>. QED
    BY AlwaysLimitInv, <1>1, PTL

----------------------------------------------------------------------------
(* The token loses no wake-up *)

\* A canceller that is about to notify has set the flag.
FlagFirst == notifying # {} => isCancelled

\* With it the two properties are inductive: a Notified that exists when
\* notify_waiters runs is reached by it, and one created later is followed by
\* a second look at the flag.
TokenInv == TokenTypeOK /\ FlagFirst /\ NoLostWakeup /\ WokenWhenCancelled

LEMMA InitTokenInv == TokenInit => TokenInv
BY DEF TokenInit, TokenInv, TokenTypeOK, FlagFirst, NoLostWakeup, WokenWhenCancelled, Owners

\* Either statement of cancel() keeps the invariant, whoever waits meanwhile.
LEMMA CancelKeepsTokenInv ==
    ASSUME TokenInv, NEW c \in Canceller, CancelToken(c)
    PROVE  TokenInv'
<1> USE DEF TokenInv, TokenTypeOK, Owners, FlagFirst, NoLostWakeup, WokenWhenCancelled, CancelToken
<1>1. CASE c \notin notifying /\ notifying' = notifying \cup {c} /\ SetFlag
  BY <1>1 DEF SetFlag
<1>2. CASE c \in notifying /\ notifying' = notifying \ {c} /\ WakeAll
  BY <1>2 DEF WakeAll
<1> QED BY <1>1, <1>2

\* So does every access of a waiter.
LEMMA WaiterKeepsTokenInv ==
    ASSUME TokenInv, NEW w \in Waiter, Wait(w) \/ Poll(w) \/ DropWait(w) \/ Resume(w)
    PROVE  TokenInv'
<1> USE DEF TokenInv, TokenTypeOK, Owners, FlagFirst, NoLostWakeup, WokenWhenCancelled, Moves
<1>1. CASE Wait(w)
  BY <1>1 DEF Wait
<1>2. CASE Check(w)
  BY <1>2 DEF Check
<1>3. CASE Create(w)
  BY <1>3 DEF Create
<1>4. CASE Recheck(w)
  BY <1>4 DEF Recheck
<1>5. CASE Await(w)
  BY <1>5 DEF Await
<1>6. CASE Wake(w)
  BY <1>6 DEF Wake
<1>7. CASE DropWait(w)
  BY <1>7 DEF DropWait
<1>8. CASE Resume(w)
  BY <1>8 DEF Resume
<1> QED BY <1>1, <1>2, <1>3, <1>4, <1>5, <1>6, <1>7, <1>8 DEF Poll

\* The invariant holds in every behaviour.
THEOREM AlwaysTokenInv == TokenSpec => []TokenInv
<1>1. TokenInv /\ [TokenNext]_tokenVars => TokenInv'
  <2>1. TokenInv /\ TokenNext => TokenInv'
    BY CancelKeepsTokenInv, WaiterKeepsTokenInv DEF TokenNext
  <2>2. TokenInv /\ UNCHANGED tokenVars => TokenInv'
    BY DEF tokenVars, TokenInv, TokenTypeOK, Owners, FlagFirst, NoLostWakeup, WokenWhenCancelled
  <2> QED BY <2>1, <2>2
<1> QED BY InitTokenInv, <1>1, PTL DEF TokenSpec

\* No waiter sleeps through a cancellation: whatever the order of cancel() and
\* cancelled(), a sleeper has its wake-up or one is on its way.
THEOREM WakeupsAreNotLost == TokenSpec => []NoLostWakeup
BY AlwaysTokenInv, PTL DEF TokenInv

\* A waiter is woken for a cancellation only, so it sleeps once at most.
THEOREM WakeupsMeanCancelled == TokenSpec => []WokenWhenCancelled
BY AlwaysTokenInv, PTL DEF TokenInv

----------------------------------------------------------------------------
(* An observer is told one outcome of each call, and the right one *)

\* The layer above has its answer.
Answered == out # <<>> /\ Last(out) \in Terminal

\* The answer is the outer guard's error.
GuardAnswered ==
    \/ cancelled /\ Last(out) = Err("Cancelled")
    \/ left = 0 /\ Last(out) = Err("Timeout")

\* The outcome agrees with the answer as far as both are known.
OutcomeInv ==
    /\ entered => pc \in {"Running", "Reading"}
    /\ pc \in {"Running", "Reading"} => started
    /\ Alive => outcomes = <<>> /\ ~Answered
    /\ ~started => outcomes = <<>>
    /\ pc = "Dropping" =>
          \/ outcomes = <<>> /\ (Answered => GuardAnswered)
          \/ Answered /\ outcomes = <<OutcomeOf(Last(out))>>

\* At the end it is the whole truth.
GoneInv == pc = "Gone" => OneOutcome /\ OutcomeIsTrue

ObservedInv == ObservedTypeOK /\ OutcomeInv /\ GoneInv

----------------------------------------------------------------------------
(* Lemmas *)

\* Append puts its element last.
LEMMA AppendIsLast ==
    ASSUME NEW S, NEW s \in Seq(S), NEW x \in S
    PROVE  /\ Append(s, x) \in Seq(S)
           /\ Append(s, x) # <<>>
           /\ Last(Append(s, x)) = x
BY DEF Last

\* Every terminal item has an outcome.
LEMMA OutcomeType ==
    ASSUME NEW x \in Terminal
    PROVE  OutcomeOf(x) \in Outcome /\ x \in Item
BY DEF Terminal, Error, Err, Item, Outcome, OutcomeOf

\* A guard's error is a terminal item.
LEMMA GuardErrorType == Err(GuardError) \in Terminal /\ Err(GuardError).type = "Err"
BY DEF Terminal, Error, Err, GuardError

\* An event is none.
LEMMA EventType == [type |-> "Event"] \in Item /\ [type |-> "Event"] \notin Terminal
BY DEF Terminal, Item

----------------------------------------------------------------------------
(* The type invariant *)

\* A layer that has told nothing yet has told a sequence.
LEMMA EmptyType == <<>> \in Seq(Item) /\ <<>> \in Seq(Outcome)
OBVIOUS

\* Finish keeps the outcomes a sequence.
LEMMA FinishType ==
    ASSUME NEW o \in Outcome, outcomes \in Seq(Outcome), Finish(o)
    PROVE  outcomes' \in Seq(Outcome)
<1>1. <<o>> \in Seq(Outcome)
  OBVIOUS
<1> QED BY <1>1 DEF Finish

LEMMA InitTypeOK == ObservedInit => ObservedTypeOK
BY ObservedAssumption, EmptyType DEF ObservedInit, ObservedTypeOK

\* What passes the layer is typed.
LEMMA PassType ==
    ASSUME ObservedTypeOK, NEW x \in Item,
           \/ Answer(x) /\ x \in Terminal
           \/ Yield(x)
    PROVE  ObservedTypeOK'
<1>1. Append(out, x) \in Seq(Item) /\ Append(told, x) \in Seq(Item)
  BY AppendIsLast DEF ObservedTypeOK
<1>2. CASE Answer(x) /\ x \in Terminal
  <2>1. outcomes' \in Seq(Outcome)
    BY <1>2, OutcomeType, FinishType DEF Answer, ObservedTypeOK
  <2> QED BY <1>1, <1>2, <2>1 DEF Answer, Pass, ObservedTypeOK, signals
<1>3. CASE Yield(x)
  <2>1. outcomes' \in Seq(Outcome)
    BY <1>3, OutcomeType, FinishType DEF Yield, Observe, ObservedTypeOK
  <2>2. told' \in Seq(Item) /\ pc' \in {"Reading", "Dropping"}
    BY <1>1, <1>3 DEF Yield, Observe
  <2> QED BY <1>1, <1>3, <2>1, <2>2 DEF Yield, Pass, ObservedTypeOK, signals
<1> QED BY <1>2, <1>3

LEMMA NextTypeOK == ObservedTypeOK /\ [ObservedNext]_observedVars => ObservedTypeOK'
<1> SUFFICES ASSUME ObservedTypeOK, [ObservedNext]_observedVars PROVE ObservedTypeOK'
  OBVIOUS
<1>1. CASE Enter
  BY <1>1 DEF Enter, Alive, ObservedTypeOK, signals
<1>2. CASE GuardFires
  BY <1>2, GuardErrorType, OutcomeType DEF GuardFires, ObservedTypeOK, signals, observer
<1>3. CASE Pend
  BY <1>3 DEF Pend, ObservedTypeOK, signals, observer
<1>4. CASE DropGuard
  <2>1. OutcomeOf(Err(GuardError)) \in Outcome /\ [type |-> "Dropped"] \in Outcome
    BY GuardErrorType, OutcomeType DEF Outcome
  <2> QED BY <1>4, <2>1, FinishType DEF DropGuard, ObservedTypeOK, signals
<1>5. CASE Below
  <2>1. CASE WrapStream
    BY <2>1 DEF WrapStream, ObservedTypeOK, signals, observer
  <2>2. CASE ~WrapStream
    BY <1>5, <2>2, PassType, OutcomeType, EventType DEF Below
  <2> QED BY <2>1, <2>2
<1>6. CASE InnerGuardFires
  BY <1>6, PassType, OutcomeType, GuardErrorType DEF InnerGuardFires
<1>7. CASE DropCall
  BY <1>7 DEF DropCall, ObservedTypeOK, signals, observer
<1>8. CASE CancelCall
  BY <1>8 DEF CancelCall, ObservedTypeOK, observer
<1>9. CASE Tick
  BY <1>9, ObservedAssumption DEF Tick, ObservedTypeOK, observer
<1>10. CASE UNCHANGED observedVars
  BY <1>10 DEF observedVars, ObservedTypeOK, signals, observer
<1> QED
  BY <1>1, <1>2, <1>3, <1>4, <1>5, <1>6, <1>7, <1>8, <1>9, <1>10 DEF ObservedNext, Over

\* The model is type correct: in particular no outcome is a failure whose
\* error says that the call was cancelled.
THEOREM ObserverTypeCorrect == ObservedSpec => []ObservedTypeOK
BY InitTypeOK, NextTypeOK, PTL DEF ObservedSpec

----------------------------------------------------------------------------
(* The outcome *)

LEMMA InitOutcome == ObservedInit => OutcomeInv /\ GoneInv
BY DEF ObservedInit, OutcomeInv, Alive, Answered, GoneInv

\* A terminal answer is its outcome; an event leaves the question open.
LEMMA PassOutcome ==
    ASSUME ObservedTypeOK, OutcomeInv, NEW x \in Item,
           \/ Answer(x) /\ x \in Terminal
           \/ Yield(x)
    PROVE  OutcomeInv' /\ pc' # "Gone" /\ (outcomes' # <<>> => started')
<1>1. Append(out, x) # <<>> /\ Last(Append(out, x)) = x
  BY AppendIsLast DEF ObservedTypeOK
<1>2. out' = Append(out, x) /\ started /\ started' /\ Alive /\ outcomes = <<>> /\ ~entered'
  BY DEF Answer, Yield, Observe, Pass, OutcomeInv, Alive
<1>3. CASE x \in Terminal
  <2>1. pc' = "Dropping" /\ outcomes' = <<OutcomeOf(x)>>
    BY <1>2, <1>3 DEF Answer, Yield, Observe, Finish
  <2> QED BY <1>1, <1>2, <1>3, <2>1 DEF OutcomeInv, Answered, Alive
<1>4. CASE x \notin Terminal
  <2>1. pc' = "Reading" /\ outcomes' = <<>>
    BY <1>2, <1>4 DEF Yield, Observe
  <2> QED BY <1>1, <1>2, <1>4, <2>1 DEF OutcomeInv, Answered, Alive
<1> QED BY <1>3, <1>4

\* The destructor names what stopped the call, if something did.
LEMMA DropOutcome ==
    ASSUME ObservedTypeOK, OutcomeInv, DropGuard
    PROVE  OutcomeInv' /\ OneOutcome' /\ OutcomeIsTrue'
<1> DEFINE o == IF Stopped THEN OutcomeOf(Err(GuardError)) ELSE [type |-> "Dropped"]
<1>1. /\ pc = "Dropping" /\ pc' = "Gone"
      /\ out' = out /\ started' = started /\ left' = left /\ cancelled' = cancelled
      /\ ~entered'
  BY DEF DropGuard, signals, OutcomeInv
<1>2. CASE ~started
  BY <1>1, <1>2 DEF DropGuard, OutcomeInv, OneOutcome, OutcomeIsTrue, Alive
<1>3. CASE started /\ outcomes # <<>>
  <2>1. Answered /\ outcomes' = <<OutcomeOf(Last(out))>>
    BY <1>1, <1>3 DEF DropGuard, Finish, OutcomeInv
  <2> QED BY <1>1, <1>3, <2>1 DEF OutcomeInv, OneOutcome, OutcomeIsTrue, Alive, Answered
<1>4. CASE started /\ outcomes = <<>>
  <2>1. outcomes' = <<o>> /\ Len(outcomes') = 1 /\ Head(outcomes') = o
    BY <1>4 DEF DropGuard, Finish
  <2>2. Answered => GuardAnswered
    BY <1>1, <1>4 DEF OutcomeInv
  <2>3. GuardAnswered =>
           \/ o = OutcomeOf(Last(out))
           \/ Last(out) = Err("Timeout") /\ cancelled /\ o.type = "Cancelled"
    BY DEF GuardAnswered, Stopped, GuardError, OutcomeOf, Err
  <2>4. OutcomeIsTrue'
    <3>1. CASE Answered
      BY <1>1, <2>1, <2>2, <2>3, <3>1 DEF OutcomeIsTrue, Answered
    <3>2. CASE ~Answered
      BY <1>1, <2>1, <3>2 DEF OutcomeIsTrue, Answered, Stopped, GuardError
    <3> QED BY <3>1, <3>2
  <2>5. OneOutcome'
    BY <1>1, <1>4, <2>1 DEF OneOutcome
  <2> QED BY <1>1, <1>4, <2>4, <2>5 DEF OutcomeInv, Alive
<1> QED BY <1>2, <1>3, <1>4

\* Elsewhere at most one outcome is known and none has to be explained.
LEMMA NotGone == ObservedTypeOK /\ OutcomeInv /\ pc # "Gone" => OneOutcome /\ OutcomeIsTrue
<1> SUFFICES ASSUME ObservedTypeOK, OutcomeInv, pc # "Gone"
             PROVE  OneOutcome /\ OutcomeIsTrue
  OBVIOUS
<1>1. pc = "Dropping" \/ outcomes = <<>>
  BY DEF ObservedTypeOK, OutcomeInv, Alive
<1>2. CASE outcomes = <<>>
  BY <1>2 DEF OneOutcome, OutcomeIsTrue
<1>3. CASE outcomes # <<>>
  <2>1. started
    BY <1>3, Zenon DEF OutcomeInv
  <2>2. outcomes = <<OutcomeOf(Last(out))>>
    BY <1>1, <1>3 DEF OutcomeInv
  <2> QED BY <2>1, <2>2 DEF OneOutcome, OutcomeIsTrue
<1> QED BY <1>2, <1>3

\* Every step but the destructor's leaves the question as OutcomeInv puts it.
LEMMA StepOutcome ==
    ASSUME ObservedTypeOK, OutcomeInv, ObservedNext, ~DropGuard, ~Over
    PROVE  OutcomeInv' /\ pc' # "Gone"
<1>1. ASSUME NEW x \in Item, (Answer(x) /\ x \in Terminal) \/ Yield(x)
      PROVE  OutcomeInv' /\ pc' # "Gone"
  BY <1>1, PassOutcome
<1>2. CASE Enter
  BY <1>2 DEF Enter, Alive, OutcomeInv, Answered, GuardAnswered, signals, ObservedTypeOK
<1>3. CASE GuardFires
  <2>1. Append(out, Err(GuardError)) # <<>> /\ Last(Append(out, Err(GuardError))) = Err(GuardError)
    BY AppendIsLast, GuardErrorType, OutcomeType DEF ObservedTypeOK
  <2>2. GuardAnswered'
    BY <1>3, <2>1 DEF GuardFires, GuardAnswered, GuardError, Stopped, signals
  <2> QED
    BY <1>3, <2>2 DEF GuardFires, OutcomeInv, Alive, Answered, observer
<1>4. CASE Pend
  BY <1>4 DEF Pend, OutcomeInv, Alive, Answered, GuardAnswered, signals, observer
<1>5. CASE WrapStream
  BY <1>5 DEF WrapStream, OutcomeInv, Alive, Answered, GuardAnswered, signals, observer
<1>6. CASE Below /\ ~WrapStream
  BY <1>1, <1>6, OutcomeType, EventType DEF Below
<1>7. CASE InnerGuardFires
  BY <1>1, <1>7, OutcomeType, GuardErrorType DEF InnerGuardFires
<1>8. CASE DropCall
  BY <1>8 DEF DropCall, OutcomeInv, Alive, Answered, GuardAnswered, signals, observer
<1>9. CASE CancelCall
  BY <1>9 DEF CancelCall, OutcomeInv, Alive, Answered, GuardAnswered, observer
<1>10. CASE Tick
  BY <1>10 DEF Tick, ObservedTypeOK, OutcomeInv, Alive, Answered, GuardAnswered, observer
<1> QED
  BY <1>1, <1>2, <1>3, <1>4, <1>5, <1>6, <1>7, <1>8, <1>9, <1>10 DEF ObservedNext

LEMMA NextObservedInv == ObservedInv /\ [ObservedNext]_observedVars => OutcomeInv' /\ GoneInv'
<1> SUFFICES ASSUME ObservedInv, [ObservedNext]_observedVars
             PROVE  OutcomeInv' /\ GoneInv'
  OBVIOUS
<1>1. CASE DropGuard
  BY <1>1, DropOutcome DEF ObservedInv, GoneInv
<1>2. CASE UNCHANGED observedVars
  BY <1>2
     DEF ObservedInv, observedVars, signals, observer, OutcomeInv, GoneInv, OneOutcome, OutcomeIsTrue, Alive,
         Answered, GuardAnswered, Stopped, GuardError
<1>3. CASE ~DropGuard /\ ~UNCHANGED observedVars
  BY <1>3, StepOutcome DEF ObservedInv, GoneInv, Over
<1> QED BY <1>1, <1>2, <1>3

\* The invariant holds in every behaviour.
THEOREM AlwaysObservedInv == ObservedSpec => []ObservedInv
<1>1. ObservedInit => ObservedInv
  BY InitTypeOK, InitOutcome DEF ObservedInv
<1>2. ObservedInv /\ [ObservedNext]_observedVars => ObservedInv'
  BY NextTypeOK, NextObservedInv DEF ObservedInv
<1> QED BY <1>1, <1>2, PTL DEF ObservedSpec

\* on_finish is called once for a call that was started, also when it is
\* abandoned, and never for one that was not.
THEOREM FinishesOnce == ObservedSpec => []OneOutcome
<1>1. ObservedInv => OneOutcome
  BY NotGone DEF ObservedInv, GoneInv
<1> QED BY AlwaysObservedInv, <1>1, PTL

\* The outcome is what the layer above got, but for a timeout that is
\* overtaken by a cancellation.
THEOREM OutcomesAreTrue == ObservedSpec => []OutcomeIsTrue
<1>1. ObservedInv => OutcomeIsTrue
  BY NotGone DEF ObservedInv, GoneInv
<1> QED BY AlwaysObservedInv, <1>1, PTL

\* An observer that was told the outcome is told nothing more.
THEOREM NothingAfterFinish == ObservedSpec => SilentAfterFinish
<1>1. ObservedInv /\ [ObservedNext]_observedVars => [outcomes # <<>> => UNCHANGED observer]_observedVars
  <2> SUFFICES ASSUME OutcomeInv, ObservedNext, outcomes # <<>>
               PROVE  UNCHANGED observer
    BY DEF ObservedInv
  <2>1. ~Alive
    BY DEF OutcomeInv
  <2> QED
    BY <2>1 DEF ObservedNext, Enter, GuardFires, Pend, DropGuard, Finish, Below, Answer, Yield, Observe,
       WrapStream, InnerGuardFires, DropCall, CancelCall, Tick, Over, Alive, observer, observedVars
<1> QED BY AlwaysObservedInv, <1>1, PTL DEF ObservedSpec, SilentAfterFinish

----------------------------------------------------------------------------
(* The items *)

\* The inspecting stream hands every item on as it tells it.  What the guard
\* adds at the end, it adds to a call that is stopped and stays stopped.
ToldInv ==
    /\ pc \in {"Fresh", "Running"} => told = <<>> /\ out = <<>>
    /\ pc = "Reading" => out = told
    /\ told # <<>> =>
          \/ out = told
          \/ Stopped /\ out \in {Append(told, Err(e)) : e \in {"Timeout", "Cancelled"}}

LEMMA NextTold == ObservedInv /\ ToldInv /\ [ObservedNext]_observedVars => ToldInv'
<1> SUFFICES ASSUME ObservedTypeOK, ToldInv, [ObservedNext]_observedVars PROVE ToldInv'
  BY DEF ObservedInv
<1>1. CASE Enter
  BY <1>1 DEF Enter, Alive, ToldInv, signals, Stopped
<1>2. CASE GuardFires
  <2>1. Stopped' /\ out' = Append(out, Err(GuardError)) /\ told' = told /\ pc' = "Dropping" /\ Alive
    BY <1>2 DEF GuardFires, signals, observer, Stopped
  <2>2. told # <<>> => out = told
    BY <2>1 DEF ToldInv, Alive
  <2> QED BY <2>1, <2>2, GuardErrorType DEF ToldInv, GuardError
<1>3. CASE Pend \/ DropGuard \/ DropCall
  BY <1>3 DEF Pend, DropGuard, DropCall, ToldInv, signals, observer, Stopped, Alive
<1>4. CASE WrapStream
  BY <1>4 DEF WrapStream, ToldInv, signals, observer
<1>5. ASSUME NEW x, Answer(x) PROVE ToldInv'
  BY <1>5 DEF Answer, Pass, ToldInv
<1>6. ASSUME NEW x, Yield(x) PROVE ToldInv'
  <2>1. pc = "Reading" /\ told' = Append(told, x) /\ out' = Append(out, x) /\ pc' \in {"Reading", "Dropping"}
    BY <1>6 DEF Yield, Observe, Pass
  <2> QED BY <2>1 DEF ToldInv
<1>7. CASE Below \/ InnerGuardFires
  BY <1>4, <1>5, <1>6, <1>7 DEF Below, InnerGuardFires
<1>8. CASE CancelCall
  BY <1>8 DEF CancelCall, ToldInv, observer, Stopped
<1>9. CASE Tick
  BY <1>9 DEF Tick, ToldInv, observer, Stopped
<1>10. CASE UNCHANGED observedVars
  BY <1>10 DEF observedVars, ToldInv, signals, observer, Stopped
<1> QED
  BY <1>1, <1>2, <1>3, <1>7, <1>8, <1>9, <1>10 DEF ObservedNext, Over

\* The observer is told every item that the layer above gets, in order, and no
\* other; only the outer guard's own error, of a stopped call, passes it by.
THEOREM ObserverMissesNothing == ObservedSpec => []ToldIsDelivered
<1>1. ObservedInit => ToldInv
  BY DEF ObservedInit, ToldInv
<1>2. ToldInv => ToldIsDelivered
  BY DEF ToldInv, ToldIsDelivered
<1> QED BY <1>1, <1>2, NextTold, AlwaysObservedInv, PTL DEF ObservedSpec

----------------------------------------------------------------------------
(* A probe reports what its model did *)

LEMMA LeastNumber ==
    ASSUME NEW T \in SUBSET Nat, T # {}
    PROVE  \E n \in T : \A m \in T : n <= m
  <1>1. PICK n \in T : \A m \in T : ~(<<m, n>> \in OpToRel(<, Nat))
    BY NatLessThanWellFounded, WFMin, Zenon
  <1>2. \A m \in T : <<m, n>> \in Nat \X Nat
    OBVIOUS
  <1>3. \A m \in T : m < n => <<m, n>> \in OpToRel(<, Nat)
    BY <1>2 DEF OpToRel
  <1>4. \A m \in T : ~(m < n)
    BY <1>1, <1>3, Zenon
  <1>. QED
    BY <1>4

\* The values of f are the sums of the first numbers.
IsSums(f, n, numbers) == f = [i \in 0..n |-> IF i = 0 THEN 0 ELSE f[i - 1] + numbers[i]]

LEMMA SumsExist ==
    ASSUME NEW n \in Nat, NEW numbers
    PROVE  \E f : IsSums(f, n, numbers)
  <1>. DEFINE Bad == {m \in Nat : ~ \E f : IsSums(f, m, numbers)}
  <1>. SUFFICES ASSUME Bad # {} PROVE FALSE
    BY Zenon
  <1>1. PICK m \in Bad : \A k \in Bad : m <= k
    BY LeastNumber
  <1>2. m # 0
    <2>1. IsSums([i \in 0..0 |-> 0], 0, numbers)
      BY DEF IsSums
    <2>. QED
      BY <2>1
  <1>3. m - 1 \in Nat /\ m - 1 \notin Bad
    BY <1>1, <1>2
  <1>4. PICK g : IsSums(g, m - 1, numbers)
    BY <1>3
  <1>. DEFINE f == [i \in 0..m |-> IF i # m THEN g[i] ELSE g[m - 1] + numbers[m]]
              Rule(h) == [i \in 0..m |-> IF i = 0 THEN 0 ELSE h[i - 1] + numbers[i]]
  <1>5. ASSUME NEW i \in 0..m PROVE f[i] = Rule(f)[i]
    <2>1. CASE i = m
      <3>1. f[m - 1] = g[m - 1]
        BY <1>2
      <3>. QED
        BY <1>2, <2>1, <3>1
    <2>2. CASE i # m
      <3>1. i \in 0..(m - 1)
        BY <2>2
      <3>2. g[i] = IF i = 0 THEN 0 ELSE g[i - 1] + numbers[i]
        BY <1>4, <3>1 DEF IsSums
      <3>3. i # 0 => i - 1 \in 0..m /\ i - 1 # m
        BY <2>2
      <3>. QED
        BY <2>2, <3>2, <3>3
    <2>. QED
      BY <2>1, <2>2
  <1>6. f = Rule(f)
    BY <1>5
  <1>7. IsSums(f, m, numbers)
    BY <1>6 DEF IsSums
  <1>. QED
    BY <1>1, <1>7

LEMMA SumUpToIs ==
    ASSUME NEW n \in Nat, NEW numbers
    PROVE  \E f : IsSums(f, n, numbers) /\ Lllm!SumUpTo(numbers, n) = f[n]
  <1>1. \E f : IsSums(f, n, numbers)
    BY SumsExist
  <1>. DEFINE g == CHOOSE f : IsSums(f, n, numbers)
  <1>2. IsSums(g, n, numbers)
    BY <1>1
  <1>3. Lllm!SumUpTo(numbers, n) = g[n]
    BY DEF Lllm!SumUpTo, IsSums
  <1>. QED
    BY <1>2, <1>3

LEMMA SumsAgree ==
    ASSUME NEW n \in Nat, NEW m \in 0..n, NEW p, NEW q, NEW f, NEW g,
           IsSums(f, m, p), IsSums(g, n, q), \A i \in 1..m : p[i] = q[i]
    PROVE  \A i \in 0..m : f[i] = g[i]
  <1>. DEFINE Bad == {i \in 0..m : f[i] # g[i]}
  <1>. SUFFICES ASSUME Bad # {} PROVE FALSE
    BY Zenon
  <1>0. Bad \in SUBSET Nat
    OBVIOUS
  <1>1. PICK i \in Bad : \A k \in Bad : i <= k
    BY <1>0, LeastNumber
  <1>2. /\ f[i] = IF i = 0 THEN 0 ELSE f[i - 1] + p[i]
        /\ g[i] = IF i = 0 THEN 0 ELSE g[i - 1] + q[i]
    <2>1. i \in 0..n /\ i \in 0..m
      OBVIOUS
    <2>. QED
      BY <2>1 DEF IsSums
  <1>3. i # 0
    BY <1>2
  <1>4. i - 1 \in 0..m /\ i - 1 \notin Bad /\ i \in 1..m
    BY <1>1, <1>3
  <1>5. f[i - 1] = g[i - 1]
    BY <1>4
  <1>. QED
    BY <1>1, <1>2, <1>3, <1>4, <1>5

\* What comes later does not count.
LEMMA SameSum ==
    ASSUME NEW n \in Nat, NEW p, NEW q, \A i \in 1..n : p[i] = q[i]
    PROVE  Lllm!SumUpTo(p, n) = Lllm!SumUpTo(q, n)
  <1>1. PICK f : IsSums(f, n, p) /\ Lllm!SumUpTo(p, n) = f[n]
    BY SumUpToIs
  <1>2. PICK g : IsSums(g, n, q) /\ Lllm!SumUpTo(q, n) = g[n]
    BY SumUpToIs
  <1>3. n \in 0..n
    OBVIOUS
  <1>. QED
    BY <1>1, <1>2, <1>3, SumsAgree

LEMMA SumStarts == ASSUME NEW numbers PROVE Lllm!SumUpTo(numbers, 0) = 0
  <1>1. PICK f : IsSums(f, 0, numbers) /\ Lllm!SumUpTo(numbers, 0) = f[0]
    BY SumUpToIs
  <1>. QED
    BY <1>1 DEF IsSums

LEMMA SumGoesOn ==
    ASSUME NEW n \in Nat, NEW numbers
    PROVE  Lllm!SumUpTo(numbers, n + 1) = Lllm!SumUpTo(numbers, n) + numbers[n + 1]
  <1>1. PICK f : IsSums(f, n, numbers) /\ Lllm!SumUpTo(numbers, n) = f[n]
    BY SumUpToIs
  <1>2. PICK g : IsSums(g, n + 1, numbers) /\ Lllm!SumUpTo(numbers, n + 1) = g[n + 1]
    BY SumUpToIs
  <1>3. n \in 0..n /\ n \in 0..(n + 1) /\ n + 1 \in Nat /\ n + 1 \in 0..(n + 1)
        /\ n + 1 # 0 /\ (n + 1) - 1 = n
    OBVIOUS
  <1>4. f[n] = g[n]
    BY <1>1, <1>2, <1>3, SumsAgree
  <1>5. g[n + 1] = g[n] + numbers[n + 1]
    BY <1>2, <1>3 DEF IsSums
  <1>. QED
    BY <1>1, <1>2, <1>4, <1>5

LEMMA SumType ==
    ASSUME NEW n \in Nat, NEW numbers, \A i \in 1..n : numbers[i] \in Nat
    PROVE  Lllm!SumUpTo(numbers, n) \in Nat
  <1>. DEFINE Bad == {m \in 0..n : Lllm!SumUpTo(numbers, m) \notin Nat}
  <1>n. n \in 0..n
    OBVIOUS
  <1>. SUFFICES ASSUME Bad # {} PROVE FALSE
    BY <1>n, Zenon
  <1>0. Bad \in SUBSET Nat
    OBVIOUS
  <1>1. PICK m \in Bad : \A k \in Bad : m <= k
    BY <1>0, LeastNumber
  <1>2. m # 0
    BY SumStarts
  <1>3. m - 1 \in Nat /\ m - 1 \in 0..n /\ m - 1 \notin Bad /\ (m - 1) + 1 = m /\ m \in 1..n
    BY <1>1, <1>2
  <1>4. Lllm!SumUpTo(numbers, m) = Lllm!SumUpTo(numbers, m - 1) + numbers[m]
    BY <1>3, SumGoesOn
  <1>. QED
    BY <1>3, <1>4

\* Sums of natural numbers do not fall.
LEMMA SumGrows ==
    ASSUME NEW numbers, NEW n \in Nat, \A j \in 1..n : numbers[j] \in Nat, NEW i \in 0..n
    PROVE  Lllm!SumUpTo(numbers, i) <= Lllm!SumUpTo(numbers, n)
  <1>. DEFINE Bad == {m \in i..n : ~(Lllm!SumUpTo(numbers, i) <= Lllm!SumUpTo(numbers, m))}
  <1>. SUFFICES ASSUME Bad # {} PROVE FALSE
    <2>1. n \in i..n
      OBVIOUS
    <2>. QED
      BY <2>1
  <1>0. Bad \in SUBSET Nat
    OBVIOUS
  <1>1. PICK m \in Bad : \A k \in Bad : m <= k
    BY <1>0, LeastNumber
  <1>2. \A k \in 0..n : Lllm!SumUpTo(numbers, k) \in Nat
    BY SumType
  <1>3. m # i
    BY <1>2
  <1>4. m - 1 \in i..n /\ m - 1 \notin Bad /\ m - 1 \in Nat /\ (m - 1) + 1 = m /\ m \in 1..n
    BY <1>1, <1>3
  <1>5. Lllm!SumUpTo(numbers, m) = Lllm!SumUpTo(numbers, m - 1) + numbers[m]
    BY <1>4, SumGoesOn
  <1>6. /\ Lllm!SumUpTo(numbers, i) \in Nat /\ Lllm!SumUpTo(numbers, m - 1) \in Nat
        /\ numbers[m] \in Nat
    BY <1>2, <1>4
  <1>. QED
    BY <1>1, <1>4, <1>5, <1>6

\* One more number is added to the sum of the others.
SameUpTo(p, q, n) == \A i \in 1..n : q[i] = p[i] /\ p[i] \in Nat
SumGoesUp(p, q, n) ==
    /\ Lllm!SumUpTo(q, n + 1) = Lllm!SumUpTo(p, n) + q[n + 1]
    /\ \A m \in 0..n : Lllm!SumUpTo(q, m) = Lllm!SumUpTo(p, m)
    /\ Lllm!SumUpTo(p, n) \in Nat

LEMMA SumOfAppended ==
    ASSUME NEW p, NEW q, NEW n \in Nat, SameUpTo(p, q, n)
    PROVE  SumGoesUp(p, q, n)
  <1>0. \A i \in 1..n : q[i] = p[i] /\ p[i] \in Nat
    BY DEF SameUpTo
  <1>1. ASSUME NEW m \in 0..n PROVE Lllm!SumUpTo(q, m) = Lllm!SumUpTo(p, m)
    <2>1. m \in Nat /\ \A i \in 1..m : q[i] = p[i]
      BY <1>0
    <2>. QED
      BY <2>1, SameSum
  <1>2. n \in 0..n
    OBVIOUS
  <1>3. Lllm!SumUpTo(q, n + 1) = Lllm!SumUpTo(q, n) + q[n + 1]
    BY SumGoesOn
  <1>4. Lllm!SumUpTo(p, n) \in Nat
    BY <1>0, SumType
  <1>. QED
    BY <1>1, <1>2, <1>3, <1>4 DEF SumGoesUp

IsReply(answer) ==
    /\ answer.calls \in Seq({answer.calls[k] : k \in DOMAIN answer.calls})
    /\ Lllm!Good(answer) => answer.usage \in Nat /\ answer.total \in BOOLEAN

HasFields(p) ==
    p = [messages |-> p.messages, calls |-> p.calls, usage |-> p.usage,
         answers |-> p.answers, outcome |-> p.outcome]

\* A probe, and what the next turn rests on: as long as there is no verdict
\* every answer was good and, in a tool probe, a call; and whether a call was
\* made is what `calls` counts.
IsProbe(p) ==
    /\ HasFields(p)
    /\ p.messages \in Seq({p.messages[i] : i \in DOMAIN p.messages})
    /\ p.calls \in Nat /\ p.usage \in Nat
    /\ p.answers \in Seq({p.answers[i] : i \in DOMAIN p.answers})
    /\ \A i \in DOMAIN p.answers : IsReply(p.answers[i])

Undecided(p, tools) ==
    /\ \A i \in DOMAIN p.answers : Lllm!Good(p.answers[i])
    /\ tools => Len(p.answers) < Lllm!MaxToolTurns /\ \A i \in DOMAIN p.answers : p.answers[i].calls # <<>>
    /\ ~tools => p.answers = <<>>

Counted(p) == p.calls > 0 <=> \E i \in DOMAIN p.answers : p.answers[i].calls # <<>>

SoundProbe(p, tools) ==
    IsProbe(p) /\ Lllm!Honest(p, tools) /\ (p.outcome = Lllm!None => Undecided(p, tools) /\ Counted(p))

\* A probe that was started: its messages begin with the prompt.
Begun(p, tools) == p.messages # <<>> /\ (p.answers = <<>> => Len(p.messages) = 1)

ProbeInv ==
    /\ asked \in Cases
    /\ SoundProbe(probe, asked.tools)
    /\ stage = "Probing" => probe.outcome = Lllm!None /\ Begun(probe, asked.tools)

\* A new probe.
LEMMA NewProbe ==
    ASSUME NEW tools \in BOOLEAN, NEW messages, messages \in Seq({messages[i] : i \in DOMAIN messages})
    PROVE  SoundProbe([Lllm!NoProbe EXCEPT !.messages = messages], tools)
  <1>. DEFINE p == [Lllm!NoProbe EXCEPT !.messages = messages]
  <1>1. p = [messages |-> messages, calls |-> 0, usage |-> 0, answers |-> <<>>, outcome |-> Lllm!None]
    BY DEF Lllm!NoProbe
  <1>. HIDE DEF p
  <1>2. IsProbe(p)
    <2>1. <<>> \in Seq({<<>>[i] : i \in DOMAIN <<>>}) /\ DOMAIN <<>> = {}
      OBVIOUS
    <2>. QED
      BY <1>1, <2>1 DEF IsProbe, HasFields
  <1>3. Lllm!SumUpTo(Lllm!Tokens(<<>>), 0) = 0
    BY SumStarts
  <1>4. Lllm!Honest(p, tools)
    <2>1. Lllm!None \notin {"Passed", "Incorrect", "Failed"}
      BY DEF Lllm!None
    <2>. QED
      BY <1>1, <1>3, <2>1, ProbeAssumption DEF Lllm!Honest, Lllm!MaxToolTurns
  <1>5. Undecided(p, tools) /\ Counted(p)
    BY <1>1 DEF Undecided, Counted, Lllm!MaxToolTurns
  <1>. QED
    BY <1>2, <1>4, <1>5 DEF SoundProbe, p

\* A list is a list of its own elements.
LEMMA SameListRange ==
    ASSUME NEW S, NEW list \in Seq(S)
    PROVE  list \in Seq({list[i] : i \in DOMAIN list})
  <1>1. list = [i \in 1..Len(list) |-> list[i]] /\ Len(list) \in Nat /\ DOMAIN list = 1..Len(list)
    OBVIOUS
  <1>. QED
    BY <1>1

IsJoin(all, s, t) == all = s \o t
OneThenOther(all, S, s, t) ==
    /\ all \in Seq(S) /\ Len(all) = Len(s) + Len(t)
    /\ \A i \in 1..(Len(s) + Len(t)) : all[i] = IF i <= Len(s) THEN s[i] ELSE t[i - Len(s)]

LEMMA JoinedLists ==
    ASSUME NEW S, NEW s \in Seq(S), NEW t \in Seq(S), NEW all, IsJoin(all, s, t)
    PROVE  OneThenOther(all, S, s, t)
  <1>1. /\ s \o t \in Seq(S) /\ Len(s \o t) = Len(s) + Len(t)
        /\ \A i \in 1..(Len(s) + Len(t)) : (s \o t)[i] = IF i <= Len(s) THEN s[i] ELSE t[i - Len(s)]
    BY ConcatProperties, Zenon
  <1>2. all = s \o t
    BY DEF IsJoin
  <1>. QED
    BY <1>1, <1>2, Zenon DEF OneThenOther

\* One element and a list of others behind a list.
IsBehind(all, list, one, rest) == all = Append(list, one) \o rest
InPlace(all, S, list, rest) ==
    /\ all \in Seq(S) /\ Len(list) \in Nat /\ Len(all) = Len(list) + 1 + Len(rest)
    /\ \A j \in 1..Len(list) : all[j] = list[j]
    /\ \A k \in 1..Len(rest) : all[Len(list) + 1 + k] = rest[k]
    /\ all \in Seq({all[i] : i \in DOMAIN all})

LEMMA BehindOne ==
    ASSUME NEW S, NEW list \in Seq(S), NEW one \in S, NEW rest \in Seq(S),
           NEW all, IsBehind(all, list, one, rest)
    PROVE  InPlace(all, S, list, rest)
  <1>. DEFINE first == Append(list, one)
  <1>1. /\ first \in Seq(S) /\ Len(first) = Len(list) + 1 /\ Len(list) \in Nat /\ Len(rest) \in Nat
        /\ \A j \in 1..Len(list) : first[j] = list[j]
    OBVIOUS
  <1>2. IsJoin(all, first, rest)
    BY DEF IsBehind, IsJoin
  <1>. HIDE DEF first
  <1>3. /\ all \in Seq(S) /\ Len(all) = Len(first) + Len(rest)
        /\ \A i \in 1..(Len(first) + Len(rest)) :
              all[i] = IF i <= Len(first) THEN first[i] ELSE rest[i - Len(first)]
    <2>1. first \in Seq(S) /\ IsJoin(all, first, rest)
      BY <1>1, <1>2
    <2>2. OneThenOther(all, S, first, rest)
      BY <2>1, JoinedLists, Zenon
    <2>. QED
      BY <2>2, Zenon DEF OneThenOther
  <1>4. ASSUME NEW j \in 1..Len(list) PROVE all[j] = list[j]
    <2>1. j \in 1..(Len(first) + Len(rest)) /\ j <= Len(first)
      BY <1>1
    <2>. QED
      BY <1>1, <1>3, <2>1
  <1>5. ASSUME NEW k \in 1..Len(rest) PROVE all[Len(list) + 1 + k] = rest[k]
    <2>1. Len(list) + 1 + k \in 1..(Len(first) + Len(rest)) /\ ~(Len(list) + 1 + k <= Len(first))
          /\ (Len(list) + 1 + k) - Len(first) = k
      BY <1>1
    <2>. QED
      BY <1>3, <2>1
  <1>6. all \in Seq({all[i] : i \in DOMAIN all})
    <2>1. all \in Seq(S)
      BY <1>3
    <2>. QED
      BY <2>1, SameListRange, Zenon
  <1>. QED
    BY <1>1, <1>3, <1>4, <1>5, <1>6 DEF InPlace

\* The place of a result lies behind what came before its answer, and before
\* the end of what its answer led to.
LEMMA PlaceIsBefore ==
    ASSUME NEW answers, Len(answers) \in Nat, DOMAIN answers = 1..Len(answers),
           \A i \in DOMAIN answers : IsReply(answers[i]),
           NEW i \in 1..Len(answers), Lllm!Good(answers[i]), NEW k \in DOMAIN answers[i].calls
    PROVE  2 + Lllm!SumUpTo(Lllm!Following(answers), i - 1) + k
             \in 1..(1 + Lllm!SumUpTo(Lllm!Following(answers), Len(answers)))
  <1>. DEFINE p == Lllm!Following(answers)
              c == Len(answers[i].calls)
  <1>1. \A j \in 1..Len(answers) : p[j] \in Nat
    <2>1. \A j \in 1..Len(answers) : Len(answers[j].calls) \in Nat
      BY DEF IsReply
    <2>. QED
      BY <2>1 DEF Lllm!Following
  <1>2. c \in Nat /\ DOMAIN answers[i].calls = 1..c
    BY DEF IsReply
  <1>3. p[i] = 1 + c
    BY <1>2 DEF Lllm!Following
  <1>4. k \in 1..c
    BY <1>2
  <1>. HIDE DEF p, c
  <1>5. Lllm!SumUpTo(p, (i - 1) + 1) = Lllm!SumUpTo(p, i - 1) + p[(i - 1) + 1] /\ (i - 1) + 1 = i
    BY SumGoesOn
  <1>6. Lllm!SumUpTo(p, i) <= Lllm!SumUpTo(p, Len(answers))
    BY <1>1, SumGrows
  <1>7. Lllm!SumUpTo(p, i - 1) \in Nat /\ Lllm!SumUpTo(p, Len(answers)) \in Nat
    <2>1. i - 1 \in Nat /\ \A j \in 1..(i - 1) : p[j] \in Nat
      BY <1>1
    <2>. QED
      BY <1>1, <2>1, SumType
  <1>8. 2 + Lllm!SumUpTo(p, i - 1) + k \in 1..(1 + Lllm!SumUpTo(p, Len(answers)))
    BY <1>2, <1>3, <1>4, <1>5, <1>6, <1>7
  <1>. QED
    BY <1>8 DEF p

\* What one more answer does to the answers, and to their sums.
Extends(longer, answers, answer) ==
    /\ Len(longer) = Len(answers) + 1 /\ DOMAIN longer = 1..(Len(answers) + 1)
    /\ longer[Len(answers) + 1] = answer
    /\ \A i \in 1..Len(answers) : longer[i] = answers[i]

LEMMA AppendedExtends ==
    ASSUME NEW answers, answers \in Seq({answers[i] : i \in DOMAIN answers}), NEW answer,
           NEW longer, longer = Append(answers, answer)
    PROVE  /\ Extends(longer, answers, answer)
           /\ longer \in Seq({longer[i] : i \in DOMAIN longer})
           /\ Len(answers) \in Nat /\ DOMAIN answers = 1..Len(answers)
  <1>. DEFINE A == {answers[i] : i \in DOMAIN answers}
  <1>1. answers \in Seq(A \cup {answer}) /\ answer \in A \cup {answer}
    OBVIOUS
  <1>. HIDE DEF A
  <1>2. Extends(longer, answers, answer) /\ Len(answers) \in Nat /\ DOMAIN answers = 1..Len(answers)
        /\ longer \in Seq(A \cup {answer})
    BY <1>1 DEF Extends
  <1>3. longer \in Seq({longer[i] : i \in DOMAIN longer})
    BY <1>2, SameListRange
  <1>. QED
    BY <1>2, <1>3

LEMMA FollowingExtended ==
    ASSUME NEW answers, NEW longer, NEW answer, Len(answers) \in Nat,
           DOMAIN answers = 1..Len(answers), Extends(longer, answers, answer),
           \A i \in DOMAIN answers : IsReply(answers[i]), IsReply(answer)
    PROVE  /\ Lllm!SumUpTo(Lllm!Following(longer), Len(longer))
                = Lllm!SumUpTo(Lllm!Following(answers), Len(answers)) + Lllm!Following(longer)[Len(longer)]
           /\ \A m \in 0..Len(answers) :
                Lllm!SumUpTo(Lllm!Following(longer), m) = Lllm!SumUpTo(Lllm!Following(answers), m)
           /\ Lllm!SumUpTo(Lllm!Following(answers), Len(answers)) \in Nat
  <1>. DEFINE p == Lllm!Following(answers)
              q == Lllm!Following(longer)
  <1>1. ASSUME NEW i \in 1..Len(answers) PROVE q[i] = p[i] /\ p[i] \in Nat
    <2>1. i \in DOMAIN longer /\ longer[i] = answers[i] /\ IsReply(answers[i])
      BY DEF Extends
    <2>2. Len(answers[i].calls) \in Nat
      BY <2>1 DEF IsReply
    <2>. QED
      BY <2>1, <2>2 DEF Lllm!Following
  <1>2. Len(longer) = Len(answers) + 1
    BY DEF Extends
  <1>. HIDE DEF p, q
  <1>3. /\ Lllm!SumUpTo(q, Len(answers) + 1) = Lllm!SumUpTo(p, Len(answers)) + q[Len(answers) + 1]
        /\ \A m \in 0..Len(answers) : Lllm!SumUpTo(q, m) = Lllm!SumUpTo(p, m)
        /\ Lllm!SumUpTo(p, Len(answers)) \in Nat
    <2>1. SameUpTo(p, q, Len(answers))
      BY <1>1 DEF SameUpTo
    <2>2. SumGoesUp(p, q, Len(answers))
      BY <2>1, SumOfAppended
    <2>. QED
      BY <2>2, Zenon DEF SumGoesUp
  <1>. QED
    BY <1>2, <1>3 DEF p, q

LEMMA TokensExtended ==
    ASSUME NEW answers, NEW longer, NEW answer, Len(answers) \in Nat,
           DOMAIN answers = 1..Len(answers), Extends(longer, answers, answer),
           \A i \in DOMAIN answers : IsReply(answers[i])
    PROVE  /\ Lllm!SumUpTo(Lllm!Tokens(longer), Len(longer))
                = Lllm!SumUpTo(Lllm!Tokens(answers), Len(answers))
                  + IF Lllm!Good(answer) THEN answer.usage ELSE 0
           /\ Lllm!SumUpTo(Lllm!Tokens(answers), Len(answers)) \in Nat
  <1>. DEFINE p == Lllm!Tokens(answers)
              q == Lllm!Tokens(longer)
  <1>1. ASSUME NEW i \in 1..Len(answers) PROVE q[i] = p[i] /\ p[i] \in Nat
    <2>1. i \in DOMAIN longer /\ longer[i] = answers[i] /\ IsReply(answers[i])
      BY DEF Extends
    <2>. QED
      BY <2>1 DEF Lllm!Tokens, IsReply
  <1>2. /\ Len(longer) = Len(answers) + 1
        /\ q[Len(answers) + 1] = IF Lllm!Good(answer) THEN answer.usage ELSE 0
    BY DEF Extends, Lllm!Tokens
  <1>. HIDE DEF p, q
  <1>3. /\ Lllm!SumUpTo(q, Len(answers) + 1) = Lllm!SumUpTo(p, Len(answers)) + q[Len(answers) + 1]
        /\ \A m \in 0..Len(answers) : Lllm!SumUpTo(q, m) = Lllm!SumUpTo(p, m)
        /\ Lllm!SumUpTo(p, Len(answers)) \in Nat
    <2>1. SameUpTo(p, q, Len(answers))
      BY <1>1 DEF SameUpTo
    <2>2. SumGoesUp(p, q, Len(answers))
      BY <2>1, SumOfAppended
    <2>. QED
      BY <2>2, Zenon DEF SumGoesUp
  <1>. QED
    BY <1>2, <1>3 DEF p, q

\* The usage of a report is the sum up to the limit, answer by answer.
LEMMA UsageAddsUp ==
    ASSUME NEW sum \in Nat, NEW usage \in Nat, MaxTokens \in Nat,
           NEW total, total = IF sum > MaxTokens THEN MaxTokens ELSE sum
    PROVE  Lllm!AddUsage(total, usage) = IF sum + usage > MaxTokens THEN MaxTokens ELSE sum + usage
  BY DEF Lllm!AddUsage

\* An answer without a call leaves the messages as they are.
LEMMA NothingFollows ==
    ASSUME NEW messages, NEW answers, NEW longer, NEW answer, Len(answers) \in Nat,
           DOMAIN answers = 1..Len(answers), Extends(longer, answers, answer),
           \A i \in DOMAIN answers : IsReply(answers[i]), IsReply(answer),
           Lllm!AnsweredInPlace(messages, answers),
           ~Lllm!Good(answer) \/ answer.calls = <<>>
    PROVE  Lllm!AnsweredInPlace(messages, longer)
  <1>1. Lllm!Following(longer)[Len(longer)] = 0
    BY DEF Lllm!Following, Extends
  <1>2. /\ Lllm!SumUpTo(Lllm!Following(longer), Len(longer)) = Lllm!SumUpTo(Lllm!Following(answers), Len(answers))
        /\ \A m \in 0..Len(answers) :
              Lllm!SumUpTo(Lllm!Following(longer), m) = Lllm!SumUpTo(Lllm!Following(answers), m)
    BY <1>1, FollowingExtended
  <1>3. ASSUME NEW i \in DOMAIN longer, Lllm!Good(longer[i]), NEW k \in DOMAIN longer[i].calls
        PROVE  Lllm!Answers(messages[2 + Lllm!SumUpTo(Lllm!Following(longer), i - 1) + k], longer[i].calls[k])
    <2>1. i \in 1..Len(answers) /\ longer[i] = answers[i]
      BY <1>3 DEF Extends
    <2>2. i - 1 \in 0..Len(answers) /\ i \in DOMAIN answers
      BY <2>1
    <2>. QED
      BY <1>2, <1>3, <2>1, <2>2 DEF Lllm!AnsweredInPlace
  <1>. QED
    BY <1>2, <1>3 DEF Lllm!AnsweredInPlace

\* The results of an answer's calls stand behind a copy of the calls.
LEMMA ResultsFollow ==
    ASSUME NEW messages, NEW answers, NEW longer, NEW answer, Len(answers) \in Nat,
           DOMAIN answers = 1..Len(answers), Extends(longer, answers, answer),
           \A i \in DOMAIN answers : IsReply(answers[i]), IsReply(answer),
           messages \in Seq({messages[i] : i \in DOMAIN messages}),
           Lllm!AnsweredInPlace(messages, answers),
           Lllm!Good(answer), answer.calls # <<>>,
           NEW more, IsBehind(more, messages, [calls |-> answer.calls], Lllm!Results(answer.calls))
    PROVE  /\ Lllm!AnsweredInPlace(more, longer)
           /\ more \in Seq({more[i] : i \in DOMAIN more}) /\ more # <<>>
  <1>. DEFINE results == Lllm!Results(answer.calls)
              heard == {messages[i] : i \in DOMAIN messages} \cup {[calls |-> answer.calls]}
                       \cup {results[i] : i \in DOMAIN results}
              c == Len(answer.calls)
              sum == Lllm!SumUpTo(Lllm!Following(answers), Len(answers))
  <1>1. c \in Nat /\ DOMAIN answer.calls = 1..c /\ c # 0
    BY DEF IsReply
  <1>2. results \in Seq(heard) /\ Len(results) = c
    <2>1. DOMAIN results = 1..c
      BY <1>1 DEF Lllm!Results
    <2>2. results = [i \in 1..c |-> results[i]]
      BY <1>1 DEF Lllm!Results
    <2>. HIDE DEF results
    <2>. QED
      BY <1>1, <2>1, <2>2
  <1>3. messages \in Seq(heard) /\ [calls |-> answer.calls] \in heard
    <2>. HIDE DEF results
    <2>. QED
      OBVIOUS
  <1>4. \A k \in 1..c : Lllm!Answers(results[k], answer.calls[k])
    BY <1>1 DEF Lllm!Results, Lllm!Answers
  <1>. HIDE DEF results, heard, c
  <1>5. /\ Len(more) = Len(messages) + 1 + c /\ more \in Seq(heard)
        /\ \A j \in 1..Len(messages) : more[j] = messages[j]
        /\ \A k \in 1..c : more[Len(messages) + 1 + k] = results[k]
        /\ Len(messages) \in Nat
        /\ more \in Seq({more[i] : i \in DOMAIN more})
    <2>1. IsBehind(more, messages, [calls |-> answer.calls], results)
      BY DEF results, IsBehind
    <2>. HIDE DEF results
    <2>2. InPlace(more, heard, messages, results)
      <3>. DEFINE copy == [calls |-> answer.calls]
      <3>1. copy \in heard /\ IsBehind(more, messages, copy, results)
        BY <1>3, <2>1
      <3>2. messages \in Seq(heard) /\ results \in Seq(heard)
        BY <1>2, <1>3
      <3>. HIDE DEF copy
      <3>. QED
        BY <3>1, <3>2, BehindOne
    <2>. QED
      BY <1>2, <2>2 DEF InPlace
  <1>6. Lllm!Following(longer)[Len(longer)] = 1 + c
    BY DEF Lllm!Following, Extends, c
  <1>7. /\ Lllm!SumUpTo(Lllm!Following(longer), Len(longer)) = sum + (1 + c)
        /\ \A m \in 0..Len(answers) :
              Lllm!SumUpTo(Lllm!Following(longer), m) = Lllm!SumUpTo(Lllm!Following(answers), m)
        /\ sum \in Nat
    BY <1>6, FollowingExtended
  <1>8. Len(messages) = 1 + sum
    BY DEF Lllm!AnsweredInPlace
  <1>. HIDE DEF sum
  <1>9. ASSUME NEW i \in DOMAIN longer, Lllm!Good(longer[i]), NEW k \in DOMAIN longer[i].calls
        PROVE  Lllm!Answers(more[2 + Lllm!SumUpTo(Lllm!Following(longer), i - 1) + k], longer[i].calls[k])
    <2>1. CASE i = Len(answers) + 1
      <3>1. longer[i] = answer /\ k \in 1..c /\ i - 1 = Len(answers)
        BY <1>1, <1>9, <2>1 DEF Extends
      <3>2. Lllm!SumUpTo(Lllm!Following(longer), i - 1) = sum
        BY <1>7, <3>1 DEF sum
      <3>3. 2 + sum + k = Len(messages) + 1 + k
        BY <1>1, <1>7, <1>8, <3>1
      <3>. QED
        BY <1>4, <1>5, <3>1, <3>2, <3>3
    <2>2. CASE i # Len(answers) + 1
      <3>1. i \in 1..Len(answers) /\ longer[i] = answers[i]
        BY <1>9, <2>2 DEF Extends
      <3>2. i - 1 \in 0..Len(answers) /\ i \in DOMAIN answers
        BY <3>1
      <3>. DEFINE place == 2 + Lllm!SumUpTo(Lllm!Following(answers), i - 1) + k
      <3>3. Lllm!Answers(messages[place], answers[i].calls[k])
        BY <1>9, <3>1, <3>2 DEF Lllm!AnsweredInPlace
      <3>4. place \in 1..Len(messages)
        BY <1>8, <3>1, <3>2, PlaceIsBefore, <1>9 DEF sum
      <3>5. 2 + Lllm!SumUpTo(Lllm!Following(longer), i - 1) + k = place
        BY <1>7, <3>2
      <3>. QED
        BY <1>5, <3>1, <3>3, <3>4, <3>5
    <2>. QED
      BY <2>1, <2>2
  <1>10. more # <<>>
    BY <1>1, <1>5
  <1>12. Len(more) = 1 + Lllm!SumUpTo(Lllm!Following(longer), Len(longer))
    BY <1>1, <1>5, <1>7, <1>8
  <1>. QED
    BY <1>5, <1>9, <1>10, <1>12 DEF Lllm!AnsweredInPlace

\* The parts of a verdict, but for the messages.
Verdict(p, tools) ==
    /\ Len(p.answers) <= Lllm!MaxToolTurns
    /\ p.outcome = "Passed" =>
          (\A i \in DOMAIN p.answers : Lllm!Good(p.answers[i])) /\ (tools => Lllm!Solved(p.answers))
    /\ p.outcome = "Incorrect" => tools /\ ~Lllm!Solved(p.answers)
    /\ p.outcome = "Failed" => ~Lllm!Good(p.answers[Len(p.answers)])
    /\ p.outcome = Lllm!None => Undecided(p, tools) /\ Counted(p)

UsageAdded(p) ==
    LET sum == Lllm!SumUpTo(Lllm!Tokens(p.answers), Len(p.answers))
    IN  p.usage = IF sum > MaxTokens THEN MaxTokens ELSE sum

\* The same, as the conversation's step cites it.
ResultsBehind(messages, answers, longer, answer, more) ==
    /\ Len(answers) \in Nat /\ DOMAIN answers = 1..Len(answers) /\ Extends(longer, answers, answer)
    /\ \A i \in DOMAIN answers : IsReply(answers[i])
    /\ IsReply(answer) /\ Lllm!Good(answer) /\ answer.calls # <<>>
    /\ messages \in Seq({messages[i] : i \in DOMAIN messages})
    /\ Lllm!AnsweredInPlace(messages, answers)
    /\ IsBehind(more, messages, [calls |-> answer.calls], Lllm!Results(answer.calls))
HeardInPlace(more, longer) ==
    /\ Lllm!AnsweredInPlace(more, longer)
    /\ more \in Seq({more[i] : i \in DOMAIN more}) /\ more # <<>>

LEMMA ResultsHeard ==
    ASSUME NEW messages, NEW answers, NEW longer, NEW answer, NEW more,
           ResultsBehind(messages, answers, longer, answer, more)
    PROVE  HeardInPlace(more, longer)
  <1>1. /\ Lllm!AnsweredInPlace(more, longer)
        /\ more \in Seq({more[i] : i \in DOMAIN more}) /\ more # <<>>
    BY ResultsFollow DEF ResultsBehind
  <1>. QED
    BY <1>1, Zenon DEF HeardInPlace

PlacesKept(p, tools) == tools /\ p.answers # <<>> => Lllm!AnsweredInPlace(p.messages, p.answers)

LEMMA HonestParts ==
    ASSUME NEW p, NEW tools
    PROVE  SoundProbe(p, tools) <=> IsProbe(p) /\ Verdict(p, tools) /\ UsageAdded(p) /\ PlacesKept(p, tools)
  BY DEF SoundProbe, Lllm!Honest, Verdict, UsageAdded, PlacesKept

WithAnswer(p, longer, added) ==
    [p EXCEPT !.answers = longer, !.usage = added]
      = [messages |-> p.messages, calls |-> p.calls, usage |-> added,
         answers |-> longer, outcome |-> p.outcome]

LEMMA AnswerAdded ==
    ASSUME NEW p, NEW longer, NEW added, HasFields(p)
    PROVE  WithAnswer(p, longer, added)
  <1>. DEFINE r == [p EXCEPT !.answers = longer]
  <1>1. r = [messages |-> p.messages, calls |-> p.calls, usage |-> p.usage,
             answers |-> longer, outcome |-> p.outcome]
    BY DEF HasFields
  <1>2. [p EXCEPT !.answers = longer, !.usage = added] = [r EXCEPT !.usage = added]
    BY Zenon
  <1>. HIDE DEF r
  <1>3. [r EXCEPT !.usage = added]
          = [messages |-> p.messages, calls |-> p.calls, usage |-> added,
             answers |-> longer, outcome |-> p.outcome]
    BY <1>1
  <1>. QED
    BY <1>2, <1>3, Zenon DEF WithAnswer

\* A turn: the answer is kept, its tokens are added, and the verdict is fair.
LEMMA TurnIsSound ==
    ASSUME NEW p, NEW answer \in ProbeAnswers, asked.tools \in BOOLEAN,
           SoundProbe(p, asked.tools), p.outcome = Lllm!None, Begun(p, asked.tools)
    PROVE  /\ SoundProbe(Lllm!Judged(p, answer), asked.tools)
           /\ Begun(Lllm!Judged(p, answer), asked.tools)
           /\ Lllm!Judged(p, answer).outcome \in {"Passed", "Failed", "Incorrect", Lllm!None}
  <1>. DEFINE tools == asked.tools
              q == Lllm!Judged(p, answer)
              longer == Append(p.answers, answer)
              n == Len(p.answers)
              added == Lllm!AddUsage(p.usage, answer.usage)
              more == Append(p.messages, [calls |-> answer.calls]) \o Lllm!Results(answer.calls)
              called == answer.calls # <<>>
  <1>1. /\ IsProbe(p) /\ Verdict(p, tools) /\ UsageAdded(p) /\ PlacesKept(p, tools)
        /\ Undecided(p, tools) /\ Counted(p)
    <2>1. IsProbe(p) /\ Verdict(p, tools) /\ UsageAdded(p) /\ PlacesKept(p, tools)
      BY HonestParts
    <2>. QED
      BY <2>1 DEF Verdict
  <1>2. IsReply(answer)
    BY ProbeAssumption DEF IsReply, Lllm!Good
  <1>3. /\ Extends(longer, p.answers, answer)
        /\ longer \in Seq({longer[i] : i \in DOMAIN longer})
        /\ n \in Nat /\ DOMAIN p.answers = 1..n
    BY <1>1, AppendedExtends DEF IsProbe
  <1>4. Len(answer.calls) \in Nat
    BY <1>2 DEF IsReply
  <1>5. q = [messages |-> IF Lllm!Good(answer) /\ tools /\ called THEN more ELSE p.messages,
             calls |-> IF Lllm!Good(answer) /\ tools /\ called THEN p.calls + Len(answer.calls) ELSE p.calls,
             usage |-> IF Lllm!Good(answer) THEN added ELSE p.usage,
             answers |-> longer,
             outcome |-> IF ~Lllm!Good(answer) THEN "Failed"
                         ELSE IF ~tools THEN "Passed"
                         ELSE IF ~called THEN IF p.calls > 0 /\ answer.total THEN "Passed" ELSE "Incorrect"
                         ELSE IF Len(longer) = Lllm!MaxToolTurns THEN "Incorrect" ELSE Lllm!None]
    <2>. DEFINE r == [messages |-> p.messages, calls |-> p.calls, usage |-> p.usage,
                      answers |-> p.answers, outcome |-> p.outcome]
    <2>1. p = r
      BY <1>1 DEF IsProbe, HasFields
    <2>2. CASE ~Lllm!Good(answer)
      <3>1. q = [p EXCEPT !.answers = longer, !.outcome = "Failed"]
        BY <2>2 DEF Lllm!Judged, Lllm!Good
      <3>. QED
        BY <2>1, <2>2, <3>1
    <2>3. CASE Lllm!Good(answer)
      <3>. DEFINE used == [p EXCEPT !.answers = longer, !.usage = added]
      <3>1. used = [messages |-> p.messages, calls |-> p.calls, usage |-> added,
                    answers |-> longer, outcome |-> p.outcome]
        <4>. HIDE DEF longer, added
        <4>1. WithAnswer(p, longer, added)
          BY <1>1, AnswerAdded DEF IsProbe
        <4>. QED
          BY <4>1 DEF WithAnswer
      <3>2. q = IF ~tools THEN [used EXCEPT !.outcome = "Passed"]
                ELSE IF ~called
                THEN [used EXCEPT !.outcome = IF p.calls > 0 /\ answer.total THEN "Passed" ELSE "Incorrect"]
                ELSE [used EXCEPT !.calls = used.calls + Len(answer.calls),
                                  !.messages = Append(@, [calls |-> answer.calls]) \o Lllm!Results(answer.calls),
                                  !.outcome = IF Len(used.answers) = Lllm!MaxToolTurns THEN "Incorrect"
                                              ELSE Lllm!None]
        BY <2>3 DEF Lllm!Judged, Lllm!Good
      <3>. HIDE DEF used, longer, added
      <3>. QED
        BY <2>3, <3>1, <3>2
    <2>. QED
      BY <2>2, <2>3
  <1>6. UsageAdded(q)
    <2>. DEFINE sum == Lllm!SumUpTo(Lllm!Tokens(p.answers), n)
                gained == IF Lllm!Good(answer) THEN answer.usage ELSE 0
    <2>1. \A i \in DOMAIN p.answers : IsReply(p.answers[i])
      BY <1>1 DEF IsProbe
    <2>2. Lllm!SumUpTo(Lllm!Tokens(longer), Len(longer)) = sum + gained /\ sum \in Nat
      <3>. HIDE DEF longer
      <3>. QED
        BY <1>3, <2>1, TokensExtended
    <2>3. p.usage = IF sum > MaxTokens THEN MaxTokens ELSE sum
      BY <1>1 DEF UsageAdded
    <2>4. Lllm!Good(answer) => answer.usage \in Nat
      BY <1>2 DEF IsReply
    <2>5. q.answers = longer /\ q.usage = IF Lllm!Good(answer) THEN added ELSE p.usage
      BY <1>5
    <2>. HIDE DEF sum, longer, q
    <2>6. Lllm!Good(answer) => added = IF sum + gained > MaxTokens THEN MaxTokens ELSE sum + gained
      BY <2>2, <2>3, <2>4, UsageAddsUp, ProbeAssumption
    <2>7. ~Lllm!Good(answer) => sum + gained = sum
      BY <2>2
    <2>8. q.usage = IF sum + gained > MaxTokens THEN MaxTokens ELSE sum + gained
      <3>. HIDE DEF gained, added
      <3>. QED
        BY <2>3, <2>5, <2>6, <2>7
    <2>. QED
      BY <2>2, <2>5, <2>8 DEF UsageAdded
  <1>7. PlacesKept(q, tools) /\ q.messages \in Seq({q.messages[i] : i \in DOMAIN q.messages})
        /\ q.messages # <<>> /\ (tools => Lllm!AnsweredInPlace(q.messages, longer))
    <2>1. tools => Lllm!AnsweredInPlace(p.messages, p.answers)
      <3>1. CASE p.answers = <<>>
        <4>1. Lllm!SumUpTo(Lllm!Following(p.answers), 0) = 0 /\ Len(p.answers) = 0 /\ DOMAIN p.answers = {}
          BY <3>1, SumStarts
        <4>2. Lllm!SumUpTo(Lllm!Following(p.answers), Len(p.answers)) = 0
          BY <4>1
        <4>3. Len(p.messages) = 1
          BY <3>1 DEF Begun
        <4>. QED
          BY <4>1, <4>2, <4>3 DEF Lllm!AnsweredInPlace
      <3>2. CASE p.answers # <<>>
        BY <1>1, <3>2 DEF PlacesKept
      <3>. QED
        BY <3>1, <3>2
    <2>2. /\ \A i \in DOMAIN p.answers : IsReply(p.answers[i])
          /\ p.messages \in Seq({p.messages[i] : i \in DOMAIN p.messages})
      BY <1>1 DEF IsProbe
    <2>3. q.answers = longer
          /\ q.messages = IF Lllm!Good(answer) /\ tools /\ called THEN more ELSE p.messages
      BY <1>5
    <2>4. IsBehind(more, p.messages, [calls |-> answer.calls], Lllm!Results(answer.calls))
      BY DEF IsBehind
    <2>. HIDE DEF longer, more, q
    <2>5. CASE ~tools
      BY <2>2, <2>3, <2>5 DEF PlacesKept, Begun
    <2>6. CASE tools /\ ~(Lllm!Good(answer) /\ called)
      <3>1. Lllm!AnsweredInPlace(p.messages, longer)
        BY <1>2, <1>3, <2>1, <2>2, <2>6, NothingFollows
      <3>. QED
        BY <2>2, <2>3, <2>6, <3>1 DEF PlacesKept, Begun
    <2>7. CASE tools /\ Lllm!Good(answer) /\ called
      <3>1. Lllm!AnsweredInPlace(more, longer) /\ more # <<>>
            /\ more \in Seq({more[i] : i \in DOMAIN more})
        <4>. DEFINE messages == p.messages
                    answers == p.answers
        <4>1. /\ Len(answers) \in Nat /\ DOMAIN answers = 1..Len(answers) /\ Extends(longer, answers, answer)
              /\ \A i \in DOMAIN answers : IsReply(answers[i])
              /\ messages \in Seq({messages[i] : i \in DOMAIN messages})
              /\ Lllm!AnsweredInPlace(messages, answers)
              /\ Lllm!Good(answer) /\ answer.calls # <<>>
              /\ IsBehind(more, messages, [calls |-> answer.calls], Lllm!Results(answer.calls))
          BY <1>3, <2>1, <2>2, <2>4, <2>7
        <4>. HIDE DEF messages, answers
        <4>2. ResultsBehind(messages, answers, longer, answer, more)
          BY <1>2, <4>1, Zenon DEF ResultsBehind
        <4>3. HeardInPlace(more, longer)
          BY <4>2, ResultsHeard, Zenon
        <4>. QED
          BY <4>3, Zenon DEF HeardInPlace
      <3>. QED
        BY <2>3, <2>7, <3>1 DEF PlacesKept
    <2>. QED
      BY <2>5, <2>6, <2>7
  <1>8. IsProbe(q)
    <2>1. added \in Nat \/ ~Lllm!Good(answer)
      BY <1>1, <1>2, ProbeAssumption DEF IsProbe, IsReply, Lllm!AddUsage
    <2>2. \A i \in DOMAIN longer : IsReply(longer[i])
      <3>1. \A i \in DOMAIN p.answers : IsReply(p.answers[i])
        BY <1>1 DEF IsProbe
      <3>. HIDE DEF longer
      <3>2. \A i \in DOMAIN longer : i \in 1..n \/ longer[i] = answer
        BY <1>3 DEF Extends
      <3>3. \A i \in 1..n : i \in DOMAIN p.answers /\ longer[i] = p.answers[i]
        BY <1>3 DEF Extends
      <3>. QED
        BY <1>2, <3>1, <3>2, <3>3, Zenon
    <2>3. p.calls \in Nat /\ p.usage \in Nat
      BY <1>1 DEF IsProbe
    <2>4. q.messages \in Seq({q.messages[i] : i \in DOMAIN q.messages})
      BY <1>7
    <2>5. /\ q = [messages |-> q.messages, calls |-> q.calls, usage |-> q.usage,
                  answers |-> q.answers, outcome |-> q.outcome]
          /\ q.calls \in Nat /\ q.usage \in Nat /\ q.answers = longer
      <3>. HIDE DEF q, longer, more, added, called
      <3>. QED
        BY <1>4, <1>5, <2>1, <2>3
    <2>6. HasFields(q)
      <3>. HIDE DEF q
      <3>. QED
        BY <2>5 DEF HasFields
    <2>. HIDE DEF q, longer
    <2>. QED
      BY <1>3, <2>2, <2>4, <2>5, <2>6 DEF IsProbe
  <1>9. Verdict(q, tools)
    <2>1. /\ Undecided(p, tools) /\ Counted(p) /\ p.calls \in Nat
      BY <1>1 DEF IsProbe
    <2>2. /\ q.answers = longer
          /\ q.calls = IF Lllm!Good(answer) /\ tools /\ called THEN p.calls + Len(answer.calls) ELSE p.calls
          /\ q.outcome = IF ~Lllm!Good(answer) THEN "Failed"
                         ELSE IF ~tools THEN "Passed"
                         ELSE IF ~called THEN IF p.calls > 0 /\ answer.total THEN "Passed" ELSE "Incorrect"
                         ELSE IF Len(longer) = Lllm!MaxToolTurns THEN "Incorrect" ELSE Lllm!None
      BY <1>5
    <2>3. /\ Len(longer) = n + 1 /\ DOMAIN longer = 1..(n + 1) /\ longer[n + 1] = answer
          /\ \A i \in 1..n : longer[i] = p.answers[i]
      BY <1>3 DEF Extends
    <2>4. called => Len(answer.calls) > 0
      BY <1>2 DEF IsReply
    <2>5. /\ "Failed" # Lllm!None /\ "Passed" # Lllm!None /\ "Incorrect" # Lllm!None
          /\ Lllm!MaxToolTurns = 5
      BY DEF Lllm!None, Lllm!MaxToolTurns
    <2>. HIDE DEF q, longer, called
    <2>6. Len(longer) <= Lllm!MaxToolTurns
      <3>1. ~tools => n = 0
        BY <2>1 DEF Undecided
      <3>2. tools => n < Lllm!MaxToolTurns
        BY <2>1 DEF Undecided
      <3>. QED
        BY <1>3, <2>3, <2>5, <3>1, <3>2
    <2>7. \A i \in 1..n : Lllm!Good(p.answers[i])
      BY <1>3, <2>1 DEF Undecided
    <2>8. p.calls > 0 <=> \E i \in 1..n : longer[i].calls # <<>>
      BY <1>3, <2>1, <2>3 DEF Counted
    <2>9. Lllm!Solved(longer) <=> (p.calls > 0 \/ called) /\ ~called /\ answer.total
      <3>1. (\E i \in DOMAIN longer : longer[i].calls # <<>>) <=> p.calls > 0 \/ answer.calls # <<>>
        <4>1. \A i \in DOMAIN longer : i \in 1..n \/ i = n + 1
          BY <1>3, <2>3
        <4>2. n + 1 \in DOMAIN longer /\ \A i \in 1..n : i \in DOMAIN longer
          BY <1>3, <2>3
        <4>. QED
          BY <2>3, <2>8, <4>1, <4>2, Zenon
      <3>. QED
        BY <2>3, <3>1, Zenon DEF Lllm!Solved, called
    <2>10. Lllm!Good(answer) => answer.total \in BOOLEAN
      BY <1>2 DEF IsReply
    <2>11. CASE ~Lllm!Good(answer)
      BY <1>3, <2>2, <2>3, <2>5, <2>6, <2>11 DEF Verdict
    <2>12. CASE Lllm!Good(answer) /\ ~tools
      <3>1. q.outcome = "Passed" /\ q.answers = longer
        BY <2>2, <2>12
      <3>2. \A i \in DOMAIN longer : Lllm!Good(longer[i])
        BY <1>3, <2>3, <2>7, <2>12
      <3>. QED
        BY <2>5, <2>6, <2>12, <3>1, <3>2 DEF Verdict
    <2>13. CASE Lllm!Good(answer) /\ tools /\ ~called
      <3>1. q.outcome = IF p.calls > 0 /\ answer.total THEN "Passed" ELSE "Incorrect"
        BY <2>2, <2>13
      <3>2. Lllm!Solved(longer) <=> p.calls > 0 /\ answer.total
        BY <2>9, <2>13
      <3>3. \A i \in DOMAIN longer : Lllm!Good(longer[i])
        BY <1>3, <2>3, <2>7, <2>13
      <3>4. (q.outcome = "Passed" => Lllm!Solved(longer)) /\ (q.outcome = "Incorrect" => ~Lllm!Solved(longer))
            /\ q.outcome # "Failed" /\ q.outcome # Lllm!None
        <4>1. CASE p.calls > 0 /\ answer.total
          BY <2>5, <3>1, <3>2, <4>1
        <4>2. CASE ~(p.calls > 0 /\ answer.total)
          BY <2>5, <3>1, <3>2, <4>2
        <4>. QED
          BY <4>1, <4>2
      <3>. QED
        BY <2>2, <2>6, <2>13, <3>3, <3>4 DEF Verdict
    <2>14. CASE Lllm!Good(answer) /\ tools /\ called
      <3>1. Len(longer) # Lllm!MaxToolTurns => Undecided(q, tools)
        <4>1. \A i \in 1..n : p.answers[i].calls # <<>>
          BY <1>3, <2>1, <2>14 DEF Undecided
        <4>. QED
          <5>1. \A i \in 1..(n + 1) : Lllm!Good(longer[i]) /\ longer[i].calls # <<>>
            <6>. TAKE i \in 1..(n + 1)
            <6>1. CASE i \in 1..n
              BY <2>3, <2>7, <4>1, <6>1
            <6>2. CASE i = n + 1
              BY <2>3, <2>14, <6>2 DEF called
            <6>. QED
              <7>1. n \in Nat => i \in 1..n \/ i = n + 1
                <8>. HIDE DEF n
                <8>. QED
                  OBVIOUS
              <7>. QED
                BY <1>3, <6>1, <6>2, <7>1
          <5>2. Len(longer) # Lllm!MaxToolTurns => Len(longer) < Lllm!MaxToolTurns
            BY <1>3, <2>3, <2>5, <2>6
          <5>. QED
            BY <2>2, <2>3, <2>14, <5>1, <5>2 DEF Undecided
      <3>2. Counted(q)
        <4>1. q.calls > 0
          BY <1>4, <2>1, <2>2, <2>4, <2>14
        <4>2. n + 1 \in DOMAIN q.answers /\ q.answers[n + 1].calls # <<>>
          BY <1>3, <2>2, <2>3, <2>14 DEF called
        <4>. QED
          BY <4>1, <4>2 DEF Counted
      <3>3. ~Lllm!Solved(longer)
        BY <2>9, <2>14
      <3>. QED
        BY <2>2, <2>5, <2>6, <2>14, <3>1, <3>2, <3>3 DEF Verdict
    <2>. QED
      BY <2>11, <2>12, <2>13, <2>14
  <1>10. Begun(q, tools)
    <2>1. q.answers = longer /\ longer # <<>>
      <3>1. q.answers = longer
        BY <1>5
      <3>2. Len(longer) = n + 1
        BY <1>3 DEF Extends
      <3>. QED
        BY <1>3, <3>1, <3>2
    <2>. HIDE DEF q, longer
    <2>. QED
      BY <1>7, <2>1 DEF Begun
  <1>11. SoundProbe(q, tools)
    <2>. HIDE DEF q
    <2>. QED
      BY <1>6, <1>7, <1>8, <1>9, HonestParts
  <1>12. q.outcome \in {"Passed", "Failed", "Incorrect", Lllm!None}
    BY <1>5
  <1>. QED
    BY <1>10, <1>11, <1>12

LEMMA ProbesBegin == MCInit => ProbeInv
  <1>. SUFFICES ASSUME MCInit PROVE ProbeInv
    OBVIOUS
  <1>1. asked \in Cases /\ probe = Lllm!NoProbe /\ stage # "Probing"
    BY ProbeAssumption DEF MCInit, NoProcess, Lllm!LineInit
  <1>2. asked.tools \in BOOLEAN
    BY <1>1, ProbeAssumption
  <1>3. Lllm!NoProbe = [Lllm!NoProbe EXCEPT !.messages = <<>>]
    BY DEF Lllm!NoProbe
  <1>4. <<>> \in Seq({<<>>[i] : i \in DOMAIN <<>>})
    OBVIOUS
  <1>5. SoundProbe([Lllm!NoProbe EXCEPT !.messages = <<>>], asked.tools)
    BY <1>2, <1>4, NewProbe
  <1>. QED
    BY <1>1, <1>3, <1>5 DEF ProbeInv

LEMMA ProbeStarts == ASSUME ProbeInv, Lllm!StartProbe PROVE ProbeInv'
  <1>1. asked' = asked
    BY DEF Lllm!StartProbe, Lllm!FailWith, Lllm!Exit
  <1>2. CASE asked.model = Lllm!Bad
    BY <1>1, <1>2 DEF Lllm!StartProbe, Lllm!FailWith, Lllm!Exit, ProbeInv
  <1>3. CASE asked.model # Lllm!Bad
    <2>. DEFINE messages == <<[prompt |-> asked.tools]>>
    <2>1. probe' = [Lllm!NoProbe EXCEPT !.messages = messages]
      BY <1>3 DEF Lllm!StartProbe
    <2>2. messages \in Seq({messages[i] : i \in DOMAIN messages}) /\ messages # <<>> /\ Len(messages) = 1
      OBVIOUS
    <2>3. asked.tools \in BOOLEAN
      BY ProbeAssumption DEF ProbeInv
    <2>. HIDE DEF messages
    <2>4. SoundProbe(probe', asked.tools)
      BY <2>1, <2>2, <2>3, NewProbe
    <2>5. probe'.outcome = Lllm!None /\ Begun(probe', asked.tools)
      BY <2>1, <2>2 DEF Lllm!NoProbe, Begun
    <2>6. SoundProbe(probe', asked'.tools) /\ Begun(probe', asked'.tools) /\ asked' \in Cases
      BY <1>1, <2>4, <2>5 DEF ProbeInv
    <2>. QED
      BY <2>5, <2>6 DEF ProbeInv, Lllm!None
  <1>. QED
    BY <1>2, <1>3

LEMMA ProbeGoesOn == ASSUME ProbeInv, Lllm!ProbeTurn PROVE ProbeInv'
  <1>1. PICK answer \in ProbeAnswers : probe' = Lllm!Judged(probe, answer)
    BY DEF Lllm!ProbeTurn
  <1>2. asked' = asked /\ stage = "Probing"
    BY DEF Lllm!ProbeTurn, Lllm!Answerable, Lllm!Finish, Lllm!FailWith, Lllm!Exit
  <1>3. stage' = "Probing" => probe'.outcome = Lllm!None
    BY DEF Lllm!ProbeTurn, Lllm!Finish, Lllm!FailWith, Lllm!Exit
  <1>4. asked.tools \in BOOLEAN
    BY ProbeAssumption DEF ProbeInv
  <1>5. SoundProbe(probe', asked.tools) /\ Begun(probe', asked.tools)
    BY <1>1, <1>2, <1>4, TurnIsSound DEF ProbeInv
  <1>6. SoundProbe(probe', asked'.tools) /\ Begun(probe', asked'.tools) /\ asked' \in Cases
    BY <1>2, <1>5 DEF ProbeInv
  <1>. QED
    BY <1>3, <1>6 DEF ProbeInv, Lllm!None

\* No other step looks at the probe, or begins to wait for one.
LEMMA OthersLeaveProbes ==
    ASSUME [MCNext]_middlewareVars, ~Lllm!StartProbe, ~Lllm!ProbeTurn
    PROVE  asked' = asked /\ probe' = probe /\ (stage' = "Probing" => stage = "Probing")
  <1>1. CASE LimiterStep \/ TokenStep \/ ObserverStep \/ UNCHANGED middlewareVars
    BY <1>1 DEF LimiterStep, TokenStep, ObserverStep, middlewareVars, processVars
  <1>2. CASE Lllm!Startup \/ Lllm!Describe \/ Lllm!StdinFails \/ Lllm!RegisterFails \/ Lllm!GiveUp
    BY <1>2 DEF Lllm!Startup, Lllm!Describe, Lllm!StdinFails, Lllm!RegisterFails, Lllm!GiveUp,
         Lllm!Finish, Lllm!FailWith, Lllm!Exit
  <1>3. CASE Lllm!StartPrompt \/ Lllm!ReadStdin
    <2>1. \A stdin : Lllm!Prompt(stdin) => asked' = asked /\ probe' = probe /\ stage' # "Probing"
      BY DEF Lllm!Prompt, Lllm!FailWith, Lllm!Exit
    <2>. QED
      BY <1>3, <2>1 DEF Lllm!StartPrompt, Lllm!ReadStdin
  <1>4. CASE Lllm!Register \/ Lllm!Signal \/ Lllm!TakeSignal \/ Lllm!Break
    BY <1>4 DEF Lllm!Register, Lllm!Signal, Lllm!TakeSignal, Lllm!Break
  <1>5. CASE Lllm!Complete \/ Lllm!Opened
    BY <1>5 DEF Lllm!Complete, Lllm!Opened, Lllm!Finish, Lllm!FailWith, Lllm!Exit
  <1>6. CASE Lllm!TextDelta \/ Lllm!Ended
    BY <1>6 DEF Lllm!TextDelta, Lllm!Ended, Lllm!FailWith, Lllm!Exit
  <1>7. CASE Lllm!StreamFails \/ Lllm!StreamOver
    BY <1>7 DEF Lllm!StreamFails, Lllm!StreamOver, Lllm!Finish, Lllm!FailWith, Lllm!Exit
  <1>8. CASE Lllm!Over
    BY <1>8 DEF Lllm!Over, Lllm!lineVars
  <1>. QED
    BY <1>1, <1>2, <1>3, <1>4, <1>5, <1>6, <1>7, <1>8 DEF MCNext, ProcessStep, Lllm!LineNext

LEMMA ProbesStay == ASSUME ProbeInv, [MCNext]_middlewareVars PROVE ProbeInv'
  <1>1. CASE ~Lllm!StartProbe /\ ~Lllm!ProbeTurn
    <2>1. asked' = asked /\ probe' = probe /\ (stage' = "Probing" => stage = "Probing")
      BY <1>1, OthersLeaveProbes
    <2>. QED
      BY <2>1 DEF ProbeInv, Lllm!None
  <1>. QED
    BY <1>1, ProbeStarts, ProbeGoesOn

\* A probe's report is honest, whatever the model answers: a tool probe passes
\* exactly when a call was made and the last answer has the total, every call
\* was answered in its place, and the tokens of all answers are counted
\* (Client::probe, client/probe.rs).
THEOREM ProbesAreHonest == MCSpec => []ProbeIsHonest
  <1>1. MCSpec => MCInit /\ [][MCNext]_middlewareVars
    BY DEF MCSpec
  <1>2. ProbeInv => ProbeIsHonest
    BY DEF ProbeInv, SoundProbe, ProbeIsHonest, Lllm!ProbeIsHonest
  <1>. QED
    BY <1>1, <1>2, ProbesBegin, ProbesStay, PTL

----------------------------------------------------------------------------
(* What lllm prints, and how it ends *)

\* Lists, joined (FlattenSeq).
IsJoined(f, n, lists) == f = [i \in 1..n |-> IF i = 1 THEN lists[i] ELSE f[i - 1] \o lists[i]]

LEMMA JoinedExist ==
    ASSUME NEW n \in Nat, NEW lists
    PROVE  \E f : IsJoined(f, n, lists)
  <1>. DEFINE Bad == {m \in Nat : ~ \E f : IsJoined(f, m, lists)}
  <1>. SUFFICES ASSUME Bad # {} PROVE FALSE
    BY Zenon
  <1>1. PICK m \in Bad : \A k \in Bad : m <= k
    BY LeastNumber
  <1>2. m # 0
    <2>1. IsJoined([i \in 1..0 |-> 0], 0, lists)
      BY DEF IsJoined
    <2>. QED
      BY <2>1
  <1>3. m - 1 \in Nat /\ m - 1 \notin Bad
    BY <1>1, <1>2
  <1>4. PICK g : IsJoined(g, m - 1, lists)
    BY <1>3
  <1>. DEFINE last == IF m = 1 THEN lists[m] ELSE g[m - 1] \o lists[m]
              f == [i \in 1..m |-> IF i # m THEN g[i] ELSE last]
              Rule(h) == [i \in 1..m |-> IF i = 1 THEN lists[i] ELSE h[i - 1] \o lists[i]]
  <1>5. ASSUME NEW i \in 1..m PROVE f[i] = Rule(f)[i]
    <2>1. CASE i = m
      <3>1. m # 1 => f[m - 1] = g[m - 1]
        BY <1>2
      <3>. QED
        BY <1>2, <2>1, <3>1
    <2>2. CASE i # m
      <3>1. i \in 1..(m - 1)
        BY <2>2
      <3>2. g[i] = IF i = 1 THEN lists[i] ELSE g[i - 1] \o lists[i]
        BY <1>4, <3>1 DEF IsJoined
      <3>3. i # 1 => i - 1 \in 1..m /\ i - 1 # m
        BY <2>2
      <3>. QED
        BY <2>2, <3>2, <3>3
    <2>. QED
      BY <2>1, <2>2
  <1>6. f = Rule(f)
    BY <1>5
  <1>7. IsJoined(f, m, lists)
    BY <1>6 DEF IsJoined
  <1>. QED
    BY <1>1, <1>7

LEMMA JoinedIs ==
    ASSUME NEW n \in Nat, n # 0, NEW lists, Len(lists) = n
    PROVE  \E f : IsJoined(f, n, lists) /\ Lllm!FlattenSeq(lists) = f[n]
  <1>. DEFINE g == CHOOSE f : IsJoined(f, n, lists)
  <1>1. IsJoined(g, n, lists)
    BY JoinedExist
  <1>2. Lllm!FlattenSeq(lists) = g[n]
    BY DEF Lllm!FlattenSeq, IsJoined
  <1>. QED
    BY <1>1, <1>2

LEMMA JoinedAgree ==
    ASSUME NEW n \in Nat, NEW m \in 1..n, NEW p, NEW q, NEW f, NEW g,
           IsJoined(f, m, p), IsJoined(g, n, q), \A i \in 1..m : p[i] = q[i]
    PROVE  f[m] = g[m]
  <1>. DEFINE Bad == {i \in 1..m : f[i] # g[i]}
  <1>. SUFFICES ASSUME Bad # {} PROVE FALSE
    <2>1. m \in 1..m
      OBVIOUS
    <2>. QED
      BY <2>1, Zenon
  <1>0. Bad \in SUBSET Nat
    OBVIOUS
  <1>1. PICK i \in Bad : \A k \in Bad : i <= k
    BY <1>0, LeastNumber
  <1>2. /\ f[i] = IF i = 1 THEN p[i] ELSE f[i - 1] \o p[i]
        /\ g[i] = IF i = 1 THEN q[i] ELSE g[i - 1] \o q[i]
    <2>1. i \in 1..n /\ i \in 1..m
      OBVIOUS
    <2>. QED
      BY <2>1 DEF IsJoined
  <1>3. i # 1
    BY <1>2
  <1>4. i - 1 \in 1..m /\ i - 1 \notin Bad /\ i \in 1..m
    BY <1>1, <1>3
  <1>5. f[i - 1] = g[i - 1]
    BY <1>4
  <1>. QED
    BY <1>1, <1>2, <1>3, <1>4, <1>5

\* A list that is added is joined to the others.
LEMMA FlattenAppended ==
    ASSUME NEW S, NEW lists \in Seq(S), NEW list \in S
    PROVE  Lllm!FlattenSeq(Append(lists, list)) =
              IF lists = <<>> THEN list ELSE Lllm!FlattenSeq(lists) \o list
  <1>. DEFINE n == Len(lists)
              more == Append(lists, list)
  <1>1. /\ n \in Nat /\ Len(more) = n + 1 /\ more[n + 1] = list
        /\ \A i \in 1..n : lists[i] = more[i]
    OBVIOUS
  <1>2. lists = <<>> <=> n = 0
    OBVIOUS
  <1>. HIDE DEF n, more
  <1>3. PICK g : IsJoined(g, n + 1, more) /\ Lllm!FlattenSeq(more) = g[n + 1]
    BY <1>1, JoinedIs
  <1>4. g[n + 1] = IF n = 0 THEN list ELSE g[n] \o list
    <2>1. n + 1 \in 1..(n + 1) /\ (n + 1) - 1 = n /\ (n + 1 = 1 <=> n = 0)
      BY <1>1
    <2>. QED
      BY <1>1, <1>3, <2>1 DEF IsJoined
  <1>5. ASSUME n # 0 PROVE g[n] = Lllm!FlattenSeq(lists)
    <2>1. PICK f : IsJoined(f, n, lists) /\ Lllm!FlattenSeq(lists) = f[n]
      BY <1>1, <1>5, JoinedIs DEF n
    <2>2. n \in 1..(n + 1) /\ n + 1 \in Nat
      BY <1>1, <1>5
    <2>3. f[n] = g[n]
      BY <1>1, <1>3, <2>1, <2>2, JoinedAgree
    <2>. QED
      BY <2>1, <2>3
  <1>. QED
    BY <1>2, <1>3, <1>4, <1>5 DEF more

LEMMA FlattenNothing == Lllm!FlattenSeq(<<>>) = <<>>
  BY DEF Lllm!FlattenSeq

LEMMA FlattenType ==
    ASSUME NEW T, NEW lists \in Seq(Seq(T))
    PROVE  Lllm!FlattenSeq(lists) \in Seq(T)
  <1>1. CASE lists = <<>>
    <2>1. <<>> \in Seq(T)
      OBVIOUS
    <2>. QED
      BY <1>1, <2>1, FlattenNothing, Zenon
  <1>2. CASE lists # <<>>
    <2>. DEFINE n == Len(lists)
    <2>1. n \in Nat /\ n # 0 /\ \A i \in 1..n : lists[i] \in Seq(T)
      BY <1>2
    <2>2. PICK f : IsJoined(f, n, lists) /\ Lllm!FlattenSeq(lists) = f[n]
      BY <2>1, JoinedIs
    <2>. HIDE DEF n
    <2>. DEFINE Bad == {i \in 1..n : f[i] \notin Seq(T)}
    <2>3. Bad = {}
      <3>. SUFFICES ASSUME Bad # {} PROVE FALSE
        OBVIOUS
      <3>1. Bad \in SUBSET Nat
        BY <2>1
      <3>2. PICK i \in Bad : \A k \in Bad : i <= k
        BY <3>1, LeastNumber
      <3>3. f[i] = IF i = 1 THEN lists[i] ELSE f[i - 1] \o lists[i]
        BY <2>2 DEF IsJoined
      <3>4. i # 1
        BY <2>1, <3>3
      <3>5. i - 1 \in 1..n /\ i - 1 \notin Bad
        BY <2>1, <3>2, <3>4
      <3>6. f[i - 1] \in Seq(T) /\ lists[i] \in Seq(T)
        BY <2>1, <3>5
      <3>7. f[i - 1] \o lists[i] \in Seq(T)
        BY <3>6, ConcatProperties
      <3>. QED
        BY <3>3, <3>4, <3>7
    <2>4. n \in 1..n
      BY <2>1
    <2>. QED
      BY <2>2, <2>3, <2>4
  <1>. QED
    BY <1>1, <1>2

\* Without the case of the first list.
LEMMA FlattenGrows ==
    ASSUME NEW T, NEW lists \in Seq(Seq(T)), NEW list \in Seq(T)
    PROVE  Lllm!FlattenSeq(Append(lists, list)) = Lllm!FlattenSeq(lists) \o list
  <1>1. Lllm!FlattenSeq(Append(lists, list)) = IF lists = <<>> THEN list ELSE Lllm!FlattenSeq(lists) \o list
    BY FlattenAppended
  <1>2. <<>> \o list = list
    OBVIOUS
  <1>. QED
    BY <1>1, <1>2, FlattenNothing

LEMMA SameCardinality == \A S : Lllm!Cardinality(S) = Cardinality(S)
  BY Zenon DEF Lllm!Cardinality, Cardinality

\* Every line of a text is a part of it.
LEMMA LinesAreLists ==
    ASSUME NEW T, NEW text \in Seq(T)
    PROVE  Lllm!Lines(text) \in Seq(Seq(T))
  <1>1. CASE text = <<>>
    BY <1>1 DEF Lllm!Lines
  <1>2. CASE text # <<>>
    <2>. DEFINE length == Len(text)
                last == Lllm!Newlines(text, length - 1) + 1
    <2>0. length \in Nat /\ length # 0 /\ DOMAIN text = 1..length /\ \A i \in 1..length : text[i] \in T
      BY <1>2
    <2>1. \A k : Lllm!EndOfLine(text, k) \in 0..length
      <3>. TAKE k
      <3>. DEFINE held == {i \in DOMAIN text : Lllm!Newlines(text, i - 1) < k}
      <3>1. held \in SUBSET (1..length)
        BY <2>0
      <3>. HIDE DEF held, length
      <3>2. IsFiniteSet(1..length) /\ Cardinality(1..length) = length
        BY <2>0, FS_Interval
      <3>3. IsFiniteSet(held) /\ Cardinality(held) <= length
        BY <3>1, <3>2, FS_Subset
      <3>4. Cardinality(held) \in Nat
        BY <3>3, FS_CardinalityType
      <3>5. Cardinality(held) \in 0..length
        BY <2>0, <3>3, <3>4
      <3>. QED
        BY <3>5, SameCardinality DEF Lllm!EndOfLine, held
    <2>2. last \in Nat
      <3>. DEFINE ends == {j \in 1..(length - 1) : text[j] = Lllm!Newline}
      <3>1. ends \in SUBSET (1..(length - 1))
        OBVIOUS
      <3>. HIDE DEF ends
      <3>2. IsFiniteSet(1..(length - 1))
        BY <2>0, FS_Interval
      <3>3. IsFiniteSet(ends)
        BY <3>1, <3>2, FS_Subset
      <3>4. Cardinality(ends) \in Nat
        BY <3>3, FS_CardinalityType
      <3>. QED
        BY <3>4, SameCardinality DEF Lllm!Newlines, ends
    <2>3. Lllm!Lines(text) = [k \in 1..last |->
              SubSeq(text, Lllm!EndOfLine(text, k - 1) + 1, Lllm!EndOfLine(text, k))]
      BY <1>2, Zenon DEF Lllm!Lines
    <2>. HIDE DEF length, last
    <2>4. \A k \in 1..last :
             SubSeq(text, Lllm!EndOfLine(text, k - 1) + 1, Lllm!EndOfLine(text, k)) \in Seq(T)
      <3>. TAKE k \in 1..last
      <3>. DEFINE a == Lllm!EndOfLine(text, k - 1) + 1
                  b == Lllm!EndOfLine(text, k)
      <3>1. a \in Int /\ b \in Int /\ 1 <= a /\ b <= length
        BY <2>0, <2>1
      <3>. HIDE DEF a, b
      <3>2. \A i \in a..b : text[i] \in T
        BY <2>0, <3>1
      <3>3. SubSeq(text, a, b) \in Seq(T)
        BY <3>1, <3>2, SubSeqProperties
      <3>. QED
        BY <3>3 DEF a, b
    <2>. DEFINE line(k) == SubSeq(text, Lllm!EndOfLine(text, k - 1) + 1, Lllm!EndOfLine(text, k))
    <2>5. \A k \in 1..last : line(k) \in Seq(T)
      BY <2>4
    <2>6. Lllm!Lines(text) = [k \in 1..last |-> line(k)]
      BY <2>3
    <2>. HIDE DEF line
    <2>7. [k \in 1..last |-> line(k)] \in Seq(Seq(T))
      BY <2>2, <2>5
    <2>. QED
      BY <2>6, <2>7
  <1>. QED
    BY <1>1, <1>2

\* The lines from one to another, joined.
Between(lines, i, j) == Lllm!FlattenSeq(SubSeq(lines, i, j))

LEMMA BetweenNothing == ASSUME NEW lines, NEW i \in Nat PROVE Between(lines, i + 1, i) = <<>>
  <1>1. SubSeq(lines, i + 1, i) = <<>>
    BY SubSeqEmpty
  <1>. QED
    BY <1>1, FlattenNothing DEF Between

LEMMA BetweenGrows ==
    ASSUME NEW T, NEW lines \in Seq(Seq(T)), NEW i \in 1..Len(lines), NEW j \in (i - 1)..(Len(lines) - 1)
    PROVE  /\ Between(lines, i, j) \in Seq(T)
           /\ Between(lines, i, j + 1) = Between(lines, i, j) \o lines[j + 1]
  <1>. DEFINE before == SubSeq(lines, i, j)
              after == SubSeq(lines, i, j + 1)
  <1>0. Len(lines) \in Nat /\ i \in Int /\ j \in Int /\ j + 1 \in Int /\ i <= j + 1
        /\ \A k \in i..(j + 1) : lines[k] \in Seq(T)
    OBVIOUS
  <1>1. before \in Seq(Seq(T)) /\ Len(before) = (j - i) + 1 /\ \A k \in 1..((j - i) + 1) : before[k] = lines[(i + k) - 1]
    BY <1>0, SubSeqProperties
  <1>2. after \in Seq(Seq(T)) /\ Len(after) = (j - i) + 2 /\ \A k \in 1..((j - i) + 2) : after[k] = lines[(i + k) - 1]
    BY <1>0, SubSeqProperties
  <1>3. lines[j + 1] \in Seq(T)
    BY <1>0
  <1>. HIDE DEF before, after
  <1>4. after = Append(before, lines[j + 1])
    <2>. DEFINE n == (j - i) + 1
                both == Append(before, lines[j + 1])
    <2>1. n \in Nat /\ Len(before) = n /\ Len(after) = n + 1 /\ (i + (n + 1)) - 1 = j + 1 /\ n + 1 \in 1..(n + 1)
      <3>1. n \in Nat /\ (j - i) + 2 = n + 1 /\ (i + (n + 1)) - 1 = j + 1
        BY <1>0
      <3>. QED
        BY <1>1, <1>2, <3>1
    <2>2. after[n + 1] = lines[j + 1]
      BY <1>2, <2>1
    <2>3. \A k \in 1..n : after[k] = before[k]
      <3>1. \A k \in 1..((j - i) + 1) : k \in 1..((j - i) + 2)
        BY <1>0
      <3>. QED
        BY <1>1, <1>2, <3>1
    <2>. HIDE DEF n
    <2>4. both \in Seq(Seq(T)) /\ Len(both) = n + 1 /\ both[n + 1] = lines[j + 1] /\ \A k \in 1..n : both[k] = before[k]
      <3>. DEFINE S == Seq(T)
                  line == lines[j + 1]
      <3>1. before \in Seq(S) /\ line \in S /\ Len(before) = n
        BY <1>1, <1>3, <2>1
      <3>. HIDE DEF S, line
      <3>2. /\ Append(before, line) \in Seq(S) /\ Len(Append(before, line)) = n + 1
            /\ Append(before, line)[n + 1] = line /\ \A k \in 1..n : Append(before, line)[k] = before[k]
        BY <3>1
      <3>. QED
        BY <3>2 DEF S, line
    <2>. HIDE DEF both
    <2>5. ASSUME NEW k \in 1..(n + 1) PROVE after[k] = both[k]
      <3>1. CASE k = n + 1
        BY <2>2, <2>4, <3>1
      <3>2. CASE k # n + 1
        <4>1. k \in 1..n
          BY <2>1, <3>2
        <4>. QED
          BY <2>3, <2>4, <4>1
      <3>. QED
        BY <3>1, <3>2
    <2>6. after = both
      BY <1>2, <2>1, <2>4, <2>5, SeqEqual
    <2>. QED
      BY <2>6 DEF both
  <1>5. Lllm!FlattenSeq(after) = Lllm!FlattenSeq(before) \o lines[j + 1] /\ Lllm!FlattenSeq(before) \in Seq(T)
    BY <1>1, <1>3, <1>4, FlattenGrows, FlattenType
  <1>. QED
    BY <1>5 DEF Between, before, after

\* The values of f are what fenced_blocks has read behind each line.
IsScan(f, m, lines) == f = [n \in 0..m |-> IF n = 0 THEN Lllm!NoScan ELSE Lllm!ReadLine(f[n - 1], lines[n])]

LEMMA ScansExist ==
    ASSUME NEW n \in Nat, NEW lines
    PROVE  \E f : IsScan(f, n, lines)
  <1>. DEFINE Bad == {m \in Nat : ~ \E f : IsScan(f, m, lines)}
  <1>. SUFFICES ASSUME Bad # {} PROVE FALSE
    BY Zenon
  <1>1. PICK m \in Bad : \A k \in Bad : m <= k
    BY LeastNumber
  <1>2. m # 0
    <2>1. IsScan([i \in 0..0 |-> Lllm!NoScan], 0, lines)
      BY DEF IsScan
    <2>. QED
      BY <2>1
  <1>3. m - 1 \in Nat /\ m - 1 \notin Bad
    BY <1>1, <1>2
  <1>4. PICK g : IsScan(g, m - 1, lines)
    BY <1>3
  <1>. DEFINE f == [i \in 0..m |-> IF i # m THEN g[i] ELSE Lllm!ReadLine(g[m - 1], lines[m])]
              Rule(h) == [i \in 0..m |-> IF i = 0 THEN Lllm!NoScan ELSE Lllm!ReadLine(h[i - 1], lines[i])]
  <1>5. ASSUME NEW i \in 0..m PROVE f[i] = Rule(f)[i]
    <2>1. CASE i = m
      <3>1. f[m - 1] = g[m - 1]
        BY <1>2
      <3>. QED
        BY <1>2, <2>1, <3>1
    <2>2. CASE i # m
      <3>1. i \in 0..(m - 1)
        BY <2>2
      <3>2. g[i] = IF i = 0 THEN Lllm!NoScan ELSE Lllm!ReadLine(g[i - 1], lines[i])
        BY <1>4, <3>1 DEF IsScan
      <3>3. i # 0 => i - 1 \in 0..m /\ i - 1 # m
        BY <2>2
      <3>. QED
        BY <2>2, <3>2, <3>3
    <2>. QED
      BY <2>1, <2>2
  <1>6. f = Rule(f)
    BY <1>5
  <1>7. IsScan(f, m, lines)
    BY <1>6 DEF IsScan
  <1>. QED
    BY <1>1, <1>7

\* Where a block begins and ends, behind line j.
Opens(lines, i) == Lllm!OpeningFence(lines[i])
Closes(lines, k, i) == Lllm!ClosingFence(lines[k], lines[i])
OpensFirst(lines, j, p) == Opens(lines, p) /\ \A i \in (j + 1)..(p - 1) : ~Opens(lines, i)
Unclosed(lines, p, n) == \A k \in (p + 1)..n : ~Closes(lines, k, p)

\* What fenced_blocks knows behind line n of the lines that follow line j.
NotOpen(scan, lines, j, n) == scan.opening = <<>> /\ \A i \in (j + 1)..n : ~Opens(lines, i)
OpenAt(scan, lines, j, n, p) ==
    /\ p \in (j + 1)..n /\ OpensFirst(lines, j, p) /\ Unclosed(lines, p, n)
    /\ scan.opening = lines[p] /\ scan.content = Between(lines, p + 1, n)
Reading(scan, lines, j, n) == NotOpen(scan, lines, j, n) \/ \E p : OpenAt(scan, lines, j, n, p)

ClosedBy(next, scan, lines, j, n, p) ==
    /\ p \in (j + 1)..n /\ OpensFirst(lines, j, p) /\ Unclosed(lines, p, n) /\ Closes(lines, n + 1, p)
    /\ next.opening = <<>> /\ next.blocks = Append(scan.blocks, Between(lines, p + 1, n))

LEMMA ReadingGoesOn ==
    ASSUME NEW T, NEW lines \in Seq(Seq(T)), NEW n \in 0..(Len(lines) - 1), NEW j \in 0..n,
           NEW scan, Reading(scan, lines, j, n), NEW next, next = Lllm!ReadLine(scan, lines[n + 1])
    PROVE  \/ next.blocks = scan.blocks /\ Reading(next, lines, j, n + 1)
           \/ \E p : ClosedBy(next, scan, lines, j, n, p)
  <1>1. CASE NotOpen(scan, lines, j, n)
    <2>1. scan.opening = <<>> /\ \A i \in (j + 1)..n : ~Opens(lines, i)
      BY <1>1 DEF NotOpen
    <2>3. CASE Opens(lines, n + 1)
      <3>1. n + 1 \in (j + 1)..(n + 1) /\ n + 1 \in Nat /\ \A i \in (j + 1)..((n + 1) - 1) : i \in (j + 1)..n
        OBVIOUS
      <3>2. OpensFirst(lines, j, n + 1)
        BY <2>1, <2>3, <3>1 DEF OpensFirst
      <3>3. Unclosed(lines, n + 1, n + 1)
        BY DEF Unclosed
      <3>4. Between(lines, (n + 1) + 1, n + 1) = <<>>
        BY <3>1, BetweenNothing
      <3>5. next.blocks = scan.blocks /\ next.opening = lines[n + 1] /\ next.content = <<>>
        BY <2>1, <2>3 DEF Lllm!ReadLine, Opens
      <3>6. OpenAt(next, lines, j, n + 1, n + 1)
        BY <3>1, <3>2, <3>3, <3>4, <3>5 DEF OpenAt
      <3>. QED
        BY <3>5, <3>6 DEF Reading
    <2>4. CASE ~Opens(lines, n + 1)
      <3>1. \A i \in (j + 1)..(n + 1) : i \in (j + 1)..n \/ i = n + 1
        OBVIOUS
      <3>2. next.blocks = scan.blocks /\ next.opening = <<>>
        BY <2>1, <2>4 DEF Lllm!ReadLine, Opens
      <3>3. NotOpen(next, lines, j, n + 1)
        BY <2>1, <2>4, <3>1, <3>2 DEF NotOpen
      <3>. QED
        BY <3>2, <3>3 DEF Reading
    <2>. QED
      BY <2>3, <2>4
  <1>2. ASSUME NEW p, OpenAt(scan, lines, j, n, p)
        PROVE  \/ next.blocks = scan.blocks /\ Reading(next, lines, j, n + 1)
               \/ ClosedBy(next, scan, lines, j, n, p)
    <2>1. /\ p \in (j + 1)..n /\ OpensFirst(lines, j, p) /\ Unclosed(lines, p, n)
          /\ scan.opening = lines[p] /\ scan.content = Between(lines, p + 1, n)
      BY <1>2 DEF OpenAt
    <2>2. scan.opening # <<>>
      BY <2>1 DEF OpensFirst, Opens, Lllm!OpeningFence
    <2>3. CASE Closes(lines, n + 1, p)
      <3>1. next.opening = <<>> /\ next.blocks = Append(scan.blocks, scan.content)
        BY <2>1, <2>2, <2>3 DEF Lllm!ReadLine, Closes
      <3>. QED
        BY <2>1, <2>3, <3>1 DEF ClosedBy
    <2>4. CASE ~Closes(lines, n + 1, p)
      <3>1. /\ next.opening = scan.opening /\ next.blocks = scan.blocks
            /\ next.content = scan.content \o lines[n + 1]
        BY <2>1, <2>2, <2>4 DEF Lllm!ReadLine, Closes
      <3>2. p + 1 \in 1..Len(lines) /\ n \in ((p + 1) - 1)..(Len(lines) - 1) /\ p \in (j + 1)..(n + 1)
        BY <2>1
      <3>3. Between(lines, p + 1, n + 1) = Between(lines, p + 1, n) \o lines[n + 1]
        BY <3>2, BetweenGrows
      <3>4. \A k \in (p + 1)..(n + 1) : k \in (p + 1)..n \/ k = n + 1
        BY <2>1
      <3>5. Unclosed(lines, p, n + 1)
        BY <2>1, <2>4, <3>4 DEF Unclosed
      <3>6. OpenAt(next, lines, j, n + 1, p)
        BY <2>1, <3>1, <3>2, <3>3, <3>5 DEF OpenAt
      <3>. QED
        BY <3>1, <3>6 DEF Reading
    <2>. QED
      BY <2>3, <2>4
  <1>. QED
    BY <1>1, <1>2 DEF Reading

\* What is known of the blocks that were read.
FirstBlockAt(lines, blocks, n, i, j) ==
    /\ i \in 1..(j - 1) /\ j \in 1..n /\ OpensFirst(lines, 0, i) /\ Unclosed(lines, i, j - 1)
    /\ Closes(lines, j, i) /\ Head(blocks) = Between(lines, i + 1, j - 1)
LastBlockAt(scan, lines, n, i, j) ==
    /\ i \in 1..(j - 1) /\ j \in 1..n /\ Opens(lines, i) /\ Closes(lines, j, i)
    /\ Lllm!Last(scan.blocks) = Between(lines, i + 1, j - 1) /\ Reading(scan, lines, j, n)
Blocks(scan, lines, n) ==
    \/ scan.blocks = <<>> /\ Reading(scan, lines, 0, n)
    \/ /\ scan.blocks # <<>>
       /\ \E i, j : FirstBlockAt(lines, scan.blocks, n, i, j)
       /\ \E i, j : LastBlockAt(scan, lines, n, i, j)

\* A list and one more.
LEMMA OneMore ==
    ASSUME NEW S, NEW list \in Seq(S), NEW x \in S, list # <<>>
    PROVE  /\ Append(list, x) \in Seq(S) /\ Append(list, x) # <<>>
           /\ Head(Append(list, x)) = Head(list) /\ Lllm!Last(Append(list, x)) = x
  <1>. DEFINE more == Append(list, x)
              n == Len(list)
  <1>1. more \in Seq(S) /\ Len(more) = n + 1 /\ n \in Nat /\ more[n + 1] = x
    OBVIOUS
  <1>2. 1 \in 1..n /\ \A c \in 1..n : more[c] = list[c]
    OBVIOUS
  <1>3. Head(list) = list[1]
    OBVIOUS
  <1>. HIDE DEF more, n
  <1>4. more # <<>> /\ Head(more) = more[1]
    BY <1>1
  <1>5. Lllm!Last(more) = x
    BY <1>1 DEF Lllm!Last
  <1>. QED
    BY <1>1, <1>2, <1>3, <1>4, <1>5 DEF more

LEMMA LineBehind ==
    ASSUME NEW len \in Nat, NEW n \in 0..(len - 1), NEW p \in 1..n
    PROVE  p + 1 \in 1..len /\ n \in ((p + 1) - 1)..(len - 1)
  OBVIOUS

LEMMA BlocksGoOn ==
    ASSUME NEW T, NEW lines \in Seq(Seq(T)), NEW n \in 0..(Len(lines) - 1), NEW scan,
           scan.blocks \in Seq(Seq(T)), Blocks(scan, lines, n), NEW next, next = Lllm!ReadLine(scan, lines[n + 1])
    PROVE  next.blocks \in Seq(Seq(T)) /\ Blocks(next, lines, n + 1)
  <1>0. n + 1 \in Nat /\ n \in Nat /\ 0 \in 0..n /\ (n + 1) - 1 = n /\ Len(lines) \in Nat
    OBVIOUS
  <1>1. CASE scan.blocks = <<>> /\ Reading(scan, lines, 0, n)
    <2>1. CASE next.blocks = scan.blocks /\ Reading(next, lines, 0, n + 1)
      BY <1>1, <2>1 DEF Blocks
    <2>2. ASSUME NEW p, ClosedBy(next, scan, lines, 0, n, p)
          PROVE  next.blocks \in Seq(Seq(T)) /\ Blocks(next, lines, n + 1)
      <3>. DEFINE block == Between(lines, p + 1, n)
      <3>1. /\ p \in 1..n /\ OpensFirst(lines, 0, p) /\ Unclosed(lines, p, n) /\ Closes(lines, n + 1, p)
            /\ next.opening = <<>> /\ next.blocks = Append(scan.blocks, block)
        BY <2>2 DEF ClosedBy
      <3>2. block \in Seq(T)
        <4>1. p + 1 \in 1..Len(lines) /\ n \in ((p + 1) - 1)..(Len(lines) - 1)
          BY <1>0, <3>1, LineBehind
        <4>. QED
          BY <4>1, BetweenGrows
      <3>. HIDE DEF block
      <3>3. next.blocks \in Seq(Seq(T)) /\ next.blocks # <<>> /\ Head(next.blocks) = block
            /\ Lllm!Last(next.blocks) = block
        BY <1>1, <3>1, <3>2 DEF Lllm!Last
      <3>4. Reading(next, lines, n + 1, n + 1)
        BY <1>0, <3>1 DEF NotOpen, Reading
      <3>5. FirstBlockAt(lines, next.blocks, n + 1, p, n + 1)
        BY <1>0, <3>1, <3>3 DEF FirstBlockAt, block
      <3>6. LastBlockAt(next, lines, n + 1, p, n + 1)
        BY <1>0, <3>1, <3>3, <3>4 DEF LastBlockAt, block, OpensFirst
      <3>. QED
        BY <3>3, <3>5, <3>6 DEF Blocks
    <2>. QED
      BY <1>0, <1>1, <2>1, <2>2, ReadingGoesOn
  <1>2. ASSUME scan.blocks # <<>>, NEW i, NEW j, FirstBlockAt(lines, scan.blocks, n, i, j),
               NEW k, NEW m, LastBlockAt(scan, lines, n, k, m)
        PROVE  next.blocks \in Seq(Seq(T)) /\ Blocks(next, lines, n + 1)
    <2>1. m \in 1..n /\ m \in 0..n /\ Reading(scan, lines, m, n)
      BY <1>2 DEF LastBlockAt
    <2>2. CASE next.blocks = scan.blocks /\ Reading(next, lines, m, n + 1)
      <3>1. FirstBlockAt(lines, next.blocks, n + 1, i, j)
        BY <1>2, <2>2 DEF FirstBlockAt
      <3>2. LastBlockAt(next, lines, n + 1, k, m)
        BY <1>2, <2>2 DEF LastBlockAt
      <3>. QED
        BY <1>2, <2>2, <3>1, <3>2 DEF Blocks
    <2>3. ASSUME NEW p, ClosedBy(next, scan, lines, m, n, p)
          PROVE  next.blocks \in Seq(Seq(T)) /\ Blocks(next, lines, n + 1)
      <3>. DEFINE block == Between(lines, p + 1, n)
      <3>1. /\ p \in (m + 1)..n /\ OpensFirst(lines, m, p) /\ Unclosed(lines, p, n) /\ Closes(lines, n + 1, p)
            /\ next.opening = <<>> /\ next.blocks = Append(scan.blocks, block)
        BY <2>3 DEF ClosedBy
      <3>2. p \in 1..n /\ block \in Seq(T)
        <4>1. p \in 1..n
          BY <2>1, <3>1
        <4>2. p + 1 \in 1..Len(lines) /\ n \in ((p + 1) - 1)..(Len(lines) - 1)
          BY <1>0, <4>1, LineBehind
        <4>. QED
          BY <4>1, <4>2, BetweenGrows
      <3>. HIDE DEF block
      <3>3. next.blocks \in Seq(Seq(T)) /\ next.blocks # <<>> /\ Head(next.blocks) = Head(scan.blocks)
            /\ Lllm!Last(next.blocks) = block
        <4>. DEFINE blocks == scan.blocks
                    S == Seq(T)
        <4>1. blocks \in Seq(S) /\ blocks # <<>> /\ block \in S
          BY <1>2, <3>2
        <4>. HIDE DEF blocks, S
        <4>2. /\ Append(blocks, block) \in Seq(S) /\ Append(blocks, block) # <<>>
              /\ Head(Append(blocks, block)) = Head(blocks) /\ Lllm!Last(Append(blocks, block)) = block
          BY <4>1, OneMore
        <4>. QED
          BY <3>1, <4>2 DEF blocks, S
      <3>4. Reading(next, lines, n + 1, n + 1)
        BY <1>0, <3>1 DEF NotOpen, Reading
      <3>5. FirstBlockAt(lines, next.blocks, n + 1, i, j)
        BY <1>2, <3>3 DEF FirstBlockAt
      <3>6. LastBlockAt(next, lines, n + 1, p, n + 1)
        BY <1>0, <3>1, <3>2, <3>3, <3>4 DEF LastBlockAt, block, OpensFirst
      <3>. QED
        BY <3>3, <3>5, <3>6 DEF Blocks
    <2>. QED
      BY <2>1, <2>2, <2>3, ReadingGoesOn
  <1>. QED
    BY <1>1, <1>2 DEF Blocks

\* What fenced_blocks returns.
LEMMA BlocksAreRead ==
    ASSUME NEW T, NEW text \in Seq(T)
    PROVE  \E scan : /\ scan.blocks = Lllm!FencedBlocks(text) /\ scan.blocks \in Seq(Seq(T))
                     /\ Blocks(scan, Lllm!Lines(text), Len(Lllm!Lines(text)))
  <1>. DEFINE lines == Lllm!Lines(text)
              n == Len(lines)
              f == CHOOSE g : IsScan(g, n, lines)
  <1>1. lines \in Seq(Seq(T))
    BY LinesAreLists
  <1>2. n \in Nat
    BY <1>1
  <1>3. IsScan(f, n, lines)
    BY <1>2, ScansExist
  <1>4. Lllm!FencedBlocks(text) = f[n].blocks
    BY DEF Lllm!FencedBlocks, IsScan
  <1>. HIDE DEF f, n, lines
  <1>5. \A i \in 0..n : f[i] = IF i = 0 THEN Lllm!NoScan ELSE Lllm!ReadLine(f[i - 1], lines[i])
    BY <1>3 DEF IsScan
  <1>. DEFINE Good(i) == f[i].blocks \in Seq(Seq(T)) /\ Blocks(f[i], lines, i)
              Bad == {i \in 0..n : ~Good(i)}
  <1>6. Good(0)
    <2>1. f[0] = Lllm!NoScan
      BY <1>2, <1>5
    <2>2. f[0].blocks = <<>> /\ f[0].opening = <<>>
      BY <2>1 DEF Lllm!NoScan
    <2>3. NotOpen(f[0], lines, 0, 0)
      BY <2>2 DEF NotOpen
    <2>. QED
      BY <2>2, <2>3 DEF Blocks, Reading
  <1>7. Bad = {}
    <2>. SUFFICES ASSUME Bad # {} PROVE FALSE
      OBVIOUS
    <2>0. Bad \in SUBSET Nat
      BY <1>2
    <2>. HIDE DEF Good
    <2>1. PICK i \in Bad : \A k \in Bad : i <= k
      BY <2>0, LeastNumber
    <2>2. i # 0
      BY <1>6
    <2>3. i - 1 \in 0..n /\ i - 1 \notin Bad /\ i - 1 \in 0..(Len(lines) - 1) /\ (i - 1) + 1 = i
      BY <1>2, <2>1, <2>2 DEF n
    <2>4. Good(i - 1)
      BY <2>3
    <2>5. f[i] = Lllm!ReadLine(f[i - 1], lines[(i - 1) + 1])
      BY <1>5, <2>1, <2>2, <2>3
    <2>6. Good((i - 1) + 1)
      BY <1>1, <2>3, <2>4, <2>5, BlocksGoOn DEF Good
    <2>. QED
      BY <2>3, <2>6
  <1>8. n \in 0..n
    BY <1>2
  <1>9. Good(n)
    BY <1>7, <1>8
  <1>. QED
    BY <1>4, <1>9 DEF n, lines

\* The reference, FirstBlock, on lines of which the fences are known.
LEMMA FirstBlockFound ==
    ASSUME NEW S, NEW lines \in Seq(S), NEW j \in DOMAIN lines, NEW i \in 1..(j - 1),
           OpensFirst(lines, 0, i), Unclosed(lines, i, j - 1), Closes(lines, j, i)
    PROVE  Lllm!FirstBlock(lines) = <<i, j>>
  <1>. DEFINE opens == {m \in DOMAIN lines : Lllm!OpeningFence(lines[m])}
              first == CHOOSE m \in opens : \A k \in opens : m <= k
              closes == {k \in DOMAIN lines : k > first /\ Lllm!ClosingFence(lines[k], lines[first])}
              closed == CHOOSE k \in closes : \A m \in closes : k <= m
  <1>0. DOMAIN lines = 1..Len(lines) /\ Len(lines) \in Nat /\ i \in DOMAIN lines /\ i < j
    OBVIOUS
  <1>1. i \in opens /\ \A k \in opens : i <= k
    BY <1>0 DEF OpensFirst, Opens
  <1>2. first = i
    <2>1. first \in opens /\ \A k \in opens : first <= k
      BY <1>1
    <2>. QED
      BY <1>0, <1>1, <2>1
  <1>. HIDE DEF opens, first
  <1>3. j \in closes /\ closes \subseteq 1..Len(lines) /\ \A k \in closes : j <= k
    <2>1. \A k \in DOMAIN lines : k > i /\ Lllm!ClosingFence(lines[k], lines[i]) => ~(k \in (i + 1)..(j - 1))
      BY DEF Unclosed, Closes
    <2>2. \A k \in DOMAIN lines : k > i /\ ~(k \in (i + 1)..(j - 1)) => j <= k
      BY <1>0
    <2>3. Lllm!ClosingFence(lines[j], lines[i]) /\ j > i
      BY <1>0 DEF Closes
    <2>. QED
      BY <1>0, <1>2, <2>1, <2>2, <2>3
  <1>. HIDE DEF closes
  <1>4. closed = j
    <2>1. closed \in closes /\ \A k \in closes : closed <= k
      BY <1>3
    <2>. HIDE DEF closed
    <2>. QED
      BY <1>0, <1>3, <2>1
  <1>5. Lllm!FirstBlock(lines) = IF opens = {} \/ closes = {} THEN <<0, 0>> ELSE <<first, closed>>
    BY DEF Lllm!FirstBlock, opens, first, closes
  <1>. QED
    BY <1>1, <1>2, <1>3, <1>4, <1>5

LEMMA NoFirstBlock ==
    ASSUME NEW S, NEW lines \in Seq(S),
           \/ \A i \in DOMAIN lines : ~Opens(lines, i)
           \/ \E p \in DOMAIN lines : OpensFirst(lines, 0, p) /\ Unclosed(lines, p, Len(lines))
    PROVE  Lllm!FirstBlock(lines) = <<0, 0>>
  <1>. DEFINE opens == {m \in DOMAIN lines : Lllm!OpeningFence(lines[m])}
              first == CHOOSE m \in opens : \A k \in opens : m <= k
              closes == {k \in DOMAIN lines : k > first /\ Lllm!ClosingFence(lines[k], lines[first])}
              closed == CHOOSE k \in closes : \A m \in closes : k <= m
  <1>0. DOMAIN lines = 1..Len(lines) /\ Len(lines) \in Nat
    OBVIOUS
  <1>1. Lllm!FirstBlock(lines) = IF opens = {} \/ closes = {} THEN <<0, 0>> ELSE <<first, closed>>
    BY DEF Lllm!FirstBlock
  <1>2. ASSUME NEW p \in DOMAIN lines, OpensFirst(lines, 0, p), Unclosed(lines, p, Len(lines))
        PROVE  closes = {}
    <2>1. p \in opens /\ \A k \in opens : p <= k
      BY <1>0, <1>2 DEF OpensFirst, Opens
    <2>2. first = p
      <3>1. first \in opens /\ \A k \in opens : first <= k
        BY <2>1
      <3>. QED
        BY <1>0, <2>1, <3>1
    <2>. HIDE DEF opens, first
    <2>3. \A k \in 1..Len(lines) : k > p => k \in (p + 1)..Len(lines)
      BY <1>0
    <2>. QED
      BY <1>0, <1>2, <2>2, <2>3 DEF Unclosed, Closes
  <1>3. CASE \A i \in DOMAIN lines : ~Opens(lines, i)
    <2>1. opens = {}
      BY <1>3 DEF Opens
    <2>. HIDE DEF opens, first, closes, closed
    <2>. QED
      BY <1>1, <2>1
  <1>4. CASE \E p \in DOMAIN lines : OpensFirst(lines, 0, p) /\ Unclosed(lines, p, Len(lines))
    <2>1. closes = {}
      BY <1>2, <1>4
    <2>. HIDE DEF opens, first, closes, closed
    <2>. QED
      BY <1>1, <2>1
  <1>. QED
    BY <1>3, <1>4

\* Behind the last block that was read there is no other.
LEMMA NoBlockBehind ==
    ASSUME NEW T, NEW lines \in Seq(Seq(T)), NEW j \in 0..Len(lines), NEW scan,
           Reading(scan, lines, j, Len(lines))
    PROVE  Lllm!FirstBlock(SubSeq(lines, j + 1, Len(lines))) = <<0, 0>>
  <1>. DEFINE n == Len(lines)
              rest == SubSeq(lines, j + 1, n)
              size == n - j
  <1>0. n \in Nat /\ size \in Nat /\ j \in 0..n /\ n = j + size /\ \A i \in (j + 1)..n : lines[i] \in Seq(T)
    OBVIOUS
  <1>1. rest \in Seq(Seq(T)) /\ Len(rest) = size /\ DOMAIN rest = 1..size /\ \A i \in 1..size : rest[i] = lines[j + i]
    <2>1. /\ rest \in Seq(Seq(T)) /\ Len(rest) = IF j + 1 <= n THEN (n - (j + 1)) + 1 ELSE 0
          /\ \A i \in 1..((n - (j + 1)) + 1) : rest[i] = lines[((j + 1) + i) - 1]
      BY <1>0, SubSeqProperties
    <2>2. (n - (j + 1)) + 1 = size /\ \A i \in 1..size : ((j + 1) + i) - 1 = j + i
      BY <1>0
    <2>3. (j + 1 <= n \/ size = 0) /\ (~(j + 1 <= n) => size = 0)
      <3>. HIDE DEF size, n
      <3>. QED
        BY <1>0
    <2>. HIDE DEF rest, size, n
    <2>4. Len(rest) = size
      BY <1>0, <2>1, <2>2, <2>3
    <2>5. DOMAIN rest = 1..size
      BY <2>1, <2>4
    <2>6. \A i \in 1..size : rest[i] = lines[j + i]
      BY <2>1, <2>2
    <2>. QED
      BY <2>1, <2>4, <2>5, <2>6
  <1>2. Reading(scan, lines, j, n)
    OBVIOUS
  <1>. HIDE DEF rest, size, n
  <1>3. CASE NotOpen(scan, lines, j, n)
    <2>1. \A i \in 1..size : j + i \in (j + 1)..n
      BY <1>0
    <2>2. \A i \in DOMAIN rest : ~Opens(rest, i)
      BY <1>1, <1>3, <2>1 DEF NotOpen, Opens
    <2>. QED
      BY <1>1, <2>2, NoFirstBlock DEF rest, n
  <1>4. ASSUME NEW p, OpenAt(scan, lines, j, n, p)
        PROVE  Lllm!FirstBlock(rest) = <<0, 0>>
    <2>. DEFINE q == p - j
    <2>1. p \in (j + 1)..n /\ q \in 1..size /\ j + q = p
      BY <1>0, <1>4 DEF OpenAt
    <2>. HIDE DEF q
    <2>2. ASSUME NEW i \in 1..(q - 1) PROVE i \in 1..size /\ j + i \in (j + 1)..(p - 1)
      <3>1. q \in 1..size /\ size \in Nat /\ j \in Nat /\ p = j + q
        BY <1>0, <2>1
      <3>. QED
        BY <3>1
    <2>3. OpensFirst(rest, 0, q)
      <3>1. OpensFirst(lines, j, p)
        BY <1>4 DEF OpenAt
      <3>2. Lllm!OpeningFence(rest[q])
        BY <1>1, <2>1, <3>1 DEF OpensFirst, Opens
      <3>3. \A i \in 1..(q - 1) : ~Lllm!OpeningFence(rest[i])
        BY <1>1, <2>2, <3>1 DEF OpensFirst, Opens
      <3>. QED
        BY <3>2, <3>3 DEF OpensFirst, Opens
    <2>4. ASSUME NEW k \in (q + 1)..size PROVE k \in 1..size /\ j + k \in (p + 1)..n
      <3>1. q \in 1..size /\ size \in Nat /\ j \in Nat /\ p = j + q /\ n = j + size
        BY <1>0, <2>1
      <3>. QED
        BY <3>1
    <2>5. Unclosed(rest, q, size)
      BY <1>1, <1>4, <2>1, <2>4 DEF OpenAt, Unclosed, Closes
    <2>. QED
      BY <1>1, <2>1, <2>3, <2>5, NoFirstBlock
  <1>. QED
    BY <1>2, <1>3, <1>4 DEF Reading, rest, n

\* What is extracted from a text is a part of it, and the part that was wanted.
LEMMA ExtractedIsWanted ==
    ASSUME NEW T, NEW text \in Seq(T), NEW output
    PROVE  /\ Lllm!Extract(output, text) \in Seq(T)
           /\ output # "json" => Lllm!Extract(output, text) \in Lllm!Wanted(output, text)
  <1>. DEFINE lines == Lllm!Lines(text)
              block == Lllm!FirstBlock(lines)
              wanted == Lllm!Wanted(output, text)
              found == Lllm!Extract(output, text)
              blocks == Lllm!FencedBlocks(text)
  <1>1. lines \in Seq(Seq(T)) /\ Len(lines) \in Nat /\ DOMAIN lines = 1..Len(lines)
    BY LinesAreLists
  <1>2. PICK scan : scan.blocks = blocks /\ scan.blocks \in Seq(Seq(T)) /\ Blocks(scan, lines, Len(lines))
    BY BlocksAreRead
  <1>3. found = CASE output = "extract" /\ blocks # <<>> -> Head(blocks)
                  [] output = "extract_last" /\ blocks # <<>> -> Lllm!Last(blocks)
                  [] OTHER -> text
    BY DEF Lllm!Extract
  <1>4. wanted = CASE output = "json" -> {<<"envelope">>}
                   [] output = "extract" /\ block # <<0, 0>> ->
                        {Between(lines, block[1] + 1, block[2] - 1)}
                   [] output = "extract_last" /\ block # <<0, 0>> ->
                        {b \in {Between(lines, i + 1, j - 1) : i, j \in DOMAIN lines} :
                           \E i, j \in DOMAIN lines :
                               /\ i < j /\ Lllm!OpeningFence(lines[i]) /\ Lllm!ClosingFence(lines[j], lines[i])
                               /\ b = Between(lines, i + 1, j - 1)
                               /\ Lllm!FirstBlock(SubSeq(lines, j + 1, Len(lines))) = <<0, 0>>}
                   [] OTHER -> {text}
    BY DEF Lllm!Wanted, Between
  <1>. HIDE DEF lines, block, wanted, found, blocks
  <1>5. CASE blocks = <<>>
    <2>1. found = text
      BY <1>3, <1>5
    <2>2. block = <<0, 0>>
      <3>1. Reading(scan, lines, 0, Len(lines)) /\ 0 \in 0..Len(lines)
        BY <1>1, <1>2, <1>5 DEF Blocks
      <3>2. Lllm!FirstBlock(SubSeq(lines, 0 + 1, Len(lines))) = <<0, 0>>
        BY <1>1, <3>1, NoBlockBehind
      <3>3. SubSeq(lines, 0 + 1, Len(lines)) = lines
        BY <1>1
      <3>. QED
        BY <3>2, <3>3 DEF block
    <2>3. output # "json" => wanted = {text}
      BY <1>4, <2>2
    <2>. QED
      BY <2>1, <2>3 DEF found, wanted
  <1>6. CASE blocks # <<>>
    <2>1. PICK i, j : FirstBlockAt(lines, blocks, Len(lines), i, j)
      BY <1>2, <1>6 DEF Blocks
    <2>2. PICK k, m : LastBlockAt(scan, lines, Len(lines), k, m)
      BY <1>2, <1>6 DEF Blocks
    <2>3. /\ i \in 1..(j - 1) /\ j \in DOMAIN lines /\ OpensFirst(lines, 0, i) /\ Unclosed(lines, i, j - 1)
          /\ Closes(lines, j, i) /\ Head(blocks) = Between(lines, i + 1, j - 1)
      BY <1>1, <2>1 DEF FirstBlockAt
    <2>4. /\ k \in 1..(m - 1) /\ m \in DOMAIN lines /\ Opens(lines, k) /\ Closes(lines, m, k)
          /\ Lllm!Last(blocks) = Between(lines, k + 1, m - 1) /\ Reading(scan, lines, m, Len(lines))
      BY <1>1, <1>2, <2>2 DEF LastBlockAt
    <2>5. block = <<i, j>>
      BY <1>1, <2>3, FirstBlockFound DEF block
    <2>6. block # <<0, 0>> /\ block[1] = i /\ block[2] = j
      BY <1>1, <2>3, <2>5
    <2>7. Head(blocks) \in Seq(T) /\ Lllm!Last(blocks) \in Seq(T)
      <3>. DEFINE S == Seq(T)
      <3>1. blocks \in Seq(S) /\ blocks # <<>>
        BY <1>2, <1>6
      <3>. HIDE DEF S
      <3>2. Head(blocks) \in S /\ blocks[Len(blocks)] \in S
        BY <3>1
      <3>. QED
        BY <3>2 DEF Lllm!Last, S
    <2>8. CASE output = "extract"
      BY <1>3, <1>4, <1>6, <2>3, <2>6, <2>7, <2>8 DEF found, wanted
    <2>9. CASE output = "extract_last"
      <3>1. m \in 0..Len(lines) /\ k \in DOMAIN lines /\ k < m
        BY <1>1, <2>4
      <3>2. Lllm!FirstBlock(SubSeq(lines, m + 1, Len(lines))) = <<0, 0>>
        BY <1>1, <2>4, <3>1, NoBlockBehind
      <3>3. found = Between(lines, k + 1, m - 1)
        BY <1>3, <1>6, <2>4, <2>9
      <3>4. wanted = {b \in {Between(lines, a + 1, e - 1) : a, e \in DOMAIN lines} :
                           \E a, e \in DOMAIN lines :
                               /\ a < e /\ Lllm!OpeningFence(lines[a]) /\ Lllm!ClosingFence(lines[e], lines[a])
                               /\ b = Between(lines, a + 1, e - 1)
                               /\ Lllm!FirstBlock(SubSeq(lines, e + 1, Len(lines))) = <<0, 0>>}
        BY <1>4, <2>6, <2>9
      <3>5. found \in wanted
        BY <2>4, <3>1, <3>2, <3>3, <3>4 DEF Opens, Closes
      <3>. QED
        BY <2>4, <2>7, <3>3, <3>5 DEF found, wanted
    <2>10. CASE output \notin {"extract", "extract_last"}
      BY <1>3, <1>4, <2>10 DEF found, wanted
    <2>. QED
      BY <2>8, <2>9, <2>10
  <1>. QED
    BY <1>5, <1>6

\* What a text is made of, and what the answer heard so far should print.
Symbols == UNION {{text[i] : i \in DOMAIN text} : text \in Texts}
Whole(output, heard) == {Lllm!FullLine(text) : text \in Lllm!Wanted(output, Lllm!FlattenSeq(heard))}

LEMMA TextsAreLists == \A text \in Texts : text \in Seq(Symbols)
  <1>. SUFFICES ASSUME NEW text \in Texts PROVE text \in Seq(Symbols)
    OBVIOUS
  <1>1. text \in Seq({text[i] : i \in DOMAIN text})
    BY TextsAssumption
  <1>2. {text[i] : i \in DOMAIN text} \subseteq Symbols
    BY DEF Symbols
  <1>. QED
    BY <1>1, <1>2

\* Nothing is the beginning of everything.
LEMMA NothingBegins ==
    ASSUME NEW T, NEW text \in Seq(T)
    PROVE  Lllm!IsPrefix(<<>>, text)
  <1>1. Len(<<>>) = 0 /\ Len(text) \in Nat
    OBVIOUS
  <1>2. SubSeq(<<>>, 1, 0) = SubSeq(text, 1, 0)
    BY SubSeqEmpty
  <1>. QED
    BY <1>1, <1>2 DEF Lllm!IsPrefix

\* A text is the beginning of itself with more behind it.
LEMMA BeginsLonger ==
    ASSUME NEW T, NEW s \in Seq(T), NEW t \in Seq(T), NEW all, IsJoin(all, s, t)
    PROVE  Lllm!IsPrefix(s, all)
  <1>. DEFINE n == Len(s)
  <1>1. /\ all \in Seq(T) /\ Len(all) = n + Len(t) /\ n \in Nat /\ Len(t) \in Nat
        /\ \A i \in 1..n : all[i] = s[i]
    <2>1. Len(s) \in Nat /\ Len(t) \in Nat
      OBVIOUS
    <2>2. \A i \in 1..Len(s) : i \in 1..(Len(s) + Len(t)) /\ i <= Len(s)
      BY <2>1
    <2>3. OneThenOther(all, T, s, t)
      BY JoinedLists, Zenon
    <2>. QED
      BY <2>1, <2>2, <2>3 DEF OneThenOther
  <1>2. \A i \in 1..n : s[i] \in T
    OBVIOUS
  <1>. HIDE DEF n
  <1>3. \A i \in 1..n : all[i] \in T
    BY <1>1, <1>2
  <1>4. /\ SubSeq(s, 1, n) \in Seq(T) /\ SubSeq(all, 1, n) \in Seq(T)
        /\ Len(SubSeq(s, 1, n)) = n /\ Len(SubSeq(all, 1, n)) = n
        /\ \A i \in 1..n : SubSeq(s, 1, n)[i] = s[i] /\ SubSeq(all, 1, n)[i] = all[i]
    BY <1>1, <1>2, <1>3 DEF n
  <1>5. SubSeq(s, 1, n) = SubSeq(all, 1, n)
    BY <1>1, <1>4, SeqEqual
  <1>. QED
    BY <1>1, <1>5 DEF Lllm!IsPrefix, n

\* A text with its line ended.
LEMMA FullLines ==
    ASSUME NEW T, NEW text \in Seq(T)
    PROVE  /\ Lllm!FullLine(text) \in Seq(T \cup {Lllm!Newline})
           /\ \E end \in Seq(T \cup {Lllm!Newline}) : IsJoin(Lllm!FullLine(text), text, end)
  <1>. DEFINE S == T \cup {Lllm!Newline}
              nl == Lllm!Newline
  <1>1. text \in Seq(S) /\ nl \in S
    OBVIOUS
  <1>2. Lllm!FullLine(text) = IF Lllm!EndsLine(text) THEN text ELSE Append(text, nl)
    BY DEF Lllm!FullLine
  <1>. HIDE DEF S, nl
  <1>3. text \o <<>> = text /\ <<>> \in Seq(S) /\ text \o <<nl>> = Append(text, nl) /\ <<nl>> \in Seq(S)
        /\ Append(text, nl) \in Seq(S)
    BY <1>1
  <1>. QED
    BY <1>1, <1>2, <1>3 DEF IsJoin, S

\* What is heard and then more.
LEMMA HeardBegins ==
    ASSUME NEW T, NEW s \in Seq(T), NEW t \in Seq(T)
    PROVE  Lllm!IsPrefix(s, Lllm!FullLine(s \o t))
  <1>. DEFINE S == T \cup {Lllm!Newline}
              both == s \o t
  <1>1. both \in Seq(T)
    BY ConcatProperties
  <1>2. PICK end \in Seq(S) : IsJoin(Lllm!FullLine(both), both, end)
    <2>. HIDE DEF both
    <2>. QED
      BY <1>1, FullLines
  <1>3. s \in Seq(S) /\ t \in Seq(S) /\ end \in Seq(S)
    <2>. HIDE DEF both
    <2>. QED
      OBVIOUS
  <1>. HIDE DEF S
  <1>4. t \o end \in Seq(S)
    BY <1>3, ConcatProperties
  <1>5. (s \o t) \o end = s \o (t \o end)
    BY <1>3, ConcatAssociative
  <1>6. IsJoin(Lllm!FullLine(both), s, t \o end)
    BY <1>2, <1>5 DEF IsJoin
  <1>. QED
    BY <1>3, <1>4, <1>6, BeginsLonger DEF both

\* Something is wanted of every answer.
LEMMA SomethingIsWanted ==
    ASSUME NEW T, NEW output, NEW heard \in Seq(Seq(T))
    PROVE  \E w \in Whole(output, heard) : Lllm!IsPrefix(<<>>, w)
  <1>. DEFINE text == Lllm!FlattenSeq(heard)
  <1>1. text \in Seq(T)
    BY FlattenType
  <1>. HIDE DEF text
  <1>2. \E w : \E S : w \in Seq(S) /\ w \in Lllm!Wanted(output, text)
    <2>1. CASE output = "json"
      <3>1. <<"envelope">> \in Seq({"envelope"}) /\ Lllm!Wanted(output, text) = {<<"envelope">>}
        BY <2>1 DEF Lllm!Wanted
      <3>. QED
        BY <3>1
    <2>2. CASE output # "json"
      <3>1. /\ Lllm!Extract(output, text) \in Seq(T)
            /\ Lllm!Extract(output, text) \in Lllm!Wanted(output, text)
        BY <1>1, <2>2, ExtractedIsWanted
      <3>. QED
        BY <3>1
    <2>. QED
      BY <2>1, <2>2
  <1>3. PICK w, S : w \in Seq(S) /\ w \in Lllm!Wanted(output, text)
    BY <1>2
  <1>4. Lllm!FullLine(w) \in Seq(S \cup {Lllm!Newline})
    BY <1>3, FullLines
  <1>5. Lllm!IsPrefix(<<>>, Lllm!FullLine(w))
    BY <1>4, NothingBegins
  <1>. QED
    BY <1>3, <1>5 DEF Whole, text

\* The line is as open behind a text as behind its last part.
LEMMA EndsAsItsEnd ==
    ASSUME NEW T, NEW s \in Seq(T), NEW t \in Seq(T), t # <<>>
    PROVE  Lllm!EndsLine(s \o t) = Lllm!EndsLine(t)
  <1>. DEFINE n == Len(s)
              m == Len(t)
              both == s \o t
  <1>1. n \in Nat /\ m \in Nat /\ m # 0
    OBVIOUS
  <1>2. Len(both) = n + m /\ n + m \in 1..(n + m) /\ ~(n + m <= n) /\ (n + m) - n = m
    BY <1>1, ConcatProperties
  <1>3. both[n + m] = t[m]
    BY <1>1, <1>2, ConcatProperties
  <1>4. both # <<>>
    BY <1>1, <1>2
  <1>. HIDE DEF both, n, m
  <1>5. Lllm!Last(both) = Lllm!Last(t)
    BY <1>2, <1>3 DEF Lllm!Last, m
  <1>. QED
    BY <1>4, <1>5 DEF Lllm!EndsLine, both

\* The process, step by step: before its answer it has printed nothing, and a
\* stream has printed what it heard.
Quiet == {"Startup", "Start", "Reading", "Opening", "Completing", "Probing"}
Silent == printed = <<>> /\ said = <<>> /\ ended = FALSE /\ deltas = [wrote |-> FALSE, line |-> FALSE]
Streamed ==
    /\ asked.output = "stream"
    /\ deltas.wrote =>
          /\ said # <<>> /\ printed = Lllm!FlattenSeq(said)
          /\ deltas.line = Lllm!EndsLine(Lllm!FlattenSeq(said))
    /\ ~deltas.wrote => printed = <<>> /\ deltas.line = FALSE /\ (said = <<>> \/ ended)

\* OutcomeIsShown of a process that is over.
Shown ==
    /\ status = "Success" /\ asked.command = "prompt" =>
          /\ request # {} /\ "diagnostic" \notin Lllm!Range(notes)
          /\ \/ ended /\ printed \in Whole(asked.output, said) /\ notes = Lllm!UsageNote
             \/ sink = "closed" /\ \E w \in Whole(asked.output, said) : Lllm!IsPrefix(printed, w)
    /\ stage = "Done" /\ status \notin {"Success", "Killed"} /\ asked.command # "probe" =>
          Lllm!Last(notes) = "diagnostic"
    /\ status = "Success" /\ asked.command = "probe" => probe.outcome = "Passed"
    /\ status = "Failure" /\ asked.command = "probe" =>
          probe.outcome \in {"Failed", "Incorrect"} \/ "diagnostic" \in Lllm!Range(notes)

ProcessInv ==
    /\ said \in Seq(Seq(Symbols)) /\ sink \in {"open", "closed", "failing"}
    /\ stage \in Quiet \cup {"Streaming", "Done"}
    /\ stage # "Done" => status = "none" /\ notes = <<>>
    /\ stage \in Quiet => Silent
    /\ stage \in {"Reading", "Opening", "Completing", "Streaming"} => asked.command = "prompt"
    /\ stage \in {"Opening", "Completing", "Streaming"} => request # {}
    /\ stage = "Opening" => asked.output = "stream"
    /\ stage = "Probing" => asked.command = "probe"
    /\ stage = "Streaming" => Streamed
    /\ Shown

LEMMA StreamWantsAll == \A heard : Whole("stream", heard) = {Lllm!FullLine(Lllm!FlattenSeq(heard))}
  <1>1. \A text : Lllm!Wanted("stream", text) = {text}
    BY DEF Lllm!Wanted
  <1>. QED
    BY <1>1 DEF Whole

LEMMA StreamPrints ==
    ASSUME ProcessInv, stage = "Streaming", deltas.wrote \/ ~ended
    PROVE  printed = Lllm!FlattenSeq(said) /\ printed \in Seq(Symbols)
  <1>1. printed = Lllm!FlattenSeq(said)
    BY FlattenNothing DEF ProcessInv, Streamed
  <1>2. Lllm!FlattenSeq(said) \in Seq(Symbols)
    BY FlattenType DEF ProcessInv
  <1>. QED
    BY <1>1, <1>2

\* At any time the output is a beginning of what is wanted.
LEMMA ProcessShows == ProcessInv => OutcomeIsShown
  <1>. SUFFICES ASSUME ProcessInv PROVE OutcomeIsShown
    OBVIOUS
  <1>1. ASSUME stage # "Done", asked.command = "prompt"
        PROVE  \E w \in Whole(asked.output, said) : Lllm!IsPrefix(printed, w)
    <2>1. said \in Seq(Seq(Symbols))
      BY DEF ProcessInv
    <2>2. CASE printed = <<>>
      BY <2>1, <2>2, SomethingIsWanted
    <2>3. CASE printed # <<>>
      <3>1. stage = "Streaming" /\ deltas.wrote /\ asked.output = "stream"
        BY <1>1, <2>3 DEF ProcessInv, Silent, Streamed
      <3>2. printed = Lllm!FlattenSeq(said) /\ printed \in Seq(Symbols)
        BY <3>1, StreamPrints
      <3>3. printed \o <<>> = printed /\ <<>> \in Seq(Symbols)
        BY <3>2
      <3>4. Lllm!IsPrefix(printed, Lllm!FullLine(printed \o <<>>))
        BY <3>2, <3>3, HeardBegins
      <3>5. Lllm!IsPrefix(printed, Lllm!FullLine(printed))
        BY <3>3, <3>4, Zenon
      <3>. QED
        BY <3>1, <3>2, <3>5, StreamWantsAll
    <2>. QED
      BY <2>2, <2>3
  <1>2. Shown
    BY DEF ProcessInv
  <1>. QED
    BY <1>1, <1>2, Zenon DEF OutcomeIsShown, Lllm!OutcomeIsShown, Shown, Whole, Lllm!Answer

LEMMA EndsBadly ==
    ASSUME ProcessInv, stage # "Done", NEW code \in {"Usage", "Interrupted", "Failure"}, NEW text,
           Lllm!Exit(code, text, <<"diagnostic">>), said' \in Seq(Seq(Symbols))
    PROVE  ProcessInv'
  <1>1. /\ stage' = "Done" /\ status' = code /\ asked' = asked /\ sink' = sink
        /\ notes' = notes \o <<"diagnostic">> /\ notes = <<>>
    BY DEF Lllm!Exit, ProcessInv
  <1>2. <<>> \o <<"diagnostic">> = <<"diagnostic">>
    OBVIOUS
  <1>3. notes' = <<"diagnostic">>
    BY <1>1, <1>2, Zenon
  <1>4. Lllm!Last(notes') = "diagnostic" /\ "diagnostic" \in Lllm!Range(notes')
    BY <1>3 DEF Lllm!Last, Lllm!Range
  <1>5. Shown'
    BY <1>1, <1>4 DEF Shown
  <1>. QED
    BY <1>1, <1>5 DEF ProcessInv, Quiet

LEMMA Fails ==
    ASSUME ProcessInv, stage # "Done", NEW kind, Lllm!FailWith(kind), said' \in Seq(Seq(Symbols))
    PROVE  ProcessInv'
  <1>1. Lllm!StatusFor(kind) \in {"Usage", "Interrupted", "Failure"}
    BY DEF Lllm!StatusFor
  <1>. QED
    BY <1>1, EndsBadly DEF Lllm!FailWith

LEMMA EndsWell ==
    ASSUME ProcessInv, stage # "Done", asked.command = "prompt", NEW text, NEW err,
           err \in {<<>>, Lllm!UsageNote}, Lllm!Exit("Success", text, err),
           request' # {}, said' \in Seq(Seq(Symbols)),
           \/ ended' /\ printed' \in Whole(asked.output, said') /\ err = Lllm!UsageNote
           \/ sink = "closed" /\ \E w \in Whole(asked.output, said') : Lllm!IsPrefix(printed', w)
    PROVE  ProcessInv'
  <1>1. /\ stage' = "Done" /\ status' = "Success" /\ asked' = asked /\ sink' = sink
        /\ notes' = notes \o err /\ notes = <<>>
    BY DEF Lllm!Exit, ProcessInv
  <1>2. err \in {<<>>, <<"usage">>}
    BY DEF Lllm!UsageNote
  <1>3. notes' = err
    <2>1. <<>> \o err = err
      BY <1>2
    <2>. QED
      BY <1>1, <2>1, Zenon
  <1>4. "diagnostic" \notin Lllm!Range(notes')
    BY <1>2, <1>3 DEF Lllm!Range
  <1>5. Lllm!UsageNote' = Lllm!UsageNote
    BY <1>1 DEF Lllm!UsageNote
  <1>6. Shown'
    BY <1>1, <1>3, <1>4, <1>5 DEF Shown
  <1>. QED
    BY <1>1, <1>6 DEF ProcessInv, Quiet

\* models, resolve and the help
LEMMA Describes ==
    ASSUME ProcessInv, stage # "Done", asked.command \notin {"prompt", "probe"}, NEW text,
           Lllm!Exit("Success", text, <<>>), said' = said
    PROVE  ProcessInv'
  <1>1. stage' = "Done" /\ status' = "Success" /\ asked' = asked /\ sink' = sink
    BY DEF Lllm!Exit
  <1>2. Shown'
    BY <1>1 DEF Shown
  <1>. QED
    BY <1>1, <1>2 DEF ProcessInv, Quiet

LEMMA Reports ==
    ASSUME ProcessInv, stage = "Probing", said' = said, NEW text, NEW code, Lllm!Exit(code, text, <<>>),
           \/ code = "Success" /\ probe'.outcome = "Passed"
           \/ code = "Failure" /\ probe'.outcome \in {"Failed", "Incorrect"}
    PROVE  ProcessInv'
  <1>1. stage' = "Done" /\ status' = code /\ asked' = asked /\ sink' = sink /\ asked.command = "probe"
    BY DEF Lllm!Exit, ProcessInv
  <1>2. Shown'
    BY <1>1 DEF Shown
  <1>. QED
    BY <1>1, <1>2 DEF ProcessInv, Quiet

----------------------------------------------------------------------------
(* Every step of the process *)

LEMMA Finishes ==
    ASSUME ProcessInv, stage # "Done", asked.command = "prompt", NEW text, NEW T, text \in Seq(T),
           Lllm!Finish(text, "Success", Lllm!UsageNote), printed = <<>>, ended',
           request' = request, request # {}, said' \in Seq(Seq(Symbols)),
           Lllm!FullLine(text) \in Whole(asked.output, said')
    PROVE  ProcessInv'
  <1>1. CASE sink = "failing"
    BY <1>1, Fails DEF Lllm!Finish
  <1>2. CASE sink # "failing"
    <2>. DEFINE full == Lllm!FullLine(text)
    <2>1. full \in Seq(T \cup {Lllm!Newline})
      BY FullLines
    <2>2. full \in Whole(asked.output, said')
      OBVIOUS
    <2>. HIDE DEF full
    <2>3. Lllm!Exit("Success", full, Lllm!UsageNote)
      BY <1>2 DEF Lllm!Finish, full
    <2>4. <<>> \o full = full
      BY <2>1
    <2>5. CASE sink = "open"
      <3>1. printed' = <<>> \o full
        BY <2>3, <2>5 DEF Lllm!Exit
      <3>2. printed' = full
        BY <2>4, <3>1, Zenon
      <3>. QED
        BY <2>2, <2>3, <3>2, EndsWell
    <2>6. CASE sink # "open"
      <3>1. sink = "closed"
        BY <1>2, <2>6 DEF ProcessInv
      <3>2. printed' = <<>>
        BY <2>3, <2>6 DEF Lllm!Exit
      <3>3. \E w \in Whole(asked.output, said') : Lllm!IsPrefix(printed', w)
        BY <3>2, SomethingIsWanted, Zenon
      <3>. QED
        BY <2>3, <3>1, <3>3, EndsWell
    <2>. QED
      BY <2>5, <2>6
  <1>. QED
    BY <1>1, <1>2

LEMMA PromptBegins ==
    ASSUME ProcessInv, stage \in {"Start", "Reading"}, asked.command = "prompt", NEW stdin, Lllm!Prompt(stdin)
    PROVE  ProcessInv'
  <1>1. said' = said /\ said \in Seq(Seq(Symbols))
    BY DEF Lllm!Prompt, ProcessInv
  <1>2. CASE Lllm!FailWith("Input")
    BY <1>1, <1>2, Fails
  <1>3. CASE ~Lllm!FailWith("Input")
    <2>. DEFINE built == Lllm!BuildRequest(asked.line, asked.flags, asked.terminal, stdin, "provider")
    <2>1. /\ stage' = IF asked.output = "stream" THEN "Opening" ELSE "Completing"
          /\ request' = {built}
          /\ UNCHANGED <<asked, handler, interrupt, sink, printed, notes, status, said, ended, deltas, probe>>
      BY <1>3 DEF Lllm!Prompt
    <2>. HIDE DEF built
    <2>2. stage' # "Done" /\ status' = "none" /\ request' # {}
      BY <2>1 DEF ProcessInv
    <2>3. Shown'
      BY <2>2 DEF Shown
    <2>. QED
      BY <1>1, <2>1, <2>2, <2>3 DEF ProcessInv, Quiet, Silent
  <1>. QED
    BY <1>2, <1>3

LEMMA CompleteShows == ASSUME ProcessInv, Lllm!Complete PROVE ProcessInv'
  <1>1. /\ stage = "Completing" /\ asked.command = "prompt" /\ request # {} /\ request' = request
        /\ printed = <<>> /\ said \in Seq(Seq(Symbols))
    BY DEF Lllm!Complete, Lllm!Answerable, ProcessInv, Quiet, Silent
  <1>2. ASSUME NEW kind \in Lllm!Kinds, Lllm!FailWith(kind), said' = said
        PROVE  ProcessInv'
    BY <1>1, <1>2, Fails
  <1>3. ASSUME NEW texts \in Lllm!SeqOf(Texts, MaxDeltas), said' = texts, ended' = TRUE,
               Lllm!Finish(Lllm!Buffered(Lllm!FlattenSeq(texts)), "Success", Lllm!UsageNote)
        PROVE  ProcessInv'
    <2>1. texts \in Seq(Seq(Symbols))
      <3>1. PICK m \in 0..MaxDeltas : texts \in [1..m -> Texts]
        BY <1>3 DEF Lllm!SeqOf
      <3>2. m \in Nat
        OBVIOUS
      <3>. DEFINE S == Seq(Symbols)
      <3>3. \A i \in 1..m : texts[i] \in S
        BY <3>1, TextsAreLists
      <3>. HIDE DEF S
      <3>4. texts \in Seq(S)
        BY <3>1, <3>2, <3>3
      <3>. QED
        BY <3>4 DEF S
    <2>. DEFINE answer == Lllm!FlattenSeq(texts)
                text == Lllm!Buffered(answer)
    <2>2. answer \in Seq(Symbols)
      BY <2>1, FlattenType
    <2>. HIDE DEF answer
    <2>3. (\E T : text \in Seq(T)) /\ text \in Lllm!Wanted(asked.output, answer)
      <3>1. CASE asked.output = "json"
        <4>1. text = <<"envelope">> /\ Lllm!Wanted(asked.output, answer) = {<<"envelope">>}
          BY <3>1 DEF Lllm!Buffered, Lllm!Wanted
        <4>2. <<"envelope">> \in Seq({"envelope"})
          OBVIOUS
        <4>. QED
          BY <4>1, <4>2
      <3>2. CASE asked.output # "json"
        <4>1. text = Lllm!Extract(asked.output, answer)
          BY <3>2 DEF Lllm!Buffered
        <4>. QED
          BY <2>2, <3>2, <4>1, ExtractedIsWanted
      <3>. QED
        BY <3>1, <3>2
    <2>. HIDE DEF text
    <2>4. PICK T : text \in Seq(T)
      BY <2>3
    <2>5. Lllm!FullLine(text) \in Whole(asked.output, said')
      BY <1>3, <2>3 DEF Whole, answer
    <2>6. Lllm!Finish(text, "Success", Lllm!UsageNote)
      BY <1>3 DEF text, answer
    <2>7. ended' /\ said' \in Seq(Seq(Symbols)) /\ stage # "Done"
      BY <1>1, <1>3, <2>1
    <2>. QED
      BY <1>1, <2>4, <2>5, <2>6, <2>7, Finishes
  <1>. QED
    BY <1>2, <1>3 DEF Lllm!Complete

LEMMA DeltaShows == ASSUME ProcessInv, Lllm!TextDelta PROVE ProcessInv'
  <1>. DEFINE heard == Lllm!FlattenSeq(said)
  <1>1. PICK text \in Texts :
          /\ said' = Append(said, text)
          /\ deltas' = [wrote |-> TRUE, line |-> IF text = <<>> THEN deltas.line ELSE Lllm!EndsLine(text)]
          /\ CASE sink = "closed" -> Lllm!Exit("Success", <<>>, <<>>)
               [] sink = "failing" -> Lllm!FailWith("Output")
               [] OTHER -> /\ printed' = printed \o text
                           /\ UNCHANGED <<asked, stage, handler, interrupt, sink, notes, status>>
    BY Zenon DEF Lllm!TextDelta
  <1>2. /\ stage = "Streaming" /\ ~ended /\ request' = request /\ request # {} /\ ended' = ended
        /\ asked.command = "prompt" /\ asked.output = "stream" /\ said \in Seq(Seq(Symbols)) /\ Streamed
    BY DEF Lllm!TextDelta, Lllm!Answerable, ProcessInv, Streamed
  <1>3. text \in Seq(Symbols)
    BY TextsAreLists
  <1>4. heard \in Seq(Symbols)
    BY <1>2, FlattenType
  <1>5. Lllm!FlattenSeq(said') = heard \o text
    BY <1>1, <1>2, <1>3, FlattenGrows
  <1>6. said' \in Seq(Seq(Symbols)) /\ said' # <<>>
    <2>. DEFINE S == Seq(Symbols)
    <2>1. said \in Seq(S) /\ text \in S
      BY <1>2, <1>3
    <2>. HIDE DEF S
    <2>2. Append(said, text) \in Seq(S) /\ Append(said, text) # <<>>
      BY <2>1, AppendProperties
    <2>. QED
      BY <1>1, <2>2 DEF S
  <1>7. printed = heard
    BY <1>2, StreamPrints
  <1>. HIDE DEF heard
  <1>8. CASE sink = "closed"
    <2>1. Lllm!Exit("Success", <<>>, <<>>)
      BY <1>1, <1>8
    <2>2. printed' = heard
      BY <1>7, <1>8, <2>1 DEF Lllm!Exit
    <2>3. Lllm!IsPrefix(heard, Lllm!FullLine(heard \o text))
      BY <1>3, <1>4, HeardBegins
    <2>4. \E w \in Whole(asked.output, said') : Lllm!IsPrefix(printed', w)
      BY <1>2, <1>5, <2>2, <2>3, StreamWantsAll
    <2>. QED
      BY <1>2, <1>6, <1>8, <2>1, <2>4, EndsWell
  <1>9. CASE sink = "failing"
    <2>1. Lllm!FailWith("Output")
      BY <1>1, <1>9
    <2>. QED
      BY <1>2, <1>6, <2>1, Fails
  <1>10. CASE sink = "open"
    <2>1. printed' = printed \o text /\ UNCHANGED <<asked, stage, handler, interrupt, sink, notes, status>>
      BY <1>1, <1>10
    <2>2. printed' = Lllm!FlattenSeq(said')
      BY <1>5, <1>7, <2>1
    <2>3. deltas'.wrote = TRUE /\ deltas'.line = IF text = <<>> THEN deltas.line ELSE Lllm!EndsLine(text)
      BY <1>1
    <2>4. deltas.line = Lllm!EndsLine(heard)
      <3>1. CASE deltas.wrote
        BY <1>2, <3>1 DEF Streamed, heard
      <3>2. CASE ~deltas.wrote
        <4>1. heard = <<>> /\ deltas.line = FALSE
          BY <1>2, <3>2, FlattenNothing DEF Streamed, heard
        <4>2. Lllm!EndsLine(<<>>) = FALSE
          BY DEF Lllm!EndsLine
        <4>. QED
          BY <4>1, <4>2
      <3>. QED
        BY <3>1, <3>2
    <2>5. deltas'.line = Lllm!EndsLine(heard \o text)
      <3>1. CASE text = <<>>
        <4>1. heard \o <<>> = heard
          BY <1>4
        <4>. QED
          BY <2>3, <2>4, <3>1, <4>1
      <3>2. CASE text # <<>>
        BY <1>3, <1>4, <2>3, <3>2, EndsAsItsEnd
      <3>. QED
        BY <3>1, <3>2
    <2>6. deltas'.line = Lllm!EndsLine(Lllm!FlattenSeq(said'))
      BY <1>5, <2>5
    <2>7. Streamed'
      BY <1>2, <1>6, <2>1, <2>2, <2>3, <2>6, Zenon DEF Streamed
    <2>8. stage' = "Streaming" /\ status' = "none" /\ notes' = <<>> /\ sink' = sink /\ asked' = asked
      BY <1>2, <2>1 DEF ProcessInv
    <2>9. Shown'
      BY <2>8 DEF Shown
    <2>. QED
      BY <1>2, <1>6, <2>7, <2>8, <2>9 DEF ProcessInv, Quiet
  <1>. QED
    BY <1>8, <1>9, <1>10 DEF ProcessInv

LEMMA EndedShows == ASSUME ProcessInv, Lllm!Ended PROVE ProcessInv'
  <1>1. /\ stage = "Streaming" /\ ~ended /\ ended' = TRUE /\ said \in Seq(Seq(Symbols)) /\ Streamed
        /\ status = "none" /\ notes = <<>> /\ asked.command = "prompt" /\ request # {}
    BY DEF Lllm!Ended, Lllm!Answerable, ProcessInv
  <1>2. UNCHANGED <<asked, stage, handler, interrupt, sink, printed, notes, request, deltas, probe, status>>
    BY DEF Lllm!Ended
  <1>3. CASE said' = said
    <2>1. Streamed'
      BY <1>1, <1>2, <1>3 DEF Streamed
    <2>2. Shown'
      BY <1>1, <1>2 DEF Shown
    <2>. QED
      BY <1>1, <1>2, <1>3, <2>1, <2>2 DEF ProcessInv, Quiet
  <1>4. ASSUME said = <<>>, NEW text \in Texts, said' = <<text>>
        PROVE  ProcessInv'
    <2>1. Streamed'
      BY <1>1, <1>2, <1>4 DEF Streamed
    <2>2. Shown'
      BY <1>1, <1>2 DEF Shown
    <2>3. said' \in Seq(Seq(Symbols))
      <3>. DEFINE S == Seq(Symbols)
      <3>1. text \in S
        BY TextsAreLists
      <3>. HIDE DEF S
      <3>2. <<text>> \in Seq(S)
        BY <3>1
      <3>. QED
        BY <1>4, <3>2 DEF S
    <2>. QED
      BY <1>1, <1>2, <2>1, <2>2, <2>3 DEF ProcessInv, Quiet
  <1>. QED
    BY <1>3, <1>4 DEF Lllm!Ended

LEMMA FailureShows == ASSUME ProcessInv, Lllm!StreamFails PROVE ProcessInv'
  <1>1. stage # "Done" /\ said' = said /\ said' \in Seq(Seq(Symbols)) /\ asked.command = "prompt"
        /\ request # {} /\ request' = request /\ ended' = ended /\ stage = "Streaming" /\ ~ended
        /\ asked.output = "stream"
    BY DEF Lllm!StreamFails, Lllm!Answerable, ProcessInv, Streamed
  <1>2. ASSUME NEW kind, Lllm!Exit(Lllm!StatusFor(kind), Lllm!LineEnd, <<"diagnostic">>)
        PROVE  ProcessInv'
    <2>1. Lllm!StatusFor(kind) \in {"Usage", "Interrupted", "Failure"}
      BY DEF Lllm!StatusFor
    <2>. QED
      BY <1>1, <1>2, <2>1, EndsBadly
  <1>3. ASSUME NEW kind, Lllm!FailWith(kind)
        PROVE  ProcessInv'
    BY <1>1, <1>3, Fails
  <1>4. CASE sink = "closed" /\ Lllm!Exit("Success", <<>>, <<>>)
    <2>. DEFINE heard == Lllm!FlattenSeq(said)
    <2>1. printed' = printed
      BY <1>4 DEF Lllm!Exit
    <2>2. printed = heard /\ printed \in Seq(Symbols)
      BY <1>1, StreamPrints
    <2>3. printed \o <<>> = printed /\ <<>> \in Seq(Symbols)
      BY <2>2
    <2>4. Lllm!IsPrefix(printed, Lllm!FullLine(printed \o <<>>))
      BY <2>2, <2>3, HeardBegins
    <2>5. Lllm!IsPrefix(printed, Lllm!FullLine(printed))
      BY <2>3, <2>4, Zenon
    <2>6. \E w \in Whole(asked.output, said') : Lllm!IsPrefix(printed', w)
      BY <1>1, <2>1, <2>2, <2>5, StreamWantsAll
    <2>. QED
      BY <1>1, <1>4, <2>6, EndsWell
  <1>. QED
    BY <1>2, <1>3, <1>4 DEF Lllm!StreamFails

LEMMA OverShows == ASSUME ProcessInv, Lllm!StreamOver PROVE ProcessInv'
  <1>. DEFINE heard == Lllm!FlattenSeq(said)
              nl == Lllm!Newline
              note == Lllm!UsageNote
  <1>1. /\ stage = "Streaming" /\ said' = said /\ said' \in Seq(Seq(Symbols)) /\ asked.command = "prompt"
        /\ request # {} /\ request' = request /\ ended' = ended /\ asked.output = "stream" /\ Streamed
        /\ sink \in {"open", "closed", "failing"}
    BY DEF Lllm!StreamOver, Lllm!Answerable, ProcessInv, Streamed
  <1>2. heard \in Seq(Symbols)
    BY <1>1, FlattenType
  <1>3. Whole(asked.output, said') = {Lllm!FullLine(heard)}
    BY <1>1, StreamWantsAll
  <1>4. CASE ~ended
    <2>1. Lllm!FailWith("ResponseDecode")
      BY <1>4 DEF Lllm!StreamOver
    <2>. QED
      BY <1>1, <2>1, Fails
  <1>5. CASE ended /\ ~deltas.wrote
    <2>1. Lllm!Finish(Lllm!Answer, "Success", note)
      BY <1>5 DEF Lllm!StreamOver
    <2>2. Lllm!Answer = heard
      BY DEF Lllm!Answer
    <2>3. printed = <<>> /\ ended'
      BY <1>1, <1>5 DEF Streamed
    <2>4. Lllm!Finish(heard, "Success", note)
      BY <2>1, <2>2
    <2>. HIDE DEF heard
    <2>. QED
      BY <1>1, <1>2, <1>3, <2>3, <2>4, Finishes
  <1>6. CASE ended /\ deltas.wrote
    <2>1. printed = heard /\ deltas.line = Lllm!EndsLine(heard)
      BY <1>1, <1>6 DEF Streamed
    <2>2. Lllm!LineEnd = IF deltas.line THEN <<>> ELSE <<nl>>
      BY <1>6 DEF Lllm!LineEnd
    <2>. HIDE DEF heard, nl
    <2>3. heard \o <<>> = heard /\ heard \o <<nl>> = Append(heard, nl) /\ <<nl>> # <<>> /\ <<>> \in Seq(Symbols)
      BY <1>2
    <2>4. Lllm!FullLine(heard) = IF deltas.line THEN heard ELSE Append(heard, nl)
      BY <2>1 DEF Lllm!FullLine, nl
    <2>5. CASE Lllm!LineEnd # <<>> /\ sink = "failing"
      <3>1. Lllm!FailWith("Output")
        BY <1>6, <2>5 DEF Lllm!StreamOver
      <3>. QED
        BY <1>1, <3>1, Fails
    <2>6. CASE ~(Lllm!LineEnd # <<>> /\ sink = "failing")
      <3>1. Lllm!Exit("Success", Lllm!LineEnd, note)
        BY <1>6, <2>6 DEF Lllm!StreamOver
      <3>2. printed' = IF sink = "open" THEN heard \o Lllm!LineEnd ELSE heard
        BY <2>1, <3>1 DEF Lllm!Exit
      <3>3. CASE sink = "open" \/ deltas.line
        <4>1. printed' = Lllm!FullLine(heard)
          BY <2>2, <2>3, <2>4, <3>2, <3>3
        <4>. QED
          BY <1>1, <1>3, <1>6, <3>1, <4>1, EndsWell
      <3>4. CASE sink # "open" /\ ~deltas.line
        <4>1. sink = "closed"
          BY <1>1, <2>2, <2>3, <2>6, <3>4
        <4>2. Lllm!IsPrefix(heard, Lllm!FullLine(heard \o <<>>))
          BY <1>2, <2>3, HeardBegins
        <4>3. Lllm!IsPrefix(heard, Lllm!FullLine(heard))
          BY <2>3, <4>2, Zenon
        <4>4. \E w \in Whole(asked.output, said') : Lllm!IsPrefix(printed', w)
          BY <1>3, <3>2, <3>4, <4>3
        <4>. QED
          BY <1>1, <3>1, <4>1, <4>4, EndsWell
      <3>. QED
        BY <3>3, <3>4
    <2>. QED
      BY <2>5, <2>6
  <1>. QED
    BY <1>4, <1>5, <1>6

LEMMA OpenedShows == ASSUME ProcessInv, Lllm!Opened PROVE ProcessInv'
  <1>1. stage = "Opening" /\ said' = said /\ said' \in Seq(Seq(Symbols))
    BY DEF Lllm!Opened, Lllm!Answerable, ProcessInv
  <1>2. ASSUME NEW kind, Lllm!FailWith(kind) PROVE ProcessInv'
    BY <1>1, <1>2, Fails
  <1>3. CASE stage' = "Streaming" /\ UNCHANGED <<asked, handler, interrupt, sink, printed, notes, status>>
    <2>1. UNCHANGED <<request, said, ended, deltas, probe>>
      BY DEF Lllm!Opened
    <2>2. Silent /\ status = "none" /\ asked.output = "stream"
      BY <1>1 DEF ProcessInv, Quiet
    <2>3. deltas'.wrote = FALSE /\ deltas'.line = FALSE
      BY <2>1, <2>2 DEF Silent
    <2>4. Streamed'
      BY <1>3, <2>1, <2>2, <2>3 DEF Silent, Streamed
    <2>5. Shown'
      BY <1>3, <2>2 DEF Shown
    <2>. QED
      BY <1>1, <1>3, <2>1, <2>2, <2>4, <2>5 DEF ProcessInv, Quiet
  <1>. QED
    BY <1>2, <1>3 DEF Lllm!Opened

LEMMA TurnShows == ASSUME ProbeInv, ProcessInv, Lllm!ProbeTurn PROVE ProcessInv'
  <1>1. PICK answer \in ProbeAnswers :
          /\ probe' = Lllm!Judged(probe, answer)
          /\ IF probe'.outcome = Lllm!None
             THEN UNCHANGED <<asked, stage, handler, interrupt, sink, printed, notes, status>>
             ELSE Lllm!Finish(<<probe'.outcome>>, IF probe'.outcome = "Passed" THEN "Success" ELSE "Failure", <<>>)
    BY Zenon DEF Lllm!ProbeTurn
  <1>2. /\ stage = "Probing" /\ UNCHANGED <<request, said, ended, deltas>> /\ said' \in Seq(Seq(Symbols))
        /\ status = "none"
    BY DEF Lllm!ProbeTurn, Lllm!Answerable, ProcessInv
  <1>3. probe'.outcome \in {"Passed", "Failed", "Incorrect", Lllm!None}
    <2>1. asked.tools \in BOOLEAN
      BY ProbeAssumption DEF ProbeInv
    <2>. QED
      BY <1>1, <1>2, <2>1, TurnIsSound DEF ProbeInv
  <1>4. CASE probe'.outcome = Lllm!None
    <2>1. UNCHANGED <<asked, stage, handler, interrupt, sink, printed, notes, status>>
      BY <1>1, <1>4
    <2>2. Shown'
      BY <1>2, <2>1 DEF Shown
    <2>. QED
      BY <1>2, <2>1, <2>2 DEF ProcessInv, Quiet, Silent
  <1>5. CASE probe'.outcome # Lllm!None /\ sink = "failing"
    <2>1. Lllm!FailWith("Output")
      BY <1>1, <1>5 DEF Lllm!Finish
    <2>. QED
      BY <1>2, <2>1, Fails
  <1>6. CASE probe'.outcome # Lllm!None /\ sink # "failing"
    <2>. DEFINE code == IF probe'.outcome = "Passed" THEN "Success" ELSE "Failure"
                text == Lllm!FullLine(<<probe'.outcome>>)
    <2>1. Lllm!Exit(code, text, <<>>)
      BY <1>1, <1>6 DEF Lllm!Finish
    <2>2. \/ code = "Success" /\ probe'.outcome = "Passed"
          \/ code = "Failure" /\ probe'.outcome \in {"Failed", "Incorrect"}
      BY <1>3, <1>6
    <2>. HIDE DEF code, text
    <2>. QED
      BY <1>2, <2>1, <2>2, Reports
  <1>. QED
    BY <1>4, <1>5, <1>6

LEMMA DescribeShows == ASSUME ProcessInv, Lllm!Describe PROVE ProcessInv'
  <1>1. stage = "Start" /\ said' = said /\ said' \in Seq(Seq(Symbols))
    BY DEF Lllm!Describe, ProcessInv
  <1>2. CASE Lllm!Exit("Usage", <<>>, <<"diagnostic">>)
    BY <1>1, <1>2, EndsBadly
  <1>3. CASE asked.command = "help" /\ Lllm!Exit("Success", <<"help">>, <<>>)
    BY <1>1, <1>3, Describes
  <1>4. CASE Lllm!FailWith("Input")
    BY <1>1, <1>4, Fails
  <1>5. CASE asked.command = "show" /\ Lllm!Finish(<<"models">>, "Success", <<>>)
    <2>. DEFINE text == Lllm!FullLine(<<"models">>)
    <2>1. Lllm!FailWith("Output") \/ Lllm!Exit("Success", text, <<>>)
      BY <1>5 DEF Lllm!Finish
    <2>. HIDE DEF text
    <2>. QED
      BY <1>1, <1>5, <2>1, Fails, Describes
  <1>. QED
    BY <1>2, <1>3, <1>4, <1>5 DEF Lllm!Describe

LEMMA BeginningsShow ==
    ASSUME ProcessInv, Lllm!Startup \/ Lllm!StartPrompt \/ Lllm!ReadStdin \/ Lllm!StdinFails \/ Lllm!StartProbe
    PROVE  ProcessInv'
  <1>1. said' = said /\ said' \in Seq(Seq(Symbols)) /\ stage \in {"Startup", "Start", "Reading"} /\ status = "none"
    BY DEF Lllm!Startup, Lllm!StartPrompt, Lllm!ReadStdin, Lllm!StdinFails, Lllm!StartProbe, Lllm!Prompt, ProcessInv
  <1>2. ASSUME NEW kind, Lllm!FailWith(kind) PROVE ProcessInv'
    BY <1>1, <1>2, Fails
  <1>3. ASSUME asked.command = "prompt", stage \in {"Start", "Reading"}, NEW stdin, Lllm!Prompt(stdin)
        PROVE  ProcessInv'
    BY <1>3, PromptBegins
  <1>4. CASE /\ stage' = "Start" /\ stage = "Startup"
             /\ UNCHANGED <<asked, handler, interrupt, sink, printed, notes, status, request, said, ended,
                            deltas, probe>>
    <2>1. Shown'
      BY <1>1, <1>4 DEF Shown
    <2>. QED
      BY <1>1, <1>4, <2>1 DEF ProcessInv, Quiet, Silent
  <1>5. CASE /\ stage = "Start" /\ asked.command = "prompt" /\ stage' = "Reading"
             /\ UNCHANGED <<asked, handler, interrupt, sink, printed, notes, request, said, ended, deltas, probe, status>>
    <2>1. Shown'
      BY <1>1, <1>5 DEF Shown
    <2>. QED
      BY <1>1, <1>5, <2>1 DEF ProcessInv, Quiet, Silent
  <1>6. CASE /\ stage = "Start" /\ asked.command = "probe" /\ stage' = "Probing"
             /\ UNCHANGED <<asked, handler, interrupt, sink, printed, notes, status, request, said, ended, deltas>>
    <2>1. Shown'
      BY <1>1, <1>6 DEF Shown
    <2>. QED
      BY <1>1, <1>6, <2>1 DEF ProcessInv, Quiet, Silent
  <1>7. CASE Lllm!Startup
    BY <1>2, <1>4, <1>7 DEF Lllm!Startup
  <1>8. CASE Lllm!StartPrompt
    BY <1>3, <1>5, <1>8 DEF Lllm!StartPrompt
  <1>9. CASE Lllm!ReadStdin
    BY <1>3, <1>9 DEF Lllm!ReadStdin, ProcessInv
  <1>10. CASE Lllm!StdinFails
    BY <1>2, <1>10 DEF Lllm!StdinFails
  <1>11. CASE Lllm!StartProbe
    BY <1>2, <1>6, <1>11 DEF Lllm!StartProbe
  <1>. QED
    BY <1>7, <1>8, <1>9, <1>10, <1>11

LEMMA SignalsShow ==
    ASSUME ProcessInv,
           \/ Lllm!Register \/ Lllm!RegisterFails \/ Lllm!Signal \/ Lllm!TakeSignal \/ Lllm!GiveUp
           \/ Lllm!Break \/ Lllm!Over
    PROVE  ProcessInv'
  <1>1. CASE Lllm!Register \/ Lllm!TakeSignal \/ Lllm!Over
    <2>1. UNCHANGED <<asked, stage, sink, printed, notes, request, said, ended, deltas, probe, status>>
      BY <1>1 DEF Lllm!Register, Lllm!TakeSignal, Lllm!Over, Lllm!lineVars
    <2>. QED
      BY <2>1 DEF ProcessInv, Shown, Streamed, Silent, Lllm!UsageNote
  <1>2. CASE Lllm!RegisterFails
    <2>1. stage # "Done" /\ Lllm!Exit("Failure", <<>>, <<"diagnostic">>) /\ said' \in Seq(Seq(Symbols))
      BY <1>2 DEF Lllm!RegisterFails, Lllm!Awaits, ProcessInv
    <2>. QED
      BY <2>1, EndsBadly
  <1>3. CASE Lllm!GiveUp
    <2>1. stage # "Done" /\ Lllm!FailWith("Interrupted") /\ said' \in Seq(Seq(Symbols))
      BY <1>3 DEF Lllm!GiveUp, Lllm!Awaits, ProcessInv
    <2>. QED
      BY <2>1, Fails
  <1>4. CASE Lllm!Signal
    <2>1. /\ stage # "Done" /\ UNCHANGED <<asked, sink, printed, notes, request, said, ended, deltas, probe>>
          /\ \/ stage' = stage /\ status' = status
             \/ stage' = "Done" /\ status' = "Killed"
      BY <1>4 DEF Lllm!Signal, Lllm!Running
    <2>2. Shown'
      BY <2>1 DEF Shown, ProcessInv
    <2>. QED
      BY <2>1, <2>2 DEF ProcessInv, Quiet, Silent, Streamed
  <1>5. CASE Lllm!Break
    <2>1. /\ stage # "Done" /\ sink' \in {"closed", "failing"}
          /\ UNCHANGED <<asked, stage, printed, notes, request, said, ended, deltas, probe, status>>
      BY <1>5 DEF Lllm!Break, Lllm!Running
    <2>2. Shown'
      BY <2>1 DEF Shown, ProcessInv
    <2>. QED
      BY <2>1, <2>2 DEF ProcessInv, Quiet, Silent, Streamed
  <1>. QED
    BY <1>1, <1>2, <1>3, <1>4, <1>5

LEMMA ProcessBegins == MCInit => ProcessInv
  <1>. SUFFICES ASSUME MCInit PROVE ProcessInv
    OBVIOUS
  <1>1. /\ Silent /\ sink = "open" /\ notes = <<>>
        /\ \/ stage = "Startup" /\ status = "none"
           \/ stage = "Done" /\ status = "Killed"
    BY DEF MCInit, NoProcess, Lllm!LineInit, Silent, Lllm!None
  <1>2. said \in Seq(Seq(Symbols))
    <2>1. <<>> \in Seq(Seq(Symbols))
      OBVIOUS
    <2>. QED
      BY <1>1, <2>1, Zenon DEF Silent
  <1>3. Shown
    BY <1>1 DEF Shown
  <1>. QED
    BY <1>1, <1>2, <1>3 DEF ProcessInv, Quiet

LEMMA ProcessGoesOn == ASSUME ProbeInv, ProcessInv, [MCNext]_middlewareVars PROVE ProcessInv'
  <1>1. CASE LimiterStep \/ TokenStep \/ ObserverStep \/ UNCHANGED middlewareVars
    <2>1. UNCHANGED <<asked, stage, sink, printed, notes, request, said, ended, deltas, probe, status>>
      BY <1>1 DEF LimiterStep, TokenStep, ObserverStep, middlewareVars, processVars
    <2>. QED
      BY <2>1 DEF ProcessInv, Shown, Streamed, Silent, Lllm!UsageNote
  <1>2. CASE Lllm!LineNext
    BY <1>2, BeginningsShow, DescribeShows, SignalsShow, CompleteShows, OpenedShows, DeltaShows, EndedShows,
       FailureShows, OverShows, TurnShows DEF Lllm!LineNext
  <1>. QED
    BY <1>1, <1>2 DEF MCNext, ProcessStep

\* Whatever the input, the answer and the order of signals and failures, the
\* exit status and the output of lllm say how the call ended: success is a
\* whole answer with one line end, or a reader that left, everything else
\* leaves a diagnostic, and what is printed is a beginning of what was asked
\* for (main.rs, app/prompt.rs, app/output.rs).
THEOREM OutcomesAreShown == MCSpec => []OutcomeIsShown
  <1>1. MCSpec => MCInit /\ [][MCNext]_middlewareVars
    BY DEF MCSpec
  <1>. QED
    BY <1>1, ProbesBegin, ProbesStay, ProcessBegins, ProcessGoesOn, ProcessShows, PTL

\* The token is cancelled while the run waits for a provider.
SignalInv == interrupt = "taken" => stage \in Lllm!Awaits \cup {"Done"}

\* What is still done once it is cancelled.
LEMMA TakenStops ==
    ASSUME ProcessInv, SignalInv, interrupt = "taken", [MCNext]_middlewareVars
    PROVE  /\ UNCHANGED <<printed, request, said, probe>>
           /\ interrupt' = interrupt /\ stage' \in {stage, "Done"}
  <1>1. stage \in {"Opening", "Completing", "Streaming", "Probing", "Done"}
    BY DEF SignalInv, Lllm!Awaits
  <1>2. CASE LimiterStep \/ TokenStep \/ ObserverStep \/ UNCHANGED middlewareVars
    BY <1>2 DEF LimiterStep, TokenStep, ObserverStep, middlewareVars, processVars
  <1>3. CASE Lllm!Register \/ Lllm!TakeSignal \/ Lllm!Break \/ Lllm!Over
    BY <1>3 DEF Lllm!Register, Lllm!TakeSignal, Lllm!Break, Lllm!Over, Lllm!lineVars
  <1>4. CASE Lllm!RegisterFails \/ Lllm!GiveUp
    <2>1. stage # "Done" /\ \E code : Lllm!Exit(code, <<>>, <<"diagnostic">>)
      BY <1>4, Zenon DEF Lllm!RegisterFails, Lllm!GiveUp, Lllm!FailWith, Lllm!Awaits
    <2>2. printed \in Seq(Symbols)
      <3>1. CASE stage = "Streaming"
        <4>1. CASE deltas.wrote
          BY <3>1, <4>1, StreamPrints
        <4>2. CASE ~deltas.wrote
          <5>1. printed = <<>>
            BY <3>1, <4>2 DEF ProcessInv, Streamed
          <5>. QED
            BY <5>1
        <4>. QED
          BY <4>1, <4>2
      <3>2. CASE stage # "Streaming"
        <4>1. printed = <<>>
          BY <1>1, <2>1, <3>2 DEF ProcessInv, Quiet, Silent
        <4>. QED
          BY <4>1
      <3>. QED
        BY <3>1, <3>2
    <2>3. printed \o <<>> = printed
      BY <2>2
    <2>4. printed' = IF sink = "open" THEN printed \o <<>> ELSE printed
      BY <2>1 DEF Lllm!Exit
    <2>5. printed' = printed
      BY <2>3, <2>4, Zenon
    <2>6. interrupt' = interrupt /\ stage' = "Done"
      BY <2>1 DEF Lllm!Exit
    <2>7. UNCHANGED <<request, said, probe>>
      BY <1>4 DEF Lllm!RegisterFails, Lllm!GiveUp
    <2>. QED
      BY <2>5, <2>6, <2>7
  <1>5. ~Lllm!Startup /\ ~Lllm!Describe /\ ~Lllm!StartPrompt /\ ~Lllm!ReadStdin /\ ~Lllm!StdinFails /\ ~Lllm!StartProbe
    BY <1>1 DEF Lllm!Startup, Lllm!Describe, Lllm!StartPrompt, Lllm!ReadStdin, Lllm!StdinFails, Lllm!StartProbe
  <1>6. ~Lllm!Signal /\ \A step : ~Lllm!Answerable(step)
    BY DEF Lllm!Signal, Lllm!Answerable
  <1>7. ~Lllm!Complete /\ ~Lllm!Opened /\ ~Lllm!TextDelta /\ ~Lllm!Ended /\ ~Lllm!StreamFails
        /\ ~Lllm!StreamOver /\ ~Lllm!ProbeTurn
    BY <1>6, Zenon DEF Lllm!Complete, Lllm!Opened, Lllm!TextDelta, Lllm!Ended, Lllm!StreamFails, Lllm!StreamOver, Lllm!ProbeTurn
  <1>. QED
    BY <1>2, <1>3, <1>4, <1>5, <1>6, <1>7 DEF MCNext, ProcessStep, Lllm!LineNext

\* Only TakeSignal cancels it.
LEMMA OnlyTakenThere ==
    ASSUME interrupt # "taken", [MCNext]_middlewareVars, interrupt' = "taken"
    PROVE  stage \in Lllm!Awaits /\ stage' = stage
  <1>1. CASE LimiterStep \/ TokenStep \/ ObserverStep \/ UNCHANGED middlewareVars
    BY <1>1 DEF LimiterStep, TokenStep, ObserverStep, middlewareVars, processVars
  <1>2. CASE Lllm!TakeSignal
    BY <1>2 DEF Lllm!TakeSignal
  <1>3. CASE Lllm!Signal \/ Lllm!Register \/ Lllm!Break \/ Lllm!Over
    BY <1>3 DEF Lllm!Signal, Lllm!Register, Lllm!Break, Lllm!Over, Lllm!lineVars
  <1>4. CASE Lllm!Startup \/ Lllm!Describe \/ Lllm!StdinFails \/ Lllm!RegisterFails \/ Lllm!GiveUp \/ Lllm!StartProbe
    BY <1>4 DEF Lllm!Startup, Lllm!Describe, Lllm!StdinFails, Lllm!RegisterFails, Lllm!GiveUp, Lllm!StartProbe,
         Lllm!Finish, Lllm!FailWith, Lllm!Exit
  <1>5. CASE Lllm!StartPrompt \/ Lllm!ReadStdin
    <2>1. \A stdin : Lllm!Prompt(stdin) => interrupt' = interrupt
      BY DEF Lllm!Prompt, Lllm!FailWith, Lllm!Exit
    <2>. QED
      BY <1>5, <2>1 DEF Lllm!StartPrompt, Lllm!ReadStdin
  <1>6. CASE Lllm!Complete \/ Lllm!Opened \/ Lllm!TextDelta \/ Lllm!Ended
    BY <1>6 DEF Lllm!Complete, Lllm!Opened, Lllm!TextDelta, Lllm!Ended, Lllm!Finish, Lllm!FailWith, Lllm!Exit
  <1>7. CASE Lllm!StreamFails \/ Lllm!StreamOver \/ Lllm!ProbeTurn
    BY <1>7 DEF Lllm!StreamFails, Lllm!StreamOver, Lllm!ProbeTurn, Lllm!Finish, Lllm!FailWith, Lllm!Exit
  <1>. QED
    BY <1>1, <1>2, <1>3, <1>4, <1>5, <1>6, <1>7 DEF MCNext, ProcessStep, Lllm!LineNext

\* Once the interrupt has cancelled the call's token, in whatever state the
\* call is, nothing more is printed, asked of a provider or heard of one
\* (run_until_signal, cancellable).
THEOREM InterruptSilences == MCSpec => Lllm!NothingAfterSignal
  <1>1. MCSpec => MCInit /\ [][MCNext]_middlewareVars
    BY DEF MCSpec
  <1>2. MCInit => SignalInv
    BY DEF MCInit, NoProcess, Lllm!LineInit, SignalInv
  <1>3. ProcessInv /\ SignalInv /\ [MCNext]_middlewareVars => SignalInv'
    <2>. SUFFICES ASSUME ProcessInv, SignalInv, [MCNext]_middlewareVars, interrupt' = "taken"
                  PROVE  stage' \in Lllm!Awaits \cup {"Done"}
      BY DEF SignalInv
    <2>. QED
      BY TakenStops, OnlyTakenThere DEF SignalInv
  <1>4. ProcessInv /\ SignalInv /\ [MCNext]_middlewareVars
          => [interrupt = "taken" => UNCHANGED <<printed, request, said, probe>>]_Lllm!lineVars
    <2>. SUFFICES ASSUME ProcessInv, SignalInv, [MCNext]_middlewareVars, interrupt = "taken"
                  PROVE  UNCHANGED <<printed, request, said, probe>>
      OBVIOUS
    <2>. QED
      BY TakenStops
  <1>. QED
    BY <1>1, <1>2, <1>3, <1>4, ProbesBegin, ProbesStay, ProcessBegins, ProcessGoesOn, PTL DEF Lllm!NothingAfterSignal

=============================================================================
