------------------------- MODULE RetryStream_proofs -------------------------
(***************************************************************************)
(* Proofs about RetryStream, for every retry policy, every set of blocks,  *)
(* deadlines and Retry-After waits, and streams of any length.             *)
(***************************************************************************)
EXTENDS RetryStream, StreamContract_proofs

----------------------------------------------------------------------------
(* Facts about the constants and the policy *)

LEMMA ErrorsAreItems ==
    /\ \A e \in Error : Err(e) \in Item /\ IsTerminal(Err(e)) /\ Err(e).type = "Err"
    /\ \A kind \in {"Middleware", "Cancelled", "Timeout"} : Final(kind) \in Error
    /\ IncompleteError \in Error
    /\ ProviderErrors \subseteq Error
    /\ GuardError \in Error /\ GuardError.retry = "Never"
    /\ Ended \subseteq Item
    /\ Event \subseteq Item
    /\ \A x \in Event : ~IsTerminal(x)
    /\ \A x \in Item : x.type = "Err" => x.error \in Error
  <1>1. \A kind \in {"Middleware", "Cancelled", "Timeout"} :
            Final(kind) \in Error /\ Final(kind).retry = "Never"
    BY DEF Final, Error
  <1>2. GuardError \in Error /\ GuardError.retry = "Never"
    BY <1>1 DEF GuardError
  <1>3. IncompleteError \in Error
    BY DEF IncompleteError, Error
  <1>4. ProviderErrors \subseteq Error
    BY DEF ProviderErrors
  <1>5. \A e \in Error : Err(e) \in Item /\ IsTerminal(Err(e)) /\ Err(e).type = "Err"
    BY DEF Err, Item, ItemsFailingWith, IsTerminal
  <1>6. Ended \subseteq Item /\ Event \subseteq Item
    BY DEF Item, ItemsFailingWith
  <1>7. \A x \in Event : ~IsTerminal(x)
    BY DEF Event, IsTerminal
  <1>8. \A x \in Item : x.type = "Err" => x.error \in Error
    BY DEF Item, ItemsFailingWith, Event, Ended
  <1>. QED
    BY <1>1, <1>2, <1>3, <1>4, <1>5, <1>6, <1>7, <1>8

\* Every wait the policy answers is a number, and it answers none once the
\* budget is spent or the error is final.
LEMMA DelayFacts ==
    ASSUME NEW a \in Nat \ {0}, NEW e \in Error
    PROVE  /\ NextDelays(a, e) \subseteq Int
           /\ a >= MaxAttempts \/ e.retry = "Never" => NextDelays(a, e) = {}
  <1>1. e.after \in Int
    <2>1. e.after \in RetryAfters \cup {0}
      BY DEF Error
    <2>2. RetryAfters \cup {0} \subseteq Nat
      BY PolicyAssumption
    <2>. QED
      BY <2>1, <2>2
  <1>2. AtMost(a - 1, 31) \in Nat
    BY DEF AtMost
  <1>3. 2^AtMost(a - 1, 31) \in Int
    BY <1>2
  <1>4. InitialDelay * 2^AtMost(a - 1, 31) \in Int
    BY <1>3, PolicyAssumption
  <1>5. Backoff(a) \in Int
    BY <1>4, PolicyAssumption DEF Backoff, AtMost
  <1>6. Spread(Backoff(a)) \subseteq Int
    BY <1>5 DEF Spread
  <1>7. {d \in {e.after} : d <= RetryAfterCap} \subseteq Int
    BY <1>1
  <1>8. NextDelays(a, e) \subseteq Int
    BY <1>6, <1>7, Zenon DEF NextDelays
  <1>9. a >= MaxAttempts \/ e.retry = "Never" => NextDelays(a, e) = {}
    BY Zenon DEF NextDelays
  <1>. QED
    BY <1>8, <1>9

\* What the provider's stream yields is an item.
LEMMA ProviderItemsAreItems == ProviderItems \subseteq Item
  BY ErrorsAreItems DEF ProviderItems, Item, ItemsFailingWith

----------------------------------------------------------------------------
(* Types *)

LEMMA ReturnTypes ==
    ASSUME TypeOK, NEW x \in Item, Return(x),
           given' \in Seq(Item), UNCHANGED call
    PROVE  TypeOK'
  <1>1. out' \in Seq(Item)
    BY DEF Return, TypeOK
  <1>2. /\ pc' = "Done" /\ entered' = FALSE
        /\ UNCHANGED <<loop, stream, batch>>
    BY DEF Return
  <1>. QED
    BY <1>1, <1>2 DEF TypeOK, call, loop, stream

LEMMA AbandonTypes ==
    ASSUME TypeOK, NEW e \in Error, NEW x \in Item, Abandon(e, x),
           given' \in Seq(Item), UNCHANGED call
    PROVE  TypeOK'
  <1>1. ASSUME NEW delay \in NextDelays(attempt, e), Retry(delay)
        PROVE  TypeOK'
    <2>1. delay \in Int
      BY DelayFacts DEF TypeOK
    <2>2. reports' \in Seq([attempt : Nat, stage : {"Request", "Stream"}])
      BY <1>1 DEF Retry, TypeOK
    <2>. QED
      BY <1>1, <2>1, <2>2 DEF Retry, TypeOK, call, stream
  <1>2. CASE Return(x)
    BY <1>2, ReturnTypes
  <1>3. CASE /\ batch' = Append(held, x) /\ held' = <<>> /\ pc' = "Reading"
             /\ UNCHANGED <<loop, phase, out, entered>>
    <2>1. held \in Seq(Item)
      BY ErrorsAreItems DEF TypeOK
    <2>2. batch' \in Seq(Item) /\ held' \in Seq(Event)
      BY <1>3, <2>1
    <2>. QED
      BY <1>3, <2>2 DEF TypeOK, call, loop
  <1>4. CASE GiveUp(x)
    BY <1>2, <1>3, <1>4, Zenon DEF GiveUp
  <1>. QED
    BY <1>1, <1>4, Zenon DEF Abandon

LEMMA StepTypes ==
    ASSUME TypeOK, NEW x \in Item, Step(x)
    PROVE  TypeOK'
  <1>1. given' \in Seq(Item) /\ UNCHANGED call
    BY DEF Step, TypeOK
  <1>2. CASE Pass(x)
    BY <1>1, <1>2 DEF Pass, TypeOK, call, loop, stream
  <1>3. CASE Hold(x)
    BY <1>1, <1>3 DEF Hold, IsHeldBack, TypeOK, call, loop
  <1>4. CASE Release(x)
    <2>1. held \in Seq(Item)
      BY ErrorsAreItems DEF TypeOK
    <2>2. batch' \in Seq(Item) /\ held' \in Seq(Event)
      BY <1>4, <2>1 DEF Release
    <2>. QED
      BY <1>1, <1>4, <2>2 DEF Release, TypeOK, call, loop
  <1>5. CASE Reconnect(x)
    <2>1. Classified(x) \in Error
      BY ErrorsAreItems DEF Classified
    <2>. QED
      BY <1>1, <1>5, <2>1, AbandonTypes DEF Reconnect
  <1>. QED
    BY <1>2, <1>3, <1>4, <1>5 DEF Step

LEMMA AttemptFailsTypes ==
    ASSUME TypeOK, NEW e \in Error, AttemptFails(e)
    PROVE  TypeOK'
  BY AbandonTypes, ErrorsAreItems DEF AttemptFails, TypeOK, call

LEMMA AttemptRespondsTypes ==
    ASSUME TypeOK, NEW r \in Ended, AttemptResponds(r)
    PROVE  TypeOK'
  <1>1. r \in Item /\ IncompleteError \in Error /\ Final("Middleware") \in Error
        /\ Err(Final("Middleware")) \in Item
    BY ErrorsAreItems
  <1>2. given' \in Seq(Item) /\ UNCHANGED call
    BY DEF AttemptResponds, TypeOK
  <1>3. CASE Abandon(IncompleteError, r)
    BY <1>1, <1>2, <1>3, AbandonTypes
  <1>4. CASE Return(r)
    BY <1>1, <1>2, <1>4, ReturnTypes
  <1>5. CASE stage = "Stream" /\ GiveUp(Err(Final("Middleware")))
    <2>1. held \in Seq(Item)
      BY ErrorsAreItems DEF TypeOK
    <2>2. batch' \in Seq(Item) /\ held' \in Seq(Event)
      BY <1>1, <1>5, <2>1 DEF GiveUp
    <2>. QED
      BY <1>2, <1>5, <2>2 DEF GiveUp, TypeOK, call, loop
  <1>. QED
    BY <1>3, <1>4, <1>5, Zenon DEF AttemptResponds
----------------------------------------------------------------------------
LEMMA InitTypes == Init => TypeOK
  <1>. SUFFICES ASSUME Init PROVE TypeOK
    OBVIOUS
  <1>1. left \in Nat \cup {NoDeadline}
    <2>1. Deadlines \cup {NoDeadline} \subseteq Nat \cup {NoDeadline}
      BY DeadlineAssumption
    <2>2. left \in Deadlines \cup {NoDeadline}
      BY DEF Init
    <2>. QED
      BY <2>1, <2>2
  <1>2. /\ held \in Seq(Event) /\ batch \in Seq(Item) /\ given \in Seq(Item)
        /\ out \in Seq(Item)
        /\ reports \in Seq([attempt : Nat, stage : {"Request", "Stream"}])
    BY DEF Init
  <1>3. /\ op \in {"Complete", "Stream"} /\ pc = "Dispatch" /\ stage = "Request"
        /\ phase = "Holding" /\ attempt = 1 /\ dispatches = 0 /\ sleep = 0
        /\ cancelled = FALSE /\ entered = FALSE
    BY DEF Init
  <1>4. op \in {"Complete", "Stream"} /\ pc \in {"Dispatch", "Opening", "Backoff", "Reading", "Done"}
    BY <1>3
  <1>5. stage \in {"Request", "Stream"} /\ phase \in {"Holding", "Delivering"}
    BY <1>3
  <1>6. attempt \in Nat \ {0} /\ sleep \in Int /\ dispatches \in Nat
    BY <1>3
  <1>7. cancelled \in BOOLEAN /\ entered \in BOOLEAN
    BY <1>3
  <1>. QED
    BY <1>1, <1>2, <1>4, <1>5, <1>6, <1>7, Zenon DEF TypeOK

LEMMA NextTypes == TypeOK /\ [Next]_vars => TypeOK'
  <1>. SUFFICES ASSUME TypeOK, [Next]_vars PROVE TypeOK'
    OBVIOUS
  <1>1. CASE Enter
    BY <1>1 DEF Enter, TypeOK, call, loop, stream
  <1>2. CASE GuardFires
    <2>0. Err(GuardError) \in Item
      BY ErrorsAreItems
    <2>1. out' \in Seq(Item)
      <3>1. out \in Seq(Item) /\ out' = Append(out, Err(GuardError))
        BY <1>2 DEF GuardFires, TypeOK
      <3>. QED
        BY <2>0, <3>1, AppendProperties
    <2>2. pc' = "Done" /\ batch' = <<>> /\ UNCHANGED <<call, loop, stream, given, entered>>
      BY <1>2 DEF GuardFires
    <2>. QED
      BY <2>1, <2>2 DEF TypeOK, call, loop, stream
  <1>3. CASE Pend
    BY <1>3 DEF Pend, TypeOK, call, loop, stream
  <1>4. CASE Deliver
    <2>1. Head(batch) \in Item /\ Tail(batch) \in Seq(Item)
      BY <1>4 DEF Deliver, TypeOK
    <2>2. out' \in Seq(Item) /\ batch' \in Seq(Item)
      <3>1. out \in Seq(Item) /\ out' = Append(out, Head(batch))
        BY <1>4 DEF Deliver, TypeOK
      <3>2. batch' \in {<<>>, Tail(batch)}
        BY <1>4 DEF Deliver
      <3>3. out' \in Seq(Item)
        BY <2>1, <3>1, AppendProperties
      <3>4. batch' \in Seq(Item)
        <4>1. <<>> \in Seq(Item)
          OBVIOUS
        <4>. QED
          BY <2>1, <3>2, <4>1, Zenon
      <3>. QED
        BY <3>3, <3>4
    <2>3. pc' \in {pc, "Done"} /\ entered' = FALSE /\ UNCHANGED <<call, loop, stream, given>>
      BY <1>4 DEF Deliver
    <2>. QED
      BY <2>2, <2>3 DEF TypeOK, call, loop, stream
  <1>5. CASE Wake
    BY <1>5 DEF Wake, TypeOK, call, loop, stream
  <1>6. CASE Dispatch
    BY <1>6 DEF Dispatch, TypeOK, call, loop, stream
  <1>7. CASE InnerGuardFires
    BY <1>7, ErrorsAreItems, AttemptFailsTypes, StepTypes DEF InnerGuardFires
  <1>8. CASE Answer
    <2>1. ASSUME NEW e \in ProviderErrors, AttemptFails(e) PROVE TypeOK'
      BY <2>1, ErrorsAreItems, AttemptFailsTypes
    <2>2. CASE AttemptStreams
      BY <2>2 DEF AttemptStreams, TypeOK, call, loop, stream
    <2>3. ASSUME NEW r \in Ended, AttemptResponds(r) PROVE TypeOK'
      BY <2>3, AttemptRespondsTypes
    <2>4. ASSUME NEW x \in ProviderItems, Step(x) PROVE TypeOK'
      BY <2>4, ProviderItemsAreItems, StepTypes
    <2>. QED
      BY <1>8, <2>1, <2>2, <2>3, <2>4 DEF Answer
  <1>9. CASE Cancel
    BY <1>9 DEF Cancel, TypeOK, call, loop, stream
  <1>10. CASE Drop
    BY <1>10 DEF Drop, TypeOK, call, loop, stream
  <1>11. CASE Tick
    BY <1>11 DEF Tick, TypeOK, call, loop, stream
  <1>12. CASE UNCHANGED vars
    BY <1>12 DEF vars, TypeOK, call, loop, stream
  <1>. QED
    BY <1>1, <1>2, <1>3, <1>4, <1>5, <1>6, <1>7, <1>8, <1>9, <1>10, <1>11, <1>12
       DEF Next, Poll, Finished

\* The variables keep their types.
THEOREM TypeCorrect == Spec => []TypeOK
  BY InitTypes, NextTypes, PTL DEF Spec

----------------------------------------------------------------------------
(* The inductive invariant *)

\* The last batch of a stream: its end is already decided.
Closing == batch # <<>> /\ IsTerminal(batch[Len(batch)])

\* How the attempt number, the attempts made and the retries reported move
\* together, by where the layer stands.
CountInv ==
    /\ attempt <= MaxAttempts
    /\ \A i \in DOMAIN reports : reports[i].attempt = i
    /\ pc = "Dispatch" => Len(reports) = attempt - 1 /\ dispatches = attempt - 1
    /\ pc = "Opening" => Len(reports) = attempt - 1 /\ dispatches = attempt
    /\ pc = "Backoff" =>
          Len(reports) = attempt /\ dispatches = attempt /\ attempt < MaxAttempts
    /\ pc = "Reading" =>
          /\ Len(reports) = attempt - 1
          /\ dispatches = attempt \/ (dispatches = attempt - 1 /\ Closing)
    /\ pc = "Done" =>
          Len(reports) \in {attempt - 1, attempt} /\ dispatches \in {attempt - 1, attempt}

\* While events are held the caller has seen nothing and held is what the
\* attempt gave; while events pass through, seen and pending items together are
\* what the attempt gave.  What was given, held or delivered keeps the contract.
StreamInv ==
    /\ KeepsContract(given) /\ KeepsContract(held) /\ KeepsContract(out \o batch)
    /\ op = "Complete" => stage = "Request"
    /\ pc = "Reading" => stage = "Stream"
    /\ pc # "Done" => \A i \in DOMAIN out : ~IsTerminal(out[i])
    /\ pc \notin {"Reading", "Done"} => out = <<>> /\ batch = <<>> /\ phase = "Holding"
    /\ pc = "Reading" /\ phase = "Holding" =>
          \/ out = <<>> /\ batch = <<>> /\ held = given
          \/ Closing
    /\ pc = "Reading" /\ phase = "Delivering" => out \o batch = given

IInv == TypeOK /\ CountInv /\ StreamInv

----------------------------------------------------------------------------
(* An attempt is abandoned *)

\* The layer has delivered nothing and may still abandon what it holds.
NothingSeen ==
    /\ out = <<>> /\ batch = <<>> /\ phase = "Holding"
    /\ KeepsContract(held)
    /\ op = "Complete" => stage = "Request"

LEMMA RetryKeepsStream ==
    ASSUME NothingSeen, NEW delay, Retry(delay), UNCHANGED call, KeepsContract(given')
    PROVE  StreamInv'
  <1>1. /\ out' = <<>> /\ batch' = <<>> /\ phase' = "Holding" /\ held' = held
        /\ op' = op /\ stage' = stage /\ pc' = "Backoff"
    BY DEF NothingSeen, Retry, stream, call
  <1>2. KeepsContract(held') /\ KeepsContract(out' \o batch')
    BY <1>1, EmptyKeeps DEF NothingSeen
  <1>. QED
    BY <1>1, <1>2 DEF StreamInv, NothingSeen

LEMMA GiveUpKeepsStream ==
    ASSUME TypeOK, NothingSeen, NEW x \in Item, IsTerminal(x), MayFollow(held, x),
           GiveUp(x), UNCHANGED call, KeepsContract(given')
    PROVE  StreamInv'
  <1>0. held \in Seq(Item)
    BY ErrorsAreItems DEF TypeOK
  <1>1. CASE stage = "Request" /\ Return(x)
    <2>1. /\ out' = Append(<<>>, x) /\ batch' = <<>> /\ held' = held
          /\ op' = op /\ stage' = stage /\ pc' = "Done"
      BY <1>1 DEF Return, NothingSeen, stream, loop, call
    <2>2. MayFollow(<<>>, x)
      BY OutputMayStandAlone DEF IsTerminal
    <2>3. KeepsContract(Append(<<>>, x))
      <3>1. <<>> \in Seq(Item)
        OBVIOUS
      <3>. QED
        BY <2>2, <3>1, EmptyKeeps, AppendKeeps
    <2>4. out' \o batch' = Append(<<>>, x)
      BY <2>1
    <2>5. KeepsContract(out' \o batch') /\ KeepsContract(held')
      BY <2>1, <2>3, <2>4 DEF NothingSeen
    <2>. QED
      BY <2>1, <2>5, <1>1 DEF StreamInv
  <1>2. CASE /\ stage = "Stream" /\ batch' = Append(held, x) /\ held' = <<>>
             /\ pc' = "Reading" /\ UNCHANGED <<loop, phase, out, entered>>
    <2>1. /\ out' = <<>> /\ phase' = "Holding" /\ op' = op /\ stage' = "Stream"
          /\ op # "Complete"
      BY <1>2 DEF NothingSeen, loop, call
    <2>2. KeepsContract(Append(held, x))
      BY <1>0, AppendKeeps DEF NothingSeen
    <2>3. out' \o batch' = Append(held, x)
      BY <1>0, <1>2, <2>1
    <2>4. KeepsContract(out' \o batch') /\ KeepsContract(held')
      BY <1>2, <2>2, <2>3, EmptyKeeps
    <2>5. Closing'
      <3>1. batch' # <<>> /\ batch'[Len(batch')] = x
        BY <1>0, <1>2
      <3>. QED
        BY <3>1 DEF Closing
    <2>. QED
      BY <1>2, <2>1, <2>4, <2>5 DEF StreamInv
  <1>. QED
    BY <1>1, <1>2, Zenon DEF GiveUp

LEMMA AbandonKeepsStream ==
    ASSUME TypeOK, NothingSeen, NEW e, NEW x \in Item, IsTerminal(x),
           MayFollow(held, x), Abandon(e, x), UNCHANGED call, KeepsContract(given')
    PROVE  StreamInv'
  BY RetryKeepsStream, GiveUpKeepsStream, Zenon DEF Abandon

LEMMA GiveUpKeepsCount ==
    ASSUME TypeOK, attempt <= MaxAttempts,
           \A i \in DOMAIN reports : reports[i].attempt = i,
           Len(reports) = attempt - 1,
           dispatches \in {attempt - 1, attempt},
           NEW x \in Item, IsTerminal(x), GiveUp(x)
    PROVE  CountInv'
  <1>1. UNCHANGED <<attempt, reports, dispatches>>
    BY DEF GiveUp, Return, loop
  <1>2. CASE stage = "Request" /\ Return(x)
    BY <1>1, <1>2 DEF CountInv, Return
  <1>3. CASE batch' = Append(held, x) /\ pc' = "Reading"
    <2>1. held \in Seq(Item)
      BY ErrorsAreItems DEF TypeOK
    <2>2. Closing'
      <3>1. batch' # <<>> /\ batch'[Len(batch')] = x
        BY <1>3, <2>1
      <3>. QED
        BY <3>1 DEF Closing
    <2>. QED
      BY <1>1, <1>3, <2>2 DEF CountInv
  <1>. QED
    BY <1>2, <1>3 DEF GiveUp

LEMMA AbandonKeepsCount ==
    ASSUME TypeOK, attempt <= MaxAttempts,
           \A i \in DOMAIN reports : reports[i].attempt = i,
           Len(reports) = attempt - 1,
           NEW e \in Error, NEW x \in Item, IsTerminal(x), Abandon(e, x),
           \/ dispatches = attempt
           \/ dispatches = attempt - 1 /\ e.retry = "Never"
    PROVE  CountInv'
  <1>1. ASSUME NEW delay \in NextDelays(attempt, e), Retry(delay)
        PROVE  CountInv'
    <2>1. attempt < MaxAttempts /\ e.retry # "Never" /\ attempt \in Nat \ {0}
      BY <1>1, DelayFacts, PolicyAssumption DEF TypeOK
    <2>2. /\ pc' = "Backoff" /\ attempt' = attempt /\ dispatches' = dispatches
          /\ reports' = Append(reports, [attempt |-> attempt, stage |-> stage])
      BY <1>1 DEF Retry
    <2>3. reports \in Seq([attempt : Nat, stage : {"Request", "Stream"}])
      BY DEF TypeOK
    <2>4. Len(reports') = attempt /\ \A i \in DOMAIN reports' : reports'[i].attempt = i
      BY <2>1, <2>2, <2>3
    <2>. QED
      BY <2>1, <2>2, <2>4 DEF CountInv
  <1>2. CASE GiveUp(x)
    BY <1>2, GiveUpKeepsCount
  <1>. QED
    BY <1>1, <1>2, Zenon DEF Abandon

----------------------------------------------------------------------------
(* Every step keeps the invariant *)

LEMMA InitIInv == Init => IInv
  <1>. SUFFICES ASSUME Init PROVE IInv
    OBVIOUS
  <1>1. TypeOK
    BY InitTypes
  <1>2. /\ pc = "Dispatch" /\ stage = "Request" /\ phase = "Holding"
        /\ attempt = 1 /\ dispatches = 0
        /\ held = <<>> /\ batch = <<>> /\ given = <<>> /\ out = <<>> /\ reports = <<>>
    BY DEF Init
  <1>3. CountInv
    BY <1>2, PolicyAssumption DEF CountInv
  <1>4. StreamInv
    <2>1. out \o batch = <<>>
      BY <1>2
    <2>. QED
      BY <1>2, <2>1, EmptyKeeps DEF StreamInv
  <1>. QED
    BY <1>1, <1>3, <1>4 DEF IInv

\* A step that moves only clocks, the token or the poll.
LEMMA UnmovedKeeps ==
    ASSUME IInv, UNCHANGED <<op, pc, stage, phase, attempt, held, batch, given, out,
                             dispatches, reports>>
    PROVE  CountInv' /\ StreamInv'
  BY DEF IInv, CountInv, StreamInv, Closing

\* The items received so far keep the contract.
LEMMA OutKeeps ==
    ASSUME IInv
    PROVE  /\ out \in Seq(Item) /\ batch \in Seq(Item) /\ KeepsContract(out)
           /\ batch # <<>> => MayFollow(out, Head(batch))
  BY PrefixKeeps DEF IInv, TypeOK, StreamInv

LEMMA GuardFiresKeeps ==
    ASSUME IInv, GuardFires
    PROVE  CountInv' /\ StreamInv'
  <1>1. /\ out' = Append(out, Err(GuardError)) /\ pc # "Done" /\ pc' = "Done" /\ batch' = <<>>
        /\ UNCHANGED <<op, stage, phase, attempt, held, given, dispatches, reports>>
    BY DEF GuardFires, call, loop, stream
  <1>2. CountInv'
    BY <1>1 DEF IInv, CountInv, TypeOK
  <1>3. KeepsContract(Append(out, Err(GuardError)))
    <2>1. MayFollow(out, Err(GuardError))
      BY <1>1, ErrorMayFollow DEF IInv, StreamInv
    <2>. QED
      BY <2>1, OutKeeps, AppendKeeps, ErrorsAreItems
  <1>4. out' \o batch' = Append(out, Err(GuardError))
    BY <1>1, OutKeeps, ErrorsAreItems
  <1>. QED
    BY <1>1, <1>2, <1>3, <1>4 DEF IInv, StreamInv

LEMMA DropKeeps ==
    ASSUME IInv, Drop
    PROVE  CountInv' /\ StreamInv'
  <1>1. /\ pc' = "Done" /\ batch' = <<>>
        /\ UNCHANGED <<op, stage, phase, attempt, held, given, out, dispatches, reports>>
    BY DEF Drop, call, loop, stream
  <1>2. CountInv'
    BY <1>1 DEF IInv, CountInv, TypeOK
  <1>3. out' \o batch' = out
    BY <1>1, OutKeeps
  <1>. QED
    BY <1>1, <1>2, <1>3, OutKeeps DEF IInv, StreamInv

LEMMA TailKeepsLast ==
    ASSUME NEW T, NEW s \in Seq(T), s # <<>>, s[Len(s)] # Head(s)
    PROVE  Tail(s) # <<>> /\ Tail(s)[Len(Tail(s))] = s[Len(s)]
  <1>1. Len(s) \in Nat /\ Len(s) # 0 /\ Head(s) = s[1]
    OBVIOUS
  <1>2. Len(s) > 1
    BY <1>1
  <1>3. Len(Tail(s)) = Len(s) - 1 /\ \A i \in 1..(Len(s) - 1) : Tail(s)[i] = s[i + 1]
    BY <1>1
  <1>4. Tail(s) # <<>>
    <2>1. Len(Tail(s)) # 0
      BY <1>1, <1>2, <1>3
    <2>2. Len(<<>>) = 0
      OBVIOUS
    <2>. QED
      BY <2>1, <2>2, Zenon
  <1>5. Len(s) - 1 \in 1..(Len(s) - 1) /\ (Len(s) - 1) + 1 = Len(s)
    BY <1>1, <1>2
  <1>6. Tail(s)[Len(s) - 1] = s[(Len(s) - 1) + 1]
    BY <1>3, <1>5, Zenon
  <1>. QED
    BY <1>3, <1>4, <1>5, <1>6

LEMMA DeliverKeeps ==
    ASSUME IInv, Deliver
    PROVE  CountInv' /\ StreamInv'
  <1>. DEFINE x == Head(batch)
  <1>1. /\ batch # <<>> /\ out' = Append(out, x)
        /\ UNCHANGED <<op, stage, phase, attempt, held, given, dispatches, reports>>
    BY DEF Deliver, call, loop, stream
  <1>2. x \in Item /\ out \in Seq(Item) /\ batch \in Seq(Item) /\ Tail(batch) \in Seq(Item)
    BY <1>1, OutKeeps
  <1>3. KeepsContract(Append(out, x))
    BY <1>1, <1>2, OutKeeps, AppendKeeps
  <1>4. CASE IsTerminal(x)
    <2>1. pc' = "Done" /\ batch' = <<>>
      BY <1>4 DEF Deliver
    <2>2. CountInv'
      BY <1>1, <2>1 DEF IInv, CountInv, TypeOK
    <2>3. out' \o batch' = Append(out, x)
      BY <1>1, <1>2, <2>1
    <2>. QED
      BY <1>1, <1>3, <2>1, <2>2, <2>3 DEF IInv, StreamInv
  <1>5. CASE ~IsTerminal(x)
    <2>1. pc' = pc /\ batch' = Tail(batch)
      BY <1>5 DEF Deliver
    <2>2. out' \o batch' = out \o batch
      BY <1>1, <1>2, <2>1
    <2>3. Closing => Closing'
      <3>. SUFFICES ASSUME Closing PROVE Closing'
        OBVIOUS
      <3>1. batch[Len(batch)] # Head(batch)
        BY <1>5 DEF Closing
      <3>2. Tail(batch) # <<>> /\ Tail(batch)[Len(Tail(batch))] = batch[Len(batch)]
        BY <1>1, <1>2, <3>1, TailKeepsLast
      <3>3. batch' # <<>> /\ batch'[Len(batch')] = batch[Len(batch)]
        BY <2>1, <3>2
      <3>. QED
        BY <3>3 DEF Closing
    <2>4. CountInv'
      BY <1>1, <2>1, <2>3 DEF IInv, CountInv
    <2>5. pc # "Done" => \A i \in DOMAIN out' : ~IsTerminal(out'[i])
      <3>. HIDE DEF x
      <3>. QED
        BY <1>1, <1>2, <1>5 DEF IInv, StreamInv
    <2>. QED
      BY <1>1, <2>1, <2>2, <2>3, <2>4, <2>5 DEF IInv, StreamInv
  <1>. QED
    BY <1>4, <1>5

\* Before the first item of an attempt, nothing has been seen.
LEMMA NothingSeenWhileOpening ==
    ASSUME IInv, pc \notin {"Reading", "Done"}
    PROVE  /\ NothingSeen /\ KeepsContract(given)
           /\ \A e \in Error : MayFollow(held, Err(e))
  <1>1. NothingSeen /\ KeepsContract(given)
    BY DEF IInv, StreamInv, NothingSeen
  <1>2. held \in Seq(Event)
    BY DEF IInv, TypeOK
  <1>3. \A i \in DOMAIN held : ~IsTerminal(held[i])
    BY <1>2, ErrorsAreItems
  <1>. QED
    BY <1>1, <1>3, ErrorMayFollow

LEMMA AttemptFailsKeeps ==
    ASSUME IInv, NEW e \in Error, AttemptFails(e),
           pc = "Opening" \/ (pc = "Dispatch" /\ e.retry = "Never")
    PROVE  CountInv' /\ StreamInv'
  <1>1. Abandon(e, Err(e)) /\ UNCHANGED call /\ given' = given
    BY DEF AttemptFails
  <1>2. Err(e) \in Item /\ IsTerminal(Err(e))
    BY ErrorsAreItems
  <1>3. NothingSeen /\ KeepsContract(given') /\ MayFollow(held, Err(e))
    BY <1>1, NothingSeenWhileOpening
  <1>4. StreamInv'
    BY <1>1, <1>2, <1>3, AbandonKeepsStream DEF IInv
  <1>5. CountInv'
    BY <1>1, <1>2, AbandonKeepsCount DEF IInv, CountInv
  <1>. QED
    BY <1>4, <1>5

LEMMA AttemptStreamsKeeps ==
    ASSUME IInv, AttemptStreams
    PROVE  CountInv' /\ StreamInv'
  <1>1. /\ pc = "Opening" /\ pc' = "Reading" /\ stage' = "Stream" /\ phase' = "Holding"
        /\ held' = <<>> /\ given' = <<>> /\ op = "Stream" /\ op' = op
        /\ UNCHANGED <<attempt, dispatches, reports, batch, out>>
    BY DEF AttemptStreams, call
  <1>2. out = <<>> /\ batch = <<>>
    BY <1>1 DEF IInv, StreamInv
  <1>3. CountInv'
    BY <1>1 DEF IInv, CountInv
  <1>4. out' \o batch' = <<>>
    BY <1>1, <1>2
  <1>. QED
    BY <1>1, <1>2, <1>3, <1>4, EmptyKeeps DEF StreamInv

LEMMA AttemptRespondsKeeps ==
    ASSUME IInv, NEW r \in Ended, AttemptResponds(r)
    PROVE  CountInv' /\ StreamInv'
  <1>1. /\ pc = "Opening" /\ UNCHANGED call /\ given' = given
        /\ \/ op = "Complete" /\ Abandon(IncompleteError, r)
           \/ op = "Complete" /\ Return(r)
           \/ stage = "Stream" /\ GiveUp(Err(Final("Middleware")))
    BY DEF AttemptResponds
  <1>2. NothingSeen /\ KeepsContract(given')
    BY <1>1, NothingSeenWhileOpening
  <1>3. r \in Item /\ IsTerminal(r) /\ r.type = "Ended"
    BY DEF Item, ItemsFailingWith, Ended, IsTerminal
  <1>4. attempt <= MaxAttempts /\ Len(reports) = attempt - 1 /\ dispatches = attempt
        /\ \A i \in DOMAIN reports : reports[i].attempt = i
    BY <1>1 DEF IInv, CountInv
  <1>5. TypeOK
    BY DEF IInv
  <1>6. CASE op = "Complete" /\ Return(r)
    <2>1. GiveUp(r)
      BY <1>2, <1>6 DEF GiveUp, NothingSeen
    <2>2. /\ out' = Append(<<>>, r) /\ batch' = <<>> /\ pc' = "Done"
          /\ UNCHANGED <<held, op, stage>>
      BY <1>1, <1>2, <1>6 DEF Return, NothingSeen, stream, loop, call
    <2>3. KeepsContract(out' \o batch')
      <3>1. <<>> \in Seq(Item)
        OBVIOUS
      <3>2. out' \o batch' = Append(<<>>, r)
        BY <2>2
      <3>3. MayFollow(<<>>, r)
        BY <1>3, OutputMayStandAlone
      <3>4. KeepsContract(Append(<<>>, r))
        BY <1>3, <3>1, <3>3, EmptyKeeps, AppendKeeps, Zenon
      <3>. QED
        BY <3>2, <3>4
    <2>4. StreamInv'
      BY <1>2, <2>2, <2>3 DEF StreamInv, NothingSeen
    <2>5. attempt \in Nat \ {0} /\ dispatches \in {attempt - 1, attempt}
      BY <1>4, <1>5 DEF TypeOK
    <2>. QED
      BY <1>3, <1>4, <1>5, <2>1, <2>4, <2>5, GiveUpKeepsCount
  <1>7. CASE op = "Complete" /\ Abandon(IncompleteError, r)
    <2>1. stage = "Request"
      BY <1>2, <1>7 DEF NothingSeen
    <2>2. CASE Return(r)
      BY <1>6, <1>7, <2>2
    <2>3. ASSUME NEW delay, Retry(delay) PROVE StreamInv'
      BY <1>1, <1>2, <2>3, RetryKeepsStream
    <2>4. CountInv'
      BY <1>3, <1>4, <1>5, <1>7, AbandonKeepsCount, ErrorsAreItems
    <2>. QED
      BY <1>7, <2>1, <2>2, <2>3, <2>4 DEF Abandon, GiveUp
  <1>8. CASE stage = "Stream" /\ GiveUp(Err(Final("Middleware")))
    <2>. DEFINE x == Err(Final("Middleware"))
    <2>1. x \in Item /\ IsTerminal(x) /\ MayFollow(held, x)
      BY <1>1, ErrorsAreItems, NothingSeenWhileOpening
    <2>2. dispatches \in {attempt - 1, attempt}
      BY <1>4
    <2>. HIDE DEF x
    <2>3. GiveUp(x)
      BY <1>8 DEF x
    <2>4. StreamInv'
      BY <1>1, <1>2, <1>5, <2>1, <2>3, GiveUpKeepsStream
    <2>5. CountInv'
      BY <1>4, <1>5, <2>1, <2>2, <2>3, GiveUpKeepsCount
    <2>. QED
      BY <2>4, <2>5
  <1>. QED
    BY <1>1, <1>6, <1>7, <1>8, Zenon

\* One item of the attempt's stream.
LEMMA StepKeeps ==
    ASSUME IInv, NEW x \in Item, MayFollow(given, x), Step(x)
    PROVE  CountInv' /\ StreamInv'
  <1>1. /\ pc = "Reading" /\ batch = <<>> /\ given' = Append(given, x) /\ UNCHANGED call
        /\ TypeOK
    BY DEF Step, IInv
  <1>2. given \in Seq(Item) /\ held \in Seq(Item) /\ out \in Seq(Item)
    BY <1>1, ErrorsAreItems DEF TypeOK
  <1>3. KeepsContract(given')
    BY <1>1, <1>2, AppendKeeps DEF IInv, StreamInv
  <1>4. /\ stage = "Stream" /\ op # "Complete" /\ op' = op
        /\ \A i \in DOMAIN out : ~IsTerminal(out[i])
        /\ phase = "Holding" => out = <<>> /\ held = given
        /\ phase = "Delivering" => out \o batch = given
    BY <1>1 DEF IInv, StreamInv, Closing, call
  <1>5. /\ attempt <= MaxAttempts /\ Len(reports) = attempt - 1 /\ dispatches = attempt
        /\ \A i \in DOMAIN reports : reports[i].attempt = i
    BY <1>1 DEF IInv, CountInv, Closing
  <1>6. ASSUME pc' = pc, UNCHANGED loop PROVE CountInv'
    BY <1>1, <1>5, <1>6 DEF CountInv, loop
  <1>7. CASE Pass(x)
    <2>1. /\ phase' = "Delivering" /\ batch' = <<x>> /\ out' = out /\ held' = held
          /\ pc' = pc /\ UNCHANGED loop /\ out = given
      BY <1>1, <1>2, <1>4, <1>7 DEF Pass, stream
    <2>2. out' \o batch' = given'
      BY <1>1, <1>2, <2>1
    <2>. QED
      BY <1>1, <1>3, <1>4, <1>6, <2>1, <2>2 DEF IInv, StreamInv, loop
  <1>8. CASE Hold(x)
    <2>1. /\ phase' = "Holding" /\ batch' = <<>> /\ out' = <<>> /\ held' = given'
          /\ pc' = pc /\ UNCHANGED loop
      BY <1>1, <1>4, <1>8 DEF Hold
    <2>2. out' \o batch' = <<>>
      BY <2>1
    <2>. QED
      BY <1>1, <1>3, <1>4, <1>6, <2>1, <2>2, EmptyKeeps DEF StreamInv, loop
  <1>9. CASE Release(x)
    <2>1. /\ phase' = "Delivering" /\ batch' = given' /\ out' = <<>> /\ held' = <<>>
          /\ pc' = pc /\ UNCHANGED loop
      BY <1>1, <1>4, <1>9 DEF Release
    <2>2. out' \o batch' = given'
      BY <1>1, <1>2, <2>1
    <2>. QED
      BY <1>1, <1>3, <1>4, <1>6, <2>1, <2>2, EmptyKeeps DEF StreamInv, loop
  <1>10. CASE Reconnect(x)
    <2>1. phase = "Holding" /\ EndsAttempt(x) /\ Abandon(Classified(x), x)
      BY <1>10 DEF Reconnect
    <2>2. IsTerminal(x) /\ Classified(x) \in Error
      BY <2>1, ErrorsAreItems DEF EndsAttempt, IsTerminal, IsIncomplete, Classified
    <2>3. NothingSeen /\ MayFollow(held, x)
      BY <1>1, <1>4, <2>1 DEF NothingSeen, IInv, StreamInv
    <2>4. StreamInv'
      BY <1>1, <1>3, <2>1, <2>2, <2>3, AbandonKeepsStream
    <2>5. CountInv'
      BY <1>1, <1>5, <2>1, <2>2, AbandonKeepsCount
    <2>. QED
      BY <2>4, <2>5
  <1>. QED
    BY <1>7, <1>8, <1>9, <1>10 DEF Step

LEMMA InnerGuardFiresKeeps ==
    ASSUME IInv, InnerGuardFires
    PROVE  CountInv' /\ StreamInv'
  <1>1. GuardError \in Error /\ GuardError.retry = "Never" /\ Err(GuardError) \in Item
    BY ErrorsAreItems
  <1>2. CASE pc \in {"Dispatch", "Opening"} /\ AttemptFails(GuardError)
    BY <1>1, <1>2, AttemptFailsKeeps
  <1>3. CASE Step(Err(GuardError))
    <2>1. /\ pc = "Reading" /\ batch = <<>>
          /\ held \in Seq(Event) /\ out \in Seq(Item) /\ phase \in {"Holding", "Delivering"}
      BY <1>3 DEF Step, IInv, TypeOK
    <2>2. given = held \/ given = out
      BY <2>1 DEF IInv, StreamInv, Closing
    <2>3. \A i \in DOMAIN held : ~IsTerminal(held[i])
      BY <2>1, ErrorsAreItems
    <2>4. \A i \in DOMAIN out : ~IsTerminal(out[i])
      BY <2>1 DEF IInv, StreamInv
    <2>5. MayFollow(given, Err(GuardError))
      BY <2>2, <2>3, <2>4, ErrorMayFollow
    <2>. QED
      BY <1>1, <1>3, <2>5, StepKeeps
  <1>. QED
    BY <1>2, <1>3 DEF InnerGuardFires

LEMMA NextIInv == IInv /\ [Next]_vars => IInv'
  <1>. SUFFICES ASSUME IInv, [Next]_vars PROVE CountInv' /\ StreamInv'
    BY NextTypes DEF IInv
  <1>1. CASE Enter
    BY <1>1, UnmovedKeeps DEF Enter, call, loop, stream
  <1>2. CASE GuardFires
    BY <1>2, GuardFiresKeeps
  <1>3. CASE Pend
    BY <1>3, UnmovedKeeps DEF Pend, call, loop, stream
  <1>4. CASE Deliver
    BY <1>4, DeliverKeeps
  <1>5. CASE Wake
    <2>1. /\ pc = "Backoff" /\ pc' = "Dispatch" /\ attempt' = attempt + 1
          /\ UNCHANGED <<op, stage, phase, held, batch, given, out, dispatches, reports>>
      BY <1>5 DEF Wake, call, stream
    <2>2. CountInv'
      BY <2>1, PolicyAssumption DEF IInv, TypeOK, CountInv
    <2>3. StreamInv'
      BY <2>1 DEF IInv, StreamInv
    <2>. QED
      BY <2>2, <2>3
  <1>6. CASE Dispatch
    <2>1. /\ pc = "Dispatch" /\ pc' = "Opening" /\ dispatches' = dispatches + 1
          /\ UNCHANGED <<op, stage, phase, attempt, held, batch, given, out, reports>>
      BY <1>6 DEF Dispatch, call, stream
    <2>2. CountInv'
      BY <2>1 DEF IInv, TypeOK, CountInv
    <2>3. StreamInv'
      BY <2>1 DEF IInv, StreamInv
    <2>. QED
      BY <2>2, <2>3
  <1>7. CASE InnerGuardFires
    BY <1>7, InnerGuardFiresKeeps
  <1>8. CASE Answer
    <2>1. ASSUME NEW e \in ProviderErrors, pc = "Opening", AttemptFails(e)
          PROVE  CountInv' /\ StreamInv'
      BY <2>1, ErrorsAreItems, AttemptFailsKeeps
    <2>2. CASE AttemptStreams
      BY <2>2, AttemptStreamsKeeps
    <2>3. ASSUME NEW r \in Ended, AttemptResponds(r) PROVE CountInv' /\ StreamInv'
      BY <2>3, AttemptRespondsKeeps
    <2>4. ASSUME NEW x \in ProviderItems, Step(x) PROVE CountInv' /\ StreamInv'
      <3>1. x \in Item /\ MayFollow(given, x)
        BY ProviderItemsAreItems DEF ProviderItems
      <3>. QED
        BY <2>4, <3>1, StepKeeps
    <2>. QED
      BY <1>8, <2>1, <2>2, <2>3, <2>4 DEF Answer
  <1>9. CASE Cancel
    BY <1>9, UnmovedKeeps DEF Cancel, loop, stream
  <1>10. CASE Drop
    BY <1>10, DropKeeps
  <1>11. CASE Tick
    BY <1>11, UnmovedKeeps DEF Tick, loop, stream
  <1>12. CASE UNCHANGED vars
    BY <1>12, UnmovedKeeps DEF vars, call, loop, stream
  <1>. QED
    BY <1>1, <1>2, <1>3, <1>4, <1>5, <1>6, <1>7, <1>8, <1>9, <1>10, <1>11, <1>12
       DEF Next, Poll, Finished

\* IInv is inductive: it says how the counters, the stage, what is held and what
\* has been given out move together.
THEOREM Invariant == Spec => []IInv
  BY InitIInv, NextIInv, PTL DEF Spec

----------------------------------------------------------------------------
(* What is delivered is what the attempt gave *)

\* h is a beginning of g.
Begins(h, g) == \A i \in 1..Len(h) : i <= Len(g) /\ h[i] = g[i]

\* Every item of w is the item of g at its place, but for an error at the end.
Echoes(w, g) ==
    \A i \in 1..Len(w) :
        \/ i <= Len(g) /\ w[i] = g[i]
        \/ i = Len(w) /\ w[i].type = "Err"

\* A response in w ends a stream that was handed on whole.
WholeWhenEnded(w, g) == \A i \in 1..Len(w) : w[i].type = "Ended" => w = g

PlainErrors(w) == \A i \in 1..Len(w) : w[i].type = "Err" => w[i].error.kind # "Incomplete"

\* Seen and pending items together are what the attempt gave, and so far as
\* events are held they are what it gave first, for an abandoned attempt as well.
EchoInv ==
    /\ PlainErrors(out) /\ PlainErrors(batch)
    /\ op = "Stream" =>
          /\ Echoes(out \o batch, given)
          /\ WholeWhenEnded(out \o batch, given)
          /\ Begins(held, given)

LEMMA PlainAppend ==
    ASSUME NEW w \in Seq(Item), NEW x \in Item, PlainErrors(w),
           x.type = "Err" => x.error.kind # "Incomplete"
    PROVE  PlainErrors(Append(w, x))
  BY DEF PlainErrors

\* Events never hold an error.
LEMMA EventsArePlain ==
    ASSUME NEW w \in Seq(Event)
    PROVE  PlainErrors(w) /\ \A i \in 1..Len(w) : w[i].type \notin {"Err", "Ended"}
  BY DEF PlainErrors, Event

\* An item that may close the call: its error is not the policy's own.
LEMMA PlainItems ==
    /\ \A e \in ProviderErrors \cup {GuardError} : Err(e).error.kind # "Incomplete"
    /\ \A x \in ProviderItems : x.type = "Err" => x.error.kind # "Incomplete"
    /\ Err(Final("Middleware")).error.kind # "Incomplete"
    /\ \A r \in Ended : r.type = "Ended"
  BY DEF ProviderErrors, ProviderItems, ItemsFailingWith, Event, Ended, GuardError, Final, Err

\* An error after items that echo the attempt.
LEMMA ErrorEchoes ==
    ASSUME NEW w \in Seq(Item), NEW g \in Seq(Item), NEW x \in Item, x.type = "Err",
           Begins(w, g), \A i \in 1..Len(w) : w[i].type # "Ended"
    PROVE  Echoes(Append(w, x), g) /\ WholeWhenEnded(Append(w, x), g)
  BY DEF Echoes, WholeWhenEnded, Begins

\* Items that have not ended the stream echo the attempt from the start.
LEMMA OpenEchoes ==
    ASSUME NEW w \in Seq(Item), NEW g \in Seq(Item), NEW t \in Seq(Item),
           Echoes(w \o t, g), \A i \in DOMAIN w : ~IsTerminal(w[i])
    PROVE  Begins(w, g) /\ Echoes(w, g) /\ WholeWhenEnded(w, g)
  <1>1. \A i \in 1..Len(w) : i \in 1..Len(w \o t) /\ (w \o t)[i] = w[i]
    OBVIOUS
  <1>2. \A i \in 1..Len(w) : w[i].type # "Err" /\ w[i].type # "Ended"
    BY DEF IsTerminal
  <1>3. Begins(w, g)
    BY <1>1, <1>2 DEF Begins, Echoes
  <1>. QED
    BY <1>2, <1>3 DEF Begins, Echoes, WholeWhenEnded

LEMMA SelfEchoes ==
    ASSUME NEW g \in Seq(Item)
    PROVE  Echoes(g, g) /\ WholeWhenEnded(g, g) /\ Begins(g, g) /\ Begins(<<>>, g)
  BY DEF Echoes, WholeWhenEnded, Begins

LEMMA NothingEchoes ==
    ASSUME NEW g
    PROVE  Echoes(<<>>, g) /\ WholeWhenEnded(<<>>, g) /\ Begins(<<>>, g) /\ PlainErrors(<<>>)
  BY DEF Echoes, WholeWhenEnded, Begins, PlainErrors

\* A list that goes on with the first of another, and then with its rest.
LEMMA HeadMoves ==
    ASSUME NEW S, NEW s \in Seq(S), NEW t \in Seq(S), t # <<>>
    PROVE  Append(s, Head(t)) \o Tail(t) = s \o t
  OBVIOUS

\* A terminal item is the last one of a history that keeps the contract.
LEMMA TerminalIsLast ==
    ASSUME NEW s \in Seq(Item), NEW t \in Seq(Item), t # <<>>, IsTerminal(Head(t)),
           KeepsContract(s \o t)
    PROVE  s \o t = Append(s, Head(t))
  <1>. DEFINE w == s \o t
              k == Len(s) + 1
  <1>1. w \in Seq(Item) /\ k \in 1..Len(w) /\ w[k] = Head(t) /\ Len(w) = Len(s) + Len(t)
    OBVIOUS
  <1>2. Len(w) = k
    <2>. SUFFICES ASSUME k + 1 \in 1..Len(w) PROVE FALSE
      BY <1>1
    <2>1. MayFollow(SubSeq(w, 1, k), w[k + 1])
      BY DEF KeepsContract
    <2>2. k \in DOMAIN SubSeq(w, 1, k) /\ SubSeq(w, 1, k)[k] = w[k]
      BY <1>1
    <2>. QED
      BY <1>1, <2>1, <2>2 DEF MayFollow
  <1>3. Len(s) \in Nat /\ Len(t) \in Nat
    OBVIOUS
  <1>4. Len(t) = 1
    <2>. DEFINE m == Len(s)
                l == Len(t)
    <2>1. m + l = m + 1
      BY <1>1, <1>2, Zenon
    <2>2. m \in Nat /\ l \in Nat
      BY <1>3
    <2>3. l = 1
      <3>. HIDE DEF m, l
      <3>. QED
        BY <2>1, <2>2
    <2>. QED
      BY <2>3
  <1>5. t = <<Head(t)>>
    BY <1>4
  <1>6. s \o <<Head(t)>> = Append(s, Head(t))
    BY <1>4
  <1>. QED
    BY <1>5, <1>6

----------------------------------------------------------------------------
LEMMA GiveUpEchoes ==
    ASSUME TypeOK, TypeOK', NothingSeen, EchoInv, op' = op,
           NEW x \in Item, GiveUp(x),
           x.type = "Err" => x.error.kind # "Incomplete",
           op = "Stream" =>
              \/ stage = "Stream" /\ held = given /\ given' = Append(given, x)
              \/ given' = given /\ x.type = "Err"
    PROVE  EchoInv'
  <1>0. /\ held \in Seq(Event) /\ held \in Seq(Item) /\ given \in Seq(Item)
        /\ given' \in Seq(Item) /\ out = <<>> /\ batch = <<>> /\ op \in {"Complete", "Stream"}
    BY ErrorsAreItems DEF TypeOK, NothingSeen
  <1>1. PlainErrors(held) /\ \A i \in 1..Len(held) : held[i].type # "Ended"
    BY <1>0, EventsArePlain
  <1>2. PlainErrors(<<>>) /\ PlainErrors(Append(<<>>, x)) /\ PlainErrors(Append(held, x))
    <2>1. <<>> \in Seq(Item)
      OBVIOUS
    <2>. QED
      BY <1>0, <1>1, <2>1, NothingEchoes, PlainAppend
  <1>3. CASE stage = "Request" /\ Return(x)
    <2>1. /\ out' = Append(<<>>, x) /\ batch' = <<>> /\ held' = held
      BY <1>0, <1>3 DEF Return, stream
    <2>2. out' \o batch' = Append(<<>>, x)
      BY <2>1
    <2>3. ASSUME op = "Stream"
          PROVE  /\ Echoes(Append(<<>>, x), given') /\ WholeWhenEnded(Append(<<>>, x), given')
                 /\ Begins(held, given')
      <3>1. given' = given /\ x.type = "Err"
        BY <1>3, <2>3
      <3>2. <<>> \in Seq(Item) /\ Begins(<<>>, given) /\ \A i \in 1..Len(<<>>) : <<>>[i].type # "Ended"
        BY DEF Begins
      <3>3. Begins(held, given)
        BY <2>3 DEF EchoInv
      <3>. QED
        BY <1>0, <3>1, <3>2, <3>3, ErrorEchoes
    <2>. QED
      BY <1>2, <2>1, <2>2, <2>3 DEF EchoInv
  <1>4. CASE stage = "Stream" /\ batch' = Append(held, x) /\ held' = <<>> /\ out' = out
    <2>1. out' \o batch' = Append(held, x)
      BY <1>0, <1>4
    <2>2. ASSUME op = "Stream"
          PROVE  Echoes(Append(held, x), given') /\ WholeWhenEnded(Append(held, x), given')
      <3>1. CASE held = given /\ given' = Append(given, x)
        BY <1>0, <3>1, SelfEchoes
      <3>2. CASE given' = given /\ x.type = "Err"
        BY <1>0, <1>1, <2>2, <3>2, ErrorEchoes DEF EchoInv
      <3>. QED
        BY <2>2, <3>1, <3>2
    <2>. QED
      BY <1>0, <1>2, <1>4, <2>1, <2>2, NothingEchoes DEF EchoInv
  <1>. QED
    BY <1>3, <1>4, Zenon DEF GiveUp

\* A retry gives the caller nothing and keeps what is held.
LEMMA RetryEchoes ==
    ASSUME NothingSeen, EchoInv, op' = op, NEW delay, Retry(delay),
           op = "Stream" => Begins(held, given')
    PROVE  EchoInv'
  <1>1. out' = <<>> /\ batch' = <<>> /\ held' = held
    BY DEF NothingSeen, Retry, stream
  <1>2. out' \o batch' = <<>>
    BY <1>1
  <1>. QED
    BY <1>1, <1>2, NothingEchoes DEF EchoInv

LEMMA AbandonEchoes ==
    ASSUME TypeOK, TypeOK', NothingSeen, EchoInv, op' = op,
           NEW e, NEW x \in Item, Abandon(e, x),
           x.type = "Err" => x.error.kind # "Incomplete",
           op = "Stream" =>
              \/ stage = "Stream" /\ held = given /\ given' = Append(given, x)
              \/ given' = given /\ x.type = "Err"
    PROVE  EchoInv'
  <1>1. op = "Stream" => Begins(held, given')
    <2>1. given \in Seq(Item)
      BY DEF TypeOK
    <2>2. held = given /\ given' = Append(given, x) => Begins(held, given')
      BY <2>1 DEF Begins
    <2>3. op = "Stream" => Begins(held, given)
      BY DEF EchoInv
    <2>. QED
      BY <2>2, <2>3
  <1>. QED
    BY <1>1, RetryEchoes, GiveUpEchoes, Zenon DEF Abandon

LEMMA StepEchoes ==
    ASSUME IInv, EchoInv, TypeOK', NEW x \in Item, Step(x),
           x.type = "Err" => x.error.kind # "Incomplete"
    PROVE  EchoInv'
  <1>1. /\ pc = "Reading" /\ batch = <<>> /\ given' = Append(given, x) /\ op' = op /\ TypeOK
        /\ stage = "Stream" /\ op = "Stream"
    BY DEF Step, IInv, TypeOK, StreamInv, call
  <1>2. /\ given \in Seq(Item) /\ out \in Seq(Item) /\ given' \in Seq(Item)
        /\ phase = "Holding" => out = <<>> /\ held = given /\ held \in Seq(Event)
        /\ phase = "Delivering" => out = given
    BY <1>1 DEF IInv, StreamInv, Closing, TypeOK
  <1>3. PlainErrors(<<>>) /\ PlainErrors(<<x>>) /\ PlainErrors(out)
    BY NothingEchoes DEF EchoInv, PlainErrors
  <1>4. CASE Pass(x)
    <2>1. out' = given /\ batch' = <<x>> /\ held' = held /\ out' = out
      BY <1>2, <1>4 DEF Pass, stream
    <2>2. out' \o batch' = given'
      BY <1>1, <1>2, <2>1
    <2>3. Begins(held', given')
      <3>1. Begins(held, given) /\ held \in Seq(Event)
        BY <1>1 DEF EchoInv, TypeOK
      <3>2. \A i \in 1..Len(given) : given'[i] = given[i] /\ i <= Len(given')
        BY <1>1, <1>2
      <3>. QED
        BY <2>1, <1>2, <3>1, <3>2 DEF Begins
    <2>. QED
      BY <1>2, <1>3, <2>1, <2>2, <2>3, SelfEchoes DEF EchoInv
  <1>5. CASE Hold(x)
    <2>1. out' = <<>> /\ batch' = <<>> /\ held' = given'
      BY <1>1, <1>2, <1>5 DEF Hold
    <2>2. out' \o batch' = <<>>
      BY <2>1
    <2>. QED
      BY <1>2, <1>3, <2>1, <2>2, SelfEchoes, NothingEchoes DEF EchoInv
  <1>6. CASE Release(x)
    <2>1. out' = <<>> /\ batch' = given' /\ held' = <<>>
      BY <1>1, <1>2, <1>6 DEF Release
    <2>2. out' \o batch' = given'
      BY <1>2, <2>1
    <2>3. PlainErrors(batch')
      <3>1. held \in Seq(Item) /\ PlainErrors(held) /\ batch' = Append(held, x)
        BY <1>2, <1>6, EventsArePlain DEF Release
      <3>. QED
        BY <3>1, PlainAppend
    <2>. QED
      BY <1>2, <1>3, <2>1, <2>2, <2>3, SelfEchoes DEF EchoInv
  <1>7. CASE Reconnect(x)
    <2>1. /\ phase = "Holding" /\ Abandon(Classified(x), x)
      BY <1>7 DEF Reconnect
    <2>2. NothingSeen /\ held = given
      BY <1>1, <1>2, <2>1 DEF NothingSeen, IInv, StreamInv
    <2>. QED
      BY <1>1, <2>1, <2>2, AbandonEchoes
  <1>. QED
    BY <1>4, <1>5, <1>6, <1>7 DEF Step

\* The caller receives the next item of the last batch, or the guard's error.
LEMMA ReceiveEchoes ==
    ASSUME IInv, EchoInv, GuardFires \/ Deliver \/ Drop
    PROVE  EchoInv'
  <1>1. /\ out \in Seq(Item) /\ batch \in Seq(Item) /\ given \in Seq(Item)
    BY DEF IInv, TypeOK
  <1>2. UNCHANGED <<op, held, given>>
    BY DEF GuardFires, Deliver, Drop, call, stream
  <1>3. PlainErrors(<<>>)
    BY NothingEchoes
  <1>4. ASSUME pc # "Done", op = "Stream"
        PROVE  Begins(out, given) /\ Echoes(out, given) /\ WholeWhenEnded(out, given)
    BY <1>1, <1>4, OpenEchoes DEF EchoInv, IInv, StreamInv
  <1>5. CASE GuardFires
    <2>. DEFINE x == Err(GuardError)
    <2>1. x \in Item /\ x.type = "Err" /\ x.error.kind # "Incomplete"
      BY ErrorsAreItems, PlainItems
    <2>2. out' = Append(out, x) /\ batch' = <<>> /\ pc # "Done"
      BY <1>5 DEF GuardFires
    <2>3. \A i \in 1..Len(out) : out[i].type # "Ended"
      BY <1>1, <2>2 DEF IInv, StreamInv, IsTerminal
    <2>. HIDE DEF x
    <2>4. out' \o batch' = Append(out, x)
      BY <1>1, <2>1, <2>2
    <2>5. PlainErrors(out')
      BY <1>1, <2>1, <2>2, PlainAppend DEF EchoInv
    <2>6. op = "Stream" => Echoes(Append(out, x), given) /\ WholeWhenEnded(Append(out, x), given)
      BY <1>1, <1>4, <2>1, <2>2, <2>3, ErrorEchoes
    <2>. QED
      BY <1>2, <1>3, <2>2, <2>4, <2>5, <2>6 DEF EchoInv
  <1>6. CASE Drop
    <2>1. out' = out /\ batch' = <<>> /\ pc # "Done"
      BY <1>6 DEF Drop
    <2>2. out' \o batch' = out
      BY <1>1, <2>1
    <2>. QED
      BY <1>2, <1>3, <1>4, <2>1, <2>2 DEF EchoInv
  <1>7. CASE Deliver
    <2>. DEFINE x == Head(batch)
    <2>1. batch # <<>> /\ out' = Append(out, x) /\ x \in Item /\ KeepsContract(out \o batch)
      BY <1>1, <1>7 DEF Deliver, IInv, StreamInv
    <2>2. x = batch[1] /\ 1 \in 1..Len(batch)
      BY <1>1, <2>1
    <2>3. PlainErrors(out')
      <3>1. x.type = "Err" => x.error.kind # "Incomplete"
        BY <2>2 DEF EchoInv, PlainErrors
      <3>. HIDE DEF x
      <3>. QED
        BY <1>1, <2>1, <3>1, PlainAppend DEF EchoInv
    <2>4. PlainErrors(batch')
      <3>1. batch' = <<>> \/ batch' = Tail(batch)
        BY <1>7 DEF Deliver
      <3>2. PlainErrors(Tail(batch))
        BY <1>1, <2>1 DEF EchoInv, PlainErrors
      <3>. QED
        BY <1>3, <3>1, <3>2
    <2>5. out' \o batch' = out \o batch
      <3>1. CASE IsTerminal(x)
        <4>1. batch' = <<>>
          BY <1>7, <3>1 DEF Deliver
        <4>2. out \o batch = Append(out, x)
          BY <1>1, <2>1, <3>1, TerminalIsLast
        <4>. HIDE DEF x
        <4>. QED
          BY <1>1, <2>1, <4>1, <4>2
      <3>2. CASE ~IsTerminal(x)
        <4>1. batch' = Tail(batch)
          BY <1>7, <3>2 DEF Deliver
        <4>2. Append(out, x) \o Tail(batch) = out \o batch
          BY <1>1, <2>1, HeadMoves
        <4>. QED
          BY <2>1, <4>1, <4>2, Zenon
      <3>. QED
        BY <3>1, <3>2
    <2>. QED
      BY <1>2, <2>3, <2>4, <2>5 DEF EchoInv
  <1>. QED
    BY <1>5, <1>6, <1>7

LEMMA InitEchoes == Init => EchoInv
  <1>. SUFFICES ASSUME Init PROVE EchoInv
    OBVIOUS
  <1>1. out = <<>> /\ batch = <<>> /\ held = <<>> /\ out \o batch = <<>>
    BY DEF Init
  <1>. QED
    BY <1>1, NothingEchoes DEF EchoInv

LEMMA NextEchoes == IInv /\ EchoInv /\ [Next]_vars => EchoInv'
  <1>. SUFFICES ASSUME IInv, EchoInv, [Next]_vars PROVE EchoInv'
    OBVIOUS
  <1>0. TypeOK /\ TypeOK'
    BY NextTypes DEF IInv
  <1>1. CASE GuardFires \/ Deliver \/ Drop
    BY <1>1, ReceiveEchoes
  <1>2. ASSUME UNCHANGED <<op, held, batch, given, out>> PROVE EchoInv'
    BY <1>2 DEF EchoInv
  <1>3. CASE Enter \/ Pend \/ Wake \/ Dispatch \/ Cancel \/ Tick \/ UNCHANGED vars
    BY <1>2, <1>3 DEF Enter, Pend, Wake, Dispatch, Cancel, Tick, vars, call, loop, stream
  <1>4. ASSUME NEW e \in ProviderErrors \cup {GuardError}, pc \in {"Dispatch", "Opening"},
               AttemptFails(e)
        PROVE  EchoInv'
    <2>1. /\ Abandon(e, Err(e)) /\ op' = op /\ given' = given
      BY <1>4 DEF AttemptFails, call
    <2>2. Err(e) \in Item /\ Err(e).type = "Err" /\ Err(e).error.kind # "Incomplete"
      BY ErrorsAreItems, PlainItems
    <2>3. NothingSeen
      BY <1>4, NothingSeenWhileOpening
    <2>. QED
      BY <1>0, <2>1, <2>2, <2>3, AbandonEchoes
  <1>5. CASE AttemptStreams
    <2>1. /\ out' = <<>> /\ batch' = <<>> /\ held' = <<>> /\ given' = <<>>
      BY <1>5 DEF AttemptStreams, IInv, StreamInv
    <2>2. out' \o batch' = <<>>
      BY <2>1
    <2>. QED
      BY <2>1, <2>2, NothingEchoes DEF EchoInv
  <1>6. ASSUME NEW r \in Ended, AttemptResponds(r) PROVE EchoInv'
    <2>1. /\ pc = "Opening" /\ op' = op /\ given' = given
          /\ \/ op = "Complete" /\ Abandon(IncompleteError, r)
             \/ op = "Complete" /\ Return(r)
             \/ stage = "Stream" /\ GiveUp(Err(Final("Middleware")))
      BY <1>6 DEF AttemptResponds, call
    <2>2. NothingSeen
      BY <2>1, NothingSeenWhileOpening
    <2>3. r \in Item /\ r.type # "Err"
      BY ErrorsAreItems, PlainItems
    <2>4. CASE op = "Complete" /\ Abandon(IncompleteError, r)
      BY <1>0, <2>1, <2>2, <2>3, <2>4, AbandonEchoes
    <2>5. CASE op = "Complete" /\ Return(r)
      <3>1. GiveUp(r)
        BY <2>2, <2>5 DEF GiveUp, NothingSeen
      <3>. QED
        BY <1>0, <2>1, <2>2, <2>3, <2>5, <3>1, GiveUpEchoes
    <2>6. CASE GiveUp(Err(Final("Middleware")))
      <3>. DEFINE x == Err(Final("Middleware"))
      <3>1. x \in Item /\ x.type = "Err" /\ x.error.kind # "Incomplete"
        BY ErrorsAreItems, PlainItems
      <3>. HIDE DEF x
      <3>2. GiveUp(x)
        BY <2>6 DEF x
      <3>. QED
        BY <1>0, <2>1, <2>2, <3>1, <3>2, GiveUpEchoes
    <2>. QED
      BY <2>1, <2>4, <2>5, <2>6
  <1>7. ASSUME NEW x \in ProviderItems, Step(x) PROVE EchoInv'
    BY <1>0, <1>7, ProviderItemsAreItems, PlainItems, StepEchoes
  <1>8. CASE InnerGuardFires
    <2>1. CASE Step(Err(GuardError))
      <3>1. Err(GuardError) \in Item /\ Err(GuardError).error.kind # "Incomplete"
        BY ErrorsAreItems, PlainItems
      <3>. QED
        BY <1>0, <2>1, <3>1, StepEchoes
    <2>. QED
      BY <1>4, <1>8, <2>1 DEF InnerGuardFires
  <1>9. CASE Answer
    BY <1>4, <1>5, <1>6, <1>7, <1>9 DEF Answer
  <1>. QED
    BY <1>1, <1>3, <1>8, <1>9 DEF Next, Poll, Finished

\* What the caller has is one attempt's stream: its items in their order and
\* without gaps, apart from a closing error that is never the policy's own, and
\* all of them when the response has ended.
THEOREM OneAttemptIsDelivered == Spec => []OneAttemptDelivered
  <1>1. IInv /\ EchoInv => OneAttemptDelivered
    <2>. SUFFICES ASSUME IInv, EchoInv PROVE OneAttemptDelivered
      OBVIOUS
    <2>0. /\ out \in Seq(Item) /\ batch \in Seq(Item) /\ given \in Seq(Item)
          /\ KeepsContract(out \o batch) /\ KeepsContract(out)
      BY OutKeeps DEF IInv, TypeOK, StreamInv
    <2>1. \A i \in DOMAIN out : out[i].type = "Err" => out[i].error.kind # "Incomplete"
      BY <2>0 DEF EchoInv, PlainErrors
    <2>2. ASSUME NEW i \in 1..Len(out), i < Len(out)
          PROVE  ~IsTerminal(out[i])
      <3>1. MayFollow(SubSeq(out, 1, Len(out) - 1), out[Len(out)])
        <4>1. Len(out) \in 1..Len(out)
          BY <2>0, <2>2
        <4>. QED
          BY <2>0, <4>1, Zenon DEF KeepsContract
      <3>2. i \in DOMAIN SubSeq(out, 1, Len(out) - 1) /\ SubSeq(out, 1, Len(out) - 1)[i] = out[i]
        BY <2>0, <2>2
      <3>. QED
        BY <3>1, <3>2 DEF MayFollow
    <2>. SUFFICES ASSUME op = "Stream"
                  PROVE  /\ IsPrefix(WithoutError(out), given)
                         /\ out # <<>> /\ Last(out).type = "Ended" => out = given
      BY <2>1 DEF OneAttemptDelivered
    <2>3. \A i \in 1..Len(out) : out[i].type # "Err" => i <= Len(given) /\ out[i] = given[i]
      <3>1. \A i \in 1..Len(out) : i \in 1..Len(out \o batch) /\ (out \o batch)[i] = out[i]
        BY <2>0
      <3>. QED
        BY <3>1 DEF EchoInv, Echoes
    <2>4. ASSUME NEW n \in Nat, n <= Len(out), \A i \in 1..n : out[i].type # "Err"
          PROVE  n <= Len(given) /\ SubSeq(out, 1, n) = SubSeq(given, 1, n)
      <3>1. n <= Len(given)
        BY <2>0, <2>3, <2>4
      <3>. QED
        BY <2>0, <2>3, <2>4, <3>1
    <2>5. IsPrefix(WithoutError(out), given)
      <3>1. CASE out # <<>> /\ out[Len(out)].type = "Err"
        <4>. DEFINE n == Len(out) - 1
        <4>1. WithoutError(out) = SubSeq(out, 1, n)
          BY <3>1 DEF WithoutError, Last, Front
        <4>2. n \in Nat /\ n <= Len(out) /\ \A i \in 1..n : out[i].type # "Err"
          BY <2>0, <2>2, <3>1 DEF IsTerminal
        <4>3. n <= Len(given) /\ SubSeq(out, 1, n) = SubSeq(given, 1, n)
          BY <2>4, <4>2
        <4>4. Len(SubSeq(out, 1, n)) = n /\ SubSeq(SubSeq(out, 1, n), 1, n) = SubSeq(out, 1, n)
          <5>. HIDE DEF n
          <5>1. SubSeq(out, 1, n) \in Seq(Item) /\ Len(SubSeq(out, 1, n)) = n
            BY <2>0, <4>2
          <5>. QED
            BY <5>1
        <4>. QED
          BY <4>1, <4>3, <4>4 DEF IsPrefix
      <3>2. CASE ~(out # <<>> /\ out[Len(out)].type = "Err")
        <4>1. WithoutError(out) = out
          BY <3>2 DEF WithoutError, Last
        <4>2. \A i \in 1..Len(out) : out[i].type # "Err"
          BY <2>0, <2>2, <3>2 DEF IsTerminal
        <4>3. Len(out) <= Len(given) /\ SubSeq(out, 1, Len(out)) = SubSeq(given, 1, Len(out))
          BY <2>0, <2>4, <4>2
        <4>. QED
          BY <4>1, <4>3 DEF IsPrefix
      <3>. QED
        BY <3>1, <3>2
    <2>6. ASSUME out # <<>>, Last(out).type = "Ended" PROVE out = given
      <3>. DEFINE w == out \o batch
                  n == Len(out)
      <3>1. n \in 1..Len(w) /\ w[n] = out[n] /\ out[n].type = "Ended"
        BY <2>0, <2>6 DEF Last
      <3>2. w = given
        BY <3>1 DEF EchoInv, WholeWhenEnded
      <3>3. batch = <<>>
        <4>. SUFFICES ASSUME n + 1 \in 1..Len(w) PROVE FALSE
          BY <2>0
        <4>1. MayFollow(SubSeq(w, 1, n), w[n + 1])
          BY <2>0 DEF KeepsContract
        <4>2. n \in DOMAIN SubSeq(w, 1, n) /\ SubSeq(w, 1, n)[n] = w[n]
          BY <2>0, <3>1
        <4>. QED
          BY <3>1, <4>1, <4>2 DEF MayFollow, IsTerminal
      <3>. QED
        BY <2>0, <3>2, <3>3
    <2>. QED
      BY <2>5, <2>6
  <1>. QED
    BY <1>1, InitEchoes, NextEchoes, Invariant, PTL DEF Spec

----------------------------------------------------------------------------
(* What the invariant gives *)

\* Attempts never exceed the policy's budget, and each attempt after the first
\* was reported once, under the number of the attempt that failed.
THEOREM AttemptsAreAccounted == Spec => []Accounted
  <1>1. IInv => Accounted
    <2>. SUFFICES ASSUME IInv PROVE Accounted
      OBVIOUS
    <2>1. attempt \in Nat \ {0} /\ dispatches \in Nat
          /\ pc \in {"Dispatch", "Opening", "Backoff", "Reading", "Done"}
      BY DEF IInv, TypeOK
    <2>2. Len(reports) \in {attempt - 1, attempt} /\ dispatches \in {attempt - 1, attempt}
      BY <2>1 DEF IInv, CountInv
    <2>3. dispatches <= MaxAttempts
      BY <2>1, <2>2, PolicyAssumption DEF IInv, CountInv
    <2>. QED
      BY <2>2, <2>3 DEF IInv, CountInv, Accounted
  <1>. QED
    BY <1>1, Invariant, PTL

\* A step gives the caller at most one item, and what the caller has keeps the
\* contract.
LEMMA OnlyAppends ==
    ASSUME IInv, IInv', [Next]_vars
    PROVE  out' = out \/ \E x \in Item : out' = Append(out, x) /\ KeepsContract(out')
  <1>1. KeepsContract(out')
    <2>1. out' \in Seq(Item) /\ batch' \in Seq(Item) /\ KeepsContract(out' \o batch')
      BY DEF IInv, TypeOK, StreamInv
    <2>. QED
      BY <2>1, PrefixKeeps
  <1>2. ASSUME NEW x \in Item, GiveUp(x)
        PROVE  out' \in {out, Append(out, x)}
    BY <1>2 DEF GiveUp, Return
  <1>3. ASSUME NEW e, NEW x \in Item, Abandon(e, x)
        PROVE  out' \in {out, Append(out, x)}
    BY <1>2, <1>3 DEF Abandon, Retry
  <1>4. CASE GuardFires
    BY <1>1, <1>4, ErrorsAreItems DEF GuardFires
  <1>5. CASE Deliver
    <2>1. Head(batch) \in Item /\ out' = Append(out, Head(batch))
      BY <1>5 DEF Deliver, IInv, TypeOK
    <2>. QED
      BY <1>1, <2>1
  <1>6. ASSUME NEW e \in Error, AttemptFails(e)
        PROVE  out' = out \/ \E x \in Item : out' = Append(out, x)
    BY <1>3, <1>6, ErrorsAreItems DEF AttemptFails
  <1>7. ASSUME NEW x \in Item, Step(x)
        PROVE  out' = out \/ \E y \in Item : out' = Append(out, y)
    BY <1>3, <1>7 DEF Step, Pass, Hold, Release, Reconnect
  <1>8. ASSUME NEW r \in Ended, AttemptResponds(r)
        PROVE  out' = out \/ \E x \in Item : out' = Append(out, x)
    BY <1>2, <1>3, <1>8, ErrorsAreItems DEF AttemptResponds, Return
  <1>9. CASE InnerGuardFires
    BY <1>1, <1>6, <1>7, <1>9, ErrorsAreItems DEF InnerGuardFires
  <1>10. CASE Answer
    <2>1. CASE AttemptStreams
      BY <2>1 DEF AttemptStreams
    <2>. QED
      BY <1>1, <1>6, <1>7, <1>8, <1>10, <2>1, ErrorsAreItems, ProviderItemsAreItems DEF Answer
  <1>11. CASE Enter \/ Pend \/ Wake \/ Dispatch \/ Cancel \/ Drop \/ Tick \/ UNCHANGED vars
    BY <1>11 DEF Enter, Pend, Wake, Dispatch, Cancel, Drop, Tick, vars
  <1>. QED
    BY <1>4, <1>5, <1>9, <1>10, <1>11 DEF Next, Poll, Finished

\* The layer implements LogicalStream: every item the caller receives may follow
\* the items before it, whichever attempt it came from.
THEOREM RetryIsOneLogicalStream == Spec => OneLogicalStream
  <1>1. Item = Promise!ItemsFailingWith(Error)
    BY DEF Item, ItemsFailingWith, Promise!ItemsFailingWith,
           Event, Promise!Event, Ended, Promise!Ended
  <1>2. ASSUME NEW h, NEW x, MayFollow(h, x)
        PROVE  Promise!MayFollow(h, x)
    BY <1>2 DEF MayFollow, Promise!MayFollow, IsTerminal, Promise!IsTerminal,
            OpenBlocks, Promise!OpenBlocks, Ids, Promise!Ids
  <1>3. Init => Promise!Init
    BY DEF Init, Promise!Init
  <1>4. ASSUME NEW x \in Item, out' = Append(out, x), MayFollow(out, x)
        PROVE  Promise!Receive
    <2>1. x \in Promise!ItemsFailingWith(Error) /\ Promise!MayFollow(out, x)
      BY <1>1, <1>2, <1>4
    <2>. QED
      BY <1>4, <2>1 DEF Promise!Receive
  <1>5. IInv /\ IInv' /\ [Next]_vars => [Promise!Receive]_out
    <2>. SUFFICES ASSUME IInv, IInv', [Next]_vars PROVE out' = out \/ Promise!Receive
      OBVIOUS
    <2>1. out' = out \/ \E x \in Item : out' = Append(out, x) /\ KeepsContract(out')
      BY OnlyAppends
    <2>2. ASSUME NEW x \in Item, out' = Append(out, x), KeepsContract(out')
          PROVE  MayFollow(out, x)
      <3>1. out \in Seq(Item)
        BY DEF IInv, TypeOK
      <3>. QED
        BY <2>2, <3>1, LastFollows
    <2>. QED
      BY <1>4, <2>1, <2>2
  <1>. QED
    BY <1>3, <1>5, Invariant, PTL DEF Spec, OneLogicalStream, Promise!Spec

\* Only a new attempt counts, and only the step that hands it down counts it.
LEMMA DispatchesOnlyByDispatch ==
    ASSUME IInv, [Next]_vars, dispatches' # dispatches
    PROVE  Dispatch
  <1>1. ASSUME NEW x, GiveUp(x) PROVE FALSE
    BY <1>1 DEF GiveUp, Return, loop
  <1>2. ASSUME NEW e, NEW x, Abandon(e, x) PROVE FALSE
    BY <1>1, <1>2 DEF Abandon, Retry
  <1>3. ASSUME NEW x, Step(x) PROVE FALSE
    BY <1>2, <1>3 DEF Step, Pass, Hold, Release, Reconnect, loop
  <1>4. ~Answer
    BY <1>1, <1>2, <1>3
       DEF Answer, AttemptFails, AttemptStreams, AttemptResponds, Return, loop
  <1>5. ~InnerGuardFires
    BY <1>2, <1>3 DEF InnerGuardFires, AttemptFails
  <1>. QED
    BY <1>4, <1>5
       DEF Next, Poll, Enter, GuardFires, Pend, Deliver, Wake, Cancel, Drop, Tick,
           Finished, vars, loop

\* Once the caller has seen content of an attempt there is never another one:
\* a new attempt starts only where nothing has been delivered.
THEOREM ContentIsNeverReplayed == Spec => NoReplay
  <1>1. IInv /\ [Next]_vars => [ContentSeen => dispatches' = dispatches]_vars
    <2>. SUFFICES ASSUME IInv, [Next]_vars, ContentSeen, dispatches' # dispatches
                  PROVE  FALSE
      OBVIOUS
    <2>1. pc = "Dispatch"
      BY DispatchesOnlyByDispatch DEF Dispatch
    <2>2. out = <<>>
      BY <2>1 DEF IInv, StreamInv
    <2>. QED
      BY <2>2 DEF ContentSeen
  <1>. QED
    BY <1>1, Invariant, PTL DEF Spec, NoReplay

\* A stopped call neither sends an attempt nor announces one: every attempt and
\* every retry asks the guard first, in the step that makes it.
THEOREM StoppedCallsStartNothing == Spec => NoWorkAfterStop
  <1>1. [Next]_vars => [Stopped => dispatches' = dispatches /\ reports' = reports]_vars
    <2>. SUFFICES ASSUME [Next]_vars, Stopped
                  PROVE  UNCHANGED <<dispatches, reports>>
      OBVIOUS
    <2>1. ASSUME NEW x, GiveUp(x) PROVE UNCHANGED <<dispatches, reports>>
      BY <2>1 DEF GiveUp, Return, loop
    <2>2. ASSUME NEW e, NEW x, Abandon(e, x) PROVE UNCHANGED <<dispatches, reports>>
      BY <2>1, <2>2 DEF Abandon, Permits
    <2>3. ASSUME NEW x, Step(x) PROVE UNCHANGED <<dispatches, reports>>
      BY <2>2, <2>3 DEF Step, Pass, Hold, Release, Reconnect, loop
    <2>4. ~Answer /\ ~Dispatch
      BY DEF Answer, Dispatch
    <2>5. CASE InnerGuardFires
      BY <2>2, <2>3, <2>5 DEF InnerGuardFires, AttemptFails
    <2>. QED
      BY <2>4, <2>5
         DEF Next, Poll, Enter, GuardFires, Pend, Deliver, Wake, Cancel, Drop, Tick,
             Finished, vars, loop
  <1>. QED
    BY <1>1, PTL DEF Spec, NoWorkAfterStop

=============================================================================
