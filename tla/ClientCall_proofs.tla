-------------------------- MODULE ClientCall_proofs --------------------------
(***************************************************************************)
(* Theorems about one call of a client, for any request, row, policy and   *)
(* provider, and for any layer around them; and about what surrounds the   *)
(* call: what its provider reports and how long it asks to wait.           *)
(***************************************************************************)
EXTENDS MCClientCall, SequenceTheorems, WellFoundedInduction, TLAPS

(***************************************************************************)
(* Totals.                                                                 *)
(***************************************************************************)

\* Every set of natural numbers that has an element has a least one.
LEMMA LeastNumber ==
    ASSUME NEW S \in SUBSET Nat, S # {}
    PROVE  \E n \in S : \A m \in S : n <= m
  <1>1. PICK n \in S : \A m \in S : ~(<<m, n>> \in OpToRel(<, Nat))
    BY NatLessThanWellFounded, WFMin, Zenon
  <1>2. \A m \in S : <<m, n>> \in Nat \X Nat
    OBVIOUS
  <1>3. \A m \in S : m < n => <<m, n>> \in OpToRel(<, Nat)
    BY <1>2 DEF OpToRel
  <1>4. \A m \in S : ~(m < n)
    BY <1>1, <1>3, Zenon
  <1>5. \A m \in S : n <= m
    BY <1>4
  <1>. QED
    BY <1>5

\* What one item adds to a total.
Weight(kind, item) == IF item.type = "Event" /\ item.kind = kind THEN item.size ELSE 0

\* The running totals of some items.
IsTotals(f, kind, items) ==
    f = [n \in 0..Len(items) |-> IF n = 0 THEN 0 ELSE f[n - 1] + Weight(kind, items[n])]

AllItems(items) == items \in Seq(Range(items)) /\ \A item \in Range(items) : IsItem(item)

LEMMA WeightType ==
    ASSUME NEW kind, NEW items, AllItems(items)
    PROVE  \A n \in 1..Len(items) : Weight(kind, items[n]) \in Nat
  <1>. SUFFICES ASSUME NEW n \in 1..Len(items) PROVE Weight(kind, items[n]) \in Nat
    OBVIOUS
  <1>1. IsItem(items[n])
    BY DEF AllItems, Range
  <1>. QED
    BY <1>1 DEF IsItem, Weight, IsResponse, IsError

\* There are running totals: were there none as far as some item, there would
\* be none as far as a first one.
LEMMA TotalsExist ==
    ASSUME NEW kind, NEW items, AllItems(items)
    PROVE  \E f : IsTotals(f, kind, items) /\ \A n \in 0..Len(items) : f[n] \in Nat
  <1>. DEFINE Upto(f, m) == /\ f \in [0..m -> Nat] /\ f[0] = 0
                            /\ \A n \in 1..m : f[n] = f[n - 1] + Weight(kind, items[n])
              Bad == {m \in 0..Len(items) : ~\E f : Upto(f, m)}
  <1>1. Len(items) \in Nat
    BY DEF AllItems
  <1>2. SUFFICES Bad = {}
    <2>1. PICK f : Upto(f, Len(items))
      <3>1. Len(items) \in 0..Len(items)
        BY <1>1
      <3>. HIDE DEF Upto
      <3>. QED
        BY <1>2, <3>1
    <2>2. IsTotals(f, kind, items)
      BY <1>1, <2>1 DEF IsTotals
    <2>. QED
      BY <2>1, <2>2
  <1>3. SUFFICES ASSUME Bad # {} PROVE FALSE
    OBVIOUS
  <1>4. PICK m \in Bad : \A k \in Bad : m <= k
    <2>1. Bad \in SUBSET Nat
      BY <1>1
    <2>. HIDE DEF Bad
    <2>. QED
      BY <1>3, <2>1, LeastNumber
  <1>5. Upto([n \in 0..0 |-> 0], 0)
    OBVIOUS
  <1>6. m \in Nat /\ m \in 1..Len(items) /\ m - 1 \in 0..Len(items) /\ m - 1 \notin Bad
    <2>1. m \in 0..Len(items) /\ 0 \notin Bad
      BY <1>4, <1>5
    <2>. HIDE DEF Bad
    <2>2. m # 0
      BY <1>4, <2>1
    <2>. QED
      BY <1>1, <1>4, <2>1, <2>2
  <1>7. PICK f : Upto(f, m - 1)
    BY <1>6
  <1>. DEFINE g == [n \in 0..m |-> IF n = m THEN f[m - 1] + Weight(kind, items[m]) ELSE f[n]]
  <1>8. Upto(g, m)
    <2>1. Weight(kind, items[m]) \in Nat
      BY <1>6, WeightType
    <2>2. f[m - 1] \in Nat
      BY <1>6, <1>7
    <2>3. g \in [0..m -> Nat] /\ g[0] = 0
      BY <1>6, <1>7, <2>1, <2>2
    <2>4. ASSUME NEW n \in 1..m PROVE g[n] = g[n - 1] + Weight(kind, items[n])
      BY <1>6, <1>7
    <2>. QED
      BY <2>3, <2>4
  <1>. QED
    BY <1>4, <1>8

\* There is one way to total, as far as two sequences agree.
LEMMA TotalsAgree ==
    ASSUME NEW kind, NEW s, NEW t, NEW f, NEW g, AllItems(s), AllItems(t),
           IsTotals(f, kind, s), IsTotals(g, kind, t),
           NEW last \in Nat, last <= Len(s), last <= Len(t), \A n \in 1..last : s[n] = t[n]
    PROVE  \A n \in 0..last : f[n] = g[n]
  <1>. DEFINE Bad == {n \in 0..last : f[n] # g[n]}
  <1>1. SUFFICES ASSUME Bad # {} PROVE FALSE
    OBVIOUS
  <1>2. PICK m \in Bad : \A k \in Bad : m <= k
    <2>1. Bad \in SUBSET Nat
      OBVIOUS
    <2>. HIDE DEF Bad
    <2>. QED
      BY <1>1, <2>1, LeastNumber
  <1>3. /\ \A n \in 0..last : f[n] = IF n = 0 THEN 0 ELSE f[n - 1] + Weight(kind, s[n])
        /\ \A n \in 0..last : g[n] = IF n = 0 THEN 0 ELSE g[n - 1] + Weight(kind, t[n])
    <2>1. Len(s) \in Nat /\ Len(t) \in Nat
      BY DEF AllItems
    <2>2. 0..last \subseteq 0..Len(s) /\ 0..last \subseteq 0..Len(t)
      BY <2>1
    <2>3. \A n \in 0..Len(s) : f[n] = IF n = 0 THEN 0 ELSE f[n - 1] + Weight(kind, s[n])
      BY Zenon DEF IsTotals
    <2>4. \A n \in 0..Len(t) : g[n] = IF n = 0 THEN 0 ELSE g[n - 1] + Weight(kind, t[n])
      BY Zenon DEF IsTotals
    <2>. QED
      BY <2>2, <2>3, <2>4, Zenon
  <1>4. m # 0
    BY <1>2, <1>3
  <1>5. m - 1 \in 0..last /\ m - 1 \notin Bad /\ m \in 1..last
    BY <1>2, <1>4
  <1>. QED
    BY <1>2, <1>3, <1>4, <1>5

\* A total is the last of the running totals.
LEMMA TotalIsLast ==
    ASSUME NEW kind, NEW items, AllItems(items)
    PROVE  \E f : /\ IsTotals(f, kind, items) /\ TotalOf(kind, items) = f[Len(items)]
                  /\ TotalOf(kind, items) \in Nat
  <1>. DEFINE chosen == CHOOSE f : IsTotals(f, kind, items)
  <1>1. PICK f : IsTotals(f, kind, items) /\ \A n \in 0..Len(items) : f[n] \in Nat
    BY TotalsExist
  <1>2. IsTotals(chosen, kind, items)
    BY <1>1
  <1>3. TotalOf(kind, items) = chosen[Len(items)]
    BY DEF TotalOf, IsTotals, Weight
  <1>4. Len(items) \in Nat
    BY DEF AllItems
  <1>5. f[Len(items)] = chosen[Len(items)]
    <2>. HIDE DEF chosen
    <2>. QED
      BY <1>1, <1>2, <1>4, TotalsAgree
  <1>6. f[Len(items)] \in Nat
    BY <1>1, <1>4
  <1>. HIDE DEF chosen
  <1>. QED
    BY <1>2, <1>3, <1>5, <1>6

\* Nothing totals to nothing, and an item adds what it weighs.
LEMMA TotalOfNone == \A kind : TotalOf(kind, <<>>) = 0
  <1>. TAKE kind
  <1>1. AllItems(<<>>)
    BY DEF AllItems, Range
  <1>2. PICK f : IsTotals(f, kind, <<>>) /\ TotalOf(kind, <<>>) = f[Len(<<>>)]
    BY <1>1, TotalIsLast
  <1>. QED
    BY <1>2 DEF IsTotals

LEMMA ItemsAppend ==
    ASSUME NEW items, NEW item, AllItems(items), IsItem(item)
    PROVE  AllItems(Append(items, item))
  <1>. DEFINE more == Append(items, item)
              S == Range(items) \cup {item}
  <1>1. items \in Seq(S) /\ item \in S
    <2>1. items \in Seq(Range(items))
      BY DEF AllItems
    <2>. QED
      BY <2>1, SeqMonotonic
  <1>2. /\ more \in Seq(S) /\ Len(more) = Len(items) + 1
        /\ \A n \in 1..Len(more) : more[n] = IF n <= Len(items) THEN items[n] ELSE item
    BY <1>1
  <1>3. Range(more) \subseteq S /\ \A x \in S : IsItem(x)
    BY <1>2 DEF Range, AllItems
  <1>4. more \in Seq(Range(more))
    <2>1. Len(more) \in Nat /\ DOMAIN more = 1..Len(more)
      BY <1>2
    <2>2. \A n \in 1..Len(more) : more[n] \in Range(more)
      BY <2>1 DEF Range
    <2>. HIDE DEF more
    <2>3. more = [n \in 1..Len(more) |-> more[n]]
      BY <1>2
    <2>. QED
      BY <2>1, <2>2, <2>3, SeqDef
  <1>. QED
    BY <1>3, <1>4 DEF AllItems

LEMMA TotalOfAppend ==
    ASSUME NEW kind, NEW items, NEW item, AllItems(items), IsItem(item)
    PROVE  TotalOf(kind, Append(items, item)) = TotalOf(kind, items) + Weight(kind, item)
  <1>. DEFINE more == Append(items, item)
  <1>1. AllItems(more)
    BY ItemsAppend
  <1>2. PICK f : IsTotals(f, kind, items) /\ TotalOf(kind, items) = f[Len(items)]
    BY TotalIsLast
  <1>3. PICK g : IsTotals(g, kind, more) /\ TotalOf(kind, more) = g[Len(more)]
    BY <1>1, TotalIsLast
  <1>4. /\ Len(items) \in Nat /\ Len(more) = Len(items) + 1 /\ more[Len(more)] = item
        /\ \A n \in 1..Len(items) : more[n] = items[n]
    BY DEF AllItems
  <1>. HIDE DEF more
  <1>5. f[Len(items)] = g[Len(items)]
    BY <1>1, <1>2, <1>3, <1>4, TotalsAgree
  <1>6. g[Len(more)] = g[Len(more) - 1] + Weight(kind, more[Len(more)])
    BY <1>3, <1>4 DEF IsTotals
  <1>7. TotalOf(kind, more) = TotalOf(kind, items) + Weight(kind, item)
    BY <1>2, <1>3, <1>4, <1>5, <1>6
  <1>. QED
    BY <1>7 DEF more

(***************************************************************************)
(* The response policy.                                                    *)
(***************************************************************************)

\* What the policy promises of a whole output.
Within(policy, x) ==
    /\ x.type \in {"Response", "Verdict"} =>
          /\ x.size <= policy.output
          /\ x.raw # NoRaw => policy.retainRaw
    /\ x.type = "Response" => (Unfinished(x) => x.calls = {})

LEMMA FinalIsError ==
    \A kind : /\ IsError(Final(kind)) /\ ~IsRetryable(Final(kind)) /\ IsOutput(Final(kind))
              /\ IsItem(Final(kind)) /\ Final(kind).type = "Error"
  BY DEF Final, Error, IsError, IsRetryable, IsOutput, IsItem

LEMMA OutputTypes ==
    ASSUME NEW x
    PROVE  /\ IsResponse(x) => x.type = "Response"
           /\ IsVerdict(x) => x.type = "Verdict"
           /\ IsStream(x) => x.type = "Stream"
           /\ IsError(x) => x.type = "Error"
           /\ IsOutput(x) => (x.type = "Response" => IsResponse(x))
                                /\ (x.type = "Verdict" => IsVerdict(x))
                                /\ (x.type = "Stream" => IsStream(x))
           /\ IsItem(x) => (x.type = "Response" => IsResponse(x))
                                /\ x.type \in {"Event", "Response", "Error"}
  BY DEF IsResponse, IsVerdict, IsStream, IsError, IsOutput, IsItem

\* Suppressing the calls of an unfinished turn.
LEMMA SuppressKeeps ==
    ASSUME NEW x, IsResponse(x)
    PROVE  /\ IsResponse(Suppress(x))
           /\ Unfinished(Suppress(x)) => Suppress(x).calls = {}
           /\ Suppress(x).size = x.size /\ Suppress(x).limits = x.limits
           /\ Suppress(x).object = x.object /\ x.warnings \subseteq Suppress(x).warnings
  BY DEF Suppress, IsResponse, Unfinished

\* Dropping the raw body.
LEMMA RetainedKeeps ==
    ASSUME NEW policy, NEW x, IsResponse(x) \/ IsVerdict(x)
    PROVE  /\ IsResponse(x) => /\ IsResponse(Retained(policy, x))
                               /\ Retained(policy, x).object = x.object
                               /\ Retained(policy, x).calls = x.calls
                               /\ Unfinished(Retained(policy, x)) = Unfinished(x)
           /\ IsVerdict(x) => /\ IsVerdict(Retained(policy, x))
                              /\ Retained(policy, x).answers = x.answers
                              /\ Retained(policy, x).rounding = x.rounding
           /\ Retained(policy, x).raw # NoRaw => policy.retainRaw
           /\ Retained(policy, x).size = x.size /\ Retained(policy, x).limits = x.limits
           /\ Retained(policy, x).warnings = x.warnings
  BY DEF Retained, IsResponse, IsVerdict, Unfinished

\* What passes the policy is an output of the same kind, with the same
\* content, or the error that says it was too large.
LEMMA PolicyKeeps ==
    ASSUME NEW policy, policy.output \in Nat, NEW x, IsOutput(x)
    PROVE  /\ IsOutput(PolicyOf(policy, x)) /\ Within(policy, PolicyOf(policy, x))
           /\ x.type \notin {"Response", "Verdict"} => PolicyOf(policy, x) = x
           /\ \/ PolicyOf(policy, x) = Final("ResourceLimit")
              \/ PolicyOf(policy, x).type = x.type
           /\ PolicyOf(policy, x).type \in {"Response", "Verdict"} =>
                 /\ PolicyOf(policy, x).type = x.type
                 /\ x.warnings \subseteq PolicyOf(policy, x).warnings
                 /\ PolicyOf(policy, x).limits = x.limits
           /\ PolicyOf(policy, x).type = "Response" => PolicyOf(policy, x).object = x.object
  <1>1. CASE x.type \notin {"Response", "Verdict"}
    <2>1. PolicyOf(policy, x) = x
      BY <1>1 DEF PolicyOf
    <2>. QED
      BY <1>1, <2>1 DEF Within
  <1>2. CASE x.type \in {"Response", "Verdict"} /\ x.size > policy.output
    <2>1. PolicyOf(policy, x) = Final("ResourceLimit")
      BY <1>2 DEF PolicyOf
    <2>. QED
      BY <1>2, <2>1, FinalIsError DEF Within
  <1>3. CASE x.type = "Response" /\ ~(x.size > policy.output)
    <2>. DEFINE kept == Suppress(x)
                out == Retained(policy, kept)
    <2>1. IsResponse(x)
      BY <1>3, OutputTypes
    <2>2. PolicyOf(policy, x) = out
      BY <1>3 DEF PolicyOf
    <2>3. /\ IsResponse(kept) /\ (Unfinished(kept) => kept.calls = {}) /\ kept.size = x.size
          /\ kept.limits = x.limits /\ kept.object = x.object /\ x.warnings \subseteq kept.warnings
      BY <2>1, SuppressKeeps
    <2>4. /\ IsResponse(out) /\ (out.raw # NoRaw => policy.retainRaw) /\ out.size = x.size
          /\ out.limits = x.limits /\ out.object = x.object /\ x.warnings \subseteq out.warnings
          /\ (Unfinished(out) => out.calls = {})
      <3>. HIDE DEF kept
      <3>. QED
        BY <2>3, RetainedKeeps
    <2>. HIDE DEF out
    <2>5. out.type = "Response" /\ out.size <= policy.output
      BY <1>3, <2>1, <2>4 DEF IsResponse
    <2>. QED
      BY <1>3, <2>2, <2>4, <2>5 DEF IsOutput, Within
  <1>4. CASE x.type = "Verdict" /\ ~(x.size > policy.output)
    <2>. DEFINE out == Retained(policy, x)
    <2>1. IsVerdict(x)
      BY <1>4, OutputTypes
    <2>2. PolicyOf(policy, x) = out
      BY <1>4 DEF PolicyOf
    <2>3. /\ IsVerdict(out) /\ (out.raw # NoRaw => policy.retainRaw) /\ out.size = x.size
          /\ out.limits = x.limits /\ x.warnings \subseteq out.warnings
      BY <2>1, RetainedKeeps
    <2>. HIDE DEF out
    <2>4. out.type = "Verdict" /\ out.size <= policy.output
      BY <1>4, <2>1, <2>3 DEF IsVerdict
    <2>. QED
      BY <1>4, <2>2, <2>3, <2>4 DEF IsOutput, Within
  <1>. QED
    BY <1>1, <1>2, <1>3, <1>4

\* A budget that keeps to the output limit.
IsBudget(policy, budget) ==
    budget \in [DOMAIN NoneUsed -> Nat] /\ \A kind \in DOMAIN NoneUsed : budget[kind] <= policy.output

\* One item of a stream, and what a budget becomes when it has passed.
Stepped(policy, budget, item, step) ==
    /\ IsBudget(policy, step.budget) /\ IsItem(step.item)
    /\ EndsStream(step.item) => Within(policy, step.item)
    /\ step.item.type = "Response" =>
          item.type = "Response" /\ item.warnings \subseteq step.item.warnings
    /\ EndsStream(step.item) => step.item.type # "Verdict" /\ step.budget = budget
    /\ ~EndsStream(step.item) =>
          /\ step.item = item
          /\ \A kind \in DOMAIN NoneUsed :
                step.budget[kind] = budget[kind] + Weight(kind, item)

LEMMA StepKeeps ==
    ASSUME NEW policy, policy.output \in Nat, NEW budget, IsBudget(policy, budget),
           NEW item, IsItem(item)
    PROVE  Stepped(policy, budget, item, PolicyStep(policy, budget, item))
  <1>. SUFFICES ASSUME NEW step, step = PolicyStep(policy, budget, item)
                PROVE  Stepped(policy, budget, item, step)
    OBVIOUS
  <1>. USE DEF Stepped
  <1>0. DOMAIN budget = DOMAIN NoneUsed /\ item.type \in {"Event", "Response", "Error"}
    BY OutputTypes DEF IsBudget
  <1>1. CASE item.type = "Event" /\ item.kind \in DOMAIN NoneUsed
    <2>1. item.size \in Nat
      BY <1>1 DEF IsItem, IsResponse, IsError
    <2>2. budget[item.kind] \in Nat
      BY <1>1 DEF IsBudget
    <2>3. CASE budget[item.kind] + item.size > policy.output
      <3>1. step.item = Final("ResourceLimit") /\ step.budget = budget
        BY <1>0, <1>1, <2>3 DEF PolicyStep
      <3>2. /\ IsBudget(policy, step.budget) /\ IsItem(step.item) /\ step.item.type = "Error"
            /\ Within(policy, step.item) /\ EndsStream(step.item)
        BY <3>1, FinalIsError DEF Within, EndsStream
      <3>3. QED
        BY <3>1, <3>2
    <2>4. CASE ~(budget[item.kind] + item.size > policy.output)
      <3>1. step.item = item /\ step.budget = [budget EXCEPT ![item.kind] = @ + item.size]
        BY <1>0, <1>1, <2>4 DEF PolicyStep
      <3>2. IsBudget(policy, step.budget)
        <4>. QED
          BY <1>1, <2>1, <2>2, <2>4, <3>1 DEF IsBudget
      <3>3. \A kind \in DOMAIN NoneUsed : step.budget[kind] = budget[kind] + Weight(kind, item)
        <4>1. \A kind \in DOMAIN NoneUsed : budget[kind] \in Nat
          BY DEF IsBudget
        <4>. QED
          BY <1>0, <1>1, <2>1, <3>1, <4>1 DEF Weight
      <3>4. ~EndsStream(item) /\ item.type # "Response"
        BY <1>1 DEF EndsStream
      <3>5. QED
        BY <3>1, <3>2, <3>3, <3>4
    <2>. QED
      BY <2>3, <2>4
  <1>2. CASE ~(item.type = "Event" /\ item.kind \in DOMAIN NoneUsed)
    <2>1. step.item = PolicyOf(policy, item) /\ step.budget = budget
      BY <1>0, <1>2 DEF PolicyStep
    <2>2. CASE item.type = "Event"
      <3>1. step.item = item
        BY <2>1, <2>2 DEF PolicyOf
      <3>2. \A kind \in DOMAIN NoneUsed : Weight(kind, item) = 0 /\ budget[kind] \in Nat
        BY <1>2, <2>2 DEF Weight, IsBudget
      <3>3. ~EndsStream(item) /\ item.type # "Response"
        BY <2>2 DEF EndsStream
      <3>. QED
        BY <2>1, <3>1, <3>2, <3>3
    <2>3. CASE item.type # "Event"
      <3>1. IsOutput(item) /\ item.type \in {"Response", "Error"}
        BY <1>0, <2>3 DEF IsItem, IsOutput
      <3>2. step.item = Final("ResourceLimit") \/ step.item.type = item.type
        BY <2>1, <3>1, PolicyKeeps
      <3>3. EndsStream(step.item) /\ step.item.type \in {"Response", "Error"}
        BY <3>1, <3>2, FinalIsError DEF EndsStream
      <3>4. IsOutput(step.item) /\ Within(policy, step.item)
        BY <2>1, <3>1, PolicyKeeps
      <3>5. IsItem(step.item)
        BY <3>3, <3>4, OutputTypes DEF IsItem, IsError
      <3>6. step.item.type = "Response" =>
                item.type = "Response" /\ item.warnings \subseteq step.item.warnings
        BY <2>1, <3>1, PolicyKeeps
      <3>. QED
        BY <2>1, <3>3, <3>4, <3>5, <3>6
    <2>. QED
      BY <2>2, <2>3
  <1>. QED
    BY <1>1, <1>2

(***************************************************************************)
(* Only what the row takes is sent.                                        *)
(***************************************************************************)

\* A request that a row takes has nothing that the row denies.
LEMMA NothingDenied ==
    ASSUME RequestFits(Row, request)
    PROVE  Denied = {}
  <1>. DEFINE Picks(p) == ContentSupport(Row.claims, p.kind) = "Unsupported"
  <1>1. ASSUME NEW i \in DOMAIN request.messages, NEW j \in DOMAIN request.messages[i].parts
        PROVE  ~Picks(request.messages[i].parts[j])
    <2>1. request.messages[i].parts[j] \in PartsOf(request)
      BY DEF PartsOf, Range
    <2>. QED
      BY <2>1 DEF RequestFits, ContentFits
  <1>2. FactsWhere(request, LAMBDA m, p : Picks(p)) = {}
    <2>. HIDE DEF Picks
    <2>. QED
      BY <1>1 DEF FactsWhere
  <1>3. ASSUME NEW c \in DOMAIN request.controls
        PROVE  ~DeniesControl(c, request.controls[c])
    <2>1. CASE c = "limit"
      BY <2>1 DEF DeniesControl, RequestFits, LimitFits, Has
    <2>2. CASE c \in {"tools", "sampling"}
      BY <2>2 DEF DeniesControl, RequestFits, ControlsFit, Has
    <2>3. CASE c \in {"choice", "format", "effort", "speed"}
      BY <2>3 DEF DeniesControl, RequestFits, ControlsFit, Has
    <2>4. CASE c \notin {"limit", "tools", "sampling", "choice", "format", "effort", "speed"}
      BY <2>4 DEF DeniesControl
    <2>. QED
      BY <2>1, <2>2, <2>3, <2>4
  <1>4. {n \in DOMAIN request.controls : DeniesControl(n, request.controls[n])} = {}
    BY <1>3
  <1>5. Denied = FactsWhere(request, LAMBDA m, p : Picks(p)) \cup {}
    BY <1>4 DEF Denied
  <1>. QED
    BY <1>2, <1>5

(***************************************************************************)
(* What settles a call is not repeated.                                    *)
(***************************************************************************)

LEMMA SpentQuotaIsFinal ==
    ASSUME NEW code, NEW message, NEW wait,
           code = SpentQuotaCode \/ NamedSpent(message)
    PROVE  ~IsRetryable(Classify(429, code, message, wait))
  <1>1. ReportedKind(429, code, message) = "RateLimit"
    BY DEF ReportedKind, KindOfStatus, NoStatus
  <1>2. Listed("insufficient_quota") = "QuotaExceeded"
    <2>. DEFINE listing == {i \in DOMAIN CodeTables : "insufficient_quota" \in CodeTables[i].codes}
    <2>1. DOMAIN CodeTables = 1..10 /\ 1 \in listing
      BY DEF CodeTables
    <2>2. listing \subseteq 1..10
      BY <2>1
    <2>. DEFINE least == CHOOSE i \in listing : \A j \in listing : i <= j
    <2>3. least = 1
      <3>. HIDE DEF listing
      <3>1. 1 \in listing /\ \A j \in listing : 1 <= j
        BY <2>1, <2>2
      <3>2. least \in listing /\ \A j \in listing : least <= j
        BY <3>1, Zenon
      <3>. HIDE DEF least
      <3>. QED
        BY <2>2, <3>1, <3>2
    <2>4. CodeTables[1].kind = "QuotaExceeded"
      BY DEF CodeTables
    <2>. QED
      BY <2>1, <2>3, <2>4 DEF Listed
  <1>3. KindFromCode(SpentQuotaCode) = "QuotaExceeded"
    BY <1>2 DEF KindFromCode, SpentQuotaCode, Code, Absent
  <1>4. NamedSpent(message) => NamesSpentQuota(message)
    BY DEF NamedSpent, NamesSpentQuota
  <1>. QED
    BY <1>1, <1>3, <1>4 DEF Classify, IsRetryable, Error

LEMMA RefusedIsFinal ==
    ASSUME NEW status \in {401, 403, 404, 412, 413}, NEW code, NEW message, NEW wait
    PROVE  ~IsRetryable(Classify(status, code, message, wait))
  <1>1. ReportedKind(status, code, message) \in
            {"Authentication", "AccessDenied", "NotFound", "ContextLength"}
    BY DEF ReportedKind, KindOfStatus, NoStatus
  <1>. QED
    BY <1>1 DEF Classify, IsRetryable, Error

\* What the adapter makes of a reply that settles its call is no error that may
\* be repeated.
LEMMA SettledMeansFinal ==
    ASSUME NEW answer, Settles(answer)
    PROVE  ~(IsError(Meaning(answer)) /\ IsRetryable(Meaning(answer)))
           /\ Meaning(answer).type # "Stream"
  <1>1. CASE answer.kind = "NotSent"
    BY <1>1, FinalIsError DEF Settles, Meaning, SendError, Error, IsRetryable
  <1>2. CASE answer.kind = "Broken"
    BY <1>2, FinalIsError DEF Settles, Meaning, BodyError
  <1>3. CASE answer.kind = "Status"
    <2>. DEFINE code == FirstField(answer.body, CodeFields, NoCode)
                message == FirstField(answer.body, MessageFields, NoMessage)
    <2>1. Meaning(answer) = HttpError(answer.status, answer.cause, answer.body, answer.wait)
      BY <1>3 DEF Meaning
    <2>2. CASE answer.cause = "TooLong"
      BY <2>1, <2>2, FinalIsError DEF HttpError
    <2>3. CASE answer.cause # "TooLong"
      <3>1. PICK body : /\ Meaning(answer) = ProviderError(answer.status, body, answer.wait)
                        /\ answer.cause = Absent => body = answer.body
        BY <2>1, <2>3 DEF HttpError
      <3>2. Meaning(answer) = Classify(answer.status, FirstField(body, CodeFields, NoCode),
                                       FirstField(body, MessageFields, NoMessage), answer.wait)
        BY <3>1 DEF ProviderError
      <3>3. \/ answer.status \in {401, 403, 404, 412, 413}
            \/ /\ answer.status = 429 /\ answer.cause = Absent
               /\ code = SpentQuotaCode \/ NamedSpent(message)
        BY <1>3 DEF Settles
      <3>4. ~IsRetryable(Meaning(answer))
        BY <3>1, <3>2, <3>3, SpentQuotaIsFinal, RefusedIsFinal
      <3>5. Meaning(answer).type = "Error"
        BY <3>2 DEF Classify, Error
      <3>. QED
        BY <3>4, <3>5
    <2>. QED
      BY <2>2, <2>3
  <1>4. CASE answer.kind = "Refusal"
    BY <1>4, FinalIsError DEF Meaning, Refusal
  <1>5. CASE answer.kind = "Answered" /\ mode = "Evaluate"
    <2>1. Meaning(answer) = DecodeVerdict(call.evaluation, CodecOf(mode), answer.value)
      BY <1>5 DEF Meaning
    <2>2. Meaning(answer) = InvalidVerdict \/ Meaning(answer).type = "Verdict"
      BY <2>1 DEF DecodeVerdict, Verdict
    <2>. QED
      BY <2>2, FinalIsError DEF InvalidVerdict, IsError
  <1>. QED
    BY <1>1, <1>2, <1>3, <1>4, <1>5 DEF Settles

(***************************************************************************)
(* What an adapter makes of a reply.                                       *)
(***************************************************************************)

\* What the assumption says of one reply.
IsReply(m, answer) ==
    /\ answer.kind \in {"NotSent", "Status", "Broken", "Refusal", "Malformed", "Answered", "Streamed"}
    /\ answer.kind = "Broken" => answer.cause \in {"TooLong", "TimedOut", "Lost", "NotJson"}
    /\ answer.kind = "Answered" =>
          IF m = "Evaluate" THEN answer.value.size \in Nat
          ELSE IsResponse(answer.value) \/ answer.value.type = "Count"
    /\ answer.kind = "Streamed" => IsStream(Items(answer.items))

LEMMA ErrorsAreOutputs ==
    ASSUME NEW kind, NEW retry, NEW hint
    PROVE  IsError(Error(kind, retry, hint)) /\ IsOutput(Error(kind, retry, hint))
  BY DEF Error, IsError, IsOutput

LEMMA MeaningIsOutput ==
    ASSUME NEW answer, IsReply(mode, answer)
    PROVE  /\ IsOutput(Meaning(answer))
           /\ Meaning(answer).type = "Stream" =>
                 answer.kind = "Streamed" /\ Meaning(answer) = Items(answer.items)
           /\ Meaning(answer).type \in {"Response", "Verdict"} => answer.kind = "Answered"
           /\ Meaning(answer).type = "Response" => Meaning(answer) = answer.value
           /\ answer.kind = "Streamed" => Meaning(answer).type = "Stream"
  <1>1. CASE answer.kind \in {"NotSent", "Status", "Broken", "Refusal", "Malformed"}
    <2>1. \E kind, retry, hint : Meaning(answer) = Error(kind, retry, hint)
      <3>1. CASE answer.kind = "NotSent"
        BY <3>1 DEF Meaning, SendError, Repeatable
      <3>2. CASE answer.kind = "Status"
        <4>1. Meaning(answer) = HttpError(answer.status, answer.cause, answer.body, answer.wait)
          BY <3>2 DEF Meaning
        <4>. QED
          BY <4>1 DEF HttpError, Final, ProviderError, Classify
      <3>3. CASE answer.kind = "Broken"
        <4>1. Meaning(answer) = BodyError(answer.cause)
          BY <3>3 DEF Meaning
        <4>. QED
          BY <3>3, <4>1 DEF BodyError, Final, Repeatable, IsReply
      <3>4. CASE answer.kind \in {"Refusal", "Malformed"}
        BY <3>4 DEF Meaning, Refusal, MalformedSuccess, Final, Repeatable
      <3>. QED
        BY <1>1, <3>1, <3>2, <3>3, <3>4
    <2>2. IsError(Meaning(answer)) /\ IsOutput(Meaning(answer))
      BY <2>1, ErrorsAreOutputs
    <2>. QED
      BY <1>1, <2>2 DEF IsError
  <1>2. CASE answer.kind = "Answered" /\ mode = "Evaluate"
    <2>1. Meaning(answer) = DecodeVerdict(call.evaluation, CodecOf(mode), answer.value)
      BY <1>2 DEF Meaning
    <2>2. CASE Meaning(answer) = InvalidVerdict
      BY <1>2, <2>2, FinalIsError DEF InvalidVerdict
    <2>3. CASE Meaning(answer) # InvalidVerdict
      <3>1. PICK answers, rounding :
                Meaning(answer) =
                    Verdict(answers, rounding, answer.value.size, answer.value.raw, {}, FALSE)
        BY <2>1, <2>3 DEF DecodeVerdict
      <3>2. answer.value.size \in Nat
        BY <1>2 DEF IsReply
      <3>3. IsVerdict(Meaning(answer))
        BY <3>1, <3>2 DEF Verdict, IsVerdict
      <3>. QED
        BY <1>2, <3>3 DEF IsOutput, IsVerdict
    <2>. QED
      BY <2>2, <2>3
  <1>3. CASE answer.kind = "Answered" /\ mode # "Evaluate"
    <2>1. Meaning(answer) = answer.value
      BY <1>3 DEF Meaning
    <2>. QED
      BY <1>3, <2>1 DEF IsReply, IsOutput, IsResponse
  <1>4. CASE answer.kind = "Streamed"
    <2>1. Meaning(answer) = Items(answer.items)
      BY <1>4 DEF Meaning
    <2>. QED
      BY <1>4, <2>1 DEF IsReply, IsOutput, Items
  <1>. QED
    BY <1>1, <1>2, <1>3, <1>4 DEF IsReply

LEMMA WarningsKeep ==
    ASSUME NEW lost, NEW x
    PROVE  /\ IsOutput(x) => IsOutput(WithWarnings(lost, x))
           /\ IsItem(x) => IsItem(WithWarnings(lost, x))
           /\ IsOutput(x) \/ IsItem(x) =>
                 /\ WithWarnings(lost, x).type = x.type
                 /\ x.type \in {"Response", "Verdict"} =>
                       /\ lost \subseteq WithWarnings(lost, x).warnings
                       /\ WithWarnings(lost, x).limits = x.limits
                 /\ x.type = "Response" => WithWarnings(lost, x).object = x.object
                 /\ x.type \notin {"Response", "Verdict"} => WithWarnings(lost, x) = x
  <1>1. CASE x.type \notin {"Response", "Verdict"}
    BY <1>1 DEF WithWarnings
  <1>2. CASE x.type \in {"Response", "Verdict"}
    <2>. DEFINE out == [x EXCEPT !.warnings = @ \cup lost]
    <2>1. WithWarnings(lost, x) = out
      BY <1>2 DEF WithWarnings
    <2>2. ASSUME IsResponse(x)
          PROVE  /\ IsResponse(out) /\ lost \subseteq out.warnings /\ out.limits = x.limits
                 /\ out.object = x.object
      BY <2>2 DEF IsResponse
    <2>3. ASSUME IsVerdict(x)
          PROVE  IsVerdict(out) /\ lost \subseteq out.warnings /\ out.limits = x.limits
      BY <2>3 DEF IsVerdict
    <2>4. ASSUME IsOutput(x) \/ IsItem(x)
          PROVE  \/ IsResponse(x) /\ x.type = "Response"
                 \/ IsVerdict(x) /\ x.type = "Verdict" /\ ~IsItem(x)
      BY <1>2, <2>4, OutputTypes
    <2>. HIDE DEF out
    <2>5. IsOutput(x) \/ IsItem(x) => out.type = x.type
      BY <2>2, <2>3, <2>4, OutputTypes
    <2>. QED
      BY <1>2, <2>1, <2>2, <2>3, <2>4, <2>5 DEF IsOutput, IsItem
  <1>. QED
    BY <1>1, <1>2

\* A sequence of items is made of items, and the other way around.
LEMMA ItemsOf ==
    ASSUME NEW items
    PROVE  /\ AllItems(items) => /\ Len(items) \in Nat /\ DOMAIN items = 1..Len(items)
                                 /\ \A n \in 1..Len(items) : IsItem(items[n])
           /\ IsStream(Items(items)) <=> AllItems(items)
  BY DEF AllItems, Range, IsStream, Items

LEMMA ItemsFrom ==
    ASSUME NEW length \in Nat, NEW items, items = [n \in 1..length |-> items[n]],
           \A n \in 1..length : IsItem(items[n])
    PROVE  AllItems(items) /\ Len(items) = length
  <1>1. DOMAIN items = 1..length
    OBVIOUS
  <1>2. \A n \in 1..length : items[n] \in Range(items)
    BY <1>1 DEF Range
  <1>3. items \in [1..length -> Range(items)]
    BY <1>2
  <1>4. items \in Seq(Range(items)) /\ Len(items) = length
    BY <1>3
  <1>. QED
    BY <1>1, <1>4 DEF AllItems, Range

\* What an adapter reads of the items of a stream: the warnings are told on
\* every response, and rate limits that came before the end are still there.
Before(items, n) == TellsLimits(items[n]) /\ \A k \in 1..n : ~EndsStream(items[k])

LEMMA DecodedKeeps ==
    ASSUME NEW items, AllItems(items)
    PROVE  /\ AllItems(Decoded(items))
           /\ \A n \in DOMAIN Decoded(items) :
                 Decoded(items)[n].type = "Response" =>
                    /\ \E k \in DOMAIN items : items[k].type = "Response"
                    /\ wire.told \subseteq Decoded(items)[n].warnings
           /\ (\E n \in DOMAIN items : Before(items, n)) =>
                 \E n \in DOMAIN Decoded(items) : Before(Decoded(items), n)
  <1>. DEFINE ends == {n \in DOMAIN items : EndsStream(items[n])}
              last == IF ends = {} THEN Len(items) ELSE CHOOSE n \in ends : \A k \in ends : n <= k
              dec == [n \in 1..last |-> WithWarnings(wire.told, items[n])]
  <1>1. /\ Len(items) \in Nat /\ DOMAIN items = 1..Len(items)
        /\ \A n \in 1..Len(items) : IsItem(items[n])
    BY ItemsOf
  <1>2. Decoded(items) = dec
    BY DEF Decoded
  <1>3. last \in 0..Len(items) /\ (ends = {} => last = Len(items)) /\ (ends # {} => last \in ends)
    <2>1. CASE ends = {}
      BY <1>1, <2>1
    <2>2. CASE ends # {}
      <3>1. ends \in SUBSET Nat /\ ends \subseteq 1..Len(items)
        BY <1>1
      <3>. HIDE DEF ends
      <3>2. \E n \in ends : \A k \in ends : n <= k
        BY <2>2, <3>1, LeastNumber
      <3>3. last \in ends
        BY <2>2, <3>2
      <3>4. last \in 0..Len(items)
        <4>. HIDE DEF last
        <4>. QED
          BY <1>1, <3>1, <3>3
      <3>. QED
        BY <2>2, <3>3, <3>4
    <2>. QED
      BY <2>1, <2>2
  <1>3a. \A n \in ends : n \in 1..Len(items) /\ EndsStream(items[n])
    BY <1>1
  <1>. HIDE DEF last, ends
  <1>3b. last \in Nat /\ 1..last \subseteq 1..Len(items)
    <2>1. Len(items) \in Nat /\ last \in 0..Len(items)
      BY <1>1, <1>3
    <2>. QED
      BY <2>1
  <1>4. \A n \in 1..last : n \in 1..Len(items) /\ dec[n] = WithWarnings(wire.told, items[n])
    BY <1>3b
  <1>5. \A n \in 1..last : IsItem(dec[n]) /\ dec[n].type = items[n].type
                           /\ (dec[n].type = "Response" => wire.told \subseteq dec[n].warnings)
                           /\ (items[n].type # "Response" => dec[n] = items[n])
    <2>. TAKE n \in 1..last
    <2>1. IsItem(items[n])
      BY <1>1, <1>4
    <2>2. items[n].type # "Verdict"
      BY <2>1, OutputTypes
    <2>. QED
      BY <1>4, <2>1, <2>2, WarningsKeep
  <1>6. last \in Nat /\ DOMAIN dec = 1..last /\ dec = [n \in 1..last |-> dec[n]]
    BY <1>3b
  <1>. HIDE DEF dec
  <1>7. AllItems(dec) /\ Len(dec) = last
    BY <1>5, <1>6, ItemsFrom
  <1>8. ASSUME NEW n \in DOMAIN dec, dec[n].type = "Response"
        PROVE  /\ \E k \in DOMAIN items : items[k].type = "Response"
               /\ wire.told \subseteq dec[n].warnings
    BY <1>1, <1>4, <1>5, <1>6, <1>8
  <1>9. ASSUME NEW n \in DOMAIN items, Before(items, n)
        PROVE  \E k \in DOMAIN dec : Before(dec, k)
    <2>1. n \in 1..Len(items) /\ \A k \in 1..n : ~EndsStream(items[k])
      BY <1>1, <1>9 DEF Before
    <2>2. n <= last
      <3>1. CASE ends = {}
        BY <1>1, <1>3, <2>1, <3>1
      <3>2. CASE ends # {}
        <4>1. last \in 1..Len(items) /\ EndsStream(items[last])
          BY <1>3a, <1>3, <3>2
        <4>. QED
          BY <1>1, <2>1, <4>1
      <3>. QED
        BY <3>1, <3>2
    <2>3. n \in 1..last
      BY <1>1, <1>6, <2>1, <2>2
    <2>4. \A k \in 1..n : k \in 1..last /\ dec[k].type = items[k].type
      BY <1>5, <1>6, <2>1, <2>2
    <2>5. TellsLimits(items[n])
      BY <1>9 DEF Before
    <2>6. dec[n] = items[n]
      BY <1>5, <2>3, <2>5 DEF TellsLimits
    <2>7. Before(dec, n)
      BY <2>1, <2>4, <2>5, <2>6 DEF Before, EndsStream
    <2>. QED
      BY <1>6, <2>3, <2>7
  <1>. QED
    BY <1>2, <1>7, <1>8, <1>9

\* The rate limits of the headers go with the response, or lead the stream.
LEMMA LimitedKeeps ==
    ASSUME NEW answer, NEW x, IsOutput(x)
    PROVE  /\ IsOutput(Limited(answer, x)) /\ Limited(answer, x).type = x.type
           /\ x.type \in {"Response", "Verdict"} =>
                 /\ Limited(answer, x).warnings = x.warnings
                 /\ answer.limits => Limited(answer, x).limits
           /\ x.type = "Response" => Limited(answer, x).object = x.object
           /\ x.type \notin {"Response", "Verdict", "Stream"} => Limited(answer, x) = x
           /\ x.type = "Stream" =>
                 LET items == Limited(answer, x).items
                 IN  /\ AllItems(items)
                     /\ \A n \in DOMAIN items : items[n].type = "Response" =>
                           \E k \in DOMAIN x.items : x.items[k].type = "Response"
                     /\ answer.limits \/ (\E n \in DOMAIN x.items : Before(x.items, n)) =>
                           \E n \in DOMAIN items : Before(items, n)
  <1>1. CASE ~answer.limits
    <2>1. Limited(answer, x) = x
      BY <1>1 DEF Limited
    <2>2. x.type = "Stream" => AllItems(x.items)
      <3>. SUFFICES ASSUME x.type = "Stream" PROVE AllItems(x.items)
        OBVIOUS
      <3>. QED
        BY OutputTypes DEF IsStream, AllItems
    <2>. QED
      BY <1>1, <2>1, <2>2
  <1>2. CASE answer.limits /\ x.type \in {"Response", "Verdict"}
    <2>. DEFINE out == [x EXCEPT !.limits = TRUE]
    <2>1. Limited(answer, x) = out
      BY <1>2 DEF Limited
    <2>2. IsResponse(x) => IsResponse(out) /\ out.warnings = x.warnings /\ out.limits
                           /\ out.object = x.object /\ out.type = "Response"
      BY DEF IsResponse
    <2>3. IsVerdict(x) => IsVerdict(out) /\ out.warnings = x.warnings /\ out.limits
                           /\ out.type = "Verdict"
      BY DEF IsVerdict
    <2>. HIDE DEF out
    <2>4. (IsResponse(x) /\ x.type = "Response") \/ (IsVerdict(x) /\ x.type = "Verdict")
      BY <1>2, OutputTypes
    <2>. QED
      BY <1>2, <2>1, <2>2, <2>3, <2>4 DEF IsOutput
  <1>3. CASE answer.limits /\ x.type = "Stream"
    <2>. DEFINE first == Event("RateLimits", 0)
                items == <<first>> \o x.items
    <2>1. Limited(answer, x) = Items(items)
      BY <1>3 DEF Limited
    <2>2. AllItems(x.items)
      BY <1>3, OutputTypes DEF IsStream, AllItems
    <2>3. IsItem(first) /\ TellsLimits(first) /\ ~EndsStream(first) /\ first.type # "Response"
      BY DEF Event, IsItem, TellsLimits, EndsStream
    <2>. HIDE DEF first
    <2>4. x.items \in Seq(Range(x.items)) /\ Len(x.items) \in Nat
          /\ \A n \in 1..Len(x.items) : IsItem(x.items[n])
      BY <2>2, ItemsOf DEF AllItems
    <2>5. /\ Len(items) = Len(x.items) + 1 /\ DOMAIN items = 1..Len(items)
          /\ items[1] = first /\ \A n \in 2..Len(items) : items[n] = x.items[n - 1]
          /\ items = [n \in 1..Len(items) |-> items[n]]
      <3>. DEFINE S == Range(x.items) \cup {first}
      <3>1. x.items \in Seq(S) /\ first \in S
        BY <2>4, SeqMonotonic
      <3>. HIDE DEF S
      <3>. QED
        BY <3>1
    <2>6. \A n \in 2..Len(items) : n - 1 \in 1..Len(x.items)
      BY <2>4, <2>5
    <2>. HIDE DEF items
    <2>7. \A n \in 1..Len(items) : n = 1 \/ n \in 2..Len(items)
      BY <2>4, <2>5
    <2>8. AllItems(items)
      <3>1. \A n \in 1..Len(items) : IsItem(items[n])
        BY <2>3, <2>4, <2>5, <2>6, <2>7
      <3>. QED
        BY <2>4, <2>5, <3>1, ItemsFrom
    <2>9. \A n \in DOMAIN items : items[n].type = "Response" =>
              \E k \in DOMAIN x.items : x.items[k].type = "Response"
      <3>1. DOMAIN x.items = 1..Len(x.items)
        BY <2>2, ItemsOf
      <3>. QED
        BY <2>3, <2>5, <2>6, <2>7, <3>1
    <2>10. 1 \in DOMAIN items /\ Before(items, 1)
      <3>1. 1 \in DOMAIN items
        BY <2>4, <2>5
      <3>. QED
        BY <2>3, <2>5, <3>1 DEF Before
    <2>11. Limited(answer, x).type = "Stream" /\ Limited(answer, x).items = items
      BY <2>1 DEF Items
    <2>12. IsStream(Limited(answer, x))
      BY <2>1, <2>8, ItemsOf
    <2>. QED
      BY <1>3, <2>8, <2>9, <2>10, <2>11, <2>12 DEF IsOutput
  <1>4. CASE answer.limits /\ x.type \notin {"Response", "Verdict", "Stream"}
    <2>1. Limited(answer, x) = x
      BY <1>4 DEF Limited
    <2>. QED
      BY <1>4, <2>1
  <1>. QED
    BY <1>1, <1>2, <1>3, <1>4

\* What a stream is folded into is the response at its end, with the rate
\* limits that came before it, or an error.
LEMMA FoldedKeeps ==
    ASSUME NEW policy, policy.output \in Nat, NEW items, AllItems(items)
    PROVE  LET x == Folded(policy, items)
           IN  /\ IsOutput(x) /\ x.type \in {"Response", "Error"}
               /\ x.type = "Response" =>
                     /\ \E n \in DOMAIN items :
                           items[n].type = "Response" /\ items[n].warnings \subseteq x.warnings
                     /\ (\E n \in DOMAIN items : Before(items, n)) => x.limits
  <1>. DEFINE ends == {n \in DOMAIN items : EndsStream(items[n]) \/ Exceeds(policy, items, n)}
                          \cup {Len(items) + 1}
              end == CHOOSE n \in ends : \A k \in ends : n <= k
              next == NextItem(SubSeq(items, end, Len(items)))
              last == PolicyOf(policy, next)
              tells == \E n \in 1..(end - 1) : TellsLimits(items[n])
              out == [last EXCEPT !.limits = @ \/ tells]
              x == Folded(policy, items)
  <1>1. /\ Len(items) \in Nat /\ DOMAIN items = 1..Len(items)
        /\ \A n \in 1..Len(items) : IsItem(items[n])
    BY ItemsOf
  <1>2. x = IF last.type = "Event" THEN Final("ResourceLimit")
            ELSE IF last.type = "Error" THEN last ELSE out
    BY DEF Folded
  <1>3. end \in ends
    <2>1. ends \in SUBSET Nat /\ ends # {}
      BY <1>1
    <2>. HIDE DEF ends
    <2>2. \E n \in ends : \A k \in ends : n <= k
      BY <2>1, LeastNumber
    <2>. QED
      BY <2>2
  <1>4. end = Len(items) + 1 \/ (end \in 1..Len(items) /\ next = items[end])
    <2>. HIDE DEF end
    <2>1. end = Len(items) + 1 \/ end \in 1..Len(items)
      BY <1>1, <1>3
    <2>2. ASSUME end \in 1..Len(items) PROVE next = items[end]
      <3>1. items \in Seq(Range(items))
        BY DEF AllItems
      <3>2. SubSeq(items, end, Len(items)) # <<>> /\ Head(SubSeq(items, end, Len(items))) = items[end]
        <4>1. Len(items) \in Nat /\ end \in 1..Len(items)
          BY <1>1, <2>2
        <4>2. SubSeq(items, end, Len(items)) = [i \in 1..(Len(items) - end + 1) |-> items[i + end - 1]]
          BY <3>1, <4>1
        <4>3. Len(items) - end + 1 \in Nat /\ Len(items) - end + 1 >= 1 /\ 1 + end - 1 = end
          BY <4>1
        <4>4. SubSeq(items, end, Len(items)) \in Seq(Range(items))
              /\ Len(SubSeq(items, end, Len(items))) = Len(items) - end + 1
          BY <3>1, <4>1, <4>3
        <4>5. SubSeq(items, end, Len(items))[1] = items[end]
          BY <4>1, <4>2, <4>3
        <4>. DEFINE rest == SubSeq(items, end, Len(items))
        <4>6. rest \in Seq(Range(items)) /\ Len(rest) >= 1 /\ rest[1] = items[end]
          BY <4>3, <4>4, <4>5
        <4>. HIDE DEF rest
        <4>7. rest # <<>> /\ Head(rest) = items[end]
          BY <4>6
        <4>. QED
          BY <4>7 DEF rest
      <3>. QED
        BY <3>2 DEF NextItem
    <2>. QED
      BY <2>1, <2>2
  <1>5. ASSUME end = Len(items) + 1 PROVE IsError(next)
    <2>1. items \in Seq(Range(items))
      BY DEF AllItems
    <2>. HIDE DEF end
    <2>2. SubSeq(items, end, Len(items)) = <<>>
      BY <1>1, <1>5, <2>1
    <2>. QED
      BY <2>2 DEF NextItem, ChunkError, Repeatable, Error, IsError
  <1>. HIDE DEF end
  <1>6. IsItem(next) /\ next.type \in {"Event", "Response", "Error"}
    <2>1. IsItem(next)
      BY <1>1, <1>4, <1>5 DEF IsItem
    <2>. QED
      BY <2>1, OutputTypes
  <1>. HIDE DEF next
  <1>7. CASE next.type = "Event"
    <2>1. last = next
      BY <1>7 DEF PolicyOf
    <2>. HIDE DEF last
    <2>2. x = Final("ResourceLimit")
      BY <1>2, <1>7, <2>1
    <2>. HIDE DEF x
    <2>3. IsOutput(x) /\ x.type = "Error"
      BY <2>2, FinalIsError
    <2>. QED
      BY <2>3 DEF x
  <1>8. CASE next.type \in {"Response", "Error"}
    <2>1. IsOutput(next)
      BY <1>6, <1>8 DEF IsItem, IsOutput
    <2>2. IsOutput(last) /\ last.type \in {"Response", "Error"}
          /\ (last.type = "Response" => next.type = "Response" /\ next.warnings \subseteq last.warnings)
      BY <1>8, <2>1, PolicyKeeps, FinalIsError
    <2>. HIDE DEF last
    <2>3. CASE last.type = "Error"
      <3>1. x = last
        BY <1>2, <2>3
      <3>. HIDE DEF x
      <3>2. IsOutput(x) /\ x.type = "Error"
        BY <2>2, <2>3, <3>1
      <3>. QED
        BY <3>2 DEF x
    <2>4. CASE last.type = "Response"
      <3>1. x = out
        BY <1>2, <2>4
      <3>2. IsResponse(last)
        BY <2>2, <2>4, OutputTypes
      <3>3. /\ out.type = "Response" /\ out.warnings = last.warnings /\ (tells => out.limits)
            /\ IsResponse(out)
        <4>. HIDE DEF tells
        <4>1. /\ out.type = "Response" /\ out.warnings = last.warnings /\ out.size = last.size
              /\ out.object = last.object /\ DOMAIN out = DOMAIN last
              /\ out.limits = (last.limits \/ tells)
          BY <3>2 DEF IsResponse
        <4>. QED
          BY <3>2, <4>1 DEF IsResponse
      <3>4. end \in 1..Len(items) /\ items[end].type = "Response"
            /\ items[end].warnings \subseteq last.warnings
        <4>1. next.type = "Response"
          BY <2>2, <2>4
        <4>2. end # Len(items) + 1
          BY <1>5, <4>1 DEF IsError
        <4>. QED
          BY <1>4, <2>2, <2>4, <4>1, <4>2
      <3>5. ASSUME NEW n \in DOMAIN items, Before(items, n) PROVE tells
        <4>1. n \in 1..Len(items) /\ TellsLimits(items[n]) /\ \A k \in 1..n : ~EndsStream(items[k])
          BY <1>1, <3>5 DEF Before
        <4>2. EndsStream(items[end])
          BY <3>4 DEF EndsStream
        <4>3. ~(end \in 1..n)
          BY <4>1, <4>2
        <4>4. n \in 1..(end - 1)
          BY <1>1, <3>4, <4>1, <4>3
        <4>. QED
          BY <4>1, <4>4
      <3>. HIDE DEF out, tells, x
      <3>6. IsOutput(x) /\ x.type = "Response" /\ items[end].warnings \subseteq x.warnings
        BY <3>1, <3>3, <3>4 DEF IsOutput
      <3>7. (\E n \in DOMAIN items : Before(items, n)) => x.limits
        BY <3>1, <3>3, <3>5
      <3>8. \E n \in DOMAIN items : items[n].type = "Response" /\ items[n].warnings \subseteq x.warnings
        BY <1>1, <3>4, <3>6
      <3>. QED
        BY <3>6, <3>7, <3>8 DEF x
    <2>. QED
      BY <2>2, <2>3, <2>4
  <1>. QED
    BY <1>6, <1>7, <1>8

\* The output that a reply becomes.
Received(answer) ==
    LET outcome == Limited(answer, Meaning(answer))
    IN  IF outcome.type = "Stream"
        THEN IF mode = "Complete"
             THEN PolicyOf(setup.policy, Folded(setup.policy, Decoded(outcome.items)))
             ELSE Items(Decoded(outcome.items))
        ELSE PolicyOf(setup.policy, WithWarnings(wire.told, outcome))

\* A response or a verdict that rests on this reply, with every warning.
Vouched(answer, x) == Succeeded(answer) /\ wire.told \subseteq x.warnings

LEMMA ReceivedKeeps ==
    ASSUME setup.policy.output \in Nat, NEW answer, IsReply(mode, answer)
    PROVE  LET x == Received(answer)
           IN  /\ IsOutput(x)
               /\ x.type \in {"Response", "Verdict"} =>
                     Vouched(answer, x) /\ (LimitsSeen(answer) => x.limits)
               /\ x.type = "Response" /\ answer.kind = "Answered" => x.object = answer.value.object
               /\ x.type = "Stream" =>
                     \A n \in DOMAIN x.items :
                         x.items[n].type = "Response" => Vouched(answer, x.items[n])
               /\ Settles(answer) => ~(IsError(x) /\ IsRetryable(x))
  <1>. DEFINE meant == Meaning(answer)
              outcome == Limited(answer, meant)
              dec == Decoded(outcome.items)
              x == Received(answer)
  <1>1. /\ IsOutput(meant)
        /\ meant.type = "Stream" => answer.kind = "Streamed" /\ meant = Items(answer.items)
        /\ meant.type \in {"Response", "Verdict"} => answer.kind = "Answered"
        /\ meant.type = "Response" => meant = answer.value
        /\ answer.kind = "Streamed" => meant.type = "Stream"
    BY MeaningIsOutput
  <1>2. x = IF outcome.type = "Stream"
            THEN IF mode = "Complete" THEN PolicyOf(setup.policy, Folded(setup.policy, dec))
                 ELSE Items(dec)
            ELSE PolicyOf(setup.policy, WithWarnings(wire.told, outcome))
    BY DEF Received
  <1>3. Settles(answer) => ~(IsError(meant) /\ IsRetryable(meant)) /\ meant.type # "Stream"
    BY SettledMeansFinal
  <1>. HIDE DEF meant, x
  <1>4. CASE meant.type = "Stream"
    <2>1. /\ outcome.type = "Stream" /\ AllItems(outcome.items)
          /\ \A n \in DOMAIN outcome.items : outcome.items[n].type = "Response" =>
                \E k \in DOMAIN meant.items : meant.items[k].type = "Response"
          /\ answer.limits \/ (\E n \in DOMAIN meant.items : Before(meant.items, n)) =>
                \E n \in DOMAIN outcome.items : Before(outcome.items, n)
      BY <1>1, <1>4, LimitedKeeps
    <2>2. answer.kind = "Streamed" /\ meant.items = answer.items
      BY <1>1, <1>4 DEF Items
    <2>. HIDE DEF outcome
    <2>3. /\ AllItems(dec)
          /\ \A n \in DOMAIN dec : dec[n].type = "Response" =>
                /\ \E k \in DOMAIN outcome.items : outcome.items[k].type = "Response"
                /\ wire.told \subseteq dec[n].warnings
          /\ (\E n \in DOMAIN outcome.items : Before(outcome.items, n)) =>
                \E n \in DOMAIN dec : Before(dec, n)
      BY <2>1, DecodedKeeps
    <2>. HIDE DEF dec
    <2>4. \A n \in DOMAIN dec : dec[n].type = "Response" => Vouched(answer, dec[n])
      BY <2>1, <2>2, <2>3 DEF Vouched, Succeeded
    <2>5. LimitsSeen(answer) => \E n \in DOMAIN dec : Before(dec, n)
      <3>1. LimitsSeen(answer) => answer.limits \/ \E n \in DOMAIN meant.items : Before(meant.items, n)
        BY <2>2 DEF LimitsSeen, Before
      <3>. QED
        BY <2>1, <2>3, <3>1
    <2>6. CASE mode = "Complete"
      <3>. DEFINE fold == Folded(setup.policy, dec)
      <3>1. /\ IsOutput(fold) /\ fold.type \in {"Response", "Error"}
            /\ fold.type = "Response" =>
                  /\ \E n \in DOMAIN dec :
                        dec[n].type = "Response" /\ dec[n].warnings \subseteq fold.warnings
                  /\ (\E n \in DOMAIN dec : Before(dec, n)) => fold.limits
        BY <2>3, FoldedKeeps
      <3>2. x = PolicyOf(setup.policy, fold)
        BY <1>2, <2>1, <2>6
      <3>. HIDE DEF fold
      <3>3. /\ IsOutput(x) /\ x.type \in {"Response", "Error"}
            /\ x.type = "Response" =>
                  fold.type = "Response" /\ fold.warnings \subseteq x.warnings /\ x.limits = fold.limits
        BY <3>1, <3>2, PolicyKeeps, FinalIsError
      <3>4. x.type = "Response" => Vouched(answer, x) /\ (LimitsSeen(answer) => x.limits)
        BY <2>4, <2>5, <3>1, <3>3 DEF Vouched
      <3>. QED
        BY <1>3, <1>4, <2>2, <3>3, <3>4 DEF x
    <2>7. CASE mode # "Complete"
      <3>1. x = Items(dec)
        BY <1>2, <2>1, <2>7
      <3>2. IsStream(x) /\ x.type = "Stream" /\ x.items = dec
        BY <2>3, <3>1, ItemsOf DEF Items
      <3>. QED
        BY <1>3, <1>4, <2>4, <3>2 DEF x, IsOutput
    <2>. QED
      BY <2>6, <2>7
  <1>5. CASE meant.type # "Stream"
    <2>1. /\ IsOutput(outcome) /\ outcome.type = meant.type
          /\ outcome.type \in {"Response", "Verdict"} => (answer.limits => outcome.limits)
          /\ outcome.type = "Response" => outcome.object = meant.object
          /\ outcome.type \notin {"Response", "Verdict"} => outcome = meant
      BY <1>1, <1>5, LimitedKeeps
    <2>2. answer.kind # "Streamed"
      BY <1>1, <1>5
    <2>. HIDE DEF outcome
    <2>. DEFINE warned == WithWarnings(wire.told, outcome)
    <2>3. /\ IsOutput(warned) /\ warned.type = outcome.type
          /\ outcome.type \in {"Response", "Verdict"} =>
                wire.told \subseteq warned.warnings /\ warned.limits = outcome.limits
          /\ outcome.type = "Response" => warned.object = outcome.object
          /\ outcome.type \notin {"Response", "Verdict"} => warned = outcome
      BY <2>1, WarningsKeep
    <2>4. x = PolicyOf(setup.policy, warned)
      BY <1>2, <1>5, <2>1
    <2>. HIDE DEF warned
    <2>5. /\ IsOutput(x)
          /\ warned.type \notin {"Response", "Verdict"} => x = warned
          /\ x = Final("ResourceLimit") \/ x.type = warned.type
          /\ x.type \in {"Response", "Verdict"} =>
                x.type = warned.type /\ warned.warnings \subseteq x.warnings /\ x.limits = warned.limits
          /\ x.type = "Response" => x.object = warned.object
      BY <2>3, <2>4, PolicyKeeps
    <2>6. x.type \in {"Response", "Verdict"} => Vouched(answer, x) /\ (LimitsSeen(answer) => x.limits)
      BY <1>1, <2>1, <2>2, <2>3, <2>5 DEF Vouched, Succeeded, LimitsSeen
    <2>7. x.type = "Response" => x.object = answer.value.object
      BY <1>1, <2>1, <2>3, <2>5
    <2>8. x.type # "Stream"
      BY <1>5, <2>1, <2>3, <2>5, FinalIsError
    <2>9. IsError(x) /\ IsRetryable(x) => x = meant
      <3>1. IsError(x) => x.type = "Error"
        BY DEF IsError
      <3>2. IsError(x) /\ IsRetryable(x) => x # Final("ResourceLimit")
        BY FinalIsError
      <3>. QED
        BY <2>1, <2>3, <2>5, <3>1, <3>2
    <2>. QED
      BY <1>3, <2>5, <2>6, <2>7, <2>8, <2>9 DEF x
  <1>. QED
    BY <1>4, <1>5

(***************************************************************************)
(* What the client makes of an output.                                     *)
(***************************************************************************)

\* What the assumption says of the questions of one call.
AreQuestions(evaluation) ==
    /\ \A i, j \in DOMAIN evaluation : evaluation[i].id = evaluation[j].id => i = j
    /\ \A i \in DOMAIN evaluation :
          /\ evaluation[i].kind \in EvaluationKinds
          /\ evaluation[i].of \in Seq(Range(evaluation[i].of))

\* The answer that a judge's value gives is what the value stands for.
LEMMA JudgeAnswerSaysSo ==
    ASSUME NEW question, NEW value, question.kind \in EvaluationKinds,
           question.of \in Seq(Range(question.of)),
           NEW answer \in JudgeAnswer(question, value)
    PROVE  SaysSo(question, value, answer)
  <1>1. CASE question.kind = "choice"
    <2>1. value.kind = "code" /\ \E label \in LabelOf(question, value.n) :
                                     answer = Answer("choice", label, 0, {})
      BY <1>1 DEF JudgeAnswer
    <2>2. PICK j \in DOMAIN question.of : value.n = j - 1 /\ answer.choice = question.of[j]
      BY <2>1 DEF LabelOf, Answer
    <2>3. Len(question.of) \in Nat /\ DOMAIN question.of = 1..Len(question.of)
      OBVIOUS
    <2>4. value.n \in 0..(Len(question.of) - 1) /\ value.n + 1 = j
      BY <2>2, <2>3
    <2>. QED
      BY <1>1, <2>2, <2>4 DEF SaysSo, Rubric
  <1>2. CASE question.kind = "score"
    <2>1. \E n \in NumberIn(value, 0..((Len(question.of) - 1) * Unit)) :
              answer = Answer("score", NoChoice, n, {})
      BY <1>2 DEF JudgeAnswer
    <2>. QED
      BY <1>2, <2>1 DEF NumberIn, SaysSo, Answer
  <1>3. CASE question.kind = "boolean"
    <2>1. \E n \in NumberIn(value, 0..Unit) : answer = Answer("boolean", NoChoice, n, {})
      BY <1>3 DEF JudgeAnswer
    <2>. QED
      BY <1>3, <2>1 DEF NumberIn, SaysSo, Answer
  <1>. QED
    BY <1>1, <1>2, <1>3 DEF EvaluationKinds

LEMMA JudgeKeeps ==
    ASSUME NEW evaluation, AreQuestions(evaluation), NEW response, IsResponse(response), NEW object
    PROVE  LET x == JudgeVerdict(evaluation, response, object)
           IN  \/ x = InvalidVerdict
               \/ /\ IsVerdict(x) /\ x.size = response.size /\ x.raw = response.raw
                  /\ x.warnings = response.warnings /\ x.limits = response.limits
                  /\ \A i \in DOMAIN evaluation :
                        SaysSo(evaluation[i], object[Key(i)], x.answers[evaluation[i].id])
  <1>. DEFINE answered(i) == JudgeAnswer(evaluation[i], object[Key(i)])
              index(id) == CHOOSE i \in DOMAIN evaluation : evaluation[i].id = id
              answers == [id \in Ids(evaluation) |-> CHOOSE a \in answered(index(id)) : TRUE]
              x == JudgeVerdict(evaluation, response, object)
  <1>1. SUFFICES ASSUME x # InvalidVerdict
                 PROVE  /\ IsVerdict(x) /\ x.size = response.size /\ x.raw = response.raw
                        /\ x.warnings = response.warnings /\ x.limits = response.limits
                        /\ \A i \in DOMAIN evaluation :
                              SaysSo(evaluation[i], object[Key(i)], x.answers[evaluation[i].id])
    BY Zenon
  <1>2. /\ \A i \in DOMAIN evaluation : answered(i) # {}
        /\ x = Verdict(answers, NoRounding, response.size, response.raw, response.warnings,
                       response.limits)
    BY <1>1 DEF JudgeVerdict
  <1>. HIDE DEF x, answers
  <1>3. /\ IsVerdict(x) /\ x.size = response.size /\ x.raw = response.raw
        /\ x.warnings = response.warnings /\ x.limits = response.limits /\ x.answers = answers
    BY <1>2 DEF Verdict, IsVerdict, IsResponse
  <1>4. ASSUME NEW i \in DOMAIN evaluation
        PROVE  SaysSo(evaluation[i], object[Key(i)], answers[evaluation[i].id])
    <2>1. index(evaluation[i].id) = i
      BY DEF AreQuestions
    <2>2. evaluation[i].id \in Ids(evaluation)
      BY DEF Ids
    <2>3. answers[evaluation[i].id] = CHOOSE a \in answered(i) : TRUE
      <3>. HIDE DEF index, answered
      <3>. QED
        BY <2>1, <2>2 DEF answers
    <2>4. answers[evaluation[i].id] \in answered(i)
      <3>. HIDE DEF answered
      <3>. QED
        BY <1>2, <2>3
    <2>. QED
      BY <2>4, JudgeAnswerSaysSo DEF AreQuestions
  <1>. QED
    BY <1>3, <1>4 DEF x

\* The mode of a call that has started.
ModeFits == mode \in Modes /\ (call.op = "CompleteObject" => mode = "Complete")

LEMMA OutcomeKeeps ==
    ASSUME setup.policy.output \in Nat, AreQuestions(call.evaluation), ModeFits, IsOutput(output)
    PROVE  /\ Outcome.type = "Stream" => IsStream(output) /\ mode = "Stream"
           /\ Within(setup.policy, Outcome)
           /\ Outcome.type = "Verdict" => VerdictFits(call.evaluation, Outcome)
           /\ Outcome.type \in {"Response", "Verdict"} =>
                 /\ output.type \in {"Response", "Verdict"}
                 /\ output.warnings \subseteq Outcome.warnings /\ Outcome.limits = output.limits
           /\ Outcome.type = "Verdict" /\ mode = "Complete" =>
                 /\ output.type = "Response"
                 /\ \A i \in DOMAIN call.evaluation : \A object \in output.object :
                       SaysSo(call.evaluation[i], object[Key(i)],
                              Outcome.answers[call.evaluation[i].id])
  <1>. DEFINE policed == IF mode = "Evaluate" /\ output.type # "Verdict" THEN output
                         ELSE PolicyOf(setup.policy, output)
              judging == call.op = "CompleteObject" \/ (call.op = "Evaluate" /\ mode = "Complete")
              from == FromObject(policed)
  <1>1. Outcome = IF IsError(policed) THEN policed
                  ELSE IF policed.type # Expected THEN Final("Middleware")
                  ELSE IF judging THEN Checked(from)
                  ELSE IF mode = "Evaluate" THEN Checked(policed) ELSE policed
    BY DEF Outcome
  <1>2. /\ IsOutput(policed)
        /\ policed.type \in {"Response", "Verdict"} =>
              /\ Within(setup.policy, policed) \/ policed.type # Expected
              /\ policed.type = output.type /\ output.warnings \subseteq policed.warnings
              /\ policed.limits = output.limits
        /\ policed.type = "Response" => policed.object = output.object \/ policed.type # Expected
        /\ policed.type = "Stream" => policed = output
    <2>1. CASE mode = "Evaluate" /\ output.type # "Verdict"
      <3>1. policed = output /\ Expected = "Verdict"
        BY <2>1 DEF Expected
      <3>. HIDE DEF policed
      <3>. QED
        BY <2>1, <3>1
    <2>2. CASE ~(mode = "Evaluate" /\ output.type # "Verdict")
      <3>1. policed = PolicyOf(setup.policy, output)
        BY <2>2
      <3>. HIDE DEF policed
      <3>2. policed.type = "Stream" => policed = output
        BY <3>1, PolicyKeeps, FinalIsError
      <3>. QED
        BY <3>1, <3>2, PolicyKeeps
    <2>. QED
      BY <2>1, <2>2
  <1>. HIDE DEF policed
  <1>3. ASSUME NEW x, x.type \notin {"Response", "Verdict", "Stream"} PROVE Within(setup.policy, x)
    BY <1>3 DEF Within
  <1>4. CASE IsError(policed)
    <2>1. Outcome = policed /\ Outcome.type = "Error"
      BY <1>1, <1>4 DEF IsError
    <2>. QED
      BY <1>3, <2>1
  <1>5. CASE ~IsError(policed) /\ policed.type # Expected
    <2>1. Outcome = Final("Middleware") /\ Outcome.type = "Error"
      BY <1>1, <1>5, FinalIsError
    <2>. QED
      BY <1>3, <2>1
  <1>6. CASE ~IsError(policed) /\ policed.type = Expected /\ judging
    <2>1. mode = "Complete" /\ policed.type = "Response" /\ IsResponse(policed)
      <3>1. mode = "Complete"
        BY <1>6 DEF ModeFits
      <3>2. policed.type = "Response"
        BY <1>6, <3>1 DEF Expected
      <3>. QED
        BY <1>2, <3>1, <3>2, OutputTypes
    <2>2. Outcome = Checked(from)
      BY <1>1, <1>6
    <2>3. CASE policed.object = {}
      <3>1. from = Final("ResponseDecode")
        BY <2>3 DEF FromObject
      <3>2. Outcome = Final("ResponseDecode") /\ Outcome.type = "Error"
        BY <2>2, <3>1, FinalIsError DEF Checked, InvalidVerdict
      <3>. QED
        BY <1>3, <3>2
    <2>4. CASE policed.object # {} /\ call.op = "CompleteObject"
      <3>1. from = policed
        BY <2>4 DEF FromObject
      <3>2. Outcome = policed /\ Outcome.type = "Response"
        BY <2>1, <2>2, <3>1 DEF Checked
      <3>. QED
        BY <1>2, <1>6, <3>2
    <2>5. CASE policed.object # {} /\ call.op # "CompleteObject"
      <3>. DEFINE chosen == CHOOSE object \in policed.object : TRUE
      <3>1. from = JudgeVerdict(call.evaluation, policed, chosen)
        BY <2>5 DEF FromObject
      <3>2. \A object \in policed.object : object = chosen
        <4>1. chosen \in policed.object
          BY <2>5
        <4>. QED
          BY <2>1, <4>1 DEF IsResponse
      <3>. HIDE DEF chosen, from
      <3>3. \/ from = InvalidVerdict
            \/ /\ IsVerdict(from) /\ from.size = policed.size /\ from.raw = policed.raw
               /\ from.warnings = policed.warnings /\ from.limits = policed.limits
               /\ \A i \in DOMAIN call.evaluation :
                     SaysSo(call.evaluation[i], chosen[Key(i)], from.answers[call.evaluation[i].id])
        BY <2>1, <3>1, JudgeKeeps
      <3>4. InvalidVerdict.type = "Error"
        BY FinalIsError DEF InvalidVerdict
      <3>5. CASE Outcome = InvalidVerdict
        BY <1>3, <3>4, <3>5
      <3>6. CASE Outcome # InvalidVerdict
        <4>1. /\ Outcome = from /\ from # InvalidVerdict
              /\ from.type = "Verdict" => VerdictFits(call.evaluation, from)
          BY <2>2, <3>6 DEF Checked
        <4>2. /\ from.type = "Verdict" /\ from.size = policed.size /\ from.raw = policed.raw
              /\ from.warnings = policed.warnings /\ from.limits = policed.limits
              /\ \A i \in DOMAIN call.evaluation :
                    SaysSo(call.evaluation[i], chosen[Key(i)], from.answers[call.evaluation[i].id])
          BY <3>3, <4>1 DEF IsVerdict
        <4>3. Within(setup.policy, from)
          BY <1>2, <1>6, <2>1, <4>2 DEF Within
        <4>4. policed.object = output.object /\ output.type = "Response"
          BY <1>2, <1>6, <2>1
        <4>5. \A i \in DOMAIN call.evaluation : \A object \in output.object :
                  SaysSo(call.evaluation[i], object[Key(i)], from.answers[call.evaluation[i].id])
          BY <3>2, <4>2, <4>4
        <4>6. output.warnings \subseteq from.warnings /\ from.limits = output.limits
          BY <1>2, <2>1, <4>2
        <4>. QED
          BY <4>1, <4>2, <4>3, <4>4, <4>5, <4>6
      <3>. QED
        BY <3>5, <3>6
    <2>. QED
      BY <2>3, <2>4, <2>5
  <1>7. CASE ~IsError(policed) /\ policed.type = Expected /\ ~judging /\ mode = "Evaluate"
    <2>1. Outcome = Checked(policed) /\ policed.type = "Verdict"
      BY <1>1, <1>7 DEF Expected
    <2>2. CASE Outcome = InvalidVerdict
      <3>1. Outcome.type = "Error"
        BY <2>2, FinalIsError DEF InvalidVerdict
      <3>. QED
        BY <1>3, <3>1
    <2>3. CASE Outcome # InvalidVerdict
      <3>1. Outcome = policed /\ VerdictFits(call.evaluation, Outcome)
        BY <2>1, <2>3 DEF Checked
      <3>. QED
        BY <1>2, <1>7, <2>1, <3>1
    <2>. QED
      BY <2>2, <2>3
  <1>8. CASE ~IsError(policed) /\ policed.type = Expected /\ ~judging /\ mode # "Evaluate"
    <2>1. Outcome = policed /\ policed.type # "Verdict"
      BY <1>1, <1>8 DEF Expected, ModeFits, Modes
    <2>2. policed.type = "Stream" =>
              IsStream(output) /\ mode = "Stream" /\ Within(setup.policy, policed)
      BY <1>2, <1>8, OutputTypes DEF Within, Expected, ModeFits, Modes
    <2>3. policed.type \notin {"Response", "Verdict", "Stream"} => Within(setup.policy, policed)
      BY <1>3
    <2>. QED
      BY <1>2, <1>8, <2>1, <2>2, <2>3
  <1>. QED
    BY <1>4, <1>5, <1>6, <1>7, <1>8

(***************************************************************************)
(* The invariant.                                                          *)
(***************************************************************************)

\* Who the call is about never changes.
CallIs == \E case \in Cases : setup = case.setup /\ call = case.call

FlowInv ==
    /\ phase \in {"Start", "Layer", "Dispatch", "Sent", "Back", "Streaming", "Done"}
    /\ phase \notin {"Start", "Done"} => ModeFits
    /\ phase = "Streaming" => mode = "Stream"
    /\ attempts \in Nat
    /\ phase \in {"Start", "Layer"} => wire = Nothing /\ reply = Nothing
    /\ phase # "Done" => result = Nothing
    /\ phase \notin {"Streaming", "Done"} => delivered = <<>>

\* What was encoded had passed the check in front of the adapter.
CheckedInv == wire # Nothing => Dispatchable

OutputInv == (phase = "Back" => IsOutput(output)) /\ (phase = "Streaming" => IsStream(output))

\* The budget above the layer counts what the caller has got.
BudgetInv ==
    /\ IsBudget(setup.policy, used.below) /\ IsBudget(setup.policy, used.above)
    /\ AllItems(delivered)
    /\ \A kind \in DOMAIN NoneUsed : used.above[kind] = TotalOf(kind, delivered)

\* An error that may be repeated is not the meaning of a reply that settled.
RepeatInv ==
    /\ phase = "Dispatch" /\ reply # Nothing => ~Settles(reply)
    /\ phase = "Back" /\ made # "Layer" /\ reply # Nothing /\ IsError(output) /\ IsRetryable(output) =>
          ~Settles(reply)

\* What came from a provider rests on its last reply.
AnswerInv ==
    made = "Provider" =>
        /\ phase = "Back" /\ output.type \in {"Response", "Verdict"} =>
              Vouched(reply, output) /\ (LimitsSeen(reply) => output.limits)
        /\ phase = "Back" /\ output.type = "Response" /\ reply.kind = "Answered" =>
              output.object = reply.value.object
        /\ phase \in {"Back", "Streaming"} /\ output.type = "Stream" =>
              \A n \in DOMAIN output.items :
                  output.items[n].type = "Response" => Vouched(reply, output.items[n])

ResultInv == Within(setup.policy, result) /\ AnswersTheCall

CallInv ==
    CallIs /\ FlowInv /\ CheckedInv /\ OutputInv /\ BudgetInv /\ RepeatInv /\ AnswerInv /\ ResultInv

\* What the assumptions say of the call at hand.
LEMMA CallFacts ==
    ASSUME CallIs
    PROVE  /\ setup.policy.output \in Nat /\ call.op \in Operations
           /\ AreQuestions(call.evaluation)
  BY CasesAssumption DEF CallIs, AreQuestions

LEMMA InitCall == Init => CallInv
  <1>. SUFFICES ASSUME Init PROVE CallInv
    OBVIOUS
  <1>1. CallIs
    BY DEF Init, CallIs
  <1>2. setup.policy.output \in Nat
    BY <1>1, CallFacts
  <1>3. FlowInv /\ CheckedInv /\ OutputInv /\ RepeatInv /\ AnswerInv
    BY DEF Init, FlowInv, CheckedInv, OutputInv, RepeatInv, AnswerInv, Nothing
  <1>4. AllItems(<<>>)
    BY DEF AllItems, Range
  <1>5. BudgetInv
    BY <1>2, <1>4, TotalOfNone DEF Init, BudgetInv, IsBudget, NoneUsed
  <1>6. ResultInv
    BY DEF Init, ResultInv, Within, AnswersTheCall, Nothing
  <1>. QED
    BY <1>1, <1>3, <1>5, <1>6 DEF CallInv

\* Refusing a call, or interrupting it, gives an error and nothing else.
LEMMA ErrorResult ==
    ASSUME NEW x, x.type = "Error", result' = x
    PROVE  ResultInv'
  BY DEF ResultInv, Within, AnswersTheCall

LEMMA SameResult ==
    ASSUME ResultInv, phase # "Done", FlowInv, result' = result
    PROVE  ResultInv'
  <1>1. result' = Nothing
    BY DEF FlowInv
  <1>. QED
    BY <1>1 DEF ResultInv, Within, AnswersTheCall, Nothing

\* Steps that touch neither what was counted nor what was delivered.
LEMMA SameBudget ==
    ASSUME BudgetInv, UNCHANGED <<setup, used, delivered>>
    PROVE  BudgetInv'
  BY DEF BudgetInv

LEMMA StartKeeps ==
    ASSUME CallInv, StartGeneration \/ StartEvaluation
    PROVE  CallInv'
  <1>. USE DEF CallInv
  <1>1. /\ phase = "Start"
        /\ UNCHANGED <<setup, call, wire, attempts, reply, output, used, delivered, made>>
    BY DEF StartGeneration, StartEvaluation
  <1>2. CallIs' /\ BudgetInv'
    BY <1>1, SameBudget DEF CallIs
  <1>3. wire = Nothing /\ reply = Nothing /\ result = Nothing /\ delivered = <<>>
    BY <1>1 DEF FlowInv
  <1>4. \/ /\ phase' = "Done" /\ \E kind : result' = Final(kind)
        \/ /\ phase' \in {"Layer", "Dispatch"} /\ result' = result
           /\ mode' \in Modes /\ (call.op = "CompleteObject" => mode' = "Complete")
    <2>1. CASE StartGeneration
      <3>1. PICK m, r : /\ Begin(m, r)
                        /\ m = IF call.op = "CompleteObject" THEN "Complete" ELSE call.op
        BY <2>1 DEF StartGeneration
      <3>2. m \in Modes
        BY <1>2, <2>1, <3>1, CallFacts DEF StartGeneration, Operations, Modes
      <3>. QED
        BY <3>1, <3>2 DEF Begin, Refused, Enter, Finish, UnsupportedCapability
    <2>2. CASE StartEvaluation
      BY <2>2 DEF StartEvaluation, Begin, Refused, Enter, Finish, UnsupportedCapability, Modes
    <2>. QED
      BY <1>1, <2>1, <2>2 DEF StartGeneration, StartEvaluation
  <1>5. FlowInv' /\ CheckedInv' /\ OutputInv' /\ RepeatInv' /\ AnswerInv'
    BY <1>1, <1>3, <1>4 DEF FlowInv, CheckedInv, OutputInv, RepeatInv, AnswerInv, ModeFits, Nothing
  <1>6. ResultInv'
    BY <1>1, <1>4, FinalIsError, ErrorResult, SameResult
  <1>. QED
    BY <1>2, <1>5, <1>6

\* Back with an output of a provider's that is an error or a count, of a layer
\* or of an adapter of the application.
LEMMA BackKeeps ==
    ASSUME CallInv, phase \in {"Layer", "Dispatch", "Back"}, phase' = "Back", IsOutput(output'),
           UNCHANGED <<setup, call, mode, wire, attempts, reply, delivered, result>>,
           BudgetInv', CheckedInv',
           \/ made' \in {"Layer", "Adapter"}
           \/ made' = made /\ output'.type \in {"Count", "Error"},
           \/ made' = "Layer" \/ phase = "Dispatch"
           \/ reply = Nothing
    PROVE  CallInv'
  <1>. USE DEF CallInv
  <1>1. CallIs' /\ FlowInv' /\ OutputInv'
    BY DEF CallIs, FlowInv, OutputInv, ModeFits
  <1>2. RepeatInv'
    BY DEF RepeatInv, Settles, Opening
  <1>3. AnswerInv'
    BY DEF AnswerInv
  <1>4. ResultInv'
    BY SameResult
  <1>. QED
    BY <1>1, <1>2, <1>3, <1>4

LEMMA LayerKeeps ==
    ASSUME CallInv, Forward \/ MapRequest \/ AnswerItself \/ Repeat
    PROVE  CallInv'
  <1>. USE DEF CallInv
  <1>1. CASE Forward
    <2>1. BudgetInv' /\ ResultInv'
      BY <1>1, SameBudget, SameResult DEF Forward
    <2>. QED
      BY <1>1, <2>1 DEF Forward, CallIs, FlowInv, CheckedInv, Dispatchable, OutputInv, RepeatInv,
           AnswerInv, ModeFits
  <1>2. CASE MapRequest
    <2>1. wire = Nothing /\ reply = Nothing /\ phase = "Layer"
      BY <1>2 DEF MapRequest, FlowInv
    <2>2. CheckedInv' /\ BudgetInv'
      BY <1>2, <2>1, SameBudget DEF MapRequest, CheckedInv
    <2>3. CASE phase' = "Back"
      <3>1. \E kind : output' = Final(kind)
        BY <1>2, <2>3 DEF MapRequest, Return
      <3>2. IsOutput(output') /\ output'.type = "Error"
        BY <3>1, FinalIsError
      <3>. QED
        BY <1>2, <2>1, <2>2, <2>3, <3>2, BackKeeps DEF MapRequest
    <2>4. CASE phase' = "Dispatch"
      <3>1. ResultInv'
        BY <1>2, SameResult DEF MapRequest
      <3>. QED
        BY <1>2, <2>1, <2>2, <2>4, <3>1 DEF MapRequest, CallIs, FlowInv, OutputInv, RepeatInv,
             AnswerInv, ModeFits
    <2>. QED
      BY <1>2, <2>3, <2>4 DEF MapRequest, Return
  <1>3. CASE AnswerItself
    <2>1. /\ phase \in {"Layer", "Back"} /\ phase' = "Back" /\ made' = "Layer"
          /\ output' \in LayerOutputs /\ used' = [below |-> NoneUsed, above |-> NoneUsed]
          /\ UNCHANGED <<setup, call, mode, request, wire, attempts, reply, delivered, result>>
      BY <1>3 DEF AnswerItself
    <2>2. IsOutput(output')
      BY <2>1, LayerAssumption
    <2>3. delivered' = <<>>
      BY <2>1 DEF FlowInv
    <2>4. AllItems(<<>>)
      BY DEF AllItems, Range
    <2>5. BudgetInv'
      BY <2>1, <2>3, <2>4, TotalOfNone, CallFacts DEF BudgetInv, IsBudget, NoneUsed
    <2>6. CheckedInv'
      BY <2>1 DEF CheckedInv, Dispatchable, KindsFit, Row
    <2>. QED
      BY <2>1, <2>2, <2>5, <2>6, BackKeeps
  <1>4. CASE Repeat
    <2>1. BudgetInv' /\ ResultInv'
      BY <1>4, SameBudget, SameResult DEF Repeat
    <2>2. RepeatInv'
      BY <1>4 DEF Repeat, RepeatInv, Settles, Opening
    <2>. QED
      BY <1>4, <2>1, <2>2 DEF Repeat, CallIs, FlowInv, CheckedInv, Dispatchable, KindsFit, Row,
           OutputInv, AnswerInv, ModeFits
  <1>. QED
    BY <1>1, <1>2, <1>3, <1>4

LEMMA AdapterKeeps ==
    ASSUME CallInv,
           RefuseDispatch \/ NoCount \/ FailBeforeSending \/ Send \/ AnswerByAdapter
    PROVE  CallInv'
  <1>. USE DEF CallInv
  <1>1. CASE RefuseDispatch \/ NoCount \/ FailBeforeSending
    <2>1. /\ phase = "Dispatch" /\ phase' = "Back"
          /\ output' = Count \/ \E kind : output' = Final(kind)
          /\ UNCHANGED <<setup, call, mode, request, wire, attempts, reply, used, delivered, made,
                         result>>
      BY <1>1 DEF RefuseDispatch, NoCount, FailBeforeSending, ToEncode, Ready, Return,
           UnsupportedCapability
    <2>2. IsOutput(output') /\ output'.type \in {"Count", "Error"}
      BY <2>1, FinalIsError DEF Count, IsOutput
    <2>3. CheckedInv' /\ BudgetInv'
      BY <2>1, SameBudget DEF CheckedInv, Dispatchable, KindsFit, Row
    <2>. QED
      BY <2>1, <2>2, <2>3, BackKeeps
  <1>2. CASE AnswerByAdapter
    <2>1. /\ phase = "Dispatch" /\ phase' = "Back" /\ made' = "Adapter"
          /\ \E own \in LayerOutputs : output' = PolicyOf(setup.policy, own)
          /\ UNCHANGED <<setup, call, mode, request, wire, attempts, reply, used, delivered, result>>
      BY <1>2 DEF AnswerByAdapter, Ready, Return
    <2>2. IsOutput(output')
      BY <2>1, CallFacts, LayerAssumption, PolicyKeeps
    <2>3. CheckedInv' /\ BudgetInv'
      BY <2>1, SameBudget DEF CheckedInv, Dispatchable, KindsFit, Row
    <2>. QED
      BY <2>1, <2>2, <2>3, BackKeeps
  <1>3. CASE Send
    <2>1. /\ phase = "Dispatch" /\ Dispatchable /\ phase' = "Sent" /\ attempts' = attempts + 1
          /\ UNCHANGED <<setup, call, mode, request, reply, output, used, delivered, made, result>>
      BY <1>3 DEF Send, ToEncode, Ready
    <2>2. CheckedInv'
      BY <2>1 DEF CheckedInv, Dispatchable, KindsFit, Row
    <2>3. BudgetInv' /\ ResultInv'
      BY <2>1, SameBudget, SameResult
    <2>. QED
      BY <2>1, <2>2, <2>3 DEF CallIs, FlowInv, OutputInv, RepeatInv, AnswerInv, ModeFits
  <1>. QED
    BY <1>1, <1>2, <1>3

LEMMA ReceiveKeeps == ASSUME CallInv, Receive PROVE CallInv'
  <1>. USE DEF CallInv
  <1>1. PICK answer \in Replies(mode, Opening) : reply' = answer /\ output' = Received(answer)
    BY DEF Receive, Received, Return
  <1>2. /\ phase = "Sent" /\ phase' = "Back"
        /\ UNCHANGED <<setup, call, mode, request, wire, attempts, used, delivered, made, result>>
    BY DEF Receive, Return
  <1>3. IsReply(mode, answer)
    <2>1. mode \in Modes /\ Opening \in BOOLEAN
      BY <1>2, CallFacts DEF FlowInv, ModeFits, Opening
    <2>. QED
      BY <2>1, RepliesAssumption DEF IsReply
  <1>4. /\ IsOutput(output')
        /\ output'.type \in {"Response", "Verdict"} =>
              Vouched(answer, output') /\ (LimitsSeen(answer) => output'.limits)
        /\ output'.type = "Response" /\ answer.kind = "Answered" => output'.object = answer.value.object
        /\ output'.type = "Stream" =>
              \A n \in DOMAIN output'.items :
                  output'.items[n].type = "Response" => Vouched(answer, output'.items[n])
        /\ Settles(answer) => ~(IsError(output') /\ IsRetryable(output'))
    BY <1>1, <1>3, CallFacts, ReceivedKeeps
  <1>5. CheckedInv' /\ BudgetInv' /\ ResultInv'
    BY <1>2, SameBudget, SameResult DEF CheckedInv, Dispatchable, KindsFit, Row
  <1>6. CallIs' /\ FlowInv' /\ OutputInv'
    BY <1>2, <1>4 DEF CallIs, FlowInv, OutputInv, ModeFits
  <1>7. RepeatInv'
    <2>1. Settles(answer)' <=> Settles(answer)
      BY <1>2 DEF Settles, Opening
    <2>. QED
      BY <1>1, <1>2, <1>4, <2>1 DEF RepeatInv, Settles, Opening
  <1>8. AnswerInv'
    BY <1>1, <1>2, <1>4 DEF AnswerInv, Vouched
  <1>. QED
    BY <1>5, <1>6, <1>7, <1>8

LEMMA PassOnKeeps == ASSUME CallInv, PassOn PROVE CallInv'
  <1>. USE DEF CallInv
  <1>1. /\ phase = "Back"
        /\ \/ Outcome.type = "Stream" /\ phase' = "Streaming" /\ result' = result
           \/ Outcome.type # "Stream" /\ phase' = "Done" /\ result' = Outcome
        /\ UNCHANGED <<setup, call, mode, request, wire, attempts, reply, output, used, delivered,
                       made>>
    BY DEF PassOn, Finish
  <1>2. ModeFits /\ IsOutput(output)
    BY <1>1 DEF FlowInv, OutputInv
  <1>3. /\ Outcome.type = "Stream" => IsStream(output) /\ mode = "Stream"
        /\ Within(setup.policy, Outcome)
        /\ Outcome.type = "Verdict" => VerdictFits(call.evaluation, Outcome)
        /\ Outcome.type \in {"Response", "Verdict"} =>
              /\ output.type \in {"Response", "Verdict"}
              /\ output.warnings \subseteq Outcome.warnings /\ Outcome.limits = output.limits
        /\ Outcome.type = "Verdict" /\ mode = "Complete" =>
              /\ output.type = "Response"
              /\ \A i \in DOMAIN call.evaluation : \A object \in output.object :
                    SaysSo(call.evaluation[i], object[Key(i)],
                           Outcome.answers[call.evaluation[i].id])
    BY <1>2, CallFacts, OutcomeKeeps
  <1>. DEFINE outcome == Outcome
  <1>4. /\ CallIs' /\ CheckedInv' /\ BudgetInv'
        /\ FlowInv' /\ OutputInv' /\ RepeatInv' /\ AnswerInv'
    <2>1. CheckedInv' /\ BudgetInv'
      BY <1>1, SameBudget DEF CheckedInv, Dispatchable, KindsFit, Row
    <2>. QED
      BY <1>1, <1>3, <2>1
         DEF CallIs, FlowInv, OutputInv, RepeatInv, AnswerInv, ModeFits, Vouched
  <1>5. ResultInv'
    <2>1. CASE phase' = "Streaming"
      BY <1>1, <2>1, SameResult
    <2>2. CASE phase' = "Done"
      <3>1. result' = outcome
        BY <1>1, <2>2
      <3>2. ASSUME made = "Provider", outcome.type \in {"Response", "Verdict"}
            PROVE  /\ Succeeded(reply) /\ wire.told \subseteq outcome.warnings
                   /\ LimitsSeen(reply) => outcome.limits
                   /\ outcome.type = "Verdict" /\ mode = "Complete" /\ reply.kind = "Answered" =>
                         \A i \in DOMAIN call.evaluation : \A object \in reply.value.object :
                             SaysSo(call.evaluation[i], object[Key(i)],
                                    outcome.answers[call.evaluation[i].id])
        <4>1. /\ Vouched(reply, output) /\ (LimitsSeen(reply) => output.limits)
              /\ output.type = "Response" /\ reply.kind = "Answered" =>
                    output.object = reply.value.object
          BY <1>1, <1>3, <3>2 DEF AnswerInv
        <4>. QED
          BY <1>3, <3>2, <4>1 DEF Vouched
      <3>3. /\ Within(setup.policy, outcome)
            /\ outcome.type = "Verdict" => VerdictFits(call.evaluation, outcome)
        BY <1>3
      <3>. HIDE DEF outcome
      <3>. QED
        BY <1>1, <3>1, <3>2, <3>3 DEF ResultInv, Within, AnswersTheCall, Succeeded, LimitsSeen
    <2>. QED
      BY <1>1, <2>1, <2>2
  <1>. QED
    BY <1>4, <1>5

\* What is left of a stream, and what comes next.
LEMMA TailKeeps ==
    ASSUME NEW items, AllItems(items)
    PROVE  LET rest == IF items = <<>> THEN <<>> ELSE Tail(items)
           IN  /\ AllItems(rest) /\ IsItem(NextItem(items))
               /\ NextItem(items).type = "Response" => \E n \in DOMAIN items : items[n] = NextItem(items)
               /\ \A n \in DOMAIN rest : \E k \in DOMAIN items : items[k] = rest[n]
  <1>0. /\ Len(items) \in Nat /\ DOMAIN items = 1..Len(items)
        /\ \A n \in 1..Len(items) : IsItem(items[n])
    BY ItemsOf
  <1>1. CASE items = <<>>
    <2>1. NextItem(items) = ChunkError("Cut") /\ AllItems(<<>>)
      BY <1>1 DEF NextItem, AllItems, Range
    <2>2. IsItem(ChunkError("Cut")) /\ ChunkError("Cut").type = "Error"
      BY DEF ChunkError, Repeatable, Error, IsItem, IsError
    <2>. QED
      BY <1>1, <2>1, <2>2
  <1>2. CASE items # <<>>
    <2>. DEFINE rest == Tail(items)
    <2>1. /\ items \in Seq(Range(items)) /\ NextItem(items) = items[1] /\ Len(items) >= 1
      BY <1>0, <1>2 DEF NextItem, AllItems
    <2>2. /\ rest \in Seq(Range(items)) /\ Len(rest) = Len(items) - 1
          /\ \A n \in 1..Len(rest) : rest[n] = items[n + 1]
      BY <2>1, <1>2
    <2>. HIDE DEF rest
    <2>3. rest = [n \in 1..Len(rest) |-> rest[n]] /\ Len(rest) \in Nat
      BY <2>2
    <2>4. \A n \in 1..Len(rest) : n + 1 \in 1..Len(items)
      BY <1>0, <2>1, <2>2
    <2>5. AllItems(rest)
      BY <1>0, <2>2, <2>3, <2>4, ItemsFrom
    <2>6. IsItem(items[1]) /\ 1 \in DOMAIN items
      BY <1>0, <2>1
    <2>7. \A n \in DOMAIN rest : \E k \in DOMAIN items : items[k] = rest[n]
      <3>1. DOMAIN rest = 1..Len(rest)
        BY <2>2
      <3>. QED
        BY <1>0, <2>2, <2>4, <3>1
    <2>. QED
      BY <1>2, <2>1, <2>5, <2>6, <2>7 DEF rest
  <1>. QED
    BY <1>1, <1>2

LEMMA PollKeeps == ASSUME CallInv, Poll PROVE CallInv'
  <1>. USE DEF CallInv
  <1>. DEFINE item == NextItem(output.items)
              below == IF made = "Layer" THEN [item |-> item, budget |-> used.below]
                       ELSE PolicyStep(setup.policy, used.below, item)
              above == PolicyStep(setup.policy, used.above, below.item)
              rest == IF output.items = <<>> THEN <<>> ELSE Tail(output.items)
  <1>1. /\ phase = "Streaming"
        /\ used' = [below |-> below.budget, above |-> above.budget]
        /\ output' = Items(rest)
        /\ IF EndsStream(above.item)
           THEN phase' = "Done" /\ result' = above.item /\ delivered' = delivered
           ELSE delivered' = Append(delivered, above.item) /\ phase' = phase /\ result' = result
        /\ UNCHANGED <<setup, call, mode, request, wire, attempts, reply, made>>
    BY DEF Poll, Finish
  <1>2. setup.policy.output \in Nat /\ mode = "Stream"
    BY <1>1, CallFacts DEF FlowInv
  <1>3. AllItems(output.items) /\ output.type = "Stream"
    BY <1>1 DEF OutputInv, IsStream, AllItems
  <1>4. /\ AllItems(rest) /\ IsItem(item)
        /\ item.type = "Response" => \E n \in DOMAIN output.items : output.items[n] = item
        /\ \A n \in DOMAIN rest : \E k \in DOMAIN output.items : output.items[k] = rest[n]
    BY <1>3, TailKeeps
  <1>. HIDE DEF item, rest
  <1>5. /\ IsBudget(setup.policy, below.budget) /\ IsItem(below.item)
        /\ below.item.type = "Response" =>
              item.type = "Response" /\ item.warnings \subseteq below.item.warnings
        /\ ~EndsStream(below.item) => below.item = item
    <2>1. IsBudget(setup.policy, used.below)
      BY DEF BudgetInv
    <2>2. CASE made = "Layer"
      BY <1>4, <2>2 DEF BudgetInv
    <2>3. CASE made # "Layer"
      <3>1. below = PolicyStep(setup.policy, used.below, item)
        BY <2>3
      <3>. HIDE DEF below
      <3>2. IsBudget(setup.policy, used.below)
        BY DEF BudgetInv
      <3>3. Stepped(setup.policy, used.below, item, below)
        BY <1>2, <1>4, <3>1, <3>2, StepKeeps
      <3>. QED
        BY <3>3 DEF Stepped
    <2>. QED
      BY <2>2, <2>3
  <1>. HIDE DEF below
  <1>6. /\ IsBudget(setup.policy, above.budget) /\ IsItem(above.item)
        /\ EndsStream(above.item) => Within(setup.policy, above.item)
        /\ above.item.type = "Response" =>
              below.item.type = "Response" /\ below.item.warnings \subseteq above.item.warnings
        /\ EndsStream(above.item) => above.item.type # "Verdict" /\ above.budget = used.above
        /\ ~EndsStream(above.item) =>
              /\ above.item = below.item
              /\ \A kind \in DOMAIN NoneUsed :
                    above.budget[kind] = used.above[kind] + Weight(kind, below.item)
    <2>1. IsBudget(setup.policy, used.above) /\ above = PolicyStep(setup.policy, used.above, below.item)
      BY DEF BudgetInv
    <2>. HIDE DEF above
    <2>2. Stepped(setup.policy, used.above, below.item, above)
      BY <1>2, <1>5, <2>1, StepKeeps
    <2>. QED
      BY <2>2 DEF Stepped
  <1>. HIDE DEF above
  <1>7. CallIs' /\ CheckedInv'
    BY <1>1 DEF CallIs, CheckedInv, Dispatchable, KindsFit, Row
  <1>8. FlowInv' /\ OutputInv' /\ RepeatInv'
    <2>1. IsStream(Items(rest))
      BY <1>4, ItemsOf
    <2>. QED
      BY <1>1, <2>1 DEF FlowInv, OutputInv, RepeatInv, ModeFits
  <1>9. AnswerInv'
    <2>1. output'.items = rest
      BY <1>1 DEF Items
    <2>. QED
      BY <1>1, <1>3, <1>4, <2>1 DEF AnswerInv, Vouched
  <1>10. CASE EndsStream(above.item)
    <2>1. /\ phase' = "Done" /\ result' = above.item /\ delivered' = delivered
          /\ used' = [below |-> below.budget, above |-> used.above]
      <3>1. above.budget = used.above
        BY <1>6, <1>10
      <3>. QED
        BY <1>1, <1>10, <3>1
    <2>2. BudgetInv'
      BY <1>1, <1>5, <2>1 DEF BudgetInv
    <2>3. ASSUME made = "Provider", above.item.type = "Response"
          PROVE  Succeeded(reply) /\ wire.told \subseteq above.item.warnings
      <3>1. PICK n \in DOMAIN output.items : output.items[n] = item /\ item.type = "Response"
        BY <1>4, <1>5, <1>6, <2>3
      <3>2. Vouched(reply, item)
        BY <1>1, <1>3, <2>3, <3>1 DEF AnswerInv
      <3>. QED
        BY <1>5, <1>6, <2>3, <3>2 DEF Vouched
    <2>4. ResultInv'
      BY <1>1, <1>2, <1>6, <1>10, <2>1, <2>3 DEF ResultInv, Within, AnswersTheCall, Succeeded
    <2>. QED
      BY <1>7, <1>8, <1>9, <2>2, <2>4
  <1>11. CASE ~EndsStream(above.item)
    <2>1. /\ delivered' = Append(delivered, below.item) /\ result' = result
          /\ used' = [below |-> below.budget, above |-> above.budget]
          /\ phase' = "Streaming"
      BY <1>1, <1>6, <1>11
    <2>2. /\ AllItems(delivered)
          /\ \A kind \in DOMAIN NoneUsed : used.above[kind] = TotalOf(kind, delivered)
      BY DEF BudgetInv
    <2>3. AllItems(delivered')
      BY <1>5, <2>1, <2>2, ItemsAppend
    <2>4. ASSUME NEW kind \in DOMAIN NoneUsed
          PROVE  above.budget[kind] = TotalOf(kind, delivered')
      <3>1. TotalOf(kind, Append(delivered, below.item)) =
                TotalOf(kind, delivered) + Weight(kind, below.item)
        BY <1>5, <2>2, TotalOfAppend
      <3>. QED
        BY <1>6, <1>11, <2>1, <2>2, <3>1
    <2>5. BudgetInv'
      BY <1>1, <1>5, <1>6, <2>1, <2>3, <2>4 DEF BudgetInv
    <2>6. ResultInv'
      BY <1>1, <2>1, SameResult
    <2>. QED
      BY <1>7, <1>8, <1>9, <2>5, <2>6
  <1>. QED
    BY <1>10, <1>11

LEMMA InterruptKeeps == ASSUME CallInv, Interrupt PROVE CallInv'
  <1>. USE DEF CallInv
  <1>1. /\ phase' = "Done" /\ \E kind : result' = Final(kind)
        /\ UNCHANGED <<setup, call, mode, request, wire, attempts, reply, output, used, delivered,
                       made>>
    BY DEF Interrupt, Finish
  <1>2. ResultInv'
    BY <1>1, FinalIsError, ErrorResult
  <1>3. CheckedInv' /\ BudgetInv'
    BY <1>1, SameBudget DEF CheckedInv, Dispatchable, KindsFit, Row
  <1>. QED
    BY <1>1, <1>2, <1>3 DEF CallIs, FlowInv, OutputInv, RepeatInv, AnswerInv

LEMMA StutterKeeps == ASSUME CallInv, UNCHANGED vars PROVE CallInv'
  <1>. USE DEF vars
  <1>1. CallIs' /\ FlowInv'
    BY DEF CallInv, CallIs, FlowInv, ModeFits
  <1>2. CheckedInv' /\ OutputInv'
    BY DEF CallInv, CheckedInv, Dispatchable, KindsFit, Row, OutputInv
  <1>3. BudgetInv' /\ RepeatInv'
    BY DEF CallInv, BudgetInv, RepeatInv, Settles, Opening
  <1>4. AnswerInv' /\ ResultInv'
    BY DEF CallInv, AnswerInv, Vouched, LimitsSeen, Succeeded, ResultInv, AnswersTheCall
  <1>. QED
    BY <1>1, <1>2, <1>3, <1>4 DEF CallInv

(***************************************************************************)
(* The theorems.                                                           *)
(***************************************************************************)

\* Every reachable state has the invariant: what came back rests on the last
\* reply, what was counted is what was delivered, and what was encoded had
\* passed the check in front of the adapter (client/mod.rs, `call`).
THEOREM CallInvariant == Spec => []CallInv
  <1>1. Init => CallInv
    BY InitCall
  <1>2. CallInv /\ [Next]_vars => CallInv'
    <2>. SUFFICES ASSUME CallInv, [Next]_vars PROVE CallInv'
      OBVIOUS
    <2>1. CASE StartGeneration \/ StartEvaluation
      BY <2>1, StartKeeps
    <2>2. CASE Forward \/ MapRequest \/ AnswerItself \/ Repeat
      BY <2>2, LayerKeeps
    <2>3. CASE RefuseDispatch \/ NoCount \/ FailBeforeSending \/ Send \/ AnswerByAdapter
      BY <2>3, AdapterKeeps
    <2>4. CASE Receive
      BY <2>4, ReceiveKeeps
    <2>5. CASE PassOn
      BY <2>5, PassOnKeeps
    <2>6. CASE Poll
      BY <2>6, PollKeeps
    <2>7. CASE Interrupt
      BY <2>7, InterruptKeeps
    <2>8. CASE Done \/ UNCHANGED vars
      BY <2>8, StutterKeeps DEF Done
    <2>. QED
      BY <2>1, <2>2, <2>3, <2>4, <2>5, <2>6, <2>7, <2>8 DEF Next
  <1>. QED
    BY <1>1, <1>2, PTL DEF Spec

\* No part, control or question that the row denies is ever encoded, whatever
\* a layer makes of the request: the check in front of the adapter is the one
\* that counts (middleware/mod.rs, `dispatch`).
THEOREM OnlyWhatItTakes == Spec => []OnlyWhatTheRowTakes
  <1>1. CallInv => OnlyWhatTheRowTakes
    <2>. SUFFICES ASSUME CallInv, wire.type = "Encoded" PROVE OnlyWhatTheRowTakes
      BY DEF OnlyWhatTheRowTakes
    <2>1. Dispatchable
      BY DEF CallInv, CheckedInv, Nothing
    <2>2. CASE mode = "Evaluate"
      BY <2>1, <2>2 DEF OnlyWhatTheRowTakes, Dispatchable
    <2>3. CASE mode # "Evaluate"
      <3>1. Denied = {}
        BY <2>1, <2>3, NothingDenied DEF Dispatchable
      <3>. QED
        BY <2>3, <3>1 DEF OnlyWhatTheRowTakes
    <2>. QED
      BY <2>2, <2>3
  <1>. QED
    BY <1>1, CallInvariant, PTL

\* However an output came about, the caller gets no more of each budget than
\* the output limit, no calls of an unfinished turn, and a raw body only where
\* it is to be retained (types/limits.rs).
THEOREM WithinPolicy == Spec => []DeliveredWithinPolicy
  <1>1. CallInv => DeliveredWithinPolicy
    <2>. SUFFICES ASSUME CallInv PROVE DeliveredWithinPolicy
      OBVIOUS
    <2>1. \A kind \in DOMAIN NoneUsed : TotalOf(kind, delivered) <= setup.policy.output
      BY DEF CallInv, BudgetInv, IsBudget
    <2>2. Within(setup.policy, result)
      BY DEF CallInv, ResultInv
    <2>. QED
      BY <2>1, <2>2 DEF DeliveredWithinPolicy, Within
  <1>. QED
    BY <1>1, CallInvariant, PTL

\* Every verdict fits its evaluation, and what a provider answered rests on a
\* reply that succeeded, with the encoder's drops and the rate limits told,
\* and says what the judge's codes stood for (client/mod.rs,
\* `evaluate_with_context`; providers/mod.rs, `complete_by_streaming`).
THEOREM AnswersFit == Spec => []AnswersTheCall
  <1>1. CallInv => AnswersTheCall
    BY DEF CallInv, ResultInv
  <1>. QED
    BY <1>1, CallInvariant, PTL

\* A request whose last reply settled the call is never sent again, however
\* often the layer repeats what is retryable (transport/classify.rs).
THEOREM NothingSettledIsRepeated == Spec => RepeatsAreSafe
  <1>1. CallInv /\ [Next]_vars => [attempts' > attempts /\ reply # Nothing => ~Settles(reply)]_vars
    <2>. SUFFICES ASSUME CallInv, [Next]_vars, attempts' > attempts, reply # Nothing
                  PROVE  ~Settles(reply)
      OBVIOUS
    <2>1. attempts \in Nat
      BY DEF CallInv, FlowInv
    <2>2. attempts' # attempts
      BY <2>1
    <2>3. Send
      BY <2>2 DEF Next, vars, StartGeneration, StartEvaluation, Forward, MapRequest, AnswerItself,
           Repeat, RefuseDispatch, NoCount, FailBeforeSending, AnswerByAdapter, Receive, PassOn,
           Poll, Interrupt, Done
    <2>4. phase = "Dispatch"
      BY <2>3 DEF Send, ToEncode, Ready
    <2>. QED
      BY <2>4 DEF CallInv, RepeatInv
  <1>. QED
    BY <1>1, CallInvariant, PTL DEF Spec, RepeatsAreSafe


(***************************************************************************)
(* The calendar.                                                           *)
(***************************************************************************)

\* The days before a year that begins with March, as the code counts them.
YearStart(year) ==
    LET era == year \div 400
        yearOfEra == year - era * 400
    IN  era * 146097 + yearOfEra * 365 + yearOfEra \div 4 - yearOfEra \div 100

\* The leap day is the last day of such a year.
LEMMA YearsAddUp ==
    ASSUME NEW year \in Nat, year > 0
    PROVE  /\ YearStart(year) \in Int
           /\ YearStart(year) = YearStart(year - 1) + IF Leap(year) THEN 366 ELSE 365
  BY SMTT(30) DEF YearStart, Leap

\* The days before a month of such a year: from March to February.
MonthStart(month) == (153 * (IF month > 2 THEN month - 3 ELSE month + 9) + 2) \div 5

\* The days before a month, as the code counts them.
Counted(year, month) == YearStart(IF month <= 2 THEN year - 1 ELSE year) + MonthStart(month)

\* From the first of March of the year 0 to the epoch, and one day.
BeforeEpoch == 719469

LEMMA DaysAreCounted ==
    ASSUME NEW year \in Nat, NEW month \in 1..12, NEW day \in Nat
    PROVE  DaysFromCivil(year, month, day) = Counted(year, month) + day - BeforeEpoch
  BY SMTT(30) DEF DaysFromCivil, Counted, YearStart, MonthStart, BeforeEpoch

LEMMA CountedType ==
    ASSUME NEW year \in Nat, year > 1, NEW month \in 1..12
    PROVE  Counted(year, month) \in Int
  <1>1. \A y \in Nat : y > 0 => YearStart(y) \in Int
    BY YearsAddUp
  <1>2. MonthStart(month) \in Int
    BY DEF MonthStart
  <1>. QED
    BY <1>1, <1>2 DEF Counted

\* From the first of a month to the first of the next is the month's length.
LEMMA MonthsAddUp ==
    ASSUME NEW year \in Nat, year > 1, NEW month \in 1..12
    PROVE  IF month < 12 THEN Counted(year, month + 1) = Counted(year, month) + LastDay(year, month)
           ELSE Counted(year + 1, 1) = Counted(year, month) + LastDay(year, month)
  <1>1. /\ YearStart(year) \in Int /\ YearStart(year - 1) \in Int
        /\ YearStart(year) = YearStart(year - 1) + IF Leap(year) THEN 366 ELSE 365
    BY YearsAddUp
  <1>2. CASE month \notin {2, 12}
    <2>1. /\ MonthStart(month) \in Int
          /\ MonthStart(month + 1) = MonthStart(month) + LastDay(year, month)
      BY <1>2 DEF MonthStart, LastDay
    <2>2. LastDay(year, month) \in Int
      BY DEF LastDay
    <2>. QED
      BY <1>1, <1>2, <2>1, <2>2 DEF Counted
  <1>3. CASE month = 2
    <2>1. MonthStart(3) = 0 /\ MonthStart(2) = 337
      BY DEF MonthStart
    <2>2. LastDay(year, 2) = IF Leap(year) THEN 29 ELSE 28
      BY DEF LastDay
    <2>. QED
      BY <1>1, <1>3, <2>1, <2>2 DEF Counted
  <1>4. CASE month = 12
    <2>1. MonthStart(12) = 275 /\ MonthStart(1) = 306 /\ LastDay(year, 12) = 31
      BY DEF MonthStart, LastDay
    <2>. QED
      BY <1>1, <1>4, <2>1 DEF Counted
  <1>. QED
    BY <1>2, <1>3, <1>4

\* A date of the calendar and the days since the epoch.
CalendarInv ==
    /\ civil \in [year : {y \in Nat : y >= 1970}, month : 1..12, day : 1..31]
    /\ civil.day <= LastDay(civil.year, civil.month)
    /\ elapsed = DaysFromCivil(civil.year, civil.month, civil.day)

LEMMA EpochIsFirst == Epoch => CalendarInv
  BY SMTT(30) DEF Epoch, CalendarInv, Date, LastDay, DaysFromCivil

\* The code's count grows by one with every day of the calendar.
LEMMA DaysAddUp == ASSUME CalendarInv, NextDay PROVE CalendarInv'
  <1>. DEFINE y == civil.year
              m == civil.month
              d == civil.day
              length == LastDay(y, m)
              after == DateAfter(civil)
  <1>1. y \in Nat /\ y >= 1970 /\ m \in 1..12 /\ d \in 1..31 /\ d <= length
    BY DEF CalendarInv
  <1>2. elapsed' = DaysFromCivil(y, m, d) + 1 /\ civil' = after
    BY DEF CalendarInv, NextDay
  <1>3. \A year \in Nat, month \in 1..12 : LastDay(year, month) \in 28..31
    BY DEF LastDay
  <1>4. /\ Counted(y, m) \in Int /\ BeforeEpoch \in Nat
        /\ DaysFromCivil(y, m, d) = Counted(y, m) + d - BeforeEpoch
    <2>1. BeforeEpoch \in Nat
      BY SMTT(30) DEF BeforeEpoch
    <2>2. y > 1 /\ d \in Nat
      BY <1>1
    <2>3. Counted(y, m) \in Int
      BY <1>1, <2>2, CountedType
    <2>. QED
      BY <1>1, <2>1, <2>2, <2>3, DaysAreCounted
  <1>5. CASE d < length
    <2>1. civil' = [year |-> y, month |-> m, day |-> d + 1]
      BY <1>2, <1>5 DEF DateAfter, CalendarInv
    <2>2. DaysFromCivil(y, m, d + 1) = Counted(y, m) + d + 1 - BeforeEpoch
      <3>1. d + 1 \in Nat
        BY <1>1
      <3>2. DaysFromCivil(y, m, d + 1) = Counted(y, m) + (d + 1) - BeforeEpoch
        BY <1>1, <3>1, DaysAreCounted
      <3>. HIDE DEF y, m, d
      <3>. QED
        BY <1>1, <1>4, <3>2
    <2>. QED
      BY <1>1, <1>2, <1>3, <1>4, <1>5, <2>1, <2>2 DEF CalendarInv
  <1>6. CASE d = length /\ m < 12
    <2>1. civil' = [year |-> y, month |-> m + 1, day |-> 1]
      BY <1>1, <1>2, <1>6 DEF DateAfter, Date
    <2>2. m + 1 \in 1..12
      BY <1>1, <1>6
    <2>3. DaysFromCivil(y, m + 1, 1) = Counted(y, m) + d + 1 - BeforeEpoch
      <3>1. DaysFromCivil(y, m + 1, 1) = Counted(y, m + 1) + 1 - BeforeEpoch
        BY <1>1, <2>2, DaysAreCounted
      <3>2. Counted(y, m + 1) = Counted(y, m) + d
        BY <1>1, <1>6, MonthsAddUp
      <3>. QED
        BY <1>1, <1>4, <3>1, <3>2
    <2>4. LastDay(y, m + 1) \in 28..31
      BY <1>1, <1>3, <2>2
    <2>. QED
      BY <1>1, <1>2, <1>4, <2>1, <2>2, <2>3, <2>4 DEF CalendarInv
  <1>7. CASE d = length /\ m = 12
    <2>1. civil' = [year |-> y + 1, month |-> 1, day |-> 1]
      BY <1>1, <1>2, <1>7 DEF DateAfter, Date
    <2>2. DaysFromCivil(y + 1, 1, 1) = Counted(y, m) + d + 1 - BeforeEpoch
      <3>1. DaysFromCivil(y + 1, 1, 1) = Counted(y + 1, 1) + 1 - BeforeEpoch
        BY <1>1, DaysAreCounted
      <3>2. Counted(y + 1, 1) = Counted(y, m) + d
        BY <1>1, <1>7, MonthsAddUp
      <3>. QED
        BY <1>1, <1>4, <3>1, <3>2
    <2>3. LastDay(y + 1, 1) \in 28..31
      BY <1>1, <1>3
    <2>. QED
      BY <1>1, <1>2, <1>4, <2>1, <2>2, <2>3 DEF CalendarInv
  <1>. QED
    BY <1>1, <1>3, <1>5, <1>6, <1>7

LEMMA OnlyAhead ==
    ASSUME NEW left \in Int, NEW top \in Nat, left <= top
    PROVE  {wait \in {left} : wait > 0} = {left} \cap 1..top
  <1>1. left > 0 <=> left \in 1..top
    OBVIOUS
  <1>. QED
    BY <1>1

\* The header of the date of today's calendar, and what is left of the wait.
AskedAt(hour) == DateHeader(civil.year, civil.month, civil.day, hour, 59, 30)
LeftUntil(hour, today, second) == (elapsed - today) * 86400 + hour * 3600 + 59 * 60 + 30 - second
Longest == 200000
Waited(hour, today, second) ==
    ParseRetryAfter(AskedAt(hour), [day |-> today, second |-> second])
      = {LeftUntil(hour, today, second)} \cap 1..Longest

\* The wait that is left is counted from the date, to the second.
LEMMA WaitsFromDates == CalendarInv => WaitsEndOnTime
  <1>. SUFFICES ASSUME CalendarInv PROVE WaitsEndOnTime
    OBVIOUS
  <1>1. ASSUME NEW hour \in {0, 23}, NEW today \in (elapsed - 1)..(elapsed + 1),
               NEW second \in {0, 43200, 86399}
        PROVE  Waited(hour, today, second)
    <2>. DEFINE asked == AskedAt(hour)
                left == LeftUntil(hour, today, second)
                at == [day |-> elapsed, second |-> hour * 3600 + 59 * 60 + 30]
    <2>1. civil.year \in Nat /\ civil.year >= 1970 /\ civil.month \in 1..12 /\ civil.day \in 1..31
      BY DEF CalendarInv
    <2>2. elapsed \in Int
      <3>1. elapsed = DaysFromCivil(civil.year, civil.month, civil.day)
        BY DEF CalendarInv
      <3>. QED
        BY <2>1, <3>1 DEF DaysFromCivil
    <2>3. InstantOf(asked) = {at}
      BY <2>1, SMT DEF InstantOf, DateHeader, CalendarInv, AskedAt
    <2>4. SecondsBetween([day |-> today, second |-> second], at) = left
      BY <2>2, SMT DEF SecondsBetween, LeftUntil
    <2>5. asked.form = "Date"
      BY SMT DEF DateHeader, AskedAt
    <2>6. left \in Int /\ Longest \in Nat /\ left <= Longest
      BY <2>2, SMT DEF LeftUntil, Longest
    <2>. HIDE DEF asked, left, at
    <2>7. ParseRetryAfter(asked, [day |-> today, second |-> second]) = {wait \in {left} : wait > 0}
      BY <2>3, <2>4, <2>5, SMT DEF ParseRetryAfter
    <2>8. {wait \in {left} : wait > 0} = {left} \cap 1..Longest
      BY <2>6, OnlyAhead
    <2>. QED
      BY <2>7, <2>8, SMT DEF asked, left, Waited
  <1>2. WaitsEndOnTime <=>
          (part = "calendar" =>
             \A hour \in {0, 23}, today \in (elapsed - 1)..(elapsed + 1), second \in {0, 43200, 86399} :
                 Waited(hour, today, second))
    BY SMT DEF WaitsEndOnTime, Waited, AskedAt, LeftUntil, Longest
  <1>. QED
    BY <1>1, <1>2, SMT

(***************************************************************************)
(* What a provider's report means.                                         *)
(***************************************************************************)

ReportInv == report.code \in Codes

\* The first phrase that a message has, if it has one.
LEMMA PhraseKinds ==
    ASSUME NEW message
    PROVE  KindFromMessage(message) \in
              {"NotFound", "Authentication", "RateLimit", "ContextLength", "ContentFilter", Absent}
  <1>. DEFINE named == {i \in DOMAIN PhraseOrder : PhraseOrder[i] \in message}
  <1>1. DOMAIN PhraseOrder = 1..5
        /\ \A i \in 1..5 : PhraseOrder[i] \in
              {"NotFound", "Authentication", "RateLimit", "ContextLength", "ContentFilter"}
    BY DEF PhraseOrder
  <1>2. ASSUME named # {}
        PROVE  (CHOOSE i \in named : \A j \in named : i <= j) \in named
    <2>1. named \in SUBSET Nat
      BY <1>1
    <2>2. \E i \in named : \A j \in named : i <= j
      BY <1>2, <2>1, LeastNumber
    <2>. HIDE DEF named
    <2>. QED
      BY <2>2
  <1>. QED
    BY <1>1, <1>2 DEF KindFromMessage

\* The deadline of a provider is in one table, and no rule names it.
LEMMA DeadlinesAreTimeouts ==
    ASSUME NEW code \in Codes, code.name = "deadline_exceeded"
    PROVE  KindFromCode(code) = "Timeout"
  <1>1. code.rule = Absent
    <2>1. CASE code = NoCode
      BY <2>1 DEF NoCode, Code, Absent
    <2>2. CASE code # NoCode
      <3>1. PICK n \in CodeNames : code = Code(n, IF n \in DOMAIN RuleOf THEN RuleOf[n] ELSE Absent)
        BY <2>2 DEF Codes
      <3>2. "deadline_exceeded" \notin DOMAIN RuleOf
        BY DEF RuleOf
      <3>. QED
        BY <3>1, <3>2 DEF Code
    <2>. QED
      BY <2>1, <2>2
  <1>2. Listed("deadline_exceeded") = "Timeout"
    <2>. DEFINE listing == {i \in DOMAIN CodeTables : "deadline_exceeded" \in CodeTables[i].codes}
    <2>1. listing = {8} /\ CodeTables[8].kind = "Timeout"
      BY DEF CodeTables
    <2>2. (CHOOSE i \in listing : \A j \in listing : i <= j) = 8
      <3>. HIDE DEF listing
      <3>1. 8 \in listing /\ \A j \in listing : 8 <= j
        BY <2>1
      <3>2. \E i \in listing : \A j \in listing : i <= j
        BY <3>1
      <3>. QED
        BY <2>1, <3>2
    <2>. QED
      BY <2>1, <2>2 DEF Listed
  <1>. QED
    BY <1>1, <1>2 DEF KindFromCode

\* A report means one thing, however the provider sends it.
LEMMA ReportsMeanOneThing == ReportInv => ReportsAgree
  <1>. SUFFICES ASSUME ReportInv PROVE ReportsAgree
    OBVIOUS
  <1>. DEFINE code == report.code
              message == report.message
              c == KindFromCode(code)
              m == KindFromMessage(message)
              spent == c = "QuotaExceeded" \/ NamesSpentQuota(message)
              meant(status) == Classify(status, code, message, {})
              Of(kind) ==
                 LET final == IF kind = "RateLimit" /\ spent THEN "QuotaExceeded" ELSE kind
                 IN  Error(final, IF final \notin {"RateLimit", "Server"} THEN "Never" ELSE "Safe", FALSE)
  <1>1. \A status : meant(status) = Of(ReportedKind(status, code, message))
    BY DEF Classify
  <1>2. /\ ReportedKind(NoStatus, code, message) = Otherwise(c, m, "Server")
        /\ ReportedKind(402, code, message) = Otherwise(c, m, "Provider")
        /\ \A status \in {400, 422} :
              ReportedKind(status, code, message)
                = IF m = "Authentication" THEN m ELSE Otherwise(c, m, "InvalidRequest")
        /\ ReportedKind(429, code, message) = "RateLimit"
        /\ ReportedKind(404, code, message) = "NotFound"
        /\ ReportedKind(408, code, message) = "Timeout"
        /\ \A status \in {500, 503, 504} :
              ReportedKind(status, code, message)
                = IF Otherwise(c, m, Absent) = "Timeout" THEN "Timeout" ELSE "Server"
    BY DEF ReportedKind, KindOfStatus, NoStatus
  <1>3. m \in {"NotFound", "Authentication", "RateLimit", "ContextLength", "ContentFilter", Absent}
    BY PhraseKinds
  <1>4. code.name = "deadline_exceeded" => c = "Timeout"
    BY DeadlinesAreTimeouts DEF ReportInv
  <1>. HIDE DEF c, m, spent, meant
  <1>5. c # Absent =>
          /\ meant(402) = meant(NoStatus)
          /\ m # "Authentication" => meant(400) = meant(NoStatus) /\ meant(422) = meant(NoStatus)
    <2>. HIDE DEF Of
    <2>. QED
      BY <1>1, <1>2 DEF Otherwise
  <1>6. meant(NoStatus).kind = "QuotaExceeded" => meant(429) = meant(NoStatus)
    <2>. DEFINE r == Otherwise(c, m, "Server")
    <2>1. meant(NoStatus) = Of(r) /\ meant(429) = Of("RateLimit")
      <3>1. meant(NoStatus) = Of(ReportedKind(NoStatus, code, message))
        BY <1>1
      <3>2. meant(429) = Of(ReportedKind(429, code, message))
        BY <1>1
      <3>. HIDE DEF Of
      <3>. QED
        BY <1>2, <3>1, <3>2
    <2>2. Of(r).kind = "QuotaExceeded" => r \in {"RateLimit", "QuotaExceeded"}
      BY DEF Error
    <2>3. r = "QuotaExceeded" => c = "QuotaExceeded"
      BY <1>3 DEF Otherwise, Absent
    <2>4. c = "QuotaExceeded" => Of("RateLimit") = Of("QuotaExceeded")
      BY DEF spent
    <2>. HIDE DEF Of, r
    <2>. QED
      BY <2>1, <2>2, <2>3, <2>4
  <1>7. c = "Timeout" =>
          \A status \in {NoStatus, 402, 404, 408, 500, 503, 504} : ~IsRetryable(meant(status))
    BY <1>1, <1>2 DEF Otherwise, Error, IsRetryable, Absent, spent
  <1>. QED
    BY <1>4, <1>5, <1>6, <1>7 DEF ReportsAgree, c, m, meant

(***************************************************************************)
(* Parts that share no state.                                              *)
(***************************************************************************)

LEMMA CallsAreCalls == MCInit => Init
  BY DEF MCInit, OneCallInit, NoCall

LEMMA StepsOfACall == [MCNext]_partVars => [Next]_vars
  BY DEF MCNext, partVars, CallStep, FileStep, ChargeStep, EstimateStep, BuilderStep, TimeStep,
       ReportStep, CalendarStep

WordInv == CalendarInv /\ ReportInv

LEMMA WordsBegin == MCInit => WordInv
  <1>1. NoCode \in Codes
    BY DEF Codes
  <1>. QED
    BY <1>1, EpochIsFirst DEF MCInit, NoWord, ReportInit, WordInv, ReportInv

LEMMA WordsStay == ASSUME WordInv, [MCNext]_partVars PROVE WordInv'
  <1>1. CASE NextDay
    BY <1>1, DaysAddUp DEF WordInv, ReportInv, NextDay
  <1>2. CASE AddPhrase
    BY <1>2 DEF WordInv, ReportInv, CalendarInv, AddPhrase
  <1>3. CASE UNCHANGED wordVars
    BY <1>3 DEF WordInv, ReportInv, CalendarInv, wordVars
  <1>. QED
    BY <1>1, <1>2, <1>3 DEF MCNext, partVars, CallStep, FileStep, ChargeStep, EstimateStep,
         BuilderStep, TimeStep, ReportStep, CalendarStep, SaysEverything, LastDate

\* A request whose last reply settled its call is not sent again; a report
\* means the same however a provider sends it (classify); and a wait until a
\* date ends at that date, in every year (parse_http_date).
THEOREM RepetitionIsSound == MCSpec => RepeatsAreSound
  <1>1. MCSpec => Spec
    BY CallsAreCalls, StepsOfACall, PTL DEF MCSpec, Spec
  <1>2. MCSpec => []WordInv
    BY WordsBegin, WordsStay, PTL DEF MCSpec
  <1>3. WordInv => ReportsAgree /\ WaitsEndOnTime
    BY ReportsMeanOneThing, WaitsFromDates DEF WordInv
  <1>. QED
    BY <1>1, <1>2, <1>3, NothingSettledIsRepeated, PTL DEF RepeatsAreSound

(***************************************************************************)
(* The time a call gets.                                                   *)
(***************************************************************************)

\* One duration or deadline, or none.
Optional(some) == some \subseteq Nat /\ \A s, t \in some : s = t

\* The deadline is the earliest of the call's; a call without one never got any.
IsDeadline(due, all) ==
    IF due = {} THEN all = {}
    ELSE \E d \in Nat : due = {d} /\ d \in all /\ \A e \in all : d <= e

TimeInv ==
    /\ now \in Nat
    /\ passes \in Seq([at : Nat, own : Timeouts, default : Timeouts])
    /\ Building!Deadlines \subseteq Nat
    /\ deadline # Building!TooLate => IsDeadline(deadline, Building!Deadlines)

LEMMA TimeBegins == MCInit => TimeInv
  <1>. SUFFICES ASSUME MCInit PROVE TimeInv
    OBVIOUS
  <1>1. Building!TimeInit
    BY DEF MCInit, OneCallInit, NoTime
  <1>2. context \in ContextDeadlines
    BY <1>1 DEF Building!TimeInit
  <1>3. Optional(context)
    BY <1>2, TimeAssumption DEF Optional
  <1>4. Building!Deadlines = context
    BY <1>1 DEF Building!TimeInit, Building!Deadlines
  <1>5. IsDeadline(context, context)
    <2>1. CASE context = {}
      BY <2>1 DEF IsDeadline
    <2>2. CASE context # {}
      <3>1. PICK d \in context : TRUE
        BY <2>2
      <3>2. d \in Nat /\ context = {d}
        BY <1>3, <3>1 DEF Optional
      <3>. QED
        BY <3>2 DEF IsDeadline
    <2>. QED
      BY <2>1, <2>2
  <1>6. passes \in Seq([at : Nat, own : Timeouts, default : Timeouts])
    BY <1>1 DEF Building!TimeInit
  <1>. QED
    BY <1>1, <1>3, <1>4, <1>5, <1>6 DEF TimeInv, Optional, Building!TimeInit

\* A pass adds what it allows to the deadlines.
LEMMA PassAllows ==
    ASSUME NEW pass, passes \in Seq([at : Nat, own : Timeouts, default : Timeouts]),
           passes' = Append(passes, pass), context' = context
    PROVE  Building!Deadlines' = Building!Deadlines \cup Building!Allowed(pass)
  <1>1. DOMAIN passes' = DOMAIN passes \cup {Len(passes) + 1}
    OBVIOUS
  <1>2. \A n \in DOMAIN passes : passes'[n] = passes[n]
    OBVIOUS
  <1>3. passes'[Len(passes) + 1] = pass /\ Len(passes) + 1 \in DOMAIN passes'
    OBVIOUS
  <1>. DEFINE Given(n) == Building!Allowed(passes[n])
              Gives(n) == Building!Allowed(passes'[n])
  <1>4. \A n \in DOMAIN passes : Gives(n) = Given(n)
    BY <1>2
  <1>5. Gives(Len(passes) + 1) = Building!Allowed(pass)
    BY <1>3
  <1>6. UNION {Gives(n) : n \in DOMAIN passes'}
          = (UNION {Given(n) : n \in DOMAIN passes}) \cup Building!Allowed(pass)
    <2>. HIDE DEF Gives, Given
    <2>. QED
      <3>1. \A d : d \in UNION {Gives(n) : n \in DOMAIN passes'} <=> \E n \in DOMAIN passes' : d \in Gives(n)
        OBVIOUS
      <3>2. \A d : d \in UNION {Given(n) : n \in DOMAIN passes} <=> \E n \in DOMAIN passes : d \in Given(n)
        OBVIOUS
      <3>3. \A d : (\E n \in DOMAIN passes' : d \in Gives(n))
                     <=> (\E n \in DOMAIN passes : d \in Given(n)) \/ d \in Building!Allowed(pass)
        BY <1>1, <1>4, <1>5
      <3>4. \A d : d \in UNION {Gives(n) : n \in DOMAIN passes'}
                     <=> d \in (UNION {Given(n) : n \in DOMAIN passes}) \cup Building!Allowed(pass)
        <4>. TAKE d
        <4>1. (d \in UNION {Gives(n) : n \in DOMAIN passes'})
                <=> (d \in UNION {Given(n) : n \in DOMAIN passes}) \/ d \in Building!Allowed(pass)
          BY <3>1, <3>2, <3>3, Zenon
        <4>. QED
          BY <4>1, Zenon
      <3>. QED
        BY <3>4
  <1>. QED
    BY <1>6 DEF Building!Deadlines, Building!Allowed

\* The earlier of the deadline that was and the one a timeout sets.
LEMMA EarlierIsEarliest ==
    ASSUME NEW due, NEW all \in SUBSET Nat, NEW timeout \in Nat, now \in Nat,
           IsDeadline(due, all), Building!WithTimeout(due, timeout) # Building!TooLate
    PROVE  IsDeadline(Building!WithTimeout(due, timeout), all \cup {now + timeout})
  <1>1. Building!WithTimeout(due, timeout)
          = {IF \E d \in due : d < now + timeout THEN CHOOSE d \in due : TRUE ELSE now + timeout}
    BY DEF Building!WithTimeout
  <1>2. CASE due = {}
    BY <1>1, <1>2 DEF IsDeadline
  <1>3. ASSUME NEW d \in Nat, due = {d}, d \in all, \A e \in all : d <= e
        PROVE  IsDeadline(Building!WithTimeout(due, timeout), all \cup {now + timeout})
    <2>1. (CHOOSE e \in due : TRUE) = d
      BY <1>3
    <2>2. Building!WithTimeout(due, timeout) = {IF d < now + timeout THEN d ELSE now + timeout}
      BY <1>1, <1>3, <2>1
    <2>. QED
      BY <1>3, <2>2 DEF IsDeadline
  <1>. QED
    BY <1>2, <1>3 DEF IsDeadline

LEMMA TimeStays == ASSUME TimeInv, [MCNext]_partVars PROVE TimeInv'
  <1>1. CASE Building!Prepare
    <2>1. PICK own \in Timeouts, default \in Timeouts :
            /\ deadline' = IF (IF own # {} THEN own ELSE default) = {} THEN deadline
                           ELSE Building!WithTimeout(deadline,
                                    CHOOSE t \in (IF own # {} THEN own ELSE default) : TRUE)
            /\ passes' = Append(passes, [at |-> now, own |-> own, default |-> default])
      BY <1>1 DEF Building!Prepare
    <2>. DEFINE timeout == IF own # {} THEN own ELSE default
                pass == [at |-> now, own |-> own, default |-> default]
    <2>2. deadline # Building!TooLate /\ now' = now /\ context' = context
      BY <1>1 DEF Building!Prepare
    <2>3. Optional(timeout)
      BY TimeAssumption DEF Optional
    <2>4. Building!Allowed(pass) = {now + t : t \in timeout}
      BY DEF Building!Allowed
    <2>5. passes' \in Seq([at : Nat, own : Timeouts, default : Timeouts])
      BY <2>1 DEF TimeInv
    <2>6. Building!Deadlines' = Building!Deadlines \cup {now + t : t \in timeout}
      BY <2>1, <2>2, <2>4, PassAllows DEF TimeInv
    <2>7. deadline' = IF timeout = {} THEN deadline
                      ELSE Building!WithTimeout(deadline, CHOOSE t \in timeout : TRUE)
      BY <2>1
    <2>. HIDE DEF timeout, pass
    <2>8. CASE timeout = {}
      BY <2>2, <2>5, <2>6, <2>7, <2>8 DEF TimeInv
    <2>9. CASE timeout # {}
      <3>1. PICK t \in Nat : timeout = {t}
        BY <2>3, <2>9 DEF Optional
      <3>2. (CHOOSE u \in timeout : TRUE) = t
        BY <3>1
      <3>3. {now + u : u \in timeout} = {now + t}
        BY <3>1
      <3>4. deadline' = Building!WithTimeout(deadline, t)
        BY <2>7, <2>9, <3>2
      <3>5. IsDeadline(deadline, Building!Deadlines) /\ Building!Deadlines \in SUBSET Nat /\ now \in Nat
        BY <2>2 DEF TimeInv
      <3>6. deadline' # Building!TooLate => IsDeadline(deadline', Building!Deadlines')
        BY <2>6, <3>3, <3>4, <3>5, EarlierIsEarliest
      <3>7. Building!TooLate' = Building!TooLate
        BY DEF Building!TooLate
      <3>8. Building!Deadlines' \subseteq Nat
        <4>1. now + t \in Nat
          BY <3>5
        <4>. QED
          BY <2>6, <3>3, <3>5, <4>1
      <3>9. now' \in Nat
        BY <2>2, <3>5
      <3>. QED
        BY <2>5, <3>6, <3>7, <3>8, <3>9 DEF TimeInv
    <2>. QED
      BY <2>8, <2>9
  <1>2. CASE Building!TimePasses
    BY <1>2 DEF TimeInv, Building!TimePasses, Building!Deadlines, Building!TooLate
  <1>3. CASE UNCHANGED timeVars
    BY <1>3 DEF TimeInv, timeVars, Building!Deadlines, Building!TooLate
  <1>. QED
    BY <1>1, <1>2, <1>3 DEF MCNext, partVars, CallStep, FileStep, ChargeStep, EstimateStep,
         BuilderStep, TimeStep, ReportStep, CalendarStep, Building!TimeNext, Building!TimeOver,
         Building!timeVars, timeVars

\* A call's deadline only nears: it is always the earliest of its context's and
\* those of the passes so far (prepare_context_for_timeout, CallGuard::with_timeout).
THEOREM DeadlinesOnlyNear == MCSpec => []Building!DeadlineOnlyNears
  <1>1. TimeInv => Building!DeadlineOnlyNears
    <2>. SUFFICES ASSUME TimeInv, deadline # Building!TooLate
                  PROVE  deadline = {d \in Building!Deadlines : \A e \in Building!Deadlines : d <= e}
      BY DEF Building!DeadlineOnlyNears
    <2>. DEFINE all == Building!Deadlines
    <2>1. all \subseteq Nat /\ IsDeadline(deadline, all)
      BY DEF TimeInv
    <2>. HIDE DEF all
    <2>2. deadline = {d \in all : \A e \in all : d <= e}
      <3>1. CASE deadline = {}
        BY <2>1, <3>1 DEF IsDeadline
      <3>2. ASSUME NEW d \in Nat, deadline = {d}, d \in all, \A e \in all : d <= e
            PROVE  deadline = {c \in all : \A e \in all : c <= e}
        <4>1. \A c \in all : (\A e \in all : c <= e) <=> c = d
          BY <2>1, <3>2
        <4>. QED
          BY <3>2, <4>1
      <3>. QED
        BY <2>1, <3>1, <3>2 DEF IsDeadline
    <2>. QED
      BY <2>2 DEF all
  <1>. QED
    BY <1>1, TimeBegins, TimeStays, PTL DEF MCSpec

(***************************************************************************)
(* The files that a layer puts into a request.                             *)
(***************************************************************************)

Reading == {"Resolve", "Root", "Inspect", "Read"}

\* What is known of the file that is read, at each of its awaits.
ReadInv ==
    /\ stage \in Reading => Local!IsLocal(Local!Part) /\ tree \in seen
    /\ stage \in {"Resolve", "Root"} /\ ~Local!Unrestricted => 1 \in DOMAIN Local!Roots
    /\ stage = "Root" => ~Local!Unrestricted /\ rootAt \in DOMAIN Local!Roots
    /\ stage \in Reading \ {"Resolve"} => \E t \in seen : resolved \in Local!Canonical(t, Local!Path)
    /\ stage \in {"Inspect", "Read"} /\ ~Local!Unrestricted => \E t \in seen : Local!Inside(t, resolved)
    /\ stage = "Read" => resolved \notin DOMAIN tree \/ tree[resolved].kind = "file"

FileInv ==
    /\ fileCall \in FileCalls
    /\ fates \in Seq({fates[i] : i \in DOMAIN fates})
    /\ \A p \in DOMAIN tree : tree[p].size \in Int
    /\ stage = "Handle" => fates = <<>>
    /\ Local!ReadsAreSound
    /\ ReadInv

LEMMA FilesBegin == MCInit => FileInv
  <1>. SUFFICES ASSUME MCInit PROVE FileInv
    OBVIOUS
  <1>1. Local!FileInit
    BY FilesAssumption DEF MCInit, OneCallInit, NoFiles
  <1>2. fileCall \in FileCalls /\ stage = "Handle" /\ fates = <<>> /\ tree \in Trees
    BY <1>1, FilesAssumption DEF Local!FileInit
  <1>. QED
    BY <1>2, FilesAssumption DEF FileInv, ReadInv, ReadInv, Local!ReadsAreSound, Reading

\* The request of a call stays, and so do its parts and the layer's roots.
LEMMA RequestStays ==
    ASSUME fileCall' = fileCall
    PROVE  /\ Local!Parts' = Local!Parts /\ Local!Roots' = Local!Roots
           /\ Local!Unrestricted' <=> Local!Unrestricted
  BY DEF Local!Parts, Local!PartsIn, Local!Roots, Local!Unrestricted

LEMMA PartStays ==
    ASSUME fileCall' = fileCall, fates' = fates
    PROVE  /\ Local!Part' = Local!Part /\ Local!Path' = Local!Path /\ Local!LastRead' = Local!LastRead
           /\ \A t, path : Local!Inside(t, path)' <=> Local!Inside(t, path)
  BY RequestStays DEF Local!Part, Local!Path, Local!LastRead, Local!Inside

\* The fate of a part is the last one, once it is decided.
LEMMA PartDecided ==
    ASSUME FileInv, NEW fate, Local!Decide(fate)
    PROVE  /\ Local!Last(fates') = fate /\ Local!LastRead' = Local!Part
           /\ fates' \in Seq({fates'[i] : i \in DOMAIN fates'})
           /\ fileCall' = fileCall /\ seen' = seen /\ stage' = "Part" /\ tree' = tree
  <1>1. fates' = Append(fates, fate) /\ fileCall' = fileCall /\ seen' = seen
        /\ stage' = "Part" /\ tree' = tree
    BY DEF Local!Decide
  <1>2. Len(fates') = Len(fates) + 1 /\ fates'[Len(fates) + 1] = fate
        /\ fates' \in Seq({fates'[i] : i \in DOMAIN fates'})
    <2>1. fates \in Seq({fates[i] : i \in DOMAIN fates})
      BY DEF FileInv
    <2>. DEFINE held == {fates[i] : i \in DOMAIN fates} \cup {fate}
    <2>2. fates \in Seq(held) /\ fate \in held
      BY <2>1
    <2>. HIDE DEF held
    <2>3. fates' \in Seq(held) /\ Len(fates') = Len(fates) + 1 /\ fates'[Len(fates) + 1] = fate
      BY <1>1, <2>2
    <2>4. fates' = [i \in 1..Len(fates') |-> fates'[i]] /\ Len(fates') \in Nat /\ DOMAIN fates' = 1..Len(fates')
      BY <2>3
    <2>. QED
      BY <2>3, <2>4
  <1>3. Local!LastRead' = Local!Part
    BY <1>1, <1>2, RequestStays DEF Local!LastRead, Local!Part
  <1>. QED
    BY <1>1, <1>2, <1>3 DEF Local!Last

\* A fate that is sound for a part.
SoundFate(p, fate) ==
    IF ~Local!IsLocal(p) THEN fate = Local!Kept
    ELSE fate # Local!Dropped =>
         /\ fate.size <= MaxFileBytes
         /\ \E t \in seen : Local!Regular(t, fate.file) /\ t[fate.file].size = fate.size
         /\ ~Local!Unrestricted => \E t \in seen : Local!Inside(t, fate.file)
         /\ \E t \in seen : fate.file \in Local!Canonical(t, Local!PathOf(p.url))

LEMMA SoundFates ==
    /\ Local!ReadsAreSound <=> (stage = "Part" /\ fates # <<>> => SoundFate(Local!LastRead, Local!Last(fates)))
    /\ Local!ReadsAreSound' <=> (stage' = "Part" /\ fates' # <<>> => SoundFate(Local!LastRead, Local!Last(fates))')
  <1>1. Local!ReadsAreSound <=> (stage = "Part" /\ fates # <<>> => SoundFate(Local!LastRead, Local!Last(fates)))
    BY DEF Local!ReadsAreSound, SoundFate
  <1>2. Local!ReadsAreSound' <=> (stage' = "Part" /\ fates' # <<>> => SoundFate(Local!LastRead, Local!Last(fates))')
    BY DEF Local!ReadsAreSound, SoundFate
  <1>. QED
    BY <1>1, <1>2

\* Nothing changes for a part while the request and what was seen stay.
LEMMA FateStays ==
    ASSUME fileCall' = fileCall, seen' = seen,
           Local!LastRead' = Local!Part, NEW fate, Local!Last(fates') = fate,
           SoundFate(Local!Part, fate)
    PROVE  SoundFate(Local!LastRead, Local!Last(fates))'
  <1>1. Local!Unrestricted' <=> Local!Unrestricted
    BY RequestStays
  <1>2. \A t, path : Local!Inside(t, path)' <=> Local!Inside(t, path)
    BY RequestStays DEF Local!Inside
  <1>. QED
    BY <1>1, <1>2 DEF SoundFate

\* A decision that is sound for the part that is read keeps what is known.
LEMMA DecisionIsSound ==
    ASSUME FileInv, NEW fate, Local!Decide(fate), SoundFate(Local!Part, fate)
    PROVE  FileInv'
  <1>1. /\ Local!Last(fates') = fate /\ Local!LastRead' = Local!Part
        /\ fates' \in Seq({fates'[i] : i \in DOMAIN fates'})
        /\ fileCall' = fileCall /\ seen' = seen /\ stage' = "Part" /\ tree' = tree
    BY PartDecided
  <1>2. SoundFate(Local!LastRead, Local!Last(fates))'
    BY <1>1, FateStays
  <1>3. Local!ReadsAreSound'
    BY <1>2, SoundFates
  <1>. QED
    BY <1>1, <1>3 DEF FileInv, ReadInv, Reading

\* Where a root is, and whether a path is within one of them, while the request stays.
LEMMA RootHolds ==
    ASSUME NEW t, NEW path, NEW n \in DOMAIN Local!Roots,
           \E r \in Local!Canonical(t, Local!Lexical(Local!Roots[n])) : Local!Within(path, r)
    PROVE  Local!Inside(t, path)
  <1>1. Local!Roots[n] \in Local!ToSet(Local!Roots)
    BY DEF Local!ToSet
  <1>. QED
    BY <1>1 DEF Local!Inside

\* A layer that has roots has at least one if a path is inside one by name.
LEMMA SomeRoot ==
    ASSUME fileCall \in FileCalls, NEW path, Local!NamedInside(path), ~Local!Unrestricted
    PROVE  1 \in DOMAIN Local!Roots
  <1>1. Local!Roots \in fileCall.roots
    BY DEF Local!Roots, Local!Unrestricted, Local!Anywhere
  <1>2. Local!Roots \in Seq({Local!Roots[i] : i \in DOMAIN Local!Roots})
    BY <1>1, FilesAssumption
  <1>3. PICK i \in DOMAIN Local!Roots : TRUE
    BY DEF Local!NamedInside, Local!ToSet
  <1>. DEFINE roots == Local!Roots
              held == {roots[j] : j \in DOMAIN roots}
  <1>4. roots \in Seq(held) /\ i \in DOMAIN roots
    BY <1>2, <1>3
  <1>. HIDE DEF roots, held
  <1>5. 1 \in DOMAIN roots
    BY <1>4
  <1>. QED
    BY <1>5 DEF roots

\* An await that goes on with the same request and fates.
LEMMA Goes ==
    ASSUME FileInv, NEW next, Local!Continue(next), next \notin {"Handle", "Part"}, ReadInv'
    PROVE  FileInv'
  <1>1. fileCall' = fileCall /\ fates' = fates /\ stage' = next /\ tree' = tree
    BY DEF Local!Continue
  <1>2. Local!ReadsAreSound'
    BY <1>1 DEF Local!ReadsAreSound
  <1>. QED
    BY <1>1, <1>2 DEF FileInv

LEMMA FilesRefused ==
    ASSUME FileInv, NEW kind, Local!Refuse(kind)
    PROVE  FileInv'
  <1>1. fileCall' = fileCall /\ fates' = fates /\ stage' = "Failed" /\ tree' = tree
    BY DEF Local!Refuse
  <1>. QED
    BY <1>1 DEF FileInv, ReadInv, Reading, Local!ReadsAreSound

LEMMA FilesUnchanged == FileInv /\ UNCHANGED localVars => FileInv'
  <1>. SUFFICES ASSUME FileInv, UNCHANGED localVars PROVE FileInv'
    OBVIOUS
  <1>1. /\ fileCall' = fileCall /\ fates' = fates /\ seen' = seen /\ tree' = tree /\ stage' = stage
        /\ resolved' = resolved /\ rootAt' = rootAt
    BY DEF localVars
  <1>. QED
    BY <1>1 DEF FileInv, ReadInv, Local!ReadsAreSound, Local!LastRead, Local!Part, Local!Path, Local!Parts,
       Local!PartsIn, Local!Roots, Local!Unrestricted, Local!Inside

\* What an await that goes on leaves as it is.
LEMMA StaysInPlace ==
    ASSUME NEW next, Local!Continue(next), resolved' = resolved
    PROVE  /\ fileCall' = fileCall /\ stage' = next /\ tree' = tree
           /\ Local!Part' = Local!Part /\ Local!Path' = Local!Path /\ Local!Roots' = Local!Roots
           /\ Local!Unrestricted' <=> Local!Unrestricted
           /\ \A t : Local!Inside(t, resolved)' <=> Local!Inside(t, resolved)
  <1>1. fileCall' = fileCall /\ fates' = fates /\ stage' = next /\ tree' = tree
    BY DEF Local!Continue
  <1>2. Local!Part' = Local!Part /\ Local!Path' = Local!Path
    BY <1>1, PartStays
  <1>. QED
    BY <1>1, <1>2, RequestStays DEF Local!Inside

LEMMA NextRoot ==
    ASSUME fileCall \in FileCalls, ~Local!Unrestricted, NEW n \in DOMAIN Local!Roots, n < Len(Local!Roots)
    PROVE  n + 1 \in DOMAIN Local!Roots
  <1>1. Local!Roots \in fileCall.roots
    BY DEF Local!Roots, Local!Unrestricted, Local!Anywhere
  <1>2. Local!Roots \in Seq({Local!Roots[i] : i \in DOMAIN Local!Roots})
    BY <1>1, FilesAssumption
  <1>. DEFINE roots == Local!Roots
              held == {roots[j] : j \in DOMAIN roots}
  <1>3. roots \in Seq(held) /\ n \in DOMAIN roots /\ n < Len(roots)
    BY <1>2
  <1>. HIDE DEF roots, held
  <1>4. n + 1 \in DOMAIN roots
    BY <1>3
  <1>. QED
    BY <1>4 DEF roots

LEMMA TreeChanges ==
    ASSUME FileInv, NEW path, NEW size \in Int, Local!ChangeTree(path, size)
    PROVE  FileInv'
  <1>1. /\ fileCall' = fileCall /\ stage' = stage /\ fates' = fates /\ resolved' = resolved
        /\ rootAt' = rootAt /\ stage \in Reading /\ seen' = seen \cup {tree'}
    BY DEF Local!ChangeTree, Reading
  <1>2. /\ Local!Part' = Local!Part /\ Local!Path' = Local!Path /\ Local!Roots' = Local!Roots
        /\ Local!Unrestricted' <=> Local!Unrestricted
    BY <1>1, PartStays, RequestStays
  <1>3. \A t : Local!Inside(t, resolved)' <=> Local!Inside(t, resolved)
    BY <1>1, <1>2 DEF Local!Inside
  <1>4. \A p \in DOMAIN tree' :
           \/ p \in DOMAIN tree /\ tree'[p] = tree[p]
           \/ tree'[p].kind = "file" /\ tree'[p].size = size
    <2>1. CASE size < 0
      <3>1. tree' = [p \in DOMAIN tree \ {path} |-> tree[p]]
        BY <2>1 DEF Local!ChangeTree
      <3>. QED
        BY <3>1
    <2>2. CASE ~(size < 0)
      <3>1. tree' = [p \in DOMAIN tree \cup {path} |->
                       IF p = path THEN [kind |-> "file", size |-> size, readable |-> TRUE] ELSE tree[p]]
        BY <2>2 DEF Local!ChangeTree
      <3>. QED
        BY <3>1
    <2>. QED
      BY <2>1, <2>2
  <1>5. \A p \in DOMAIN tree' : tree'[p].size \in Int
    BY <1>4 DEF FileInv
  <1>6. stage = "Read" => resolved \notin DOMAIN tree' \/ tree'[resolved].kind = "file"
    BY <1>4 DEF FileInv, ReadInv
  <1>7. ReadInv'
    BY <1>1, <1>2, <1>3, <1>6 DEF FileInv, ReadInv, Reading, Local!IsLocal
  <1>. QED
    BY <1>1, <1>5, <1>7 DEF FileInv, Reading, Local!ReadsAreSound

LEMMA FilesStay == FileInv /\ Local!FileNext => FileInv'
  <1>. SUFFICES ASSUME FileInv, Local!FileNext PROVE FileInv'
    OBVIOUS
  <1>. USE DEF Reading
  <1>1. CASE Local!Handle
    <2>1. fileCall' = fileCall /\ fates' = fates /\ seen' = seen /\ tree' = tree /\ stage' \in {"Part", "Sent"} /\ stage = "Handle"
      BY <1>1 DEF Local!Handle
    <2>2. fates = <<>>
      BY <2>1 DEF FileInv
    <2>. QED
      BY <2>1, <2>2 DEF FileInv, ReadInv, Local!ReadsAreSound
  <1>2. CASE Local!KeepPart
    BY <1>2, DecisionIsSound DEF Local!KeepPart, SoundFate
  <1>3. CASE Local!LoadPart
    <2>1. CASE Local!NamedInside(Local!Path)
      <3>1. Local!Continue("Resolve") /\ seen' = {tree} /\ UNCHANGED <<resolved, rootAt>> /\ Local!IsLocal(Local!Part)
        BY <1>3, <2>1 DEF Local!LoadPart
      <3>2. fileCall' = fileCall /\ fates' = fates /\ stage' = "Resolve" /\ tree' = tree
        BY <3>1 DEF Local!Continue
      <3>3. ~Local!Unrestricted => 1 \in DOMAIN Local!Roots
        BY <2>1, SomeRoot DEF FileInv
      <3>4. /\ Local!Part' = Local!Part /\ Local!Roots' = Local!Roots
            /\ Local!Unrestricted' <=> Local!Unrestricted
        BY <3>2, PartStays, RequestStays
      <3>5. ReadInv'
        BY <3>1, <3>2, <3>3, <3>4 DEF ReadInv, Local!IsLocal
      <3>. QED
        BY <3>1, <3>5, Goes
    <2>2. CASE ~Local!NamedInside(Local!Path)
      BY <1>3, <2>2, FilesRefused DEF Local!LoadPart
    <2>. QED
      BY <2>1, <2>2
  <1>4. CASE Local!Resolve
    <2>1. stage = "Resolve" /\ Local!IsLocal(Local!Part) /\ tree \in seen
      BY <1>4 DEF Local!Resolve, FileInv, ReadInv
    <2>2. CASE Local!Canonical(tree, Local!Path) = {}
      <3>1. Local!Decide(Local!Dropped)
        BY <1>4, <2>2 DEF Local!Resolve
      <3>. QED
        BY <2>1, <3>1, DecisionIsSound DEF SoundFate
    <2>3. CASE Local!Canonical(tree, Local!Path) # {}
      <3>. DEFINE next == IF Local!Unrestricted THEN "Inspect" ELSE "Root"
      <3>1. /\ Local!Continue(next) /\ resolved' \in Local!Canonical(tree, Local!Path)
            /\ rootAt' = 1 /\ seen' = seen
        BY <1>4, <2>3 DEF Local!Resolve
      <3>2. fileCall' = fileCall /\ fates' = fates /\ stage' = next /\ tree' = tree
        BY <3>1 DEF Local!Continue
      <3>3. ~Local!Unrestricted => 1 \in DOMAIN Local!Roots
        BY <2>1 DEF FileInv, ReadInv
      <3>4. /\ Local!Part' = Local!Part /\ Local!Path' = Local!Path /\ Local!Roots' = Local!Roots
            /\ Local!Unrestricted' <=> Local!Unrestricted
        BY <3>2, PartStays, RequestStays
      <3>5. ReadInv'
        BY <2>1, <3>1, <3>2, <3>3, <3>4 DEF ReadInv, Local!IsLocal
      <3>. QED
        BY <3>1, <3>5, Goes
    <2>. QED
      BY <2>2, <2>3
  <1>5. CASE Local!CompareRoot
    <2>1. /\ stage = "Root" /\ ~Local!Unrestricted /\ rootAt \in DOMAIN Local!Roots
          /\ Local!IsLocal(Local!Part) /\ tree \in seen /\ 1 \in DOMAIN Local!Roots
          /\ \E t \in seen : resolved \in Local!Canonical(t, Local!Path)
      BY <1>5 DEF Local!CompareRoot, FileInv, ReadInv
    <2>2. CASE \E r \in Local!Canonical(tree, Local!Lexical(Local!Roots[rootAt])) : Local!Within(resolved, r)
      <3>1. Local!Continue("Inspect") /\ resolved' = resolved /\ rootAt' = rootAt /\ seen' = seen
        BY <1>5, <2>2 DEF Local!CompareRoot
      <3>2. Local!Inside(tree, resolved)
        BY <2>1, <2>2, RootHolds
      <3>3. ReadInv'
        BY <2>1, <3>1, <3>2, StaysInPlace DEF ReadInv, Local!IsLocal
      <3>. QED
        BY <3>1, <3>3, Goes
    <2>3. CASE /\ ~\E r \in Local!Canonical(tree, Local!Lexical(Local!Roots[rootAt])) : Local!Within(resolved, r)
               /\ rootAt < Len(Local!Roots)
      <3>1. Local!Continue("Root") /\ resolved' = resolved /\ rootAt' = rootAt + 1 /\ seen' = seen
        BY <1>5, <2>3 DEF Local!CompareRoot
      <3>2. rootAt + 1 \in DOMAIN Local!Roots
        BY <2>1, <2>3, NextRoot DEF FileInv
      <3>3. ReadInv'
        BY <2>1, <3>1, <3>2, StaysInPlace DEF ReadInv, Local!IsLocal
      <3>. QED
        BY <3>1, <3>3, Goes
    <2>4. CASE /\ ~\E r \in Local!Canonical(tree, Local!Lexical(Local!Roots[rootAt])) : Local!Within(resolved, r)
               /\ ~(rootAt < Len(Local!Roots))
      BY <1>5, <2>4, FilesRefused DEF Local!CompareRoot
    <2>. QED
      BY <2>2, <2>3, <2>4
  <1>6. CASE Local!Inspect
    <2>1. /\ stage = "Inspect" /\ Local!IsLocal(Local!Part) /\ tree \in seen
          /\ \E t \in seen : resolved \in Local!Canonical(t, Local!Path)
          /\ ~Local!Unrestricted => \E t \in seen : Local!Inside(t, resolved)
      BY <1>6 DEF Local!Inspect, FileInv, ReadInv
    <2>2. CASE resolved \notin DOMAIN tree
      <3>1. Local!Decide(Local!Dropped)
        BY <1>6, <2>2 DEF Local!Inspect
      <3>. QED
        BY <2>1, <3>1, DecisionIsSound DEF SoundFate
    <2>3. CASE resolved \in DOMAIN tree /\ (tree[resolved].kind # "file" \/ tree[resolved].size > MaxFileBytes)
      BY <1>6, <2>3, FilesRefused DEF Local!Inspect
    <2>4. CASE resolved \in DOMAIN tree /\ ~(tree[resolved].kind # "file" \/ tree[resolved].size > MaxFileBytes)
      <3>1. Local!Continue("Read") /\ resolved' = resolved /\ rootAt' = rootAt /\ seen' = seen
        BY <1>6, <2>4 DEF Local!Inspect
      <3>2. ReadInv'
        BY <2>1, <2>4, <3>1, StaysInPlace DEF ReadInv, Local!IsLocal
      <3>. QED
        BY <3>1, <3>2, Goes
    <2>. QED
      BY <2>2, <2>3, <2>4
  <1>7. CASE Local!Read
    <2>1. /\ stage = "Read" /\ Local!IsLocal(Local!Part) /\ tree \in seen
          /\ \E t \in seen : resolved \in Local!Canonical(t, Local!Path)
          /\ ~Local!Unrestricted => \E t \in seen : Local!Inside(t, resolved)
          /\ resolved \notin DOMAIN tree \/ tree[resolved].kind = "file"
      BY <1>7 DEF Local!Read, FileInv, ReadInv
    <2>2. CASE resolved \notin DOMAIN tree \/ ~tree[resolved].readable
      <3>1. Local!Decide(Local!Dropped)
        BY <1>7, <2>2 DEF Local!Read
      <3>. QED
        BY <2>1, <3>1, DecisionIsSound DEF SoundFate
    <2>3. CASE ~(resolved \notin DOMAIN tree \/ ~tree[resolved].readable) /\ tree[resolved].size > MaxFileBytes
      BY <1>7, <2>3, FilesRefused DEF Local!Read
    <2>4. CASE ~(resolved \notin DOMAIN tree \/ ~tree[resolved].readable) /\ ~(tree[resolved].size > MaxFileBytes)
      <3>. DEFINE fate == Local!Inlined(tree[resolved].size)
      <3>1. Local!Decide(fate)
        BY <1>7, <2>4 DEF Local!Read
      <3>2. fate.file = resolved /\ fate.size = tree[resolved].size
        BY DEF Local!Inlined
      <3>3. tree[resolved].size <= MaxFileBytes /\ Local!Regular(tree, resolved)
        BY <2>1, <2>4, FilesAssumption DEF Local!Regular, FileInv
      <3>. HIDE DEF fate
      <3>4. SoundFate(Local!Part, fate)
        BY <2>1, <3>2, <3>3 DEF SoundFate, Local!Path
      <3>. QED
        BY <3>1, <3>4, DecisionIsSound
    <2>. QED
      BY <2>2, <2>3, <2>4
  <1>8. CASE Local!Rebuild
    <2>1. CASE \E i \in DOMAIN Local!Inlining : Local!Inlining[i].parts = <<>>
      BY <1>8, <2>1, FilesRefused DEF Local!Rebuild
    <2>2. CASE ~\E i \in DOMAIN Local!Inlining : Local!Inlining[i].parts = <<>>
      <3>1. Local!Continue("Sent")
        BY <1>8, <2>2 DEF Local!Rebuild
      <3>2. stage' = "Sent"
        BY <3>1 DEF Local!Continue
      <3>3. ReadInv'
        BY <3>2 DEF ReadInv
      <3>. QED
        BY <3>1, <3>3, Goes
    <2>. QED
      BY <2>1, <2>2
  <1>9. CASE Local!FilesDone
    <2>1. UNCHANGED localVars
      BY <1>9 DEF Local!FilesDone, Local!fileVars, localVars
    <2>. QED
      BY <2>1, FilesUnchanged
  <1>10. ASSUME NEW path, NEW size \in Int, Local!ChangeTree(path, size) PROVE FileInv'
    BY <1>10, TreeChanges
  <1>11. -1..(MaxFileBytes + 1) \subseteq Int
    BY FilesAssumption
  <1>. QED
    BY <1>1, <1>2, <1>3, <1>4, <1>5, <1>6, <1>7, <1>8, <1>9, <1>10, <1>11 DEF Local!FileNext

LEMMA FileInvStays == FileInv /\ [MCNext]_partVars => FileInv'
  <1>. SUFFICES ASSUME FileInv, [MCNext]_partVars PROVE FileInv'
    OBVIOUS
  <1>1. CASE UNCHANGED localVars
    BY <1>1, FilesUnchanged
  <1>2. CASE FileStep
    BY <1>2, FilesStay DEF FileStep
  <1>. QED
    BY <1>1, <1>2 DEF MCNext, partVars, CallStep, ChargeStep, EstimateStep, BuilderStep, TimeStep,
       ReportStep, CalendarStep

\* local_files.rs: whatever another program does to the files while they are
\* read, what a part is replaced by is what a regular file held at some moment
\* of the reading, no more than the limit, in a directory the layer was given,
\* under the name that was asked for; a part that names no file stays.
THEOREM FilesAreReadSoundly == MCSpec => []Local!ReadsAreSound
  <1>1. FileInv => Local!ReadsAreSound
    BY DEF FileInv
  <1>. QED
    BY <1>1, FilesBegin, FileInvStays, PTL DEF MCSpec
=============================================================================
