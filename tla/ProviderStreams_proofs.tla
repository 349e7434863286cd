----------------------- MODULE ProviderStreams_proofs -----------------------
(***************************************************************************)
(* Theorems about the five stream decoders (ProviderStreams) and lemmas    *)
(* about the StreamAssembler that each of them owns, for any events of     *)
(* their protocols, in any order and number.                               *)
(***************************************************************************)
EXTENDS ProviderStreams, StreamContract_proofs, NaturalsInduction, WellFoundedInduction

(***************************************************************************)
(* Sequences whose elements have no common type.                           *)
(***************************************************************************)

IsSeq(s) == s \in Seq(Range(s))

LEMMA SeqFacts ==
    ASSUME NEW s, IsSeq(s)
    PROVE  /\ Len(s) \in Nat /\ DOMAIN s = 1..Len(s)
           /\ \A i \in 1..Len(s) : s[i] \in Range(s)
  BY DEF IsSeq, Range

LEMMA EmptyIsSeq == IsSeq(<<>>)
  BY DEF IsSeq

LEMMA OfTypeIsSeq ==
    ASSUME NEW T, NEW s \in Seq(T)
    PROVE  IsSeq(s)
  <1>1. s \in [1..Len(s) -> Range(s)] /\ Len(s) \in Nat
    BY DEF Range
  <1>. QED
    BY <1>1 DEF IsSeq

LEMMA AppendSeq ==
    ASSUME NEW s, IsSeq(s), NEW x
    PROVE  /\ IsSeq(Append(s, x))
           /\ Len(Append(s, x)) = Len(s) + 1 /\ DOMAIN Append(s, x) = 1..(Len(s) + 1)
           /\ Append(s, x)[Len(s) + 1] = x
           /\ \A i \in 1..Len(s) : Append(s, x)[i] = s[i]
           /\ \A i \in 1..(Len(s) + 1) : i \in 1..Len(s) \/ i = Len(s) + 1
           /\ Range(Append(s, x)) = Range(s) \cup {x}
  <1>. DEFINE T == Range(s) \cup {x}
  <1>1. s \in Seq(T)
    BY SeqMonotonic DEF IsSeq
  <1>2. x \in T
    OBVIOUS
  <1>. HIDE DEF T
  <1>3. Append(s, x) \in Seq(T) /\ Len(s) \in Nat
    BY <1>1, <1>2
  <1>4. /\ Len(Append(s, x)) = Len(s) + 1 /\ DOMAIN Append(s, x) = 1..(Len(s) + 1)
        /\ Append(s, x)[Len(s) + 1] = x
        /\ \A i \in 1..Len(s) : Append(s, x)[i] = s[i]
    BY <1>1, <1>2
  <1>5. \A i \in 1..(Len(s) + 1) : i \in 1..Len(s) \/ i = Len(s) + 1
    BY <1>3
  <1>6. Range(Append(s, x)) = Range(s) \cup {x}
    <2>1. DOMAIN s = 1..Len(s)
      BY <1>1
    <2>. QED
      BY <1>3, <1>4, <1>5, <2>1 DEF Range
  <1>. QED
    BY <1>3, <1>4, <1>5, <1>6, OfTypeIsSeq

LEMMA AppendPrefix ==
    ASSUME NEW s, IsSeq(s), NEW x
    PROVE  /\ \A i \in 1..Len(s) : SubSeq(Append(s, x), 1, i - 1) = SubSeq(s, 1, i - 1)
           /\ SubSeq(Append(s, x), 1, Len(s)) = s
  <1>. DEFINE T == Range(s) \cup {x}
  <1>1. s \in Seq(T) /\ x \in T
    BY SeqMonotonic DEF IsSeq
  <1>. HIDE DEF T
  <1>. QED
    BY <1>1

(***************************************************************************)
(* The pieces of a history, put together (Gathered).                       *)
(***************************************************************************)

LEMMA LeastNumber ==
    ASSUME NEW T \in SUBSET Nat, T # {}
    PROVE  \E n \in T : \A m \in T : n <= m
  <1>1. PICK n \in T : \A m \in T : ~(<<m, n>> \in OpToRel(<, Nat))
    BY NatLessThanWellFounded, WFMin, Zenon
  <1>2. \A m \in T : <<m, n>> \in Nat \X Nat
    OBVIOUS
  <1>3. \A m \in T : m < n => <<m, n>> \in OpToRel(<, Nat)
    BY <1>2 DEF OpToRel
  <1>4. \A m \in T : ~(m < n)
    BY <1>1, <1>3, Zenon
  <1>5. \A m \in T : n <= m
    BY <1>4
  <1>. QED
    BY <1>5

\* The values of Gathered are those of f.
Gathers(f, n, pieces) ==
    f = [i \in 0..n |->
            IF i = 0 THEN <<>>
            ELSE IF i \in DOMAIN pieces THEN f[i - 1] \o pieces[i]
            ELSE f[i - 1]]

LEMMA GathersExists ==
    ASSUME NEW n \in Nat, NEW pieces
    PROVE  \E f : Gathers(f, n, pieces)
  <1>. DEFINE Bad == {m \in Nat : ~ \E f : Gathers(f, m, pieces)}
  <1>. SUFFICES ASSUME Bad # {} PROVE FALSE
    BY Zenon
  <1>1. PICK m \in Bad : \A k \in Bad : m <= k
    BY LeastNumber
  <1>2. m # 0
    <2>1. Gathers([i \in 0..0 |-> <<>>], 0, pieces)
      BY DEF Gathers
    <2>. QED
      BY <2>1
  <1>3. m - 1 \in Nat /\ m - 1 \notin Bad
    BY <1>1, <1>2
  <1>4. PICK g : Gathers(g, m - 1, pieces)
    BY <1>3
  <1>. DEFINE f == [i \in 0..m |-> IF i # m THEN g[i]
                                   ELSE IF m \in DOMAIN pieces THEN g[m - 1] \o pieces[m]
                                   ELSE g[m - 1]]
              Rule(h) == [i \in 0..m |-> IF i = 0 THEN <<>>
                                   ELSE IF i \in DOMAIN pieces THEN h[i - 1] \o pieces[i]
                                   ELSE h[i - 1]]
  <1>5. ASSUME NEW i \in 0..m PROVE f[i] = Rule(f)[i]
    <2>1. CASE i = m
      <3>1. f[m - 1] = g[m - 1]
        BY <1>2
      <3>. QED
        BY <1>2, <2>1, <3>1
    <2>2. CASE i # m
      <3>1. i \in 0..(m - 1)
        BY <2>2
      <3>2. g[i] = IF i = 0 THEN <<>> ELSE IF i \in DOMAIN pieces THEN g[i - 1] \o pieces[i]
                   ELSE g[i - 1]
        BY <1>4, <3>1 DEF Gathers
      <3>3. i # 0 => i - 1 \in 0..m /\ i - 1 # m
        BY <2>2
      <3>. QED
        BY <2>2, <3>2, <3>3
    <2>. QED
      BY <2>1, <2>2
  <1>6. f = Rule(f)
    BY <1>5
  <1>7. Gathers(f, m, pieces)
    BY <1>6 DEF Gathers
  <1>. QED
    BY <1>1, <1>7

LEMMA GathersOne ==
    ASSUME NEW n \in Nat, NEW m \in 0..n, NEW p, NEW q, NEW f, NEW g,
           Gathers(f, m, p), Gathers(g, n, q),
           \A i \in 1..m : /\ i \in DOMAIN p <=> i \in DOMAIN q
                           /\ i \in DOMAIN p => p[i] = q[i]
    PROVE  \A i \in 0..m : f[i] = g[i]
  <1>. DEFINE Bad == {i \in 0..m : f[i] # g[i]}
  <1>. SUFFICES ASSUME Bad # {} PROVE FALSE
    BY Zenon
  <1>0. Bad \in SUBSET Nat
    OBVIOUS
  <1>1. PICK i \in Bad : \A k \in Bad : i <= k
    BY <1>0, LeastNumber
  <1>2. /\ f[i] = IF i = 0 THEN <<>> ELSE IF i \in DOMAIN p THEN f[i - 1] \o p[i] ELSE f[i - 1]
        /\ g[i] = IF i = 0 THEN <<>> ELSE IF i \in DOMAIN q THEN g[i - 1] \o q[i] ELSE g[i - 1]
    <2>1. i \in 0..n /\ i \in 0..m
      OBVIOUS
    <2>. QED
      BY <2>1 DEF Gathers
  <1>3. i # 0
    BY <1>2
  <1>4. i - 1 \in 0..m /\ i - 1 \notin Bad /\ i \in 1..m
    BY <1>1, <1>3
  <1>5. f[i - 1] = g[i - 1]
    BY <1>4
  <1>. QED
    BY <1>1, <1>2, <1>3, <1>4, <1>5

LEMMA GatheredIs ==
    ASSUME NEW n \in Nat, NEW pieces
    PROVE  \E f : Gathers(f, n, pieces) /\ Gathered(n, pieces) = f[n]
  <1>1. \E f : Gathers(f, n, pieces)
    BY GathersExists
  <1>. DEFINE g == CHOOSE f : Gathers(f, n, pieces)
  <1>2. Gathers(g, n, pieces)
    BY <1>1
  <1>3. Gathered(n, pieces) = g[n]
    BY DEF Gathered, Gathers
  <1>. QED
    BY <1>2, <1>3

LEMMA GatheredStarts == ASSUME NEW pieces PROVE Gathered(0, pieces) = <<>>
  <1>1. PICK f : Gathers(f, 0, pieces) /\ Gathered(0, pieces) = f[0]
    BY GatheredIs
  <1>. QED
    BY <1>1 DEF Gathers

\* What comes later does not count.
LEMMA GatheredAgrees ==
    ASSUME NEW n \in Nat, NEW p, NEW q,
           \A i \in 1..n : /\ i \in DOMAIN p <=> i \in DOMAIN q
                           /\ i \in DOMAIN p => p[i] = q[i]
    PROVE  Gathered(n, p) = Gathered(n, q)
  <1>1. PICK f : Gathers(f, n, p) /\ Gathered(n, p) = f[n]
    BY GatheredIs
  <1>2. PICK g : Gathers(g, n, q) /\ Gathered(n, q) = g[n]
    BY GatheredIs
  <1>3. n \in 0..n
    OBVIOUS
  <1>. QED
    BY <1>1, <1>2, <1>3, GathersOne

LEMMA GatheredGoesOn ==
    ASSUME NEW n \in Nat, NEW pieces
    PROVE  Gathered(n + 1, pieces) = IF n + 1 \in DOMAIN pieces
                                     THEN Gathered(n, pieces) \o pieces[n + 1]
                                     ELSE Gathered(n, pieces)
  <1>1. PICK f : Gathers(f, n, pieces) /\ Gathered(n, pieces) = f[n]
    BY GatheredIs
  <1>2. PICK g : Gathers(g, n + 1, pieces) /\ Gathered(n + 1, pieces) = g[n + 1]
    BY GatheredIs
  <1>3. n \in 0..n /\ n \in 0..(n + 1) /\ n + 1 \in Nat /\ n + 1 \in 0..(n + 1)
        /\ n + 1 # 0 /\ (n + 1) - 1 = n
    OBVIOUS
  <1>4. f[n] = g[n]
    BY <1>1, <1>2, <1>3, GathersOne
  <1>5. g[n + 1] = IF n + 1 \in DOMAIN pieces THEN g[n] \o pieces[n + 1] ELSE g[n]
    BY <1>2, <1>3 DEF Gathers
  <1>. QED
    BY <1>1, <1>2, <1>4, <1>5

LEMMA NothingGathered ==
    ASSUME NEW n \in Nat, NEW pieces, DOMAIN pieces = {}
    PROVE  Gathered(n, pieces) = <<>>
  <1>. DEFINE Bad == {m \in Nat : Gathered(m, pieces) # <<>>}
  <1>. SUFFICES ASSUME Bad # {} PROVE FALSE
    BY Zenon
  <1>1. PICK m \in Bad : \A k \in Bad : m <= k
    BY LeastNumber
  <1>2. m # 0
    BY GatheredStarts
  <1>3. m - 1 \in Nat /\ m - 1 \notin Bad /\ (m - 1) + 1 = m
    BY <1>1, <1>2
  <1>4. Gathered((m - 1) + 1, pieces) = Gathered(m - 1, pieces)
    BY <1>3, GatheredGoesOn
  <1>. QED
    BY <1>3, <1>4

(***************************************************************************)
(* Histories that keep the contract, but for the blocks in exempt.         *)
(***************************************************************************)

Kept(h, exempt) ==
    /\ IsSeq(h)
    /\ \A i \in DOMAIN h : Ordinary(h[i], exempt) => MayFollow(SubSeq(h, 1, i - 1), h[i])
    /\ DeltasFit(h, exempt)
    /\ \A i \in DOMAIN h : h[i].type = "Delta" => "id" \in DOMAIN h[i]

\* No item of h is the last one of its stream.
Unended(h) == \A i \in DOMAIN h : ~IsTerminal(h[i])

\* Before a delta or an end that the contract allows, its block started.
LEMMA AfterStart ==
    ASSUME NEW h, NEW exempt, Kept(h, exempt), NEW j \in DOMAIN h, h[j].type \in {"Delta", "BlockEnd"},
           Ordinary(h[j], exempt)
    PROVE  h[j].id \in Ids("BlockStart", h)
  <1>1. j \in 1..Len(h) /\ Len(h) \in Nat /\ DOMAIN h = 1..Len(h)
    BY SeqFacts DEF Kept
  <1>. DEFINE before == SubSeq(h, 1, j - 1)
  <1>2. h[j].id \in Ids("BlockStart", before)
    BY DEF Kept, MayFollow, OpenBlocks
  <1>3. PICK i \in DOMAIN before : before[i].type = "BlockStart" /\ before[i].id = h[j].id
    BY <1>2 DEF Ids
  <1>4. i \in DOMAIN h /\ before[i] = h[i]
    <2>1. h \in Seq(Range(h))
      BY DEF Kept, IsSeq
    <2>2. j - 1 \in 0..Len(h)
      BY <1>1
    <2>3. DOMAIN before = 1..(j - 1) /\ \A k \in 1..(j - 1) : before[k] = h[k]
      BY <2>1, <2>2
    <2>4. i \in 1..(j - 1)
      BY <1>3, <2>3
    <2>5. i \in 1..Len(h)
      BY <1>1, <2>4
    <2>. QED
      BY <1>1, <2>3, <2>4, <2>5
  <1>5. i \in {k \in DOMAIN h : h[k].type = "BlockStart"} /\ h[i].id = h[j].id
    BY <1>3, <1>4
  <1>. QED
    BY <1>5 DEF Ids

\* A history grows by an item that may follow it or is exempt.
LEMMA KeptGrows ==
    ASSUME NEW h, NEW exempt, Kept(h, exempt), NEW x,
           Ordinary(x, exempt) => MayFollow(h, x),
           x.type = "Delta" => /\ "id" \in DOMAIN x
                               /\ \A i \in DOMAIN h :
                                     /\ h[i].type = "BlockStart" /\ h[i].id = x.id
                                     /\ x.id \notin exempt
                                     => Fits(x.shape, h[i].kind)
    PROVE  Kept(Append(h, x), exempt)
  <1>. DEFINE new == Append(h, x)
              n == Len(h)
  <1>1. /\ IsSeq(new) /\ DOMAIN new = 1..(n + 1) /\ new[n + 1] = x
        /\ \A i \in 1..n : new[i] = h[i]
        /\ \A i \in 1..(n + 1) : i \in 1..n \/ i = n + 1
    BY AppendSeq DEF Kept
  <1>2. DOMAIN h = 1..n /\ n \in Nat
    BY SeqFacts DEF Kept
  <1>3. /\ \A i \in 1..n : SubSeq(new, 1, i - 1) = SubSeq(h, 1, i - 1)
        /\ SubSeq(new, 1, (n + 1) - 1) = h
    <2>1. (n + 1) - 1 = n
      BY <1>2
    <2>. QED
      BY <2>1, AppendPrefix DEF Kept
  <1>. HIDE DEF new, n
  <1>4. \A i \in DOMAIN new : Ordinary(new[i], exempt) => MayFollow(SubSeq(new, 1, i - 1), new[i])
    <2>. SUFFICES ASSUME NEW i \in 1..(n + 1), Ordinary(new[i], exempt)
                  PROVE  MayFollow(SubSeq(new, 1, i - 1), new[i])
      BY <1>1
    <2>1. CASE i \in 1..n
      BY <1>1, <1>2, <1>3, <2>1 DEF Kept
    <2>2. CASE i = n + 1
      <3>1. new[i] = x /\ SubSeq(new, 1, i - 1) = h
        BY <1>1, <1>3, <2>2
      <3>. QED
        BY <3>1
    <2>. QED
      BY <1>1, <2>1, <2>2
  <1>5. DeltasFit(new, exempt)
    <2>. SUFFICES ASSUME NEW i \in 1..(n + 1), NEW j \in 1..(n + 1),
                         new[i].type = "BlockStart", new[j].type = "Delta", new[i].id = new[j].id,
                         new[i].id \notin exempt
                  PROVE  Fits(new[j].shape, new[i].kind)
      BY <1>1 DEF DeltasFit
    <2>1. CASE i \in 1..n /\ j \in 1..n
      BY <1>1, <1>2, <2>1 DEF Kept, DeltasFit
    <2>2. CASE i \in 1..n /\ j = n + 1
      BY <1>1, <1>2, <2>2
    <2>3. CASE i = n + 1 /\ j \in 1..n
      <3>1. h[j].type = "Delta" /\ h[j].id = x.id /\ x.type = "BlockStart" /\ x.id \notin exempt
        BY <1>1, <2>3
      <3>2. h[j].id \in Ids("BlockStart", h)
        BY <1>2, <2>3, <3>1, AfterStart DEF Ordinary, Kept
      <3>3. MayFollow(h, x)
        BY <3>1 DEF Ordinary
      <3>. QED
        BY <3>1, <3>2, <3>3 DEF MayFollow
    <2>4. CASE i = n + 1 /\ j = n + 1
      BY <1>1, <2>4
    <2>. QED
      BY <1>1, <2>1, <2>2, <2>3, <2>4
  <1>6. \A i \in DOMAIN new : new[i].type = "Delta" => "id" \in DOMAIN new[i]
    BY <1>1, <1>2 DEF Kept
  <1>. QED
    BY <1>1, <1>4, <1>5, <1>6 DEF Kept, new

LEMMA IdsGrow ==
    ASSUME NEW h, IsSeq(h), NEW x, NEW type
    PROVE  Ids(type, Append(h, x)) = Ids(type, h) \cup (IF x.type = type THEN {x.id} ELSE {})
  <1>. DEFINE new == Append(h, x)
              n == Len(h)
  <1>1. /\ DOMAIN new = 1..(n + 1) /\ new[n + 1] = x /\ n + 1 \in 1..(n + 1)
        /\ \A i \in 1..n : new[i] = h[i] /\ i \in 1..(n + 1)
        /\ \A i \in 1..(n + 1) : i \in 1..n \/ i = n + 1
        /\ DOMAIN h = 1..n
    <2>1. n \in Nat
      BY SeqFacts
    <2>2. n + 1 \in 1..(n + 1) /\ \A i \in 1..n : i \in 1..(n + 1)
      BY <2>1
    <2>. QED
      BY <2>2, AppendSeq, SeqFacts
  <1>. HIDE DEF new, n
  <1>2. \A id : id \in Ids(type, new) <=> (id \in Ids(type, h) \/ (x.type = type /\ id = x.id))
    BY <1>1 DEF Ids
  <1>. QED
    BY <1>2 DEF new

LEMMA OpenBlocksGrow ==
    ASSUME NEW h, IsSeq(h), NEW x
    PROVE  /\ x.type \notin {"BlockStart", "BlockEnd"} => OpenBlocks(Append(h, x)) = OpenBlocks(h)
           /\ x.type = "BlockEnd" => OpenBlocks(Append(h, x)) = OpenBlocks(h) \ {x.id}
           /\ x.type = "BlockStart" =>
                 OpenBlocks(Append(h, x)) = OpenBlocks(h) \cup ({x.id} \ Ids("BlockEnd", h))
  <1>1. /\ Ids("BlockStart", Append(h, x))
              = Ids("BlockStart", h) \cup (IF x.type = "BlockStart" THEN {x.id} ELSE {})
        /\ Ids("BlockEnd", Append(h, x))
              = Ids("BlockEnd", h) \cup (IF x.type = "BlockEnd" THEN {x.id} ELSE {})
    BY IdsGrow
  <1>. QED
    BY <1>1 DEF OpenBlocks

LEMMA UnendedGrows ==
    ASSUME NEW h, IsSeq(h), Unended(h), NEW x, ~IsTerminal(x)
    PROVE  Unended(Append(h, x))
  BY AppendSeq, SeqFacts DEF Unended

----------------------------------------------------------------------------

(***************************************************************************)
(* The assembler of a stream that has not ended: what it knows of its      *)
(* blocks is what it has told of them, but for the exempt ones.            *)
(***************************************************************************)

IsBlock(b) ==
    /\ b = [kind |-> b.kind, announced |-> b.announced, open |-> b.open,
            text |-> b.text, redacted |-> b.redacted, signed |-> b.signed]
    /\ b.kind \in Kinds /\ b.open \in BOOLEAN

IsAssembler(a) ==
    /\ a = [blocks |-> a.blocks, opened |-> a.opened, parts |-> a.parts, finish |-> a.finish,
            started |-> a.started, completed |-> a.completed, out |-> a.out]
    /\ a.blocks = [id \in DOMAIN a.blocks |-> a.blocks[id]]
    /\ \A id \in DOMAIN a.blocks : IsBlock(a.blocks[id])
    /\ IsSeq(a.opened) /\ a.started \in BOOLEAN

Opened(a) == {id \in DOMAIN a.blocks : a.blocks[id].open}

ListsOpened(a) ==
    /\ Range(a.opened) = Opened(a)
    /\ \A i, j \in DOMAIN a.opened : a.opened[i] = a.opened[j] => i = j

\* Every block that started is known, by its shape, and open if it has not ended.
Knows(a, exempt) ==
    /\ \A i \in DOMAIN a.out :
          a.out[i].type = "BlockStart" /\ a.out[i].id \notin exempt =>
             /\ a.out[i].id \in DOMAIN a.blocks
             /\ ShapeOf(a.out[i].kind) = ShapeOf(a.blocks[a.out[i].id].kind)
    /\ OpenBlocks(a.out) \subseteq Opened(a)
    /\ Opened(a) \ exempt \subseteq OpenBlocks(a.out)

Coherent(a, exempt) ==
    /\ IsAssembler(a) /\ ListsOpened(a)
    /\ Kept(a.out, exempt) /\ Unended(a.out) /\ Knows(a, exempt)
    /\ ~a.started => \A i \in DOMAIN a.out : a.out[i].type # "Started"
    /\ a.completed = FALSE

\* A change that no event tells of, of blocks that stay as open as they were.
Quiet(a, b) ==
    /\ IsAssembler(b)
    /\ b.out = a.out /\ b.opened = a.opened /\ b.started = a.started /\ b.completed = a.completed
    /\ DOMAIN b.blocks = DOMAIN a.blocks
    /\ \A id \in DOMAIN a.blocks : /\ b.blocks[id].open = a.blocks[id].open
                                   /\ ShapeOf(b.blocks[id].kind) = ShapeOf(a.blocks[id].kind)

Shapes == {"Text", "Reasoning", "Call", "Opaque"}

LEMMA QuietKeeps ==
    ASSUME NEW a, NEW b, NEW exempt, Coherent(a, exempt), Quiet(a, b)
    PROVE  Coherent(b, exempt)
  <1>1. Opened(b) = Opened(a)
    BY DEF Quiet, Opened
  <1>2. ListsOpened(b) /\ Knows(b, exempt)
    BY <1>1 DEF Coherent, Quiet, ListsOpened, Knows
  <1>. QED
    BY <1>2 DEF Coherent, Quiet

\* What is exempt once stays so.
LEMMA MoreCoherentlyExempt ==
    ASSUME NEW a, NEW exempt, NEW more, exempt \subseteq more, Coherent(a, exempt)
    PROVE  Coherent(a, more)
  <1>1. Kept(a.out, more)
    BY DEF Coherent, Kept, Ordinary, DeltasFit
  <1>2. Knows(a, more)
    BY DEF Coherent, Knows
  <1>. QED
    BY <1>1, <1>2 DEF Coherent

\* A history without ends takes an event that is neither of a block nor the last.
LEMMA EventKeeps ==
    ASSUME NEW a, NEW exempt, Coherent(a, exempt),
           NEW x, x.type \notin {"BlockStart", "BlockEnd", "Delta"},
           ~IsTerminal(x), x.type = "Started" => \A i \in DOMAIN a.out : a.out[i].type # "Started"
    PROVE  Kept(Append(a.out, x), exempt) /\ Unended(Append(a.out, x))
  <1>1. MayFollow(a.out, x)
    BY DEF Coherent, Unended, MayFollow, IsTerminal
  <1>2. Kept(Append(a.out, x), exempt)
    BY <1>1, KeptGrows DEF Coherent
  <1>. QED
    BY <1>2, UnendedGrows DEF Coherent, Kept

LEMMA StartedCoheres ==
    ASSUME NEW a, NEW exempt, Coherent(a, exempt)
    PROVE  Coherent(Started(a), exempt)
  <1>1. CASE a.started
    BY <1>1 DEF Started
  <1>2. CASE ~a.started
    <2>. DEFINE x == [type |-> "Started"]
                b == Started(a)
    <2>1. /\ b.out = Append(a.out, x) /\ b.started = TRUE /\ b.blocks = a.blocks
          /\ b.opened = a.opened /\ b.completed = a.completed /\ IsAssembler(b)
      BY <1>2 DEF Started, Emit, Coherent, IsAssembler
    <2>2. x.type = "Started" /\ ~IsTerminal(x)
      BY DEF IsTerminal
    <2>. HIDE DEF x, b
    <2>3. Kept(b.out, exempt) /\ Unended(b.out)
      BY <1>2, <2>1, <2>2, EventKeeps DEF Coherent
    <2>4. OpenBlocks(b.out) = OpenBlocks(a.out)
      BY <2>1, <2>2, OpenBlocksGrow DEF Coherent, Kept
    <2>5. Opened(b) = Opened(a)
      BY <2>1 DEF Opened
    <2>6. \A i \in DOMAIN b.out :
             b.out[i].type = "BlockStart" => i \in DOMAIN a.out /\ b.out[i] = a.out[i]
      BY <2>1, <2>2, AppendSeq, SeqFacts DEF Coherent, Kept
    <2>7. ListsOpened(b) /\ Knows(b, exempt)
      BY <2>1, <2>4, <2>5, <2>6 DEF Coherent, ListsOpened, Knows
    <2>. QED
      BY <2>1, <2>3, <2>7 DEF Coherent, b
  <1>. QED
    BY <1>1, <1>2 DEF Coherent, IsAssembler

\* An event is told, and nothing else of the assembler changes.
EventTold(a, x, b) ==
    /\ b.out = Append(a.out, x) /\ b.started = a.started /\ b.blocks = a.blocks
    /\ b.opened = a.opened /\ b.completed = a.completed /\ IsAssembler(b)

LEMMA EmitTells ==
    ASSUME NEW a, NEW exempt, Coherent(a, exempt), NEW x
    PROVE  EventTold(a, x, Emit(a, x))
  <1>. DEFINE b == Emit(a, x)
  <1>1. IsAssembler(a)
    BY DEF Coherent
  <1>2. b = [a EXCEPT !.out = Append(a.out, x)]
    BY DEF Emit
  <1>. HIDE DEF b
  <1>3. b = [blocks |-> a.blocks, opened |-> a.opened, parts |-> a.parts, finish |-> a.finish,
             started |-> a.started, completed |-> a.completed, out |-> Append(a.out, x)]
    BY <1>1, <1>2 DEF IsAssembler
  <1>4. EventTold(a, x, b)
    BY <1>1, <1>3 DEF IsAssembler, EventTold
  <1>. QED
    BY <1>4 DEF b

LEMMA UsageCoheres ==
    ASSUME NEW a, NEW exempt, Coherent(a, exempt)
    PROVE  Coherent(Usage(a), exempt)
  <1>. DEFINE x == [type |-> "Accounting"]
              b == Usage(a)
  <1>1. /\ b.out = Append(a.out, x) /\ b.started = a.started /\ b.blocks = a.blocks
        /\ b.opened = a.opened /\ b.completed = a.completed /\ IsAssembler(b)
    <2>1. EventTold(a, x, Emit(a, x))
      BY EmitTells, Zenon
    <2>2. b = Emit(a, x)
      BY DEF Usage
    <2>. HIDE DEF b
    <2>. QED
      BY <2>1, <2>2, Zenon DEF EventTold
  <1>2. x.type = "Accounting" /\ ~IsTerminal(x)
    BY DEF IsTerminal
  <1>. HIDE DEF x, b
  <1>3. Kept(b.out, exempt) /\ Unended(b.out)
    BY <1>1, <1>2, EventKeeps DEF Coherent
  <1>4. OpenBlocks(b.out) = OpenBlocks(a.out)
    BY <1>1, <1>2, OpenBlocksGrow DEF Coherent, Kept
  <1>5. Opened(b) = Opened(a)
    BY <1>1 DEF Opened
  <1>6. \A i \in DOMAIN b.out : b.out[i].type # "Accounting" => i \in DOMAIN a.out /\ b.out[i] = a.out[i]
    BY <1>1, <1>2, AppendSeq, SeqFacts DEF Coherent, Kept
  <1>7. ListsOpened(b) /\ Knows(b, exempt)
    BY <1>1, <1>4, <1>5, <1>6 DEF Coherent, ListsOpened, Knows
  <1>8. ~b.started => \A i \in DOMAIN b.out : b.out[i].type # "Started"
    BY <1>1, <1>2, <1>6 DEF Coherent
  <1>. QED
    BY <1>1, <1>3, <1>7, <1>8 DEF Coherent, b

LEMMA SetFinishCoheres ==
    ASSUME NEW a, NEW exempt, Coherent(a, exempt), NEW reason
    PROVE  Coherent(SetFinish(a, reason), exempt)
  <1>1. Quiet(a, SetFinish(a, reason))
    BY DEF Quiet, SetFinish, Coherent, IsAssembler
  <1>. QED
    BY <1>1, QuietKeeps

----------------------------------------------------------------------------
(* Opening and filling *)

LEMMA OpenCoheres ==
    ASSUME NEW a, NEW exempt, Coherent(a, exempt), NEW id, NEW kind \in Kinds, NEW announced
    PROVE  Coherent(Open(a, id, kind, announced), exempt) /\ Known(Open(a, id, kind, announced), id)
  <1>. DEFINE b == Open(a, id, kind, announced)
              x == [type |-> "BlockStart", id |-> id, kind |-> kind]
              block == [kind |-> kind, announced |-> announced, open |-> TRUE,
                        text |-> <<>>, redacted |-> FALSE, signed |-> FALSE]
  <1>1. CASE Known(a, id)
    BY <1>1 DEF Open
  <1>2. CASE ~Known(a, id)
    <2>1. /\ b.blocks = [i \in DOMAIN a.blocks \cup {id} |-> IF i # id THEN a.blocks[i] ELSE block]
          /\ b.opened = Append(a.opened, id) /\ b.out = Append(a.out, x)
          /\ b.started = a.started /\ b.completed = a.completed
          /\ b = [blocks |-> b.blocks, opened |-> b.opened, parts |-> b.parts, finish |-> b.finish,
                  started |-> b.started, completed |-> b.completed, out |-> b.out]
      BY <1>2 DEF Open, Coherent, IsAssembler
    <2>2. IsBlock(block) /\ block.open = TRUE /\ block.kind = kind
      BY DEF IsBlock
    <2>3. x.type = "BlockStart" /\ x.id = id /\ x.kind = kind /\ ~IsTerminal(x) /\ "id" \in DOMAIN x
      BY DEF IsTerminal
    <2>. HIDE DEF b, x, block
    <2>4. /\ DOMAIN b.blocks = DOMAIN a.blocks \cup {id} /\ b.blocks[id] = block
          /\ \A i \in DOMAIN a.blocks : i # id /\ b.blocks[i] = a.blocks[i]
      BY <1>2, <2>1 DEF Known
    <2>5. IsAssembler(b)
      <3>1. \A i \in DOMAIN b.blocks : IsBlock(b.blocks[i])
        BY <2>2, <2>4 DEF Coherent, IsAssembler
      <3>2. b.blocks = [i \in DOMAIN b.blocks |-> b.blocks[i]]
        BY <2>1
      <3>3. IsSeq(b.opened)
        BY <2>1, AppendSeq DEF Coherent, IsAssembler
      <3>. QED
        BY <2>1, <3>1, <3>2, <3>3 DEF Coherent, IsAssembler
    <2>6. Opened(b) = Opened(a) \cup {id} /\ id \notin Opened(a)
      BY <1>2, <2>2, <2>4 DEF Opened, Known
    <2>7. ListsOpened(b)
      <3>1. Range(b.opened) = Opened(b)
        BY <2>1, <2>6, AppendSeq DEF Coherent, IsAssembler, ListsOpened
      <3>2. id \notin Range(a.opened)
        BY <2>6 DEF Coherent, ListsOpened
      <3>3. \A i, j \in DOMAIN b.opened : b.opened[i] = b.opened[j] => i = j
        BY <2>1, <3>2, AppendSeq, SeqFacts DEF Coherent, IsAssembler, ListsOpened
      <3>. QED
        BY <3>1, <3>3 DEF ListsOpened
    \* A block that started before, and is not exempt, is known.
    <2>8. id \notin exempt => id \notin Ids("BlockStart", a.out)
      BY <1>2 DEF Ids, Coherent, Knows, Known
    <2>9. Kept(b.out, exempt) /\ Unended(b.out)
      <3>1. Ordinary(x, exempt) => MayFollow(a.out, x)
        BY <2>3, <2>8 DEF Ordinary, MayFollow, Coherent, Unended
      <3>2. Kept(Append(a.out, x), exempt)
        BY <2>3, <3>1, KeptGrows DEF Coherent
      <3>3. IsSeq(a.out) /\ Unended(a.out)
        BY DEF Coherent, Kept
      <3>4. Unended(Append(a.out, x))
        BY <2>3, <3>3, UnendedGrows, Zenon
      <3>. QED
        BY <2>1, <3>2, <3>4, Zenon
    <2>10. Knows(b, exempt)
      <3>1. OpenBlocks(b.out) = OpenBlocks(a.out) \cup ({id} \ Ids("BlockEnd", a.out))
        BY <2>1, <2>3, OpenBlocksGrow DEF Coherent, Kept
      <3>2. id \notin exempt => id \notin Ids("BlockEnd", a.out)
        <4>1. SUFFICES ASSUME id \notin exempt, NEW i \in DOMAIN a.out, a.out[i].type = "BlockEnd",
                              a.out[i].id = id
                       PROVE  FALSE
          BY DEF Ids
        <4>2. id \in Ids("BlockStart", a.out)
          BY <4>1, AfterStart DEF Coherent, Ordinary
        <4>. QED
          BY <2>8, <4>1, <4>2
      <3>3. OpenBlocks(b.out) \subseteq Opened(b) /\ Opened(b) \ exempt \subseteq OpenBlocks(b.out)
        BY <2>6, <3>1, <3>2 DEF Coherent, Knows
      <3>4. \A i \in DOMAIN b.out :
               b.out[i].type = "BlockStart" /\ b.out[i].id \notin exempt =>
                  /\ b.out[i].id \in DOMAIN b.blocks
                  /\ ShapeOf(b.out[i].kind) = ShapeOf(b.blocks[b.out[i].id].kind)
        <4>. SUFFICES ASSUME NEW i \in DOMAIN b.out, b.out[i].type = "BlockStart",
                             b.out[i].id \notin exempt
                      PROVE  /\ b.out[i].id \in DOMAIN b.blocks
                             /\ ShapeOf(b.out[i].kind) = ShapeOf(b.blocks[b.out[i].id].kind)
          OBVIOUS
        <4>1. CASE i = Len(a.out) + 1
          BY <2>1, <2>2, <2>3, <2>4, <4>1, AppendSeq DEF Coherent, Kept
        <4>2. CASE i # Len(a.out) + 1
          <5>1. i \in DOMAIN a.out /\ b.out[i] = a.out[i]
            BY <2>1, <4>2, AppendSeq, SeqFacts DEF Coherent, Kept
          <5>. QED
            BY <2>4, <5>1 DEF Coherent, Knows
        <4>. QED
          BY <4>1, <4>2
      <3>. QED
        BY <3>3, <3>4 DEF Knows
    <2>11. ~b.started => \A i \in DOMAIN b.out : b.out[i].type # "Started"
      BY <2>1, <2>3, AppendSeq, SeqFacts DEF Coherent, Kept
    <2>. QED
      BY <2>1, <2>4, <2>5, <2>7, <2>9, <2>10, <2>11 DEF Coherent, Known, b
  <1>. QED
    BY <1>1, <1>2

\* A change of one block that leaves it as open as it was, and of its shape.
LEMMA BlockChanges ==
    ASSUME NEW a, NEW exempt, Coherent(a, exempt), NEW id, Known(a, id), NEW block,
           IsBlock(block), block.open = a.blocks[id].open,
           ShapeOf(block.kind) = ShapeOf(a.blocks[id].kind)
    PROVE  Coherent([a EXCEPT !.blocks[id] = block], exempt)
  <1>. DEFINE b == [a EXCEPT !.blocks[id] = block]
  <1>1. /\ b.out = a.out /\ b.opened = a.opened /\ b.started = a.started /\ b.completed = a.completed
        /\ DOMAIN b.blocks = DOMAIN a.blocks
        /\ b.blocks = [a.blocks EXCEPT ![id] = block]
        /\ b = [blocks |-> b.blocks, opened |-> b.opened, parts |-> b.parts, finish |-> b.finish,
                started |-> b.started, completed |-> b.completed, out |-> b.out]
    BY DEF Coherent, IsAssembler
  <1>. HIDE DEF b
  <1>2. \A i \in DOMAIN a.blocks : b.blocks[i] = IF i = id THEN block ELSE a.blocks[i]
    BY <1>1
  <1>3. IsAssembler(b)
    BY <1>1, <1>2 DEF Coherent, IsAssembler
  <1>4. Quiet(a, b)
    BY <1>1, <1>2, <1>3 DEF Quiet
  <1>. QED
    BY <1>4, QuietKeeps DEF b

LEMMA GrowCoheres ==
    ASSUME NEW a, NEW exempt, Coherent(a, exempt), NEW id, Known(a, id), NEW text
    PROVE  /\ Coherent(Grow(a, id, text), exempt) /\ Grow(a, id, text).out = a.out
           /\ DOMAIN Grow(a, id, text).blocks = DOMAIN a.blocks
           /\ Grow(a, id, text).blocks[id].text = a.blocks[id].text \o text
           /\ Grow(a, id, text).blocks[id].kind = a.blocks[id].kind
           /\ Grow(a, id, text).blocks[id].open = a.blocks[id].open
  <1>. DEFINE longer == a.blocks[id].text \o text
              block == [a.blocks[id] EXCEPT !.text = longer]
  <1>0. IsBlock(a.blocks[id])
    BY DEF Known, Coherent, IsAssembler
  <1>1. IsBlock(block) /\ block.open = a.blocks[id].open /\ block.kind = a.blocks[id].kind
        /\ block.text = longer
    <2>. HIDE DEF longer
    <2>. QED
      BY <1>0 DEF IsBlock
  <1>2. Grow(a, id, text) = [a EXCEPT !.blocks[id] = block]
    BY DEF Grow
  <1>. HIDE DEF block
  <1>3. Coherent(Grow(a, id, text), exempt)
    BY <1>1, <1>2, BlockChanges
  <1>. QED
    BY <1>1, <1>2, <1>3 DEF Coherent, IsAssembler, Known

LEMMA MarkCoheres ==
    ASSUME NEW a, NEW exempt, Coherent(a, exempt), NEW id, NEW field \in {"text", "signed", "redacted"},
           NEW value
    PROVE  Coherent(Mark(a, id, field, value), exempt)
  <1>1. CASE ~IsOpen(a, id)
    BY <1>1 DEF Mark
  <1>2. CASE IsOpen(a, id)
    <2>. DEFINE block == [a.blocks[id] EXCEPT ![field] = value]
    <2>1. IsBlock(a.blocks[id]) /\ Known(a, id)
      BY <1>2 DEF IsOpen, Known, Coherent, IsAssembler
    <2>2. IsBlock(block) /\ block.open = a.blocks[id].open /\ block.kind = a.blocks[id].kind
      BY <2>1 DEF IsBlock
    <2>3. Mark(a, id, field, value) = [a EXCEPT !.blocks[id] = block]
      BY <1>2 DEF Mark
    <2>. HIDE DEF block
    <2>. QED
      BY <2>1, <2>2, <2>3, BlockChanges
  <1>. QED
    BY <1>1, <1>2

LEMMA RepairCoheres ==
    ASSUME NEW a, NEW exempt, Coherent(a, exempt), NEW id, NEW kind \in {"Call", "NamelessCall"}
    PROVE  Coherent(RepairIdentity(a, id, kind), exempt)
  <1>1. CASE ~OpenAs(a, id, "Call")
    BY <1>1 DEF RepairIdentity
  <1>2. CASE OpenAs(a, id, "Call")
    <2>. DEFINE block == [a.blocks[id] EXCEPT !.kind = kind]
    <2>1. IsBlock(a.blocks[id]) /\ Known(a, id) /\ IsCall(a.blocks[id].kind) /\ IsOpen(a, id)
      BY <1>2 DEF OpenAs, Fits, IsOpen, Known, Coherent, IsAssembler
    <2>2. IsBlock(block) /\ block.open = a.blocks[id].open
          /\ ShapeOf(block.kind) = ShapeOf(a.blocks[id].kind)
      BY <2>1 DEF IsBlock, ShapeOf, IsCall, Kinds
    <2>3. RepairIdentity(a, id, kind) = [a EXCEPT !.blocks[id] = block]
      BY <1>2, <2>1 DEF RepairIdentity, Mark
    <2>. HIDE DEF block
    <2>. QED
      BY <2>1, <2>2, <2>3, BlockChanges
  <1>. QED
    BY <1>1, <1>2

\* A delta of an open block of its shape keeps the contract.
LEMMA DeltaCoheres ==
    ASSUME NEW a, NEW exempt, Coherent(a, exempt), NEW id, NEW shape \in Shapes,
           OpenAs(a, id, shape), NEW text
    PROVE  Coherent(Emit(a, DeltaOf(id, shape, text)), exempt)
  <1>. DEFINE x == DeltaOf(id, shape, text)
              b == Emit(a, x)
  <1>1. x.type = "Delta" /\ x.id = id /\ x.shape = shape /\ ~IsTerminal(x) /\ "id" \in DOMAIN x
    BY DEF DeltaOf, IsTerminal
  <1>2. /\ b.out = Append(a.out, x) /\ b.started = a.started /\ b.blocks = a.blocks
        /\ b.opened = a.opened /\ b.completed = a.completed /\ IsAssembler(b)
    <2>. HIDE DEF x
    <2>1. EventTold(a, x, b)
      BY EmitTells, Zenon
    <2>. HIDE DEF b
    <2>. QED
      BY <2>1, Zenon DEF EventTold
  <1>. HIDE DEF x, b
  <1>3. id \in Opened(a) /\ Fits(shape, a.blocks[id].kind) /\ a.blocks[id].kind \in Kinds
    BY DEF OpenAs, IsOpen, Known, Opened, Coherent, IsAssembler, IsBlock
  <1>4. Ordinary(x, exempt) => MayFollow(a.out, x)
    BY <1>1, <1>3 DEF Ordinary, MayFollow, Coherent, Knows, Unended
  <1>5. \A i \in DOMAIN a.out :
           a.out[i].type = "BlockStart" /\ a.out[i].id = id /\ id \notin exempt
              => Fits(shape, a.out[i].kind)
    <2>. SUFFICES ASSUME NEW i \in DOMAIN a.out, a.out[i].type = "BlockStart", a.out[i].id = id,
                         id \notin exempt
                  PROVE  Fits(shape, a.out[i].kind)
      OBVIOUS
    <2>1. ShapeOf(a.out[i].kind) = ShapeOf(a.blocks[id].kind)
      BY DEF Coherent, Knows
    <2>. QED
      BY <1>3, <2>1 DEF Fits, ShapeOf, IsCall, Kinds, Shapes
  <1>6. Kept(b.out, exempt) /\ Unended(b.out)
    <2>1. Kept(Append(a.out, x), exempt)
      BY <1>1, <1>4, <1>5, KeptGrows DEF Coherent
    <2>. QED
      BY <1>1, <1>2, <2>1, UnendedGrows DEF Coherent, Kept
  <1>7. OpenBlocks(b.out) = OpenBlocks(a.out) /\ Opened(b) = Opened(a)
    BY <1>1, <1>2, OpenBlocksGrow DEF Coherent, Kept, Opened
  <1>8. \A i \in DOMAIN b.out : b.out[i].type # "Delta" => i \in DOMAIN a.out /\ b.out[i] = a.out[i]
    BY <1>1, <1>2, AppendSeq, SeqFacts DEF Coherent, Kept
  <1>9. ListsOpened(b) /\ Knows(b, exempt)
    BY <1>2, <1>7, <1>8 DEF Coherent, ListsOpened, Knows
  <1>10. ~b.started => \A i \in DOMAIN b.out : b.out[i].type # "Started"
    BY <1>2, <1>8 DEF Coherent
  <1>. QED
    BY <1>2, <1>6, <1>9, <1>10 DEF Coherent, b, x

LEMMA AppendToCoheres ==
    ASSUME NEW a, NEW exempt, Coherent(a, exempt), NEW id, NEW shape \in Shapes, NEW text
    PROVE  Coherent(AppendTo(a, id, shape, text), exempt)
  <1>1. CASE ~OpenAs(a, id, shape)
    BY <1>1 DEF AppendTo
  <1>2. CASE OpenAs(a, id, shape)
    <2>. DEFINE grown == Grow(a, id, text)
    <2>1. Known(a, id)
      BY <1>2 DEF OpenAs, IsOpen
    <2>2. Coherent(grown, exempt)
      BY <2>1, GrowCoheres
    <2>3. OpenAs(grown, id, shape)
      <3>1. /\ DOMAIN grown.blocks = DOMAIN a.blocks /\ grown.blocks[id].kind = a.blocks[id].kind
            /\ grown.blocks[id].open = a.blocks[id].open
        BY <2>1, GrowCoheres
      <3>. HIDE DEF grown
      <3>. QED
        BY <1>2, <3>1, Zenon DEF OpenAs, IsOpen, Known
    <2>4. Coherent(Emit(grown, DeltaOf(id, shape, text)), exempt)
      <3>. HIDE DEF grown
      <3>. QED
        BY <2>2, <2>3, DeltaCoheres
    <2>. QED
      BY <1>2, <2>2, <2>4 DEF AppendTo
  <1>. QED
    BY <1>1, <1>2

\* What is removed from a list without repetitions is gone from it.
LEMMA RemoveFirstRemoves ==
    ASSUME NEW s, IsSeq(s), NEW e \in Range(s),
           \A i, j \in DOMAIN s : s[i] = s[j] => i = j
    PROVE  /\ IsSeq(RemoveFirst(s, e))
           /\ Range(RemoveFirst(s, e)) = Range(s) \ {e}
           /\ \A i, j \in DOMAIN RemoveFirst(s, e) :
                 RemoveFirst(s, e)[i] = RemoveFirst(s, e)[j] => i = j
  <1>. DEFINE n == Len(s)
  <1>1. n \in Nat /\ DOMAIN s = 1..n /\ s \in Seq(Range(s))
    BY SeqFacts DEF IsSeq
  <1>2. PICK k \in 1..n : s[k] = e
    BY <1>1 DEF Range
  <1>. DEFINE before == SubSeq(s, 1, k - 1)
              after == SubSeq(s, k + 1, n)
              rest == before \o after
  <1>3. RemoveFirst(s, e) = rest
    <2>1. {i \in 1..n : s[i] = e} = {k}
      BY <1>1, <1>2
    <2>2. Min({k}) = k
      BY <1>1 DEF Min
    <2>3. SelectInSeq(s, LAMBDA v : v = e) = k
      BY <2>1, <2>2 DEF SelectInSeq
    <2>. QED
      BY <1>2, <2>3 DEF RemoveFirst, RemoveAt
  <1>4. /\ before \in Seq(Range(s)) /\ Len(before) = k - 1 /\ k - 1 \in Nat
        /\ \A i \in 1..(k - 1) : before[i] = s[i]
    BY <1>1, <1>2
  <1>5. /\ after \in Seq(Range(s)) /\ Len(after) = n - k /\ n - k \in Nat
        /\ \A i \in 1..(n - k) : after[i] = s[i + k]
    <2>. DEFINE m == k + 1
    <2>1. /\ m \in Int /\ n \in Int /\ n - k \in Nat /\ n - m + 1 = n - k
          /\ (IF m <= n THEN n - m + 1 ELSE 0) = n - k
          /\ \A i \in 1..(n - k) : m + i - 1 = i + k
      <3>. HIDE DEF n
      <3>1. n \in Nat /\ k \in Int /\ 1 <= k /\ k <= n
        BY <1>1, <1>2
      <3>2. n - k \in Nat /\ n - m + 1 = n - k /\ m \in Int /\ (m <= n \/ n - k = 0)
        BY <3>1
      <3>3. \A i \in 1..(n - k) : m + i - 1 = i + k
        BY <3>1
      <3>. QED
        BY <3>1, <3>2, <3>3
    <2>2. \A i \in m..n : s[i] \in Range(s)
      BY <1>1, <1>2 DEF Range
    <2>. HIDE DEF n, m
    <2>3. /\ SubSeq(s, m, n) \in Seq(Range(s))
          /\ Len(SubSeq(s, m, n)) = IF m <= n THEN n - m + 1 ELSE 0
          /\ \A i \in 1..(n - m + 1) : SubSeq(s, m, n)[i] = s[m + i - 1]
      BY <2>1, <2>2, SubSeqProperties
    <2>. QED
      BY <2>1, <2>3 DEF m
  <1>6. /\ rest \in Seq(Range(s)) /\ Len(rest) = n - 1 /\ DOMAIN rest = 1..(n - 1) /\ n - 1 \in Nat
        /\ \A i \in 1..(n - 1) : rest[i] = IF i < k THEN s[i] ELSE s[i + 1]
    <2>. HIDE DEF before, after
    <2>0. /\ rest \in Seq(Range(s)) /\ Len(rest) = Len(before) + Len(after)
          /\ \A i \in 1..(Len(before) + Len(after)) :
                rest[i] = IF i <= Len(before) THEN before[i] ELSE after[i - Len(before)]
      <3>. DEFINE R == Range(s)
      <3>1. before \in Seq(R) /\ after \in Seq(R)
        BY <1>4, <1>5
      <3>. HIDE DEF R
      <3>2. /\ before \o after \in Seq(R) /\ Len(before \o after) = Len(before) + Len(after)
            /\ \A i \in 1..(Len(before) + Len(after)) :
                  (before \o after)[i] = IF i <= Len(before) THEN before[i] ELSE after[i - Len(before)]
        BY <3>1, ConcatProperties, Zenon
      <3>. QED
        BY <3>2, Zenon DEF R
    <2>1. /\ rest \in Seq(Range(s)) /\ Len(rest) = (k - 1) + (n - k)
          /\ \A i \in 1..((k - 1) + (n - k)) :
                rest[i] = IF i <= k - 1 THEN before[i] ELSE after[i - (k - 1)]
      <3>. HIDE DEF rest
      <3>. QED
        BY <1>4, <1>5, <2>0
    <2>2. (k - 1) + (n - k) = n - 1 /\ n - 1 \in Nat
      BY <1>1, <1>2
    <2>3. \A i \in 1..(n - 1) : i < k => i <= k - 1 /\ i \in 1..(k - 1)
      BY <1>1, <1>2
    <2>4. \A i \in 1..(n - 1) : ~(i < k) => /\ ~(i <= k - 1) /\ i - (k - 1) \in 1..(n - k)
                                            /\ (i - (k - 1)) + k = i + 1
      BY <1>1, <1>2
    <2>. HIDE DEF n, rest
    <2>5. \A i \in 1..(n - 1) : rest[i] = IF i < k THEN s[i] ELSE s[i + 1]
      BY <1>4, <1>5, <2>1, <2>2, <2>3, <2>4
    <2>. QED
      BY <2>1, <2>2, <2>5
  <1>. HIDE DEF rest, before, after, n
  <1>7. Range(rest) = Range(s) \ {e}
    <2>1. ASSUME NEW i \in 1..(n - 1) PROVE rest[i] \in Range(s) \ {e}
      <3>. DEFINE j == IF i < k THEN i ELSE i + 1
      <3>1. j \in 1..n /\ j # k /\ rest[i] = s[j]
        BY <1>1, <1>2, <1>6
      <3>. QED
        BY <1>1, <1>2, <3>1 DEF Range
    <2>2. ASSUME NEW j \in 1..n, s[j] # e PROVE s[j] \in Range(rest)
      <3>. DEFINE i == IF j < k THEN j ELSE j - 1
      <3>1. i \in 1..(n - 1) /\ (i < k => i = j) /\ (~(i < k) => i + 1 = j)
        BY <1>1, <1>2, <2>2
      <3>. HIDE DEF i
      <3>2. rest[i] = s[j]
        BY <1>6, <3>1
      <3>. QED
        BY <1>6, <3>1, <3>2 DEF Range
    <2>. QED
      BY <1>1, <1>6, <2>1, <2>2 DEF Range
  <1>8. \A i, j \in DOMAIN rest : rest[i] = rest[j] => i = j
    <2>. SUFFICES ASSUME NEW i \in 1..(n - 1), NEW j \in 1..(n - 1), rest[i] = rest[j] PROVE i = j
      BY <1>6
    <2>. DEFINE p == IF i < k THEN i ELSE i + 1
                q == IF j < k THEN j ELSE j + 1
    <2>1. p \in 1..n /\ q \in 1..n /\ s[p] = s[q]
      BY <1>1, <1>2, <1>6
    <2>2. p = q
      <3>. HIDE DEF p, q
      <3>. QED
        BY <1>1, <2>1
    <2>. QED
      BY <1>1, <1>2, <2>2
  <1>. QED
    BY <1>3, <1>6, <1>7, <1>8, OfTypeIsSeq

\* A block ends once, whether its part stays (end) or is forgotten (discard).
LEMMA ClosingCoheres ==
    ASSUME NEW a, NEW exempt, Coherent(a, exempt), NEW id, id \in Opened(a), NEW b, NEW x,
           x.type = "BlockEnd", x.id = id, "id" \in DOMAIN x,
           IsAssembler(b), b.opened = RemoveFirst(a.opened, id), b.out = Append(a.out, x),
           b.started = a.started, b.completed = a.completed, Opened(b) = Opened(a) \ {id},
           \A i \in DOMAIN a.blocks \ exempt :
              i \in DOMAIN b.blocks /\ ShapeOf(b.blocks[i].kind) = ShapeOf(a.blocks[i].kind)
    PROVE  Coherent(b, exempt)
  <1>1. ListsOpened(b)
    BY RemoveFirstRemoves DEF Coherent, IsAssembler, ListsOpened
  <1>2. ~IsTerminal(x)
    BY DEF IsTerminal
  <1>3. Ordinary(x, exempt) => MayFollow(a.out, x)
    BY DEF Ordinary, MayFollow, Coherent, Knows, Unended
  <1>4. Kept(b.out, exempt) /\ Unended(b.out)
    <2>1. Kept(Append(a.out, x), exempt)
      BY <1>3, KeptGrows DEF Coherent
    <2>. QED
      BY <1>2, <2>1, UnendedGrows DEF Coherent, Kept
  <1>5. OpenBlocks(b.out) = OpenBlocks(a.out) \ {id}
    BY OpenBlocksGrow DEF Coherent, Kept
  <1>6. \A i \in DOMAIN b.out : b.out[i].type # "BlockEnd" => i \in DOMAIN a.out /\ b.out[i] = a.out[i]
    BY AppendSeq, SeqFacts DEF Coherent, Kept
  <1>7. Knows(b, exempt)
    BY <1>5, <1>6 DEF Coherent, Knows
  <1>8. ~b.started => \A i \in DOMAIN b.out : b.out[i].type # "Started"
    BY <1>6 DEF Coherent
  <1>. QED
    BY <1>1, <1>4, <1>7, <1>8 DEF Coherent

LEMMA SameBlock ==
    ASSUME NEW c, IsBlock(c), NEW value
    PROVE  LET d == [c EXCEPT !.text = value]
           IN  IsBlock(d) /\ d.open = c.open /\ d.kind = c.kind
  <1>. DEFINE d == [c EXCEPT !.text = value]
  <1>1. DOMAIN c = {"kind", "announced", "open", "text", "redacted", "signed"}
    BY DEF IsBlock
  <1>2. /\ d.kind = c.kind /\ d.announced = c.announced /\ d.open = c.open
        /\ d.text = value /\ d.redacted = c.redacted /\ d.signed = c.signed
    BY <1>1
  <1>3. d = [i \in DOMAIN c |-> d[i]]
    OBVIOUS
  <1>. HIDE DEF d
  <1>4. d = [kind |-> d.kind, announced |-> d.announced, open |-> d.open,
             text |-> d.text, redacted |-> d.redacted, signed |-> d.signed]
    BY <1>1, <1>3
  <1>. QED
    BY <1>2, <1>4 DEF IsBlock, d

LEMMA ClosedBlock ==
    ASSUME NEW c, IsBlock(c)
    PROVE  LET d == [c EXCEPT !.open = FALSE]
           IN  IsBlock(d) /\ d.open = FALSE /\ d.kind = c.kind
  <1>. DEFINE d == [c EXCEPT !.open = FALSE]
  <1>1. DOMAIN c = {"kind", "announced", "open", "text", "redacted", "signed"}
    BY DEF IsBlock
  <1>2. /\ d.kind = c.kind /\ d.announced = c.announced /\ d.open = FALSE
        /\ d.text = c.text /\ d.redacted = c.redacted /\ d.signed = c.signed
    BY <1>1
  <1>3. d = [i \in DOMAIN c |-> d[i]]
    OBVIOUS
  <1>. HIDE DEF d
  <1>4. d = [kind |-> d.kind, announced |-> d.announced, open |-> d.open,
             text |-> d.text, redacted |-> d.redacted, signed |-> d.signed]
    BY <1>1, <1>3
  <1>. QED
    BY <1>2, <1>4 DEF IsBlock, d

LEMMA EndCoheres ==
    ASSUME NEW a, NEW exempt, Coherent(a, exempt), NEW id
    PROVE  Coherent(End(a, id), exempt)
  <1>1. CASE ~IsOpen(a, id)
    BY <1>1 DEF End
  <1>2. CASE IsOpen(a, id)
    <2>. DEFINE b == End(a, id)
                x == BlockEndOf(a, id)
                block == [a.blocks[id] EXCEPT !.open = FALSE]
    <2>1. id \in Opened(a) /\ IsBlock(a.blocks[id]) /\ id \in DOMAIN a.blocks
      BY <1>2 DEF IsOpen, Known, Opened, Coherent, IsAssembler
    <2>2. x.type = "BlockEnd" /\ x.id = id /\ "id" \in DOMAIN x
      BY DEF BlockEndOf
    <2>3. IsBlock(block) /\ block.open = FALSE /\ block.kind = a.blocks[id].kind
      BY <2>1, ClosedBlock
    <2>4. /\ b.blocks = [a.blocks EXCEPT ![id] = block]
          /\ b.opened = RemoveFirst(a.opened, id) /\ b.out = Append(a.out, x)
          /\ b.started = a.started /\ b.completed = a.completed
          /\ b = [blocks |-> b.blocks, opened |-> b.opened, parts |-> b.parts, finish |-> b.finish,
                  started |-> b.started, completed |-> b.completed, out |-> b.out]
      BY <1>2 DEF End, Coherent, IsAssembler
    <2>. HIDE DEF b, x, block
    <2>5. /\ DOMAIN b.blocks = DOMAIN a.blocks
          /\ \A i \in DOMAIN a.blocks : b.blocks[i] = IF i = id THEN block ELSE a.blocks[i]
      BY <2>4 DEF Coherent, IsAssembler
    <2>6. IsAssembler(b)
      <3>1. IsSeq(b.opened)
        BY <2>1, <2>4, RemoveFirstRemoves DEF Coherent, IsAssembler, ListsOpened
      <3>2. b.blocks = [i \in DOMAIN b.blocks |-> b.blocks[i]]
        BY <2>4 DEF Coherent, IsAssembler
      <3>. QED
        BY <2>3, <2>4, <2>5, <3>1, <3>2 DEF Coherent, IsAssembler
    <2>7. Opened(b) = Opened(a) \ {id}
      BY <2>3, <2>5 DEF Opened
    <2>8. \A i \in DOMAIN a.blocks :
             i \in DOMAIN b.blocks /\ ShapeOf(b.blocks[i].kind) = ShapeOf(a.blocks[i].kind)
      BY <2>3, <2>5
    <2>. QED
      BY <2>1, <2>2, <2>4, <2>6, <2>7, <2>8, ClosingCoheres DEF b
  <1>. QED
    BY <1>1, <1>2

\* A discarded block is exempt: its id may start again.
LEMMA DiscardCoheres ==
    ASSUME NEW a, NEW exempt, Coherent(a, exempt), NEW id \in exempt
    PROVE  Coherent(Discard(a, id), exempt)
  <1>1. CASE ~IsOpen(a, id)
    BY <1>1 DEF Discard
  <1>2. CASE IsOpen(a, id)
    <2>. DEFINE b == Discard(a, id)
                x == BlockEndOf(a, id)
    <2>1. id \in Opened(a) /\ id \in DOMAIN a.blocks
      BY <1>2 DEF IsOpen, Known, Opened
    <2>2. x.type = "BlockEnd" /\ x.id = id /\ "id" \in DOMAIN x
      BY DEF BlockEndOf
    <2>3. /\ b.blocks = [i \in DOMAIN a.blocks \ {id} |-> a.blocks[i]]
          /\ b.opened = RemoveFirst(a.opened, id) /\ b.out = Append(a.out, x)
          /\ b.started = a.started /\ b.completed = a.completed
          /\ b = [blocks |-> b.blocks, opened |-> b.opened, parts |-> b.parts, finish |-> b.finish,
                  started |-> b.started, completed |-> b.completed, out |-> b.out]
      BY <1>2 DEF Discard, Coherent, IsAssembler
    <2>. HIDE DEF b, x
    <2>4. /\ DOMAIN b.blocks = DOMAIN a.blocks \ {id}
          /\ \A i \in DOMAIN a.blocks \ {id} : b.blocks[i] = a.blocks[i]
      BY <2>3
    <2>5. IsAssembler(b)
      <3>1. IsSeq(b.opened)
        BY <2>1, <2>3, RemoveFirstRemoves DEF Coherent, IsAssembler, ListsOpened
      <3>. QED
        BY <2>3, <2>4, <3>1 DEF Coherent, IsAssembler
    <2>6. Opened(b) = Opened(a) \ {id}
      BY <2>4 DEF Opened
    <2>7. \A i \in DOMAIN a.blocks \ exempt :
             i \in DOMAIN b.blocks /\ ShapeOf(b.blocks[i].kind) = ShapeOf(a.blocks[i].kind)
      BY <2>4
    <2>. QED
      BY <2>1, <2>2, <2>3, <2>5, <2>6, <2>7, ClosingCoheres DEF b
  <1>. QED
    BY <1>1, <1>2

\* An error is the last item of a stream that has not ended.
LEMMA ErrorKeeps ==
    ASSUME NEW a, NEW exempt, Coherent(a, exempt), NEW e
    PROVE  Kept(Emit(a, Err(e)).out, exempt)
  <1>1. Emit(a, Err(e)).out = Append(a.out, Err(e))
    BY DEF Emit, Coherent, IsAssembler
  <1>2. MayFollow(a.out, Err(e))
    BY ErrorMayFollow DEF Coherent, Unended
  <1>3. Err(e).type = "Err"
    BY DEF Err
  <1>. QED
    BY <1>1, <1>2, <1>3, KeptGrows DEF Coherent

\* The parts of the response that complete answers with, and its finish reason.
AllParts(a) == a.parts \o [i \in 1..Len(a.opened) |-> PartOf(a.blocks[a.opened[i]])]

Reason(a) == IF a.finish = "None" THEN "Incomplete" ELSE a.finish

\* What complete appends: the ends of what is open, and the response.
CompletedOut(a, new) ==
    LET n == Len(a.out)
        m == Len(a.opened)
    IN  /\ IsSeq(new) /\ Len(new) = n + m + 1 /\ DOMAIN new = 1..(n + m + 1)
        /\ \A i \in 1..n : new[i] = a.out[i]
        /\ \A k \in 1..m : new[n + k] = BlockEndOf(a, a.opened[k])
        /\ new[n + m + 1] = [type |-> "Ended", finish |-> Reason(a),
                             content |-> Answerable(AllParts(a), Reason(a))]

LEMMA CompleteAppends ==
    ASSUME NEW a, NEW exempt, Coherent(a, exempt)
    PROVE  LET c == Complete(a)
           IN  /\ CompletedOut(a, c.out) /\ c.completed = TRUE
               /\ c.blocks = [id \in DOMAIN a.blocks |-> [a.blocks[id] EXCEPT !.open = FALSE]]
  <1>. DEFINE h == a.out
              n == Len(h)
              m == Len(a.opened)
              ends == [i \in DOMAIN a.opened |-> BlockEndOf(a, a.opened[i])]
              last(p) == [type |-> "Ended", finish |-> Reason(a), content |-> Answerable(p, Reason(a))]
              parts == a.parts \o [i \in DOMAIN ends |-> ends[i].part]
              tail == Append(ends, last(parts))
              new == h \o tail
  <1>1. /\ Complete(a).out = new /\ Complete(a).completed = TRUE
        /\ Complete(a).blocks = [id \in DOMAIN a.blocks |-> [a.blocks[id] EXCEPT !.open = FALSE]]
    <2>. HIDE DEF parts
    <2>. QED
      BY DEF Complete, Coherent, IsAssembler, parts, Reason
  <1>2. n \in Nat /\ m \in Nat /\ DOMAIN h = 1..n /\ DOMAIN a.opened = 1..m
    BY SeqFacts DEF Coherent, IsAssembler, Kept
  <1>3. parts = AllParts(a)
    <2>1. DOMAIN ends = 1..m /\ \A i \in 1..m : ends[i].part = PartOf(a.blocks[a.opened[i]])
      BY <1>2 DEF BlockEndOf
    <2>. HIDE DEF ends
    <2>2. [i \in DOMAIN ends |-> ends[i].part] = [i \in 1..m |-> PartOf(a.blocks[a.opened[i]])]
      BY <2>1
    <2>. QED
      BY <2>2 DEF AllParts
  <1>4. /\ \A k \in 1..m : ends[k] = BlockEndOf(a, a.opened[k])
        /\ IsSeq(ends) /\ Len(ends) = m
    <2>1. ends = [k \in 1..m |-> BlockEndOf(a, a.opened[k])]
      BY <1>2
    <2>2. \A k \in 1..m : ends[k] \in Range(ends)
      BY <2>1 DEF Range
    <2>3. ends \in Seq(Range(ends)) /\ Len(ends) = m
      <3>1. ends \in [1..m -> Range(ends)]
        BY <2>1, <2>2
      <3>2. m \in Nat
        BY <1>2
      <3>. HIDE DEF ends, m
      <3>. QED
        BY <3>1, <3>2
    <2>. QED
      BY <2>1, <2>3 DEF IsSeq
  <1>. HIDE DEF last, ends, parts
  <1>5. /\ IsSeq(tail) /\ Len(tail) = m + 1 /\ tail[m + 1] = last(parts)
        /\ \A k \in 1..m : tail[k] = ends[k]
    BY <1>4, AppendSeq
  <1>. HIDE DEF tail, m
  <1>6. /\ IsSeq(new) /\ Len(new) = n + m + 1 /\ DOMAIN new = 1..(n + m + 1)
        /\ \A i \in 1..n : new[i] = h[i]
        /\ \A k \in 1..(m + 1) : new[n + k] = tail[k]
    <2>. DEFINE T == Range(h) \cup Range(tail)
    <2>1. h \in Seq(T) /\ tail \in Seq(T)
      BY <1>5, SeqMonotonic DEF Coherent, Kept, IsSeq
    <2>. HIDE DEF T
    <2>2. /\ new \in Seq(T) /\ Len(new) = n + Len(tail)
          /\ \A i \in 1..(n + Len(tail)) : new[i] = IF i <= n THEN h[i] ELSE tail[i - n]
      BY <2>1, ConcatProperties
    <2>. HIDE DEF new, h, n
    <2>3. \A i \in 1..n : i \in 1..(n + (m + 1)) /\ i <= n
      BY <1>2
    <2>4. \A k \in 1..(m + 1) : n + k \in 1..(n + (m + 1)) /\ ~(n + k <= n) /\ (n + k) - n = k
      BY <1>2
    <2>5. n + (m + 1) = n + m + 1 /\ n + m + 1 \in Nat
      BY <1>2
    <2>6. \A i \in 1..n : new[i] = h[i]
      BY <1>5, <2>2, <2>3
    <2>7. \A k \in 1..(m + 1) : new[n + k] = tail[k]
      BY <1>5, <2>2, <2>4
    <2>8. DOMAIN new = 1..Len(new)
      BY <2>2
    <2>. QED
      BY <1>5, <2>2, <2>5, <2>6, <2>7, <2>8, OfTypeIsSeq
  <1>. HIDE DEF new, n, h
  <1>7. /\ m + 1 \in 1..(m + 1) /\ n + (m + 1) = n + m + 1
        /\ \A k \in 1..m : k \in 1..(m + 1)
    BY <1>2
  <1>8. new[n + m + 1] = last(parts) /\ \A k \in 1..m : new[n + k] = BlockEndOf(a, a.opened[k])
    BY <1>4, <1>5, <1>6, <1>7
  <1>9. CompletedOut(a, new)
    BY <1>3, <1>6, <1>8 DEF CompletedOut, last, n, m, h
  <1>. QED
    BY <1>1, <1>9

\* What is open ends, each block once, and the response follows (complete).
LEMMA CompleteKeeps ==
    ASSUME NEW a, NEW exempt, Coherent(a, exempt)
    PROVE  Kept(Complete(a).out, exempt) /\ Complete(a).completed = TRUE
  <1>. DEFINE h == a.out
              n == Len(h)
              m == Len(a.opened)
              new == Complete(a).out
              ends == [k \in 1..m |-> BlockEndOf(a, a.opened[k])]
              last == new[n + m + 1]
  <1>1. CompletedOut(a, new) /\ Complete(a).completed = TRUE
    BY CompleteAppends
  <1>2. last.type = "Ended"
    BY <1>1 DEF CompletedOut
  <1>3. n \in Nat /\ m \in Nat /\ DOMAIN h = 1..n /\ DOMAIN a.opened = 1..m
    BY SeqFacts DEF Coherent, IsAssembler, Kept
  <1>4. \A k \in 1..m : ends[k].type = "BlockEnd" /\ ends[k].id = a.opened[k] /\ "id" \in DOMAIN ends[k]
    BY DEF BlockEndOf
  <1>5. /\ IsSeq(new) /\ DOMAIN new = 1..(n + m + 1)
        /\ \A i \in 1..n : new[i] = h[i]
        /\ \A k \in 1..m : new[n + k] = ends[k]
    BY <1>1 DEF CompletedOut
  <1>. HIDE DEF last, ends, new
  <1>6. \A i \in 1..(n + m + 1) :
           \/ i \in 1..n
           \/ \E k \in 1..m : i = n + k /\ new[i] = ends[k]
           \/ i = n + m + 1 /\ new[i] = last
    <2>. SUFFICES ASSUME NEW i \in 1..(n + m + 1), i \notin 1..n
                  PROVE  \/ \E k \in 1..m : i = n + k /\ new[i] = ends[k]
                         \/ i = n + m + 1 /\ new[i] = last
      OBVIOUS
    <2>. DEFINE k == i - n
    <2>1. k \in 1..(m + 1) /\ i = n + k /\ (k \in 1..m \/ (k = m + 1 /\ i = n + m + 1))
      <3>. HIDE DEF n
      <3>. QED
        BY <1>3
    <2>. HIDE DEF k, new, n
    <2>. QED
      BY <1>5, <2>1 DEF last
  \* The items before the i-th.
  <1>7. ASSUME NEW i \in 1..(n + m + 1)
        PROVE  LET before == SubSeq(new, 1, i - 1)
               IN  DOMAIN before = 1..(i - 1) /\ \A j \in 1..(i - 1) : before[j] = new[j]
    <2>1. i - 1 \in 0..Len(new)
      <3>1. Len(new) = n + m + 1
        <4>. HIDE DEF new, n
        <4>1. Len(new) \in Nat /\ 1..Len(new) = 1..(n + m + 1) /\ n + m + 1 \in Nat
          BY <1>3, <1>5, SeqFacts
        <4>. QED
          BY <4>1
      <3>. HIDE DEF new, n
      <3>. QED
        BY <1>3, <3>1
    <2>. HIDE DEF new
    <2>. QED
      BY <1>5, <2>1
  <1>. HIDE DEF new, n, h
  <1>8. ASSUME NEW i \in 1..(n + m + 1), Ordinary(new[i], exempt)
        PROVE  MayFollow(SubSeq(new, 1, i - 1), new[i])
    <2>. DEFINE before == SubSeq(new, 1, i - 1)
    <2>1. DOMAIN before = 1..(i - 1) /\ \A j \in 1..(i - 1) : before[j] = new[j]
      BY <1>7
    <2>. HIDE DEF before
    <2>2. CASE i \in 1..n
      <3>1. \A j \in 1..(i - 1) : j \in 1..n
        BY <1>3, <2>2
      <3>2. h \in Seq(Range(h)) /\ i - 1 \in 0..Len(h)
        BY <1>3, <2>2 DEF Coherent, Kept, IsSeq, h, n
      <3>3. before = SubSeq(h, 1, i - 1)
        <4>1. /\ DOMAIN SubSeq(h, 1, i - 1) = 1..(i - 1)
              /\ \A j \in 1..(i - 1) : SubSeq(h, 1, i - 1)[j] = h[j]
          BY <3>2
        <4>2. /\ SubSeq(h, 1, i - 1) = [j \in 1..(i - 1) |-> SubSeq(h, 1, i - 1)[j]]
              /\ before = [j \in 1..(i - 1) |-> before[j]]
          <5>1. SubSeq(h, 1, i - 1) \in Seq(Range(h))
            BY <3>2
          <5>2. before \in Seq(Range(new))
            BY <1>3, <1>5 DEF before, IsSeq
          <5>. QED
            BY <2>1, <4>1, <5>1, <5>2
        <4>. QED
          BY <1>5, <2>1, <3>1, <4>1, <4>2
      <3>4. new[i] = h[i]
        BY <1>5, <2>2
      <3>. QED
        BY <1>3, <1>8, <2>2, <3>3, <3>4 DEF Coherent, Kept, h, before
    <2>3. CASE i \notin 1..n
      <3>1. n \in 0..(i - 1) /\ \A j \in 1..n : j \in 1..(i - 1) /\ before[j] = h[j]
        BY <1>3, <1>5, <2>1, <2>3
      <3>2. \A j \in 1..(i - 1) : j \in 1..(n + m + 1) /\ j # n + m + 1
        BY <1>3
      <3>3. ASSUME NEW j \in 1..(i - 1) PROVE ~IsTerminal(before[j])
        <4>1. CASE j \in 1..n
          BY <1>3, <3>1, <4>1 DEF Coherent, Unended, h
        <4>2. CASE j \notin 1..n
          <5>1. PICK k \in 1..m : new[j] = ends[k]
            BY <1>6, <3>2, <4>2
          <5>. QED
            BY <1>4, <2>1, <5>1 DEF IsTerminal
        <4>. QED
          BY <4>1, <4>2
      <3>4. \A id \in OpenBlocks(h) :
               id \in Ids("BlockStart", before)
               /\ (id \in Ids("BlockEnd", before) <=> \E k \in 1..m : n + k < i /\ id = a.opened[k])
        <4>. SUFFICES ASSUME NEW id \in OpenBlocks(h)
                      PROVE  id \in Ids("BlockStart", before)
                             /\ (id \in Ids("BlockEnd", before)
                                    <=> \E k \in 1..m : n + k < i /\ id = a.opened[k])
          OBVIOUS
        <4>1. id \in Ids("BlockStart", h) /\ id \notin Ids("BlockEnd", h)
          BY DEF OpenBlocks
        <4>2. id \in Ids("BlockStart", before)
          BY <1>3, <2>1, <3>1, <4>1 DEF Ids
        <4>3. ASSUME NEW j \in 1..(i - 1), before[j].type = "BlockEnd", before[j].id = id
              PROVE  \E k \in 1..m : n + k < i /\ id = a.opened[k]
          <5>1. j \notin 1..n
            BY <1>3, <3>1, <4>1, <4>3 DEF Ids
          <5>2. PICK k \in 1..m : j = n + k /\ new[j] = ends[k]
            BY <1>6, <3>2, <5>1
          <5>. QED
            BY <1>3, <1>4, <2>1, <4>3, <5>2
        <4>4. ASSUME NEW k \in 1..m, n + k < i, id = a.opened[k]
              PROVE  id \in Ids("BlockEnd", before)
          <5>1. n + k \in 1..(i - 1)
            BY <1>3, <4>4
          <5>2. before[n + k] = ends[k]
            BY <1>5, <2>1, <4>4, <5>1
          <5>. QED
            BY <1>4, <2>1, <4>4, <5>1, <5>2 DEF Ids
        <4>. QED
          BY <2>1, <4>2, <4>3, <4>4 DEF Ids
      <3>5. ASSUME NEW k \in 1..m, i = n + k, new[i] = ends[k]
            PROVE  MayFollow(before, new[i])
        <4>1. a.opened[k] \notin exempt /\ a.opened[k] \in Range(a.opened)
          BY <1>3, <1>4, <1>8, <3>5 DEF Ordinary, Range
        <4>2. a.opened[k] \in OpenBlocks(h)
          BY <4>1 DEF Coherent, ListsOpened, Knows, h
        <4>3. a.opened[k] \notin Ids("BlockEnd", before)
          <5>1. SUFFICES ASSUME NEW q \in 1..m, n + q < i, a.opened[k] = a.opened[q] PROVE FALSE
            BY <3>4, <4>2
          <5>2. k = q
            BY <1>3, <5>1 DEF Coherent, ListsOpened
          <5>. QED
            BY <1>3, <3>5, <5>1, <5>2
        <4>4. new[i].id \in OpenBlocks(before)
          BY <1>4, <3>4, <3>5, <4>2, <4>3 DEF OpenBlocks
        <4>. QED
          BY <1>4, <2>1, <3>3, <3>5, <4>4 DEF MayFollow
      <3>6. ASSUME i = n + m + 1, new[i] = last
            PROVE  MayFollow(before, new[i])
        <4>1. OpenBlocks(before) = {}
          <5>. SUFFICES ASSUME NEW id \in OpenBlocks(before) PROVE FALSE
            OBVIOUS
          <5>1. PICK j \in 1..(i - 1) : before[j].type = "BlockStart" /\ before[j].id = id
            BY <2>1 DEF OpenBlocks, Ids
          <5>2. id \notin Ids("BlockEnd", before)
            BY DEF OpenBlocks
          <5>3. j \in 1..n
            BY <1>4, <1>6, <2>1, <3>2, <5>1
          <5>4. id \in Ids("BlockStart", h)
            BY <1>3, <3>1, <5>1, <5>3 DEF Ids
          <5>5. id \notin Ids("BlockEnd", h)
            BY <1>3, <2>1, <3>1, <5>2 DEF Ids
          <5>6. id \in OpenBlocks(h)
            BY <5>4, <5>5 DEF OpenBlocks
          <5>7. PICK k \in 1..m : id = a.opened[k]
            BY <1>3, <5>6 DEF Coherent, Knows, ListsOpened, Range, h
          <5>8. n + k < i
            BY <1>3, <3>6
          <5>. QED
            BY <3>4, <5>2, <5>6, <5>7, <5>8
        <4>. QED
          BY <1>2, <2>1, <3>3, <3>6, <4>1 DEF MayFollow
      <3>. QED
        BY <1>6, <2>3, <3>5, <3>6 DEF before
    <2>. QED
      BY <2>2, <2>3
  <1>9. \A i \in DOMAIN new : new[i].type \in {"BlockStart", "Delta"} => i \in 1..n /\ new[i] = h[i]
    BY <1>2, <1>4, <1>5, <1>6
  <1>10. DeltasFit(new, exempt) /\ \A i \in DOMAIN new : new[i].type = "Delta" => "id" \in DOMAIN new[i]
    BY <1>3, <1>9 DEF Coherent, Kept, DeltasFit, h
  <1>. QED
    BY <1>1, <1>5, <1>8, <1>10 DEF Kept, new

----------------------------------------------------------------------------
(***************************************************************************)
(* What a history tells of the texts and the parts.                        *)
(***************************************************************************)

LEMMA JoinedGrows ==
    ASSUME NEW h, IsSeq(h), NEW x, NEW id
    PROVE  Joined(Append(h, x), id) = IF x.type = "Delta" /\ x.id = id
                                      THEN Joined(h, id) \o x.text
                                      ELSE Joined(h, id)
  <1>. DEFINE new == Append(h, x)
              n == Len(h)
              p == [i \in DeltasOf(h, id) |-> h[i].text]
              q == [i \in DeltasOf(new, id) |-> new[i].text]
  <1>1. /\ DOMAIN new = 1..(n + 1) /\ Len(new) = n + 1 /\ new[n + 1] = x /\ n + 1 \in 1..(n + 1)
        /\ \A i \in 1..n : new[i] = h[i] /\ i \in 1..(n + 1)
        /\ DOMAIN h = 1..n /\ n \in Nat
    <2>1. n \in Nat
      BY SeqFacts
    <2>2. n + 1 \in 1..(n + 1) /\ \A i \in 1..n : i \in 1..(n + 1)
      BY <2>1
    <2>. QED
      BY <2>1, <2>2, AppendSeq, SeqFacts
  <1>. HIDE DEF new, n
  <1>2. \A i \in 1..n : (i \in DOMAIN p <=> i \in DOMAIN q) /\ (i \in DOMAIN p => p[i] = q[i])
    BY <1>1 DEF DeltasOf
  <1>3. n + 1 \in DOMAIN q <=> (x.type = "Delta" /\ x.id = id)
    BY <1>1 DEF DeltasOf
  <1>4. n + 1 \in DOMAIN q => q[n + 1] = x.text
    BY <1>1
  <1>5. Joined(h, id) = Gathered(n, p) /\ Joined(new, id) = Gathered(n + 1, q)
    BY <1>1 DEF Joined, n
  <1>. HIDE DEF p, q
  <1>6. Gathered(n, p) = Gathered(n, q)
    BY <1>1, <1>2, GatheredAgrees
  <1>. QED
    BY <1>1, <1>3, <1>4, <1>5, <1>6, GatheredGoesOn DEF new

LEMMA PartsGrow ==
    ASSUME NEW h, IsSeq(h), NEW x, NEW ids
    PROVE  PartsTold(Append(h, x), ids) = IF x.type = "BlockEnd" /\ x.id \in ids
                                          THEN PartsTold(h, ids) \o <<x.part>>
                                          ELSE PartsTold(h, ids)
  <1>. DEFINE new == Append(h, x)
              n == Len(h)
              EndsOf(s) == {j \in DOMAIN s : s[j].type = "BlockEnd" /\ s[j].id \in ids}
              p == [i \in EndsOf(h) |-> <<h[i].part>>]
              q == [i \in EndsOf(new) |-> <<new[i].part>>]
  <1>1. /\ DOMAIN new = 1..(n + 1) /\ Len(new) = n + 1 /\ new[n + 1] = x /\ n + 1 \in 1..(n + 1)
        /\ \A i \in 1..n : new[i] = h[i] /\ i \in 1..(n + 1)
        /\ DOMAIN h = 1..n /\ n \in Nat
    <2>1. n \in Nat
      BY SeqFacts
    <2>2. n + 1 \in 1..(n + 1) /\ \A i \in 1..n : i \in 1..(n + 1)
      BY <2>1
    <2>. QED
      BY <2>1, <2>2, AppendSeq, SeqFacts
  <1>. HIDE DEF new, n
  <1>2. \A i \in 1..n : (i \in DOMAIN p <=> i \in DOMAIN q) /\ (i \in DOMAIN p => p[i] = q[i])
    BY <1>1
  <1>3. n + 1 \in DOMAIN q <=> (x.type = "BlockEnd" /\ x.id \in ids)
    BY <1>1
  <1>4. n + 1 \in DOMAIN q => q[n + 1] = <<x.part>>
    BY <1>1
  <1>5. PartsTold(h, ids) = Gathered(n, p) /\ PartsTold(new, ids) = Gathered(n + 1, q)
    BY <1>1 DEF PartsTold, n
  <1>. HIDE DEF p, q
  <1>6. Gathered(n, p) = Gathered(n, q)
    BY <1>1, <1>2, GatheredAgrees
  <1>. QED
    BY <1>1, <1>3, <1>4, <1>5, <1>6, GatheredGoesOn DEF new

LEMMA PartsStay ==
    ASSUME NEW h, IsSeq(h), NEW x, NEW ids, ~(x.type = "BlockEnd" /\ x.id \in ids)
    PROVE  PartsTold(Append(h, x), ids) = PartsTold(h, ids)
  BY PartsGrow

LEMMA PartsAgree ==
    ASSUME NEW h, IsSeq(h), NEW ids, NEW others,
           \A i \in DOMAIN h : h[i].type = "BlockEnd" => (h[i].id \in ids <=> h[i].id \in others)
    PROVE  PartsTold(h, ids) = PartsTold(h, others)
  <1>. DEFINE EndsOf(s) == {j \in DOMAIN h : h[j].type = "BlockEnd" /\ h[j].id \in s}
  <1>1. EndsOf(ids) = EndsOf(others)
    OBVIOUS
  <1>. QED
    BY <1>1 DEF PartsTold

LEMMA ContractShrinks ==
    ASSUME NEW h, IsSeq(h), NEW x, KeepsContract(Append(h, x))
    PROVE  KeepsContract(h) /\ MayFollow(h, x)
  <1>. DEFINE new == Append(h, x)
              n == Len(h)
  <1>1. /\ Len(new) = n + 1 /\ new[n + 1] = x /\ n + 1 \in 1..(n + 1) /\ (n + 1) - 1 = n
        /\ \A i \in 1..n : new[i] = h[i] /\ i \in 1..(n + 1)
        /\ n \in Nat
    <2>1. n \in Nat
      BY SeqFacts
    <2>2. n + 1 \in 1..(n + 1) /\ (n + 1) - 1 = n /\ \A i \in 1..n : i \in 1..(n + 1)
      BY <2>1
    <2>. QED
      BY <2>1, <2>2, AppendSeq
  <1>2. /\ \A i \in 1..n : SubSeq(new, 1, i - 1) = SubSeq(h, 1, i - 1)
        /\ SubSeq(new, 1, n) = h
    BY AppendPrefix
  <1>. HIDE DEF new
  <1>3. \A i \in 1..(n + 1) : MayFollow(SubSeq(new, 1, i - 1), new[i])
    BY <1>1 DEF KeepsContract, new
  <1>4. MayFollow(h, x)
    BY <1>1, <1>2, <1>3
  <1>5. \A i \in 1..n : MayFollow(SubSeq(h, 1, i - 1), h[i])
    BY <1>1, <1>2, <1>3
  <1>. QED
    BY <1>4, <1>5 DEF KeepsContract

\* What has ended, has started.
LEMMA EndsHaveStarted ==
    ASSUME NEW h, IsSeq(h), KeepsContract(h)
    PROVE  Ids("BlockEnd", h) \subseteq Ids("BlockStart", h)
  <1>. SUFFICES ASSUME NEW j \in DOMAIN h, h[j].type = "BlockEnd"
                PROVE  h[j].id \in Ids("BlockStart", h)
    BY DEF Ids
  <1>1. j \in 1..Len(h) /\ Len(h) \in Nat /\ DOMAIN h = 1..Len(h)
    BY SeqFacts
  <1>. DEFINE before == SubSeq(h, 1, j - 1)
  <1>2. h[j].id \in Ids("BlockStart", before)
    BY <1>1 DEF KeepsContract, MayFollow, OpenBlocks
  <1>3. PICK i \in DOMAIN before : before[i].type = "BlockStart" /\ before[i].id = h[j].id
    BY <1>2 DEF Ids
  <1>4. i \in DOMAIN h /\ before[i] = h[i]
    <2>1. h \in Seq(Range(h))
      BY DEF IsSeq
    <2>2. j - 1 \in 0..Len(h)
      BY <1>1
    <2>3. DOMAIN before = 1..(j - 1) /\ \A k \in 1..(j - 1) : before[k] = h[k]
      BY <2>1, <2>2
    <2>4. i \in 1..(j - 1)
      BY <1>3, <2>3
    <2>5. i \in 1..Len(h)
      BY <1>1, <2>4
    <2>. QED
      BY <1>1, <2>3, <2>4, <2>5
  <1>. QED
    BY <1>3, <1>4 DEF Ids

----------------------------------------------------------------------------
(***************************************************************************)
(* An assembler that tells what it holds: the parts of the response are    *)
(* those of its block ends, the text of a block is what the deltas joined  *)
(* to, and calls are announced where the protocol announces them.          *)
(***************************************************************************)

PartsListed(a) ==
    /\ IsSeq(a.parts)
    /\ KeepsContract(a.out) => PartsTold(a.out, DOMAIN a.blocks) = a.parts

Readable(block) ==
    block.kind \in {"Text", "Reasoning"} /\ ~(block.kind = "Reasoning" /\ block.redacted)

DeltasTell(h) ==
    \A i \in DOMAIN h :
        h[i].type = "BlockEnd" /\ IsReadable(h[i].part) => h[i].part.text = Joined(h, h[i].id)

TextsTold(a) ==
    /\ \A i \in DOMAIN a.out :
          a.out[i].type \in {"Delta", "BlockEnd"} => a.out[i].id \in DOMAIN a.blocks
    /\ \A i \in DOMAIN a.out : a.out[i].type = "BlockEnd" => ~a.blocks[a.out[i].id].open
    /\ \A id \in DOMAIN a.blocks : Readable(a.blocks[id]) => a.blocks[id].text = Joined(a.out, id)
    /\ DeltasTell(a.out)

Announced(blocks) == \A id \in DOMAIN blocks : IsCall(blocks[id].kind) => blocks[id].announced

Announces(c) == c \in {"anthropic", "bedrock"}

Honest(a) ==
    /\ PartsListed(a)
    /\ codec # "responses" => TextsTold(a)
    /\ Announces(codec) => Announced(a.blocks)

Live(a, exempt) == Coherent(a, exempt) /\ Honest(a)

LEMMA PartReadable == ASSUME NEW block PROVE IsReadable(PartOf(block)) <=> Readable(block)
  BY DEF IsReadable, PartOf, Readable

\* A change that no event tells of, and that makes no block readable.
SameReading(block, other) ==
    /\ other.open = block.open /\ other.announced = block.announced
    /\ IsCall(other.kind) => IsCall(block.kind)
    /\ Readable(other) => Readable(block) /\ other.text = block.text

Silent(a, b) ==
    /\ b.out = a.out /\ b.parts = a.parts /\ DOMAIN b.blocks = DOMAIN a.blocks
    /\ \A id \in DOMAIN a.blocks : SameReading(a.blocks[id], b.blocks[id])

LEMMA QuietlyHonest ==
    ASSUME NEW a, NEW b, Honest(a), Silent(a, b)
    PROVE  Honest(b)
  <1>1. PartsListed(b)
    BY DEF Honest, PartsListed, Silent
  <1>2. TextsTold(a) => TextsTold(b)
    BY DEF TextsTold, Silent, SameReading
  <1>3. Announced(a.blocks) => Announced(b.blocks)
    BY DEF Announced, Silent, SameReading
  <1>. QED
    BY <1>1, <1>2, <1>3 DEF Honest

\* An event that is of no block.
LEMMA EventIsHonest ==
    ASSUME NEW a, NEW b, IsSeq(a.out), Honest(a),
           NEW x, x.type \notin {"BlockStart", "BlockEnd", "Delta"},
           b.out = Append(a.out, x), b.parts = a.parts, b.blocks = a.blocks
    PROVE  Honest(b)
  <1>0. ~(x.type = "BlockEnd") /\ ~(x.type = "Delta")
    OBVIOUS
  <1>1. PartsListed(b)
    <2>1. PartsTold(b.out, DOMAIN a.blocks) = PartsTold(a.out, DOMAIN a.blocks)
      BY <1>0, PartsStay
    <2>2. KeepsContract(b.out) => KeepsContract(a.out)
      BY ContractShrinks
    <2>. QED
      BY <2>1, <2>2 DEF Honest, PartsListed
  <1>2. \A id : Joined(b.out, id) = Joined(a.out, id)
    BY <1>0, JoinedGrows
  <1>3. \A i \in DOMAIN b.out :
           b.out[i].type \in {"Delta", "BlockEnd"} => i \in DOMAIN a.out /\ b.out[i] = a.out[i]
    BY AppendSeq, SeqFacts
  <1>4. ASSUME TextsTold(a) PROVE TextsTold(b)
    <2>1. DeltasTell(b.out)
      BY <1>2, <1>3, <1>4 DEF TextsTold, DeltasTell
    <2>. QED
      BY <1>2, <1>3, <1>4, <2>1 DEF TextsTold
  <1>. QED
    BY <1>1, <1>4 DEF Honest

LEMMA MoreExempt ==
    ASSUME NEW a, NEW exempt, NEW more, exempt \subseteq more, Live(a, exempt)
    PROVE  Live(a, more)
  BY MoreCoherentlyExempt DEF Live

LEMMA StartedLives ==
    ASSUME NEW a, NEW exempt, Live(a, exempt)
    PROVE  Live(Started(a), exempt)
  <1>1. CASE a.started
    BY <1>1 DEF Started
  <1>2. CASE ~a.started
    <2>. DEFINE x == [type |-> "Started"]
                b == Started(a)
    <2>1. b.out = Append(a.out, x) /\ b.blocks = a.blocks /\ b.parts = a.parts
      BY <1>2 DEF Started, Emit, Live, Coherent, IsAssembler
    <2>2. x.type \notin {"BlockStart", "BlockEnd", "Delta"}
      OBVIOUS
    <2>. HIDE DEF x, b
    <2>3. Honest(b)
      BY <2>1, <2>2, EventIsHonest DEF Live, Coherent, Kept
    <2>. QED
      BY <2>3, StartedCoheres DEF Live, b
  <1>. QED
    BY <1>1, <1>2 DEF Live, Coherent, IsAssembler

LEMMA UsageLives ==
    ASSUME NEW a, NEW exempt, Live(a, exempt)
    PROVE  Live(Usage(a), exempt)
  <1>. DEFINE x == [type |-> "Accounting"]
              b == Usage(a)
  <1>1. b.out = Append(a.out, x) /\ b.blocks = a.blocks /\ b.parts = a.parts
    BY DEF Usage, Emit, Live, Coherent, IsAssembler
  <1>2. x.type \notin {"BlockStart", "BlockEnd", "Delta"}
    OBVIOUS
  <1>. HIDE DEF x, b
  <1>3. Honest(b)
    BY <1>1, <1>2, EventIsHonest DEF Live, Coherent, Kept
  <1>. QED
    BY <1>3, UsageCoheres DEF Live, b

LEMMA SetFinishLives ==
    ASSUME NEW a, NEW exempt, Live(a, exempt), NEW reason
    PROVE  Live(SetFinish(a, reason), exempt)
  <1>. DEFINE b == SetFinish(a, reason)
  <1>1. b.out = a.out /\ b.blocks = a.blocks /\ b.parts = a.parts
    BY DEF SetFinish, Live, Coherent, IsAssembler
  <1>. HIDE DEF b
  <1>2. Silent(a, b)
    BY <1>1 DEF Silent, SameReading
  <1>. QED
    BY <1>2, QuietlyHonest, SetFinishCoheres DEF Live, b

\* A call is announced when it opens, where the protocol announces calls.
LEMMA OpenLives ==
    ASSUME NEW a, NEW exempt, Live(a, exempt), NEW id, NEW kind \in Kinds, NEW announced,
           Known(a, id) \/ (Announces(codec) /\ IsCall(kind) => announced)
    PROVE  Live(Open(a, id, kind, announced), exempt) /\ Known(Open(a, id, kind, announced), id)
  <1>. DEFINE b == Open(a, id, kind, announced)
              x == [type |-> "BlockStart", id |-> id, kind |-> kind]
              block == [kind |-> kind, announced |-> announced, open |-> TRUE,
                        text |-> <<>>, redacted |-> FALSE, signed |-> FALSE]
  <1>1. CASE Known(a, id)
    BY <1>1 DEF Open
  <1>2. CASE ~Known(a, id)
    <2>1. /\ b.blocks = [i \in DOMAIN a.blocks \cup {id} |-> IF i # id THEN a.blocks[i] ELSE block]
          /\ b.out = Append(a.out, x) /\ b.parts = a.parts
      BY <1>2 DEF Open, Live, Coherent, IsAssembler
    <2>2. /\ block.open = TRUE /\ block.kind = kind /\ block.announced = announced
          /\ block.text = <<>>
      OBVIOUS
    <2>3. x.type = "BlockStart" /\ x.id = id
      OBVIOUS
    <2>. HIDE DEF b, x, block
    <2>4. /\ DOMAIN b.blocks = DOMAIN a.blocks \cup {id} /\ b.blocks[id] = block
          /\ \A i \in DOMAIN a.blocks : i # id /\ b.blocks[i] = a.blocks[i]
      BY <1>2, <2>1 DEF Known
    <2>5. IsSeq(a.out)
      BY DEF Live, Coherent, Kept
    <2>6. \A i \in DOMAIN b.out :
             b.out[i].type \in {"Delta", "BlockEnd"} => i \in DOMAIN a.out /\ b.out[i] = a.out[i]
      BY <2>1, <2>3, <2>5, AppendSeq, SeqFacts
    <2>7. PartsListed(b)
      <3>. SUFFICES ASSUME KeepsContract(b.out)
                    PROVE  PartsTold(b.out, DOMAIN b.blocks) = a.parts
        BY <2>1 DEF Live, Honest, PartsListed
      <3>1. KeepsContract(a.out) /\ MayFollow(a.out, x)
        BY <2>1, <2>5, ContractShrinks
      <3>2. id \notin Ids("BlockEnd", a.out)
        BY <2>3, <2>5, <3>1, EndsHaveStarted DEF MayFollow
      <3>3. PartsTold(a.out, DOMAIN b.blocks) = PartsTold(a.out, DOMAIN a.blocks)
        BY <2>4, <2>5, <3>2, PartsAgree DEF Ids
      <3>4. PartsTold(b.out, DOMAIN b.blocks) = PartsTold(a.out, DOMAIN b.blocks)
        <4>1. ~(x.type = "BlockEnd")
          BY <2>3
        <4>. QED
          BY <2>1, <2>5, <4>1, PartsStay
      <3>. QED
        BY <3>1, <3>3, <3>4 DEF Live, Honest, PartsListed
    <2>8. \A i : Joined(b.out, i) = Joined(a.out, i)
      BY <2>1, <2>3, <2>5, JoinedGrows
    <2>9. ASSUME TextsTold(a) PROVE TextsTold(b)
      <3>1. Joined(a.out, id) = <<>>
        <4>1. DeltasOf(a.out, id) = {}
          BY <1>2, <2>9 DEF TextsTold, DeltasOf, Known
        <4>. QED
          BY <2>5, <4>1, NothingGathered, SeqFacts DEF Joined
      <3>2. DeltasTell(b.out)
        BY <2>6, <2>8, <2>9 DEF TextsTold, DeltasTell
      <3>. QED
        BY <2>2, <2>4, <2>6, <2>8, <2>9, <3>1, <3>2 DEF TextsTold
    <2>10. Announces(codec) => Announced(b.blocks)
      BY <1>2, <2>2, <2>4 DEF Live, Honest, Announced
    <2>11. Honest(b)
      BY <2>7, <2>9, <2>10 DEF Live, Honest
    <2>. QED
      BY <2>11, OpenCoheres DEF Live, b
  <1>. QED
    BY <1>1, <1>2

LEMMA LatchLives ==
    ASSUME NEW a, NEW exempt, Live(a, exempt), NEW id, NEW kind \in Kinds
    PROVE  /\ Live(Start(a, id, kind), exempt) /\ Known(Start(a, id, kind), id)
           /\ (Announces(codec) /\ IsCall(kind) => Known(a, id))
              => Live(Latch(a, id, kind), exempt) /\ Known(Latch(a, id, kind), id)
  BY OpenLives DEF Latch, Start

\* One block changes, and no event tells of it.
LEMMA QuietBlock ==
    ASSUME NEW a, NEW exempt, Live(a, exempt), NEW id, Known(a, id), NEW block, NEW b,
           b = [a EXCEPT !.blocks[id] = block], Coherent(b, exempt),
           SameReading(a.blocks[id], block)
    PROVE  Live(b, exempt)
  <1>1. b.out = a.out /\ b.parts = a.parts /\ b.blocks = [a.blocks EXCEPT ![id] = block]
    BY DEF Live, Coherent, IsAssembler
  <1>2. /\ DOMAIN b.blocks = DOMAIN a.blocks
        /\ \A i \in DOMAIN a.blocks : b.blocks[i] = IF i = id THEN block ELSE a.blocks[i]
    BY <1>1
  <1>3. Silent(a, b)
    BY <1>1, <1>2 DEF Silent, SameReading
  <1>. QED
    BY <1>3, QuietlyHonest DEF Live

\* signed and redacted are set, and only the text of opaque blocks is.
LEMMA MarkLives ==
    ASSUME NEW a, NEW exempt, Live(a, exempt), NEW id, NEW field \in {"text", "signed", "redacted"},
           NEW value,
           field = "text" /\ Known(a, id) => a.blocks[id].kind = "Opaque",
           field = "redacted" => value = TRUE
    PROVE  Live(Mark(a, id, field, value), exempt)
  <1>1. CASE ~IsOpen(a, id)
    BY <1>1 DEF Mark
  <1>2. CASE IsOpen(a, id)
    <2>. DEFINE block == [a.blocks[id] EXCEPT ![field] = value]
                b == Mark(a, id, field, value)
    <2>1. IsBlock(a.blocks[id]) /\ Known(a, id)
      BY <1>2 DEF IsOpen, Known, Live, Coherent, IsAssembler
    <2>2. /\ block.announced = a.blocks[id].announced /\ block.kind = a.blocks[id].kind
          /\ block.open = a.blocks[id].open
          /\ block.text = IF field = "text" THEN value ELSE a.blocks[id].text
          /\ block.redacted = IF field = "redacted" THEN value ELSE a.blocks[id].redacted
      BY <2>1 DEF IsBlock
    <2>3. b = [a EXCEPT !.blocks[id] = block]
      BY <1>2 DEF Mark
    <2>4. Coherent(b, exempt)
      BY MarkCoheres DEF Live
    <2>. HIDE DEF block, b
    <2>5. SameReading(a.blocks[id], block)
      BY <2>1, <2>2 DEF SameReading, Readable
    <2>. QED
      BY <2>1, <2>3, <2>4, <2>5, QuietBlock DEF b
  <1>. QED
    BY <1>1, <1>2

LEMMA RepairLives ==
    ASSUME NEW a, NEW exempt, Live(a, exempt), NEW id, NEW kind \in {"Call", "NamelessCall"}
    PROVE  Live(RepairIdentity(a, id, kind), exempt)
  <1>1. CASE ~OpenAs(a, id, "Call")
    BY <1>1 DEF RepairIdentity
  <1>2. CASE OpenAs(a, id, "Call")
    <2>. DEFINE block == [a.blocks[id] EXCEPT !.kind = kind]
                b == RepairIdentity(a, id, kind)
    <2>1. IsBlock(a.blocks[id]) /\ Known(a, id) /\ IsCall(a.blocks[id].kind) /\ IsOpen(a, id)
      BY <1>2 DEF OpenAs, Fits, IsOpen, Known, Live, Coherent, IsAssembler
    <2>2. /\ block.announced = a.blocks[id].announced /\ block.kind = kind
          /\ block.open = a.blocks[id].open
      BY <2>1 DEF IsBlock
    <2>3. b = [a EXCEPT !.blocks[id] = block]
      BY <1>2, <2>1 DEF RepairIdentity, Mark
    <2>4. Coherent(b, exempt)
      BY RepairCoheres DEF Live
    <2>. HIDE DEF block, b
    <2>5. SameReading(a.blocks[id], block)
      BY <2>1, <2>2 DEF SameReading, Readable
    <2>. QED
      BY <2>1, <2>3, <2>4, <2>5, QuietBlock DEF b
  <1>. QED
    BY <1>1, <1>2

\* The text of a block that is not readable grows unheard.
LEMMA GrowLives ==
    ASSUME NEW a, NEW exempt, Live(a, exempt), NEW id, Known(a, id), ~Readable(a.blocks[id]), NEW text
    PROVE  Live(Grow(a, id, text), exempt)
  <1>. DEFINE longer == a.blocks[id].text \o text
              block == [a.blocks[id] EXCEPT !.text = longer]
              b == Grow(a, id, text)
  <1>1. IsBlock(a.blocks[id])
    BY DEF Known, Live, Coherent, IsAssembler
  <1>2. /\ block.announced = a.blocks[id].announced /\ block.kind = a.blocks[id].kind
        /\ block.open = a.blocks[id].open /\ block.redacted = a.blocks[id].redacted
    <2>. HIDE DEF longer
    <2>. QED
      BY <1>1 DEF IsBlock
  <1>3. b = [a EXCEPT !.blocks[id] = block]
    BY DEF Grow
  <1>4. Coherent(b, exempt)
    BY GrowCoheres DEF Live
  <1>. HIDE DEF block, b
  <1>5. SameReading(a.blocks[id], block)
    BY <1>2 DEF SameReading, Readable
  <1>. QED
    BY <1>3, <1>4, <1>5, QuietBlock DEF b

\* text, reasoning and arguments: what the block holds and what the caller can
\* join grow alike.
LEMMA AppendToLives ==
    ASSUME NEW a, NEW exempt, Live(a, exempt), NEW id, NEW shape \in Shapes, NEW text
    PROVE  Live(AppendTo(a, id, shape, text), exempt)
  <1>1. CASE ~OpenAs(a, id, shape)
    BY <1>1 DEF AppendTo
  <1>2. ASSUME OpenAs(a, id, shape), shape = "Reasoning", a.blocks[id].redacted
        PROVE  Live(AppendTo(a, id, shape, text), exempt)
    <2>1. AppendTo(a, id, shape, text) = Grow(a, id, text)
      BY <1>2 DEF AppendTo
    <2>2. Known(a, id) /\ ~Readable(a.blocks[id])
      BY <1>2 DEF OpenAs, IsOpen, Fits, Readable
    <2>. QED
      BY <2>1, <2>2, GrowLives
  <1>3. ASSUME OpenAs(a, id, shape), ~(shape = "Reasoning" /\ a.blocks[id].redacted)
        PROVE  Live(AppendTo(a, id, shape, text), exempt)
    <2>. DEFINE longer == a.blocks[id].text \o text
                block == [a.blocks[id] EXCEPT !.text = longer]
                x == DeltaOf(id, shape, text)
                b == AppendTo(a, id, shape, text)
    <2>1. IsBlock(a.blocks[id]) /\ Known(a, id) /\ a.blocks[id].open
      BY <1>3 DEF OpenAs, IsOpen, Known, Live, Coherent, IsAssembler
    <2>2. /\ block.announced = a.blocks[id].announced /\ block.kind = a.blocks[id].kind
          /\ block.open = a.blocks[id].open /\ block.redacted = a.blocks[id].redacted
          /\ block.text = longer
      <3>. HIDE DEF longer
      <3>. QED
        BY <2>1 DEF IsBlock
    <2>3. /\ b.blocks = [a.blocks EXCEPT ![id] = block] /\ b.out = Append(a.out, x)
          /\ b.parts = a.parts
      BY <1>3 DEF AppendTo, Emit, Grow, Live, Coherent, IsAssembler
    <2>4. Coherent(b, exempt)
      BY AppendToCoheres DEF Live
    <2>5. x.type = "Delta" /\ x.id = id /\ x.text = text
      BY DEF DeltaOf
    <2>. HIDE DEF block, b, x, longer
    <2>6. /\ DOMAIN b.blocks = DOMAIN a.blocks
          /\ \A i \in DOMAIN a.blocks : b.blocks[i] = IF i = id THEN block ELSE a.blocks[i]
      BY <2>3
    <2>7. IsSeq(a.out)
      BY DEF Live, Coherent, Kept
    <2>8. \A i \in DOMAIN b.out : (i \in DOMAIN a.out /\ b.out[i] = a.out[i]) \/ b.out[i] = x
      BY <2>3, <2>7, AppendSeq, SeqFacts
    <2>9. PartsListed(b)
      <3>1. KeepsContract(b.out) => KeepsContract(a.out)
        BY <2>3, <2>7, ContractShrinks
      <3>2. ~(x.type = "BlockEnd")
        BY <2>5
      <3>3. PartsTold(b.out, DOMAIN a.blocks) = PartsTold(a.out, DOMAIN a.blocks)
        BY <2>3, <2>7, <3>2, PartsStay
      <3>. QED
        BY <2>3, <2>6, <3>1, <3>3 DEF Live, Honest, PartsListed
    <2>10. /\ Joined(b.out, id) = Joined(a.out, id) \o text
           /\ \A i : i # id => Joined(b.out, i) = Joined(a.out, i)
      BY <2>3, <2>5, <2>7, JoinedGrows
    <2>11. ASSUME TextsTold(a) PROVE TextsTold(b)
      <3>1. \A i \in DOMAIN b.out :
               b.out[i].type = "BlockEnd" => /\ i \in DOMAIN a.out /\ b.out[i] = a.out[i]
                                             /\ b.out[i].id # id
        BY <2>1, <2>5, <2>8, <2>11 DEF TextsTold
      <3>2. \A i \in DOMAIN b.out :
               b.out[i].type \in {"Delta", "BlockEnd"} => b.out[i].id \in DOMAIN b.blocks
        BY <2>1, <2>5, <2>6, <2>8, <2>11 DEF TextsTold, Known
      <3>3. DeltasTell(b.out)
        BY <2>10, <2>11, <3>1 DEF TextsTold, DeltasTell
      <3>4. \A i \in DOMAIN b.out : b.out[i].type = "BlockEnd" => ~b.blocks[b.out[i].id].open
        BY <2>6, <2>11, <3>1, <3>2 DEF TextsTold
      <3>5. ASSUME NEW i \in DOMAIN b.blocks, Readable(b.blocks[i])
            PROVE  b.blocks[i].text = Joined(b.out, i)
        <4>1. CASE i # id
          BY <2>6, <2>10, <2>11, <3>5, <4>1 DEF TextsTold
        <4>2. CASE i = id
          <5>1. Readable(a.blocks[id]) /\ id \in DOMAIN a.blocks
            BY <2>2, <2>6, <3>5, <4>2 DEF Readable
          <5>2. a.blocks[id].text = Joined(a.out, id)
            BY <2>11, <5>1 DEF TextsTold
          <5>. QED
            BY <2>2, <2>6, <2>10, <4>2, <5>1, <5>2 DEF longer
        <4>. QED
          BY <4>1, <4>2
      <3>. QED
        BY <3>2, <3>3, <3>4, <3>5 DEF TextsTold
    <2>12. Announces(codec) => Announced(b.blocks)
      BY <2>2, <2>6 DEF Live, Honest, Announced
    <2>. QED
      BY <2>4, <2>9, <2>11, <2>12 DEF Live, Honest, b
  <1>. QED
    BY <1>1, <1>2, <1>3

LEMMA LatchAnyKind ==
    ASSUME NEW a, NEW exempt, Live(a, exempt), NEW id
    PROVE  /\ Live(Latch(a, id, "Text"), exempt)
           /\ Live(Latch(a, id, "Reasoning"), exempt)
           /\ Live(Latch(a, id, "Opaque"), exempt)
           /\ (Announces(codec) => Known(a, id)) => Live(Latch(a, id, "NamelessCall"), exempt)
  <1>1. ASSUME NEW kind \in Kinds, Announces(codec) /\ IsCall(kind) => Known(a, id)
        PROVE  Live(Latch(a, id, kind), exempt)
    BY <1>1, LatchLives
  <1>2. /\ "Text" \in Kinds /\ "Reasoning" \in Kinds /\ "Opaque" \in Kinds
        /\ "NamelessCall" \in Kinds
        /\ ~IsCall("Text") /\ ~IsCall("Reasoning") /\ ~IsCall("Opaque")
    BY DEF Kinds, IsCall
  <1>. QED
    BY <1>1, <1>2

LEMMA FillingLives ==
    ASSUME NEW a, NEW exempt, Live(a, exempt), NEW id, NEW text
    PROVE  /\ Live(Text(a, id, text), exempt)
           /\ Live(Reasoning(a, id, text), exempt)
           /\ (Announces(codec) => Known(a, id)) => Live(Arguments(a, id, text), exempt)
  <1>1. /\ Live(Latch(a, id, "Text"), exempt) /\ Live(Latch(a, id, "Reasoning"), exempt)
        /\ (Announces(codec) => Known(a, id)) => Live(Latch(a, id, "NamelessCall"), exempt)
    BY LatchAnyKind
  <1>. QED
    BY <1>1, AppendToLives DEF Text, Reasoning, Arguments, Shapes

LEMMA MarkingLives ==
    ASSUME NEW a, NEW exempt, Live(a, exempt), NEW id, NEW data
    PROVE  /\ Live(Signature(a, id), exempt)
           /\ Live(SetRedacted(a, id), exempt)
           /\ Live(SetOpaqueData(a, id, data), exempt)
  <1>1. Live(Latch(a, id, "Reasoning"), exempt) /\ Live(Latch(a, id, "Opaque"), exempt)
    BY LatchAnyKind
  <1>2. Live(Signature(a, id), exempt) /\ Live(SetRedacted(a, id), exempt)
    BY <1>1, MarkLives DEF Signature, SetRedacted
  <1>. DEFINE b == Latch(a, id, "Opaque")
  <1>3. ASSUME OpenAs(b, id, "Opaque") PROVE Live(Mark(b, id, "text", data), exempt)
    <2>1. b.blocks[id].kind = "Opaque"
      BY <1>3 DEF OpenAs, Fits
    <2>. HIDE DEF b
    <2>. QED
      BY <1>1, <2>1, MarkLives DEF b
  <1>4. Live(SetOpaqueData(a, id, data), exempt)
    BY <1>1, <1>3 DEF SetOpaqueData
  <1>. QED
    BY <1>2, <1>4

\* Only Responses items are told whole and are discarded.
LEMMA RewriteLives ==
    ASSUME NEW a, NEW exempt, Live(a, exempt), codec = "responses", NEW id, Known(a, id), NEW whole
    PROVE  Live(Mark(a, id, "text", whole), exempt)
  <1>1. CASE ~IsOpen(a, id)
    BY <1>1 DEF Mark
  <1>2. CASE IsOpen(a, id)
    <2>. DEFINE block == [a.blocks[id] EXCEPT !.text = whole]
                b == Mark(a, id, "text", whole)
    <2>1. /\ b.out = a.out /\ b.parts = a.parts /\ b.blocks = [a.blocks EXCEPT ![id] = block]
      BY <1>2 DEF Mark, Live, Coherent, IsAssembler
    <2>2. Coherent(b, exempt)
      BY MarkCoheres DEF Live
    <2>. HIDE DEF b, block
    <2>3. PartsListed(b)
      BY <2>1 DEF Live, Honest, PartsListed
    <2>4. Honest(b)
      BY <2>3 DEF Honest, Announces
    <2>. QED
      BY <2>2, <2>4 DEF Live, b
  <1>. QED
    BY <1>1, <1>2

LEMMA ReconcileLives ==
    ASSUME NEW a, NEW exempt, Live(a, exempt), codec = "responses",
           NEW id, NEW kind \in Kinds, NEW whole
    PROVE  Live(Reconcile(a, id, kind, whole), exempt)
  <1>. DEFINE b == Latch(a, id, kind)
              text == b.blocks[id].text
              shape == ShapeOf(b.blocks[id].kind)
              tail == CHOOSE rest \in Missing(text, whole) : TRUE
  <1>1. Live(b, exempt) /\ Known(b, id)
    BY LatchLives DEF Announces
  <1>2. shape \in Shapes
    BY <1>1 DEF Live, Coherent, IsAssembler, IsBlock, Known, ShapeOf, IsCall, Kinds, Shapes
  <1>3. Live(Mark(b, id, "text", whole), exempt)
    <2>. HIDE DEF b
    <2>. QED
      BY <1>1, RewriteLives
  <1>4. Live(AppendTo(b, id, shape, tail), exempt)
    <2>. HIDE DEF b, shape, tail
    <2>. QED
      BY <1>1, <1>2, AppendToLives
  <1>5. Reconcile(a, id, kind, whole) \in {b, AppendTo(b, id, shape, tail), Mark(b, id, "text", whole)}
    BY DEF Reconcile
  <1>. QED
    <2>. HIDE DEF b, shape, tail
    <2>. QED
      BY <1>1, <1>3, <1>4, <1>5

\* The last of a list, put after what came before.
LEMMA ConcatOne ==
    ASSUME NEW s, IsSeq(s), NEW x
    PROVE  s \o <<x>> = Append(s, x)
  <1>. DEFINE T == Range(s) \cup {x}
  <1>1. s \in Seq(T) /\ x \in T
    BY SeqMonotonic DEF IsSeq
  <1>. HIDE DEF T
  <1>. QED
    BY <1>1, AppendIsConcat

\* A block ends with its part, which stays (end) or is forgotten (discard).
LEMMA EndLives ==
    ASSUME NEW a, NEW exempt, Live(a, exempt), NEW id
    PROVE  Live(End(a, id), exempt)
  <1>1. CASE ~IsOpen(a, id)
    BY <1>1 DEF End
  <1>2. CASE IsOpen(a, id)
    <2>. DEFINE b == End(a, id)
                x == BlockEndOf(a, id)
                part == PartOf(a.blocks[id])
                block == [a.blocks[id] EXCEPT !.open = FALSE]
    <2>1. a.blocks[id].open /\ IsBlock(a.blocks[id]) /\ id \in DOMAIN a.blocks
      BY <1>2 DEF IsOpen, Known, Live, Coherent, IsAssembler
    <2>2. x.type = "BlockEnd" /\ x.id = id /\ x.part = part
      BY DEF BlockEndOf
    <2>3. /\ block.announced = a.blocks[id].announced /\ block.kind = a.blocks[id].kind
          /\ block.text = a.blocks[id].text /\ block.redacted = a.blocks[id].redacted
          /\ ~block.open
      BY <2>1 DEF IsBlock
    <2>4. /\ b.blocks = [a.blocks EXCEPT ![id] = block] /\ b.out = Append(a.out, x)
          /\ b.parts = Append(a.parts, part)
      BY <1>2 DEF End, Live, Coherent, IsAssembler
    <2>5. IsReadable(part) <=> Readable(a.blocks[id])
      BY PartReadable
    <2>6. part.text = a.blocks[id].text
      BY DEF PartOf
    <2>. HIDE DEF b, x, block, part
    <2>7. /\ DOMAIN b.blocks = DOMAIN a.blocks
          /\ \A i \in DOMAIN a.blocks : b.blocks[i] = IF i = id THEN block ELSE a.blocks[i]
      BY <2>4
    <2>8. IsSeq(a.out) /\ IsSeq(a.parts)
      BY DEF Live, Coherent, Kept, Honest, PartsListed
    <2>9. \A i \in DOMAIN b.out : (i \in DOMAIN a.out /\ b.out[i] = a.out[i]) \/ b.out[i] = x
      BY <2>4, <2>8, AppendSeq, SeqFacts
    <2>10. PartsListed(b)
      <3>1. KeepsContract(b.out) => KeepsContract(a.out)
        BY <2>4, <2>8, ContractShrinks
      <3>2. PartsTold(b.out, DOMAIN a.blocks) = PartsTold(a.out, DOMAIN a.blocks) \o <<part>>
        BY <2>1, <2>2, <2>4, <2>8, PartsGrow
      <3>3. a.parts \o <<part>> = b.parts /\ IsSeq(b.parts)
        BY <2>4, <2>8, ConcatOne, AppendSeq
      <3>. QED
        BY <2>7, <3>1, <3>2, <3>3 DEF Live, Honest, PartsListed
    <2>11. \A i : Joined(b.out, i) = Joined(a.out, i)
      <3>1. ~(x.type = "Delta")
        BY <2>2
      <3>. QED
        BY <2>4, <2>8, <3>1, JoinedGrows
    <2>12. ASSUME TextsTold(a) PROVE TextsTold(b)
      <3>1. \A i \in DOMAIN b.out :
               b.out[i].type \in {"Delta", "BlockEnd"} => b.out[i].id \in DOMAIN b.blocks
        BY <2>1, <2>2, <2>7, <2>9, <2>12 DEF TextsTold
      <3>2. \A i \in DOMAIN b.out : b.out[i].type = "BlockEnd" => ~b.blocks[b.out[i].id].open
        BY <2>1, <2>2, <2>3, <2>7, <2>9, <2>12 DEF TextsTold
      <3>3. \A i \in DOMAIN b.blocks : Readable(b.blocks[i]) => b.blocks[i].text = Joined(b.out, i)
        BY <2>3, <2>7, <2>11, <2>12 DEF TextsTold, Readable
      <3>4. DeltasTell(b.out)
        <4>1. Readable(a.blocks[id]) => a.blocks[id].text = Joined(a.out, id)
          BY <2>1, <2>12 DEF TextsTold
        <4>. QED
          BY <2>2, <2>5, <2>6, <2>9, <2>11, <2>12, <4>1 DEF TextsTold, DeltasTell
      <3>. QED
        BY <3>1, <3>2, <3>3, <3>4 DEF TextsTold
    <2>13. Announces(codec) => Announced(b.blocks)
      BY <2>3, <2>7 DEF Live, Honest, Announced
    <2>14. Coherent(b, exempt)
      BY EndCoheres DEF Live, b
    <2>. QED
      BY <2>10, <2>12, <2>13, <2>14 DEF Live, Honest, b
  <1>. QED
    BY <1>1, <1>2

LEMMA DiscardLives ==
    ASSUME NEW a, NEW exempt, Live(a, exempt), codec = "responses", NEW id \in exempt
    PROVE  Live(Discard(a, id), exempt)
  <1>1. CASE ~IsOpen(a, id)
    BY <1>1 DEF Discard
  <1>2. CASE IsOpen(a, id)
    <2>. DEFINE b == Discard(a, id)
                x == BlockEndOf(a, id)
    <2>1. x.type = "BlockEnd" /\ x.id = id
      BY DEF BlockEndOf
    <2>2. /\ DOMAIN b.blocks = DOMAIN a.blocks \ {id} /\ b.out = Append(a.out, x)
          /\ b.parts = a.parts
      BY <1>2 DEF Discard, Live, Coherent, IsAssembler
    <2>. HIDE DEF b, x
    <2>3. IsSeq(a.out)
      BY DEF Live, Coherent, Kept
    <2>4. PartsListed(b)
      <3>. SUFFICES ASSUME KeepsContract(b.out)
                    PROVE  PartsTold(b.out, DOMAIN b.blocks) = a.parts
        BY <2>2 DEF Live, Honest, PartsListed
      <3>1. KeepsContract(a.out) /\ MayFollow(a.out, x)
        BY <2>2, <2>3, ContractShrinks
      <3>2. id \notin Ids("BlockEnd", a.out)
        BY <2>1, <3>1 DEF MayFollow, OpenBlocks
      <3>3. PartsTold(a.out, DOMAIN b.blocks) = PartsTold(a.out, DOMAIN a.blocks)
        BY <2>2, <2>3, <3>2, PartsAgree DEF Ids
      <3>4. PartsTold(b.out, DOMAIN b.blocks) = PartsTold(a.out, DOMAIN b.blocks)
        <4>1. ~(x.type = "BlockEnd" /\ x.id \in DOMAIN b.blocks)
          BY <2>1, <2>2
        <4>. QED
          BY <2>2, <2>3, <4>1, PartsStay
      <3>. QED
        BY <3>1, <3>3, <3>4 DEF Live, Honest, PartsListed
    <2>5. Honest(b)
      BY <2>4 DEF Honest, Announces
    <2>6. Coherent(b, exempt)
      BY DiscardCoheres DEF Live, b
    <2>. QED
      BY <2>5, <2>6 DEF Live, b
  <1>. QED
    BY <1>1, <1>2

----------------------------------------------------------------------------
(***************************************************************************)
(* What complete appends tells the rest of the parts.                      *)
(***************************************************************************)

LEMMA NothingMore ==
    ASSUME NEW n \in Nat, NEW k \in Nat, NEW pieces, \A i \in 1..k : n + i \notin DOMAIN pieces
    PROVE  Gathered(n + k, pieces) = Gathered(n, pieces)
  <1>. DEFINE Bad == {i \in 0..k : Gathered(n + i, pieces) # Gathered(n, pieces)}
  <1>. SUFFICES ASSUME Bad # {} PROVE FALSE
    <2>1. k \in 0..k
      OBVIOUS
    <2>. QED
      BY <2>1
  <1>0. Bad \in SUBSET Nat
    OBVIOUS
  <1>1. PICK i \in Bad : \A j \in Bad : i <= j
    BY <1>0, LeastNumber
  <1>2. n + 0 = n
    OBVIOUS
  <1>3. i # 0 /\ i \in 0..k
    BY <1>2
  <1>4. i - 1 \in 0..k /\ i - 1 \notin Bad /\ i \in 1..k /\ n + (i - 1) \in Nat
        /\ (n + (i - 1)) + 1 = n + i
    BY <1>1, <1>3
  <1>5. Gathered((n + (i - 1)) + 1, pieces) = Gathered(n + (i - 1), pieces)
    BY <1>4, GatheredGoesOn
  <1>. QED
    BY <1>4, <1>5

\* A list that grows by one of the values of f at each of m positions.
OneMoreOf(f, s, j) ==
    (s \o [k \in 1..(j - 1) |-> f[k]]) \o <<f[j]>> = s \o [k \in 1..j |-> f[k]]

LEMMA EachInTurn ==
    ASSUME NEW s, IsSeq(s), NEW m \in Nat, NEW f, NEW j \in 1..m
    PROVE  OneMoreOf(f, s, j)
  <1>. DEFINE T == Range(s) \cup {f[k] : k \in 1..m}
              t == [k \in 1..(j - 1) |-> f[k]]
              u == [k \in 1..j |-> f[k]]
              one == <<f[j]>>
  <1>1. s \in Seq(T)
    BY SeqMonotonic DEF IsSeq
  <1>2. \A k \in 1..m : f[k] \in T
    OBVIOUS
  <1>. HIDE DEF T
  <1>3. j - 1 \in Nat /\ j \in Nat /\ 1..(j - 1) \subseteq 1..m /\ 1..j \subseteq 1..m
    OBVIOUS
  <1>4. t \in [1..(j - 1) -> T] /\ u \in [1..j -> T]
    BY <1>2, <1>3
  <1>5. /\ t \in Seq(T) /\ Len(t) = j - 1 /\ \A k \in 1..(j - 1) : t[k] = f[k]
        /\ u \in Seq(T) /\ Len(u) = j /\ \A k \in 1..j : u[k] = f[k]
        /\ one \in Seq(T) /\ Len(one) = 1 /\ one[1] = f[j]
    BY <1>2, <1>3, <1>4
  <1>. HIDE DEF t, u, one
  <1>. DEFINE n == Len(s)
  <1>6. n \in Nat
    BY <1>1
  <1>7. /\ s \o t \in Seq(T) /\ Len(s \o t) = n + (j - 1)
        /\ \A i \in 1..(n + (j - 1)) : (s \o t)[i] = IF i <= n THEN s[i] ELSE t[i - n]
    <2>1. /\ s \o t \in Seq(T) /\ Len(s \o t) = Len(s) + Len(t)
          /\ \A i \in 1..(Len(s) + Len(t)) : (s \o t)[i] = IF i <= Len(s) THEN s[i] ELSE t[i - Len(s)]
      BY <1>1, <1>5, ConcatProperties
    <2>. QED
      BY <1>5, <2>1
  <1>8. /\ s \o u \in Seq(T) /\ Len(s \o u) = n + j
        /\ \A i \in 1..(n + j) : (s \o u)[i] = IF i <= n THEN s[i] ELSE u[i - n]
    BY <1>1, <1>5, ConcatProperties
  <1>9. /\ (s \o t) \o one \in Seq(T) /\ Len((s \o t) \o one) = (n + (j - 1)) + 1
        /\ \A i \in 1..((n + (j - 1)) + 1) :
              ((s \o t) \o one)[i] = IF i <= n + (j - 1) THEN (s \o t)[i] ELSE one[i - (n + (j - 1))]
    <2>. DEFINE st == s \o t
    <2>1. st \in Seq(T) /\ Len(st) = n + (j - 1)
      BY <1>7
    <2>. HIDE DEF st
    <2>2. /\ st \o one \in Seq(T) /\ Len(st \o one) = Len(st) + Len(one)
          /\ \A i \in 1..(Len(st) + Len(one)) :
                (st \o one)[i] = IF i <= Len(st) THEN st[i] ELSE one[i - Len(st)]
      BY <1>5, <2>1, ConcatProperties
    <2>3. /\ st \o one \in Seq(T) /\ Len(st \o one) = (n + (j - 1)) + 1
          /\ \A i \in 1..((n + (j - 1)) + 1) :
                (st \o one)[i] = IF i <= n + (j - 1) THEN st[i] ELSE one[i - (n + (j - 1))]
      BY <1>5, <2>1, <2>2
    <2>. QED
      BY <2>3 DEF st
  <1>. HIDE DEF n
  <1>10. (n + (j - 1)) + 1 = n + j
    BY <1>6
  <1>11. ASSUME NEW i \in 1..(n + j) PROVE ((s \o t) \o one)[i] = (s \o u)[i]
    <2>1. CASE i = n + j
      <3>1. ~(i <= n + (j - 1)) /\ i - (n + (j - 1)) = 1 /\ ~(i <= n) /\ i - n = j /\ j \in 1..j
        BY <1>6, <2>1
      <3>. QED
        BY <1>5, <1>8, <1>9, <1>10, <3>1
    <2>2. CASE i # n + j
      <3>1. i <= n + (j - 1) /\ i \in 1..(n + (j - 1))
            /\ (~(i <= n) => i - n \in 1..(j - 1) /\ i - n \in 1..j)
        BY <1>6, <2>2
      <3>2. ((s \o t) \o one)[i] = (s \o t)[i]
        BY <1>9, <1>10, <3>1
      <3>3. (s \o t)[i] = IF i <= n THEN s[i] ELSE t[i - n]
        BY <1>7, <3>1
      <3>4. (s \o u)[i] = IF i <= n THEN s[i] ELSE u[i - n]
        BY <1>8
      <3>5. ~(i <= n) => t[i - n] = u[i - n]
        BY <1>5, <3>1
      <3>. QED
        BY <3>2, <3>3, <3>4, <3>5, Zenon
    <2>. QED
      BY <2>1, <2>2
  <1>12. (s \o t) \o one = s \o u
    BY <1>8, <1>9, <1>10, <1>11, SeqEqual
  <1>. QED
    BY <1>12, Zenon DEF OneMoreOf, t, u, one

FirstOf(f, m) == [k \in 1..m |-> f[k]]

OneAtEach(f, n, m, pieces) ==
    \A k \in 1..m : n + k \in DOMAIN pieces /\ pieces[n + k] = <<f[k]>>

LEMMA OneByOne ==
    ASSUME NEW n \in Nat, NEW m \in Nat, NEW f, NEW pieces, IsSeq(Gathered(n, pieces)),
           OneAtEach(f, n, m, pieces)
    PROVE  Gathered(n + m, pieces) = Gathered(n, pieces) \o FirstOf(f, m)
  <1>. DEFINE s == Gathered(n, pieces)
  <1>. SUFFICES Gathered(n + m, pieces) = s \o FirstOf(f, m)
    OBVIOUS
  <1>a. IsSeq(s) /\ s = Gathered(n, pieces)
    OBVIOUS
  <1>. HIDE DEF s
  <1>. DEFINE Bad == {j \in 0..m : Gathered(n + j, pieces) # s \o [k \in 1..j |-> f[k]]}
  <1>. SUFFICES ASSUME Bad # {} PROVE FALSE
    <2>1. m \in 0..m
      OBVIOUS
    <2>. QED
      BY <2>1 DEF FirstOf
  <1>0. Bad \in SUBSET Nat
    OBVIOUS
  <1>1. PICK j \in Bad : \A i \in Bad : j <= i
    BY <1>0, LeastNumber
  <1>2. j # 0
    <2>1. n + 0 = n /\ [k \in 1..0 |-> f[k]] = <<>>
      OBVIOUS
    <2>2. s \o <<>> = s
      BY <1>a DEF IsSeq
    <2>. QED
      BY <1>a, <2>1, <2>2
  <1>3. j - 1 \in 0..m /\ j \in 1..m /\ n + (j - 1) \in Nat /\ (n + (j - 1)) + 1 = n + j
        /\ ~(j <= j - 1)
    <2>. HIDE DEF Bad
    <2>1. j \in 0..m
      BY DEF Bad
    <2>. QED
      BY <1>2, <2>1
  <1>7. j - 1 \notin Bad
    <2>. HIDE DEF Bad
    <2>. QED
      BY <1>1, <1>3
  <1>4. Gathered((n + (j - 1)) + 1, pieces) = Gathered(n + (j - 1), pieces) \o <<f[j]>>
    BY <1>3, GatheredGoesOn DEF OneAtEach
  <1>5. Gathered(n + (j - 1), pieces) = s \o [k \in 1..(j - 1) |-> f[k]]
    BY <1>3, <1>7
  <1>6. Gathered(n + j, pieces) = s \o [k \in 1..j |-> f[k]]
    <2>1. (s \o [k \in 1..(j - 1) |-> f[k]]) \o <<f[j]>> = s \o [k \in 1..j |-> f[k]]
      <3>1. j \in 1..m
        BY <1>3
      <3>. HIDE DEF Bad
      <3>. QED
        <4>1. OneMoreOf(f, s, j)
          BY <1>a, <3>1, EachInTurn, Zenon
        <4>. QED
          BY <4>1, Zenon DEF OneMoreOf
    <2>. QED
      BY <1>3, <1>4, <1>5, <2>1, Zenon
  <1>. QED
    BY <1>6

\* What a stream has told of its response, be it over or not.
Tells(a) ==
    /\ codec # "responses" => DeltasTell(a.out)
    /\ a.out # <<>> /\ Last(a.out).type = "Ended" /\ KeepsContract(a.out) =>
          Last(a.out).content = Answerable(PartsTold(a.out, DOMAIN a.blocks), Last(a.out).finish)
    /\ Announces(codec) => Announced(a.blocks)

LEMMA LastItem ==
    ASSUME NEW h, IsSeq(h), h # <<>>
    PROVE  Last(h) = h[Len(h)] /\ Len(h) \in DOMAIN h
  <1>1. h \in Seq(Range(h))
    BY DEF IsSeq
  <1>. QED
    BY <1>1 DEF Last

LEMMA LiveTells ==
    ASSUME NEW a, NEW exempt, Live(a, exempt)
    PROVE  Tells(a)
  <1>1. a.out # <<>> => Last(a.out).type # "Ended"
    BY LastItem DEF Live, Coherent, Kept, Unended, IsTerminal
  <1>. QED
    BY <1>1 DEF Tells, Live, Honest, TextsTold

LEMMA ErrorTells ==
    ASSUME NEW a, NEW exempt, Live(a, exempt), NEW e
    PROVE  Tells(Emit(a, Err(e)))
  <1>. DEFINE x == Err(e)
              b == Emit(a, x)
  <1>1. b.out = Append(a.out, x) /\ b.blocks = a.blocks
    BY DEF Emit, Live, Coherent, IsAssembler
  <1>2. x.type = "Err"
    BY DEF Err
  <1>3. IsSeq(a.out)
    BY DEF Live, Coherent, Kept
  <1>. HIDE DEF b, x
  <1>4. IsSeq(b.out) /\ Last(b.out) = x
    <2>1. IsSeq(b.out) /\ DOMAIN b.out = 1..(Len(a.out) + 1) /\ b.out[Len(a.out) + 1] = x
      BY <1>1, <1>3, AppendSeq
    <2>2. Len(a.out) \in Nat
      BY <1>3, SeqFacts
    <2>3. DOMAIN b.out = 1..Len(b.out) /\ Len(b.out) \in Nat
      BY <2>1, SeqFacts
    <2>4. Len(b.out) = Len(a.out) + 1 /\ b.out # <<>>
      BY <2>1, <2>2, <2>3
    <2>. QED
      BY <2>1, <2>4, LastItem
  <1>5. \A i \in DOMAIN b.out : b.out[i].type = "BlockEnd" => i \in DOMAIN a.out /\ b.out[i] = a.out[i]
    BY <1>1, <1>2, <1>3, AppendSeq, SeqFacts
  <1>6. \A id : Joined(b.out, id) = Joined(a.out, id)
    <2>1. ~(x.type = "Delta")
      BY <1>2
    <2>. QED
      BY <1>1, <1>3, <2>1, JoinedGrows
  <1>7. DeltasTell(a.out) => DeltasTell(b.out)
    BY <1>5, <1>6 DEF DeltasTell
  <1>. QED
    BY <1>1, <1>2, <1>4, <1>7 DEF Tells, Live, Honest, TextsTold, b, x

\* What holds of a history holds of its beginnings.
LEMMA BeginningKeeps ==
    ASSUME NEW h, IsSeq(h), NEW s, IsSeq(s), Len(h) \in 0..Len(s),
           \A i \in 1..Len(h) : s[i] = h[i], KeepsContract(s)
    PROVE  KeepsContract(h)
  <1>. DEFINE n == Len(h)
  <1>1. n \in Nat /\ Len(s) \in Nat /\ n <= Len(s) /\ h \in Seq(Range(h)) /\ s \in Seq(Range(s))
    BY SeqFacts DEF IsSeq
  <1>. SUFFICES ASSUME NEW i \in 1..n PROVE MayFollow(SubSeq(h, 1, i - 1), h[i])
    BY DEF KeepsContract
  <1>. DEFINE before == SubSeq(h, 1, i - 1)
              same == SubSeq(s, 1, i - 1)
  <1>2. i - 1 \in 0..Len(h) /\ i - 1 \in 0..Len(s) /\ i \in 1..Len(s) /\ 1..(i - 1) \subseteq 1..n
    BY <1>1
  <1>3. before \in Seq(Range(h)) /\ Len(before) = i - 1 /\ \A j \in 1..(i - 1) : before[j] = h[j]
    BY <1>1, <1>2
  <1>4. same \in Seq(Range(s)) /\ Len(same) = i - 1 /\ \A j \in 1..(i - 1) : same[j] = s[j]
    BY <1>1, <1>2
  <1>. HIDE DEF before, same
  <1>5. before = same
    BY <1>2, <1>3, <1>4, SeqEqual
  <1>6. MayFollow(same, s[i])
    BY <1>2 DEF KeepsContract, same
  <1>. QED
    BY <1>2, <1>5, <1>6 DEF before

\* The caller has heard all of a response that is complete.
LEMMA CompleteTells ==
    ASSUME NEW a, NEW exempt, Live(a, exempt)
    PROVE  Tells(Complete(a))
  <1>. DEFINE h == a.out
              n == Len(h)
              m == Len(a.opened)
              c == Complete(a)
              new == c.out
              BlockAt(k) == a.blocks[a.opened[k]]
              last == [type |-> "Ended", finish |-> Reason(a),
                       content |-> Answerable(AllParts(a), Reason(a))]
  <1>1. /\ CompletedOut(a, new)
        /\ c.blocks = [id \in DOMAIN a.blocks |-> [a.blocks[id] EXCEPT !.open = FALSE]]
    BY CompleteAppends DEF Live
  <1>2. n \in Nat /\ m \in Nat /\ DOMAIN h = 1..n /\ DOMAIN a.opened = 1..m /\ IsSeq(h)
    BY SeqFacts DEF Live, Coherent, IsAssembler, Kept
  <1>3. last.type = "Ended" /\ last.finish = Reason(a)
        /\ last.content = Answerable(AllParts(a), Reason(a))
    OBVIOUS
  <1>4. /\ IsSeq(new) /\ Len(new) = n + m + 1 /\ DOMAIN new = 1..(n + m + 1)
        /\ \A i \in 1..n : new[i] = h[i]
        /\ new[n + m + 1] = last
    BY <1>1 DEF CompletedOut
  <1>5. \A k \in 1..m : /\ new[n + k].type = "BlockEnd" /\ new[n + k].id = a.opened[k]
                        /\ new[n + k].part = PartOf(BlockAt(k))
    <2>1. \A k \in 1..m : new[n + k] = BlockEndOf(a, a.opened[k])
      BY <1>1 DEF CompletedOut
    <2>. HIDE DEF new, n, m
    <2>. SUFFICES ASSUME NEW k \in 1..m
                  PROVE  /\ new[n + k].type = "BlockEnd" /\ new[n + k].id = a.opened[k]
                         /\ new[n + k].part = PartOf(BlockAt(k))
      OBVIOUS
    <2>2. new[n + k] = BlockEndOf(a, a.opened[k])
      BY <2>1
    <2>. QED
      BY <2>2 DEF BlockEndOf
  <1>6. \A k \in 1..m : a.opened[k] \in DOMAIN a.blocks
    <2>1. \A k \in 1..m : a.opened[k] \in Range(a.opened)
      BY <1>2 DEF Range
    <2>. QED
      BY <2>1 DEF Live, Coherent, ListsOpened, Opened
  <1>7. /\ DOMAIN c.blocks = DOMAIN a.blocks
        /\ \A id \in DOMAIN a.blocks : /\ c.blocks[id].kind = a.blocks[id].kind
                                       /\ c.blocks[id].announced = a.blocks[id].announced
    <2>1. \A id \in DOMAIN a.blocks : IsBlock(a.blocks[id])
      BY DEF Live, Coherent, IsAssembler
    <2>2. \A id \in DOMAIN a.blocks : c.blocks[id] = [a.blocks[id] EXCEPT !.open = FALSE]
      BY <1>1
    <2>. HIDE DEF c
    <2>. QED
      BY <1>1, <2>1, <2>2 DEF IsBlock
  <1>. HIDE DEF last, c, new, n, m, h
  <1>8. \A i \in 1..(n + m + 1) : i \in 1..n \/ (\E k \in 1..m : i = n + k) \/ i = n + m + 1
    <2>. SUFFICES ASSUME NEW i \in 1..(n + m + 1), i \notin 1..n, i # n + m + 1
                  PROVE  \E k \in 1..m : i = n + k
      OBVIOUS
    <2>1. i - n \in 1..m /\ i = n + (i - n)
      BY <1>2
    <2>. QED
      BY <2>1
  <1>9. n + m + 1 \in Nat /\ n + m \in Nat /\ (n + m) + 1 = n + m + 1
        /\ (\A k \in 1..(m + 1) : n + k \in 1..(n + m + 1)) /\ m + 1 \in Nat
        /\ n + (m + 1) = n + m + 1 /\ \A i \in 1..n : i \in 1..(n + m + 1)
    BY <1>2
  <1>10. ASSUME NEW id PROVE Joined(new, id) = Joined(h, id)
    <2>. DEFINE p == [i \in DeltasOf(h, id) |-> h[i].text]
                q == [i \in DeltasOf(new, id) |-> new[i].text]
    <2>1. \A i \in 1..n : (i \in DOMAIN p <=> i \in DOMAIN q) /\ (i \in DOMAIN p => p[i] = q[i])
      BY <1>2, <1>4, <1>9 DEF DeltasOf
    <2>2. \A k \in 1..(m + 1) : n + k \notin DOMAIN q
      <3>. SUFFICES ASSUME NEW k \in 1..(m + 1) PROVE new[n + k].type # "Delta"
        BY DEF DeltasOf
      <3>1. k \in 1..m \/ n + k = n + m + 1
        BY <1>2
      <3>. QED
        BY <1>3, <1>4, <1>5, <3>1
    <2>3. Joined(h, id) = Gathered(n, p) /\ Joined(new, id) = Gathered(n + (m + 1), q)
      BY <1>4, <1>9 DEF Joined, n
    <2>. HIDE DEF p, q
    <2>. QED
      <3>1. Gathered(n, p) = Gathered(n, q)
        BY <1>2, <2>1, GatheredAgrees
      <3>2. Gathered(n + (m + 1), q) = Gathered(n, q)
        BY <1>2, <1>9, <2>2, NothingMore
      <3>. QED
        BY <2>3, <3>1, <3>2
  <1>11. codec # "responses" => DeltasTell(new)
    <2>. SUFFICES ASSUME TextsTold(a), NEW i \in 1..(n + m + 1), new[i].type = "BlockEnd",
                         IsReadable(new[i].part)
                  PROVE  new[i].part.text = Joined(new, new[i].id)
      BY <1>4 DEF DeltasTell, Live, Honest
    <2>1. CASE i \in 1..n
      <3>1. DeltasTell(h) /\ i \in DOMAIN h /\ new[i] = h[i]
        BY <1>2, <1>4, <2>1 DEF TextsTold, h
      <3>. QED
        BY <1>10, <3>1 DEF DeltasTell
    <2>2. ASSUME NEW k \in 1..m, i = n + k
          PROVE  new[i].part.text = Joined(new, new[i].id)
      <3>1. Readable(BlockAt(k)) /\ new[i].part.text = BlockAt(k).text
        <4>1. new[i].part = PartOf(BlockAt(k))
          BY <1>5, <2>2
        <4>. HIDE DEF BlockAt
        <4>. QED
          BY <2>2, <4>1, PartReadable DEF PartOf
      <3>2. BlockAt(k).text = Joined(h, a.opened[k])
        BY <1>6, <2>2, <3>1 DEF TextsTold, h
      <3>. QED
        BY <1>5, <1>10, <2>2, <3>1, <3>2
    <2>. QED
      BY <1>3, <1>4, <1>8, <2>1, <2>2
  <1>12. ASSUME KeepsContract(new)
         PROVE  PartsTold(new, DOMAIN a.blocks) = AllParts(a)
    <2>. DEFINE ids == DOMAIN a.blocks
                EndsOf(s) == {j \in DOMAIN s : s[j].type = "BlockEnd" /\ s[j].id \in ids}
                p == [i \in EndsOf(h) |-> <<h[i].part>>]
                q == [i \in EndsOf(new) |-> <<new[i].part>>]
                f == [k \in 1..m |-> PartOf(BlockAt(k))]
    <2>1. \A i \in 1..n : (i \in DOMAIN p <=> i \in DOMAIN q) /\ (i \in DOMAIN p => p[i] = q[i])
      BY <1>2, <1>4, <1>9
    <2>2. \A k \in 1..m : n + k \in DOMAIN q /\ q[n + k] = <<f[k]>>
      <3>. SUFFICES ASSUME NEW k \in 1..m PROVE n + k \in DOMAIN q /\ q[n + k] = <<f[k]>>
        OBVIOUS
      <3>1. n + k \in DOMAIN new
        BY <1>2, <1>4, <1>9
      <3>2. n + k \in EndsOf(new)
        BY <1>5, <1>6, <3>1
      <3>3. q[n + k] = <<new[n + k].part>>
        BY <3>2
      <3>4. new[n + k].part = f[k]
        BY <1>5
      <3>. QED
        BY <3>2, <3>3, <3>4
    <2>3. (n + m) + 1 \notin DOMAIN q
      BY <1>3, <1>4, <1>9
    <2>4. PartsTold(h, ids) = Gathered(n, p) /\ PartsTold(new, ids) = Gathered((n + m) + 1, q)
      BY <1>4, <1>9 DEF PartsTold, n
    <2>5. PartsTold(h, ids) = a.parts /\ IsSeq(a.parts)
      <3>1. n \in 0..(n + m + 1)
        BY <1>2
      <3>2. KeepsContract(h)
        BY <1>2, <1>4, <1>12, <3>1, BeginningKeeps DEF n
      <3>. QED
        BY <3>2 DEF Live, Honest, PartsListed, h
    <2>6. AllParts(a) = a.parts \o [k \in 1..m |-> f[k]]
      BY DEF AllParts, m
    <2>. HIDE DEF p, q, f
    <2>7. Gathered(n, q) = a.parts
      BY <1>2, <2>1, <2>4, <2>5, GatheredAgrees
    <2>8. Gathered(n + m, q) = a.parts \o [k \in 1..m |-> f[k]]
      <3>1. IsSeq(a.parts) /\ n \in Nat /\ m \in Nat
        BY <1>2, <2>5
      <3>. QED
        <4>1. OneAtEach(f, n, m, q)
          BY <2>2 DEF OneAtEach
        <4>2. IsSeq(Gathered(n, q))
          BY <2>7, <3>1
        <4>3. Gathered(n + m, q) = Gathered(n, q) \o FirstOf(f, m)
          BY <3>1, <4>1, <4>2, OneByOne
        <4>4. Gathered(n + m, q) = a.parts \o FirstOf(f, m)
          BY <2>7, <4>3
        <4>. QED
          BY <4>4 DEF FirstOf
    <2>9. Gathered((n + m) + 1, q) = Gathered(n + m, q)
      BY <1>9, <2>3, GatheredGoesOn
    <2>. QED
      BY <2>4, <2>6, <2>8, <2>9
  <1>13. Last(new) = last
    <2>1. new # <<>>
      BY <1>4, <1>9
    <2>. QED
      BY <1>4, <2>1, LastItem
  <1>14. Announces(codec) => Announced(c.blocks)
    BY <1>7 DEF Live, Honest, Announced
  <1>15. KeepsContract(c.out) =>
            Last(c.out).content = Answerable(PartsTold(c.out, DOMAIN c.blocks), Last(c.out).finish)
    BY <1>3, <1>7, <1>12, <1>13 DEF new
  <1>. QED
    BY <1>11, <1>14, <1>15 DEF Tells, new, c

----------------------------------------------------------------------------
(***************************************************************************)
(* The steps of the decoders.                                              *)
(***************************************************************************)

\* What a decoder may hand to its driver: a stream that goes on, or has ended well.
Fine(a, exempt) == Live(a, exempt) \/ (Kept(a.out, exempt) /\ a.completed = TRUE /\ Tells(a))

OwnIsSound ==
    codec = "responses" =>
        own = [delivered |-> own.delivered, entries |-> own.entries, skipped |-> own.skipped]

DecoderInv ==
    /\ OwnIsSound
    /\ Kept(asm.out, Skipped) /\ Tells(asm)
    /\ ~over => Live(asm, Skipped)

LEMMA CompleteIsFine ==
    ASSUME NEW a, NEW exempt, Live(a, exempt)
    PROVE  Fine(Complete(a), exempt)
  BY CompleteKeeps, CompleteTells DEF Fine, Live

\* What an event says besides its content.
LEMMA BesidesLives ==
    ASSUME NEW a, NEW exempt, Live(a, exempt), NEW x
    PROVE  Live(Reported(a, x), exempt) /\ Live(Counted(a, x), exempt)
  <1>1. Live(SetFinish(a, x), exempt) /\ Live(Usage(a), exempt)
    BY SetFinishLives, UsageLives
  <1>. QED
    BY <1>1 DEF Reported, Counted

LEMMA DecodeKeeps ==
    ASSUME NEW a, NEW o, Decode(a, o), Fine(a, Skipped'), OwnIsSound'
    PROVE  DecoderInv'
  <1>1. asm' = a /\ codec' = codec /\ over' = a.completed
    BY DEF Decode
  <1>2. Kept(a.out, Skipped') /\ Tells(a)
    BY LiveTells DEF Fine, Live, Coherent
  <1>3. ~over' => Live(a, Skipped')
    BY <1>1 DEF Fine
  <1>4. Tells(asm)' /\ (~over' => Live(asm, Skipped)')
    BY <1>1, <1>2, <1>3 DEF Tells, Live, Honest
  <1>. QED
    BY <1>1, <1>2, <1>4 DEF DecoderInv

\* A step that leaves the decoder's own fields alone.
LEMMA SameOwn ==
    ASSUME own' = own, codec' = codec, OwnIsSound
    PROVE  Skipped' = Skipped /\ OwnIsSound'
  BY DEF Skipped, OwnIsSound

LEMMA OtherCodec ==
    ASSUME codec # "responses", codec' = codec
    PROVE  Skipped = {} /\ Skipped' = {} /\ OwnIsSound'
  BY DEF Skipped, OwnIsSound

LEMMA DecodeElsewhere ==
    ASSUME NEW a, NEW o, Decode(a, o), codec # "responses", Fine(a, {})
    PROVE  DecoderInv'
  <1>1. Skipped' = {} /\ OwnIsSound'
    BY OtherCodec DEF Decode
  <1>. QED
    BY <1>1, DecodeKeeps

\* The driver hands out what a has appended, and stops.
LEMMA LastBatch ==
    ASSUME NEW a, asm' = a, over' = TRUE, codec' = codec, Skipped' = Skipped, OwnIsSound',
           Kept(a.out, Skipped), Tells(a)
    PROVE  DecoderInv'
  BY DEF DecoderInv, Tells

LEMMA FailKeeps ==
    ASSUME DecoderInv, ~over, Fail
    PROVE  DecoderInv'
  <1>1. Kept(Emit(asm, Err("Decode")).out, Skipped) /\ Tells(Emit(asm, Err("Decode")))
    BY ErrorKeeps, ErrorTells DEF DecoderInv, Live
  <1>2. Skipped' = Skipped /\ OwnIsSound'
    BY SameOwn DEF Fail, DecoderInv
  <1>. QED
    BY <1>1, <1>2, LastBatch DEF Fail

LEMMA BrokenKeeps ==
    ASSUME DecoderInv, Broken
    PROVE  DecoderInv'
  <1>1. Kept(Emit(asm, Err("Transport")).out, Skipped) /\ Tells(Emit(asm, Err("Transport")))
    BY ErrorKeeps, ErrorTells DEF DecoderInv, Broken, Live
  <1>2. Skipped' = Skipped /\ OwnIsSound'
    BY SameOwn DEF Broken, DecoderInv
  <1>. QED
    BY <1>1, <1>2, LastBatch DEF Broken

LEMMA FinishKeeps ==
    ASSUME DecoderInv, NEW a, Finish(a), Fine(a, Skipped)
    PROVE  DecoderInv'
  <1>1. Skipped' = Skipped /\ OwnIsSound'
    BY SameOwn DEF Finish, DecoderInv
  <1>2. Kept(a.out, Skipped) /\ Tells(a)
    BY LiveTells DEF Fine, Live, Coherent
  <1>. QED
    BY <1>1, <1>2, LastBatch DEF Finish

\* The state in which codec c may read an event.
LEMMA MayRead ==
    ASSUME NEW c, NEW protocol, NEW e \in Upcoming(c, protocol)
    PROVE  codec = c /\ ~over
  BY DEF Upcoming

----------------------------------------------------------------------------
(* Anthropic *)

LEMMA SeedLives ==
    ASSUME NEW a, NEW exempt, Live(a, exempt), NEW id, NEW shape, NEW seed
    PROVE  Live(Seed(a, id, shape, seed), exempt)
  BY FillingLives DEF Seed

\* Only opaque blocks take what their input parses to.
LEMMA FlushLives ==
    ASSUME NEW a, NEW exempt, Live(a, exempt), NEW parsing
    PROVE  Live(Flush(a, parsing), exempt)
  <1>. DEFINE b == Flush(a, parsing)
              Refilled(id) == [a.blocks[id] EXCEPT !.text = own.opaque[id]]
  <1>1. /\ b.out = a.out /\ b.opened = a.opened /\ b.started = a.started
        /\ b.completed = a.completed
        /\ b = [blocks |-> b.blocks, opened |-> b.opened, parts |-> b.parts, finish |-> b.finish,
                started |-> b.started, completed |-> b.completed, out |-> b.out]
        /\ b.blocks = [id \in DOMAIN a.blocks |->
                          IF id \in parsing /\ OpenAs(a, id, "Opaque") THEN Refilled(id)
                          ELSE a.blocks[id]]
        /\ b.parts = a.parts
    BY DEF Flush, Live, Coherent, IsAssembler
  <1>2. ASSUME NEW id \in DOMAIN a.blocks
        PROVE  /\ IsBlock(b.blocks[id]) /\ SameReading(a.blocks[id], b.blocks[id])
               /\ b.blocks[id].open = a.blocks[id].open /\ b.blocks[id].kind = a.blocks[id].kind
    <2>1. IsBlock(a.blocks[id])
      BY DEF Live, Coherent, IsAssembler
    <2>2. /\ IsBlock(Refilled(id))
          /\ Refilled(id).open = a.blocks[id].open /\ Refilled(id).kind = a.blocks[id].kind
          /\ Refilled(id).announced = a.blocks[id].announced
      BY <2>1, SameBlock DEF IsBlock
    <2>3. SameReading(a.blocks[id], a.blocks[id])
      BY DEF SameReading
    <2>4. OpenAs(a, id, "Opaque") => SameReading(a.blocks[id], Refilled(id))
      <3>1. OpenAs(a, id, "Opaque") => a.blocks[id].kind = "Opaque"
        BY DEF OpenAs, Fits
      <3>. HIDE DEF Refilled
      <3>. QED
        BY <2>2, <3>1 DEF SameReading, Readable, IsCall
    <2>. HIDE DEF Refilled
    <2>. QED
      BY <1>1, <2>1, <2>2, <2>3, <2>4
  <1>. HIDE DEF b
  <1>3. IsAssembler(b)
    BY <1>1, <1>2 DEF Live, Coherent, IsAssembler
  <1>4. Quiet(a, b)
    BY <1>1, <1>2, <1>3 DEF Quiet
  <1>5. Silent(a, b)
    BY <1>1, <1>2 DEF Silent
  <1>. QED
    BY <1>4, <1>5, QuietKeeps, QuietlyHonest DEF Live, b

LEMMA StartBlockKeeps ==
    ASSUME Live(asm, {}), codec # "responses", NEW id, NEW block, StartBlock(id, block)
    PROVE  DecoderInv'
  <1>. DEFINE Begun(kind) == Start(asm, id, kind)
  <1>1. \A kind \in Kinds : Live(Begun(kind), {})
    BY LatchLives
  <1>2. /\ "Text" \in Kinds /\ "Reasoning" \in Kinds /\ "Opaque" \in Kinds
        /\ "Call" \in Kinds /\ "NamelessCall" \in Kinds
    BY DEF Kinds
  <1>3. /\ Live(Begun("Text"), {}) /\ Live(Begun("Reasoning"), {}) /\ Live(Begun("Opaque"), {})
        /\ Live(Begun("Call"), {}) /\ Live(Begun("NamelessCall"), {})
    BY <1>1, <1>2
  <1>. HIDE DEF Begun
  <1>4. CASE block.type = "text" /\ Anthropic(Seed(Begun("Text"), id, "Text", block.text))
    BY <1>3, <1>4, SeedLives, DecodeElsewhere DEF Anthropic, Fine
  <1>5. ASSUME Anthropic(Seed(IF block.signed THEN Signature(Begun("Reasoning"), id)
                              ELSE Begun("Reasoning"), id, "Reasoning", block.text))
        PROVE  DecoderInv'
    <2>. DEFINE b == IF block.signed THEN Signature(Begun("Reasoning"), id) ELSE Begun("Reasoning")
    <2>1. Live(b, {})
      BY <1>3, MarkingLives
    <2>2. Fine(Seed(b, id, "Reasoning", block.text), {})
      BY <2>1, SeedLives DEF Fine
    <2>. QED
      BY <1>5, <2>2, DecodeElsewhere DEF Anthropic
  <1>6. ASSUME Anthropic(Reasoning(SetRedacted(Begun("Reasoning"), id), id, Sealed))
        PROVE  DecoderInv'
    <2>1. Live(SetRedacted(Begun("Reasoning"), id), {})
      BY <1>3, MarkingLives
    <2>2. Fine(Reasoning(SetRedacted(Begun("Reasoning"), id), id, Sealed), {})
      BY <2>1, FillingLives DEF Fine
    <2>. QED
      BY <1>6, <2>2, DecodeElsewhere DEF Anthropic
  <1>7. ASSUME Anthropic(Begun(IF block.named THEN "Call" ELSE "NamelessCall"))
        PROVE  DecoderInv'
    <2>1. Fine(Begun(IF block.named THEN "Call" ELSE "NamelessCall"), {})
      BY <1>3 DEF Fine
    <2>. QED
      BY <1>7, <2>1, DecodeElsewhere DEF Anthropic
  <1>8. ASSUME NEW o, Decode(SetOpaqueData(Begun("Opaque"), id, <<"snapshot">>), o)
        PROVE  DecoderInv'
    <2>1. Fine(SetOpaqueData(Begun("Opaque"), id, <<"snapshot">>), {})
      BY <1>3, MarkingLives DEF Fine
    <2>. QED
      BY <1>8, <2>1, DecodeElsewhere
  <1>. QED
    BY <1>4, <1>5, <1>6, <1>7, <1>8 DEF StartBlock, Begun

LEMMA AnthropicKeeps ==
    ASSUME DecoderInv, AnthropicNext
    PROVE  DecoderInv'
  <1>1. ASSUME NEW e \in Upcoming("anthropic", AnthropicEvents), AnthropicEvent(e)
        PROVE  DecoderInv'
    <2>1. codec # "responses" /\ ~over /\ Live(asm, {})
      <3>1. codec = "anthropic" /\ ~over
        BY MayRead
      <3>. QED
        BY <3>1 DEF DecoderInv, Skipped
    <2>2. ASSUME NEW a, Anthropic(a), Live(a, {})
          PROVE  DecoderInv'
      BY <2>1, <2>2, DecodeElsewhere DEF Anthropic, Fine
    <2>3. CASE Anthropic(Counted(Started(asm), e.counted))
      BY <2>1, <2>2, <2>3, StartedLives, BesidesLives
    <2>4. CASE StartBlock(e.id, e.block)
      BY <2>1, <2>4, StartBlockKeeps
    <2>5. CASE BlockDelta(e)
      <3>1. /\ Live(Signature(asm, e.id), {}) /\ Live(Text(asm, e.id, e.text), {})
            /\ Live(Reasoning(asm, e.id, e.text), {})
            /\ AnnouncedCall(asm, e.id) => Live(Arguments(asm, e.id, e.text), {})
        BY <2>1, MarkingLives, FillingLives DEF AnnouncedCall
      <3>2. CASE InputDelta(e.id, e.text)
        <4>1. CASE Fail
          BY <2>1, <4>1, FailKeeps
        <4>2. ASSUME NEW o, Decode(asm, o) PROVE DecoderInv'
          BY <2>1, <4>2, DecodeElsewhere DEF Fine
        <4>. QED
          BY <2>2, <3>1, <3>2, <4>1, <4>2 DEF InputDelta
      <3>. QED
        BY <2>2, <2>5, <3>1, <3>2 DEF BlockDelta
    <2>6. CASE BlockStop(e.id, e.signed, e.parses)
      <3>. DEFINE a == IF e.signed THEN Signature(asm, e.id) ELSE asm
                  parsing == IF e.parses THEN Streamed({e.id}) ELSE {}
      <3>1. Live(a, {})
        BY <2>1, MarkingLives
      <3>. HIDE DEF a, parsing
      <3>2. Fine(End(Flush(a, parsing), e.id), {})
        BY <3>1, FlushLives, EndLives DEF Fine
      <3>3. \E o : Decode(End(Flush(a, parsing), e.id), o)
        BY <2>6 DEF BlockStop, a, parsing
      <3>. QED
        BY <2>1, <3>2, <3>3, DecodeElsewhere
    <2>7. CASE MessageDelta(e.reason, e.counted)
      <3>1. CASE Fail
        BY <2>1, <3>1, FailKeeps
      <3>2. Live(Counted(Reported(asm, e.reason), e.counted), {})
        BY <2>1, BesidesLives
      <3>. QED
        BY <2>2, <2>7, <3>1, <3>2 DEF MessageDelta
    <2>8. CASE Anthropic(Complete(asm))
      BY <2>1, <2>8, CompleteIsFine, DecodeElsewhere DEF Anthropic
    <2>9. CASE Anthropic(asm)
      BY <2>1, <2>2, <2>9
    <2>. QED
      BY <1>1, <2>3, <2>4, <2>5, <2>6, <2>7, <2>8, <2>9 DEF AnthropicEvent
  <1>2. ASSUME AnthropicEnds PROVE DecoderInv'
    <2>1. PICK parsing : Finish(Complete(Flush(asm, parsing))) /\ ~over
      BY <1>2 DEF AnthropicEnds, Ends
    <2>2. Fine(Complete(Flush(asm, parsing)), Skipped)
      BY <2>1, FlushLives, CompleteIsFine DEF DecoderInv
    <2>. QED
      BY <2>1, <2>2, FinishKeeps
  <1>. QED
    BY <1>1, <1>2 DEF AnthropicNext

----------------------------------------------------------------------------
(* Bedrock *)

LEMMA SayLives ==
    ASSUME NEW a, NEW exempt, Live(a, exempt), NEW id, NEW told
    PROVE  Live(Say(a, id, told), exempt)
  BY FillingLives DEF Say

LEMMA ReasoningDeltaKeeps ==
    ASSUME DecoderInv, ~over, codec # "responses",
           NEW id, NEW told, NEW signed, NEW sealed, ReasoningDelta(id, told, signed, sealed)
    PROVE  DecoderInv'
  <1>. DEFINE shown == IF id \in own.redacted THEN {} ELSE told
              a == Say(asm, id, shown)
              b == IF signed THEN Signature(a, id) ELSE a
              c == Reasoning(SetRedacted(b, id), id, Sealed)
  <1>1. Live(asm, {})
    BY DEF DecoderInv, Skipped
  <1>2. Live(a, {})
    BY <1>1, SayLives
  <1>3. Live(b, {})
    BY <1>2, MarkingLives
  <1>4. Live(c, {})
    <2>1. Live(SetRedacted(b, id), {})
      BY <1>3, MarkingLives
    <2>. QED
      BY <2>1, FillingLives
  <1>5. (\E o : Decode(b, o)) \/ Fail \/ (\E o : Decode(c, o))
    BY DEF ReasoningDelta
  <1>. HIDE DEF b, c
  <1>. QED
    BY <1>3, <1>4, <1>5, DecodeElsewhere, FailKeeps DEF Fine

LEMMA BedrockKeeps ==
    ASSUME DecoderInv, BedrockNext
    PROVE  DecoderInv'
  <1>1. ASSUME NEW e \in Upcoming("bedrock", BedrockEvents), BedrockEvent(e)
        PROVE  DecoderInv'
    <2>1. codec # "responses" /\ ~over /\ Live(asm, {})
      <3>1. codec = "bedrock" /\ ~over
        BY MayRead
      <3>. QED
        BY <3>1 DEF DecoderInv, Skipped
    <2>2. ASSUME NEW a, Bedrock(a), Live(a, {})
          PROVE  DecoderInv'
      BY <2>1, <2>2, DecodeElsewhere DEF Bedrock, Fine
    <2>3. CASE Bedrock(Started(asm))
      BY <2>1, <2>2, <2>3, StartedLives
    <2>4. CASE Bedrock(Start(asm, e.id, IF e.named THEN "Call" ELSE "NamelessCall"))
      <3>1. (IF e.named THEN "Call" ELSE "NamelessCall") \in Kinds
        BY DEF Kinds
      <3>2. Live(Start(asm, e.id, IF e.named THEN "Call" ELSE "NamelessCall"), {})
        BY <2>1, <3>1, LatchLives
      <3>. QED
        BY <2>2, <2>4, <3>2
    <2>5. CASE Bedrock(Text(asm, e.id, e.text))
      BY <2>1, <2>2, <2>5, FillingLives
    <2>6. CASE CallDelta(e.id, e.text)
      <3>1. AnnouncedCall(asm, e.id) => Live(Arguments(asm, e.id, e.text), {})
        BY <2>1, FillingLives DEF AnnouncedCall
      <3>2. CASE Fail
        BY <2>1, <3>2, FailKeeps
      <3>. QED
        BY <2>2, <2>6, <3>1, <3>2 DEF CallDelta
    <2>7. CASE ReasoningDelta(e.id, e.told, e.signed, e.sealed)
      BY <2>1, <2>7, ReasoningDeltaKeeps
    <2>8. CASE Bedrock(End(asm, e.id))
      BY <2>1, <2>2, <2>8, EndLives
    <2>9. CASE ConverseStop(e.reason)
      <3>1. Live(SetFinish(asm, e.reason), {})
        BY <2>1, SetFinishLives
      <3>2. CASE Fail
        BY <2>1, <3>2, FailKeeps
      <3>. QED
        BY <2>2, <2>9, <3>1, <3>2 DEF ConverseStop
    <2>10. CASE Metadata
      BY <2>1, <2>10, UsageLives, CompleteIsFine, DecodeElsewhere DEF Metadata, Bedrock
    <2>11. CASE Bedrock(asm)
      BY <2>1, <2>2, <2>11
    <2>. QED
      BY <1>1, <2>3, <2>4, <2>5, <2>6, <2>7, <2>8, <2>9, <2>10, <2>11 DEF BedrockEvent
  <1>2. ASSUME Ends("bedrock"), Finish(Complete(asm))
        PROVE  DecoderInv'
    <2>1. Fine(Complete(asm), Skipped)
      BY <1>2, CompleteIsFine DEF DecoderInv, Ends
    <2>. QED
      BY <1>2, <2>1, FinishKeeps
  <1>. QED
    BY <1>1, <1>2 DEF BedrockNext

----------------------------------------------------------------------------
(* Chat Completions *)

LEMMA ChunkKeeps ==
    ASSUME codec # "responses", NEW e, NEW a, Live(a, {}), NEW o, Chunk(e, a, o)
    PROVE  DecoderInv'
  <1>1. Live(Counted(Reported(a, e.reason), e.counted), {})
    BY BesidesLives
  <1>. QED
    BY <1>1, DecodeElsewhere DEF Chunk, Fine

LEMMA ChatResultIsFine ==
    ASSUME NEW exempt, Live(asm, exempt)
    PROVE  Fine(ChatResult, exempt)
  BY SetFinishLives, CompleteIsFine DEF ChatResult

LEMMA CallChunkKeeps ==
    ASSUME codec = "chat", Live(asm, {}), NEW e, CallChunk(e)
    PROVE  DecoderInv'
  <1>. DEFINE n     == e.delta.index
              id    == <<"tool", n>>
              named == e.delta.names \/ (n \in DOMAIN own.named /\ own.named[n])
              kind  == IF named THEN "Call" ELSE "NamelessCall"
              a     == RepairIdentity(Start(Started(asm), id, kind), id, kind)
              b     == IF e.delta.text = <<>> THEN a ELSE Arguments(a, id, e.delta.text)
  <1>1. kind \in {"Call", "NamelessCall"} /\ kind \in Kinds
    BY DEF Kinds
  <1>2. \E o : Chunk(e, b, o)
    BY DEF CallChunk
  <1>. HIDE DEF kind, id
  <1>3. Live(Start(Started(asm), id, kind), {})
    BY <1>1, StartedLives, LatchLives
  <1>4. Live(a, {})
    BY <1>1, <1>3, RepairLives
  <1>. HIDE DEF a
  <1>5. Live(b, {})
    BY <1>4, FillingLives DEF Announces
  <1>. HIDE DEF b
  <1>. QED
    BY <1>2, <1>5, ChunkKeeps

LEMMA ChatKeeps ==
    ASSUME DecoderInv, ChatNext
    PROVE  DecoderInv'
  <1>1. ASSUME NEW e \in Upcoming("chat", ChatEvents), ChatEvent(e)
        PROVE  DecoderInv'
    <2>1. codec = "chat" /\ ~over /\ Live(asm, {})
      <3>1. codec = "chat" /\ ~over
        BY MayRead
      <3>. QED
        BY <3>1 DEF DecoderInv, Skipped
    <2>2. Live(Started(asm), {})
      BY <2>1, StartedLives
    <2>3. ASSUME NEW o, Chunk(e, Started(asm), o)
          PROVE  DecoderInv'
      BY <2>1, <2>2, <2>3, ChunkKeeps
    <2>4. CASE DetailsChunk(e)
      <3>. DEFINE details == own.details \o e.delta.text
      <3>1. Live(Start(Started(asm), DetailsBlock, "Opaque"), {})
        BY <2>2, LatchLives DEF Kinds
      <3>2. Live(SetOpaqueData(Start(Started(asm), DetailsBlock, "Opaque"), DetailsBlock, details), {})
        BY <3>1, MarkingLives
      <3>. QED
        BY <2>1, <2>4, <3>2, ChunkKeeps DEF DetailsChunk
    <2>5. CASE Chunk(e, Reasoning(Started(asm), ReasoningBlock, e.delta.text), own)
      BY <2>1, <2>2, <2>5, FillingLives, ChunkKeeps
    <2>6. CASE Chunk(e, Text(Started(asm), TextBlock, e.delta.text), own)
      BY <2>1, <2>2, <2>6, FillingLives, ChunkKeeps
    <2>7. CASE CallChunk(e)
      BY <2>1, <2>7, CallChunkKeeps
    <2>8. CASE Fail
      BY <2>1, <2>8, FailKeeps
    <2>9. CASE Decode(ChatResult, own)
      BY <2>1, <2>9, ChatResultIsFine, DecodeElsewhere
    <2>. QED
      BY <1>1, <2>3, <2>4, <2>5, <2>6, <2>7, <2>8, <2>9 DEF ChatEvent
  <1>2. ASSUME Ends("chat"), IF ChatFails THEN Fail ELSE Finish(ChatResult)
        PROVE  DecoderInv'
    <2>1. ~over /\ Fine(ChatResult, Skipped)
      BY <1>2, ChatResultIsFine DEF DecoderInv, Ends
    <2>. QED
      BY <1>2, <2>1, FinishKeeps, FailKeeps
  <1>. QED
    BY <1>1, <1>2 DEF ChatNext

----------------------------------------------------------------------------
(* Gemini *)

LEMMA PartKeeps ==
    ASSUME codec # "responses", NEW e, NEW a, Live(a, {}), NEW o, Part(e, a, o)
    PROVE  DecoderInv'
  <1>1. Live(Reported(Counted(a, e.counted), e.reason), {})
    BY BesidesLives
  <1>. QED
    BY <1>1, DecodeElsewhere DEF Part, Fine

LEMMA CloseRunLives ==
    ASSUME NEW a, NEW exempt, Live(a, exempt)
    PROVE  Live(CloseRun(a), exempt)
  BY EndLives DEF CloseRun

LEMMA TextPartKeeps ==
    ASSUME codec # "responses", Live(asm, {}), NEW e, NEW kind, TextPart(e, kind)
    PROVE  DecoderInv'
  <1>. DEFINE run   == RunOf(kind)
              isNew == run # own.run
              a     == IF isNew THEN CloseRun(Started(asm)) ELSE Started(asm)
              b     == IF kind = "Text" THEN Text(a, run.id, e.part.text)
                       ELSE Reasoning(a, run.id, e.part.text)
              seal  == kind = "Reasoning" /\ e.part.signed
              c     == IF seal THEN End(Signature(b, run.id), run.id) ELSE b
  <1>1. \E o : Part(e, c, o)
    BY DEF TextPart
  <1>. HIDE DEF run, isNew, seal
  <1>2. Live(a, {})
    BY StartedLives, CloseRunLives
  <1>. HIDE DEF a
  <1>3. Live(b, {})
    BY <1>2, FillingLives
  <1>. HIDE DEF b
  <1>4. Live(c, {})
    <2>1. Live(Signature(b, run.id), {})
      BY <1>3, MarkingLives
    <2>. QED
      BY <1>3, <2>1, EndLives
  <1>. HIDE DEF c
  <1>. QED
    BY <1>1, <1>4, PartKeeps

LEMMA CallPartKeeps ==
    ASSUME codec # "responses", Live(asm, {}), NEW e, CallPart(e)
    PROVE  DecoderInv'
  <1>. DEFINE id == <<"tool", own.calls>>
              a  == Start(CloseRun(Started(asm)), id, "Call")
              b  == End(WholeCall(a, id, e.part.text), id)
  <1>1. \E o : Part(e, b, o)
    BY DEF CallPart
  <1>. HIDE DEF id
  <1>2. Live(a, {}) /\ Known(a, id)
    BY StartedLives, CloseRunLives, LatchLives DEF Kinds
  <1>. HIDE DEF a
  <1>3. Live(WholeCall(a, id, e.part.text), {})
    <2>1. OpenAs(a, id, "Call") => ~Readable(a.blocks[id])
      BY DEF OpenAs, Fits, IsCall, Readable
    <2>. QED
      BY <1>2, <2>1, GrowLives DEF WholeCall
  <1>4. Live(b, {})
    BY <1>3, EndLives
  <1>. HIDE DEF b
  <1>. QED
    BY <1>1, <1>4, PartKeeps

LEMMA GeminiFinishIsFine ==
    ASSUME NEW exempt, Live(asm, exempt)
    PROVE  Fine(GeminiFinish, exempt)
  <1>1. Live(SetFinish(asm, Promoted(asm.finish, own.calls > 0)), exempt)
    BY SetFinishLives
  <1>2. Live(CloseRun(SetFinish(asm, Promoted(asm.finish, own.calls > 0))), exempt)
    BY <1>1, CloseRunLives
  <1>. QED
    BY <1>2, CompleteIsFine DEF GeminiFinish

LEMMA GeminiKeeps ==
    ASSUME DecoderInv, GeminiNext
    PROVE  DecoderInv'
  <1>1. ASSUME NEW e \in Upcoming("gemini", GeminiEvents), GeminiEvent(e)
        PROVE  DecoderInv'
    <2>1. codec # "responses" /\ ~over /\ Live(asm, {})
      <3>1. codec = "gemini" /\ ~over
        BY MayRead
      <3>. QED
        BY <3>1 DEF DecoderInv, Skipped
    <2>2. CASE Part(e, Started(asm), own)
      BY <2>1, <2>2, StartedLives, PartKeeps
    <2>3. ASSUME NEW kind, TextPart(e, kind)
          PROVE  DecoderInv'
      BY <2>1, <2>3, TextPartKeeps
    <2>4. CASE CallPart(e)
      BY <2>1, <2>4, CallPartKeeps
    <2>5. CASE Fail
      BY <2>1, <2>5, FailKeeps
    <2>6. CASE Decode(GeminiFinish, own)
      BY <2>1, <2>6, GeminiFinishIsFine, DecodeElsewhere
    <2>. QED
      BY <1>1, <2>2, <2>3, <2>4, <2>5, <2>6 DEF GeminiEvent
  <1>2. ASSUME Ends("gemini"), Finish(GeminiFinish)
        PROVE  DecoderInv'
    <2>1. Fine(GeminiFinish, Skipped)
      BY <1>2, GeminiFinishIsFine DEF DecoderInv, Ends
    <2>. QED
      BY <1>2, <2>1, FinishKeeps
  <1>. QED
    BY <1>1, <1>2 DEF GeminiNext

----------------------------------------------------------------------------
(* Responses *)

LEMMA StartItemLives ==
    ASSUME NEW a, NEW exempt, Live(a, exempt), NEW id, NEW kind
    PROVE  Live(StartItem(a, id, kind), exempt)
  <1>1. CASE kind = "Call"
    <2>1. Live(Start(a, id, kind), exempt)
      BY <1>1, LatchLives DEF Kinds
    <2>2. Live(RepairIdentity(Start(a, id, kind), id, kind), exempt)
      BY <1>1, <2>1, RepairLives
    <2>. QED
      BY <1>1, <2>2 DEF StartItem
  <1>2. CASE kind # "Call"
    BY <1>2 DEF StartItem
  <1>. QED
    BY <1>1, <1>2

LEMMA ReplayLives ==
    ASSUME NEW a, NEW exempt, Live(a, exempt), NEW id, NEW delivered
    PROVE  Live(Replay(a, id, delivered), exempt)
  <1>. DEFINE opaque == IF id \in delivered THEN ReplayId(id) ELSE id
  <1>1. Replay(a, id, delivered)
           = End(SetOpaqueData(Start(a, opaque, "Opaque"), opaque, <<"item">>), opaque)
    BY DEF Replay
  <1>. HIDE DEF opaque
  <1>2. Live(Start(a, opaque, "Opaque"), exempt)
    BY LatchLives DEF Kinds
  <1>3. Live(SetOpaqueData(Start(a, opaque, "Opaque"), opaque, <<"item">>), exempt)
    BY <1>2, MarkingLives
  <1>. QED
    BY <1>1, <1>3, EndLives

\* A step that exempts no further block.
LEMMA DecodeSkippingNone ==
    ASSUME codec = "responses", OwnIsSound, NEW a, NEW o, Decode(a, o), Fine(a, own.skipped),
           o = [delivered |-> o.delivered, entries |-> o.entries, skipped |-> own.skipped]
    PROVE  DecoderInv'
  <1>1. own' = o /\ codec' = codec
    BY DEF Decode
  <1>2. Skipped' = own.skipped /\ OwnIsSound'
    BY <1>1 DEF Skipped, OwnIsSound
  <1>. QED
    BY <1>2, DecodeKeeps

\* A step that exempts block id.
LEMMA DecodeSkipping ==
    ASSUME codec = "responses", OwnIsSound, NEW a, NEW id, Fine(a, own.skipped \cup {id}),
           Decode(a, [own EXCEPT !.skipped = @ \cup {id}])
    PROVE  DecoderInv'
  <1>. DEFINE o == [own EXCEPT !.skipped = @ \cup {id}]
  <1>1. o = [delivered |-> own.delivered, entries |-> own.entries, skipped |-> own.skipped \cup {id}]
    BY DEF OwnIsSound
  <1>2. own' = o /\ codec' = codec
    BY DEF Decode
  <1>3. Skipped' = own.skipped \cup {id} /\ OwnIsSound'
    BY <1>1, <1>2 DEF Skipped, OwnIsSound
  <1>. QED
    BY <1>3, DecodeKeeps

LEMMA OwnChanges ==
    ASSUME OwnIsSound, codec = "responses", NEW d, NEW e
    PROVE  [own EXCEPT !.delivered = d, !.entries = e]
              = [delivered |-> d, entries |-> e, skipped |-> own.skipped]
  <1>. DEFINE o == [own EXCEPT !.delivered = d, !.entries = e]
  <1>1. DOMAIN own = {"delivered", "entries", "skipped"}
    BY DEF OwnIsSound
  <1>2. o.delivered = d /\ o.entries = e /\ o.skipped = own.skipped
    BY <1>1
  <1>3. o = [f \in DOMAIN own |-> o[f]]
    OBVIOUS
  <1>. HIDE DEF o
  <1>4. o = [delivered |-> o.delivered, entries |-> o.entries, skipped |-> o.skipped]
    BY <1>1, <1>3
  <1>. QED
    BY <1>2, <1>4 DEF o

LEMMA ItemAddedKeeps ==
    ASSUME codec = "responses", OwnIsSound, Live(asm, own.skipped), NEW id, NEW kind,
           ItemAdded(id, kind)
    PROVE  DecoderInv'
  <1>1. Live(StartItem(Latched, id, kind), own.skipped)
    BY StartedLives, StartItemLives DEF Latched
  <1>2. CASE kind = "NamelessCall"
    <2>1. Live(StartItem(Latched, id, kind), own.skipped \cup {id})
      BY <1>1, MoreExempt
    <2>2. Decode(StartItem(Latched, id, kind), [own EXCEPT !.skipped = @ \cup {id}])
      BY <1>2 DEF ItemAdded
    <2>. QED
      BY <2>1, <2>2, DecodeSkipping DEF Fine
  <1>3. CASE kind # "NamelessCall"
    <2>1. Decode(StartItem(Latched, id, kind), own)
      BY <1>3 DEF ItemAdded
    <2>. QED
      BY <1>1, <2>1, DecodeSkippingNone DEF Fine, OwnIsSound
  <1>. QED
    BY <1>2, <1>3

LEMMA ItemEndsKeeps ==
    ASSUME codec = "responses", OwnIsSound, Live(asm, own.skipped), NEW id, NEW kind, NEW whole,
           ItemEnds(id, kind, whole)
    PROVE  DecoderInv'
  <1>. DEFINE a         == StartItem(Latched, id, kind)
              heard     == whole # <<>> /\ kind \in {"Text", "Reasoning", "Call"}
              latchKind == IF kind = "Call" THEN "NamelessCall" ELSE kind
              b         == IF heard THEN Reconcile(a, id, latchKind, whole) ELSE a
              delivered == own.delivered \cup (IF heard THEN {id} ELSE {})
              ended     == End(b, id)
              entries   == IF kind = "Reasoning"
                           THEN [i \in DOMAIN own.entries \ {id} |-> own.entries[i]]
                           ELSE own.entries
              c         == IF kind \in {"Text", "Reasoning"} THEN Replay(ended, id, delivered)
                           ELSE ended
              o         == [own EXCEPT !.delivered = delivered, !.entries = entries]
  <1>1. Decode(c, o)
    BY DEF ItemEnds
  <1>2. heard => latchKind \in Kinds
    BY DEF Kinds
  <1>. HIDE DEF heard, latchKind, delivered, entries
  <1>3. o = [delivered |-> o.delivered, entries |-> o.entries, skipped |-> own.skipped]
    <2>1. o = [delivered |-> delivered, entries |-> entries, skipped |-> own.skipped]
      BY OwnChanges, Zenon
    <2>. HIDE DEF o
    <2>. QED
      BY <2>1
  <1>. HIDE DEF o
  <1>4. Live(a, own.skipped)
    BY StartedLives, StartItemLives DEF Latched
  <1>. HIDE DEF a
  <1>5. Live(b, own.skipped)
    BY <1>2, <1>4, ReconcileLives
  <1>. HIDE DEF b
  <1>6. Live(ended, own.skipped)
    BY <1>5, EndLives
  <1>. HIDE DEF ended
  <1>7. Live(c, own.skipped)
    BY <1>6, ReplayLives
  <1>. HIDE DEF c
  <1>. QED
    BY <1>1, <1>3, <1>7, DecodeSkippingNone DEF Fine

LEMMA ItemDoneKeeps ==
    ASSUME codec = "responses", OwnIsSound, Live(asm, own.skipped), NEW id, NEW kind, NEW whole,
           ItemDone(id, kind, whole)
    PROVE  DecoderInv'
  <1>1. Live(Latched, own.skipped)
    BY StartedLives DEF Latched
  <1>2. CASE Responses(Latched)
    BY <1>1, <1>2, DecodeSkippingNone DEF Responses, Fine, OwnIsSound
  <1>3. CASE Decode(Discard(Latched, id), [own EXCEPT !.skipped = @ \cup {id}])
    <2>1. Live(Latched, own.skipped \cup {id})
      BY <1>1, MoreExempt
    <2>2. Live(Discard(Latched, id), own.skipped \cup {id})
      BY <2>1, DiscardLives
    <2>. QED
      BY <1>3, <2>2, DecodeSkipping DEF Fine
  <1>4. CASE ItemEnds(id, kind, whole)
    BY <1>4, ItemEndsKeeps
  <1>. QED
    BY <1>2, <1>3, <1>4 DEF ItemDone

LEMMA ResponsesKeeps ==
    ASSUME DecoderInv, ResponsesNext
    PROVE  DecoderInv'
  <1>1. ASSUME NEW e \in Upcoming("responses", ResponsesEvents), ResponsesEvent(e)
        PROVE  DecoderInv'
    <2>1. codec = "responses" /\ ~over /\ OwnIsSound /\ Live(asm, own.skipped)
      <3>1. codec = "responses" /\ ~over
        BY MayRead
      <3>. QED
        BY <3>1 DEF DecoderInv, Skipped
    <2>2. Live(Latched, own.skipped)
      BY <2>1, StartedLives DEF Latched
    <2>3. ASSUME NEW a, Responses(a), Fine(a, own.skipped)
          PROVE  DecoderInv'
      BY <2>1, <2>3, DecodeSkippingNone DEF Responses, OwnIsSound
    <2>4. CASE ItemAdded(e.id, e.kind)
      BY <2>1, <2>4, ItemAddedKeeps
    <2>5. CASE TextDelta(e.id, e.text)
      <3>. DEFINE o == [own EXCEPT !.delivered = @ \cup {e.id}]
      <3>1. Live(Text(Latched, e.id, e.text), own.skipped)
        BY <2>2, FillingLives
      <3>2. o = [delivered |-> o.delivered, entries |-> o.entries, skipped |-> own.skipped]
        BY <2>1 DEF OwnIsSound
      <3>3. Decode(Text(Latched, e.id, e.text), o)
        BY <2>5 DEF TextDelta
      <3>. HIDE DEF o
      <3>. QED
        BY <2>1, <3>1, <3>2, <3>3, DecodeSkippingNone DEF Fine
    <2>6. CASE ArgumentsDelta(e.id, e.text)
      <3>. DEFINE o == [own EXCEPT !.delivered = @ \cup {e.id}]
      <3>1. Live(Arguments(Latched, e.id, e.text), own.skipped)
        BY <2>1, <2>2, FillingLives DEF Announces
      <3>2. o = [delivered |-> o.delivered, entries |-> o.entries, skipped |-> own.skipped]
        BY <2>1 DEF OwnIsSound
      <3>3. Responses(Latched) \/ Decode(Arguments(Latched, e.id, e.text), o)
        BY <2>6 DEF ArgumentsDelta
      <3>. HIDE DEF o
      <3>. QED
        BY <2>1, <2>2, <2>3, <3>1, <3>2, <3>3, DecodeSkippingNone DEF Fine
    <2>7. CASE ReasoningEntryDelta(e.id, e.list, e.entry, e.text)
      <3>. DEFINE entries == [i \in DOMAIN own.entries \cup {e.id} |->
                                 IF i = e.id THEN <<e.list, e.entry>> ELSE own.entries[i]]
                  delivered == own.delivered \cup {e.id}
                  o == [own EXCEPT !.delivered = delivered, !.entries = entries]
      <3>1. PICK text : Decode(Reasoning(Latched, e.id, text), o)
        BY <2>7 DEF ReasoningEntryDelta
      <3>2. Live(Reasoning(Latched, e.id, text), own.skipped)
        BY <2>2, FillingLives
      <3>. HIDE DEF delivered, entries
      <3>3. o = [delivered |-> o.delivered, entries |-> o.entries, skipped |-> own.skipped]
        <4>1. o = [delivered |-> delivered, entries |-> entries, skipped |-> own.skipped]
          BY <2>1, OwnChanges, Zenon
        <4>. HIDE DEF o
        <4>. QED
          BY <4>1
      <3>. HIDE DEF o
      <3>. QED
        BY <2>1, <3>1, <3>2, <3>3, DecodeSkippingNone DEF Fine
    <2>8. CASE ItemDone(e.id, e.kind, e.whole)
      BY <2>1, <2>8, ItemDoneKeeps
    <2>9. CASE ResponseDone(e.reason, e.counted)
      <3>. DEFINE a == IF e.reason = "None" THEN Latched
                       ELSE SetFinish(Latched, Promoted(e.reason, HasCall(Latched)))
      <3>1. Live(a, own.skipped)
        BY <2>2, SetFinishLives
      <3>2. Responses(Complete(Counted(a, e.counted)))
        BY <2>9 DEF ResponseDone
      <3>. HIDE DEF a
      <3>3. Fine(Complete(Counted(a, e.counted)), own.skipped)
        BY <3>1, BesidesLives, CompleteIsFine
      <3>. QED
        BY <2>3, <3>2, <3>3
    <2>10. CASE Fail
      BY <2>1, <2>10, FailKeeps
    <2>11. CASE Responses(Latched) \/ Responses(asm)
      BY <2>1, <2>2, <2>3, <2>11 DEF Fine
    <2>12. CASE Responses(Complete(asm))
      BY <2>1, <2>3, <2>12, CompleteIsFine
    <2>. QED
      BY <1>1, <2>4, <2>5, <2>6, <2>7, <2>8, <2>9, <2>10, <2>11, <2>12 DEF ResponsesEvent
  <1>2. ASSUME Ends("responses"), Finish(Complete(asm))
        PROVE  DecoderInv'
    <2>1. Fine(Complete(asm), Skipped)
      BY <1>2, CompleteIsFine DEF DecoderInv, Ends
    <2>. QED
      BY <1>2, <2>1, FinishKeeps
  <1>. QED
    BY <1>1, <1>2 DEF ResponsesNext

----------------------------------------------------------------------------
(***************************************************************************)
(* What holds of every stream.                                             *)
(***************************************************************************)

LEMMA NewLives ==
    ASSUME asm \in {New, Usage(New)}
    PROVE  Live(asm, {})
  <1>1. Live(New, {})
    <2>1. /\ New.blocks = <<>> /\ New.opened = <<>> /\ New.out = <<>> /\ New.parts = <<>>
          /\ New.started = FALSE /\ New.completed = FALSE
          /\ New = [blocks |-> New.blocks, opened |-> New.opened, parts |-> New.parts,
                    finish |-> New.finish, started |-> New.started,
                    completed |-> New.completed, out |-> New.out]
      BY DEF New
    <2>2. DOMAIN <<>> = {}
      OBVIOUS
    <2>3. New.blocks = [id \in DOMAIN New.blocks |-> New.blocks[id]]
      BY <2>1, <2>2
    <2>4. IsAssembler(New)
      BY <2>1, <2>2, <2>3, EmptyIsSeq DEF IsAssembler
    <2>5. ListsOpened(New)
      BY <2>1, <2>2 DEF ListsOpened, Opened, Range
    <2>6. Kept(New.out, {}) /\ Unended(New.out)
      BY <2>1, <2>2, EmptyIsSeq DEF Kept, DeltasFit, Unended
    <2>7. Knows(New, {})
      BY <2>1, <2>2 DEF Knows, OpenBlocks, Ids, Opened
    <2>8. Honest(New)
      <3>1. PartsListed(New)
        <4>1. Len(<<>>) = 0
          OBVIOUS
        <4>. QED
          BY <2>1, <2>2, <4>1, EmptyIsSeq, GatheredStarts DEF PartsListed, PartsTold
      <3>2. TextsTold(New) /\ Announced(New.blocks)
        BY <2>1, <2>2 DEF TextsTold, Announced, DeltasTell
      <3>. QED
        BY <3>1, <3>2 DEF Honest
    <2>. QED
      BY <2>1, <2>2, <2>4, <2>5, <2>6, <2>7, <2>8 DEF Live, Coherent
  <1>. QED
    BY <1>1, UsageLives

\* Until the stream is over, the assembler knows of every block what it has
\* told, and the stream keeps the contract but for the model-internal calls.
THEOREM DecoderInvariant == Spec => []DecoderInv
  <1>1. Init => DecoderInv
    <2>. SUFFICES ASSUME Init PROVE DecoderInv
      OBVIOUS
    <2>1. Live(asm, {})
      BY NewLives DEF Init, InitStream
    <2>2. codec = "responses" => own = ResponsesNew
      BY DEF Init, NewDecoder
    <2>3. OwnIsSound /\ Skipped = {}
      BY <2>2 DEF OwnIsSound, Skipped, ResponsesNew
    <2>. QED
      BY <2>1, <2>3, LiveTells DEF DecoderInv, Live, Coherent
  <1>2. DecoderInv /\ [Next]_vars => DecoderInv'
    <2>. SUFFICES ASSUME DecoderInv, [Next]_vars PROVE DecoderInv'
      OBVIOUS
    <2>1. CASE UNCHANGED vars
      <3>1. asm' = asm /\ codec' = codec /\ over' = over /\ own' = own
        BY <2>1 DEF vars
      <3>2. Skipped' = Skipped /\ OwnIsSound'
        BY <3>1, SameOwn DEF DecoderInv
      <3>. QED
        BY <3>1, <3>2 DEF DecoderInv, Tells, Live, Honest
    <2>2. CASE Over
      BY <2>1, <2>2 DEF Over, vars, DecoderInv, OwnIsSound, Skipped
    <2>. QED
      BY <2>1, <2>2, AnthropicKeeps, BedrockKeeps, ChatKeeps, GeminiKeeps, ResponsesKeeps,
         BrokenKeeps DEF Next
  <1>. QED
    BY <1>1, <1>2, PTL DEF Spec

\* "Whatever the provider sends, the caller's stream must keep the StreamEvent
\* contract" (providers/decoder_properties.rs): every event that a decoder of
\* any of the five codecs hands out may follow those before it, and every delta
\* fits its block, except in the blocks of model-internal calls.
THEOREM DecodersKeepTheContract == Spec => []OrdinaryContractKept
  <1>1. DecoderInv => OrdinaryContractKept
    BY DEF DecoderInv, Kept, OrdinaryContractKept, out
  <1>. QED
    BY <1>1, DecoderInvariant, PTL

\* What a caller saw of the stream tells it all of the response: the content
\* that complete hands out is that of the block ends, in their order and without
\* the calls of a truncated answer, and whoever joins the deltas of a readable
\* block has its part.
THEOREM CallersHearTheResponse == Spec => []CallerSawTheResponse
  <1>1. DecoderInv => CallerSawTheResponse
    BY DEF DecoderInv, Tells, DeltasTell, CallerSawTheResponse, ResponseIsItsBlocks,
       DeltasTellThePart, Ending, out
  <1>. QED
    BY <1>1, DecoderInvariant, PTL

----------------------------------------------------------------------------
(***************************************************************************)
(* The sealed payloads of the Bedrock decoder, which keeps the blocks with *)
(* a payload (redacted) apart from those with readable text (readable).    *)
(***************************************************************************)

IsSealed(text) == text \in Seq({Sealed[1]})

\* A reasoning block without readable text holds payloads only, and was never told.
Untold(a, readable) ==
    \A id \in DOMAIN a.blocks :
        a.blocks[id].kind = "Reasoning" /\ id \notin readable =>
            IsSealed(a.blocks[id].text) /\ DeltasOf(a.out, id) = {}

MarkedSealed(a, redacted) ==
    \A id \in DOMAIN a.blocks :
        a.blocks[id].kind = "Reasoning" /\ a.blocks[id].redacted => id \in redacted

\* The part that a sealed block ended with.
EndedSealed(a) ==
    \A i \in DOMAIN a.out :
        a.out[i].type = "BlockEnd" /\ a.out[i].part.redacted =>
            /\ a.out[i].id \in DOMAIN a.blocks /\ IsSealed(a.out[i].part.text)
            /\ a.blocks[a.out[i].id].kind = "Reasoning" /\ a.blocks[a.out[i].id].redacted

Apart(a, redacted, readable) ==
    /\ redacted \cap readable = {}
    /\ Untold(a, readable) /\ MarkedSealed(a, redacted) /\ EndedSealed(a)

\* What the stream has told of sealed payloads.
SealsKept(h) ==
    \A i \in DOMAIN h :
        h[i].type = "BlockEnd" /\ h[i].part.redacted =>
            IsSealed(h[i].part.text) /\ DeltasOf(h, h[i].id) = {}

LEMMA ApartKeepsSeals ==
    ASSUME NEW a, NEW redacted, NEW readable, Apart(a, redacted, readable)
    PROVE  SealsKept(a.out)
  BY DEF Apart, Untold, MarkedSealed, EndedSealed, SealsKept

LEMMA DeltasGrow ==
    ASSUME NEW h, IsSeq(h), NEW x, NEW id, ~(x.type = "Delta" /\ x.id = id), DeltasOf(h, id) = {}
    PROVE  DeltasOf(Append(h, x), id) = {}
  <1>1. \A i \in DOMAIN Append(h, x) :
           (i \in DOMAIN h /\ Append(h, x)[i] = h[i]) \/ Append(h, x)[i] = x
    BY AppendSeq, SeqFacts
  <1>. QED
    BY <1>1 DEF DeltasOf

\* An event that tells nothing of a reasoning block without readable text.
TellsNothing(a, b, x, readable) ==
    /\ DOMAIN b.blocks = DOMAIN a.blocks
    /\ \A id \in DOMAIN a.blocks :
          /\ b.blocks[id].kind = a.blocks[id].kind /\ b.blocks[id].redacted = a.blocks[id].redacted
          /\ a.blocks[id].kind = "Reasoning" /\ id \notin readable =>
                b.blocks[id].text = a.blocks[id].text /\ ~(x.type = "Delta" /\ x.id = id)

LEMMA EventIsApart ==
    ASSUME NEW a, NEW redacted, NEW readable, Apart(a, redacted, readable), IsSeq(a.out), NEW x,
           ~(x.type = "BlockEnd"), NEW b, b.out = Append(a.out, x), TellsNothing(a, b, x, readable)
    PROVE  Apart(b, redacted, readable)
  <1>1. \A i \in DOMAIN b.out : (i \in DOMAIN a.out /\ b.out[i] = a.out[i]) \/ b.out[i] = x
    BY AppendSeq, SeqFacts
  <1>2. Untold(b, readable)
    <2>. SUFFICES ASSUME NEW id \in DOMAIN a.blocks, a.blocks[id].kind = "Reasoning", id \notin readable
                  PROVE  IsSealed(b.blocks[id].text) /\ DeltasOf(b.out, id) = {}
      BY DEF Untold, TellsNothing
    <2>1. IsSealed(a.blocks[id].text) /\ DeltasOf(a.out, id) = {}
      BY DEF Apart, Untold
    <2>2. ~(x.type = "Delta" /\ x.id = id) /\ b.blocks[id].text = a.blocks[id].text
      BY DEF TellsNothing
    <2>. QED
      BY <2>1, <2>2, DeltasGrow
  <1>3. MarkedSealed(b, redacted)
    BY DEF Apart, MarkedSealed, TellsNothing
  <1>4. EndedSealed(b)
    BY <1>1 DEF Apart, EndedSealed, TellsNothing
  <1>. QED
    BY <1>2, <1>3, <1>4 DEF Apart

\* A change that no event tells of: payloads may come, to blocks in redacted.
TakesPayloads(block, other, isRedacted) ==
    /\ other.kind = block.kind
    /\ block.redacted => other.redacted
    /\ other.redacted => block.redacted \/ isRedacted
    /\ IsSealed(block.text) => IsSealed(other.text)

LEMMA QuietlyApart ==
    ASSUME NEW a, NEW redacted, NEW readable, Apart(a, redacted, readable), NEW id \in DOMAIN a.blocks,
           NEW block, TakesPayloads(a.blocks[id], block, id \in redacted),
           NEW b, b.out = a.out, b.blocks = [a.blocks EXCEPT ![id] = block]
    PROVE  Apart(b, redacted, readable)
  <1>0. /\ DOMAIN b.blocks = DOMAIN a.blocks
        /\ \A i \in DOMAIN a.blocks : b.blocks[i] = IF i = id THEN block ELSE a.blocks[i]
    OBVIOUS
  <1>1. Untold(b, readable)
    BY <1>0 DEF Apart, Untold, TakesPayloads
  <1>2. MarkedSealed(b, redacted)
    BY <1>0 DEF Apart, MarkedSealed, TakesPayloads
  <1>3. EndedSealed(b)
    BY <1>0 DEF Apart, EndedSealed, TakesPayloads
  <1>. QED
    BY <1>1, <1>2, <1>3 DEF Apart

LEMMA OpenIsApart ==
    ASSUME NEW a, NEW redacted, NEW readable, Apart(a, redacted, readable), Live(a, {}),
           codec = "bedrock", NEW id, NEW kind, NEW announced
    PROVE  Apart(Open(a, id, kind, announced), redacted, readable)
  <1>1. CASE Known(a, id)
    BY <1>1 DEF Open
  <1>2. CASE ~Known(a, id)
    <2>. DEFINE b == Open(a, id, kind, announced)
                x == [type |-> "BlockStart", id |-> id, kind |-> kind]
                block == [kind |-> kind, announced |-> announced, open |-> TRUE,
                          text |-> <<>>, redacted |-> FALSE, signed |-> FALSE]
    <2>1. /\ b.blocks = [i \in DOMAIN a.blocks \cup {id} |-> IF i # id THEN a.blocks[i] ELSE block]
          /\ b.out = Append(a.out, x)
      BY <1>2 DEF Open, Live, Coherent, IsAssembler
    <2>2. block.redacted = FALSE /\ block.text = <<>> /\ x.type = "BlockStart"
      OBVIOUS
    <2>. HIDE DEF b, x, block
    <2>3. /\ DOMAIN b.blocks = DOMAIN a.blocks \cup {id} /\ b.blocks[id] = block
          /\ \A i \in DOMAIN a.blocks : i # id /\ b.blocks[i] = a.blocks[i]
      BY <1>2, <2>1 DEF Known
    <2>4. IsSeq(a.out) /\ TextsTold(a)
      BY DEF Live, Coherent, Kept, Honest
    <2>5. \A i \in DOMAIN b.out : (i \in DOMAIN a.out /\ b.out[i] = a.out[i]) \/ b.out[i] = x
      BY <2>1, <2>4, AppendSeq, SeqFacts
    <2>6. ~(x.type = "Delta") /\ ~(x.type = "BlockEnd")
      BY <2>2
    <2>7. \A i : DeltasOf(a.out, i) = {} => DeltasOf(b.out, i) = {}
      BY <2>1, <2>4, <2>6, DeltasGrow
    <2>8. DeltasOf(a.out, id) = {} /\ IsSealed(<<>>)
      BY <1>2, <2>4 DEF TextsTold, DeltasOf, Known, IsSealed
    <2>9. Untold(b, readable)
      BY <2>2, <2>3, <2>7, <2>8 DEF Apart, Untold
    <2>10. MarkedSealed(b, redacted)
      BY <2>2, <2>3 DEF Apart, MarkedSealed
    <2>11. EndedSealed(b)
      BY <2>3, <2>5, <2>6 DEF Apart, EndedSealed
    <2>. QED
      BY <2>9, <2>10, <2>11 DEF Apart, b
  <1>. QED
    BY <1>1, <1>2

LEMMA MarkIsApart ==
    ASSUME NEW a, NEW redacted, NEW readable, Apart(a, redacted, readable), Live(a, {}),
           NEW id, NEW field \in {"signed", "redacted"}, field = "redacted" => id \in redacted
    PROVE  Apart(Mark(a, id, field, TRUE), redacted, readable)
  <1>1. CASE ~IsOpen(a, id)
    BY <1>1 DEF Mark
  <1>2. CASE IsOpen(a, id)
    <2>. DEFINE block == [a.blocks[id] EXCEPT ![field] = TRUE]
                b == Mark(a, id, field, TRUE)
    <2>1. IsBlock(a.blocks[id]) /\ id \in DOMAIN a.blocks
      BY <1>2 DEF IsOpen, Known, Live, Coherent, IsAssembler
    <2>2. /\ block.kind = a.blocks[id].kind /\ block.text = a.blocks[id].text
          /\ block.redacted = IF field = "redacted" THEN TRUE ELSE a.blocks[id].redacted
      BY <2>1 DEF IsBlock
    <2>3. b.out = a.out /\ b.blocks = [a.blocks EXCEPT ![id] = block]
      BY <1>2 DEF Mark, Live, Coherent, IsAssembler
    <2>. HIDE DEF block, b
    <2>4. TakesPayloads(a.blocks[id], block, id \in redacted)
      BY <2>2 DEF TakesPayloads
    <2>. QED
      BY <2>1, <2>3, <2>4, QuietlyApart DEF b
  <1>. QED
    BY <1>1, <1>2

\* What a block may be told, or take.
LEMMA AppendToIsApart ==
    ASSUME NEW a, NEW redacted, NEW readable, Apart(a, redacted, readable), Live(a, {}),
           NEW id, NEW shape, NEW text,
           shape = "Reasoning" /\ OpenAs(a, id, shape) =>
              id \in readable \/ (a.blocks[id].redacted /\ IsSealed(text))
    PROVE  Apart(AppendTo(a, id, shape, text), redacted, readable)
  <1>1. CASE ~OpenAs(a, id, shape)
    BY <1>1 DEF AppendTo
  <1>. DEFINE longer == a.blocks[id].text \o text
              block == [a.blocks[id] EXCEPT !.text = longer]
  <1>2. ASSUME OpenAs(a, id, shape)
        PROVE  IsBlock(a.blocks[id]) /\ id \in DOMAIN a.blocks
    BY <1>2 DEF OpenAs, IsOpen, Known, Live, Coherent, IsAssembler
  <1>3. ASSUME OpenAs(a, id, shape)
        PROVE  /\ block.kind = a.blocks[id].kind /\ block.redacted = a.blocks[id].redacted
               /\ block.text = longer
    <2>. HIDE DEF longer
    <2>. QED
      BY <1>2, <1>3 DEF IsBlock
  <1>4. ASSUME OpenAs(a, id, shape), shape = "Reasoning", a.blocks[id].redacted
        PROVE  Apart(AppendTo(a, id, shape, text), redacted, readable)
    <2>. DEFINE b == AppendTo(a, id, shape, text)
    <2>1. b.out = a.out /\ b.blocks = [a.blocks EXCEPT ![id] = block]
      BY <1>4 DEF AppendTo, Grow, Live, Coherent, IsAssembler
    <2>2. id \notin readable
      BY <1>2, <1>4 DEF Apart, MarkedSealed, OpenAs, Fits
    <2>3. IsSealed(text)
      BY <1>4, <2>2
    <2>4. IsSealed(a.blocks[id].text) => IsSealed(longer)
      BY <2>3 DEF IsSealed
    <2>. HIDE DEF b, block, longer
    <2>5. TakesPayloads(a.blocks[id], block, id \in redacted)
      BY <1>3, <1>4, <2>4 DEF TakesPayloads
    <2>. QED
      BY <1>2, <1>4, <2>1, <2>5, QuietlyApart DEF b
  <1>5. ASSUME OpenAs(a, id, shape), ~(shape = "Reasoning" /\ a.blocks[id].redacted)
        PROVE  Apart(AppendTo(a, id, shape, text), redacted, readable)
    <2>. DEFINE b == AppendTo(a, id, shape, text)
                x == DeltaOf(id, shape, text)
    <2>1. b.out = Append(a.out, x) /\ b.blocks = [a.blocks EXCEPT ![id] = block]
      BY <1>5 DEF AppendTo, Emit, Grow, Live, Coherent, IsAssembler
    <2>2. ~(x.type = "BlockEnd") /\ x.id = id
      BY DEF DeltaOf
    <2>3. a.blocks[id].kind = "Reasoning" => id \in readable
      BY <1>5 DEF OpenAs, Fits, IsCall
    <2>. HIDE DEF b, x, block, longer
    <2>4. TellsNothing(a, b, x, readable)
      BY <1>2, <1>3, <1>5, <2>1, <2>2, <2>3 DEF TellsNothing
    <2>. QED
      BY <2>1, <2>2, <2>4, EventIsApart DEF b, Live, Coherent, Kept
  <1>. QED
    BY <1>1, <1>4, <1>5

LEMMA EndIsApart ==
    ASSUME NEW a, NEW redacted, NEW readable, Apart(a, redacted, readable), Live(a, {}), NEW id
    PROVE  Apart(End(a, id), redacted, readable)
  <1>1. CASE ~IsOpen(a, id)
    BY <1>1 DEF End
  <1>2. CASE IsOpen(a, id)
    <2>. DEFINE b == End(a, id)
                x == BlockEndOf(a, id)
                block == [a.blocks[id] EXCEPT !.open = FALSE]
    <2>1. IsBlock(a.blocks[id]) /\ id \in DOMAIN a.blocks
      BY <1>2 DEF IsOpen, Known, Live, Coherent, IsAssembler
    <2>2. /\ block.kind = a.blocks[id].kind /\ block.text = a.blocks[id].text
          /\ block.redacted = a.blocks[id].redacted
      BY <2>1 DEF IsBlock
    <2>3. b.out = Append(a.out, x) /\ b.blocks = [a.blocks EXCEPT ![id] = block]
      BY <1>2 DEF End, Live, Coherent, IsAssembler
    <2>4. /\ x.type = "BlockEnd" /\ x.id = id /\ x.part.text = a.blocks[id].text
          /\ x.part.redacted => a.blocks[id].kind = "Reasoning" /\ a.blocks[id].redacted
      BY DEF BlockEndOf, PartOf
    <2>. HIDE DEF b, x, block
    <2>5. /\ DOMAIN b.blocks = DOMAIN a.blocks
          /\ \A i \in DOMAIN a.blocks : /\ b.blocks[i].kind = a.blocks[i].kind
                                        /\ b.blocks[i].text = a.blocks[i].text
                                        /\ b.blocks[i].redacted = a.blocks[i].redacted
      BY <2>1, <2>2, <2>3
    <2>6. IsSeq(a.out)
      BY DEF Live, Coherent, Kept
    <2>7. \A i \in DOMAIN b.out : (i \in DOMAIN a.out /\ b.out[i] = a.out[i]) \/ b.out[i] = x
      BY <2>3, <2>6, AppendSeq, SeqFacts
    <2>8. Untold(b, readable)
      <3>1. ~(x.type = "Delta")
        BY <2>4
      <3>2. \A i : DeltasOf(a.out, i) = {} => DeltasOf(b.out, i) = {}
        BY <2>3, <2>6, <3>1, DeltasGrow
      <3>. QED
        BY <2>5, <3>2 DEF Apart, Untold
    <2>9. MarkedSealed(b, redacted)
      BY <2>5 DEF Apart, MarkedSealed
    <2>10. EndedSealed(b)
      <3>1. x.part.redacted => IsSealed(x.part.text)
        BY <2>1, <2>4 DEF Apart, Untold, MarkedSealed
      <3>. QED
        BY <2>1, <2>4, <2>5, <2>7, <3>1 DEF Apart, EndedSealed
    <2>. QED
      BY <2>8, <2>9, <2>10 DEF Apart, b
  <1>. QED
    BY <1>1, <1>2

\* The blocks that complete ends.
LEMMA CompleteKeepsSeals ==
    ASSUME NEW a, NEW redacted, NEW readable, Apart(a, redacted, readable), Live(a, {})
    PROVE  SealsKept(Complete(a).out)
  <1>. DEFINE n == Len(a.out)
              m == Len(a.opened)
              new == Complete(a).out
  <1>1. CompletedOut(a, new)
    BY CompleteAppends DEF Live
  <1>2. n \in Nat /\ m \in Nat /\ DOMAIN a.out = 1..n /\ DOMAIN a.opened = 1..m
    BY SeqFacts DEF Live, Coherent, IsAssembler, Kept
  <1>3. /\ DOMAIN new = 1..(n + m + 1) /\ \A i \in 1..n : new[i] = a.out[i]
        /\ new[n + m + 1].type = "Ended"
        /\ \A k \in 1..m : new[n + k] = BlockEndOf(a, a.opened[k])
    BY <1>1 DEF CompletedOut
  <1>4. \A k \in 1..m : a.opened[k] \in DOMAIN a.blocks
    <2>1. \A k \in 1..m : a.opened[k] \in Range(a.opened)
      BY <1>2 DEF Range
    <2>. QED
      BY <2>1 DEF Live, Coherent, ListsOpened, Opened
  <1>. HIDE DEF n, m, new
  <1>5. \A i \in 1..(n + m + 1) : i \in 1..n \/ (\E k \in 1..m : i = n + k) \/ i = n + m + 1
    <2>. SUFFICES ASSUME NEW i \in 1..(n + m + 1), i \notin 1..n, i # n + m + 1
                  PROVE  \E k \in 1..m : i = n + k
      OBVIOUS
    <2>1. i - n \in 1..m /\ i = n + (i - n)
      BY <1>2
    <2>. QED
      BY <2>1
  <1>6. \A k \in 1..m : LET x == new[n + k]
                        IN  /\ x.type = "BlockEnd" /\ x.id = a.opened[k]
                            /\ x.part = PartOf(a.blocks[a.opened[k]])
    <2>. SUFFICES ASSUME NEW k \in 1..m
                  PROVE  LET x == new[n + k]
                         IN  /\ x.type = "BlockEnd" /\ x.id = a.opened[k]
                             /\ x.part = PartOf(a.blocks[a.opened[k]])
      OBVIOUS
    <2>1. new[n + k] = BlockEndOf(a, a.opened[k])
      BY <1>3
    <2>. QED
      BY <2>1 DEF BlockEndOf
  <1>7. \A id : DeltasOf(new, id) \subseteq DeltasOf(a.out, id)
    <2>. SUFFICES ASSUME NEW i \in 1..(n + m + 1), new[i].type = "Delta"
                  PROVE  i \in DOMAIN a.out /\ new[i] = a.out[i]
      BY <1>3 DEF DeltasOf
    <2>. QED
      BY <1>2, <1>3, <1>5, <1>6
  <1>8. ASSUME NEW i \in 1..(n + m + 1), new[i].type = "BlockEnd", new[i].part.redacted
        PROVE  IsSealed(new[i].part.text) /\ DeltasOf(a.out, new[i].id) = {}
    <2>1. CASE i \in 1..n
      BY <1>2, <1>3, <1>8, <2>1, ApartKeepsSeals DEF SealsKept
    <2>2. ASSUME NEW k \in 1..m, i = n + k
          PROVE  IsSealed(new[i].part.text) /\ DeltasOf(a.out, new[i].id) = {}
      <3>. DEFINE block == a.blocks[a.opened[k]]
      <3>1. new[i].part = PartOf(block) /\ new[i].id = a.opened[k]
        BY <1>6, <2>2
      <3>2. block.kind = "Reasoning" /\ block.redacted /\ new[i].part.text = block.text
        <4>. HIDE DEF block
        <4>1. /\ PartOf(block).redacted => block.kind = "Reasoning" /\ block.redacted
              /\ PartOf(block).text = block.text
          BY DEF PartOf
        <4>. QED
          BY <1>8, <3>1, <4>1
      <3>3. a.opened[k] \in DOMAIN a.blocks
        BY <1>4
      <3>4. a.opened[k] \notin readable
        BY <3>2, <3>3 DEF Apart, MarkedSealed
      <3>. QED
        BY <3>1, <3>2, <3>3, <3>4 DEF Apart, Untold
    <2>. QED
      BY <1>3, <1>5, <1>8, <2>1, <2>2
  <1>. QED
    BY <1>3, <1>7, <1>8 DEF SealsKept, new

SealsOwn ==
    own = [redacted |-> own.redacted, readable |-> own.readable]

\* What the Bedrock decoder keeps apart while it reads, and has told at any time.
SealedInv ==
    codec = "bedrock" =>
        /\ SealsKept(asm.out)
        /\ SealsOwn
        /\ ~over => Apart(asm, own.redacted, own.readable)

\* A step from a to the state after it.
LEMMA StepKeepsSeals ==
    ASSUME codec' = "bedrock", SealsOwn', NEW a, asm' = a,
           SealsKept(a.out), over' \/ Apart(a, own'.redacted, own'.readable)
    PROVE  SealedInv'
  BY DEF SealedInv

\* More blocks take part.
LEMMA MoreApart ==
    ASSUME NEW a, NEW redacted, NEW readable, Apart(a, redacted, readable),
           NEW more, redacted \subseteq more, NEW further, readable \subseteq further,
           more \cap further = {}
    PROVE  Apart(a, more, further)
  BY DEF Apart, Untold, MarkedSealed

LEMMA NoteIsApart ==
    ASSUME NEW a, NEW redacted, NEW readable, Apart(a, redacted, readable), Live(a, {}), NEW reason
    PROVE  /\ Apart(Started(a), redacted, readable) /\ Apart(Usage(a), redacted, readable)
           /\ Apart(SetFinish(a, reason), redacted, readable)
  <1>1. ASSUME NEW x, x.type \in {"Started", "Accounting"}, NEW b,
               b.out = Append(a.out, x), b.blocks = a.blocks
        PROVE  Apart(b, redacted, readable)
    <2>1. ~(x.type = "BlockEnd") /\ ~(x.type = "Delta")
      BY <1>1
    <2>2. TellsNothing(a, b, x, readable)
      BY <1>1, <2>1 DEF TellsNothing
    <2>. QED
      BY <1>1, <2>1, <2>2, EventIsApart DEF Live, Coherent, Kept
  <1>2. Apart(Started(a), redacted, readable)
    <2>1. CASE a.started
      BY <2>1 DEF Started
    <2>2. CASE ~a.started
      <3>. DEFINE x == [type |-> "Started"]
      <3>1. Started(a).out = Append(a.out, x) /\ Started(a).blocks = a.blocks
        BY <2>2 DEF Started, Emit, Live, Coherent, IsAssembler
      <3>2. x.type \in {"Started", "Accounting"}
        OBVIOUS
      <3>. HIDE DEF x
      <3>. QED
        BY <1>1, <3>1, <3>2
    <2>. QED
      BY <2>1, <2>2 DEF Live, Coherent, IsAssembler
  <1>3. Apart(Usage(a), redacted, readable)
    <2>. DEFINE x == [type |-> "Accounting"]
    <2>1. Usage(a).out = Append(a.out, x) /\ Usage(a).blocks = a.blocks
      BY DEF Usage, Emit, Live, Coherent, IsAssembler
    <2>2. x.type \in {"Started", "Accounting"}
      OBVIOUS
    <2>. HIDE DEF x
    <2>. QED
      BY <1>1, <2>1, <2>2
  <1>4. Apart(SetFinish(a, reason), redacted, readable)
    <2>. DEFINE b == SetFinish(a, reason)
    <2>1. b.out = a.out /\ b.blocks = a.blocks
      BY DEF SetFinish, Live, Coherent, IsAssembler
    <2>. HIDE DEF b
    <2>2. Untold(b, readable) /\ MarkedSealed(b, redacted) /\ EndedSealed(b)
      BY <2>1 DEF Apart, Untold, MarkedSealed, EndedSealed
    <2>. QED
      BY <2>2 DEF Apart, b
  <1>. QED
    BY <1>2, <1>3, <1>4

\* Text and the fragments of calls go to blocks of their shape.
LEMMA FillingIsApart ==
    ASSUME NEW a, NEW redacted, NEW readable, Apart(a, redacted, readable), Live(a, {}),
           codec = "bedrock", NEW id, NEW text
    PROVE  /\ Apart(Text(a, id, text), redacted, readable)
           /\ AnnouncedCall(a, id) => Apart(Arguments(a, id, text), redacted, readable)
           /\ id \in readable => Apart(Reasoning(a, id, text), redacted, readable)
           /\ Apart(Signature(a, id), redacted, readable)
           /\ id \in redacted => Apart(SetRedacted(a, id), redacted, readable)
  <1>1. /\ Live(Latch(a, id, "Text"), {}) /\ Live(Latch(a, id, "Reasoning"), {})
        /\ AnnouncedCall(a, id) => Live(Latch(a, id, "NamelessCall"), {})
    BY LatchAnyKind DEF AnnouncedCall
  <1>2. /\ Apart(Latch(a, id, "Text"), redacted, readable)
        /\ Apart(Latch(a, id, "Reasoning"), redacted, readable)
        /\ Apart(Latch(a, id, "NamelessCall"), redacted, readable)
    BY OpenIsApart DEF Latch
  <1>3. Apart(Text(a, id, text), redacted, readable)
    <2>. DEFINE b == Latch(a, id, "Text")
                shape == "Text"
    <2>1. Live(b, {}) /\ Apart(b, redacted, readable) /\ shape # "Reasoning"
      BY <1>1, <1>2
    <2>2. Text(a, id, text) = AppendTo(b, id, shape, text)
      BY DEF Text
    <2>. HIDE DEF b, shape
    <2>. QED
      BY <2>1, <2>2, AppendToIsApart
  <1>4. ASSUME AnnouncedCall(a, id) PROVE Apart(Arguments(a, id, text), redacted, readable)
    <2>. DEFINE b == Latch(a, id, "NamelessCall")
                shape == "Call"
    <2>1. Live(b, {}) /\ Apart(b, redacted, readable) /\ shape # "Reasoning"
      BY <1>1, <1>2, <1>4
    <2>2. Arguments(a, id, text) = AppendTo(b, id, shape, text)
      BY DEF Arguments
    <2>. HIDE DEF b, shape
    <2>. QED
      BY <2>1, <2>2, AppendToIsApart
  <1>5. ASSUME id \in readable PROVE Apart(Reasoning(a, id, text), redacted, readable)
    <2>. DEFINE b == Latch(a, id, "Reasoning")
    <2>1. Live(b, {}) /\ Apart(b, redacted, readable)
      BY <1>1, <1>2
    <2>2. Reasoning(a, id, text) = AppendTo(b, id, "Reasoning", text)
      BY DEF Reasoning
    <2>. HIDE DEF b
    <2>. QED
      BY <1>5, <2>1, <2>2, AppendToIsApart
  <1>6. Apart(Signature(a, id), redacted, readable)
    BY <1>1, <1>2, MarkIsApart DEF Signature
  <1>7. ASSUME id \in redacted PROVE Apart(SetRedacted(a, id), redacted, readable)
    BY <1>1, <1>2, <1>7, MarkIsApart DEF SetRedacted
  <1>. QED
    BY <1>3, <1>4, <1>5, <1>6, <1>7

\* A payload goes into a block that it seals.
LEMMA SealIsApart ==
    ASSUME NEW a, NEW redacted, NEW readable, Apart(a, redacted, readable), Live(a, {}),
           codec = "bedrock", NEW id \in redacted
    PROVE  Apart(Reasoning(SetRedacted(a, id), id, Sealed), redacted, readable)
  <1>. DEFINE b == Latch(a, id, "Reasoning")
              c == SetRedacted(a, id)
              d == Latch(c, id, "Reasoning")
  <1>1. Live(b, {}) /\ Known(b, id)
    BY LatchLives DEF Kinds, IsCall
  <1>2. c = Mark(b, id, "redacted", TRUE)
    BY DEF SetRedacted
  <1>3. Live(c, {}) /\ Apart(c, redacted, readable)
    BY MarkingLives, FillingIsApart
  <1>4. Known(c, id) /\ (IsOpen(c, id) => c.blocks[id].redacted)
    <2>. HIDE DEF b, c
    <2>1. CASE ~IsOpen(b, id)
      BY <1>1, <1>2, <2>1 DEF Mark
    <2>2. CASE IsOpen(b, id)
      <3>1. /\ IsBlock(b.blocks[id]) /\ id \in DOMAIN b.blocks
            /\ b.blocks = [i \in DOMAIN b.blocks |-> b.blocks[i]]
        BY <1>1 DEF Known, Live, Coherent, IsAssembler
      <3>2. c.blocks = [b.blocks EXCEPT ![id] = [b.blocks[id] EXCEPT !.redacted = TRUE]]
        BY <1>1, <1>2, <2>2 DEF Mark, Live, Coherent, IsAssembler
      <3>. QED
        BY <3>1, <3>2 DEF Known, IsOpen, IsBlock
    <2>. QED
      BY <2>1, <2>2
  <1>. HIDE DEF b, c
  <1>5. d = c
    BY <1>4 DEF Latch, Open
  <1>6. Reasoning(c, id, Sealed) = AppendTo(c, id, "Reasoning", Sealed)
    BY <1>5 DEF Reasoning
  <1>7. IsSealed(Sealed)
    BY DEF IsSealed, Sealed
  <1>8. OpenAs(c, id, "Reasoning") => c.blocks[id].redacted
    BY <1>4 DEF OpenAs
  <1>. QED
    BY <1>3, <1>6, <1>7, <1>8, AppendToIsApart DEF c

\* No step changes the codec.
LEMMA CodecStays == ASSUME [Next]_vars PROVE codec' = codec
  <1>1. ASSUME NEW e, AnthropicEvent(e) PROVE codec' = codec
    BY <1>1 DEF AnthropicEvent, Anthropic, StartBlock, BlockDelta, InputDelta, BlockStop,
       MessageDelta, Decode, Fail
  <1>2. ASSUME NEW e, BedrockEvent(e) PROVE codec' = codec
    BY <1>2 DEF BedrockEvent, Bedrock, CallDelta, ReasoningDelta, ConverseStop, Metadata, Decode, Fail
  <1>3. ASSUME NEW e, ChatEvent(e) PROVE codec' = codec
    BY <1>3 DEF ChatEvent, DetailsChunk, CallChunk, Chunk, Decode, Fail
  <1>4. ASSUME NEW e, GeminiEvent(e) PROVE codec' = codec
    BY <1>4 DEF GeminiEvent, TextPart, CallPart, Part, Decode, Fail
  <1>5. ASSUME NEW e, ResponsesEvent(e) PROVE codec' = codec
    BY <1>5 DEF ResponsesEvent, Responses, ItemAdded, TextDelta, ArgumentsDelta, ReasoningEntryDelta,
       ItemDone, ItemEnds, ResponseDone, Decode, Fail
  <1>6. ASSUME NEW a, Finish(a) PROVE codec' = codec
    BY <1>6 DEF Finish
  <1>. QED
    BY <1>1, <1>2, <1>3, <1>4, <1>5, <1>6 DEF Next, AnthropicNext, AnthropicEnds, BedrockNext,
       ChatNext, GeminiNext, ResponsesNext, Broken, Fail, Over, vars

LEMMA BedrockGoesOn ==
    ASSUME codec = "bedrock", SealsOwn, NEW a, Bedrock(a), Apart(a, own.redacted, own.readable)
    PROVE  SealedInv'
  <1>1. codec' = "bedrock" /\ own' = own /\ asm' = a
    BY DEF Bedrock, Decode
  <1>2. SealsOwn'
    BY <1>1 DEF SealsOwn
  <1>. QED
    BY <1>1, <1>2, StepKeepsSeals, ApartKeepsSeals

\* An error or a complete response is the last that the caller hears.
LEMMA BedrockStops ==
    ASSUME codec = "bedrock", SealsOwn, NEW a, SealsKept(a.out), asm' = a, own' = own, codec' = codec,
           over' = TRUE
    PROVE  SealedInv'
  <1>1. SealsOwn'
    BY DEF SealsOwn
  <1>. QED
    BY <1>1, StepKeepsSeals

LEMMA ErrorKeepsSeals ==
    ASSUME NEW h, IsSeq(h), SealsKept(h), NEW x, x.type = "Err"
    PROVE  SealsKept(Append(h, x))
  <1>1. \A i \in DOMAIN Append(h, x) :
           (i \in DOMAIN h /\ Append(h, x)[i] = h[i]) \/ Append(h, x)[i] = x
    BY AppendSeq, SeqFacts
  <1>2. \A id : DeltasOf(h, id) = {} => DeltasOf(Append(h, x), id) = {}
    <2>1. ~(x.type = "Delta")
      OBVIOUS
    <2>. QED
      BY <2>1, DeltasGrow
  <1>. QED
    BY <1>1, <1>2 DEF SealsKept

LEMMA FailKeepsSeals ==
    ASSUME codec = "bedrock", DecoderInv, SealedInv, Fail \/ Broken
    PROVE  SealedInv'
  <1>1. PICK e : /\ asm' = Emit(asm, Err(e)) /\ own' = own /\ codec' = codec /\ over' = TRUE
    BY DEF Fail, Broken
  <1>2. SealsKept(asm.out) /\ SealsOwn /\ IsSeq(asm.out)
    BY DEF SealedInv, DecoderInv, Kept
  <1>3. SealsKept(Append(asm.out, Err(e)))
    BY <1>2, ErrorKeepsSeals DEF Err
  <1>4. CASE Emit(asm, Err(e)).out = Append(asm.out, Err(e))
    BY <1>1, <1>2, <1>3, <1>4, BedrockStops
  <1>. QED
    BY <1>4 DEF Emit

\* reasoning_delta: what has readable text takes no payload, and what has taken
\* one shows no text.
LEMMA ReasoningDeltaKeepsSeals ==
    ASSUME codec = "bedrock", DecoderInv, SealedInv, ~over,
           NEW id, NEW told, NEW signed, NEW sealed, ReasoningDelta(id, told, signed, sealed)
    PROVE  SealedInv'
  <1>. DEFINE shown == IF id \in own.redacted THEN {} ELSE told
              more == own.readable \cup (IF shown # {} THEN {id} ELSE {})
              a == Say(asm, id, shown)
              b == IF signed THEN Signature(a, id) ELSE a
              c == Reasoning(SetRedacted(b, id), id, Sealed)
  <1>1. Live(asm, {}) /\ SealsOwn /\ Apart(asm, own.redacted, own.readable)
    BY DEF DecoderInv, Skipped, SealedInv
  <1>2. own.redacted \cap more = {} /\ own.readable \subseteq more
    BY <1>1 DEF Apart
  <1>3. Apart(asm, own.redacted, more)
    BY <1>1, <1>2, MoreApart
  <1>4. shown # {} => id \in more
    OBVIOUS
  <1>. HIDE DEF shown, more
  <1>5. Live(a, {}) /\ Apart(a, own.redacted, more)
    <2>1. CASE shown = {}
      BY <1>1, <1>3, <2>1 DEF Say
    <2>2. CASE shown # {}
      BY <1>1, <1>3, <1>4, <2>2, SayLives, FillingIsApart DEF Say
    <2>. QED
      BY <2>1, <2>2
  <1>. HIDE DEF a
  <1>6. Live(b, {}) /\ Apart(b, own.redacted, more)
    BY <1>5, MarkingLives, FillingIsApart
  <1>. HIDE DEF b
  <1>7. ASSUME NEW o, Decode(b, o), o = [redacted |-> own.redacted, readable |-> more]
        PROVE  SealedInv'
    <2>1. codec' = "bedrock" /\ own' = o /\ asm' = b
      BY <1>7 DEF Decode
    <2>2. SealsOwn' /\ own'.redacted = own.redacted /\ own'.readable = more
      BY <1>7, <2>1 DEF SealsOwn
    <2>. QED
      BY <1>6, <2>1, <2>2, StepKeepsSeals, ApartKeepsSeals
  <1>8. ASSUME id \notin more,
               NEW o, Decode(c, o), o = [redacted |-> own.redacted \cup {id}, readable |-> more]
        PROVE  SealedInv'
    <2>. DEFINE redacted == own.redacted \cup {id}
    <2>1. codec' = "bedrock" /\ own' = o /\ asm' = c
      BY <1>8 DEF Decode
    <2>2. SealsOwn' /\ own'.redacted = redacted /\ own'.readable = more
      BY <1>8, <2>1 DEF SealsOwn
    <2>3. redacted \cap more = {} /\ own.redacted \subseteq redacted /\ id \in redacted
      BY <1>2, <1>8
    <2>. HIDE DEF redacted
    <2>4. Apart(b, redacted, more)
      BY <1>6, <2>3, MoreApart
    <2>5. Apart(c, redacted, more)
      BY <1>6, <2>3, <2>4, SealIsApart
    <2>. QED
      BY <2>1, <2>2, <2>5, StepKeepsSeals, ApartKeepsSeals
  <1>9. [own EXCEPT !.readable = more] = [redacted |-> own.redacted, readable |-> more]
    BY <1>1 DEF SealsOwn
  <1>10. \/ Decode(b, [own EXCEPT !.readable = more])
         \/ Fail
         \/ id \notin more /\ Decode(c, [redacted |-> own.redacted \cup {id}, readable |-> more])
    BY DEF ReasoningDelta, a, b, more, shown
  <1>. HIDE DEF c
  <1>. QED
    BY <1>7, <1>8, <1>9, <1>10, FailKeepsSeals

LEMMA BedrockKeepsSeals ==
    ASSUME DecoderInv, SealedInv, BedrockNext
    PROVE  SealedInv'
  <1>1. codec = "bedrock" /\ ~over
    BY MayRead DEF BedrockNext, Ends
  <1>2. Live(asm, {}) /\ SealsOwn /\ Apart(asm, own.redacted, own.readable)
    BY <1>1 DEF DecoderInv, Skipped, SealedInv
  <1>3. ASSUME NEW a, Live(a, {}), Apart(a, own.redacted, own.readable),
               asm' = Complete(a), own' = own, codec' = codec, over' = TRUE
        PROVE  SealedInv'
    BY <1>1, <1>2, <1>3, CompleteKeepsSeals, BedrockStops
  <1>4. ASSUME NEW e, BedrockEvent(e)
        PROVE  SealedInv'
    <2>1. CASE Bedrock(Started(asm))
      BY <1>1, <1>2, <2>1, NoteIsApart, BedrockGoesOn
    <2>2. CASE Bedrock(Start(asm, e.id, IF e.named THEN "Call" ELSE "NamelessCall"))
      BY <1>1, <1>2, <2>2, OpenIsApart, BedrockGoesOn DEF Start
    <2>3. CASE Bedrock(Text(asm, e.id, e.text))
      BY <1>1, <1>2, <2>3, FillingIsApart, BedrockGoesOn
    <2>4. CASE CallDelta(e.id, e.text)
      BY <1>1, <1>2, <2>4, FillingIsApart, BedrockGoesOn, FailKeepsSeals DEF CallDelta
    <2>5. CASE ReasoningDelta(e.id, e.told, e.signed, e.sealed)
      BY <1>1, <2>5, ReasoningDeltaKeepsSeals
    <2>6. CASE Bedrock(End(asm, e.id))
      BY <1>1, <1>2, <2>6, EndIsApart, BedrockGoesOn
    <2>7. CASE ConverseStop(e.reason)
      BY <1>1, <1>2, <2>7, NoteIsApart, BedrockGoesOn, FailKeepsSeals DEF ConverseStop
    <2>8. CASE Metadata
      <3>1. Live(Usage(asm), {}) /\ Apart(Usage(asm), own.redacted, own.readable)
        BY <1>2, UsageLives, NoteIsApart
      <3>2. Complete(Usage(asm)).completed = TRUE
        BY <3>1, CompleteAppends DEF Live
      <3>. QED
        BY <1>3, <2>8, <3>1, <3>2 DEF Metadata, Bedrock, Decode
    <2>9. CASE Bedrock(asm)
      BY <1>1, <1>2, <2>9, BedrockGoesOn
    <2>. QED
      BY <1>4, <2>1, <2>2, <2>3, <2>4, <2>5, <2>6, <2>7, <2>8, <2>9 DEF BedrockEvent
  <1>5. ASSUME Finish(Complete(asm)) PROVE SealedInv'
    BY <1>2, <1>3, <1>5 DEF Finish
  <1>. QED
    BY <1>4, <1>5 DEF BedrockNext

\* A sealed payload is kept apart from readable text, and told to nobody.
LEMMA SealsInvariant == Spec => []SealedInv
  <1>1. Init => SealedInv
    <2>. SUFFICES ASSUME Init, codec = "bedrock" PROVE SealedInv
      BY DEF SealedInv
    <2>1. own = BedrockNew
      BY DEF Init, NewDecoder
    <2>2. DOMAIN asm.blocks = {} /\ \A i \in DOMAIN asm.out : asm.out[i].type = "Accounting"
      <3>1. New.blocks = <<>> /\ New.out = <<>>
        BY DEF New
      <3>2. Usage(New).blocks = <<>> /\ Usage(New).out = Append(<<>>, [type |-> "Accounting"])
        BY <3>1 DEF Usage, Emit, New
      <3>. QED
        BY <3>1, <3>2, AppendSeq, EmptyIsSeq DEF Init, InitStream
    <2>3. Apart(asm, own.redacted, own.readable)
      BY <2>1, <2>2 DEF Apart, Untold, MarkedSealed, EndedSealed, BedrockNew
    <2>. QED
      BY <2>1, <2>3, ApartKeepsSeals DEF SealedInv, SealsOwn, BedrockNew
  <1>2. DecoderInv /\ SealedInv /\ [Next]_vars => SealedInv'
    <2>. SUFFICES ASSUME DecoderInv, SealedInv, [Next]_vars PROVE SealedInv'
      OBVIOUS
    <2>1. ASSUME asm' = asm, codec' = codec, own' = own, over' = over PROVE SealedInv'
      BY <2>1 DEF SealedInv, SealsOwn
    <2>2. CASE UNCHANGED vars \/ Over
      BY <2>1, <2>2 DEF vars, Over
    <2>3. CASE BedrockNext
      BY <2>3, BedrockKeepsSeals
    <2>4. CASE Broken
      <3>1. CASE codec = "bedrock"
        BY <2>4, <3>1, FailKeepsSeals
      <3>2. CASE codec # "bedrock"
        BY <2>4, <3>2 DEF Broken, SealedInv
      <3>. QED
        BY <3>1, <3>2
    <2>5. CASE AnthropicNext \/ ChatNext \/ GeminiNext \/ ResponsesNext
      <3>1. codec # "bedrock"
        BY <2>5, MayRead DEF AnthropicNext, AnthropicEnds, ChatNext, GeminiNext, ResponsesNext, Ends
      <3>2. codec' = codec
        BY <2>5, CodecStays
      <3>. QED
        BY <3>1, <3>2 DEF SealedInv
    <2>. QED
      BY <2>2, <2>3, <2>4, <2>5 DEF Next
  <1>. QED
    BY <1>1, <1>2, DecoderInvariant, PTL DEF Spec

----------------------------------------------------------------------------
(***************************************************************************)
(* The items of the Responses decoder that are done.                       *)
(***************************************************************************)

\* reconcile: an open block holds the whole then, whatever it held before.
LEMMA ReconcileTellsWhole ==
    ASSUME NEW a, NEW exempt, Live(a, exempt), NEW id, NEW latched,
           NEW kind \in {"Text", "Reasoning", "Call"},
           OpenAs(a, id, kind), NEW whole
    PROVE  LET b == Reconcile(a, id, latched, whole)
           IN  IsOpen(b, id) /\ b.blocks[id].text = whole
  <1>. DEFINE block == a.blocks[id]
              missing == Missing(block.text, whole)
              tail == CHOOSE rest \in missing : TRUE
              shape == ShapeOf(block.kind)
              b == Reconcile(a, id, latched, whole)
  <1>1. Latch(a, id, latched) = a /\ block.open /\ id \in DOMAIN a.blocks /\ IsBlock(block)
    BY DEF Latch, Open, OpenAs, IsOpen, Known, Live, Coherent, IsAssembler
  <1>2. block.kind # "Opaque"
    BY DEF OpenAs, Fits, IsCall
  <1>3. b = IF block.text = whole THEN a
            ELSE IF missing = {} THEN Mark(a, id, "text", whole)
            ELSE AppendTo(a, id, shape, tail)
    BY <1>1, <1>2 DEF Reconcile
  <1>4. ASSUME NEW text, NEW c, c.blocks = [a.blocks EXCEPT ![id] = [block EXCEPT !.text = text]]
        PROVE  IsOpen(c, id) /\ c.blocks[id].text = text
    <2>1. c.blocks[id] = [block EXCEPT !.text = text] /\ id \in DOMAIN c.blocks
      BY <1>1, <1>4
    <2>. HIDE DEF block
    <2>. QED
      BY <1>1, <2>1 DEF IsOpen, Known, IsBlock
  <1>5. IsAssembler(a)
    BY DEF Live, Coherent
  <1>. SUFFICES IsOpen(b, id) /\ b.blocks[id].text = whole
    OBVIOUS
  <1>. HIDE DEF b, missing
  <1>6. CASE block.text = whole
    <2>1. b = a
      BY <1>3, <1>6
    <2>. QED
      BY <1>1, <1>6, <2>1 DEF IsOpen, Known
  <1>7. CASE block.text # whole /\ missing = {}
    <2>1. b = Mark(a, id, "text", whole) /\ IsOpen(a, id)
      BY <1>1, <1>3, <1>7 DEF IsOpen, Known
    <2>2. b.blocks = [a.blocks EXCEPT ![id] = [block EXCEPT !.text = whole]]
      BY <1>5, <2>1 DEF Mark, IsAssembler
    <2>. HIDE DEF block
    <2>. QED
      BY <1>4, <2>2
  <1>8. CASE block.text # whole /\ missing # {}
    <2>1. b = AppendTo(a, id, shape, tail) /\ block.text \o tail = whole
      BY <1>3, <1>8 DEF Missing, missing
    <2>2. OpenAs(a, id, shape)
      BY <1>1, <1>2 DEF OpenAs, IsOpen, Known, Fits, ShapeOf, IsCall
    <2>. HIDE DEF tail, shape
    <2>3. b.blocks = [a.blocks EXCEPT ![id] = [block EXCEPT !.text = block.text \o tail]]
      BY <1>5, <2>1, <2>2 DEF AppendTo, Emit, Grow, DeltaOf, IsAssembler
    <2>. HIDE DEF block
    <2>4. b.blocks = [a.blocks EXCEPT ![id] = [block EXCEPT !.text = whole]]
      BY <2>1, <2>3
    <2>. QED
      BY <1>4, <2>4
  <1>. QED
    BY <1>6, <1>7, <1>8

\* The caller has heard that block id ended with the whole text.
ToldWhole(h, id, whole) ==
    \E i \in DOMAIN h : h[i].type = "BlockEnd" /\ h[i].id = id /\ h[i].part.text = whole

LEMMA ToldStays ==
    ASSUME NEW h, IsSeq(h), NEW id, NEW whole, ToldWhole(h, id, whole), NEW x
    PROVE  ToldWhole(Append(h, x), id, whole)
  <1>1. \A i \in DOMAIN h : i \in DOMAIN Append(h, x) /\ Append(h, x)[i] = h[i]
    <2>1. Len(h) \in Nat
      BY SeqFacts
    <2>2. \A i \in 1..Len(h) : i \in 1..(Len(h) + 1)
      BY <2>1
    <2>. QED
      BY <2>2, AppendSeq, SeqFacts
  <1>. QED
    BY <1>1 DEF ToldWhole

LEMMA EndTellsWhole ==
    ASSUME NEW a, NEW exempt, Live(a, exempt), NEW id, IsOpen(a, id)
    PROVE  ToldWhole(End(a, id).out, id, a.blocks[id].text)
  <1>. DEFINE x == BlockEndOf(a, id)
  <1>1. End(a, id).out = Append(a.out, x)
    BY DEF End, Live, Coherent, IsAssembler
  <1>2. x.type = "BlockEnd" /\ x.id = id /\ x.part.text = a.blocks[id].text
    BY DEF BlockEndOf, PartOf
  <1>3. IsSeq(a.out)
    BY DEF Live, Coherent, Kept
  <1>4. Len(a.out) + 1 \in DOMAIN Append(a.out, x) /\ Append(a.out, x)[Len(a.out) + 1] = x
    <2>1. Len(a.out) \in Nat
      BY <1>3, SeqFacts
    <2>2. Len(a.out) + 1 \in 1..(Len(a.out) + 1)
      BY <2>1
    <2>. QED
      BY <1>3, <2>2, AppendSeq
  <1>. HIDE DEF x
  <1>. QED
    BY <1>1, <1>2, <1>4 DEF ToldWhole

\* What follows an item does not take back what was told of it.
LEMMA ReplayTellsOn ==
    ASSUME NEW a, NEW exempt, Live(a, exempt), codec = "responses", NEW other, NEW delivered,
           NEW id, NEW whole, ToldWhole(a.out, id, whole)
    PROVE  ToldWhole(Replay(a, other, delivered).out, id, whole)
  <1>. DEFINE opaque == IF other \in delivered THEN ReplayId(other) ELSE other
              b == Start(a, opaque, "Opaque")
              c == SetOpaqueData(b, opaque, <<"item">>)
  <1>1. Replay(a, other, delivered) = End(c, opaque)
    BY DEF Replay
  <1>. HIDE DEF opaque
  <1>2. Live(b, exempt) /\ Known(b, opaque)
    BY LatchLives DEF Kinds
  <1>3. ToldWhole(b.out, id, whole)
    <2>1. CASE Known(a, opaque)
      BY <2>1 DEF Start, Open
    <2>2. CASE ~Known(a, opaque)
      <3>. DEFINE x == [type |-> "BlockStart", id |-> opaque, kind |-> "Opaque"]
      <3>1. b.out = Append(a.out, x)
        BY <2>2 DEF Start, Open, Live, Coherent, IsAssembler
      <3>. HIDE DEF x, b
      <3>. QED
        BY <3>1, ToldStays DEF Live, Coherent, Kept
    <2>. QED
      BY <2>1, <2>2
  <1>. HIDE DEF b
  <1>4. Live(c, exempt) /\ c.out = b.out
    <2>1. Latch(b, opaque, "Opaque") = b
      BY <1>2 DEF Latch, Open
    <2>2. c = b \/ c = Mark(b, opaque, "text", <<"item">>)
      BY <2>1 DEF SetOpaqueData
    <2>3. Mark(b, opaque, "text", <<"item">>).out = b.out
      BY <1>2 DEF Mark, Live, Coherent, IsAssembler
    <2>. QED
      BY <1>2, <2>2, <2>3, MarkingLives
  <1>. HIDE DEF c
  <1>5. End(c, opaque).out \in {c.out, Append(c.out, BlockEndOf(c, opaque))}
    BY <1>4 DEF End, Live, Coherent, IsAssembler
  <1>. QED
    BY <1>1, <1>3, <1>4, <1>5, ToldStays DEF Live, Coherent, Kept

LEMMA ItemEndsTellsWhole ==
    ASSUME codec = "responses", Live(asm, own.skipped), NEW id,
           NEW kind \in {"Text", "Reasoning", "Call"},
           NEW whole, whole # <<>>, OpenAs(asm, id, kind), ItemEnds(id, kind, whole)
    PROVE  ToldWhole(out', id, whole)
  <1>. DEFINE a         == StartItem(Latched, id, kind)
              heard     == whole # <<>> /\ kind \in {"Text", "Reasoning", "Call"}
              latchKind == IF kind = "Call" THEN "NamelessCall" ELSE kind
              b         == IF heard THEN Reconcile(a, id, latchKind, whole) ELSE a
              delivered == own.delivered \cup (IF heard THEN {id} ELSE {})
              ended     == End(b, id)
              c         == IF kind \in {"Text", "Reasoning"} THEN Replay(ended, id, delivered)
                           ELSE ended
  <1>1. asm' = c
    BY DEF ItemEnds, Decode
  <1>2. heard
    OBVIOUS
  <1>3. latchKind \in Kinds
    BY DEF Kinds
  <1>. HIDE DEF heard, latchKind, delivered
  <1>4. Live(Latched, own.skipped) /\ Latched.blocks = asm.blocks
    <2>1. Live(Latched, own.skipped)
      BY StartedLives DEF Latched
    <2>2. Latched.blocks = asm.blocks
      BY DEF Latched, Started, Emit, Live, Coherent, IsAssembler
    <2>. QED
      BY <2>1, <2>2
  <1>5. Live(a, own.skipped) /\ OpenAs(a, id, kind)
    <2>1. Live(a, own.skipped)
      BY <1>4, StartItemLives
    <2>. DEFINE first == Latched
    <2>2. OpenAs(first, id, kind) /\ Known(first, id)
      BY <1>4 DEF OpenAs, IsOpen, Known
    <2>3. a = IF kind = "Call" THEN RepairIdentity(first, id, "Call") ELSE first
      BY <2>2 DEF StartItem, Start, Open
    <2>4. kind = "Call" => OpenAs(RepairIdentity(first, id, "Call"), id, "Call")
      <3>. SUFFICES ASSUME kind = "Call" PROVE OpenAs(RepairIdentity(first, id, "Call"), id, "Call")
        OBVIOUS
      <3>1. IsBlock(first.blocks[id]) /\ id \in DOMAIN first.blocks /\ first.blocks[id].open
        BY <1>4, <2>2 DEF OpenAs, IsOpen, Known, Live, Coherent, IsAssembler
      <3>2. RepairIdentity(first, id, "Call").blocks
               = [first.blocks EXCEPT ![id] = [first.blocks[id] EXCEPT !.kind = "Call"]]
        BY <1>4, <2>2 DEF RepairIdentity, Mark, OpenAs, Live, Coherent, IsAssembler
      <3>. HIDE DEF first
      <3>. QED
        BY <3>1, <3>2 DEF OpenAs, IsOpen, Known, Fits, IsCall, IsBlock
    <2>. QED
      BY <2>1, <2>2, <2>3, <2>4
  <1>. HIDE DEF a
  <1>6. Live(b, own.skipped) /\ IsOpen(b, id) /\ b.blocks[id].text = whole
    BY <1>2, <1>3, <1>5, ReconcileLives, ReconcileTellsWhole
  <1>. HIDE DEF b
  <1>7. Live(ended, own.skipped) /\ ToldWhole(ended.out, id, whole)
    BY <1>6, EndLives, EndTellsWhole
  <1>. HIDE DEF ended
  <1>8. ToldWhole(c.out, id, whole)
    BY <1>7, ReplayTellsOn
  <1>. HIDE DEF c
  <1>. QED
    BY <1>1, <1>8 DEF out

\* Nothing happens once the stream is over.
LEMMA OverStutters == ASSUME Next, over PROVE UNCHANGED vars
  BY DEF Next, AnthropicNext, AnthropicEnds, BedrockNext, ChatNext, GeminiNext, ResponsesNext,
     Ends, Upcoming, Broken, Over

LEMMA DoneIsTold ==
    ASSUME DecoderInv, [Next]_vars, ~UNCHANGED vars,
           NEW n \in Index, NEW kind \in {"Text", "Reasoning", "Call"}, NEW whole \in Wholes \ {<<>>},
           codec = "responses", ItemId(n) \notin Skipped, OpenAs(asm, ItemId(n), kind),
           ItemDone(ItemId(n), kind, whole)
    PROVE  ToldWhole(out', ItemId(n), whole)
  <1>1. ~over
    BY OverStutters
  <1>2. Live(asm, own.skipped) /\ ItemId(n) \notin own.skipped
    BY <1>1 DEF DecoderInv, Skipped
  <1>3. ItemEnds(ItemId(n), kind, whole)
    BY <1>2 DEF ItemDone
  <1>. QED
    BY <1>2, <1>3, ItemEndsTellsWhole

\* What a protocol says of a block holds of the part the caller gets: a sealed
\* Bedrock payload stays whole and unheard, every Anthropic and Bedrock call was
\* announced, and the part of a Responses item that is done is the whole item.
THEOREM BlocksTellTheTruth == Spec => BlocksKeepTheirWord
  <1>1. DecoderInv => CallsAnnounced
    BY DEF DecoderInv, Tells, Announces, Announced, CallsAnnounced
  <1>2. SealedInv => SealedStaysWhole
    <2>1. \A text : IsSealed(text) => \A j \in DOMAIN text : text[j] = Sealed[1]
      BY DEF IsSealed
    <2>. HIDE DEF Sealed
    <2>. QED
      BY <2>1 DEF SealedInv, SealsKept, SealedStaysWhole, out
  <1>3. DecoderInv /\ [Next]_vars =>
           [\A n \in Index, kind \in {"Text", "Reasoning", "Call"}, whole \in Wholes \ {<<>>} :
              LET id == ItemId(n)
              IN  /\ codec = "responses" /\ id \notin Skipped
                  /\ OpenAs(asm, id, kind)
                  /\ ItemDone(id, kind, whole)
                  => \E i \in DOMAIN out' :
                        /\ out'[i].type = "BlockEnd" /\ out'[i].id = id
                        /\ out'[i].part.text = whole]_vars
    BY DoneIsTold DEF ToldWhole
  <1>. QED
    BY <1>1, <1>2, <1>3, DecoderInvariant, SealsInvariant, PTL
       DEF Spec, BlocksKeepTheirWord, DoneTellsTheItem
=============================================================================
