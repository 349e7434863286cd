----------------------- MODULE StreamContract_proofs ------------------------
(* Lemmas about histories that keep the contract of StreamContract. *)
EXTENDS StreamContract, SequenceTheorems, TLAPS

LEMMA EmptyKeeps == KeepsContract(<<>>)
  BY DEF KeepsContract

\* The contract only ever looks back: a history grows by legal items.
LEMMA AppendKeeps ==
    ASSUME NEW T, NEW h \in Seq(T), NEW x \in T, KeepsContract(h), MayFollow(h, x)
    PROVE  KeepsContract(Append(h, x))
  <1>. SUFFICES ASSUME NEW i \in 1..Len(Append(h, x))
                PROVE  MayFollow(SubSeq(Append(h, x), 1, i - 1), Append(h, x)[i])
    BY DEF KeepsContract
  <1>1. CASE i \in 1..Len(h)
    <2>1. Append(h, x)[i] = h[i]
      BY <1>1
    <2>2. SubSeq(Append(h, x), 1, i - 1) = SubSeq(h, 1, i - 1)
      BY <1>1
    <2>. QED
      BY <1>1, <2>1, <2>2 DEF KeepsContract
  <1>2. CASE i = Len(h) + 1
    <2>1. Append(h, x)[i] = x
      BY <1>2
    <2>2. SubSeq(Append(h, x), 1, i - 1) = h
      BY <1>2
    <2>. QED
      BY <2>1, <2>2
  <1>. QED
    BY <1>1, <1>2

\* Every beginning of a history that keeps the contract keeps it, and the item
\* after that beginning may follow it.
LEMMA PrefixKeeps ==
    ASSUME NEW T, NEW s \in Seq(T), NEW t \in Seq(T), KeepsContract(s \o t)
    PROVE  /\ KeepsContract(s)
           /\ t # <<>> => MayFollow(s, Head(t))
  <1>1. KeepsContract(s)
    <2>. SUFFICES ASSUME NEW i \in 1..Len(s)
                  PROVE  MayFollow(SubSeq(s, 1, i - 1), s[i])
      BY DEF KeepsContract
    <2>1. i \in 1..Len(s \o t) /\ (s \o t)[i] = s[i]
      OBVIOUS
    <2>2. SubSeq(s \o t, 1, i - 1) = SubSeq(s, 1, i - 1)
      OBVIOUS
    <2>. QED
      BY <2>1, <2>2 DEF KeepsContract
  <1>2. ASSUME t # <<>> PROVE MayFollow(s, Head(t))
    <2>. DEFINE i == Len(s) + 1
    <2>1. i \in 1..Len(s \o t) /\ (s \o t)[i] = Head(t)
      BY <1>2
    <2>2. SubSeq(s \o t, 1, i - 1) = s
      OBVIOUS
    <2>. QED
      BY <2>1, <2>2 DEF KeepsContract
  <1>. QED
    BY <1>1, <1>2

\* An error may follow every history that has not ended yet.
LEMMA ErrorMayFollow ==
    ASSUME NEW h, NEW e, \A i \in DOMAIN h : ~IsTerminal(h[i])
    PROVE  MayFollow(h, Err(e))
  BY DEF MayFollow, Err

\* One error or one response alone is a history that keeps the contract.
LEMMA OutputMayStandAlone ==
    ASSUME NEW x, x.type \in {"Ended", "Err"}
    PROVE  MayFollow(<<>>, x)
  BY DEF MayFollow, OpenBlocks, Ids

\* The last item of a history that keeps the contract may follow the others.
LEMMA LastFollows ==
    ASSUME NEW T, NEW h \in Seq(T), NEW x \in T, KeepsContract(Append(h, x))
    PROVE  MayFollow(h, x)
  <1>1. Append(h, x) = h \o <<x>> /\ <<x>> \in Seq(T)
    OBVIOUS
  <1>2. <<x>> # <<>> /\ Head(<<x>>) = x
    OBVIOUS
  <1>. QED
    BY <1>1, <1>2, PrefixKeeps
=============================================================================
