--------------------------- MODULE SwitchTextProofs ---------------------------
(***************************************************************************)
(* Proofs about the algorithms on texts.  They are folds over sequences.    *)
(* Induction over the natural numbers is taken from the well-foundedness of *)
(* their order, for sets of numbers (NatSetInduction); from it follows that *)
(* the function a fold is defined by exists, and what it does step by step. *)
(***************************************************************************)
EXTENDS SwitchText, Listing, TLAPS, WellFoundedInduction, SequenceTheorems, FiniteSetTheorems

-----------------------------------------------------------------------------
(* Induction and folds.                                                     *)

\* A set that has 0 and the successor of each of its numbers has them all.
LEMMA NatSetInduction ==
    ASSUME NEW S, 0 \in S, \A n \in Nat : n \in S => n + 1 \in S
    PROVE  \A n \in Nat : n \in S
<1> DEFINE T == Nat \ S
           R == {ss \in Nat \X Nat : ss[1] < ss[2]}
<1>1. IsWellFoundedOn(R, Nat)
  BY NatLessThanWellFounded DEF OpToRel
<1>2. SUFFICES ASSUME T # {} PROVE FALSE
  OBVIOUS
<1>3. PICK x \in T : \A y \in T : ~(<<y, x>> \in R)
  <2> HIDE DEF R
  <2> QED BY <1>1, <1>2, WFMin, Zenon
<1>4. x - 1 \in T
  BY <1>3
<1>5. <<x - 1, x>> \in R
  BY <1>4
<1> QED
  BY <1>3, <1>4, <1>5

\* A set of some of the first numbers has a largest one.
LEMMA MaxOfSome ==
    ASSUME NEW N \in Nat, NEW s \in SUBSET (1..N), s # {}
    PROVE  Max(s) \in s /\ \A y \in s : Max(s) >= y
<1> DEFINE T == {m \in Nat : \A t \in SUBSET (1..m) : t # {} => \E x \in t : \A y \in t : x >= y}
<1>1. 0 \in T
  <2>1. 1..0 = {}
    OBVIOUS
  <2> QED BY <2>1, Zenon
<1>2. ASSUME NEW m \in Nat, m \in T PROVE m + 1 \in T
  <2> SUFFICES ASSUME NEW t \in SUBSET (1..(m + 1)), t # {} PROVE \E x \in t : \A y \in t : x >= y
    OBVIOUS
  <2>1. CASE m + 1 \in t
    BY <2>1
  <2>2. CASE m + 1 \notin t
    <3>1. t \in SUBSET (1..m)
      BY <2>2
    <3> QED BY <3>1, <1>2
  <2> QED BY <2>1, <2>2
<1>3. N \in T
  <2> HIDE DEF T
  <2> QED BY <1>1, <1>2, NatSetInduction
<1> QED
  BY <1>3, Zenon DEF Max

\* The largest of the first n numbers is n.
LEMMA MaxOfPrefix ==
    ASSUME NEW n \in Nat \ {0}
    PROVE  1..n # {} /\ Max(1..n) = n /\ (1..n) \ {n} = 1..(n - 1)
<1>1. n \in 1..n /\ n \in Nat
  OBVIOUS
<1>2. Max(1..n) \in 1..n /\ \A y \in 1..n : Max(1..n) >= y
  BY <1>1, MaxOfSome, Zenon
<1>3. Max(1..n) = n
  BY <1>1, <1>2
<1>4. (1..n) \ {n} = 1..(n - 1)
  OBVIOUS
<1> QED
  BY <1>1, <1>3, <1>4

\* What a fold over the first places is, for every set of them.
IsFold(h, m, base, step) ==
    \A s \in SUBSET (1..m) : h[s] = IF s = {} THEN base ELSE step[<<h[s \ {Max(s)}], Max(s)>>]

\* There is a function that folds every set of places.
LEMMA FoldExists ==
    ASSUME NEW N \in Nat, NEW V, NEW base \in V, NEW step \in [V \X (1..N) -> V]
    PROVE  \E h \in [SUBSET (1..N) -> V] : IsFold(h, N, base, step)
<1> DEFINE P(m) == \E h \in [SUBSET (1..m) -> V] : IsFold(h, m, base, step)
           T == {m \in Nat : m <= N => P(m)}
<1>1. P(0)
  <2> DEFINE h == [s \in SUBSET (1..0) |-> base]
  <2>1. \A s \in SUBSET (1..0) : s = {}
    OBVIOUS
  <2>2. h \in [SUBSET (1..0) -> V] /\ IsFold(h, 0, base, step)
    BY <2>1 DEF IsFold
  <2> QED BY <2>2, Zenon
<1>2. ASSUME NEW m \in Nat, P(m), m + 1 <= N PROVE P(m + 1)
  <2>1. PICK g \in [SUBSET (1..m) -> V] : IsFold(g, m, base, step)
    BY <1>2
  <2> DEFINE h == [s \in SUBSET (1..(m + 1)) |->
                      IF m + 1 \in s THEN step[<<g[s \ {m + 1}], m + 1>>] ELSE g[s]]
  <2>2. ASSUME NEW s \in SUBSET (1..(m + 1)) PROVE s \ {m + 1} \in SUBSET (1..m)
    OBVIOUS
  <2>3. h \in [SUBSET (1..(m + 1)) -> V]
    <3>1. ASSUME NEW s \in SUBSET (1..(m + 1)), m + 1 \in s PROVE h[s] \in V
      <4>1. g[s \ {m + 1}] \in V
        BY <2>2
      <4>2. <<g[s \ {m + 1}], m + 1>> \in V \X (1..N)
        BY <4>1, <1>2
      <4> QED BY <3>1, <4>2
    <3>2. ASSUME NEW s \in SUBSET (1..(m + 1)), m + 1 \notin s PROVE h[s] \in V
      <4>1. s \ {m + 1} = s
        BY <3>2
      <4>2. g[s] \in V
        BY <2>2, <4>1
      <4> QED BY <3>2, <4>2
    <3> QED BY <3>1, <3>2, Zenon
  <2>4. IsFold(h, m + 1, base, step)
    <3> SUFFICES ASSUME NEW s \in SUBSET (1..(m + 1))
                 PROVE  h[s] = IF s = {} THEN base ELSE step[<<h[s \ {Max(s)}], Max(s)>>]
      BY Zenon DEF IsFold
    <3>1. CASE m + 1 \in s
      <4>1. Max(s) = m + 1
        <5>1. m + 1 \in Nat
          OBVIOUS
        <5>2. Max(s) \in s /\ \A y \in s : Max(s) >= y
          BY <3>1, <5>1, MaxOfSome, Zenon
        <5>3. Max(s) \in 1..(m + 1) /\ Max(s) >= m + 1
          BY <3>1, <5>2, Zenon
        <5> QED BY <5>3
      <4>2. h[s \ {m + 1}] = g[s \ {m + 1}]
        OBVIOUS
      <4> QED BY <3>1, <4>1, <4>2
    <3>2. CASE m + 1 \notin s
      <4>1. s \in SUBSET (1..m)
        BY <3>2
      <4>2. h[s] = g[s] /\ h[s \ {Max(s)}] = g[s \ {Max(s)}]
        BY <3>2, Zenon
      <4>3. g[s] = IF s = {} THEN base ELSE step[<<g[s \ {Max(s)}], Max(s)>>]
        BY <2>1, <4>1 DEF IsFold
      <4> QED BY <4>2, <4>3
    <3> QED BY <3>1, <3>2
  <2> QED BY <2>3, <2>4, Zenon
<1>3. \A m \in Nat : m \in T
  <2> HIDE DEF P
  <2>1. 0 \in T
    BY <1>1
  <2>2. ASSUME NEW m \in Nat, m \in T PROVE m + 1 \in T
    BY <1>2, <2>2
  <2> HIDE DEF T
  <2> QED BY <2>1, <2>2, NatSetInduction
<1>4. P(N)
  <2> HIDE DEF P
  <2> QED BY <1>3
<1> QED
  BY <1>4


\* Such a function takes the places one after the other.
LEMMA FoldOfPrefixes ==
    ASSUME NEW N \in Nat, NEW iter, NEW base, NEW step, IsFold(iter, N, base, step)
    PROVE  /\ iter[1..0] = base
           /\ \A n \in 1..N : iter[1..n] = step[<<iter[1..(n - 1)], n>>]
<1>1. 1..0 = {} /\ 1..0 \in SUBSET (1..N)
  OBVIOUS
<1>2. ASSUME NEW n \in 1..N PROVE iter[1..n] = step[<<iter[1..(n - 1)], n>>]
  <2>1. n \in Nat \ {0} /\ 1..n \in SUBSET (1..N)
    OBVIOUS
  <2>2. 1..n # {} /\ Max(1..n) = n /\ (1..n) \ {n} = 1..(n - 1)
    BY <2>1, MaxOfPrefix, Zenon
  <2> QED BY <2>1, <2>2, Zenon DEF IsFold
<1> QED
  BY <1>1, <1>2, Zenon DEF IsFold

\* What a function defined by recursion on the places is.
IsRecursion(f, N, base, step) ==
    f[0] = base /\ \A n \in 1..N : f[n] = step[<<f[n - 1], n>>]

\* A function defined by recursion on the places exists.
LEMMA StepsExist ==
    ASSUME NEW N \in Nat, NEW V, NEW base \in V, NEW step \in [V \X (1..N) -> V]
    PROVE  \E f \in [0..N -> V] : IsRecursion(f, N, base, step)
<1>1. PICK h \in [SUBSET (1..N) -> V] : IsFold(h, N, base, step)
  BY FoldExists, Zenon
<1>2. /\ h[1..0] = base
      /\ \A n \in 1..N : h[1..n] = step[<<h[1..(n - 1)], n>>]
  BY <1>1, FoldOfPrefixes
<1> DEFINE f == [n \in 0..N |-> h[1..n]]
<1>3. ASSUME NEW n \in 0..N PROVE 1..n \in SUBSET (1..N)
  OBVIOUS
<1>4. f \in [0..N -> V]
  BY <1>3
<1>5. ASSUME NEW n \in 1..N PROVE n \in 0..N /\ n - 1 \in 0..N
  OBVIOUS
<1>6. IsRecursion(f, N, base, step)
  BY <1>2, <1>5 DEF IsRecursion
<1> QED
  BY <1>4, <1>6

-----------------------------------------------------------------------------
(* Sequences of sequences.                                                  *)

\* To flatten a sequence is to append its elements one after the other.
LEMMA FlattenSteps ==
    ASSUME NEW S, NEW seqs \in Seq(Seq(S))
    PROVE  \E f \in [0..Len(seqs) -> Seq(S)] :
              /\ f[0] = <<>>
              /\ \A n \in 1..Len(seqs) : f[n] = f[n - 1] \o seqs[n]
              /\ FlattenSeq(seqs) = f[Len(seqs)]
<1>1. PICK N \in Nat : N = Len(seqs)
  OBVIOUS
<1>2. DOMAIN seqs = 1..N /\ \A n \in 1..N : seqs[n] \in Seq(S)
  BY <1>1
<1>3. PICK f \in [0..N -> Seq(S)] :
            f[0] = <<>> /\ \A n \in 1..N : f[n] = f[n - 1] \o seqs[n]
  <2> DEFINE step == [p \in Seq(S) \X (1..N) |-> p[1] \o seqs[p[2]]]
  <2>1. step \in [Seq(S) \X (1..N) -> Seq(S)] /\ <<>> \in Seq(S)
    BY <1>2
  <2>2. \A v \in Seq(S), n \in 1..N : step[<<v, n>>] = v \o seqs[n]
    BY Zenon
  <2> HIDE DEF step
  <2>3. PICK f \in [0..N -> Seq(S)] : IsRecursion(f, N, <<>>, step)
    BY <2>1, StepsExist, Zenon
  <2>4. ASSUME NEW n \in 1..N PROVE f[n] = f[n - 1] \o seqs[n]
    <3>1. n - 1 \in 0..N
      OBVIOUS
    <3> QED BY <2>2, <2>3, <3>1, Zenon DEF IsRecursion
  <2> QED BY <2>3, <2>4, Zenon DEF IsRecursion
<1>4. CASE N = 0
  <2>1. FlattenSeq(seqs) = seqs
    BY <1>1, <1>4 DEF FlattenSeq
  <2>2. seqs = <<>>
    <3>1. Len(seqs) = 0
      BY <1>1, <1>4
    <3> QED BY <3>1, EmptySeq
  <2> QED BY <1>1, <1>3, <1>4, <2>1, <2>2
<1>5. CASE N # 0
  <2>0. 1 \in 1..N /\ f[1] = f[0] \o seqs[1]
    <3>1. 1 \in 1..N
      BY <1>5
    <3>2. f[1] = f[1 - 1] \o seqs[1]
      BY <1>3, <3>1, Zenon
    <3> QED BY <3>1, <3>2
  <2> DEFINE Def(g) == [i \in 1..N |-> IF i = 1 THEN seqs[i] ELSE g[i - 1] \o seqs[i]]
             flatten == CHOOSE g : g = Def(g)
             g0 == [n \in 1..N |-> f[n]]
  <2>1. g0 = Def(g0)
    <3>1. ASSUME NEW i \in 1..N PROVE f[i] = Def(g0)[i]
      <4>1. CASE i = 1
        <5>1. f[1] = <<>> \o seqs[1] /\ seqs[1] \in Seq(S)
          BY <1>2, <1>3, <2>0
        <5>2. f[1] = seqs[1]
          BY <5>1, ConcatEmptySeq
        <5> QED BY <4>1, <5>2
      <4>2. CASE i # 1
        <5>1. i - 1 \in 1..N
          BY <4>2
        <5>2. f[i] = f[i - 1] \o seqs[i]
          BY <1>3, Zenon
        <5> QED BY <4>2, <5>1, <5>2, Zenon
      <4> QED BY <4>1, <4>2
    <3> QED BY <3>1, Zenon
  <2>2. flatten = Def(flatten)
    <3> HIDE DEF Def, g0
    <3> QED BY <2>1
  <2>3. FlattenSeq(seqs) = flatten[N]
    BY <1>1, <1>5 DEF FlattenSeq
  <2> HIDE DEF flatten
  <2>4. \A i \in 1..N : flatten[i] = IF i = 1 THEN seqs[i] ELSE flatten[i - 1] \o seqs[i]
    BY <2>2, Zenon
  <2> DEFINE T == {n \in Nat : n \in 1..N => flatten[n] = f[n]}
  <2>5. 0 \in T
    OBVIOUS
  <2>6. ASSUME NEW n \in T, n + 1 \in 1..N PROVE flatten[n + 1] = f[n + 1]
    <3>1. CASE n = 0
      <4>1. f[1] = <<>> \o seqs[1] /\ seqs[1] \in Seq(S) /\ flatten[1] = seqs[1]
        BY <1>2, <1>3, <2>0, <2>4, Zenon
      <4>2. f[1] = seqs[1]
        BY <4>1, ConcatEmptySeq
      <4> QED BY <3>1, <4>1, <4>2
    <3>2. CASE n # 0
      <4>1. n \in 1..N /\ (n + 1) - 1 = n /\ n + 1 # 1
        BY <2>6, <3>2
      <4>2. f[n + 1] = f[n] \o seqs[n + 1]
        BY <1>3, <2>6, <4>1, Zenon
      <4>3. flatten[n + 1] = flatten[n] \o seqs[n + 1]
        BY <2>4, <2>6, <4>1, Zenon
      <4> QED BY <2>6, <4>1, <4>2, <4>3, Zenon
    <3> QED BY <3>1, <3>2
  <2>7. \A n \in Nat : n \in T
    <3>1. ASSUME NEW n \in Nat, n \in T PROVE n + 1 \in T
      BY <2>6, <3>1
    <3> HIDE DEF T
    <3> QED BY <2>5, <3>1, NatSetInduction, Zenon
  <2>8. flatten[N] = f[N]
    BY <1>5, <2>7
  <2> QED BY <1>1, <1>3, <2>3, <2>8, Zenon
<1> QED
  BY <1>4, <1>5, Zenon

\* The modules of the algorithms mean the same by it.
LEMMA SameFlatten ==
    ASSUME NEW seqs
    PROVE  /\ Diagnostics!FlattenSeq(seqs) = FlattenSeq(seqs)
           /\ Candidate!FlattenSeq(seqs) = FlattenSeq(seqs)
           /\ Diff!FlattenSeq(seqs) = FlattenSeq(seqs)
  BY DEF FlattenSeq, Diagnostics!FlattenSeq, Candidate!FlattenSeq, Diff!FlattenSeq

-----------------------------------------------------------------------------
(* The targets of a ping.                                                   *)

\* How the list of targets grows, entry by entry.
Asked(entries) ==
    Diagnostics!FlattenSeq([n \in DOMAIN entries |-> Diagnostics!Expanded(entries[n])])

OneMore(v, t) == IF \E i \in 1..Len(v) : v[i] = t THEN v ELSE Append(v, t)

IsParse(f, all) == f[0] = <<>> /\ \A n \in 1..Len(all) : f[n] = OneMore(f[n - 1], all[n])

\* The targets are collected address by address (service.py:parse_ipv4_targets).
LEMMA ParseSteps ==
    ASSUME NEW S, NEW entries, Asked(entries) \in Seq(S)
    PROVE  \E f : /\ IsParse(f, Asked(entries))
                  /\ Diagnostics!ParseIpv4Targets(entries) = f[Len(Asked(entries))]
<1> DEFINE all == Asked(entries)
<1>0. all \in Seq(S)
  OBVIOUS
<1> HIDE DEF all
<1>1. PICK N \in Nat : N = Len(all)
  BY <1>0
<1> DEFINE step == [p \in Seq(S) \X (1..N) |-> OneMore(p[1], all[p[2]])]
           Def(h) == [s \in SUBSET (1..N) |->
                        IF s = {} THEN <<>> ELSE OneMore(h[s \ {Max(s)}], all[Max(s)])]
           iter == CHOOSE h : h = Def(h)
<1>2. DOMAIN all = 1..N /\ \A n \in 1..N : all[n] \in S
  BY <1>0, <1>1
<1>3. step \in [Seq(S) \X (1..N) -> Seq(S)] /\ <<>> \in Seq(S)
  BY <1>2 DEF OneMore
<1>4. \A v \in Seq(S), n \in 1..N : step[<<v, n>>] = OneMore(v, all[n])
  OBVIOUS
<1>5. PICK h \in [SUBSET (1..N) -> Seq(S)] : IsFold(h, N, <<>>, step)
  <2> HIDE DEF step
  <2> QED BY <1>3, FoldExists, Zenon
<1>6. \A s \in SUBSET (1..N) : s # {} => Max(s) \in 1..N /\ h[s \ {Max(s)}] \in Seq(S)
  <2>1. ASSUME NEW s \in SUBSET (1..N), s # {} PROVE Max(s) \in s
    BY <2>1, MaxOfSome, Zenon
  <2> QED BY <2>1, Zenon
<1>7. h = Def(h)
  <2>1. \A s \in SUBSET (1..N) :
            h[s] = IF s = {} THEN <<>> ELSE OneMore(h[s \ {Max(s)}], all[Max(s)])
    <3> HIDE DEF step
    <3> QED BY <1>4, <1>5, <1>6, Zenon DEF IsFold
  <2> QED BY <2>1, Zenon
<1>8. iter = Def(iter)
  <2> HIDE DEF Def
  <2> QED BY <1>7
<1>9. Diagnostics!ParseIpv4Targets(entries) = iter[1..N]
  BY <1>2, Zenon DEF all, Asked, OneMore, Diagnostics!ParseIpv4Targets, Diagnostics!FoldLeft,
              Diagnostics!MapThenFoldSet, Diagnostics!Contains, Diagnostics!Max, Max
<1> HIDE DEF iter
<1> DEFINE f == [n \in 0..N |-> iter[1..n]]
<1>10. f[0] = <<>>
  <2>1. 1..0 = {} /\ {} \in SUBSET (1..N)
    OBVIOUS
  <2> QED BY <1>8, <2>1
<1>11. ASSUME NEW n \in 1..N PROVE f[n] = OneMore(f[n - 1], all[n])
  <2>1. n \in Nat \ {0} /\ 1..n \in SUBSET (1..N) /\ n - 1 \in 0..N /\ n \in 0..N
    OBVIOUS
  <2>2. 1..n # {} /\ Max(1..n) = n /\ (1..n) \ {n} = 1..(n - 1)
    BY <2>1, MaxOfPrefix, Zenon
  <2> QED BY <1>8, <2>1, <2>2, Zenon
<1>12. Diagnostics!ParseIpv4Targets(entries) = f[N]
  BY <1>9
<1> HIDE DEF f
<1> QED
  BY <1>1, <1>10, <1>11, <1>12 DEF IsParse, all

\* Where an address was asked for first.
FirstAsked(all, t) == CHOOSE n \in DOMAIN all : all[n] = t /\ \A m \in 1..(n - 1) : all[m] # t

\* The list v has the addresses among the first n that were asked for, each
\* once, in the order in which they were first.
Gathers(v, all, n, S) ==
    /\ v \in Seq(S)
    /\ \A i \in 1..Len(v) : \E m \in 1..n : all[m] = v[i]
    /\ \A m \in 1..n : \E i \in 1..Len(v) : all[m] = v[i]
    /\ \A i \in 1..Len(v) : FirstAsked(all, v[i]) \in 1..n
    /\ \A i, j \in 1..Len(v) : i < j => FirstAsked(all, v[i]) < FirstAsked(all, v[j])

\* The targets are what was asked for, in the order it was asked for first.
LEMMA TargetsInOrder ==
    ASSUME NEW S, NEW entries, Asked(entries) \in Seq(S)
    PROVE  Gathers(Diagnostics!ParseIpv4Targets(entries), Asked(entries), Len(Asked(entries)), S)
<1> DEFINE all == Asked(entries)
<1>0. all \in Seq(S)
  OBVIOUS
<1>1. PICK f : IsParse(f, all) /\ Diagnostics!ParseIpv4Targets(entries) = f[Len(all)]
  BY ParseSteps
<1> HIDE DEF all
<1>2. PICK N \in Nat : N = Len(all)
  BY <1>0
<1>3. DOMAIN all = 1..N /\ \A n \in 1..N : all[n] \in S
  BY <1>0, <1>2
<1> DEFINE Good(v, n) == Gathers(v, all, n, S)
<1>4. Good(f[0], 0)
  BY <1>1 DEF IsParse, Gathers
<1>5. ASSUME NEW n \in Nat, n + 1 \in 1..N, Good(f[n], n) PROVE Good(f[n + 1], n + 1)
  <2>1. f[n + 1] = IF \E i \in 1..Len(f[n]) : f[n][i] = all[n + 1]
                   THEN f[n] ELSE Append(f[n], all[n + 1])
    BY <1>1, <1>2, <1>5 DEF IsParse, OneMore
  <2>2. CASE \E i \in 1..Len(f[n]) : f[n][i] = all[n + 1]
    <3>1. f[n + 1] = f[n]
      BY <2>1, <2>2
    <3>2. \A m \in 1..(n + 1) : m \in 1..n \/ m = n + 1
      OBVIOUS
    <3>3. 1..n \subseteq 1..(n + 1)
      OBVIOUS
    <3> QED BY <1>5, <2>2, <3>1, <3>2, <3>3, ZenonT(60) DEF Gathers
  <2>3. CASE ~\E i \in 1..Len(f[n]) : f[n][i] = all[n + 1]
    <3> DEFINE v == f[n]
               w == Append(f[n], all[n + 1])
    <3>1. f[n + 1] = w
      BY <2>1, <2>3
    <3>2. /\ w \in Seq(S) /\ Len(w) = Len(v) + 1 /\ Len(v) \in Nat
          /\ \A i \in 1..Len(v) : w[i] = v[i]
          /\ w[Len(v) + 1] = all[n + 1]
      BY <1>3, <1>5 DEF Gathers
    <3>3. FirstAsked(all, all[n + 1]) = n + 1
      <4>1. \A m \in 1..n : all[m] # all[n + 1]
        BY <1>5, <2>3 DEF Gathers
      <4>2. n + 1 \in DOMAIN all /\ \A m \in 1..((n + 1) - 1) : all[m] # all[n + 1]
        BY <1>3, <1>5, <4>1
      <4>3. ASSUME NEW k \in DOMAIN all, all[k] = all[n + 1], \A m \in 1..(k - 1) : all[m] # all[n + 1]
            PROVE  k = n + 1
        <5>1. k \in 1..N
          BY <1>3
        <5>2. ~(n + 1 < k)
          BY <1>5, <4>3, <5>1
        <5>3. ~(k < n + 1)
          BY <1>5, <4>1, <4>3, <5>1
        <5> QED BY <5>1, <5>2, <5>3
      <4> QED BY <4>2, <4>3 DEF FirstAsked
    <3> HIDE DEF v, w
    <3>4. Gathers(v, all, n, S)
      BY <1>5 DEF v
    <3>5. Gathers(w, all, n + 1, S)
      <4>1. \A i \in 1..Len(w) : i \in 1..Len(v) \/ (i = Len(v) + 1 /\ w[i] = all[n + 1])
        BY <3>2
      <4>2. \A m \in 1..(n + 1) : m \in 1..n \/ m = n + 1
        OBVIOUS
      <4>3. \A i \in 1..Len(w) : \E m \in 1..(n + 1) : all[m] = w[i]
        <5>1. ASSUME NEW i \in 1..Len(v) PROVE \E m \in 1..(n + 1) : all[m] = v[i]
          <6>1. PICK m \in 1..n : all[m] = v[i]
            BY <3>4 DEF Gathers
          <6>2. m \in 1..(n + 1)
            OBVIOUS
          <6> QED BY <6>1, <6>2
        <5>2. n + 1 \in 1..(n + 1)
          OBVIOUS
        <5> QED BY <3>2, <4>1, <5>1, <5>2
      <4>4. \A m \in 1..(n + 1) : \E i \in 1..Len(w) : all[m] = w[i]
        <5>1. ASSUME NEW m \in 1..n PROVE \E i \in 1..Len(w) : all[m] = w[i]
          <6>1. PICK i \in 1..Len(v) : all[m] = v[i]
            BY <3>4 DEF Gathers
          <6>2. i \in 1..Len(w) /\ w[i] = v[i]
            BY <3>2
          <6> QED BY <6>1, <6>2
        <5>2. Len(v) + 1 \in 1..Len(w)
          BY <3>2
        <5> QED BY <3>2, <4>2, <5>1, <5>2, Zenon
      <4>5. \A i \in 1..Len(w) : FirstAsked(all, w[i]) \in 1..(n + 1)
        <5>1. \A i \in 1..Len(v) : FirstAsked(all, v[i]) \in 1..(n + 1)
          BY <3>4 DEF Gathers
        <5>2. n + 1 \in 1..(n + 1)
          OBVIOUS
        <5> QED BY <3>2, <3>3, <4>1, <5>1, <5>2
      <4>6. \A i, j \in 1..Len(w) : i < j => FirstAsked(all, w[i]) < FirstAsked(all, w[j])
        <5> SUFFICES ASSUME NEW i \in 1..Len(w), NEW j \in 1..Len(w), i < j
                     PROVE  FirstAsked(all, w[i]) < FirstAsked(all, w[j])
          OBVIOUS
        <5>1. i \in 1..Len(v)
          BY <3>2
        <5>2. CASE j \in 1..Len(v)
          BY <3>2, <3>4, <5>1, <5>2 DEF Gathers
        <5>3. CASE w[j] = all[n + 1]
          <6>1. FirstAsked(all, w[i]) \in 1..n
            BY <3>2, <3>4, <5>1 DEF Gathers
          <6> QED BY <3>3, <5>3, <6>1
        <5> QED BY <4>1, <5>2, <5>3
      <4> QED BY <3>2, <4>3, <4>4, <4>5, <4>6 DEF Gathers
    <3> QED BY <3>1, <3>5 DEF w
  <2> QED BY <2>2, <2>3
<1>6. Good(f[N], N)
  <2> DEFINE T == {n \in Nat : n \in 0..N => Good(f[n], n)}
  <2>1. \A n \in Nat : n \in T
    <3> HIDE DEF Good
    <3>1. 0 \in T
      BY <1>4
    <3>2. ASSUME NEW n \in Nat, n \in T PROVE n + 1 \in T
      BY <1>5, <3>2
    <3> HIDE DEF T
    <3> QED BY <3>1, <3>2, NatSetInduction
  <2> HIDE DEF Good
  <2> QED BY <2>1
<1> QED
  BY <1>1, <1>2, <1>6 DEF all

-----------------------------------------------------------------------------
(* The lots of a ping.                                                      *)

\* How many targets come before the lot of worker w, of n targets and c workers.
Before(n, c, w) == (w - 1) * (n \div c) + Diagnostics!Smaller(w - 1, n % c)

\* The lots follow each other and reach the last target.
LEMMA LotsFit ==
    ASSUME NEW n \in Nat, NEW c \in Nat \ {0}
    PROVE  /\ Before(n, c, 1) = 0
           /\ Before(n, c, c + 1) = n
           /\ \A w \in 1..c : /\ Diagnostics!Share(n, c, w) \in Nat
                              /\ Before(n, c, w) \in Nat
                              /\ Before(n, c, w + 1) = Before(n, c, w) + Diagnostics!Share(n, c, w)
<1> DEFINE q == n \div c
           r == n % c
<1>1. q \in Nat /\ r \in 0..(c - 1) /\ n = c * q + r
  OBVIOUS
<1>2. \A w \in 1..(c + 1) : Before(n, c, w) = (w - 1) * q + IF w - 1 < r THEN w - 1 ELSE r
  BY DEF Before, Diagnostics!Smaller
<1>3. \A w \in 1..c : Diagnostics!Share(n, c, w) = q + IF w <= r THEN 1 ELSE 0
  BY DEF Diagnostics!Share
<1> HIDE DEF q, r
<1>4. \A w \in 1..c : w * q = (w - 1) * q + q /\ (w - 1) * q \in Nat
  BY <1>1
<1>5. 0 * q = 0
  BY <1>1
<1>6. Before(n, c, 1) = 0
  <2>1. 1 \in 1..(c + 1)
    OBVIOUS
  <2> QED BY <1>1, <1>2, <1>5, <2>1
<1>7. Before(n, c, c + 1) = n
  <2>1. c + 1 \in 1..(c + 1) /\ (c + 1) - 1 = c
    OBVIOUS
  <2> QED BY <1>1, <1>2, <2>1
<1>8. ASSUME NEW w \in 1..c
      PROVE  /\ Diagnostics!Share(n, c, w) \in Nat
             /\ Before(n, c, w) \in Nat
             /\ Before(n, c, w + 1) = Before(n, c, w) + Diagnostics!Share(n, c, w)
  <2>1. w \in 1..(c + 1) /\ w + 1 \in 1..(c + 1) /\ (w + 1) - 1 = w
    OBVIOUS
  <2>2. w * q \in Nat /\ (w - 1) * q \in Nat
    BY <1>1
  <2> QED BY <1>1, <1>2, <1>3, <1>4, <2>1, <2>2
<1> QED
  BY <1>6, <1>7, <1>8

\* Where a lot starts, as the sum of the shares before it.
Started(n, c, w) ==
    Diagnostics!FoldLeft(LAMBDA sum, v : sum + Diagnostics!Share(n, c, v), 0, [v \in 1..(w - 1) |-> v])

\* A lot starts where the lots before it end (service.py:split_targets_for_workers).
LEMMA LotStarts ==
    ASSUME NEW n \in Nat, NEW c \in Nat \ {0}, NEW w \in 1..(c + 1)
    PROVE  Started(n, c, w) = Before(n, c, w)
<1>1. PICK N \in Nat : N = w - 1
  OBVIOUS
<1> DEFINE step == [p \in Int \X (1..N) |-> p[1] + Diagnostics!Share(n, c, p[2])]
           Def(h) == [s \in SUBSET (1..N) |->
                        IF s = {} THEN 0 ELSE h[s \ {Max(s)}] + Diagnostics!Share(n, c, [v \in 1..N |-> v][Max(s)])]
           iter == CHOOSE h : h = Def(h)
<1>2. \A k \in 1..N : k \in 1..c /\ Diagnostics!Share(n, c, k) \in Nat
  BY <1>1, LotsFit
<1>3. step \in [Int \X (1..N) -> Int]
  BY <1>2
<1>4. \A v \in Int, k \in 1..N : step[<<v, k>>] = v + Diagnostics!Share(n, c, k)
  OBVIOUS
<1>5. PICK h \in [SUBSET (1..N) -> Int] : IsFold(h, N, 0, step)
  <2> HIDE DEF step
  <2>1. \A base \in Int : \E h \in [SUBSET (1..N) -> Int] : IsFold(h, N, base, step)
    BY <1>3, FoldExists, Zenon
  <2>2. 0 \in Int
    OBVIOUS
  <2> QED BY <2>1, <2>2, Zenon
<1>6. \A s \in SUBSET (1..N) : s # {} => Max(s) \in 1..N /\ h[s \ {Max(s)}] \in Int
  <2>1. ASSUME NEW s \in SUBSET (1..N), s # {} PROVE Max(s) \in s
    BY <2>1, MaxOfSome, Zenon
  <2> QED BY <2>1, Zenon
<1>7. h = Def(h)
  <2>1. \A s \in SUBSET (1..N) :
            h[s] = IF s = {} THEN 0 ELSE h[s \ {Max(s)}] + Diagnostics!Share(n, c, Max(s))
    <3> HIDE DEF step
    <3> QED BY <1>4, <1>5, <1>6, Zenon DEF IsFold
  <2> QED BY <1>6, <2>1, Zenon
<1>8. iter = Def(iter)
  <2> HIDE DEF Def
  <2> QED BY <1>7
<1>9. Started(n, c, w) = iter[1..N]
  BY <1>1 DEF Started, Diagnostics!FoldLeft, Diagnostics!MapThenFoldSet, Diagnostics!Max, Max
<1> HIDE DEF iter
<1>10. iter[1..0] = 0
  <2>1. 1..0 = {} /\ {} \in SUBSET (1..N)
    OBVIOUS
  <2> QED BY <1>8, <2>1
<1>11. ASSUME NEW k \in 1..N PROVE iter[1..k] = iter[1..(k - 1)] + Diagnostics!Share(n, c, k)
  <2>1. k \in Nat \ {0} /\ 1..k \in SUBSET (1..N)
    OBVIOUS
  <2>2. 1..k # {} /\ Max(1..k) = k /\ (1..k) \ {k} = 1..(k - 1)
    BY <2>1, MaxOfPrefix, Zenon
  <2> QED BY <1>8, <2>1, <2>2, Zenon
<1> DEFINE T == {k \in Nat : k <= N => iter[1..k] = Before(n, c, k + 1)}
<1>12. 0 \in T
  BY <1>10, LotsFit
<1>13. ASSUME NEW k \in Nat, k \in T PROVE k + 1 \in T
  <2> SUFFICES ASSUME k + 1 <= N PROVE iter[1..(k + 1)] = Before(n, c, (k + 1) + 1)
    OBVIOUS
  <2>1. k + 1 \in 1..N /\ (k + 1) - 1 = k /\ k + 1 \in 1..c
    BY <1>2
  <2>2. iter[1..(k + 1)] = iter[1..k] + Diagnostics!Share(n, c, k + 1)
    BY <1>11, <2>1
  <2>3. iter[1..k] = Before(n, c, k + 1)
    BY <1>13
  <2>4. Before(n, c, (k + 1) + 1) = Before(n, c, k + 1) + Diagnostics!Share(n, c, k + 1)
    BY <2>1, LotsFit
  <2> QED BY <2>2, <2>3, <2>4
<1>14. N \in T
  <2> HIDE DEF T
  <2> QED BY <1>12, <1>13, NatSetInduction
<1> QED
  BY <1>1, <1>9, <1>14

\* A lot.
LotOf(targets, n, c, w) ==
    SubSeq(targets, Started(n, c, w) + 1, Started(n, c, w) + Diagnostics!Share(n, c, w))

\* The lots, put together in their order, are the targets.
LEMMA LotsTogether ==
    ASSUME NEW S, NEW targets \in Seq(S), NEW n \in Nat, n = Len(targets), NEW c \in Nat \ {0}
    PROVE  FlattenSeq([w \in 1..c |-> LotOf(targets, n, c, w)]) = targets
<1> DEFINE Lot(w) == LotOf(targets, n, c, w)
           lots == [w \in 1..c |-> Lot(w)]
<1>2. \A w \in 1..c : Lot(w) = SubSeq(targets, Before(n, c, w) + 1, Before(n, c, w + 1))
  <2> SUFFICES ASSUME NEW w \in 1..c
               PROVE  Lot(w) = SubSeq(targets, Before(n, c, w) + 1, Before(n, c, w + 1))
    OBVIOUS
  <2>1. w \in 1..(c + 1)
    OBVIOUS
  <2>2. Started(n, c, w) = Before(n, c, w)
    BY <2>1, LotStarts
  <2>3. Before(n, c, w + 1) = Before(n, c, w) + Diagnostics!Share(n, c, w)
    BY LotsFit
  <2> QED BY <2>2, <2>3, Zenon DEF LotOf
<1> HIDE DEF Lot
<1>3. \A w \in 1..(c + 1) : Before(n, c, w) \in 0..n
  <2> DEFINE T == {k \in Nat : k <= c => Before(n, c, (c + 1) - k) \in 0..n}
  <2>1. 0 \in T
    <3>1. Before(n, c, c + 1) = n
      BY LotsFit, Zenon
    <3>2. (c + 1) - 0 = c + 1
      OBVIOUS
    <3>3. Before(n, c, (c + 1) - 0) \in 0..n
      BY <3>1, <3>2
    <3> QED BY <3>3
  <2>2. ASSUME NEW k \in Nat, k \in T PROVE k + 1 \in T
    <3> SUFFICES ASSUME k + 1 <= c PROVE Before(n, c, (c + 1) - (k + 1)) \in 0..n
      OBVIOUS
    <3>1. PICK w \in 1..c : w = (c + 1) - (k + 1)
      OBVIOUS
    <3>2. w + 1 = (c + 1) - k
      BY <3>1
    <3>3. Before(n, c, w + 1) \in 0..n
      BY <2>2, <3>2
    <3>4. Before(n, c, w) \in Nat /\ Before(n, c, w + 1) = Before(n, c, w) + Diagnostics!Share(n, c, w)
          /\ Diagnostics!Share(n, c, w) \in Nat
      BY LotsFit, Zenon
    <3>5. Before(n, c, w) \in 0..n
      BY <3>3, <3>4
    <3> QED BY <3>1, <3>5
  <2>3. \A k \in Nat : k \in T
    <3> HIDE DEF T
    <3> QED BY <2>1, <2>2, NatSetInduction
  <2>4. ASSUME NEW w \in 1..(c + 1) PROVE Before(n, c, w) \in 0..n
    <3>1. (c + 1) - w \in Nat /\ (c + 1) - w <= c /\ (c + 1) - ((c + 1) - w) = w
      OBVIOUS
    <3> QED BY <2>3, <3>1
  <2> QED BY <2>4
<1>4. \A w \in 1..c : Before(n, c, w) <= Before(n, c, w + 1)
  <2>1. \A w \in 1..c : Diagnostics!Share(n, c, w) \in Nat /\ Before(n, c, w) \in Nat
              /\ Before(n, c, w + 1) = Before(n, c, w) + Diagnostics!Share(n, c, w)
    BY LotsFit, Zenon
  <2> QED BY <2>1
<1>5. lots \in Seq(Seq(S)) /\ Len(lots) = c /\ \A w \in 1..c : lots[w] = Lot(w)
  <2>1. ASSUME NEW w \in 1..c PROVE Lot(w) \in Seq(S)
    <3>1. w \in 1..(c + 1) /\ w + 1 \in 1..(c + 1)
      OBVIOUS
    <3>2. Before(n, c, w) \in 0..n /\ Before(n, c, w + 1) \in 0..n
      BY <1>3, <3>1
    <3>3. PICK i \in 0..n, j \in 0..n : i = Before(n, c, w) /\ j = Before(n, c, w + 1)
      BY <3>2
    <3>4. SubSeq(targets, i + 1, j) \in Seq(S)
      BY SubSeqProperties
    <3> QED BY <1>2, <3>3, <3>4, Zenon
  <2> QED BY <2>1
<1>6. PICK f \in [0..c -> Seq(S)] :
            /\ f[0] = <<>>
            /\ \A w \in 1..c : f[w] = f[w - 1] \o lots[w]
            /\ FlattenSeq(lots) = f[c]
  <2> HIDE DEF lots
  <2>1. PICK f \in [0..Len(lots) -> Seq(S)] :
            /\ f[0] = <<>>
            /\ \A w \in 1..Len(lots) : f[w] = f[w - 1] \o lots[w]
            /\ FlattenSeq(lots) = f[Len(lots)]
    BY <1>5, FlattenSteps, Zenon
  <2> QED BY <1>5, <2>1, Zenon
<1> DEFINE T == {k \in Nat : k <= c => f[k] = SubSeq(targets, 1, Before(n, c, k + 1))}
<1>7. 0 \in T
  <2>1. Before(n, c, 0 + 1) = 0
    BY LotsFit
  <2>2. SubSeq(targets, 1, 0) = <<>>
    BY SubSeqEmpty
  <2> QED BY <1>6, <2>1, <2>2, Zenon
<1>8. ASSUME NEW k \in Nat, k \in T PROVE k + 1 \in T
  <2> SUFFICES ASSUME k + 1 <= c PROVE f[k + 1] = SubSeq(targets, 1, Before(n, c, (k + 1) + 1))
    OBVIOUS
  <2>1. k + 1 \in 1..c /\ (k + 1) - 1 = k /\ k + 1 \in 1..(c + 1) /\ (k + 1) + 1 \in 1..(c + 1)
    OBVIOUS
  <2>2. f[k + 1] = SubSeq(targets, 1, Before(n, c, k + 1))
                      \o SubSeq(targets, Before(n, c, k + 1) + 1, Before(n, c, (k + 1) + 1))
    <3>1. f[k + 1] = f[k] \o lots[k + 1]
      <4> HIDE DEF lots
      <4>1. f[k + 1] = f[(k + 1) - 1] \o lots[k + 1]
        BY <1>6, <2>1, Zenon
      <4> QED BY <2>1, <4>1, Zenon
    <3>2. lots[k + 1] = Lot(k + 1)
      BY <1>5, <2>1
    <3>3. Lot(k + 1) = SubSeq(targets, Before(n, c, k + 1) + 1, Before(n, c, (k + 1) + 1))
      BY <1>2, <2>1, Zenon
    <3>4. f[k] = SubSeq(targets, 1, Before(n, c, k + 1))
      BY <1>8
    <3> HIDE DEF lots
    <3> QED BY <3>1, <3>2, <3>3, <3>4, Zenon
  <2>3. /\ Before(n, c, k + 1) \in 0..n /\ Before(n, c, (k + 1) + 1) \in 0..n
        /\ Before(n, c, k + 1) <= Before(n, c, (k + 1) + 1)
    BY <1>3, <1>4, <2>1, Zenon
  <2>4. SubSeq(targets, 1, Before(n, c, k + 1))
            \o SubSeq(targets, Before(n, c, k + 1) + 1, Before(n, c, (k + 1) + 1))
          = SubSeq(targets, 1, Before(n, c, (k + 1) + 1))
    <3>1. PICK i \in 0..n, j \in 0..n : i = Before(n, c, k + 1) /\ j = Before(n, c, (k + 1) + 1) /\ i <= j
      BY <2>3
    <3>2. 1 \in 1..(Len(targets) + 1) /\ i \in (1 - 1)..Len(targets) /\ j \in i..Len(targets)
      BY <3>1
    <3>3. SubSeq(targets, 1, i) \o SubSeq(targets, i + 1, j) = SubSeq(targets, 1, j)
      BY <3>2, ConcatAdjacentSubSeq, Zenon
    <3> QED BY <3>1, <3>3, Zenon
  <2> QED BY <2>2, <2>4, Zenon
<1>9. f[c] = SubSeq(targets, 1, n)
  <2>1. c \in T
    <3> HIDE DEF T
    <3> QED BY <1>7, <1>8, NatSetInduction, Zenon
  <2>2. Before(n, c, c + 1) = n
    BY LotsFit
  <2> QED BY <2>1, <2>2
<1>10. SubSeq(targets, 1, n) = targets
  BY SubSeqFull
<1> HIDE DEF lots
<1> QED
  BY <1>6, <1>9, <1>10, Zenon DEF lots, Lot

\* Splitting the targets for any number of workers loses none and moves none.
LEMMA LotsAreTheTargets ==
    ASSUME NEW S, NEW targets \in Seq(S), NEW workers \in Nat \ {0}
    PROVE  Diagnostics!FlattenSeq(Diagnostics!SplitTargetsForWorkers(targets, workers)) = targets
<1> DEFINE n == Len(targets)
           c == Diagnostics!Smaller(workers, n)
           lots == [w \in 1..c |-> LotOf(targets, n, c, w)]
<1>1. n \in Nat /\ c \in Nat /\ (c = 0 => n = 0)
  BY DEF Diagnostics!Smaller
<1>2. Diagnostics!SplitTargetsForWorkers(targets, workers) = lots
  BY Zenon DEF Diagnostics!SplitTargetsForWorkers, Started, LotOf
<1>3. CASE c = 0
  <2>1. targets = <<>>
    <3>1. Len(targets) = 0
      BY <1>1, <1>3
    <3> QED BY <3>1, EmptySeq
  <2>2. lots = <<>>
    BY <1>3
  <2>3. Diagnostics!FlattenSeq(<<>>) = <<>>
    BY DEF Diagnostics!FlattenSeq
  <2> QED BY <1>2, <2>1, <2>2, <2>3, Zenon
<1>4. CASE c # 0
  <2>1. FlattenSeq(lots) = targets
    <3> HIDE DEF c
    <3> QED BY <1>1, <1>4, LotsTogether
  <2> QED BY <1>2, <2>1, SameFlatten
<1> QED
  BY <1>3, <1>4

\* The answers are put together from the lots.
LEMMA AnswersAreTheTargets ==
    ASSUME NEW S, NEW entries, NEW workers \in Nat \ {0}, Asked(entries) \in Seq(S)
    PROVE  Diagnostics!RunSwitchPing(entries, workers) = Diagnostics!ParseIpv4Targets(entries)
<1>1. Diagnostics!ParseIpv4Targets(entries) \in Seq(S)
  BY TargetsInOrder DEF Gathers
<1> QED
  BY <1>1, LotsAreTheTargets DEF Diagnostics!RunSwitchPing

-----------------------------------------------------------------------------
(* What was asked for is a sequence of addresses.                           *)

\* It is, for every list of ranges of addresses.
LEMMA AskedIsASequence ==
    ASSUME NEW k \in Nat, NEW entries \in [1..k -> Nat \X Nat]
    PROVE  Asked(entries) \in Seq(Int)
<1> DEFINE lists == [n \in DOMAIN entries |-> Diagnostics!Expanded(entries[n])]
<1>1. ASSUME NEW n \in 1..k PROVE Diagnostics!Expanded(entries[n]) \in Seq(Int)
  <2>1. PICK a \in Nat, b \in Nat : a = entries[n][1] /\ b = entries[n][2]
    OBVIOUS
  <2>2. Diagnostics!Expanded(entries[n]) = [i \in 1..(b - a + 1) |-> a + i - 1]
    BY <2>1 DEF Diagnostics!Expanded
  <2>3. CASE b - a + 1 \in Nat
    BY <2>2, <2>3
  <2>4. CASE b - a + 1 \notin Nat
    <3>1. 1..(b - a + 1) = 1..0
      BY <2>4
    <3> QED BY <2>2, <3>1
  <2> QED BY <2>3, <2>4
<1>2. lists \in Seq(Seq(Int))
  <2> HIDE DEF Diagnostics!Expanded
  <2> QED BY <1>1
<1> HIDE DEF lists
<1>3. PICK f \in [0..Len(lists) -> Seq(Int)] : FlattenSeq(lists) = f[Len(lists)]
  BY <1>2, FlattenSteps, Zenon
<1>4. FlattenSeq(lists) \in Seq(Int)
  BY <1>2, <1>3
<1> QED
  BY <1>4, SameFlatten DEF Asked, lists

\* The answers of a ping are those for the addresses asked for, each once and in
\* the order asked: for every list of ranges and every number of sessions
\* (service.py:run_switch_ping).
THEOREM PingAnswersAsAsked ==
    ASSUME NEW k \in Nat, NEW entries \in [1..k -> Nat \X Nat], NEW workers \in Nat \ {0}
    PROVE  LET asked    == Asked(entries)
               answered == Diagnostics!RunSwitchPing(entries, workers)
           IN  /\ ToSet(answered) = ToSet(asked)
               /\ \A m, n \in DOMAIN answered : m < n =>
                    FirstAsked(asked, answered[m]) < FirstAsked(asked, answered[n])
<1> DEFINE asked    == Asked(entries)
           answered == Diagnostics!RunSwitchPing(entries, workers)
<1>1. asked \in Seq(Int)
  BY AskedIsASequence, Zenon
<1>2. Gathers(answered, asked, Len(asked), Int)
  BY <1>1, AnswersAreTheTargets, TargetsInOrder
<1> HIDE DEF asked, answered
<1>3. DOMAIN answered = 1..Len(answered) /\ DOMAIN asked = 1..Len(asked)
  BY <1>1, <1>2 DEF Gathers
<1>4. ToSet(answered) = ToSet(asked)
  <2>1. ASSUME NEW x \in ToSet(answered) PROVE x \in ToSet(asked)
    <3>1. PICK i \in 1..Len(answered) : x = answered[i]
      BY <1>3, <2>1 DEF ToSet
    <3>2. PICK m \in 1..Len(asked) : asked[m] = answered[i]
      BY <1>2 DEF Gathers
    <3> QED BY <1>3, <3>1, <3>2, Zenon DEF ToSet
  <2>2. ASSUME NEW x \in ToSet(asked) PROVE x \in ToSet(answered)
    <3>1. PICK m \in 1..Len(asked) : x = asked[m]
      BY <1>3, <2>2 DEF ToSet
    <3>2. PICK i \in 1..Len(answered) : asked[m] = answered[i]
      BY <1>2 DEF Gathers
    <3> QED BY <1>3, <3>1, <3>2, Zenon DEF ToSet
  <2> QED BY <2>1, <2>2, Zenon
<1>5. \A m, n \in DOMAIN answered : m < n =>
            FirstAsked(asked, answered[m]) < FirstAsked(asked, answered[n])
  BY <1>2, <1>3 DEF Gathers
<1> QED
  BY <1>4, <1>5 DEF asked, answered

\* The property of a ping for the inputs of the run.
LEMMA PingInputsKeep ==
    ASSUME input \in PingInputs PROVE PingKeepsTargets
<1>0. PICK k \in Nat : input.entries \in [1..k -> Nat \X Nat] /\ input.workers \in Nat \ {0}
  <2>1. PICK e \in UNION {[1..n -> Entries] : n \in 1..MaxEntries}, w \in 1..4 :
            input = [task |-> "ping", entries |-> e, workers |-> w]
    BY DEF PingInputs
  <2>2. PICK k \in 1..MaxEntries : e \in [1..k -> Entries]
    OBVIOUS
  <2>3. Entries \subseteq Nat \X Nat
    BY SwitchTextAssumption DEF Entries
  <2>4. e \in [1..k -> Nat \X Nat] /\ k \in Nat
    BY <2>2, <2>3, SwitchTextAssumption
  <2> QED BY <2>1, <2>4
<1>1. PICK entries \in [1..k -> Nat \X Nat], workers \in Nat \ {0} :
            input.entries = entries /\ input.workers = workers
  BY <1>0, Zenon
<1> DEFINE asked    == FlattenSeq([n \in DOMAIN input.entries |-> Diagnostics!Expanded(input.entries[n])])
           answered == Diagnostics!RunSwitchPing(input.entries, input.workers)
<1>2. asked = Asked(entries) /\ answered = Diagnostics!RunSwitchPing(entries, workers)
  BY <1>1, SameFlatten, Zenon DEF Asked
<1> HIDE DEF asked, answered
<1>3. /\ ToSet(answered) = ToSet(asked)
      /\ \A m, n \in DOMAIN answered : m < n =>
            FirstAsked(asked, answered[m]) < FirstAsked(asked, answered[n])
  BY <1>2, PingAnswersAsAsked
<1> QED
  BY <1>3, Zenon DEF PingKeepsTargets, FirstAsked, asked, answered

-----------------------------------------------------------------------------
(* The health of an interface.                                              *)

\* An interface is healthy, or shut on purpose, only if all its counters are
\* zero; collisions count if the interface is full duplex, and only then
\* (service.py:classify_interface_health).
THEOREM HealthyMeansNoErrors ==
    ASSUME NEW nonzero \in SUBSET Diagnostics!Counters,
           NEW full_duplex \in BOOLEAN, NEW admin_down \in BOOLEAN, NEW up \in BOOLEAN
    PROVE  Diagnostics!ClassifyInterfaceHealth(nonzero, full_duplex, admin_down, up)
                \in {"healthy", "neutral"}
              <=> nonzero \subseteq (IF full_duplex THEN {} ELSE {"collisions"})
<1> DEFINE issues == Diagnostics!Issues(nonzero, full_duplex)
<1>1. Diagnostics!ClassifyInterfaceHealth(nonzero, full_duplex, admin_down, up)
            \in {"healthy", "neutral"} <=> issues = {}
  <2> HIDE DEF issues
  <2>1. Diagnostics!ClassifyInterfaceHealth(nonzero, full_duplex, admin_down, up) =
            CASE "physical" \in issues -> "danger"
              [] "physical" \notin issues /\ issues # {} -> "warning"
              [] issues = {} /\ ~admin_down /\ up -> "healthy"
              [] OTHER -> "neutral"
    BY DEF issues, Diagnostics!ClassifyInterfaceHealth
  <2>2. CASE "physical" \in issues
    BY <2>1, <2>2
  <2>3. CASE "physical" \notin issues /\ issues # {}
    BY <2>1, <2>3
  <2>4. CASE issues = {}
    BY <2>1, <2>4
  <2> QED BY <2>2, <2>3, <2>4
<1>2. issues = {} <=> nonzero \subseteq (IF full_duplex THEN {} ELSE {"collisions"})
  <2>1. issues = {} <=> /\ nonzero \cap Diagnostics!Carrier = {}
                        /\ nonzero \cap Diagnostics!Physical = {}
                        /\ "giants" \notin nonzero
                        /\ "late collision" \notin nonzero
                        /\ "collisions" \in nonzero => ~full_duplex
                        /\ nonzero \cap Diagnostics!Receive = {}
                        /\ nonzero \cap Diagnostics!Transmit = {}
                        /\ "input errors" \in nonzero => Diagnostics!Explained(nonzero)
    BY Zenon DEF Diagnostics!Issues
  <2>2. nonzero \cap Diagnostics!Physical = {} /\ nonzero \cap Diagnostics!Receive = {}
            /\ "giants" \notin nonzero => ~Diagnostics!Explained(nonzero)
    BY DEF Diagnostics!Explained
  <2>3. \A c \in Diagnostics!Counters :
            \/ c \in Diagnostics!Carrier \cup Diagnostics!Physical
                        \cup Diagnostics!Receive \cup Diagnostics!Transmit
            \/ c \in {"giants", "late collision", "collisions", "input errors"}
    BY Zenon DEF Diagnostics!Counters
  <2>4. "collisions" \notin Diagnostics!Carrier \cup Diagnostics!Physical
                        \cup Diagnostics!Receive \cup Diagnostics!Transmit
    BY DEF Diagnostics!Carrier, Diagnostics!Physical, Diagnostics!Receive, Diagnostics!Transmit
  <2>5. ASSUME issues = {}
        PROVE  nonzero \subseteq (IF full_duplex THEN {} ELSE {"collisions"})
    BY <2>1, <2>2, <2>3, <2>5, Zenon
  <2>6. ASSUME nonzero \subseteq (IF full_duplex THEN {} ELSE {"collisions"})
        PROVE  issues = {}
    <3>1. \A c \in nonzero : c = "collisions" /\ ~full_duplex
      BY <2>6
    <3>2. \A c \in nonzero : c \notin Diagnostics!Carrier \cup Diagnostics!Physical
                        \cup Diagnostics!Receive \cup Diagnostics!Transmit
      BY <2>4, <3>1
    <3> QED BY <2>1, <3>1, <3>2, Zenon
  <2> QED BY <2>5, <2>6
<1> QED
  BY <1>1, <1>2

\* The property of the health for the inputs of the run.
LEMMA HealthInputsSee ==
    ASSUME input \in HealthInputs PROVE HealthSeesErrors
<1>1. /\ input.nonzero \in SUBSET Diagnostics!Counters
      /\ input.full_duplex \in BOOLEAN /\ input.admin_down \in BOOLEAN /\ input.up \in BOOLEAN
  BY Zenon DEF HealthInputs
<1> QED
  BY <1>1, HealthyMeansNoErrors DEF HealthSeesErrors

-----------------------------------------------------------------------------
(* Numbers in ascending order.                                              *)

\* A finite set of integers that is not empty has a largest element.
LEMMA LargestExists ==
    ASSUME NEW S \in SUBSET Int, IsFiniteSet(S), S # {}
    PROVE  \E x \in S : \A y \in S : x >= y
<1> DEFINE T == {n \in Nat : \A s \in SUBSET Int : IsFiniteSet(s) /\ Cardinality(s) = n /\ s # {}
                                => \E x \in s : \A y \in s : x >= y}
<1>1. 0 \in T
  BY FS_EmptySet
<1>2. ASSUME NEW n \in Nat, n \in T PROVE n + 1 \in T
  <2> SUFFICES ASSUME NEW s \in SUBSET Int, IsFiniteSet(s), Cardinality(s) = n + 1, s # {}
               PROVE  \E x \in s : \A y \in s : x >= y
    OBVIOUS
  <2>1. PICK a \in s : TRUE
    BY Zenon
  <2>2. IsFiniteSet(s \ {a}) /\ Cardinality(s \ {a}) = n
    <3>1. IsFiniteSet(s \ {a}) /\ Cardinality(s \ {a}) = Cardinality(s) - 1
      BY <2>1, FS_RemoveElement, Zenon
    <3> QED BY <3>1
  <2>3. CASE s \ {a} = {}
    <3>1. \A y \in s : a >= y
      BY <2>3
    <3> QED BY <3>1
  <2>4. CASE s \ {a} # {}
    <3>1. PICK x \in s \ {a} : \A y \in s \ {a} : x >= y
      BY <1>2, <2>2, <2>4
    <3>2. CASE x >= a
      BY <3>1, <3>2
    <3>3. CASE ~(x >= a)
      <4>1. \A y \in s : a >= y
        BY <3>1, <3>3
      <4> QED BY <4>1
    <3> QED BY <3>2, <3>3
  <2> QED BY <2>3, <2>4
<1>3. \A n \in Nat : n \in T
  <2> HIDE DEF T
  <2> QED BY <1>1, <1>2, NatSetInduction
<1> QED
  BY <1>3, FS_CardinalityType

\* An enumeration of a set in ascending order.
IsAscending(s, S) ==
    /\ s \in [1..Cardinality(S) -> S]
    /\ \A m, n \in 1..Cardinality(S) : m < n => s[m] < s[n]

\* The numbers of a finite set can be listed in ascending order.
LEMMA AscendingExists ==
    ASSUME NEW S \in SUBSET Int, IsFiniteSet(S)
    PROVE  \E s : IsAscending(s, S)
<1> DEFINE T == {n \in Nat : \A t \in SUBSET Int : IsFiniteSet(t) /\ Cardinality(t) = n
                                => \E s : IsAscending(s, t)}
<1>1. 0 \in T
  <2> SUFFICES ASSUME NEW t \in SUBSET Int, IsFiniteSet(t), Cardinality(t) = 0
               PROVE  \E s : IsAscending(s, t)
    OBVIOUS
  <2>1. IsAscending(<<>>, t)
    BY DEF IsAscending
  <2> QED BY <2>1
<1>2. ASSUME NEW n \in Nat, n \in T PROVE n + 1 \in T
  <2> SUFFICES ASSUME NEW t \in SUBSET Int, IsFiniteSet(t), Cardinality(t) = n + 1
               PROVE  \E s : IsAscending(s, t)
    OBVIOUS
  <2>1. PICK x \in t : \A y \in t : x >= y
    <3>1. t # {}
      BY FS_EmptySet
    <3> QED BY <3>1, LargestExists
  <2>2. t \ {x} \in SUBSET Int /\ IsFiniteSet(t \ {x}) /\ Cardinality(t \ {x}) = n
    BY FS_RemoveElement
  <2>3. PICK s : IsAscending(s, t \ {x})
    BY <1>2, <2>2
  <2> DEFINE u == [m \in 1..(n + 1) |-> IF m = n + 1 THEN x ELSE s[m]]
  <2>4. /\ s \in [1..n -> t \ {x}]
        /\ \A m, k \in 1..n : m < k => s[m] < s[k]
    BY <2>2, <2>3, Zenon DEF IsAscending
  <2>5. \A m \in 1..(n + 1) : m # n + 1 => m \in 1..n
    OBVIOUS
  <2>6. u \in [1..(n + 1) -> t]
    BY <2>4, <2>5
  <2>7. ASSUME NEW m \in 1..(n + 1), NEW k \in 1..(n + 1), m < k PROVE u[m] < u[k]
    <3>1. m \in 1..n /\ u[m] = s[m]
      BY <2>7
    <3>2. CASE k = n + 1
      <4>1. s[m] \in t /\ s[m] # x
        BY <2>4, <3>1
      <4>2. s[m] <= x
        BY <2>1, <4>1, Zenon
      <4>3. s[m] \in Int /\ x \in Int /\ u[k] = x
        BY <3>2, <4>1, Zenon
      <4> HIDE DEF u
      <4> QED BY <3>1, <4>1, <4>2, <4>3
    <3>3. CASE k # n + 1
      BY <2>4, <2>5, <2>7, <3>1, <3>3
    <3> QED BY <3>2, <3>3
  <2>8. IsAscending(u, t)
    <3> HIDE DEF u
    <3> QED BY <2>6, <2>7 DEF IsAscending
  <2> QED BY <2>8
<1>3. \A n \in Nat : n \in T
  <2> HIDE DEF T
  <2> QED BY <1>1, <1>2, NatSetInduction
<1> QED
  BY <1>3, FS_CardinalityType

\* An enumeration in ascending order has every element.
LEMMA AscendingHasAll ==
    ASSUME NEW S \in SUBSET Int, IsFiniteSet(S), NEW s, IsAscending(s, S)
    PROVE  /\ Cardinality(S) \in Nat
           /\ \A x \in S : \E n \in 1..Cardinality(S) : s[n] = x
<1> DEFINE c == Cardinality(S)
<1>1. c \in Nat
  BY FS_CardinalityType
<1>3. s \in [1..c -> S] /\ \A m, n \in 1..c : m < n => s[m] < s[n]
  BY DEF IsAscending
<1>4. s \in Injection(1..c, S)
  <2>1. ASSUME NEW m \in 1..c, NEW n \in 1..c, s[m] = s[n] PROVE m = n
    <3>1. s[m] \in Int /\ s[n] \in Int
      BY <1>3, Zenon
    <3>2. ~(m < n) /\ ~(n < m)
      BY <1>3, <2>1, <3>1
    <3> QED BY <3>2
  <2> QED BY <1>3, <2>1 DEF Injection, IsInjective
<1>5. Cardinality(1..c) = c
  BY <1>1, FS_Interval
<1>6. s \in Surjection(1..c, S)
  BY <1>4, <1>5, FS_Injection
<1>7. \A x \in S : \E n \in 1..c : s[n] = x
  BY <1>6 DEF Surjection, Range
<1> QED
  BY <1>1, <1>7

\* In ascending order, n - 1 elements are smaller than the n-th: so the element at a
\* place is the one with as many below it.
LEMMA RanksAscend ==
    ASSUME NEW S \in SUBSET Int, IsFiniteSet(S), NEW s, IsAscending(s, S)
    PROVE  s = [n \in 1..Cardinality(S) |->
                    CHOOSE x \in S : Cardinality({y \in S : y < x}) = n - 1]
<1> DEFINE c == Cardinality(S)
           Below(x) == {y \in S : y < x}
<1>1. c \in Nat /\ \A x \in S : \E n \in 1..c : s[n] = x
  BY AscendingHasAll
<1>2. s \in [1..c -> S] /\ \A m, n \in 1..c : m < n => s[m] < s[n]
  BY DEF IsAscending
<1>3. ASSUME NEW n \in 1..c PROVE Cardinality(Below(s[n])) = n - 1
  <2> DEFINE f == [m \in 1..(n - 1) |-> s[m]]
  <2>1. \A m \in 1..(n - 1) : m \in 1..c /\ s[m] \in S /\ s[m] < s[n]
    BY <1>1, <1>2
  <2>2. \A x \in Below(s[n]) : \E m \in 1..(n - 1) : s[m] = x
    <3> TAKE x \in Below(s[n])
    <3>1. PICK m \in 1..c : s[m] = x
      BY <1>1
    <3>2. s[m] < s[n] /\ s[m] \in Int /\ s[n] \in Int
      BY <1>2, <3>1, Zenon
    <3>3. ~(n < m) /\ n # m
      BY <1>2, <3>2
    <3> QED BY <1>1, <3>1, <3>3
  <2>3. \A m, k \in 1..(n - 1) : s[m] = s[k] => m = k
    <3> SUFFICES ASSUME NEW m \in 1..(n - 1), NEW k \in 1..(n - 1), s[m] = s[k], m # k PROVE FALSE
      OBVIOUS
    <3>1. m \in 1..c /\ k \in 1..c /\ s[m] \in Int /\ s[k] \in Int
      BY <1>2, <2>1, Zenon
    <3>2. m < k \/ k < m
      OBVIOUS
    <3> QED BY <1>2, <3>1, <3>2
  <2>4. f \in [1..(n - 1) -> Below(s[n])]
    BY <2>1
  <2>5. \A m \in 1..(n - 1) : f[m] = s[m]
    OBVIOUS
  <2> HIDE DEF f, Below
  <2>6. f \in Bijection(1..(n - 1), Below(s[n]))
    BY <2>2, <2>3, <2>4, <2>5, Zenon DEF Bijection, Injection, Surjection, IsInjective
  <2>7. ExistsBijection(1..(n - 1), Below(s[n]))
    BY <2>6 DEF ExistsBijection
  <2>8. n - 1 \in Nat
    BY <1>1
  <2>9. IsFiniteSet(1..(n - 1)) /\ Cardinality(1..(n - 1)) = n - 1
    BY <2>8, FS_Interval
  <2> QED BY <2>7, <2>9, FS_Bijection
<1>4. ASSUME NEW n \in 1..c PROVE s[n] = CHOOSE x \in S : Cardinality(Below(x)) = n - 1
  <2>1. s[n] \in S /\ Cardinality(Below(s[n])) = n - 1
    BY <1>2, <1>3
  <2>2. ASSUME NEW x \in S, Cardinality(Below(x)) = n - 1 PROVE x = s[n]
    <3>1. PICK m \in 1..c : s[m] = x
      BY <1>1
    <3>2. m - 1 = n - 1
      BY <1>3, <2>2, <3>1
    <3>3. m = n
      BY <1>1, <3>2
    <3> QED BY <3>1, <3>3
  <2> HIDE DEF Below
  <2> QED BY <2>1, <2>2
<1> QED
  BY <1>2, <1>4, Zenon

\* What Ascending returns.
LEMMA AscendingLists ==
    ASSUME NEW S \in SUBSET Int, IsFiniteSet(S)
    PROVE  /\ Cardinality(S) \in Nat
           /\ Ascending(S) \in [1..Cardinality(S) -> S]
           /\ Ascending(S) \in Seq(S)
           /\ Len(Ascending(S)) = Cardinality(S)
           /\ \A m, n \in 1..Cardinality(S) : m < n => Ascending(S)[m] < Ascending(S)[n]
           /\ \A x \in S : \E n \in 1..Cardinality(S) : Ascending(S)[n] = x
<1> DEFINE c == Cardinality(S)
           s == Ascending(S)
<1>1. c \in Nat
  BY FS_CardinalityType
<1>2. IsAscending(s, S)
  <2>1. PICK t : IsAscending(t, S)
    BY AscendingExists
  <2> QED BY <2>1, RanksAscend, Zenon DEF Ascending
<1> HIDE DEF s
<1>3. s \in [1..c -> S] /\ \A m, n \in 1..c : m < n => s[m] < s[n]
  BY <1>2 DEF IsAscending
<1>7. \A x \in S : \E n \in 1..c : s[n] = x
  BY <1>2, AscendingHasAll
<1>8. s \in Seq(S) /\ Len(s) = c
  BY <1>1, <1>3
<1> QED
  BY <1>1, <1>3, <1>7, <1>8 DEF s

-----------------------------------------------------------------------------
(* Ranges of ports.                                                         *)

\* Runs of ports of one type in one slot.
RunsOf(type, slot) == [type : {type}, slot : {slot}, from : Int, to : Int]

IsRuns(f, type, slot, ports) ==
    /\ f[0] = <<>>
    /\ \A n \in 1..Len(ports) : f[n] = Candidate!Extended(f[n - 1], type, slot, ports[n])

\* A port extends the last run or starts one.
LEMMA ExtendedIsRuns ==
    ASSUME NEW type, NEW slot, NEW runs \in Seq(RunsOf(type, slot)), NEW p \in Int
    PROVE  Candidate!Extended(runs, type, slot, p) \in Seq(RunsOf(type, slot))
<1>1. [type |-> type, slot |-> slot, from |-> p, to |-> p] \in RunsOf(type, slot)
  BY DEF RunsOf
<1>2. CASE runs # <<>> /\ Candidate!Follows(Candidate!Last(runs).to, p)
  <2>1. Len(runs) \in 1..Len(runs)
    BY <1>2, EmptySeq
  <2>2. runs[Len(runs)] \in RunsOf(type, slot)
    BY <2>1
  <2>3. [runs[Len(runs)] EXCEPT !.to = p] \in RunsOf(type, slot)
    BY <2>2, Zenon DEF RunsOf
  <2>4. [runs EXCEPT ![Len(runs)] = [runs[Len(runs)] EXCEPT !.to = p]] \in Seq(RunsOf(type, slot))
    BY <2>1, <2>3, ExceptSeq
  <2>5. Candidate!Extended(runs, type, slot, p) = [runs EXCEPT ![Len(runs)].to = p]
    BY <1>2 DEF Candidate!Extended
  <2>6. [runs EXCEPT ![Len(runs)].to = p] = [runs EXCEPT ![Len(runs)] = [runs[Len(runs)] EXCEPT !.to = p]]
    OBVIOUS
  <2> QED BY <2>4, <2>5, <2>6
<1>3. CASE ~(runs # <<>> /\ Candidate!Follows(Candidate!Last(runs).to, p))
  <2>1. Candidate!Extended(runs, type, slot, p) =
            Append(runs, [type |-> type, slot |-> slot, from |-> p, to |-> p])
    BY <1>3, Zenon DEF Candidate!Extended
  <2> QED BY <1>1, <2>1, AppendProperties
<1> QED
  BY <1>2, <1>3

\* The runs grow port by port (interface_range.py:build_interface_groups).
LEMMA RunsSteps ==
    ASSUME NEW type, NEW slot, NEW ports \in Seq(Int)
    PROVE  \E f : /\ IsRuns(f, type, slot, ports)
                  /\ Candidate!Runs(type, slot, ports) = f[Len(ports)]
<1>1. PICK N \in Nat : N = Len(ports)
  OBVIOUS
<1> DEFINE V == Seq(RunsOf(type, slot))
           step == [p \in V \X (1..N) |-> Candidate!Extended(p[1], type, slot, ports[p[2]])]
           Def(h) == [s \in SUBSET (1..N) |->
                        IF s = {} THEN <<>>
                        ELSE Candidate!Extended(h[s \ {Max(s)}], type, slot, ports[Max(s)])]
           iter == CHOOSE h : h = Def(h)
<1>2. DOMAIN ports = 1..N /\ \A n \in 1..N : ports[n] \in Int
  BY <1>1
<1>3. step \in [V \X (1..N) -> V] /\ <<>> \in V
  BY <1>2, ExtendedIsRuns
<1>4. \A v \in V, n \in 1..N : step[<<v, n>>] = Candidate!Extended(v, type, slot, ports[n])
  OBVIOUS
<1>5. PICK h \in [SUBSET (1..N) -> V] : IsFold(h, N, <<>>, step)
  <2> HIDE DEF step, V
  <2> QED BY <1>3, FoldExists, Zenon
<1>6. \A s \in SUBSET (1..N) : s # {} => Max(s) \in 1..N /\ h[s \ {Max(s)}] \in V
  <2>1. ASSUME NEW s \in SUBSET (1..N), s # {} PROVE Max(s) \in s
    BY <2>1, MaxOfSome, Zenon
  <2> QED BY <2>1, Zenon
<1>7. h = Def(h)
  <2>1. \A s \in SUBSET (1..N) :
            h[s] = IF s = {} THEN <<>>
                   ELSE Candidate!Extended(h[s \ {Max(s)}], type, slot, ports[Max(s)])
    <3> HIDE DEF step, V
    <3> QED BY <1>4, <1>5, <1>6, Zenon DEF IsFold
  <2> QED BY <2>1, Zenon
<1>8. iter = Def(iter)
  <2> HIDE DEF Def
  <2> QED BY <1>7
<1>9. Candidate!Runs(type, slot, ports) = iter[1..N]
  BY <1>2 DEF Candidate!Runs, Candidate!FoldLeft, Candidate!MapThenFoldSet, Candidate!Max, Max
<1> HIDE DEF iter
<1> DEFINE f == [n \in 0..N |-> iter[1..n]]
<1>10. f[0] = <<>>
  <2>1. 1..0 = {} /\ {} \in SUBSET (1..N)
    OBVIOUS
  <2> QED BY <1>8, <2>1
<1>11. ASSUME NEW n \in 1..N PROVE f[n] = Candidate!Extended(f[n - 1], type, slot, ports[n])
  <2>1. n \in Nat \ {0} /\ 1..n \in SUBSET (1..N) /\ n - 1 \in 0..N /\ n \in 0..N
    OBVIOUS
  <2>2. 1..n # {} /\ Max(1..n) = n /\ (1..n) \ {n} = 1..(n - 1)
    BY <2>1, MaxOfPrefix, Zenon
  <2> QED BY <1>8, <2>1, <2>2, Zenon
<1>12. Candidate!Runs(type, slot, ports) = f[N]
  BY <1>9
<1> HIDE DEF f
<1> QED
  BY <1>1, <1>10, <1>11, <1>12 DEF IsRuns

\* Runs that have exactly the first k ports, each once.
Cover(runs, type, slot, ports, k) ==
    /\ runs \in Seq(RunsOf(type, slot))
    /\ k > 0 => Len(runs) > 0 /\ runs[Len(runs)].to = ports[k]
    /\ \A g \in 1..Len(runs) : runs[g].from <= runs[g].to
    /\ \A m \in 1..k : \E g \in 1..Len(runs) : runs[g].from <= ports[m] /\ ports[m] <= runs[g].to
    /\ \A g \in 1..Len(runs) : \A p \in runs[g].from..runs[g].to : \E m \in 1..k : ports[m] = p
    /\ \A g, h \in 1..Len(runs) : g < h => runs[g].to < runs[h].from

\* The runs of ascending ports are those ports, apart and in order.
LEMMA RunsCoverPorts ==
    ASSUME NEW type, NEW slot, NEW ports \in Seq(Int),
           \A m, n \in 1..Len(ports) : m < n => ports[m] < ports[n]
    PROVE  Cover(Candidate!Runs(type, slot, ports), type, slot, ports, Len(ports))
<1>1. PICK f : IsRuns(f, type, slot, ports) /\ Candidate!Runs(type, slot, ports) = f[Len(ports)]
  BY RunsSteps
<1>2. PICK N \in Nat : N = Len(ports)
  OBVIOUS
<1> DEFINE Good(n) == Cover(f[n], type, slot, ports, n)
           T == {n \in Nat : n <= N => Good(n)}
<1>3. 0 \in T
  <2>1. f[0] = <<>> /\ <<>> \in Seq(RunsOf(type, slot)) /\ Len(<<>>) = 0
    BY <1>1, EmptySeq DEF IsRuns
  <2>2. 1..0 = {}
    OBVIOUS
  <2>3. Cover(<<>>, type, slot, ports, 0)
    BY <2>1, <2>2 DEF Cover
  <2> QED BY <2>1, <2>3
<1>4. ASSUME NEW n \in Nat, n + 1 <= N, Good(n) PROVE Good(n + 1)
  <2>1. PICK q \in Int : q = ports[n + 1]
    BY <1>2, <1>4
  <2>2. PICK runs \in Seq(RunsOf(type, slot)) : runs = f[n] /\ Cover(runs, type, slot, ports, n)
    BY <1>4, Zenon DEF Cover
  <2>3. f[n + 1] = Candidate!Extended(runs, type, slot, q)
    <3>1. n + 1 \in 1..Len(ports) /\ (n + 1) - 1 = n
      BY <1>2, <1>4
    <3> QED BY <1>1, <2>1, <2>2, <3>1, Zenon DEF IsRuns
  <2>4. \A m \in 1..n : ports[m] \in Int /\ ports[m] < q
    <3>1. \A m \in 1..n : m \in 1..Len(ports) /\ n + 1 \in 1..Len(ports) /\ m < n + 1
      BY <1>2, <1>4
    <3> QED BY <2>1, <3>1
  <2>5. /\ Len(runs) \in Nat
        /\ \A g \in 1..Len(runs) : runs[g] \in RunsOf(type, slot)
        /\ \A g \in 1..Len(runs) : runs[g].from \in Int /\ runs[g].to \in Int
    <3>1. Len(runs) \in Nat /\ \A g \in 1..Len(runs) : runs[g] \in RunsOf(type, slot)
      OBVIOUS
    <3>2. \A e \in RunsOf(type, slot) : e.from \in Int /\ e.to \in Int
      BY DEF RunsOf
    <3> QED BY <3>1, <3>2
  <2>6. \A g \in 1..Len(runs) : runs[g].to < q
    <3>1. ASSUME NEW g \in 1..Len(runs) PROVE runs[g].to < q
      <4>1. runs[g].to \in runs[g].from..runs[g].to
        BY <2>2, <2>5 DEF Cover
      <4>2. PICK m \in 1..n : ports[m] = runs[g].to
        BY <2>2, <4>1, Zenon DEF Cover
      <4> QED BY <2>4, <4>2
    <3> QED BY <3>1
  <2>7. \A m \in 1..(n + 1) : m \in 1..n \/ m = n + 1
    OBVIOUS
  <2>8. CASE runs # <<>> /\ Candidate!Follows(Candidate!Last(runs).to, q)
    <3> DEFINE c == Len(runs)
               w == [runs EXCEPT ![c].to = q]
    <3>1. c \in 1..c
      BY <2>8, EmptySeq
    <3>2. q = runs[c].to + 1
      BY <2>8 DEF Candidate!Follows, Candidate!Last
    <3>3. f[n + 1] = w
      BY <2>3, <2>8 DEF Candidate!Extended
    <3>4. w \in Seq(RunsOf(type, slot))
      <4> HIDE DEF w
      <4> QED BY <2>3, <3>3, ExtendedIsRuns, Zenon
    <3>5. /\ Len(w) = c
          /\ \A g \in 1..c : w[g].from = runs[g].from
          /\ \A g \in 1..c : g # c => w[g].to = runs[g].to
          /\ w[c].to = q
      BY <2>5, <3>1 DEF RunsOf
    <3> HIDE DEF w, c
    <3>6. /\ c \in Nat /\ c \in 1..c
          /\ \A g \in 1..c : runs[g].from \in Int /\ runs[g].to \in Int
          /\ \A g \in 1..c : runs[g].to < q
          /\ \A g \in 1..c : runs[g].from <= runs[g].to
          /\ \A m \in 1..n : \E g \in 1..c : runs[g].from <= ports[m] /\ ports[m] <= runs[g].to
          /\ \A g \in 1..c : \A p \in runs[g].from..runs[g].to : \E m \in 1..n : ports[m] = p
          /\ \A g, h \in 1..c : g < h => runs[g].to < runs[h].from
      BY <2>2, <2>5, <2>6, <3>1 DEF Cover, c
    <3>7. ASSUME NEW g \in 1..c PROVE w[g].from <= w[g].to /\ runs[g].to <= w[g].to
      <4>1. runs[g].from \in Int /\ runs[g].to \in Int /\ runs[g].from <= runs[g].to /\ runs[g].to < q
        BY <3>6
      <4>2. CASE g = c
        BY <3>5, <4>1, <4>2
      <4>3. CASE g # c
        BY <3>5, <4>1, <4>3
      <4> QED BY <4>2, <4>3
    <3>8. \A m \in 1..(n + 1) : \E g \in 1..c : w[g].from <= ports[m] /\ ports[m] <= w[g].to
      <4>1. ASSUME NEW m \in 1..n
            PROVE  \E g \in 1..c : w[g].from <= ports[m] /\ ports[m] <= w[g].to
        <5>1. PICK g \in 1..c : runs[g].from <= ports[m] /\ ports[m] <= runs[g].to
          BY <3>6
        <5>2. ports[m] \in Int /\ runs[g].to \in Int /\ w[g].to \in Int
          BY <2>4, <3>5, <3>6, Zenon
        <5>3. w[g].from = runs[g].from /\ runs[g].to <= w[g].to
          BY <3>5, <3>7
        <5> QED BY <5>1, <5>2, <5>3
      <4>2. w[c].from <= ports[n + 1] /\ ports[n + 1] <= w[c].to
        BY <2>1, <3>5, <3>7, <3>6
      <4> QED BY <2>7, <3>6, <4>1, <4>2, Zenon
    <3>9. ASSUME NEW g \in 1..c, NEW p \in w[g].from..w[g].to
          PROVE  \E m \in 1..(n + 1) : ports[m] = p
      <4>1. CASE p = q
        <5>1. n + 1 \in 1..(n + 1)
          OBVIOUS
        <5> QED BY <2>1, <4>1, <5>1
      <4>2. CASE p # q
        <5>1. p \in runs[g].from..runs[g].to
          BY <3>2, <3>5, <3>6, <4>2 DEF c
        <5>2. PICK m \in 1..n : ports[m] = p
          BY <3>6, <5>1
        <5>3. m \in 1..(n + 1)
          OBVIOUS
        <5> QED BY <5>2, <5>3
      <4> QED BY <4>1, <4>2
    <3>10. \A g, h \in 1..c : g < h => w[g].to < w[h].from
      BY <3>5, <3>6
    <3> QED BY <2>1, <3>3, <3>4, <3>5, <3>6, <3>7, <3>8, <3>9, <3>10 DEF Cover
  <2>9. CASE ~(runs # <<>> /\ Candidate!Follows(Candidate!Last(runs).to, q))
    <3> DEFINE c == Len(runs)
               e == [type |-> type, slot |-> slot, from |-> q, to |-> q]
               w == Append(runs, e)
    <3>1. f[n + 1] = w
      BY <2>3, <2>9, Zenon DEF Candidate!Extended
    <3>2. e \in RunsOf(type, slot) /\ e.from = q /\ e.to = q
      BY DEF RunsOf
    <3> HIDE DEF e
    <3>3. /\ w \in Seq(RunsOf(type, slot))
          /\ Len(w) = c + 1
          /\ \A g \in 1..c : w[g] = runs[g]
          /\ w[c + 1] = e
      BY <3>2, AppendProperties
    <3> HIDE DEF w, c
    <3>6. /\ c \in Nat
          /\ \A g \in 1..c : runs[g].from \in Int /\ runs[g].to \in Int
          /\ \A g \in 1..c : runs[g].to < q
          /\ \A g \in 1..c : runs[g].from <= runs[g].to
          /\ \A m \in 1..n : \E g \in 1..c : runs[g].from <= ports[m] /\ ports[m] <= runs[g].to
          /\ \A g \in 1..c : \A p \in runs[g].from..runs[g].to : \E m \in 1..n : ports[m] = p
          /\ \A g, h \in 1..c : g < h => runs[g].to < runs[h].from
      BY <2>2, <2>5, <2>6 DEF Cover, c
    <3>7. \A g \in 1..(c + 1) : g \in 1..c \/ g = c + 1
      BY <3>6
    <3>8. \A g \in 1..(c + 1) : w[g].from <= w[g].to
      <4> TAKE g \in 1..(c + 1)
      <4>1. CASE g \in 1..c
        <5>1. w[g] = runs[g] /\ runs[g].from <= runs[g].to
          BY <3>3, <3>6, <4>1, Zenon
        <5> QED BY <5>1, Zenon
      <4>2. CASE g = c + 1
        <5>1. w[g].from = q /\ w[g].to = q
          BY <3>2, <3>3, <4>2, Zenon
        <5> QED BY <5>1
      <4> QED BY <3>7, <4>1, <4>2
    <3>9. \A m \in 1..(n + 1) : \E g \in 1..(c + 1) : w[g].from <= ports[m] /\ ports[m] <= w[g].to
      <4>1. ASSUME NEW m \in 1..n
            PROVE  \E g \in 1..(c + 1) : w[g].from <= ports[m] /\ ports[m] <= w[g].to
        <5>1. PICK g \in 1..c : runs[g].from <= ports[m] /\ ports[m] <= runs[g].to
          BY <3>6
        <5>2. g \in 1..(c + 1)
          BY <3>6
        <5> QED BY <3>3, <5>1, <5>2, Zenon
      <4>2. c + 1 \in 1..(c + 1) /\ w[c + 1].from <= ports[n + 1] /\ ports[n + 1] <= w[c + 1].to
        BY <2>1, <3>2, <3>3, <3>6
      <4> QED BY <2>7, <4>1, <4>2, Zenon
    <3>10. ASSUME NEW g \in 1..(c + 1), NEW p \in w[g].from..w[g].to
           PROVE  \E m \in 1..(n + 1) : ports[m] = p
      <4>1. CASE g = c + 1
        <5>1. p = q /\ n + 1 \in 1..(n + 1)
          BY <3>2, <3>3, <4>1
        <5> QED BY <2>1, <5>1
      <4>2. CASE g \in 1..c
        <5>1. p \in runs[g].from..runs[g].to
          BY <3>3, <4>2
        <5>2. PICK m \in 1..n : ports[m] = p
          BY <3>6, <4>2, <5>1
        <5>3. m \in 1..(n + 1)
          OBVIOUS
        <5> QED BY <5>2, <5>3
      <4> QED BY <3>7, <4>1, <4>2
    <3>11. ASSUME NEW g \in 1..(c + 1), NEW h \in 1..(c + 1), g < h PROVE w[g].to < w[h].from
      <4>1. g \in 1..c /\ w[g].to = runs[g].to /\ runs[g].to < q
        BY <3>3, <3>6, <3>7, <3>11
      <4>2. CASE h = c + 1
        BY <3>2, <3>3, <4>1, <4>2
      <4>3. CASE h \in 1..c
        BY <3>3, <3>6, <3>11, <4>1, <4>3, Zenon
      <4> QED BY <3>7, <4>2, <4>3
    <3> QED BY <2>1, <3>1, <3>2, <3>3, <3>6, <3>8, <3>9, <3>10, <3>11 DEF Cover
  <2> QED BY <2>8, <2>9
<1>5. N \in T
  <2> HIDE DEF Good
  <2>1. \A n \in Nat : n \in T
    <3>1. ASSUME NEW n \in Nat, n \in T PROVE n + 1 \in T
      BY <1>4, <3>1
    <3> HIDE DEF T
    <3> QED BY <1>3, <3>1, NatSetInduction, Zenon
  <2> QED BY <2>1
<1> QED
  BY <1>1, <1>2, <1>5

\* Ranges of ports, the names of ports.
Ranges(Types, Slots) == [type : Types, slot : Slots, from : Int, to : Int]
PortNames(Types, Slots) == [type : Types, slot : Slots, port : Int]

\* Ranges that have exactly the ports of S, each once.
CoversOnce(groups, S) ==
    /\ \A x \in S : \E g \in 1..Len(groups) : x \in Candidate!Covered(groups[g])
    /\ \A g \in 1..Len(groups) : Candidate!Covered(groups[g]) \subseteq S
    /\ \A g, h \in 1..Len(groups) : g # h =>
            Candidate!Covered(groups[g]) \cap Candidate!Covered(groups[h]) = {}

\* One operator, seen from two modules.
LEMMA SameAscending ==
    ASSUME NEW S PROVE Candidate!Ascending(S) = Ascending(S)
  BY DEF Ascending, Candidate!Ascending, Cardinality, Candidate!Cardinality

\* The ports of one type in one slot.
PortsOf(type, slot, ports) == {[type |-> type, slot |-> slot, port |-> p] : p \in ports}

\* The runs of a set of ports cover exactly these, each once.
LEMMA RunsCoverOnce ==
    ASSUME NEW type, NEW slot, NEW ports \in SUBSET Int, IsFiniteSet(ports)
    PROVE  LET runs == Candidate!Runs(type, slot, Candidate!Ascending(ports))
           IN  /\ runs \in Seq(RunsOf(type, slot))
               /\ CoversOnce(runs, PortsOf(type, slot, ports))
<1> DEFINE s == Candidate!Ascending(ports)
           runs == Candidate!Runs(type, slot, s)
<1>1. /\ s \in Seq(ports) /\ Len(s) \in Nat
      /\ \A m, n \in 1..Len(s) : m < n => s[m] < s[n]
      /\ \A x \in ports : \E n \in 1..Len(s) : s[n] = x
  BY AscendingLists, SameAscending
<1> HIDE DEF s
<1>2. s \in Seq(Int)
  BY <1>1, SeqMonotonic, Zenon
<1>3. Cover(runs, type, slot, s, Len(s))
  BY <1>1, <1>2, RunsCoverPorts
<1> HIDE DEF runs
<1>4. /\ runs \in Seq(RunsOf(type, slot)) /\ Len(runs) \in Nat
      /\ \A g \in 1..Len(runs) : runs[g] \in RunsOf(type, slot)
  BY <1>3 DEF Cover
<1>5. \A g \in 1..Len(runs) : /\ runs[g].type = type /\ runs[g].slot = slot
                              /\ runs[g].from \in Int /\ runs[g].to \in Int
  <2>1. \A e \in RunsOf(type, slot) : /\ e.type = type /\ e.slot = slot
                                      /\ e.from \in Int /\ e.to \in Int
    BY DEF RunsOf
  <2> QED BY <1>4, <2>1
<1>6. ASSUME NEW g \in 1..Len(runs)
      PROVE  Candidate!Covered(runs[g]) = PortsOf(type, slot, runs[g].from..runs[g].to)
  BY <1>5 DEF Candidate!Covered, PortsOf
<1>7. ASSUME NEW x \in PortsOf(type, slot, ports)
      PROVE  \E g \in 1..Len(runs) : x \in Candidate!Covered(runs[g])
  <2>1. PICK p \in ports : x = [type |-> type, slot |-> slot, port |-> p]
    BY DEF PortsOf
  <2>2. PICK n \in 1..Len(s) : s[n] = p
    BY <1>1
  <2>3. PICK g \in 1..Len(runs) : runs[g].from <= p /\ p <= runs[g].to
    BY <1>3, <2>2, Zenon DEF Cover
  <2>4. p \in runs[g].from..runs[g].to
    BY <1>5, <2>3
  <2> QED BY <1>6, <2>1, <2>4 DEF PortsOf
<1>8. ASSUME NEW g \in 1..Len(runs)
      PROVE  Candidate!Covered(runs[g]) \subseteq PortsOf(type, slot, ports)
  <2>1. runs[g].from..runs[g].to \subseteq ports
    <3>1. \A p \in runs[g].from..runs[g].to : \E m \in 1..Len(s) : s[m] = p
      BY <1>3 DEF Cover
    <3>2. \A m \in 1..Len(s) : s[m] \in ports
      BY <1>1
    <3> QED BY <3>1, <3>2
  <2> QED BY <1>6, <2>1 DEF PortsOf
<1>9. ASSUME NEW g \in 1..Len(runs), NEW h \in 1..Len(runs), g # h
      PROVE  Candidate!Covered(runs[g]) \cap Candidate!Covered(runs[h]) = {}
  <2>1. runs[g].to < runs[h].from \/ runs[h].to < runs[g].from
    <3>1. g < h \/ h < g
      BY <1>9
    <3> QED BY <1>3, <3>1 DEF Cover
  <2>2. \A p \in runs[g].from..runs[g].to : p \notin runs[h].from..runs[h].to
    BY <1>5, <2>1
  <2>3. ASSUME NEW x \in Candidate!Covered(runs[g]), x \in Candidate!Covered(runs[h]) PROVE FALSE
    <3>1. PICK p \in runs[g].from..runs[g].to : x = [type |-> type, slot |-> slot, port |-> p]
      BY <1>6 DEF PortsOf
    <3>2. PICK q \in runs[h].from..runs[h].to : x = [type |-> type, slot |-> slot, port |-> q]
      BY <1>6, <2>3 DEF PortsOf
    <3>3. p = q
      BY <3>1, <3>2
    <3> QED BY <2>2, <3>3
  <2> QED BY <2>3
<1>10. CoversOnce(runs, PortsOf(type, slot, ports))
  BY <1>7, <1>8, <1>9, Zenon DEF CoversOnce
<1> QED
  BY <1>4, <1>10 DEF runs, s

\* Ranges of different ports may be put together.
LEMMA CoversTogether ==
    ASSUME NEW R, NEW G \in Seq(R), NEW H \in Seq(R), NEW S, NEW T,
           CoversOnce(G, S), CoversOnce(H, T), S \cap T = {}
    PROVE  CoversOnce(G \o H, S \cup T)
<1> DEFINE a == Len(G)
           b == Len(H)
           w == G \o H
<1>1. a \in Nat /\ b \in Nat /\ Len(w) = a + b
  BY ConcatProperties
<1>2. \A g \in 1..(a + b) : IF g <= a THEN g \in 1..a /\ w[g] = G[g]
                                      ELSE g - a \in 1..b /\ w[g] = H[g - a]
  BY <1>1, ConcatProperties
<1>3. \A g \in 1..b : a + g \in 1..(a + b) /\ ~(a + g <= a) /\ (a + g) - a = g
  BY <1>1
<1>4. \A g \in 1..a : g \in 1..(a + b) /\ g <= a
  BY <1>1
<1> HIDE DEF w
<1>5. ASSUME NEW x \in S \cup T PROVE \E g \in 1..(a + b) : x \in Candidate!Covered(w[g])
  <2>1. CASE x \in S
    <3>1. PICK g \in 1..a : x \in Candidate!Covered(G[g])
      BY <2>1 DEF CoversOnce
    <3> QED BY <1>2, <1>4, <3>1
  <2>2. CASE x \in T
    <3>1. PICK g \in 1..b : x \in Candidate!Covered(H[g])
      BY <2>2 DEF CoversOnce
    <3>2. w[a + g] = H[g] /\ a + g \in 1..(a + b)
      BY <1>2, <1>3
    <3> QED BY <3>1, <3>2
  <2> QED BY <2>1, <2>2
<1>6. ASSUME NEW g \in 1..(a + b)
      PROVE  \/ g \in 1..a /\ w[g] = G[g] /\ Candidate!Covered(w[g]) \subseteq S
             \/ g - a \in 1..b /\ w[g] = H[g - a] /\ Candidate!Covered(w[g]) \subseteq T
  BY <1>2 DEF CoversOnce
<1>7. ASSUME NEW g \in 1..(a + b), NEW h \in 1..(a + b), g # h
      PROVE  Candidate!Covered(w[g]) \cap Candidate!Covered(w[h]) = {}
  <2>1. CASE g \in 1..a /\ w[g] = G[g] /\ h \in 1..a /\ w[h] = G[h]
    BY <1>7, <2>1, Zenon DEF CoversOnce
  <2>2. CASE g - a \in 1..b /\ w[g] = H[g - a] /\ h - a \in 1..b /\ w[h] = H[h - a]
    <3>1. g - a # h - a
      BY <1>1, <1>7
    <3> QED BY <2>2, <3>1, Zenon DEF CoversOnce
  <2>3. CASE Candidate!Covered(w[g]) \subseteq S /\ Candidate!Covered(w[h]) \subseteq T
    BY <2>3
  <2>4. CASE Candidate!Covered(w[g]) \subseteq T /\ Candidate!Covered(w[h]) \subseteq S
    BY <2>4
  <2> QED BY <1>6, <2>1, <2>2, <2>3, <2>4, Zenon
<1>8. \A g \in 1..(a + b) : Candidate!Covered(w[g]) \subseteq S \cup T
  BY <1>6
<1> QED
  BY <1>1, <1>5, <1>7, <1>8, Zenon DEF CoversOnce, w

-----------------------------------------------------------------------------

\* The ports of one kind, by their numbers.
KinPorts(names, n) == {i.port : i \in Candidate!Kin(names, n)}

\* The names with the type and the slots of a name are given by their ports.
LEMMA KinByPorts ==
    ASSUME NEW Types, NEW Slots, NEW names \in Seq(PortNames(Types, Slots)), NEW n \in 1..Len(names)
    PROVE  /\ KinPorts(names, n) \in SUBSET Int
           /\ IsFiniteSet(KinPorts(names, n))
           /\ Candidate!Kin(names, n) = PortsOf(names[n].type, names[n].slot, KinPorts(names, n))
           /\ names[n].type \in Types /\ names[n].slot \in Slots
<1> DEFINE D == {k \in DOMAIN names : names[k].type = names[n].type /\ names[k].slot = names[n].slot}
<1>1. DOMAIN names = 1..Len(names) /\ Len(names) \in Nat
  OBVIOUS
<1>2. \A k \in 1..Len(names) : /\ names[k].type \in Types /\ names[k].slot \in Slots /\ names[k].port \in Int
                               /\ names[k] = [type |-> names[k].type, slot |-> names[k].slot, port |-> names[k].port]
  <2>1. \A e \in PortNames(Types, Slots) : /\ e.type \in Types /\ e.slot \in Slots /\ e.port \in Int
                               /\ e = [type |-> e.type, slot |-> e.slot, port |-> e.port]
    BY DEF PortNames
  <2>2. \A k \in 1..Len(names) : names[k] \in PortNames(Types, Slots)
    OBVIOUS
  <2> QED BY <2>1, <2>2
<1>3. D \subseteq 1..Len(names) /\ IsFiniteSet(D)
  <2>1. IsFiniteSet(1..Len(names)) /\ D \subseteq 1..Len(names)
    BY <1>1, FS_Interval
  <2> QED BY <2>1, FS_Subset
<1>4. Candidate!Kin(names, n) = {names[k] : k \in D}
  BY DEF Candidate!Kin
<1>5. KinPorts(names, n) = {names[k].port : k \in D}
  BY <1>4 DEF KinPorts
<1>6. IsFiniteSet(KinPorts(names, n))
  <2> DEFINE f == [k \in D |-> names[k].port]
  <2>1. f \in Surjection(D, KinPorts(names, n))
    BY <1>5 DEF Surjection
  <2> HIDE DEF f, D
  <2> QED BY <1>3, <2>1, FS_Surjection
<1>7. KinPorts(names, n) \in SUBSET Int
  BY <1>2, <1>3, <1>5, Zenon
<1>8. Candidate!Kin(names, n) = PortsOf(names[n].type, names[n].slot, KinPorts(names, n))
  <2>1. \A k \in D : names[k] = [type |-> names[n].type, slot |-> names[n].slot, port |-> names[k].port]
    BY <1>2, <1>3, Zenon
  <2> QED BY <1>4, <1>5, <2>1 DEF PortsOf
<1> QED
  BY <1>2, <1>6, <1>7, <1>8, Zenon

\* The groups after one more name.
GroupsAfter(groups, names, n) ==
    IF Candidate!IsFirst(names, n)
    THEN groups \o Candidate!Runs(names[n].type, names[n].slot,
                                  Candidate!Ascending(KinPorts(names, n)))
    ELSE groups

\* A name adds ranges to the groups.
LEMMA GroupsAfterAreRanges ==
    ASSUME NEW Types, NEW Slots, NEW names \in Seq(PortNames(Types, Slots)), NEW n \in 1..Len(names),
           NEW groups \in Seq(Ranges(Types, Slots))
    PROVE  /\ Candidate!Runs(names[n].type, names[n].slot, Candidate!Ascending(KinPorts(names, n)))
                    \in Seq(Ranges(Types, Slots))
           /\ GroupsAfter(groups, names, n) \in Seq(Ranges(Types, Slots))
<1> DEFINE runs == Candidate!Runs(names[n].type, names[n].slot, Candidate!Ascending(KinPorts(names, n)))
<1>1. /\ KinPorts(names, n) \in SUBSET Int /\ IsFiniteSet(KinPorts(names, n))
      /\ names[n].type \in Types /\ names[n].slot \in Slots
  BY KinByPorts
<1>2. runs \in Seq(RunsOf(names[n].type, names[n].slot))
  BY <1>1, RunsCoverOnce
<1>3. RunsOf(names[n].type, names[n].slot) \subseteq Ranges(Types, Slots)
  BY <1>1 DEF RunsOf, Ranges
<1> HIDE DEF runs
<1>4. runs \in Seq(Ranges(Types, Slots))
  BY <1>2, <1>3, SeqMonotonic
<1>5. groups \o runs \in Seq(Ranges(Types, Slots))
  BY <1>4, ConcatProperties
<1> QED
  BY <1>4, <1>5 DEF runs, GroupsAfter

IsGrouping(f, names) ==
    f[0] = <<>> /\ \A n \in 1..Len(names) : f[n] = GroupsAfter(f[n - 1], names, n)

\* The groups are collected name by name (interface_range.py:build_interface_groups).
LEMMA GroupsSteps ==
    ASSUME NEW Types, NEW Slots, NEW names \in Seq(PortNames(Types, Slots))
    PROVE  \E f : /\ IsGrouping(f, names)
                  /\ Candidate!BuildInterfaceGroups(names) = f[Len(names)]
<1>1. PICK N \in Nat : N = Len(names)
  OBVIOUS
<1> DEFINE V == Seq(Ranges(Types, Slots))
           step == [p \in V \X (1..N) |-> GroupsAfter(p[1], names, p[2])]
           DefOn(h, D, E) == [s \in SUBSET E |->
                        IF s = {} THEN <<>>
                        ELSE GroupsAfter(h[s \ {Max(s)}], names, [n \in D |-> n][Max(s)])]
           IterOn(D, E) == CHOOSE h : h = DefOn(h, D, E)
           Def(h) == DefOn(h, 1..N, 1..N)
           iter == IterOn(1..N, 1..N)
<1>2. DOMAIN names = 1..N
  BY <1>1
<1>3. step \in [V \X (1..N) -> V] /\ <<>> \in V
  BY <1>1, GroupsAfterAreRanges
<1>4. \A v \in V, n \in 1..N : step[<<v, n>>] = GroupsAfter(v, names, n)
  OBVIOUS
<1>5. PICK h \in [SUBSET (1..N) -> V] : IsFold(h, N, <<>>, step)
  <2> HIDE DEF step, V
  <2> QED BY <1>3, FoldExists, Zenon
<1>6. \A s \in SUBSET (1..N) : s # {} => Max(s) \in 1..N /\ h[s \ {Max(s)}] \in V
  <2>1. ASSUME NEW s \in SUBSET (1..N), s # {} PROVE Max(s) \in s
    BY <2>1, MaxOfSome, Zenon
  <2> QED BY <2>1, Zenon
<1>7. h = Def(h)
  <2>1. \A s \in SUBSET (1..N) :
            h[s] = IF s = {} THEN <<>> ELSE GroupsAfter(h[s \ {Max(s)}], names, Max(s))
    <3> HIDE DEF step, V
    <3> QED BY <1>4, <1>5, <1>6, Zenon DEF IsFold
  <2> QED BY <1>6, <2>1, Zenon
<1>8. iter = Def(iter)
  <2> HIDE DEF DefOn
  <2> QED BY <1>7
<1>9. Candidate!BuildInterfaceGroups(names) = iter[1..N]
  <2> DEFINE E == DOMAIN [n \in DOMAIN names |-> n]
  <2>1. Candidate!BuildInterfaceGroups(names) = IterOn(DOMAIN names, E)[E]
    BY Zenon DEF Candidate!BuildInterfaceGroups, GroupsAfter, KinPorts, Candidate!FoldLeft,
                Candidate!MapThenFoldSet, Candidate!Max, Max
  <2>2. E = 1..N
    BY <1>2
  <2> HIDE DEF E, IterOn
  <2> QED BY <1>2, <2>1, <2>2
<1> HIDE DEF iter
<1> DEFINE f == [n \in 0..N |-> iter[1..n]]
<1>10. f[0] = <<>>
  <2>1. 1..0 = {} /\ {} \in SUBSET (1..N)
    OBVIOUS
  <2> QED BY <1>8, <2>1
<1>11. ASSUME NEW n \in 1..N PROVE f[n] = GroupsAfter(f[n - 1], names, n)
  <2>1. n \in Nat \ {0} /\ 1..n \in SUBSET (1..N) /\ n - 1 \in 0..N /\ n \in 0..N
    OBVIOUS
  <2>2. 1..n # {} /\ Max(1..n) = n /\ (1..n) \ {n} = 1..(n - 1)
    BY <2>1, MaxOfPrefix, Zenon
  <2> QED BY <1>8, <2>1, <2>2, Zenon
<1>12. Candidate!BuildInterfaceGroups(names) = f[N]
  BY <1>9
<1> HIDE DEF f
<1> QED
  BY <1>1, <1>10, <1>11, <1>12 DEF IsGrouping

\* The kinds met among the first n names.
Met(names, n) == UNION {Candidate!Kin(names, m) : m \in 1..n}

\* The ranges have exactly the ports named, each once, whatever their order, their
\* types and slots and the gaps in their numbers (interface_range.py:build_interface_groups).
THEOREM GroupsCoverNames ==
    ASSUME NEW Types, NEW Slots, NEW names \in Seq(PortNames(Types, Slots))
    PROVE  /\ Candidate!BuildInterfaceGroups(names) \in Seq(Ranges(Types, Slots))
           /\ CoversOnce(Candidate!BuildInterfaceGroups(names), ToSet(names))
<1> DEFINE R == Ranges(Types, Slots)
<1>1. PICK f : IsGrouping(f, names) /\ Candidate!BuildInterfaceGroups(names) = f[Len(names)]
  BY GroupsSteps
<1>2. PICK N \in Nat : N = Len(names) /\ DOMAIN names = 1..N
  OBVIOUS
<1> DEFINE Good(n) == f[n] \in Seq(R) /\ CoversOnce(f[n], Met(names, n))
           T == {n \in Nat : n <= N => Good(n)}
<1>3. 0 \in T
  <2>1. f[0] = <<>> /\ <<>> \in Seq(R) /\ Len(<<>>) = 0 /\ 1..0 = {}
    BY <1>1, EmptySeq DEF IsGrouping
  <2>2. Met(names, 0) = {}
    BY <2>1 DEF Met
  <2>3. CoversOnce(<<>>, {})
    BY <2>1 DEF CoversOnce
  <2> QED BY <2>1, <2>2, <2>3, Zenon
<1>4. ASSUME NEW n \in Nat, n + 1 <= N, Good(n) PROVE Good(n + 1)
  <2>1. n + 1 \in 1..Len(names) /\ (n + 1) - 1 = n
    BY <1>2, <1>4
  <2>2. PICK k \in 1..Len(names) : k = n + 1
    BY <2>1
  <2>3. f[n + 1] = GroupsAfter(f[n], names, k)
    BY <1>1, <2>1, <2>2 DEF IsGrouping
  <2>4. f[n + 1] \in Seq(R)
    BY <1>4, <2>3, GroupsAfterAreRanges
  <2>5. Met(names, n + 1) = Met(names, n) \cup Candidate!Kin(names, k)
    <3>1. \A m \in 1..(n + 1) : m \in 1..n \/ m = k
      BY <2>2
    <3>2. 1..n \subseteq 1..(n + 1) /\ k \in 1..(n + 1)
      BY <2>2
    <3> QED BY <3>1, <3>2 DEF Met
  <2>6. \A m \in 1..n : m \in 1..Len(names)
    BY <2>1
  <2>7. CASE Candidate!IsFirst(names, k)
    <3> DEFINE runs == Candidate!Runs(names[k].type, names[k].slot,
                                      Candidate!Ascending(KinPorts(names, k)))
    <3>1. f[n + 1] = f[n] \o runs
      BY <2>3, <2>7, Zenon DEF GroupsAfter
    <3>2. runs \in Seq(R)
      BY <1>4, GroupsAfterAreRanges, Zenon
    <3>3. CoversOnce(runs, Candidate!Kin(names, k))
      <4>1. /\ KinPorts(names, k) \in SUBSET Int /\ IsFiniteSet(KinPorts(names, k))
            /\ Candidate!Kin(names, k) = PortsOf(names[k].type, names[k].slot, KinPorts(names, k))
        BY KinByPorts
      <4> QED BY <4>1, RunsCoverOnce
    <3> HIDE DEF runs
    <3>4. Met(names, n) \cap Candidate!Kin(names, k) = {}
      <4> SUFFICES ASSUME NEW m \in 1..n, NEW x \in Candidate!Kin(names, m), x \in Candidate!Kin(names, k)
                   PROVE  FALSE
        BY DEF Met
      <4>1. /\ x.type = names[m].type /\ x.slot = names[m].slot
            /\ x.type = names[k].type /\ x.slot = names[k].slot
        BY DEF Candidate!Kin
      <4>2. names[m] \in Candidate!Kin(names, k)
        BY <1>2, <2>6, <4>1, Zenon DEF Candidate!Kin
      <4>3. m \in 1..(k - 1)
        BY <2>2
      <4> QED BY <2>7, <4>2, <4>3 DEF Candidate!IsFirst
    <3>5. CoversOnce(f[n] \o runs, Met(names, n) \cup Candidate!Kin(names, k))
      BY <1>4, <3>2, <3>3, <3>4, CoversTogether
    <3> QED BY <2>4, <2>5, <3>1, <3>5, Zenon
  <2>8. CASE ~Candidate!IsFirst(names, k)
    <3>1. f[n + 1] = f[n]
      BY <2>3, <2>8 DEF GroupsAfter
    <3>2. PICK m \in 1..(k - 1) : names[m] \in Candidate!Kin(names, k)
      BY <2>8 DEF Candidate!IsFirst
    <3>3. m \in 1..n
      BY <2>2
    <3>4. names[m].type = names[k].type /\ names[m].slot = names[k].slot
      BY <3>2 DEF Candidate!Kin
    <3>5. Candidate!Kin(names, k) = Candidate!Kin(names, m)
      BY <3>4 DEF Candidate!Kin
    <3>6. Met(names, n + 1) = Met(names, n)
      BY <2>5, <3>3, <3>5 DEF Met
    <3> QED BY <1>4, <3>1, <3>6
  <2> QED BY <2>7, <2>8
<1>5. Good(N)
  <2> HIDE DEF Good
  <2>1. ASSUME NEW n \in Nat, n \in T PROVE n + 1 \in T
    BY <1>4, <2>1
  <2>2. \A n \in Nat : n \in T
    <3> HIDE DEF T
    <3> QED BY <1>3, <2>1, NatSetInduction
  <2> QED BY <2>2
<1>6. Met(names, N) = ToSet(names)
  <2>1. \A m \in 1..N : names[m] \in Candidate!Kin(names, m) /\ Candidate!Kin(names, m) \subseteq ToSet(names)
    BY <1>2 DEF Candidate!Kin, ToSet
  <2>2. ToSet(names) = {names[m] : m \in 1..N}
    BY <1>2 DEF ToSet
  <2> QED BY <2>1, <2>2 DEF Met
<1> QED
  BY <1>1, <1>2, <1>5, <1>6

-----------------------------------------------------------------------------
(* The blocks of a text.                                                    *)

\* The state of the cutting: the blocks that are complete, the one under way.
Cutting(blocks, current) == [blocks |-> blocks, current |-> current]

\* f[n] is the state after n lines.
IsCut(f, b, lines) ==
    f[0] = b /\ \A n \in 1..Len(lines) : f[n] = Candidate!TakeLine(f[n - 1], lines[n])

\* What a line does to the cutting.
LEMMA TakeLineCases ==
    ASSUME NEW B, NEW C, NEW line
    PROVE  /\ line = Candidate!Separator /\ C = <<>> =>
                Candidate!TakeLine(Cutting(B, C), line) = Cutting(B, C)
           /\ line = Candidate!Separator /\ C # <<>> =>
                Candidate!TakeLine(Cutting(B, C), line) = Cutting(Append(B, C), <<>>)
           /\ line # Candidate!Separator /\ line.text = "end" =>
                Candidate!TakeLine(Cutting(B, C), line) = Cutting(B, C)
           /\ line # Candidate!Separator /\ line.text # "end" =>
                Candidate!TakeLine(Cutting(B, C), line) = Cutting(B, Append(C, line))
<1> DEFINE b == Cutting(B, C)
<1>1. b.blocks = B /\ b.current = C /\ [b EXCEPT !.current = Append(@, line)] = Cutting(B, Append(C, line))
  BY DEF Cutting
<1>2. Candidate!Flushed(b) = IF C = <<>> THEN b ELSE Cutting(Append(B, C), <<>>)
  BY <1>1 DEF Candidate!Flushed, Cutting
<1> HIDE DEF b
<1>3. Candidate!TakeLine(b, line) =
            IF line = Candidate!Separator THEN Candidate!Flushed(b)
            ELSE IF line.text = "end" THEN b
            ELSE [b EXCEPT !.current = Append(@, line)]
  BY DEF Candidate!TakeLine, Candidate!EndsBlock, Candidate!Ignored
<1> QED
  BY <1>1, <1>2, <1>3 DEF b

\* A line that is kept goes to the block under way.
LEMMA TakeProperLine ==
    ASSUME NEW B, NEW C, NEW line, line # Candidate!Separator, line.text # "end"
    PROVE  Candidate!TakeLine(Cutting(B, C), line) = Cutting(B, Append(C, line))
  BY TakeLineCases

\* The cutting of lines gives blocks of these lines.
LEMMA TakeLineKeepsType ==
    ASSUME NEW L, NEW B \in Seq(Seq(L)), NEW C \in Seq(L), NEW line \in L
    PROVE  \E D \in Seq(Seq(L)), E \in Seq(L) :
                Candidate!TakeLine(Cutting(B, C), line) = Cutting(D, E)
<1>1. Append(B, C) \in Seq(Seq(L)) /\ Append(C, line) \in Seq(L) /\ <<>> \in Seq(L)
  BY AppendProperties
<1>2. \/ Candidate!TakeLine(Cutting(B, C), line) = Cutting(B, C)
      \/ Candidate!TakeLine(Cutting(B, C), line) = Cutting(Append(B, C), <<>>)
      \/ Candidate!TakeLine(Cutting(B, C), line) = Cutting(B, Append(C, line))
  BY TakeLineCases, ZenonT(60)
<1> QED
  BY <1>1, <1>2, Zenon

\* The text is cut line by line (deploy.py:split_candidate_blocks).
LEMMA CutSteps ==
    ASSUME NEW L, NEW lines \in Seq(L)
    PROVE  \E f : /\ IsCut(f, Cutting(<<>>, <<>>), lines)
                  /\ Candidate!SplitCandidateBlocks(lines) = Candidate!Flushed(f[Len(lines)]).blocks
<1>1. PICK N \in Nat : N = Len(lines)
  OBVIOUS
<1> DEFINE V == {Cutting(x[1], x[2]) : x \in Seq(Seq(L)) \X Seq(L)}
           start == Cutting(<<>>, <<>>)
           step == [p \in V \X (1..N) |-> Candidate!TakeLine(p[1], lines[p[2]])]
           Def(h) == [s \in SUBSET (1..N) |->
                        IF s = {} THEN start
                        ELSE Candidate!TakeLine(h[s \ {Max(s)}], lines[Max(s)])]
           iter == CHOOSE h : h = Def(h)
<1>2. DOMAIN lines = 1..N /\ \A n \in 1..N : lines[n] \in L
  BY <1>1
<1>3. start \in V
  <2>1. <<<<>>, <<>>>> \in Seq(Seq(L)) \X Seq(L)
    BY EmptySeq, Zenon
  <2> QED BY <2>1
<1>4. step \in [V \X (1..N) -> V]
  <2>1. ASSUME NEW v \in V, NEW n \in 1..N PROVE Candidate!TakeLine(v, lines[n]) \in V
    <3>1. PICK x \in Seq(Seq(L)) \X Seq(L) : v = Cutting(x[1], x[2])
      OBVIOUS
    <3>2. PICK D \in Seq(Seq(L)), E \in Seq(L) : Candidate!TakeLine(v, lines[n]) = Cutting(D, E)
      BY <1>2, <3>1, TakeLineKeepsType
    <3>3. <<D, E>> \in Seq(Seq(L)) \X Seq(L)
      OBVIOUS
    <3> QED BY <3>2, <3>3
  <2> HIDE DEF V
  <2> QED BY <2>1
<1>5. \A v \in V, n \in 1..N : step[<<v, n>>] = Candidate!TakeLine(v, lines[n])
  OBVIOUS
<1> HIDE DEF V, start
<1>6. PICK h \in [SUBSET (1..N) -> V] : IsFold(h, N, start, step)
  <2> HIDE DEF step
  <2> QED BY <1>3, <1>4, FoldExists, Zenon
<1>7. \A s \in SUBSET (1..N) : s # {} => Max(s) \in 1..N /\ h[s \ {Max(s)}] \in V
  <2>1. ASSUME NEW s \in SUBSET (1..N), s # {} PROVE Max(s) \in s
    BY <2>1, MaxOfSome, Zenon
  <2> QED BY <2>1, Zenon
<1>8. h = Def(h)
  <2>1. \A s \in SUBSET (1..N) :
            h[s] = IF s = {} THEN start ELSE Candidate!TakeLine(h[s \ {Max(s)}], lines[Max(s)])
    <3> HIDE DEF step
    <3> QED BY <1>5, <1>6, <1>7, Zenon DEF IsFold
  <2> QED BY <2>1, Zenon
<1>9. iter = Def(iter)
  <2> HIDE DEF Def
  <2> QED BY <1>8
<1>10. Candidate!SplitCandidateBlocks(lines) = Candidate!Flushed(iter[1..N]).blocks
  BY <1>2 DEF start, Cutting, Candidate!SplitCandidateBlocks, Candidate!FoldLeft,
              Candidate!MapThenFoldSet, Candidate!Max, Max
<1> HIDE DEF iter
<1> DEFINE f == [n \in 0..N |-> iter[1..n]]
<1>11. f[0] = start
  <2>1. 1..0 = {} /\ {} \in SUBSET (1..N)
    OBVIOUS
  <2> QED BY <1>9, <2>1
<1>12. ASSUME NEW n \in 1..N PROVE f[n] = Candidate!TakeLine(f[n - 1], lines[n])
  <2>1. n \in Nat \ {0} /\ 1..n \in SUBSET (1..N) /\ n - 1 \in 0..N /\ n \in 0..N
    OBVIOUS
  <2>2. 1..n # {} /\ Max(1..n) = n /\ (1..n) \ {n} = 1..(n - 1)
    BY <2>1, MaxOfPrefix, Zenon
  <2> QED BY <1>9, <2>1, <2>2, Zenon
<1>13. Candidate!SplitCandidateBlocks(lines) = Candidate!Flushed(f[N]).blocks
  BY <1>10
<1> HIDE DEF f
<1> QED
  BY <1>1, <1>11, <1>12, <1>13 DEF IsCut, start

\* A text that ends with a block adds its blocks to those before, whatever they are.
Yields(L, text, blocks) ==
    \A B \in Seq(Seq(L)) : \A f : IsCut(f, Cutting(B, <<>>), text) =>
        f[Len(text)] = Cutting(B \o blocks, <<>>)

\* No text adds no block.
LEMMA NothingYields ==
    ASSUME NEW L PROVE Yields(L, <<>>, <<>>)
<1> SUFFICES ASSUME NEW B \in Seq(Seq(L)), NEW f, IsCut(f, Cutting(B, <<>>), <<>>)
             PROVE  f[Len(<<>>)] = Cutting(B \o <<>>, <<>>)
  BY DEF Yields
<1>1. Len(<<>>) = 0 /\ B \o <<>> = B
  BY ConcatEmptySeq
<1> QED
  BY <1>1 DEF IsCut

\* The rest of a cut is a cut.
LEMMA RestOfCut ==
    ASSUME NEW L, NEW X \in Seq(L), NEW Y \in Seq(L), NEW b, NEW f, IsCut(f, b, X \o Y)
    PROVE  /\ IsCut(f, b, X)
           /\ IsCut([n \in 0..Len(Y) |-> f[Len(X) + n]], f[Len(X)], Y)
<1>1. /\ Len(X) \in Nat /\ Len(Y) \in Nat /\ Len(X \o Y) = Len(X) + Len(Y)
      /\ \A n \in 1..(Len(X) + Len(Y)) : (X \o Y)[n] = IF n <= Len(X) THEN X[n] ELSE Y[n - Len(X)]
  BY ConcatProperties
<1>2. IsCut(f, b, X)
  <2>1. ASSUME NEW n \in 1..Len(X) PROVE f[n] = Candidate!TakeLine(f[n - 1], X[n])
    <3>1. n \in 1..(Len(X) + Len(Y)) /\ n <= Len(X)
      BY <1>1
    <3> QED BY <1>1, <3>1 DEF IsCut
  <2> QED BY <2>1 DEF IsCut
<1>3. ASSUME NEW n \in 1..Len(Y)
      PROVE  f[Len(X) + n] = Candidate!TakeLine(f[Len(X) + (n - 1)], Y[n])
  <2>1. /\ Len(X) + n \in 1..(Len(X) + Len(Y)) /\ ~(Len(X) + n <= Len(X))
        /\ (Len(X) + n) - Len(X) = n /\ (Len(X) + n) - 1 = Len(X) + (n - 1)
    BY <1>1
  <2>2. (X \o Y)[Len(X) + n] = Y[n]
    BY <1>1, <2>1
  <2>3. f[Len(X) + n] = Candidate!TakeLine(f[(Len(X) + n) - 1], (X \o Y)[Len(X) + n])
    BY <1>1, <2>1, Zenon DEF IsCut
  <2> QED BY <2>1, <2>2, <2>3, Zenon
<1> DEFINE g == [n \in 0..Len(Y) |-> f[Len(X) + n]]
<1>4. g[0] = f[Len(X)]
  BY <1>1
<1>5. ASSUME NEW n \in 1..Len(Y) PROVE g[n] = Candidate!TakeLine(g[n - 1], Y[n])
  <2>1. n \in 0..Len(Y) /\ n - 1 \in 0..Len(Y)
    BY <1>1
  <2> QED BY <1>3, <2>1
<1> HIDE DEF g
<1>6. IsCut(g, f[Len(X)], Y)
  BY <1>4, <1>5 DEF IsCut
<1> QED
  BY <1>2, <1>6 DEF g

\* Texts one after the other add the blocks of each.
LEMMA YieldsTogether ==
    ASSUME NEW L, NEW X \in Seq(L), NEW Y \in Seq(L), NEW A \in Seq(Seq(L)), NEW C \in Seq(Seq(L)),
           Yields(L, X, A), Yields(L, Y, C)
    PROVE  Yields(L, X \o Y, A \o C)
<1> SUFFICES ASSUME NEW B \in Seq(Seq(L)), NEW f, IsCut(f, Cutting(B, <<>>), X \o Y)
             PROVE  f[Len(X \o Y)] = Cutting(B \o (A \o C), <<>>)
  BY DEF Yields
<1> DEFINE g == [n \in 0..Len(Y) |-> f[Len(X) + n]]
<1>1. IsCut(f, Cutting(B, <<>>), X) /\ IsCut(g, f[Len(X)], Y)
  BY RestOfCut, Zenon
<1>2. f[Len(X)] = Cutting(B \o A, <<>>)
  BY <1>1 DEF Yields
<1>3. B \o A \in Seq(Seq(L)) /\ (B \o A) \o C = B \o (A \o C)
  BY ConcatProperties, ConcatAssociative, SMTT(30)
<1>4. g[Len(Y)] = f[Len(X) + Len(Y)]
  OBVIOUS
<1> HIDE DEF g
<1>5. g[Len(Y)] = Cutting((B \o A) \o C, <<>>)
  BY <1>1, <1>2, <1>3, Zenon DEF Yields
<1>6. Len(X \o Y) = Len(X) + Len(Y)
  BY ConcatProperties
<1> QED
  BY <1>3, <1>4, <1>5, <1>6, Zenon

\* A block and the separator after it.
LEMMA BlockYields ==
    ASSUME NEW L, Candidate!Separator \in L, NEW block \in Seq(L),
           \A n \in 1..Len(block) : block[n] # Candidate!Separator /\ block[n].text # "end"
    PROVE  Yields(L, Append(block, Candidate!Separator), IF block = <<>> THEN <<>> ELSE <<block>>)
<1> DEFINE X == Append(block, Candidate!Separator)
           N == Len(block)
           Y == IF block = <<>> THEN <<>> ELSE <<block>>
<1> SUFFICES ASSUME NEW B \in Seq(Seq(L)), NEW f, IsCut(f, Cutting(B, <<>>), X)
             PROVE  f[Len(X)] = Cutting(B \o Y, <<>>)
  BY DEF Yields
<1>1. /\ N \in Nat /\ Len(X) = N + 1
      /\ \A n \in 1..N : X[n] = block[n]
      /\ X[N + 1] = Candidate!Separator
  BY AppendProperties
<1> HIDE DEF X
<1> DEFINE T == {n \in Nat : n <= N => f[n] = Cutting(B, SubSeq(block, 1, n))}
<1>2. 0 \in T
  <2>1. SubSeq(block, 1, 0) = <<>>
    BY SubSeqEmpty
  <2> QED BY <2>1, Zenon DEF IsCut
<1>3. ASSUME NEW n \in Nat, n \in T PROVE n + 1 \in T
  <2> SUFFICES ASSUME n + 1 <= N PROVE f[n + 1] = Cutting(B, SubSeq(block, 1, n + 1))
    OBVIOUS
  <2>1. n + 1 \in 1..N /\ (n + 1) - 1 = n /\ n + 1 \in 1..Len(X)
    BY <1>1
  <2>2. f[n + 1] = Candidate!TakeLine(Cutting(B, SubSeq(block, 1, n)), block[n + 1])
    BY <1>1, <1>3, <2>1 DEF IsCut
  <2>3. SubSeq(block, 1, n + 1) = Append(SubSeq(block, 1, n), block[n + 1])
    <3>1. 1 \in 1..Len(block) /\ n + 1 \in 1..Len(block)
      BY <2>1
    <3>2. SubSeq(block, 1, n + 1) = SubSeq(block, 1, (n + 1) - 1) \o <<block[n + 1]>>
      BY <3>1, SubSeqRecursiveSecond
    <3>3. SubSeq(block, 1, n) \in Seq(L)
      <4>1. \A i \in 1..n : block[i] \in L
        BY <2>1
      <4> QED BY <4>1, SubSeqProperties
    <3>4. block[n + 1] \in L
      BY <2>1
    <3> QED BY <2>1, <3>2, <3>3, <3>4, AppendIsConcat
  <2>4. block[n + 1] # Candidate!Separator /\ block[n + 1].text # "end"
    BY <2>1
  <2>5. Candidate!TakeLine(Cutting(B, SubSeq(block, 1, n)), block[n + 1])
            = Cutting(B, Append(SubSeq(block, 1, n), block[n + 1]))
    BY <2>4, TakeProperLine
  <2> QED BY <2>2, <2>3, <2>5, Zenon
<1>4. f[N] = Cutting(B, block)
  <2>1. N \in T
    <3> HIDE DEF T
    <3> QED BY <1>1, <1>2, <1>3, NatSetInduction, Zenon
  <2>2. SubSeq(block, 1, N) = block
    BY SubSeqFull
  <2>3. f[N] = Cutting(B, SubSeq(block, 1, N))
    BY <1>1, <2>1
  <2> QED BY <2>2, <2>3, Zenon
<1>5. f[N + 1] = Candidate!TakeLine(Cutting(B, block), Candidate!Separator)
  <2>1. N + 1 \in 1..Len(X) /\ (N + 1) - 1 = N
    BY <1>1
  <2> QED BY <1>1, <1>4, <2>1 DEF IsCut
<1>6. CASE block = <<>>
  <2>1. B \o Y = B
    BY <1>6, ConcatEmptySeq
  <2> QED BY <1>1, <1>5, <1>6, <2>1, TakeLineCases
<1>7. CASE block # <<>>
  <2>1. B \o Y = Append(B, block)
    BY <1>7, AppendIsConcat
  <2>2. f[N + 1] = Cutting(Append(B, block), <<>>)
    BY <1>5, <1>7, TakeLineCases
  <2> QED BY <1>1, <2>1, <2>2, Zenon
<1> QED
  BY <1>6, <1>7

\* Lines that are kept.
Proper(L) == {line \in L : line # Candidate!Separator /\ line.text # "end"}

\* The blocks of a section are those that were rendered.
LEMMA RenderedYields ==
    ASSUME NEW L, Candidate!Separator \in L, NEW blocks \in Seq(Seq(Proper(L)) \ {<<>>})
    PROVE  /\ Candidate!Rendered(blocks) \in Seq(L)
           /\ blocks \in Seq(Seq(L))
           /\ Yields(L, Candidate!Rendered(blocks), blocks)
<1> DEFINE texts == [n \in DOMAIN blocks |-> Append(blocks[n], Candidate!Separator)]
<1>1. PICK N \in Nat : N = Len(blocks) /\ DOMAIN blocks = 1..N
  OBVIOUS
<1>2. \A n \in 1..N : blocks[n] \in Seq(L) /\ blocks[n] # <<>>
  <2>1. Seq(Proper(L)) \subseteq Seq(L)
    BY SeqMonotonic DEF Proper
  <2> QED BY <1>1, <2>1
<1>3. blocks \in Seq(Seq(L))
  <2>1. Seq(Proper(L)) \ {<<>>} \subseteq Seq(L)
    BY SeqMonotonic DEF Proper
  <2> QED BY <2>1, SeqMonotonic
<1>4. texts \in Seq(Seq(L)) /\ Len(texts) = N /\ \A n \in 1..N : texts[n] = Append(blocks[n], Candidate!Separator)
  <2>1. \A n \in 1..N : Append(blocks[n], Candidate!Separator) \in Seq(L)
    BY <1>2, AppendProperties
  <2> QED BY <1>1, <2>1
<1>5. ASSUME NEW n \in 1..N PROVE Yields(L, texts[n], <<blocks[n]>>)
  <2>1. blocks[n] \in Seq(Proper(L))
    BY <1>1
  <2>2. \A m \in 1..Len(blocks[n]) :
            blocks[n][m] # Candidate!Separator /\ blocks[n][m].text # "end"
    <3>1. \A m \in 1..Len(blocks[n]) : blocks[n][m] \in Proper(L)
      BY <2>1
    <3> QED BY <3>1 DEF Proper
  <2>3. Yields(L, Append(blocks[n], Candidate!Separator),
               IF blocks[n] = <<>> THEN <<>> ELSE <<blocks[n]>>)
    BY <1>2, <2>2, BlockYields, Zenon
  <2> QED BY <1>2, <1>4, <2>3
<1>6. Candidate!Rendered(blocks) = FlattenSeq(texts)
  BY SameFlatten DEF Candidate!Rendered
<1> HIDE DEF texts
<1>7. PICK f \in [0..Len(texts) -> Seq(L)] :
            /\ f[0] = <<>>
            /\ \A n \in 1..Len(texts) : f[n] = f[n - 1] \o texts[n]
            /\ FlattenSeq(texts) = f[Len(texts)]
  BY <1>4, FlattenSteps, Zenon
<1> DEFINE T == {n \in Nat : n <= N => Yields(L, f[n], SubSeq(blocks, 1, n))}
<1>8. 0 \in T
  <2>1. SubSeq(blocks, 1, 0) = <<>>
    BY SubSeqEmpty
  <2> QED BY <1>7, <2>1, NothingYields, Zenon
<1>9. ASSUME NEW n \in Nat, n \in T PROVE n + 1 \in T
  <2> SUFFICES ASSUME n + 1 <= N PROVE Yields(L, f[n + 1], SubSeq(blocks, 1, n + 1))
    OBVIOUS
  <2>1. n + 1 \in 1..N /\ (n + 1) - 1 = n /\ n \in 0..Len(texts)
    BY <1>4
  <2>2. f[n + 1] = f[n] \o texts[n + 1]
    BY <1>4, <1>7, <2>1, Zenon
  <2>3. SubSeq(blocks, 1, n + 1) = SubSeq(blocks, 1, n) \o <<blocks[n + 1]>>
    <3>1. 1 \in 1..Len(blocks) /\ n + 1 \in 1..Len(blocks)
      BY <1>1, <2>1
    <3>2. SubSeq(blocks, 1, n + 1) = SubSeq(blocks, 1, (n + 1) - 1) \o <<blocks[n + 1]>>
      BY <1>3, <3>1, SubSeqRecursiveSecond, Zenon
    <3> QED BY <2>1, <3>2
  <2>4. SubSeq(blocks, 1, n) \in Seq(Seq(L))
    <3>1. \A i \in 1..n : blocks[i] \in Seq(L)
      BY <1>2, <2>1
    <3> QED BY <3>1, SubSeqProperties
  <2>5. f[n] \in Seq(L) /\ texts[n + 1] \in Seq(L)
    <3>1. f[n] \in Seq(L)
      BY <1>7, <2>1
    <3>2. texts[n + 1] \in Seq(L)
      BY <1>4, <2>1
    <3> QED BY <3>1, <3>2
  <2>6. <<blocks[n + 1]>> \in Seq(Seq(L))
    BY <1>2, <2>1
  <2>7. Yields(L, f[n], SubSeq(blocks, 1, n)) /\ Yields(L, texts[n + 1], <<blocks[n + 1]>>)
    BY <1>5, <1>9, <2>1
  <2>8. Yields(L, f[n] \o texts[n + 1], SubSeq(blocks, 1, n) \o <<blocks[n + 1]>>)
    BY <2>4, <2>5, <2>6, <2>7, YieldsTogether, Zenon
  <2> QED BY <2>2, <2>3, <2>8, Zenon
<1>10. N \in T
  <2> HIDE DEF T
  <2> QED BY <1>8, <1>9, NatSetInduction, Zenon
<1>11. SubSeq(blocks, 1, N) = blocks
  BY <1>1, <1>3, SubSeqFull
<1>12. Yields(L, FlattenSeq(texts), blocks)
  BY <1>1, <1>4, <1>7, <1>10, <1>11
<1>13. FlattenSeq(texts) \in Seq(L)
  <2>1. Len(texts) \in 0..Len(texts)
    BY <1>1, <1>4
  <2> QED BY <1>7, <2>1
<1> QED
  BY <1>3, <1>6, <1>12, <1>13

-----------------------------------------------------------------------------
(* The blocks of the sections.                                              *)

Vlan255 == [type |-> "Vlan", slot |-> <<>>, port |-> 255]

\* The names of interfaces a candidate can open.
Openable(Types, Slots) == PortNames(Types, Slots) \cup {Vlan255}

\* A line of a section, a line the operator adds, any line of a candidate.
SectionLines(section, names) ==
    [section : {section}, text : {"interface", "description", "setting"}, on : SUBSET names]
OverrideLines(names) == [section : {"overrides"}, text : {"description", "setting", "end"}, on : SUBSET names]
CandidateLines(names) ==
    [section : Sections \cup {"overrides", "!"},
     text : {"interface", "description", "setting", "end", "!"}, on : SUBSET names]

\* A classification as the rendering takes it.
IsClassified(c, Types, Slots) ==
    /\ c.uplink \subseteq PortNames(Types, Slots)
    /\ c.provision_port \subseteq PortNames(Types, Slots)
    /\ c.user_ports \in Seq(PortNames(Types, Slots))

\* The blocks of a section that are sent: a switch that does not know the command
\* of the section transceiver gets none for it.
SentOf(section, c, monitoring) ==
    IF section = "transceiver" /\ ~monitoring THEN <<>>
    ELSE Candidate!BranchSection(section, c, monitoring)

SectionBlocks(section, names) == Seq(SectionLines(section, names)) \ {<<>>}

\* The lines of the blocks of interfaces.
LEMMA LinesOfSection ==
    ASSUME NEW section, NEW names, NEW on \in SUBSET names
    PROVE  /\ Candidate!Setting(section) \in SectionLines(section, names)
           /\ Candidate!Interface(section, on) \in Seq(SectionLines(section, names))
           /\ Candidate!Interface(section, on) \o <<Candidate!Setting(section)>>
                \in Seq(SectionLines(section, names))
           /\ Len(Candidate!Interface(section, on)) = 2
           /\ Candidate!Interface(section, on)[1] = Candidate!Line(section, "interface", on)
           /\ Candidate!Interface(section, on)[2] = Candidate!Line(section, "description", {})
<1>1. /\ Candidate!Setting(section) \in SectionLines(section, names)
      /\ Candidate!Line(section, "interface", on) \in SectionLines(section, names)
      /\ Candidate!Line(section, "description", {}) \in SectionLines(section, names)
  BY DEF Candidate!Setting, Candidate!Line, SectionLines
<1> QED
  BY <1>1, ConcatProperties DEF Candidate!Interface

\* Each section of global commands has a block.
LEMMA PartsOfSection ==
    ASSUME NEW section PROVE Candidate!Parts(section) \in Nat \ {0}
<1>1. DOMAIN Candidate!Cuts = {"aaa", "network_services", "vlans", "radius", "lines"}
  BY DEF Candidate!Cuts
<1>2. \A x \in DOMAIN Candidate!Cuts : Candidate!Cuts[x] \in Nat \ {0}
  BY DEF Candidate!Cuts
<1> QED
  BY <1>2 DEF Candidate!Parts

\* Each block of a section has lines of that section, at least one.
LEMMA BlocksOfSection ==
    ASSUME NEW Types, NEW Slots, NEW c, IsClassified(c, Types, Slots), NEW section,
           NEW monitoring \in BOOLEAN
    PROVE  SentOf(section, c, monitoring)
                \in Seq(SectionBlocks(section, Openable(Types, Slots)))
<1> DEFINE names == Openable(Types, Slots)
           S == SectionBlocks(section, names)
           blocks == SentOf(section, c, monitoring)
<1>1. <<Candidate!Setting(section)>> \in S
  <2>1. Candidate!Setting(section) \in SectionLines(section, names)
    BY LinesOfSection
  <2>2. <<Candidate!Setting(section)>> # <<>>
    OBVIOUS
  <2> HIDE DEF names
  <2>3. <<Candidate!Setting(section)>> \in Seq(SectionLines(section, names))
    BY <2>1
  <2> QED BY <2>2, <2>3 DEF SectionBlocks
<1>2. ASSUME NEW on \in SUBSET names
      PROVE  /\ Candidate!Interface(section, on) \in S
             /\ Candidate!Interface(section, on) \o <<Candidate!Setting(section)>> \in S
  <2> DEFINE R == SectionLines(section, names)
             X == Candidate!Interface(section, on)
             line == Candidate!Setting(section)
  <2>1. X \in Seq(R) /\ Len(X) = 2 /\ line \in R
    BY LinesOfSection
  <2> HIDE DEF R, X, line
  <2>2. X \o <<line>> \in Seq(R) /\ Len(X \o <<line>>) = 3
    <3> DEFINE Y == <<line>>
    <3>1. Y \in Seq(R) /\ Len(Y) = 1
      BY <2>1
    <3> HIDE DEF Y
    <3>2. X \o Y \in Seq(R) /\ Len(X \o Y) = Len(X) + Len(Y)
      BY <2>1, <3>1, ConcatProperties, Zenon
    <3>3. Len(X) + Len(Y) = 3
      BY <2>1, <3>1
    <3> QED BY <3>2, <3>3 DEF Y
  <2>3. X # <<>> /\ X \o <<line>> # <<>>
    BY <2>1, <2>2, EmptySeq
  <2> QED BY <2>1, <2>2, <2>3 DEF SectionBlocks, R, X, line
<1>3. CASE section = "transceiver"
  <2>1. blocks = IF monitoring THEN <<<<Candidate!Setting(section)>>>> ELSE <<>>
    <3>1. CASE monitoring
      BY <1>3, <3>1 DEF SentOf, Candidate!BranchSection
    <3>2. CASE ~monitoring
      BY <1>3, <3>2 DEF SentOf
    <3> QED BY <3>1, <3>2
  <2> QED BY <1>1, <2>1, EmptySeq
<1>4. CASE section = "management"
  <2>1. {Vlan255} \in SUBSET names
    BY DEF Openable
  <2>2. blocks = <<Candidate!Interface(section, {Vlan255}) \o <<Candidate!Setting(section)>>,
                   <<Candidate!Setting(section)>>>>
    BY <1>4 DEF SentOf, Candidate!BranchSection, Vlan255
  <2>3. Candidate!Interface(section, {Vlan255}) \o <<Candidate!Setting(section)>> \in S
    BY <1>2, <2>1
  <2> DEFINE one == Candidate!Interface(section, {Vlan255}) \o <<Candidate!Setting(section)>>
             two == <<Candidate!Setting(section)>>
  <2> HIDE DEF one, two
  <2>4. blocks = <<one, two>> /\ one \in S /\ two \in S
    BY <1>1, <2>2, <2>3, Zenon DEF one, two
  <2> QED BY <2>4
<1>5. CASE section = "provision_port"
  <2>1. c.provision_port \in SUBSET names
    BY DEF IsClassified, Openable
  <2>2. blocks = <<Candidate!Interface(section, c.provision_port)>>
    BY <1>5 DEF SentOf, Candidate!BranchSection
  <2> QED BY <1>2, <2>1, <2>2
<1>6. CASE section = "uplink"
  <2>1. c.uplink \in SUBSET names
    BY DEF IsClassified, Openable
  <2>2. blocks = <<Candidate!Interface(section, c.uplink) \o <<Candidate!Setting(section)>>>>
    BY <1>6, Zenon DEF SentOf, Candidate!BranchSection
  <2> QED BY <1>2, <2>1, <2>2
<1>7. CASE section = "user_ports"
  <2> DEFINE groups == Candidate!BuildInterfaceGroups(c.user_ports)
  <2>1. groups \in Seq(Ranges(Types, Slots)) /\ CoversOnce(groups, ToSet(c.user_ports))
    BY GroupsCoverNames DEF IsClassified
  <2>2. ToSet(c.user_ports) \subseteq names
    BY DEF IsClassified, Openable, ToSet
  <2>3. blocks = [n \in DOMAIN groups |->
                    Candidate!Interface(section, Candidate!Covered(groups[n])) \o <<Candidate!Setting(section)>>]
    BY <1>7 DEF SentOf, Candidate!BranchSection
  <2> HIDE DEF groups
  <2>4. PICK N \in Nat : N = Len(groups) /\ DOMAIN groups = 1..N
    BY <2>1
  <2>5. \A n \in 1..N : Candidate!Covered(groups[n]) \in SUBSET names
    BY <2>1, <2>2, <2>4 DEF CoversOnce
  <2>6. \A n \in 1..N :
            Candidate!Interface(section, Candidate!Covered(groups[n])) \o <<Candidate!Setting(section)>> \in S
    BY <1>2, <2>5
  <2> QED BY <2>3, <2>4, <2>6
<1>8. CASE section \notin {"transceiver", "management", "provision_port", "uplink", "user_ports"}
  <2>1. blocks = [n \in 1..Candidate!Parts(section) |-> <<Candidate!Setting(section)>>]
    BY <1>8 DEF SentOf, Candidate!BranchSection
  <2> QED BY <1>1, <2>1, PartsOfSection
<1> QED
  BY <1>3, <1>4, <1>5, <1>6, <1>7, <1>8

\* The twenty-one sections.
LEMMA SectionsInOrder ==
    /\ Candidate!SECTION_ORDER \in Seq(Sections)
    /\ Len(Candidate!SECTION_ORDER) = 21 /\ DOMAIN Candidate!SECTION_ORDER = 1..21
    /\ \A m, n \in 1..21 : Candidate!SECTION_ORDER[m] = Candidate!SECTION_ORDER[n] => m = n
    /\ Candidate!SECTION_ORDER[11] = "transceiver"
    /\ Candidate!SECTION_ORDER[13] = "management"
    /\ Candidate!SECTION_ORDER[14] = "provision_port"
    /\ Candidate!SECTION_ORDER[15] = "uplink"
    /\ Candidate!SECTION_ORDER[16] = "user_ports"
    /\ Sections = {Candidate!SECTION_ORDER[n] : n \in 1..21}
    /\ "!" \notin Sections /\ "overrides" \notin Sections
<1>1. Len(Candidate!SECTION_ORDER) = 21 /\ DOMAIN Candidate!SECTION_ORDER = 1..21
  BY DEF Candidate!SECTION_ORDER
<1>2. Sections = {Candidate!SECTION_ORDER[n] : n \in 1..21}
  BY <1>1 DEF Sections, ToSet
<1>3. \A m, n \in 1..21 : Candidate!SECTION_ORDER[m] = Candidate!SECTION_ORDER[n] => m = n
  BY SMTT(60) DEF Candidate!SECTION_ORDER
<1>4. \A n \in 1..21 : Candidate!SECTION_ORDER[n] # "!" /\ Candidate!SECTION_ORDER[n] # "overrides"
  BY DEF Candidate!SECTION_ORDER
<1>5. /\ Candidate!SECTION_ORDER[11] = "transceiver"
      /\ Candidate!SECTION_ORDER[13] = "management"
      /\ Candidate!SECTION_ORDER[14] = "provision_port"
      /\ Candidate!SECTION_ORDER[15] = "uplink"
      /\ Candidate!SECTION_ORDER[16] = "user_ports"
  BY DEF Candidate!SECTION_ORDER
<1>6. Candidate!SECTION_ORDER \in Seq({Candidate!SECTION_ORDER[n] : n \in 1..21})
  BY DEF Candidate!SECTION_ORDER
<1> QED
  BY <1>1, <1>2, <1>3, <1>4, <1>5, <1>6

-----------------------------------------------------------------------------
(* Where the elements of a flattened sequence are.                          *)

\* k[n] elements come from the first n sequences.
IsPlacing(k, seqs, flat, N) ==
    /\ k[0] = 0 /\ Len(flat) = k[N]
    /\ \A n \in 1..N : k[n] \in Nat /\ k[n - 1] \in Nat /\ k[n] <= Len(flat)
    /\ \A n \in 1..N : k[n] = k[n - 1] + Len(seqs[n])
    /\ \A n \in 1..N : \A j \in 1..Len(seqs[n]) : flat[k[n - 1] + j] = seqs[n][j]
    /\ \A b \in 1..Len(flat) : \E n \in 1..N : \E j \in 1..Len(seqs[n]) : b = k[n - 1] + j
    /\ \A m, n \in 1..N : m < n => k[m] <= k[n - 1]

\* The elements of two sequences put together.
LEMMA ConcatElements ==
    ASSUME NEW S, NEW X \in Seq(S), NEW Y \in Seq(S), NEW W, W = X \o Y
    PROVE  /\ W \in Seq(S) /\ Len(X) \in Nat /\ Len(Y) \in Nat /\ Len(W) = Len(X) + Len(Y)
           /\ \A i \in 1..Len(X) : i \in 1..Len(W) /\ W[i] = X[i]
           /\ \A j \in 1..Len(Y) : Len(X) + j \in 1..Len(W) /\ W[Len(X) + j] = Y[j]
<1>1. /\ Len(X) \in Nat /\ Len(Y) \in Nat /\ W \in Seq(S) /\ Len(W) = Len(X) + Len(Y)
      /\ \A n \in 1..(Len(X) + Len(Y)) : W[n] = IF n <= Len(X) THEN X[n] ELSE Y[n - Len(X)]
  BY ConcatProperties
<1>2. ASSUME NEW i \in 1..Len(X) PROVE i \in 1..Len(W) /\ W[i] = X[i]
  <2>1. i \in 1..(Len(X) + Len(Y)) /\ i <= Len(X)
    BY <1>1
  <2> QED BY <1>1, <2>1
<1>3. ASSUME NEW j \in 1..Len(Y) PROVE Len(X) + j \in 1..Len(W) /\ W[Len(X) + j] = Y[j]
  <2>1. /\ Len(X) + j \in 1..(Len(X) + Len(Y)) /\ ~(Len(X) + j <= Len(X))
        /\ (Len(X) + j) - Len(X) = j
    BY <1>1
  <2> QED BY <1>1, <2>1
<1> QED
  BY <1>1, <1>2, <1>3

\* A flattened sequence has the elements of all sequences, in their order.
LEMMA FlattenPlaces ==
    ASSUME NEW S, NEW seqs \in Seq(Seq(S))
    PROVE  /\ FlattenSeq(seqs) \in Seq(S)
           /\ \E k : IsPlacing(k, seqs, FlattenSeq(seqs), Len(seqs))
<1>1. PICK N \in Nat : N = Len(seqs)
  OBVIOUS
<1>2. \A n \in 1..N : seqs[n] \in Seq(S) /\ Len(seqs[n]) \in Nat
  BY <1>1
<1>3. PICK f \in [0..N -> Seq(S)] :
            /\ f[0] = <<>>
            /\ \A n \in 1..N : f[n] = f[n - 1] \o seqs[n]
            /\ FlattenSeq(seqs) = f[N]
  BY <1>1, FlattenSteps, Zenon
<1> DEFINE k == [n \in 0..N |-> Len(f[n])]
<1>4. \A n \in 0..N : k[n] = Len(f[n]) /\ k[n] \in Nat /\ f[n] \in Seq(S)
  OBVIOUS
<1> HIDE DEF k
<1>5. ASSUME NEW n \in 1..N
      PROVE  /\ n - 1 \in 0..N /\ n \in 0..N /\ k[n] = k[n - 1] + Len(seqs[n])
             /\ \A i \in 1..k[n - 1] : f[n][i] = f[n - 1][i]
             /\ \A j \in 1..Len(seqs[n]) : f[n][k[n - 1] + j] = seqs[n][j]
  <2>1. n - 1 \in 0..N /\ n \in 0..N
    OBVIOUS
  <2>2. f[n - 1] \in Seq(S) /\ seqs[n] \in Seq(S) /\ f[n] = f[n - 1] \o seqs[n]
    BY <1>2, <1>3, <1>4, <2>1, Zenon
  <2>3. k[n - 1] = Len(f[n - 1]) /\ k[n] = Len(f[n])
    BY <1>4, <2>1
  <2> QED BY <2>1, <2>2, <2>3, ConcatElements
<1> DEFINE Good(n) == /\ \A m \in 1..n : \A j \in 1..Len(seqs[m]) :
                            k[m - 1] + j \in 1..k[n] /\ f[n][k[m - 1] + j] = seqs[m][j]
                      /\ \A b \in 1..k[n] : \E m \in 1..n : \E j \in 1..Len(seqs[m]) : b = k[m - 1] + j
                      /\ \A m \in 0..n : k[m] <= k[n]
           T == {n \in Nat : n <= N => Good(n)}
<1>6. 0 \in T
  <2>1. k[0] = 0
    <3>1. Len(<<>>) = 0 /\ 0 \in 0..N
      OBVIOUS
    <3> QED BY <1>3, <1>4, <3>1
  <2> QED BY <2>1
<1>7. ASSUME NEW n \in Nat, n \in T PROVE n + 1 \in T
  <2> HIDE DEF Good
  <2> SUFFICES ASSUME n + 1 <= N PROVE Good(n + 1)
    OBVIOUS
  <2>1. n + 1 \in 1..N /\ (n + 1) - 1 = n /\ n \in 0..N /\ n <= N
    OBVIOUS
  <2>2. Good(n)
    BY <1>7, <2>1
  <2>3. PICK p \in Nat : p = k[n]
    BY <1>4, <2>1, Zenon
  <2>4. PICK d \in Nat : d = Len(seqs[n + 1])
    BY <1>2, <2>1, Zenon
  <2>5. /\ k[n + 1] = p + d
        /\ \A i \in 1..p : f[n + 1][i] = f[n][i]
        /\ \A j \in 1..d : f[n + 1][p + j] = seqs[n + 1][j]
    <3>1. /\ k[n + 1] = k[(n + 1) - 1] + Len(seqs[n + 1])
          /\ \A i \in 1..k[(n + 1) - 1] : f[n + 1][i] = f[(n + 1) - 1][i]
          /\ \A j \in 1..Len(seqs[n + 1]) : f[n + 1][k[(n + 1) - 1] + j] = seqs[n + 1][j]
      BY <1>5, <2>1
    <3> QED BY <2>1, <2>3, <2>4, <3>1
  <2>6. /\ \A m \in 1..n : \A j \in 1..Len(seqs[m]) :
                k[m - 1] + j \in 1..p /\ f[n][k[m - 1] + j] = seqs[m][j]
        /\ \A b \in 1..p : \E m \in 1..n : \E j \in 1..Len(seqs[m]) : b = k[m - 1] + j
        /\ \A m \in 0..n : k[m] <= p
    BY <2>2, <2>3 DEF Good
  <2>7. 1..p \subseteq 1..(p + d)
    OBVIOUS
  <2>8. ASSUME NEW m \in 1..(n + 1), NEW j \in 1..Len(seqs[m])
        PROVE  k[m - 1] + j \in 1..(p + d) /\ f[n + 1][k[m - 1] + j] = seqs[m][j]
    <3>1. CASE m \in 1..n
      BY <2>5, <2>6, <2>7, <3>1, Zenon
    <3>2. CASE m = n + 1
      <4>1. j \in 1..d /\ m - 1 = n
        BY <2>1, <2>4, <3>2
      <4>2. p + j \in 1..(p + d)
        BY <4>1
      <4> QED BY <2>3, <2>5, <3>2, <4>1, <4>2, Zenon
    <3> QED BY <3>1, <3>2
  <2>9. ASSUME NEW b \in 1..(p + d)
        PROVE  \E m \in 1..(n + 1) : \E j \in 1..Len(seqs[m]) : b = k[m - 1] + j
    <3>1. CASE b \in 1..p
      <4>1. PICK m \in 1..n : \E j \in 1..Len(seqs[m]) : b = k[m - 1] + j
        BY <2>6, <3>1, Zenon
      <4>2. m \in 1..(n + 1)
        OBVIOUS
      <4> QED BY <4>1, <4>2, Zenon
    <3>2. CASE b \notin 1..p
      <4>1. b - p \in 1..d /\ b = p + (b - p)
        BY <3>2
      <4>2. n + 1 \in 1..(n + 1)
        OBVIOUS
      <4>3. b - p \in 1..Len(seqs[n + 1]) /\ b = k[(n + 1) - 1] + (b - p)
        BY <2>1, <2>3, <2>4, <4>1
      <4> QED BY <4>2, <4>3, Zenon
    <3> QED BY <3>1, <3>2
  <2>10. ASSUME NEW m \in 0..(n + 1) PROVE k[m] <= p + d
    <3>1. CASE m \in 0..n
      <4> m \in 0..N
        BY <2>1, <3>1
      <4>1. PICK a \in Nat : a = k[m]
        BY <1>4, Zenon
      <4>2. a <= p
        BY <2>6, <3>1, <4>1
      <4> QED BY <4>1, <4>2
    <3>2. CASE m = n + 1
      BY <2>5, <3>2
    <3> QED BY <3>1, <3>2
  <2> QED BY <2>5, <2>8, <2>9, <2>10 DEF Good
<1>8. \A n \in Nat : n \in T
  <2> HIDE DEF T
  <2> QED BY <1>6, <1>7, NatSetInduction, Zenon
<1>9. \A n \in 0..N : Good(n)
  <2> HIDE DEF Good
  <2> SUFFICES ASSUME NEW n \in 0..N PROVE Good(n)
    OBVIOUS
  <2>1. n \in Nat /\ n <= N /\ n \in T
    BY <1>8
  <2> QED BY <2>1
<1> HIDE DEF T
<1>10. N \in 0..N /\ 0 \in 0..N
  OBVIOUS
<1>11. k[0] = 0
  <2>1. Len(<<>>) = 0
    OBVIOUS
  <2> QED BY <1>3, <1>4, <1>10, <2>1
<1>12. ASSUME NEW m \in 1..N, NEW n \in 1..N, m < n PROVE k[m] <= k[n - 1]
  <2>1. n - 1 \in 0..N /\ m \in 0..(n - 1)
    BY <1>12
  <2> QED BY <1>9, <2>1
<1>13. Len(f[N]) = k[N] /\ f[N] \in Seq(S)
  BY <1>4, <1>10
<1>14. Good(N)
  BY <1>9, <1>10, Zenon
<1>15. IsPlacing(k, seqs, f[N], N)
  <2>1. k[0] = 0 /\ Len(f[N]) = k[N]
    BY <1>11, <1>13
  <2>2. ASSUME NEW n \in 1..N PROVE k[n] \in Nat /\ k[n - 1] \in Nat /\ k[n] <= Len(f[N])
    <3>1. n \in 0..N /\ n - 1 \in 0..N
      OBVIOUS
    <3> QED BY <1>4, <1>13, <1>14, <3>1
  <2>3. \A n \in 1..N : k[n] = k[n - 1] + Len(seqs[n])
    BY <1>5
  <2>4. \A n \in 1..N : \A j \in 1..Len(seqs[n]) : f[N][k[n - 1] + j] = seqs[n][j]
    BY <1>14
  <2>5. \A b \in 1..Len(f[N]) : \E n \in 1..N : \E j \in 1..Len(seqs[n]) : b = k[n - 1] + j
    BY <1>13, <1>14, Zenon
  <2> HIDE DEF Good
  <2> QED BY <1>1, <1>12, <2>1, <2>2, <2>3, <2>4, <2>5 DEF IsPlacing
<1> QED
  BY <1>1, <1>3, <1>13, <1>15

-----------------------------------------------------------------------------
(* The text of a candidate.                                                 *)

\* The blocks of the enabled sections, by section.
SentSections(c, monitoring, enabled) ==
    [n \in 1..21 |-> IF Candidate!SECTION_ORDER[n] \in enabled
                     THEN SentOf(Candidate!SECTION_ORDER[n], c, monitoring) ELSE <<>>]

\* A function on the first n numbers is a sequence.
LEMMA ListIsSequence ==
    ASSUME NEW M, NEW n \in Nat, NEW s \in [1..n -> M] PROVE s \in Seq(M) /\ Len(s) = n
  OBVIOUS

\* The text of a section is cut into the blocks sent for it.
LEMMA SectionYields ==
    ASSUME NEW Types, NEW Slots, NEW c, IsClassified(c, Types, Slots), NEW monitoring \in BOOLEAN,
           NEW section \in Sections
    PROVE  LET L == CandidateLines(Openable(Types, Slots))
               text == Candidate!Rendered(Candidate!BranchSection(section, c, monitoring))
           IN  /\ text \in Seq(L)
               /\ SentOf(section, c, monitoring) \in Seq(Seq(L))
               /\ Yields(L, text, SentOf(section, c, monitoring))
<1> DEFINE names == Openable(Types, Slots)
           L == CandidateLines(names)
           blocks == SentOf(section, c, monitoring)
<1>1. Candidate!Separator \in L
  BY DEF Candidate!Separator, Candidate!Line, CandidateLines
<1>2. SectionLines(section, names) \subseteq Proper(L)
  <2>1. section # "!"
    BY SectionsInOrder
  <2>2. ASSUME NEW line \in SectionLines(section, names) PROVE line \in L
    BY <2>2 DEF SectionLines, CandidateLines
  <2>3. ASSUME NEW line \in SectionLines(section, names)
        PROVE  line.section = section /\ line.text # "end"
    BY <2>3 DEF SectionLines
  <2>4. Candidate!Separator.section = "!"
    BY DEF Candidate!Separator, Candidate!Line
  <2> QED BY <2>1, <2>2, <2>3, <2>4 DEF Proper
<1>3. SectionBlocks(section, names) \subseteq Seq(Proper(L)) \ {<<>>}
  BY <1>2, SeqMonotonic DEF SectionBlocks
<1>4. CASE section = "transceiver" /\ ~monitoring
  <2>1. Candidate!BranchSection(section, c, monitoring) = <<<<>>>>
    BY <1>4 DEF Candidate!BranchSection
  <2> DEFINE text == Append(<<>>, Candidate!Separator)
             none == <<<<>>>>
             line == Candidate!Separator
  <2>2. Candidate!Rendered(none) = text
    <3>1. none \in Seq(Seq(L)) /\ Len(none) = 1 /\ none[1] = <<>>
      OBVIOUS
    <3> DEFINE texts == [n \in DOMAIN none |-> Append(none[n], line)]
    <3> HIDE DEF line
    <3>2. Candidate!Rendered(none) = FlattenSeq(texts)
      BY SameFlatten DEF Candidate!Rendered, line
    <3> HIDE DEF none
    <3>3. texts \in Seq(Seq(L)) /\ Len(texts) = 1 /\ texts[1] = <<line>>
      <4>1. line \in L /\ DOMAIN none = 1..1
        BY <1>1, <3>1 DEF line
      <4>2. Append(none[1], line) = <<line>> /\ <<line>> \in Seq(L)
        <5> HIDE DEF L
        <5> QED BY <3>1, <4>1
      <4> DEFINE One(n) == Append(none[n], line)
      <4>3. texts = [n \in 1..1 |-> One(n)]
        BY <4>1
      <4>4. One(1) = <<line>> /\ \A n \in 1..1 : n = 1
        BY <4>2
      <4> HIDE DEF texts, L, One
      <4>5. \A n \in 1..1 : One(n) \in Seq(L)
        BY <4>2, <4>4, Zenon
      <4>6. texts \in [1..1 -> Seq(L)]
        BY <4>3, <4>5, Zenon
      <4>7. texts \in Seq(Seq(L)) /\ Len(texts) = 1
        <5> DEFINE M == Seq(L)
        <5> HIDE DEF M
        <5>1. texts \in [1..1 -> M]
          BY <4>6 DEF M
        <5>2. texts \in Seq(M) /\ Len(texts) = 1
          BY <5>1, ListIsSequence, Zenon
        <5> QED BY <5>2 DEF M
      <4>8. 1 \in 1..1
        OBVIOUS
      <4> QED BY <4>3, <4>4, <4>7, <4>8, Zenon
    <3> HIDE DEF texts
    <3>4. PICK f \in [0..Len(texts) -> Seq(L)] :
            /\ f[0] = <<>>
            /\ \A n \in 1..Len(texts) : f[n] = f[n - 1] \o texts[n]
            /\ FlattenSeq(texts) = f[Len(texts)]
      BY <3>3, FlattenSteps, Zenon
    <3>5. f[1] = f[0] \o texts[1]
      BY <3>3, <3>4
    <3>6. FlattenSeq(texts) = <<>> \o <<line>>
      BY <3>3, <3>4, <3>5
    <3>7. <<>> \o <<line>> = Append(<<>>, line)
      OBVIOUS
    <3> QED BY <3>2, <3>6, <3>7 DEF line
  <2>3. Yields(L, text, <<>>)
    <3>1. <<>> \in Seq(L) /\ \A n \in 1..Len(<<>>) : <<>>[n] # line /\ <<>>[n].text # "end"
      OBVIOUS
    <3> QED BY <1>1, <3>1, BlockYields, Zenon
  <2>4. blocks = <<>>
    BY <1>4 DEF SentOf
  <2>5. text \in Seq(L) /\ <<>> \in Seq(Seq(L))
    BY <1>1
  <2> HIDE DEF text, none, L
  <2> QED BY <2>1, <2>2, <2>3, <2>4, <2>5 DEF none, L
<1>5. CASE ~(section = "transceiver" /\ ~monitoring)
  <2>1. Candidate!BranchSection(section, c, monitoring) = blocks
    BY <1>5 DEF SentOf
  <2>2. blocks \in Seq(Seq(Proper(L)) \ {<<>>})
    <3>1. blocks \in Seq(SectionBlocks(section, names))
      BY BlocksOfSection
    <3> HIDE DEF blocks, L, names
    <3> QED BY <1>3, <3>1, SeqMonotonic
  <2> HIDE DEF blocks, L
  <2> QED BY <1>1, <2>1, <2>2, RenderedYields, Zenon DEF L, blocks
<1> QED
  BY <1>4, <1>5

\* Texts one after the other, any number of them.
LEMMA FlattenYields ==
    ASSUME NEW L, NEW texts \in Seq(Seq(L)), NEW parts \in Seq(Seq(Seq(L))), Len(parts) = Len(texts),
           \A n \in 1..Len(texts) : Yields(L, texts[n], parts[n])
    PROVE  Yields(L, FlattenSeq(texts), FlattenSeq(parts))
<1> DEFINE IsFlat(h, seqs, V) ==
               /\ h \in [0..Len(seqs) -> V]
               /\ h[0] = <<>>
               /\ \A n \in 1..Len(seqs) : h[n] = h[n - 1] \o seqs[n]
               /\ FlattenSeq(seqs) = h[Len(seqs)]
<1>1. \E h : IsFlat(h, texts, Seq(L))
  BY FlattenSteps, Zenon
<1>2. \E h : IsFlat(h, parts, Seq(Seq(L)))
  BY FlattenSteps, Zenon
<1> HIDE DEF IsFlat
<1>3. PICK f, g : IsFlat(f, texts, Seq(L)) /\ IsFlat(g, parts, Seq(Seq(L)))
  BY <1>1, <1>2
<1> DEFINE N == Len(texts)
<1>4. /\ N \in Nat /\ Len(parts) = N
      /\ \A n \in 1..N : texts[n] \in Seq(L) /\ parts[n] \in Seq(Seq(L))
  <2>1. N \in Nat /\ \A n \in 1..N : texts[n] \in Seq(L)
    OBVIOUS
  <2>2. \A n \in 1..Len(parts) : parts[n] \in Seq(Seq(L))
    OBVIOUS
  <2> QED BY <2>1, <2>2
<1>5. /\ \A n \in 0..N : f[n] \in Seq(L) /\ g[n] \in Seq(Seq(L))
      /\ f[0] = <<>> /\ g[0] = <<>>
      /\ \A n \in 1..N : f[n] = f[n - 1] \o texts[n] /\ g[n] = g[n - 1] \o parts[n]
      /\ FlattenSeq(texts) = f[N] /\ FlattenSeq(parts) = g[N]
  <2>1. /\ f \in [0..N -> Seq(L)]
        /\ f[0] = <<>>
        /\ \A n \in 1..N : f[n] = f[n - 1] \o texts[n]
        /\ FlattenSeq(texts) = f[N]
    BY <1>3, Zenon DEF IsFlat
  <2>4. /\ g \in [0..Len(parts) -> Seq(Seq(L))]
        /\ g[0] = <<>>
        /\ \A n \in 1..Len(parts) : g[n] = g[n - 1] \o parts[n]
        /\ FlattenSeq(parts) = g[Len(parts)]
    BY <1>3, Zenon DEF IsFlat
  <2> HIDE DEF N
  <2>2. \A n \in 0..N : f[n] \in Seq(L)
    BY <2>1, Zenon
  <2>3. \A n \in 0..N : g[n] \in Seq(Seq(L))
    BY <1>4, <2>4, Zenon
  <2>5. \A n \in 1..N : g[n] = g[n - 1] \o parts[n]
    BY <1>4, <2>4, Zenon
  <2>6. g[0] = <<>> /\ FlattenSeq(parts) = g[N]
    BY <1>4, <2>4, Zenon
  <2> QED BY <2>1, <2>2, <2>3, <2>5, <2>6, Zenon
<1>6. \A n \in 1..N : Yields(L, texts[n], parts[n])
  OBVIOUS
<1> HIDE DEF N
<1> DEFINE T == {n \in Nat : n <= N => Yields(L, f[n], g[n])}
<1>7. 0 \in T
  BY <1>5, NothingYields
<1>8. ASSUME NEW n \in Nat, n \in T PROVE n + 1 \in T
  <2> SUFFICES ASSUME n + 1 <= N PROVE Yields(L, f[n + 1], g[n + 1])
    OBVIOUS
  <2>1. n + 1 \in 1..N /\ (n + 1) - 1 = n /\ n \in 0..N /\ n <= N
    BY <1>4
  <2>2. f[n + 1] = f[n] \o texts[n + 1] /\ g[n + 1] = g[n] \o parts[n + 1]
    BY <1>5, <2>1, Zenon
  <2>3. /\ f[n] \in Seq(L) /\ texts[n + 1] \in Seq(L)
        /\ g[n] \in Seq(Seq(L)) /\ parts[n + 1] \in Seq(Seq(L))
    BY <1>4, <1>5, <2>1, Zenon
  <2>4. Yields(L, f[n], g[n]) /\ Yields(L, texts[n + 1], parts[n + 1])
    BY <1>6, <1>8, <2>1
  <2> QED BY <2>2, <2>3, <2>4, YieldsTogether, Zenon
<1>9. N \in T
  <2> HIDE DEF T
  <2> QED BY <1>4, <1>7, <1>8, NatSetInduction, Zenon
<1> QED
  BY <1>4, <1>5, <1>9

\* All sections: what is cut is what was rendered, section by section.
LEMMA SectionsYield ==
    ASSUME NEW Types, NEW Slots, NEW c, IsClassified(c, Types, Slots), NEW monitoring \in BOOLEAN,
           NEW enabled
    PROVE  LET L == CandidateLines(Openable(Types, Slots))
               text == Candidate!FlattenSeq([n \in DOMAIN Candidate!SECTION_ORDER |->
                          IF Candidate!SECTION_ORDER[n] \in enabled
                          THEN Candidate!Rendered(Candidate!BranchSection(
                                  Candidate!SECTION_ORDER[n], c, monitoring))
                          ELSE <<>>])
           IN  /\ text \in Seq(L)
               /\ SentSections(c, monitoring, enabled) \in Seq(Seq(Seq(L)))
               /\ Yields(L, text, FlattenSeq(SentSections(c, monitoring, enabled)))
<1> DEFINE L == CandidateLines(Openable(Types, Slots))
           order == Candidate!SECTION_ORDER
           TextOf(n) == IF order[n] \in enabled
                        THEN Candidate!Rendered(Candidate!BranchSection(order[n], c, monitoring))
                        ELSE <<>>
           PartOf(n) == IF order[n] \in enabled THEN SentOf(order[n], c, monitoring) ELSE <<>>
           texts == [n \in DOMAIN order |-> TextOf(n)]
           parts == SentSections(c, monitoring, enabled)
<1>1. ASSUME NEW n \in 1..21
      PROVE  TextOf(n) \in Seq(L) /\ PartOf(n) \in Seq(Seq(L)) /\ Yields(L, TextOf(n), PartOf(n))
  <2>1. order[n] \in Sections
    BY SectionsInOrder, Zenon
  <2>2. CASE order[n] \in enabled
    BY <2>1, <2>2, SectionYields
  <2>3. CASE order[n] \notin enabled
    <3>1. <<>> \in Seq(L) /\ <<>> \in Seq(Seq(L))
      OBVIOUS
    <3> QED BY <2>3, <3>1, NothingYields
  <2> QED BY <2>2, <2>3
<1>2. DOMAIN order = 1..21
  BY SectionsInOrder
<1>3. parts = [n \in 1..21 |-> PartOf(n)]
  BY DEF SentSections
<1> HIDE DEF L, TextOf, PartOf, parts, order
<1>4. texts \in Seq(Seq(L)) /\ Len(texts) = 21 /\ \A n \in 1..21 : texts[n] = TextOf(n)
  BY <1>1, <1>2
<1>5. parts \in Seq(Seq(Seq(L))) /\ Len(parts) = 21 /\ \A n \in 1..21 : parts[n] = PartOf(n)
  BY <1>1, <1>3
<1> HIDE DEF texts
<1>6. Yields(L, FlattenSeq(texts), FlattenSeq(parts))
  BY <1>1, <1>4, <1>5, FlattenYields, Zenon
<1>7. FlattenSeq(texts) \in Seq(L)
  BY <1>4, FlattenPlaces
<1> QED
  BY <1>5, <1>6, <1>7, SameFlatten, Zenon DEF L, texts, TextOf, order, parts

-----------------------------------------------------------------------------
(* The blocks that are sent.                                                *)

\* Sequences that are not empty.
Some(K) == Seq(K) \ {<<>>}

Regroups(B, E, x) == Append(B \o E, x) = B \o Append(E, x)

\* To append to the second of two sequences is to append to both.
LEMMA AppendToRest ==
    ASSUME NEW S, NEW B \in Seq(S), NEW E \in Seq(S), NEW x \in S
    PROVE  Regroups(B, E, x)
<1> DEFINE Y == <<x>>
<1>1. Y \in Seq(S)
  OBVIOUS
<1>2. B \o E \in Seq(S)
  BY ConcatProperties
<1>3. Append(B \o E, x) = (B \o E) \o Y /\ Append(E, x) = E \o Y
  BY <1>2, AppendIsConcat
<1> HIDE DEF Y
<1> QED
  BY <1>1, <1>3, ConcatAssociative DEF Regroups

\* Lines that are kept; lines that are kept, end a block or are passed over.
AreKept(K) == \A line \in K : line # Candidate!Separator /\ line.text # "end"
Fits(line, K) == \/ line \in K
                 \/ line = Candidate!Separator
                 \/ line # Candidate!Separator /\ line.text = "end"
AllFit(lines, K) == \A n \in 1..Len(lines) : Fits(lines[n], K)

\* The blocks of a cut, the last one included, are B and more.
Adds(f, lines, B, K) ==
    \E E \in Seq(Some(K)) : Candidate!Flushed(f[Len(lines)]).blocks = B \o E

\* Lines after the sections add blocks of their own.
LEMMA RestIsCut ==
    ASSUME NEW L, NEW K \in SUBSET L, NEW lines \in Seq(L), AreKept(K), AllFit(lines, K),
           NEW B \in Seq(Seq(L)), NEW f, IsCut(f, Cutting(B, <<>>), lines)
    PROVE  Adds(f, lines, B, K)
<1> DEFINE N == Len(lines)
           Cut(n) == \E E \in Seq(Some(K)), C \in Seq(K) : f[n] = Cutting(B \o E, C)
           T == {n \in Nat : n <= N => Cut(n)}
<1>1. N \in Nat
  OBVIOUS
<1>2. ASSUME NEW E \in Seq(Some(K)), NEW C \in Some(K)
      PROVE  Append(E, C) \in Seq(Some(K)) /\ Append(B \o E, C) = B \o Append(E, C)
  <2>1. Append(E, C) \in Seq(Some(K))
    BY AppendProperties
  <2>2. Some(K) \subseteq Seq(L)
    BY SeqMonotonic DEF Some
  <2>3. E \in Seq(Seq(L)) /\ C \in Seq(L)
    BY <2>2, SeqMonotonic
  <2>4. Append(B \o E, C) = B \o Append(E, C)
    <3> DEFINE M == Seq(L)
    <3>1. B \in Seq(M) /\ E \in Seq(M) /\ C \in M
      BY <2>3
    <3> HIDE DEF M
    <3>2. Regroups(B, E, C)
      BY ONLY <3>1, AppendToRest, Zenon
    <3> QED BY <3>2 DEF Regroups
  <2> QED BY <2>1, <2>4
<1>3. 0 \in T
  <2>1. <<>> \in Seq(Some(K)) /\ <<>> \in Seq(K)
    OBVIOUS
  <2>2. B \o <<>> = B
    BY ConcatEmptySeq
  <2>3. f[0] = Cutting(B \o <<>>, <<>>)
    BY <2>2 DEF IsCut
  <2>4. Cut(0)
    BY <2>1, <2>3, Zenon
  <2> HIDE DEF Cut
  <2> QED BY <2>4
<1>4. ASSUME NEW n \in Nat, n \in T PROVE n + 1 \in T
  <2> HIDE DEF Cut
  <2> SUFFICES ASSUME n + 1 <= N PROVE Cut(n + 1)
    OBVIOUS
  <2> DEFINE line == lines[n + 1]
  <2>1. n + 1 \in 1..N /\ (n + 1) - 1 = n /\ n <= N
    BY <1>1
  <2>2. PICK E \in Seq(Some(K)), C \in Seq(K) : f[n] = Cutting(B \o E, C)
    BY <1>4, <2>1 DEF Cut
  <2>3. f[n + 1] = Candidate!TakeLine(Cutting(B \o E, C), line)
    BY <2>1, <2>2 DEF IsCut
  <2>4. \/ line \in K
        \/ line = Candidate!Separator
        \/ line # Candidate!Separator /\ line.text = "end"
    BY <2>1 DEF AllFit, Fits
  <2> HIDE DEF line
  <2>5. CASE line \in K
    <3>1. f[n + 1] = Cutting(B \o E, Append(C, line))
      BY <2>3, <2>5, TakeProperLine DEF AreKept
    <3>2. Append(C, line) \in Seq(K)
      BY <2>5, AppendProperties
    <3> QED BY <3>1, <3>2, Zenon DEF Cut
  <2>6. CASE line = Candidate!Separator /\ C = <<>>
    <3>1. f[n + 1] = Cutting(B \o E, C)
      BY <2>3, <2>6, TakeLineCases
    <3> QED BY <3>1 DEF Cut
  <2>7. CASE line = Candidate!Separator /\ C # <<>>
    <3>1. f[n + 1] = Cutting(Append(B \o E, C), <<>>)
      BY <2>3, <2>7, TakeLineCases
    <3>2. C \in Some(K)
      BY <2>7 DEF Some
    <3>3. Append(E, C) \in Seq(Some(K)) /\ Append(B \o E, C) = B \o Append(E, C)
      BY <1>2, <3>2, Zenon
    <3>4. <<>> \in Seq(K)
      OBVIOUS
    <3> QED BY <3>1, <3>3, <3>4, Zenon DEF Cut
  <2>8. CASE line # Candidate!Separator /\ line.text = "end"
    <3>1. f[n + 1] = Cutting(B \o E, C)
      BY <2>3, <2>8, TakeLineCases
    <3> QED BY <3>1 DEF Cut
  <2> QED BY <2>4, <2>5, <2>6, <2>7, <2>8
<1>5. Cut(N)
  <2>1. N \in T
    <3> HIDE DEF T
    <3> QED BY <1>1, <1>3, <1>4, NatSetInduction, Zenon
  <2> HIDE DEF Cut
  <2> QED BY <1>1, <2>1
<1>6. PICK E \in Seq(Some(K)), C \in Seq(K) : f[N] = Cutting(B \o E, C)
  BY <1>5
<1>7. Candidate!Flushed(f[N]).blocks = IF C = <<>> THEN B \o E ELSE Append(B \o E, C)
  BY <1>6 DEF Candidate!Flushed, Cutting
<1>8. CASE C = <<>>
  BY <1>7, <1>8, Zenon DEF Adds
<1>9. CASE C # <<>>
  <2>1. C \in Some(K)
    BY <1>9 DEF Some
  <2>2. Append(E, C) \in Seq(Some(K)) /\ Append(B \o E, C) = B \o Append(E, C)
    BY <1>2, <2>1, Zenon
  <2>3. Candidate!Flushed(f[N]).blocks = B \o Append(E, C)
    BY <1>7, <1>9, <2>2, Zenon
  <2> QED BY <2>2, <2>3, Zenon DEF Adds
<1> QED
  BY <1>8, <1>9, Zenon DEF Adds

\* What an operator may add: lines, separators, lines that are passed over.
Additions(K, names) ==
    K \cup {Candidate!Separator} \cup [section : {"overrides"}, text : {"end"}, on : SUBSET names]

\* What is sent are the blocks of some parts, and blocks of the lines K.
IsSent(sent, parts, K) == \E E \in Seq(Some(K)) : sent = FlattenSeq(parts) \o E

\* What is sent is what was rendered for the enabled sections, block by block,
\* and then what the operator added: no block is lost, cut or joined to another
\* (renderer.py:render_branch_candidate, deploy.py:split_candidate_blocks).
THEOREM BlocksSentAreRendered ==
    ASSUME NEW Types, NEW Slots, NEW c, IsClassified(c, Types, Slots), NEW monitoring \in BOOLEAN,
           NEW enabled, NEW K \in SUBSET SectionLines("overrides", Openable(Types, Slots)),
           NEW overrides \in Seq(Additions(K, Openable(Types, Slots)))
    PROVE  IsSent(Candidate!SplitCandidateBlocks(
                        Candidate!RenderBranchCandidate(c, monitoring, enabled, overrides)),
                  SentSections(c, monitoring, enabled), K)
<1> DEFINE names == Openable(Types, Slots)
           L == CandidateLines(names)
           main == Candidate!FlattenSeq([n \in DOMAIN Candidate!SECTION_ORDER |->
                          IF Candidate!SECTION_ORDER[n] \in enabled
                          THEN Candidate!Rendered(Candidate!BranchSection(
                                  Candidate!SECTION_ORDER[n], c, monitoring))
                          ELSE <<>>])
           tail == IF overrides = <<>> THEN <<>>
                   ELSE <<Candidate!Separator, Candidate!Separator>> \o overrides
           parts == SentSections(c, monitoring, enabled)
           flat == FlattenSeq(parts)
           text == Candidate!RenderBranchCandidate(c, monitoring, enabled, overrides)
<1>1. text = main \o tail
  BY Zenon DEF Candidate!RenderBranchCandidate
<1>2. main \in Seq(L) /\ parts \in Seq(Seq(Seq(L))) /\ Yields(L, main, flat)
  BY SectionsYield, ZenonT(60)
<1>3. flat \in Seq(Seq(L))
  <2> DEFINE M == Seq(L)
  <2>1. parts \in Seq(Seq(M))
    BY <1>2
  <2> HIDE DEF M, parts
  <2>2. FlattenSeq(parts) \in Seq(M)
    BY <2>1, FlattenPlaces
  <2> QED BY <2>2 DEF M
<1>4. Candidate!Separator \in L /\ K \subseteq L
  <2>1. Candidate!Separator \in L
    BY DEF Candidate!Separator, Candidate!Line, CandidateLines
  <2>2. SectionLines("overrides", names) \subseteq L
    BY DEF SectionLines, CandidateLines
  <2> QED BY <2>1, <2>2
<1>5. AreKept(K)
  <2>1. \A line \in SectionLines("overrides", names) : line.section = "overrides" /\ line.text # "end"
    BY DEF SectionLines
  <2>2. Candidate!Separator.section = "!"
    BY DEF Candidate!Separator, Candidate!Line
  <2> QED BY <2>1, <2>2 DEF AreKept
<1>6. \A line \in Additions(K, names) : line \in L /\ Fits(line, K)
  <2> SUFFICES ASSUME NEW line \in Additions(K, names) PROVE line \in L /\ Fits(line, K)
    OBVIOUS
  <2>1. CASE line \in [section : {"overrides"}, text : {"end"}, on : SUBSET names]
    <3>1. line \in L
      BY <2>1 DEF CandidateLines
    <3>2. line.section = "overrides" /\ line.text = "end"
      BY <2>1
    <3>3. Candidate!Separator.section = "!"
      BY DEF Candidate!Separator, Candidate!Line
    <3> QED BY <3>1, <3>2, <3>3 DEF Fits
  <2>2. CASE line \in K \cup {Candidate!Separator}
    <3> HIDE DEF L
    <3> QED BY <1>4, <2>2 DEF Fits
  <2> QED BY <2>1, <2>2 DEF Additions
<1> HIDE DEF L, main, parts, flat
<1>7. tail \in Seq(L) /\ AllFit(tail, K)
  <2> DEFINE W == {line \in L : Fits(line, K)}
             two == <<Candidate!Separator, Candidate!Separator>>
  <2>1. Candidate!Separator \in W
    BY <1>4 DEF Fits
  <2>2. overrides \in Seq(W)
    <3>1. Additions(K, names) \subseteq W
      BY <1>6
    <3> HIDE DEF W
    <3> QED BY <3>1, SeqMonotonic
  <2>3. tail \in Seq(W)
    <3> HIDE DEF W
    <3>1. two \in Seq(W) /\ <<>> \in Seq(W)
      BY <2>1
    <3> HIDE DEF two
    <3>2. two \o overrides \in Seq(W)
      BY <2>2, <3>1, ConcatProperties
    <3> QED BY <3>1, <3>2 DEF two
  <2> HIDE DEF tail
  <2>4. \A n \in 1..Len(tail) : tail[n] \in W
    <3> HIDE DEF W
    <3> QED BY <2>3
  <2>5. Seq(W) \subseteq Seq(L)
    <3>1. W \subseteq L
      OBVIOUS
    <3> HIDE DEF W
    <3> QED BY <3>1, SeqMonotonic
  <2> QED BY <2>3, <2>4, <2>5 DEF AllFit
<1> HIDE DEF tail, text
<1>8. text \in Seq(L)
  BY <1>1, <1>2, <1>7, ConcatProperties
<1>9. PICK f : /\ IsCut(f, Cutting(<<>>, <<>>), text)
               /\ Candidate!SplitCandidateBlocks(text) = Candidate!Flushed(f[Len(text)]).blocks
  BY <1>8, CutSteps
<1> DEFINE g == [n \in 0..Len(tail) |-> f[Len(main) + n]]
<1>10. IsCut(f, Cutting(<<>>, <<>>), main) /\ IsCut(g, f[Len(main)], tail)
  BY <1>1, <1>2, <1>7, <1>9, RestOfCut
<1>11. f[Len(main)] = Cutting(flat, <<>>)
  <2>1. <<>> \in Seq(Seq(L)) /\ <<>> \o flat = flat
    BY <1>3, ConcatEmptySeq
  <2> QED BY <1>2, <1>10, <2>1, Zenon DEF Yields
<1>12. g[Len(tail)] = f[Len(text)]
  <2>1. Len(text) = Len(main) + Len(tail) /\ Len(tail) \in Nat
    BY <1>1, <1>2, <1>7, ConcatProperties
  <2> QED BY <2>1
<1> HIDE DEF g
<1>13. \E E \in Seq(Some(K)) : Candidate!Flushed(g[Len(tail)]).blocks = flat \o E
  <2>1. IsCut(g, Cutting(flat, <<>>), tail)
    BY <1>10, <1>11
  <2>2. K \in SUBSET L /\ tail \in Seq(L) /\ AllFit(tail, K)
    BY <1>4, <1>7
  <2>3. Adds(g, tail, flat, K)
    BY ONLY <1>3, <1>5, <2>1, <2>2, RestIsCut, Zenon
  <2> QED BY <2>3, Zenon DEF Adds
<1> QED
  BY <1>9, <1>12, <1>13, Zenon DEF text, flat, parts, IsSent

-----------------------------------------------------------------------------
(* The order of the blocks.                                                 *)

\* Each block has a place: that of its section, or the last for those the operator added.
IsBlockAt(b, n, sent, k, parts, flat, names, K) ==
    \/ /\ n \in 1..21 /\ b \in 1..Len(flat)
       /\ \E j \in 1..Len(parts[n]) : b = k[n - 1] + j /\ sent[b] = parts[n][j]
       /\ sent[b] \in SectionBlocks(Candidate!SECTION_ORDER[n], names)
    \/ /\ n = 22 /\ b > Len(flat) /\ sent[b] \in Some(K)

ArePlaced(sent, flat, parts, names, K) ==
    /\ Len(flat) \in Nat /\ Len(sent) \in Nat /\ Len(flat) <= Len(sent)
    /\ DOMAIN sent = 1..Len(sent)
    /\ \A b \in 1..Len(flat) : sent[b] = flat[b]
    /\ Len(parts) = 21 /\ \A n \in 1..21 : Len(parts[n]) \in Nat
    /\ \A n \in 1..21 : \A j \in 1..Len(parts[n]) :
            parts[n][j] \in SectionBlocks(Candidate!SECTION_ORDER[n], names)
    /\ \E k : /\ IsPlacing(k, parts, flat, 21)
              /\ \A b \in 1..Len(sent) : \E n \in 1..22 :
                    IsBlockAt(b, n, sent, k, parts, flat, names, K)

\* Each block that is sent is one of a section, or one of the operator after all of these.
LEMMA BlocksHavePlaces ==
    ASSUME NEW Types, NEW Slots, NEW c, IsClassified(c, Types, Slots), NEW monitoring \in BOOLEAN,
           NEW enabled, NEW K, NEW sent, IsSent(sent, SentSections(c, monitoring, enabled), K)
    PROVE  ArePlaced(sent, FlattenSeq(SentSections(c, monitoring, enabled)),
                     SentSections(c, monitoring, enabled), Openable(Types, Slots), K)
<1> DEFINE names == Openable(Types, Slots)
           parts == SentSections(c, monitoring, enabled)
           flat == FlattenSeq(parts)
           order == Candidate!SECTION_ORDER
           M == Seq(CandidateLines(names))
           W == M \cup Some(K)
<1>0. PICK E \in Seq(Some(K)) : sent = flat \o E
  BY Zenon DEF IsSent
<1>1. parts \in Seq(Seq(M))
  BY SectionsYield, Zenon
<1>2. Len(parts) = 21
  BY DEF SentSections
<1>3. \A n \in 1..21 : \A j \in 1..Len(parts[n]) : parts[n][j] \in SectionBlocks(order[n], names)
  <2> SUFFICES ASSUME NEW n \in 1..21, NEW j \in 1..Len(parts[n])
               PROVE  parts[n][j] \in SectionBlocks(order[n], names)
    BY Zenon
  <2>1. parts[n] = IF order[n] \in enabled THEN SentOf(order[n], c, monitoring) ELSE <<>>
    BY DEF SentSections
  <2>2. SentOf(order[n], c, monitoring) \in Seq(SectionBlocks(order[n], names))
    BY BlocksOfSection
  <2> HIDE DEF parts, order, names
  <2>3. parts[n] \in Seq(SectionBlocks(order[n], names))
    BY <2>1, <2>2, EmptySeq
  <2> QED BY <2>3
<1>10. \A n \in 1..21 : Len(parts[n]) \in Nat
  <2> SUFFICES ASSUME NEW n \in 1..21 PROVE Len(parts[n]) \in Nat
    BY Zenon
  <2> HIDE DEF M, parts
  <2> QED BY <1>1, <1>2
<1> HIDE DEF parts
<1>4. PICK k : flat \in Seq(M) /\ IsPlacing(k, parts, flat, 21)
  <2> HIDE DEF M
  <2> QED BY <1>1, <1>2, FlattenPlaces, Zenon
<1>5. flat \in Seq(W) /\ E \in Seq(W)
  <2>1. M \subseteq W /\ Some(K) \subseteq W
    OBVIOUS
  <2> HIDE DEF M, W, flat
  <2> QED BY <1>4, <2>1, SeqMonotonic
<1> HIDE DEF flat, M, W
<1>6. /\ sent \in Seq(W) /\ Len(flat) \in Nat /\ Len(E) \in Nat /\ Len(sent) = Len(flat) + Len(E)
      /\ \A i \in 1..Len(flat) : i \in 1..Len(sent) /\ sent[i] = flat[i]
      /\ \A j \in 1..Len(E) : Len(flat) + j \in 1..Len(sent) /\ sent[Len(flat) + j] = E[j]
  BY <1>0, <1>5, ConcatElements
<1>7. DOMAIN sent = 1..Len(sent)
  BY <1>6
<1>8. ASSUME NEW b \in 1..Len(sent)
      PROVE  \E n \in 1..22 : IsBlockAt(b, n, sent, k, parts, flat, names, K)
  <2>3. /\ \A n \in 1..21 : \A j \in 1..Len(parts[n]) : flat[k[n - 1] + j] = parts[n][j]
        /\ \A i \in 1..Len(flat) : \E n \in 1..21 : \E j \in 1..Len(parts[n]) : i = k[n - 1] + j
    BY <1>4, Zenon DEF IsPlacing
  <2>1. CASE b \in 1..Len(flat)
    <3>1. PICK n \in 1..21 : \E j \in 1..Len(parts[n]) : b = k[n - 1] + j
      BY <2>1, <2>3, Zenon
    <3>2. PICK j \in 1..Len(parts[n]) : b = k[n - 1] + j
      BY <3>1
    <3>3. sent[b] = parts[n][j]
      BY <1>6, <2>1, <2>3, <3>2, Zenon
    <3>4. sent[b] \in SectionBlocks(Candidate!SECTION_ORDER[n], names)
      BY <1>3, <3>3, Zenon
    <3>5. n \in 1..22
      OBVIOUS
    <3> QED BY <2>1, <3>2, <3>3, <3>4, <3>5, Zenon DEF IsBlockAt
  <2>2. CASE b \notin 1..Len(flat)
    <3>1. b - Len(flat) \in 1..Len(E) /\ b = Len(flat) + (b - Len(flat)) /\ b > Len(flat)
      BY <1>6, <2>2
    <3>2. sent[b] = E[b - Len(flat)] /\ E[b - Len(flat)] \in Some(K)
      BY <1>6, <3>1
    <3>3. 22 \in 1..22
      OBVIOUS
    <3> QED BY <3>1, <3>2, <3>3 DEF IsBlockAt
  <2> QED BY <2>1, <2>2
<1>9. Len(sent) \in Nat /\ Len(flat) <= Len(sent)
  BY <1>6
<1> QED
  BY <1>2, <1>3, <1>4, <1>6, <1>7, <1>8, <1>9, <1>10, Zenon DEF flat, parts, ArePlaced

\* The place of a section is its position, that of the lines of the operator the last.
LEMMA PlaceOfSection ==
    /\ \A n \in 1..21 : Place(Candidate!SECTION_ORDER[n]) = n
    /\ Place("overrides") = 22
<1>1. Place("overrides") = 22
  BY SectionsInOrder DEF Place
<1>2. ASSUME NEW n \in 1..21 PROVE Place(Candidate!SECTION_ORDER[n]) = n
  <2>1. Candidate!SECTION_ORDER[n] # "overrides"
    BY SectionsInOrder, Zenon
  <2>2. \A m \in 1..21 : Candidate!SECTION_ORDER[m] = Candidate!SECTION_ORDER[n] <=> m = n
    BY SectionsInOrder, Zenon
  <2> QED BY <2>1, <2>2, SectionsInOrder DEF Place
<1> QED
  BY <1>1, <1>2

\* Sections that always have blocks.
LEMMA SectionsWithBlocks ==
    ASSUME NEW section, section \notin {"user_ports", "transceiver"}, NEW c, NEW monitoring
    PROVE  1 \in 1..Len(SentOf(section, c, monitoring))
<1>1. CASE section = "management"
  BY <1>1 DEF SentOf, Candidate!BranchSection
<1>2. CASE section = "provision_port"
  BY <1>2 DEF SentOf, Candidate!BranchSection
<1>3. CASE section = "uplink"
  BY <1>3 DEF SentOf, Candidate!BranchSection
<1>4. CASE section \notin {"management", "provision_port", "uplink"}
  <2> DEFINE P == Candidate!Parts(section)
  <2>1. SentOf(section, c, monitoring) = [n \in 1..P |-> <<Candidate!Setting(section)>>]
    BY <1>4 DEF SentOf, Candidate!BranchSection
  <2>2. P \in Nat \ {0}
    BY PartsOfSection
  <2> HIDE DEF P
  <2>3. Len(SentOf(section, c, monitoring)) = P
    BY <2>1, <2>2
  <2> QED BY <2>2, <2>3
<1> QED
  BY <1>1, <1>2, <1>3, <1>4

\* All lines of a block of a section are of that section.
LEMMA FirstLine ==
    ASSUME NEW section, NEW names, NEW block \in SectionBlocks(section, names)
    PROVE  block[1].section = section /\ \A line \in ToSet(block) : line.section = section
<1>1. block \in Seq(SectionLines(section, names)) /\ block # <<>>
  BY DEF SectionBlocks
<1>2. \A line \in SectionLines(section, names) : line.section = section
  BY DEF SectionLines
<1>3. 1 \in 1..Len(block) /\ \A m \in 1..Len(block) : block[m] \in SectionLines(section, names)
  <2> DEFINE R == SectionLines(section, names)
  <2> HIDE DEF R
  <2> QED BY <1>1, EmptySeq DEF R
<1>4. ToSet(block) = {block[m] : m \in 1..Len(block)}
  BY <1>1 DEF ToSet
<1> QED
  BY <1>2, <1>3, <1>4

\* Blocks are in the order of the sections, none has lines of two of them, and no
\* enabled section is without a block.
InOrder(sent, enabled) ==
    LET place == [b \in DOMAIN sent |-> Place(sent[b][1].section)]
    IN  /\ \A b \in DOMAIN sent : \A line \in ToSet(sent[b]) : line.section = sent[b][1].section
        /\ \A b \in DOMAIN sent \ {1} : place[b - 1] <= place[b]
        /\ enabled \ {"user_ports", "transceiver"} \subseteq
                {block[1].section : block \in ToSet(sent)}

\* Whatever is rendered, the blocks sent are in order, and those of the operator
\* come last (renderer.py:SECTION_ORDER, deploy.py:split_candidate_blocks).
THEOREM SectionsStayInOrder ==
    ASSUME NEW Types, NEW Slots, NEW c, IsClassified(c, Types, Slots), NEW monitoring \in BOOLEAN,
           NEW enabled \in SUBSET Sections,
           NEW K \in SUBSET SectionLines("overrides", Openable(Types, Slots)),
           NEW overrides \in Seq(Additions(K, Openable(Types, Slots)))
    PROVE  InOrder(Candidate!SplitCandidateBlocks(
                        Candidate!RenderBranchCandidate(c, monitoring, enabled, overrides)), enabled)
<1> DEFINE names == Openable(Types, Slots)
           parts == SentSections(c, monitoring, enabled)
           flat == FlattenSeq(parts)
           sent == Candidate!SplitCandidateBlocks(
                        Candidate!RenderBranchCandidate(c, monitoring, enabled, overrides))
           order == Candidate!SECTION_ORDER
           place == [b \in DOMAIN sent |-> Place(sent[b][1].section)]
<1>1. ArePlaced(sent, flat, parts, names, K)
  BY BlocksSentAreRendered, BlocksHavePlaces, Zenon
<1> HIDE DEF sent, flat, names
<1>2. /\ Len(flat) \in Nat /\ Len(sent) \in Nat /\ Len(flat) <= Len(sent)
      /\ DOMAIN sent = 1..Len(sent)
      /\ \A b \in 1..Len(flat) : sent[b] = flat[b]
      /\ \A n \in 1..21 : \A j \in 1..Len(parts[n]) : parts[n][j] \in SectionBlocks(order[n], names)
      /\ Len(parts) = 21 /\ \A n \in 1..21 : Len(parts[n]) \in Nat
  BY <1>1, Zenon DEF ArePlaced
<1>3. PICK k : /\ IsPlacing(k, parts, flat, 21)
               /\ \A b \in 1..Len(sent) : \E n \in 1..22 :
                        IsBlockAt(b, n, sent, k, parts, flat, names, K)
  BY <1>1, Zenon DEF ArePlaced
<1>9. /\ \A n \in 1..21 : k[n] \in Nat /\ k[n - 1] \in Nat /\ k[n] <= Len(flat)
      /\ \A n \in 1..21 : k[n] = k[n - 1] + Len(parts[n])
      /\ \A n \in 1..21 : \A j \in 1..Len(parts[n]) : flat[k[n - 1] + j] = parts[n][j]
      /\ \A m, n \in 1..21 : m < n => k[m] <= k[n - 1]
  <2> HIDE DEF parts
  <2> QED BY <1>3, Zenon DEF IsPlacing
<1>4. \A n \in 1..21 : parts[n] = IF order[n] \in enabled THEN SentOf(order[n], c, monitoring) ELSE <<>>
  BY DEF SentSections
<1> HIDE DEF parts
<1>5. ASSUME NEW b \in 1..Len(sent), NEW n \in 1..22,
             IsBlockAt(b, n, sent, k, parts, flat, names, K)
      PROVE  /\ Place(sent[b][1].section) = n
             /\ \A line \in ToSet(sent[b]) : line.section = sent[b][1].section
             /\ n \in 1..21 => sent[b][1].section = order[n]
  <2>1. CASE n \in 1..21
    <3>1. sent[b] \in SectionBlocks(order[n], names)
      BY <1>5, <2>1 DEF IsBlockAt
    <3>2. /\ sent[b][1].section = order[n]
          /\ \A line \in ToSet(sent[b]) : line.section = order[n]
      BY <3>1, FirstLine
    <3> QED BY <2>1, <3>2, PlaceOfSection, Zenon
  <2>2. CASE n \notin 1..21
    <3>1. sent[b] \in Some(K) /\ n = 22
      BY <1>5, <2>2 DEF IsBlockAt
    <3>2. Some(K) \subseteq SectionBlocks("overrides", names)
      <4>1. Seq(K) \subseteq Seq(SectionLines("overrides", names))
        BY SeqMonotonic DEF names
      <4> QED BY <4>1 DEF Some, SectionBlocks
    <3>3. sent[b] \in SectionBlocks("overrides", names)
      BY <3>1, <3>2
    <3>4. /\ sent[b][1].section = "overrides"
          /\ \A line \in ToSet(sent[b]) : line.section = "overrides"
      BY <3>3, FirstLine
    <3> QED BY <2>2, <3>1, <3>4, PlaceOfSection
  <2> QED BY <2>1, <2>2
<1>10. Len(sent) \in Nat /\ Len(flat) \in Nat /\ Len(flat) <= Len(sent) /\ DOMAIN sent = 1..Len(sent)
  BY <1>2
<1>6. ASSUME NEW b \in DOMAIN sent PROVE \A line \in ToSet(sent[b]) : line.section = sent[b][1].section
  BY <1>2, <1>3, <1>5, Zenon
<1>7. ASSUME NEW b \in DOMAIN sent \ {1} PROVE place[b - 1] <= place[b]
  <2>1. b \in 1..Len(sent) /\ b - 1 \in 1..Len(sent) /\ b - 1 < b
    BY ONLY <1>7, <1>10
  <2>2. PICK m \in 1..22 : IsBlockAt(b - 1, m, sent, k, parts, flat, names, K)
    BY <1>3, <2>1, Zenon
  <2>3. PICK n \in 1..22 : IsBlockAt(b, n, sent, k, parts, flat, names, K)
    BY <1>3, <2>1, Zenon
  <2>4. place[b - 1] = m /\ place[b] = n
    BY <1>2, <1>5, <2>1, <2>2, <2>3, Zenon
  <2>5. m <= n
    <3> SUFFICES ASSUME n < m PROVE FALSE
      BY <2>2, <2>3
    <3>1. n \in 1..21
      OBVIOUS
    <3>2. PICK j \in 1..Len(parts[n]) : b \in 1..Len(flat) /\ b = k[n - 1] + j
      BY <2>3, <3>1 DEF IsBlockAt
    <3>3. m \in 1..21
      <4>1. m \in 1..21 \/ b - 1 > Len(flat)
        BY <2>2, Zenon DEF IsBlockAt
      <4> QED BY <1>10, <2>1, <3>2, <4>1
    <3>4. PICK i \in 1..Len(parts[m]) : b - 1 = k[m - 1] + i
      <4>1. m # 22
        BY <3>3
      <4> QED BY <2>2, <4>1, Zenon DEF IsBlockAt
    <3>5. k[n] = k[n - 1] + Len(parts[n]) /\ k[n] <= k[m - 1]
      BY <1>9, <3>1, <3>3, Zenon
    <3>6. k[n] \in Nat /\ k[n - 1] \in Nat /\ k[m - 1] \in Nat /\ Len(parts[n]) \in Nat
      BY <1>2, <1>9, <3>1, <3>3, Zenon
    <3>7. b <= k[n]
      BY <3>2, <3>5, <3>6
    <3>8. k[m - 1] < b - 1
      BY <2>1, <3>4, <3>6
    <3> QED BY <2>1, <3>5, <3>6, <3>7, <3>8
  <2> QED BY <2>4, <2>5
<1>8. ASSUME NEW section \in enabled \ {"user_ports", "transceiver"}
      PROVE  section \in {block[1].section : block \in ToSet(sent)}
  <2>1. PICK n \in 1..21 : order[n] = section
    BY SectionsInOrder
  <2>2. parts[n] = SentOf(section, c, monitoring)
    BY <1>4, <2>1, Zenon
  <2>3. 1 \in 1..Len(parts[n])
    BY <2>2, SectionsWithBlocks
  <2>4. flat[k[n - 1] + 1] = parts[n][1]
    BY <1>9, <2>3, Zenon
  <2>5. k[n - 1] + 1 \in 1..Len(flat)
    <3>1. /\ k[n] = k[n - 1] + Len(parts[n]) /\ k[n] <= Len(flat)
          /\ k[n] \in Nat /\ k[n - 1] \in Nat
      BY <1>9, Zenon
    <3> QED BY <1>10, <2>3, <3>1
  <2>6. sent[k[n - 1] + 1] \in ToSet(sent) /\ sent[k[n - 1] + 1] = parts[n][1]
    <3>1. k[n - 1] + 1 \in DOMAIN sent
      BY <1>10, <2>5
    <3> QED BY <1>2, <2>4, <2>5, <3>1, Zenon DEF ToSet
  <2>7. parts[n][1] \in SectionBlocks(section, names)
    BY <1>2, <2>1, <2>3, Zenon
  <2> QED BY <2>6, <2>7, FirstLine
<1> QED
  BY <1>6, <1>7, <1>8 DEF sent, InOrder

-----------------------------------------------------------------------------
(* What the blocks set.                                                     *)

\* A block has a setting for an interface opened before it.
Touches(block, name) ==
    \E k \in DOMAIN block : \E j \in 1..(k - 1) :
        block[k].text = "setting" /\ block[j].text = "interface" /\ name \in block[j].on

\* The blocks that set something on an interface.
LEMMA SetOnTouches ==
    ASSUME NEW sent, NEW name PROVE SetOn(sent, name) = {b \in DOMAIN sent : Touches(sent[b], name)}
  BY DEF SetOn, Touches

\* A setting alone is for no interface.
LEMMA SettingTouchesNothing ==
    ASSUME NEW section, NEW name PROVE ~Touches(<<Candidate!Setting(section)>>, name)
<1> DEFINE block == <<Candidate!Setting(section)>>
<1>1. DOMAIN block = 1..1
  OBVIOUS
<1> HIDE DEF block
<1> QED
  BY <1>1 DEF Touches, block

\* A block without a setting sets nothing: that of the provision port.
LEMMA InterfaceTouchesNothing ==
    ASSUME NEW section, NEW on, NEW name PROVE ~Touches(Candidate!Interface(section, on), name)
<1> DEFINE block == Candidate!Interface(section, on)
<1>1. DOMAIN block = 1..2 /\ block[1].text = "interface" /\ block[2].text = "description"
  BY DEF Candidate!Interface, Candidate!Line
<1> HIDE DEF block
<1>2. \A k \in 1..2 : k = 1 \/ k = 2
  OBVIOUS
<1> QED
  BY <1>1, <1>2 DEF Touches, block

\* W has the elements of X and then those of Y.
IsJoin(W, X, Y) ==
    /\ DOMAIN W = 1..(Len(X) + Len(Y))
    /\ \A i \in 1..Len(X) : W[i] = X[i]
    /\ \A j \in 1..Len(Y) : W[Len(X) + j] = Y[j]

\* Two sequences put together, by their elements.
LEMMA ConcatJoins ==
    ASSUME NEW S, NEW X \in Seq(S), NEW Y \in Seq(S) PROVE IsJoin(X \o Y, X, Y)
<1> DEFINE W == X \o Y
<1>1. W = X \o Y
  OBVIOUS
<1> HIDE DEF W
<1>2. /\ W \in Seq(S) /\ Len(W) = Len(X) + Len(Y)
      /\ \A i \in 1..Len(X) : W[i] = X[i]
      /\ \A j \in 1..Len(Y) : W[Len(X) + j] = Y[j]
  BY <1>1, ConcatElements
<1>3. DOMAIN W = 1..(Len(X) + Len(Y))
  BY <1>2
<1> QED
  BY <1>2, <1>3 DEF IsJoin, W

\* A setting after the line of interfaces is for these.
LEMMA SettingTouchesOpened ==
    ASSUME NEW section, NEW on, NEW name
    PROVE  Touches(Candidate!Interface(section, on) \o <<Candidate!Setting(section)>>, name) <=> name \in on
<1> DEFINE X == Candidate!Interface(section, on)
           Y == <<Candidate!Setting(section)>>
           block == X \o Y
           S == {Candidate!Line(section, "interface", on), Candidate!Line(section, "description", {}),
                 Candidate!Setting(section)}
<1>1. /\ X \in Seq(S) /\ Len(X) = 2
      /\ X[1] = Candidate!Line(section, "interface", on)
      /\ X[2] = Candidate!Line(section, "description", {})
  BY DEF Candidate!Interface
<1>2. Y \in Seq(S) /\ Len(Y) = 1 /\ Y[1] = Candidate!Setting(section)
  OBVIOUS
<1> HIDE DEF X, Y, S
<1>3. IsJoin(block, X, Y)
  BY <1>1, <1>2, ConcatJoins, Zenon
<1> HIDE DEF block
<1>4. DOMAIN block = 1..3 /\ block[1] = X[1] /\ block[2] = X[2] /\ block[3] = Y[1]
  <2>1. Len(X) + Len(Y) = 3 /\ Len(X) + 1 = 3
    BY <1>1, <1>2
  <2>2. 1 \in 1..Len(X) /\ 2 \in 1..Len(X) /\ 1 \in 1..Len(Y)
    BY <1>1, <1>2
  <2> QED BY <1>3, <2>1, <2>2, Zenon DEF IsJoin
<1>5. /\ block[1].text = "interface" /\ block[1].on = on
      /\ block[2].text = "description" /\ block[3].text = "setting"
  BY <1>1, <1>2, <1>4 DEF Candidate!Setting, Candidate!Line
<1>6. \A k \in 1..3 : k = 1 \/ k = 2 \/ k = 3
  OBVIOUS
<1>7. ASSUME name \in on PROVE Touches(block, name)
  <2>1. 3 \in 1..3 /\ 1 \in 1..(3 - 1)
    OBVIOUS
  <2> QED BY <1>4, <1>5, <1>7, <2>1 DEF Touches
<1>8. ASSUME Touches(block, name) PROVE name \in on
  <2>1. PICK k \in 1..3 : \E j \in 1..(k - 1) :
            block[k].text = "setting" /\ block[j].text = "interface" /\ name \in block[j].on
    BY <1>4, <1>8 DEF Touches
  <2>2. k = 3
    BY <1>5, <1>6, <2>1
  <2>3. PICK j \in 1..2 : block[j].text = "interface" /\ name \in block[j].on
    BY <2>1, <2>2
  <2>4. j = 1
    BY <1>5, <2>3
  <2> QED BY <1>5, <2>3, <2>4
<1> QED
  BY <1>7, <1>8 DEF block, X, Y

\* The blocks for an interface: that of the uplink, those of the ranges it is in.
IsFor(n, j, c, name) ==
    \/ n = 15 /\ name \in c.uplink
    \/ n = 16 /\ name \in Candidate!Covered(Candidate!BuildInterfaceGroups(c.user_ports)[j])

\* Only the uplink and the ranges of the user ports set something on a port.
LEMMA PartsTouch ==
    ASSUME NEW Types, "Vlan" \notin Types, NEW Slots, NEW c, IsClassified(c, Types, Slots),
           NEW monitoring \in BOOLEAN, NEW enabled, NEW n \in 1..21,
           NEW j \in 1..Len(SentSections(c, monitoring, enabled)[n]),
           NEW name \in PortNames(Types, Slots)
    PROVE  Touches(SentSections(c, monitoring, enabled)[n][j], name) <=> IsFor(n, j, c, name)
<1> DEFINE part == SentSections(c, monitoring, enabled)[n]
           section == Candidate!SECTION_ORDER[n]
           groups == Candidate!BuildInterfaceGroups(c.user_ports)
<1>1. part = SentOf(section, c, monitoring)
  <2>1. part = IF section \in enabled THEN SentOf(section, c, monitoring) ELSE <<>>
    BY DEF SentSections
  <2>2. part # <<>>
    <3> SUFFICES ASSUME part = <<>> PROVE FALSE
      OBVIOUS
    <3>1. Len(part) = 0
      OBVIOUS
    <3>2. j \in 1..Len(part)
      OBVIOUS
    <3> HIDE DEF part
    <3> QED BY <3>1, <3>2
  <2> HIDE DEF part, section
  <2> QED BY <2>1, <2>2
<1>2. /\ section = "transceiver" <=> n = 11
      /\ section = "management" <=> n = 13
      /\ section = "provision_port" <=> n = 14
      /\ section = "uplink" <=> n = 15
      /\ section = "user_ports" <=> n = 16
  BY SectionsInOrder, SMTT(30)
<1>3. j \in 1..Len(part)
  OBVIOUS
<1> HIDE DEF part, section
<1>4. CASE n = 11
  <2>1. part = IF monitoring THEN <<<<Candidate!Setting(section)>>>> ELSE <<>>
    <3>1. CASE monitoring
      BY <1>1, <1>2, <1>4, <3>1 DEF SentOf, Candidate!BranchSection
    <3>2. CASE ~monitoring
      BY <1>1, <1>2, <1>4, <3>2 DEF SentOf
    <3> QED BY <3>1, <3>2
  <2>2. part[j] = <<Candidate!Setting(section)>>
    BY <1>3, <2>1
  <2> QED BY <1>4, <2>2, SettingTouchesNothing DEF IsFor, part
<1>5. CASE n = 13
  <2> DEFINE one == Candidate!Interface(section, {Vlan255}) \o <<Candidate!Setting(section)>>
             two == <<Candidate!Setting(section)>>
  <2>1. part = <<one, two>>
    BY <1>1, <1>2, <1>5 DEF SentOf, Candidate!BranchSection, Vlan255
  <2>2. name # Vlan255
    BY DEF PortNames, Vlan255
  <2>3. ~Touches(one, name) /\ ~Touches(two, name)
    BY <2>2, SettingTouchesOpened, SettingTouchesNothing
  <2> HIDE DEF one, two
  <2>4. part[j] = one \/ part[j] = two
    BY <1>3, <2>1
  <2> QED BY <1>5, <2>3, <2>4 DEF IsFor, part
<1>6. CASE n = 14
  <2> DEFINE one == Candidate!Interface(section, c.provision_port)
  <2>1. part = <<one>>
    BY <1>1, <1>2, <1>6 DEF SentOf, Candidate!BranchSection
  <2>2. ~Touches(one, name)
    BY InterfaceTouchesNothing
  <2> HIDE DEF one
  <2>3. part[j] = one
    BY <1>3, <2>1
  <2> QED BY <1>6, <2>2, <2>3 DEF IsFor, part
<1>7. CASE n = 15
  <2> DEFINE one == Candidate!Interface(section, c.uplink) \o <<Candidate!Setting(section)>>
  <2>1. part = <<one>>
    BY <1>1, <1>2, <1>7 DEF SentOf, Candidate!BranchSection
  <2>2. Touches(one, name) <=> name \in c.uplink
    BY SettingTouchesOpened
  <2> HIDE DEF one
  <2>3. part[j] = one
    BY <1>3, <2>1
  <2> QED BY <1>7, <2>2, <2>3 DEF IsFor, part
<1>8. CASE n = 16
  <2> DEFINE Block(g) == Candidate!Interface(section, Candidate!Covered(groups[g]))
                            \o <<Candidate!Setting(section)>>
  <2>1. part = [g \in DOMAIN groups |-> Block(g)]
    BY <1>1, <1>2, <1>8 DEF SentOf, Candidate!BranchSection
  <2>2. groups \in Seq(Ranges(Types, Slots))
    BY GroupsCoverNames DEF IsClassified
  <2>3. Touches(Block(j), name) <=> name \in Candidate!Covered(groups[j])
    BY SettingTouchesOpened
  <2> HIDE DEF Block, groups
  <2>4. DOMAIN groups = 1..Len(groups) /\ Len(groups) \in Nat
    BY <2>2
  <2>5. Len(part) = Len(groups)
    BY <2>1, <2>4
  <2>6. part[j] = Block(j)
    BY <1>3, <2>1, <2>4, <2>5
  <2> QED BY <1>8, <2>3, <2>6 DEF IsFor, part, groups
<1>9. CASE n \notin {11, 13, 14, 15, 16}
  <2> DEFINE P == Candidate!Parts(section)
             one == <<Candidate!Setting(section)>>
  <2>1. part = [m \in 1..P |-> one]
    BY <1>1, <1>2, <1>9 DEF SentOf, Candidate!BranchSection
  <2>2. P \in Nat
    BY PartsOfSection
  <2>3. ~Touches(one, name)
    BY SettingTouchesNothing
  <2> HIDE DEF P, one
  <2>4. part[j] = one
    BY <1>3, <2>1, <2>2
  <2> QED BY <1>9, <2>3, <2>4 DEF IsFor, part
<1> QED
  BY <1>4, <1>5, <1>6, <1>7, <1>8, <1>9

\* No block of a section for an interface: no block that is sent.
LEMMA NotTouched ==
    ASSUME NEW sent, NEW flat, NEW parts, NEW names, NEW K, ArePlaced(sent, flat, parts, names, K),
           NEW name, \A block \in Some(K) : ~Touches(block, name),
           \A n \in 1..21 : \A j \in 1..Len(parts[n]) : ~Touches(parts[n][j], name)
    PROVE  SetOn(sent, name) = {}
<1>1. PICK k : /\ DOMAIN sent = 1..Len(sent)
               /\ \A b \in 1..Len(sent) : \E n \in 1..22 :
                        IsBlockAt(b, n, sent, k, parts, flat, names, K)
  BY Zenon DEF ArePlaced
<1>2. ASSUME NEW b \in DOMAIN sent PROVE ~Touches(sent[b], name)
  <2>1. PICK n \in 1..22 : IsBlockAt(b, n, sent, k, parts, flat, names, K)
    BY <1>1, Zenon
  <2>2. \/ n \in 1..21 /\ \E j \in 1..Len(parts[n]) : sent[b] = parts[n][j]
        \/ sent[b] \in Some(K)
    BY <2>1, Zenon DEF IsBlockAt
  <2> QED BY <2>2, Zenon
<1> QED
  BY <1>2, SetOnTouches

\* One block of one section for an interface: one block that is sent.
LEMMA TouchedOnce ==
    ASSUME NEW sent, NEW flat, NEW parts, NEW names, NEW K, ArePlaced(sent, flat, parts, names, K),
           NEW name, \A block \in Some(K) : ~Touches(block, name),
           NEW m \in 1..21, NEW i \in 1..Len(parts[m]),
           \A n \in 1..21 : \A j \in 1..Len(parts[n]) : Touches(parts[n][j], name) <=> n = m /\ j = i
    PROVE  \E b : SetOn(sent, name) = {b}
<1>1. PICK k : /\ IsPlacing(k, parts, flat, 21)
               /\ \A b \in 1..Len(sent) : \E n \in 1..22 :
                        IsBlockAt(b, n, sent, k, parts, flat, names, K)
  BY Zenon DEF ArePlaced
<1>2. /\ DOMAIN sent = 1..Len(sent) /\ Len(sent) \in Nat /\ Len(flat) \in Nat /\ Len(flat) <= Len(sent)
      /\ \A b \in 1..Len(flat) : sent[b] = flat[b]
      /\ \A n \in 1..21 : Len(parts[n]) \in Nat
  BY Zenon DEF ArePlaced
<1>3. /\ k[m] \in Nat /\ k[m - 1] \in Nat /\ k[m] <= Len(flat) /\ k[m] = k[m - 1] + Len(parts[m])
      /\ flat[k[m - 1] + i] = parts[m][i]
  BY <1>1, Zenon DEF IsPlacing
<1> DEFINE a == k[m - 1] + i
<1>4. a \in 1..Len(flat) /\ a \in 1..Len(sent)
  <2>1. PICK p \in Nat : p = k[m - 1]
    BY <1>3
  <2>2. PICK d \in Nat : d = Len(parts[m])
    BY <1>2, Zenon
  <2>3. i \in 1..d /\ a = p + i /\ p + d <= Len(flat)
    BY <1>3, <2>1, <2>2
  <2>4. Len(flat) \in Nat /\ Len(sent) \in Nat /\ Len(flat) <= Len(sent)
    BY <1>2
  <2> HIDE DEF a
  <2> QED BY <2>3, <2>4
<1>5. Touches(sent[a], name)
  BY <1>2, <1>3, <1>4, Zenon
<1>6. ASSUME NEW b \in DOMAIN sent, Touches(sent[b], name) PROVE b = a
  <2>1. PICK n \in 1..22 : IsBlockAt(b, n, sent, k, parts, flat, names, K)
    BY <1>1, <1>2, Zenon
  <2>2. \/ n \in 1..21 /\ \E j \in 1..Len(parts[n]) : b = k[n - 1] + j /\ sent[b] = parts[n][j]
        \/ sent[b] \in Some(K)
    BY <2>1, Zenon DEF IsBlockAt
  <2>3. n \in 1..21 /\ \E j \in 1..Len(parts[n]) : b = k[n - 1] + j /\ sent[b] = parts[n][j]
    BY <1>6, <2>2, Zenon
  <2>4. PICK j \in 1..Len(parts[n]) : b = k[n - 1] + j /\ sent[b] = parts[n][j]
    BY <2>3
  <2>5. n = m /\ j = i
    BY <1>6, <2>3, <2>4, Zenon
  <2> QED BY <2>4, <2>5
<1> HIDE DEF a
<1>7. SetOn(sent, name) = {a}
  BY <1>2, <1>4, <1>5, <1>6, SetOnTouches, ZenonT(60)
<1> QED
  BY <1>7, Zenon

\* The uplink is set once if its section is enabled, a user port if that of the user
\* ports is, and no other port is set.
LEMMA PortsSet ==
    ASSUME NEW Types, "Vlan" \notin Types, NEW Slots, NEW c, IsClassified(c, Types, Slots),
           NEW monitoring \in BOOLEAN, NEW enabled, NEW K, NEW sent,
           IsSent(sent, SentSections(c, monitoring, enabled), K),
           \A line \in K : line.text # "interface", NEW name \in PortNames(Types, Slots)
    PROVE  /\ name \in c.uplink /\ name \notin ToSet(c.user_ports)
                => Cardinality(SetOn(sent, name)) = IF "uplink" \in enabled THEN 1 ELSE 0
           /\ name \notin c.uplink /\ name \in ToSet(c.user_ports)
                => Cardinality(SetOn(sent, name)) = IF "user_ports" \in enabled THEN 1 ELSE 0
           /\ name \notin c.uplink /\ name \notin ToSet(c.user_ports)
                => Cardinality(SetOn(sent, name)) = 0
<1> DEFINE parts == SentSections(c, monitoring, enabled)
           names == Openable(Types, Slots)
           flat == FlattenSeq(parts)
           groups == Candidate!BuildInterfaceGroups(c.user_ports)
<1>1. ArePlaced(sent, flat, parts, names, K)
  BY BlocksHavePlaces, Zenon
<1>2. \A block \in Some(K) : ~Touches(block, name)
  <2> SUFFICES ASSUME NEW block \in Some(K), Touches(block, name) PROVE FALSE
    OBVIOUS
  <2>1. block \in Seq(K)
    BY DEF Some
  <2>2. PICK k \in 1..Len(block) : \E j \in 1..(k - 1) : block[j].text = "interface"
    BY <2>1 DEF Touches
  <2>3. PICK j \in 1..(k - 1) : block[j].text = "interface"
    BY <2>2
  <2>4. j \in 1..Len(block)
    BY <2>1, <2>2, <2>3
  <2> QED BY <2>1, <2>3, <2>4
<1>3. \A n \in 1..21 : \A j \in 1..Len(parts[n]) : Touches(parts[n][j], name) <=> IsFor(n, j, c, name)
  BY PartsTouch, Zenon
<1>4. groups \in Seq(Ranges(Types, Slots)) /\ CoversOnce(groups, ToSet(c.user_ports))
  BY GroupsCoverNames DEF IsClassified
<1>5. parts[15] = IF "uplink" \in enabled THEN SentOf("uplink", c, monitoring) ELSE <<>>
  BY SectionsInOrder DEF SentSections
<1>6. parts[16] = IF "user_ports" \in enabled THEN SentOf("user_ports", c, monitoring) ELSE <<>>
  BY SectionsInOrder DEF SentSections
<1>7. Len(SentOf("uplink", c, monitoring)) = 1
  BY DEF SentOf, Candidate!BranchSection
<1>8. Len(SentOf("user_ports", c, monitoring)) = Len(groups)
  <2> DEFINE Block(g) == Candidate!Interface("user_ports", Candidate!Covered(groups[g]))
                            \o <<Candidate!Setting("user_ports")>>
  <2>1. SentOf("user_ports", c, monitoring) = [g \in DOMAIN groups |-> Block(g)]
    BY DEF SentOf, Candidate!BranchSection
  <2> HIDE DEF Block, groups
  <2>2. DOMAIN groups = 1..Len(groups) /\ Len(groups) \in Nat
    BY <1>4
  <2> QED BY <2>1, <2>2
<1> HIDE DEF parts, flat, names, groups
<1>9. Len(groups) \in Nat
  BY <1>4
<1>10. \A g \in 1..Len(groups) : Candidate!Covered(groups[g]) \subseteq ToSet(c.user_ports)
  BY <1>4 DEF CoversOnce
<1>11. IF "uplink" \in enabled THEN Len(parts[15]) = 1 ELSE Len(parts[15]) = 0
  BY <1>5, <1>7
<1>12. IF "user_ports" \in enabled THEN Len(parts[16]) = Len(groups) ELSE Len(parts[16]) = 0
  BY <1>6, <1>8
<1>13. \A n \in 1..21 : \A j \in 1..Len(parts[n]) : IsFor(n, j, c, name) <=>
            \/ n = 15 /\ name \in c.uplink
            \/ n = 16 /\ j \in 1..Len(groups) /\ name \in Candidate!Covered(groups[j])
  <2> SUFFICES ASSUME NEW n \in 1..21, NEW j \in 1..Len(parts[n])
               PROVE  IsFor(n, j, c, name) <=>
                        \/ n = 15 /\ name \in c.uplink
                        \/ n = 16 /\ j \in 1..Len(groups) /\ name \in Candidate!Covered(groups[j])
    BY Zenon
  <2>1. n = 16 => j \in 1..Len(groups)
    BY <1>12
  <2> QED BY <2>1 DEF IsFor, groups
<1>14. ASSUME SetOn(sent, name) = {} PROVE Cardinality(SetOn(sent, name)) = 0
  BY <1>14, FS_EmptySet
<1>15. ASSUME NEW b, SetOn(sent, name) = {b} PROVE Cardinality(SetOn(sent, name)) = 1
  BY <1>15, FS_Singleton, Zenon
<1>16. ASSUME \A n \in 1..21 : \A j \in 1..Len(parts[n]) : ~Touches(parts[n][j], name)
       PROVE  Cardinality(SetOn(sent, name)) = 0
  BY <1>1, <1>2, <1>14, <1>16, NotTouched, Zenon
<1>17. ASSUME NEW m \in 1..21, NEW i \in 1..Len(parts[m]),
              \A n \in 1..21 : \A j \in 1..Len(parts[n]) : Touches(parts[n][j], name) <=> n = m /\ j = i
       PROVE  Cardinality(SetOn(sent, name)) = 1
  <2>1. \E b : SetOn(sent, name) = {b}
    BY <1>1, <1>2, <1>17, TouchedOnce, ZenonT(60)
  <2> QED BY <1>15, <2>1, Zenon
<1>18. ASSUME name \in c.uplink, name \notin ToSet(c.user_ports)
       PROVE  Cardinality(SetOn(sent, name)) = IF "uplink" \in enabled THEN 1 ELSE 0
  <2>1. ASSUME NEW n \in 1..21, NEW j \in 1..Len(parts[n])
        PROVE  Touches(parts[n][j], name) <=> n = 15
    BY <1>3, <1>10, <1>13, <1>18, Zenon
  <2>2. CASE "uplink" \in enabled
    <3>1. 15 \in 1..21 /\ 1 \in 1..Len(parts[15]) /\ \A j \in 1..Len(parts[15]) : j = 1
      <4>1. Len(parts[15]) = 1
        BY <1>11, <2>2
      <4>2. 15 \in 1..21 /\ 1 \in 1..1 /\ \A j \in 1..1 : j = 1
        OBVIOUS
      <4> QED BY <4>1, <4>2, Zenon
    <3>2. \A n \in 1..21 : \A j \in 1..Len(parts[n]) : Touches(parts[n][j], name) <=> n = 15 /\ j = 1
      BY <2>1, <3>1, Zenon
    <3> QED BY <1>17, <2>2, <3>1, <3>2, Zenon
  <2>3. CASE "uplink" \notin enabled
    <3>1. \A j \in 1..Len(parts[15]) : FALSE
      BY <1>11, <2>3
    <3> QED BY <1>16, <2>1, <2>3, <3>1
  <2> QED BY <2>2, <2>3
<1>19. ASSUME name \notin c.uplink, name \in ToSet(c.user_ports)
       PROVE  Cardinality(SetOn(sent, name)) = IF "user_ports" \in enabled THEN 1 ELSE 0
  <2>1. PICK g \in 1..Len(groups) : name \in Candidate!Covered(groups[g])
    BY <1>4, <1>19 DEF CoversOnce
  <2>2. ASSUME NEW h \in 1..Len(groups), name \in Candidate!Covered(groups[h]) PROVE h = g
    BY <1>4, <2>1, <2>2, Zenon DEF CoversOnce
  <2>3. ASSUME NEW n \in 1..21, NEW j \in 1..Len(parts[n])
        PROVE  Touches(parts[n][j], name) <=> n = 16 /\ j = g
    BY <1>3, <1>13, <1>19, <2>1, <2>2, ZenonT(60)
  <2>4. CASE "user_ports" \in enabled
    <3>1. 16 \in 1..21 /\ g \in 1..Len(parts[16])
      BY <1>12, <2>4
    <3> QED BY <1>17, <2>3, <2>4, <3>1
  <2>5. CASE "user_ports" \notin enabled
    <3>1. \A j \in 1..Len(parts[16]) : FALSE
      BY <1>12, <2>5
    <3> QED BY <1>16, <2>3, <2>5, <3>1
  <2> QED BY <2>4, <2>5
<1>20. ASSUME name \notin c.uplink, name \notin ToSet(c.user_ports)
       PROVE  Cardinality(SetOn(sent, name)) = 0
  <2>1. \A n \in 1..21 : \A j \in 1..Len(parts[n]) : ~Touches(parts[n][j], name)
    BY <1>3, <1>10, <1>13, <1>20, Zenon
  <2> QED BY <1>16, <2>1
<1> QED
  BY <1>18, <1>19, <1>20

-----------------------------------------------------------------------------
(* The classification.                                                      *)

\* The interfaces of a switch.
Interfaces(Types, Slots, Modes, Nets) ==
    [type : Types, slot : Slots, port : Int, mode : Modes, address : Nets, member : BOOLEAN]

\* No two have one name.
Distinct(inventory) ==
    \A m, n \in DOMAIN inventory : Candidate!Name(inventory[m]) = Candidate!Name(inventory[n]) => m = n

\* What the code leaves alone.
LeftAlone(i) == i.mode = "routed" \/ i.member \/ i.type \notin Candidate!Physical

\* What a classification that is not rejected says of an interface.
ClassifiedAs(c, i, uplink) ==
    LET name == Candidate!Name(i)
    IN  /\ name = uplink => name \in c.uplink /\ name \notin ToSet(c.user_ports)
        /\ name # uplink => name \notin c.uplink
        /\ name # uplink => (name \in ToSet(c.user_ports) <=> ~LeftAlone(i))

\* A classification that is not rejected has each interface where it belongs; the
\* provision port is routed, and is left alone with the others.
LEMMA ClassifiedByRole ==
    ASSUME NEW Types, NEW Slots, NEW N \in Nat, NEW inventory, DOMAIN inventory = 1..N,
           \A n \in 1..N : Candidate!Name(inventory[n]) \in PortNames(Types, Slots),
           Distinct(inventory), NEW uplink, Candidate!ClassifyInterfaces(inventory, uplink).ok
    PROVE  /\ IsClassified(Candidate!ClassifyInterfaces(inventory, uplink), Types, Slots)
           /\ \A n \in 1..N :
                ClassifiedAs(Candidate!ClassifyInterfaces(inventory, uplink), inventory[n], uplink)
<1> DEFINE c == Candidate!ClassifyInterfaces(inventory, uplink)
           ports == {n \in DOMAIN inventory : Candidate!IsProvisionPort(inventory, n)}
           refused == \/ \A n \in DOMAIN inventory : Candidate!Name(inventory[n]) # uplink
                      \/ ports = {}
                      \/ \E n \in ports : \/ ~Candidate!ValidProvisionPort(inventory[n])
                                          \/ Candidate!Name(inventory[n]) = uplink
           provision == {Candidate!Name(inventory[n]) : n \in ports}
           User(i) == Candidate!Name(i) \notin provision \cup {uplink} /\ ~Candidate!IsPreserved(i)
           U == {n \in DOMAIN inventory : User(inventory[n])}
           users == Candidate!At(inventory, U)
           names == [n \in DOMAIN users |-> Candidate!Name(users[n])]
           order == Candidate!Ascending(U)
<1>1. c = IF refused THEN Candidate!Rejected
          ELSE [ok |-> TRUE, uplink |-> {uplink}, provision_port |-> provision, user_ports |-> names]
  BY Zenon DEF Candidate!ClassifyInterfaces, Candidate!Keep
<1>2. Candidate!Rejected.ok = FALSE
  BY DEF Candidate!Rejected
<1>3. U \in SUBSET (1..N) /\ IsFiniteSet(U)
  BY FS_Interval, FS_Subset
<1>4. users = [n \in DOMAIN order |-> inventory[order[n]]]
  BY Zenon DEF Candidate!At, Candidate!Taken
<1>5. provision \subseteq PortNames(Types, Slots)
  OBVIOUS
<1> HIDE DEF c, refused, names
<1>6. ~refused /\ c.uplink = {uplink} /\ c.provision_port = provision /\ c.user_ports = names
  <2>1. ~refused
    BY <1>1, <1>2 DEF c
  <2> QED BY <1>1, <2>1
<1>7. /\ order \in Seq(U) /\ Len(order) \in Nat /\ DOMAIN order = 1..Len(order)
      /\ \A x \in U : \E n \in 1..Len(order) : order[n] = x
  <2>1. U \in SUBSET Int
    BY <1>3
  <2> HIDE DEF U
  <2>2. /\ Ascending(U) \in Seq(U) /\ Len(Ascending(U)) \in Nat
        /\ \A x \in U : \E n \in 1..Len(Ascending(U)) : Ascending(U)[n] = x
    BY <1>3, <2>1, AscendingLists
  <2> QED BY <2>2, SameAscending
<1> HIDE DEF order, users
<1>8. names = [n \in 1..Len(order) |-> Candidate!Name(inventory[order[n]])]
  <2>1. DOMAIN users = 1..Len(order) /\ \A n \in 1..Len(order) : users[n] = inventory[order[n]]
    BY <1>4, <1>7
  <2> QED BY <2>1 DEF names
<1>9. \A n \in 1..Len(order) : order[n] \in U
  <2> HIDE DEF U
  <2> QED BY <1>7
<1>10. names \in Seq(PortNames(Types, Slots)) /\ Len(names) = Len(order)
  <2>1. \A n \in 1..Len(order) : Candidate!Name(inventory[order[n]]) \in PortNames(Types, Slots)
    BY <1>3, <1>9
  <2> DEFINE P == PortNames(Types, Slots)
             NameAt(n) == Candidate!Name(inventory[order[n]])
  <2>2. \A n \in 1..Len(order) : NameAt(n) \in P
    BY <2>1
  <2>3. names = [n \in 1..Len(order) |-> NameAt(n)]
    BY <1>8
  <2>4. names \in [1..Len(order) -> P]
    <3> HIDE DEF P, NameAt
    <3> QED BY <2>2, <2>3
  <2> HIDE DEF P, NameAt
  <2>5. names \in Seq(P) /\ Len(names) = Len(order)
    BY <1>7, <2>4, ListIsSequence, Zenon
  <2> QED BY <2>5 DEF P
<1>11. ToSet(names) = {Candidate!Name(inventory[m]) : m \in U}
  <2>1. ToSet(names) = {names[n] : n \in 1..Len(order)}
    BY <1>8 DEF ToSet
  <2>2. \A n \in 1..Len(order) : names[n] = Candidate!Name(inventory[order[n]])
    BY <1>8
  <2> HIDE DEF U
  <2> QED BY <1>7, <1>9, <2>1, <2>2
<1>12. PICK u \in 1..N : Candidate!Name(inventory[u]) = uplink
  BY <1>6 DEF refused
<1>13. uplink \in PortNames(Types, Slots)
  BY <1>12
<1>14. IsClassified(c, Types, Slots)
  BY <1>5, <1>6, <1>10, <1>13 DEF IsClassified
<1>15. ASSUME NEW n \in 1..N PROVE ClassifiedAs(c, inventory[n], uplink)
  <2> DEFINE i == inventory[n]
             name == Candidate!Name(i)
  <2>1. name \in ToSet(c.user_ports) <=> n \in U
    BY <1>3, <1>6, <1>11 DEF Distinct
  <2>2. n \in U <=> User(i)
    OBVIOUS
  <2>3. Candidate!IsPreserved(i) <=> LeftAlone(i)
    BY DEF Candidate!IsPreserved, LeftAlone
  <2>4. name \in provision => LeftAlone(i)
    <3> SUFFICES ASSUME name \in provision PROVE LeftAlone(i)
      OBVIOUS
    <3>1. n \in ports
      BY DEF Distinct
    <3>2. Candidate!ValidProvisionPort(i)
      BY <1>6, <3>1 DEF refused
    <3> QED BY <3>2 DEF Candidate!ValidProvisionPort, LeftAlone
  <2> HIDE DEF U
  <2> QED BY <1>6, <2>1, <2>2, <2>3, <2>4 DEF ClassifiedAs
<1> QED
  BY <1>14, <1>15 DEF c

\* The addresses are joined to the interfaces and change nothing else of them.
LEMMA InventoryKeepsRoles ==
    ASSUME NEW Types, NEW Slots, NEW Modes, NEW Nets,
           NEW interfaces \in Seq(Interfaces(Types, Slots, Modes, Nets)), NEW addresses,
           NEW n \in 1..Len(interfaces)
    PROVE  LET i == Candidate!ProvisionInventory(interfaces, addresses)[n]
           IN  /\ Candidate!Name(i) = Candidate!Name(interfaces[n])
               /\ Candidate!Name(i) \in PortNames(Types, Slots)
               /\ LeftAlone(i) <=> LeftAlone(interfaces[n])
<1> DEFINE i == Candidate!ProvisionInventory(interfaces, addresses)[n]
           r == interfaces[n]
           a == addresses[Candidate!Name(r)]
<1>1. r \in Interfaces(Types, Slots, Modes, Nets) /\ n \in DOMAIN interfaces
  OBVIOUS
<1>2. i = IF Candidate!Name(r) \in DOMAIN addresses THEN [r EXCEPT !.address = a] ELSE r
  BY <1>1 DEF Candidate!ProvisionInventory
<1> HIDE DEF i, r, a
<1>3. /\ i.type = r.type /\ i.slot = r.slot /\ i.port = r.port
      /\ i.mode = r.mode /\ i.member = r.member
      /\ r.type \in Types /\ r.slot \in Slots /\ r.port \in Int
  BY <1>1, <1>2 DEF Interfaces
<1>4. Candidate!Name(i) = Candidate!Name(r) /\ Candidate!Name(i) \in PortNames(Types, Slots)
  BY <1>3 DEF Candidate!Name, PortNames
<1>5. LeftAlone(i) <=> LeftAlone(r)
  BY <1>3 DEF LeftAlone
<1> QED
  BY <1>4, <1>5 DEF i, r

\* The uplink is set once, each port of a user once, and no port that is left alone.
SetOnce(sent, interfaces, uplink, enabled) ==
    LET Times(section) == IF section \in enabled THEN 1 ELSE 0
    IN  \A n \in 1..Len(interfaces) :
            Cardinality(SetOn(sent, Candidate!Name(interfaces[n]))) =
                IF Candidate!Name(interfaces[n]) = uplink THEN Times("uplink")
                ELSE IF LeftAlone(interfaces[n]) THEN 0
                ELSE Times("user_ports")

\* Whatever the switch, the sections chosen and the lines added, a candidate sets
\* the uplink once, each port of a user once, and no port that is left alone
\* (classifier.py, interface_range.py, renderer.py, deploy.py).
THEOREM EachPortIsSetOnce ==
    ASSUME NEW Types, "Vlan" \notin Types, NEW Slots, NEW Modes, NEW Nets,
           NEW interfaces \in Seq(Interfaces(Types, Slots, Modes, Nets)), Distinct(interfaces),
           NEW addresses, NEW uplink, NEW monitoring \in BOOLEAN, NEW enabled,
           NEW K \in SUBSET SectionLines("overrides", Openable(Types, Slots)),
           \A line \in K : line.text # "interface",
           NEW overrides \in Seq(Additions(K, Openable(Types, Slots))),
           Candidate!ProvisionGenerate(interfaces, addresses, uplink).ok
    PROVE  LET c == Candidate!ProvisionGenerate(interfaces, addresses, uplink)
           IN  /\ IsClassified(c, Types, Slots)
               /\ SetOnce(Candidate!SplitCandidateBlocks(
                            Candidate!RenderBranchCandidate(c, monitoring, enabled, overrides)),
                          interfaces, uplink, enabled)
<1> DEFINE c == Candidate!ProvisionGenerate(interfaces, addresses, uplink)
           sent == Candidate!SplitCandidateBlocks(
                        Candidate!RenderBranchCandidate(c, monitoring, enabled, overrides))
           inventory == Candidate!ProvisionInventory(interfaces, addresses)
           N == Len(interfaces)
<1>1. N \in Nat /\ DOMAIN interfaces = 1..N
  OBVIOUS
<1>2. DOMAIN inventory = 1..N
  BY <1>1 DEF Candidate!ProvisionInventory
<1>3. \A n \in 1..N : /\ Candidate!Name(inventory[n]) = Candidate!Name(interfaces[n])
                      /\ Candidate!Name(inventory[n]) \in PortNames(Types, Slots)
                      /\ LeftAlone(inventory[n]) <=> LeftAlone(interfaces[n])
  BY InventoryKeepsRoles
<1>4. c = Candidate!ClassifyInterfaces(inventory, uplink)
  BY DEF Candidate!ProvisionGenerate
<1> HIDE DEF inventory, N
<1>5. Distinct(inventory)
  BY <1>1, <1>2, <1>3 DEF Distinct
<1>6. /\ IsClassified(c, Types, Slots)
      /\ \A n \in 1..N : ClassifiedAs(c, inventory[n], uplink)
  <2>1. Candidate!ClassifyInterfaces(inventory, uplink).ok
    BY <1>4
  <2> HIDE DEF c
  <2> QED BY <1>1, <1>2, <1>3, <1>4, <1>5, <2>1, ClassifiedByRole, Zenon
<1> HIDE DEF c
<1>7. IsSent(sent, SentSections(c, monitoring, enabled), K)
  BY <1>6, BlocksSentAreRendered
<1> HIDE DEF sent
<1>8. ASSUME NEW n \in 1..N
      PROVE  Cardinality(SetOn(sent, Candidate!Name(interfaces[n]))) =
                IF Candidate!Name(interfaces[n]) = uplink
                THEN IF "uplink" \in enabled THEN 1 ELSE 0
                ELSE IF LeftAlone(interfaces[n]) THEN 0
                ELSE IF "user_ports" \in enabled THEN 1 ELSE 0
  <2> DEFINE name == Candidate!Name(interfaces[n])
  <2>1. name \in PortNames(Types, Slots)
    BY <1>3
  <2>2. /\ name = uplink => name \in c.uplink /\ name \notin ToSet(c.user_ports)
        /\ name # uplink => name \notin c.uplink
        /\ name # uplink => (name \in ToSet(c.user_ports) <=> ~LeftAlone(interfaces[n]))
    BY <1>3, <1>6 DEF ClassifiedAs
  <2> HIDE DEF name
  <2>3. /\ name \in c.uplink /\ name \notin ToSet(c.user_ports)
                => Cardinality(SetOn(sent, name)) = IF "uplink" \in enabled THEN 1 ELSE 0
        /\ name \notin c.uplink /\ name \in ToSet(c.user_ports)
                => Cardinality(SetOn(sent, name)) = IF "user_ports" \in enabled THEN 1 ELSE 0
        /\ name \notin c.uplink /\ name \notin ToSet(c.user_ports)
                => Cardinality(SetOn(sent, name)) = 0
    BY <1>6, <1>7, <2>1, PortsSet
  <2> QED BY <2>2, <2>3 DEF name
<1> QED
  BY <1>6, <1>8 DEF c, sent, N, SetOnce

-----------------------------------------------------------------------------
(* The inputs of the runs are switches and selections as the theorems take  *)
(* them.                                                                    *)

PortTypes == {"Gi", "Te", "Po"}
PortSlots == {<<>>, <<0>>, <<1, 0>>}
Modes     == {"access", "routed"}
Nets      == {"none", "provision"}

\* The ports of the switches of the run have names of their own.
LEMMA PlacesDiffer ==
    ASSUME NEW p \in Places
    PROVE  /\ p \in Seq([type : PortTypes, slot : PortSlots, port : Int])
           /\ \A m, n \in DOMAIN p : p[m].type = p[n].type /\ p[m].port = p[n].port => m = n
<1> DEFINE R == [type : PortTypes, slot : PortSlots, port : Int]
<1>1. \A type \in PortTypes, slot \in PortSlots, port \in Int :
        /\ Port(type, slot, port) \in R
        /\ Port(type, slot, port).type = type /\ Port(type, slot, port).port = port
  BY DEF Port
<1>2. CASE p = <<Port("Gi", <<0>>, 1), Port("Gi", <<0>>, 2), Port("Gi", <<0>>, 3), Port("Gi", <<0>>, 4),
                 Port("Te", <<0>>, 1), Port("Po", <<>>, 1)>>
  <2>1. p \in Seq(R)
    <3> HIDE DEF R
    <3> QED BY <1>1, <1>2 DEF PortTypes, PortSlots
  <2>2. DOMAIN p = 1..6
    BY <1>2
  <2>3. /\ p[1].type = "Gi" /\ p[1].port = 1
        /\ p[2].type = "Gi" /\ p[2].port = 2
        /\ p[3].type = "Gi" /\ p[3].port = 3
        /\ p[4].type = "Gi" /\ p[4].port = 4
        /\ p[5].type = "Te" /\ p[5].port = 1
        /\ p[6].type = "Po" /\ p[6].port = 1
    BY <1>2 DEF Port
  <2>4. \A m \in 1..6 : m = 1 \/ m = 2 \/ m = 3 \/ m = 4 \/ m = 5 \/ m = 6
    OBVIOUS
  <2> QED BY <2>1, <2>2, <2>3, <2>4
<1>3. CASE p = <<Port("Te", <<1, 0>>, 2), Port("Gi", <<1, 0>>, 4), Port("Gi", <<1, 0>>, 2),
                 Port("Po", <<>>, 2), Port("Gi", <<1, 0>>, 3)>>
  <2>1. p \in Seq(R)
    <3> HIDE DEF R
    <3> QED BY <1>1, <1>3 DEF PortTypes, PortSlots
  <2>2. DOMAIN p = 1..5
    BY <1>3
  <2>3. /\ p[1].type = "Te" /\ p[1].port = 2
        /\ p[2].type = "Gi" /\ p[2].port = 4
        /\ p[3].type = "Gi" /\ p[3].port = 2
        /\ p[4].type = "Po" /\ p[4].port = 2
        /\ p[5].type = "Gi" /\ p[5].port = 3
    BY <1>3 DEF Port
  <2>4. \A m \in 1..5 : m = 1 \/ m = 2 \/ m = 3 \/ m = 4 \/ m = 5
    OBVIOUS
  <2> QED BY <2>1, <2>2, <2>3, <2>4
<1>4. CASE p = <<Port("Po", <<>>, 1), Port("Gi", <<>>, 0), Port("Gi", <<0>>, 1),
                 Port("Gi", <<0>>, 3), Port("Gi", <<0>>, 2)>>
  <2>1. p \in Seq(R)
    <3> HIDE DEF R
    <3> QED BY <1>1, <1>4 DEF PortTypes, PortSlots
  <2>2. DOMAIN p = 1..5
    BY <1>4
  <2>3. /\ p[1].type = "Po" /\ p[1].port = 1
        /\ p[2].type = "Gi" /\ p[2].port = 0
        /\ p[3].type = "Gi" /\ p[3].port = 1
        /\ p[4].type = "Gi" /\ p[4].port = 3
        /\ p[5].type = "Gi" /\ p[5].port = 2
    BY <1>4 DEF Port
  <2>4. \A m \in 1..5 : m = 1 \/ m = 2 \/ m = 3 \/ m = 4 \/ m = 5
    OBVIOUS
  <2> QED BY <2>1, <2>2, <2>3, <2>4
<1> QED
  BY <1>2, <1>3, <1>4 DEF Places

\* So have the interfaces of their inventories.
LEMMA InventoriesDiffer ==
    ASSUME NEW inventory \in Inventories
    PROVE  /\ inventory \in Seq(Interfaces(PortTypes, PortSlots, Modes, Nets))
           /\ Distinct(inventory)
<1>10. PICK p \in Places : \E role \in [DOMAIN p -> Roles] :
        inventory = [n \in DOMAIN p |-> With(p[n], IF p[n].type = "Po" THEN Plain ELSE role[n])]
  <2>1. PICK s \in {{[n \in DOMAIN p |-> With(p[n], IF p[n].type = "Po" THEN Plain ELSE role[n])] :
                        role \in [DOMAIN p -> Roles]} : p \in Places} : inventory \in s
    BY Zenon DEF Inventories
  <2>2. PICK p \in Places :
            s = {[n \in DOMAIN p |-> With(p[n], IF p[n].type = "Po" THEN Plain ELSE role[n])] :
                    role \in [DOMAIN p -> Roles]}
    OBVIOUS
  <2> QED BY <2>1, <2>2
<1>1. PICK role \in [DOMAIN p -> Roles] :
        inventory = [n \in DOMAIN p |-> With(p[n], IF p[n].type = "Po" THEN Plain ELSE role[n])]
  BY <1>10
<1> DEFINE Role(n) == IF p[n].type = "Po" THEN Plain ELSE role[n]
<1>2. PICK N \in Nat : N = Len(p) /\ DOMAIN p = 1..N
  BY PlacesDiffer
<1>3. ASSUME NEW n \in 1..N
      PROVE  Role(n).mode \in Modes /\ Role(n).address \in Nets /\ Role(n).member \in BOOLEAN
  <2>1. \A r \in Roles \cup {Plain} : r.mode \in Modes /\ r.address \in Nets /\ r.member \in BOOLEAN
    <3> DEFINE RR == [mode : Modes, address : Nets, member : BOOLEAN]
    <3>1. Plain \in RR
      BY DEF Plain, Modes, Nets
    <3>2. \A r \in RR : /\ [r EXCEPT !.member = TRUE] \in RR
                        /\ [r EXCEPT !.mode = "routed"] \in RR
                        /\ [r EXCEPT !.mode = "routed", !.address = "provision"] \in RR
                        /\ r.mode \in Modes /\ r.address \in Nets /\ r.member \in BOOLEAN
      BY Zenon DEF Modes, Nets
    <3> HIDE DEF RR
    <3> QED BY <3>1, <3>2, Zenon DEF Roles
  <2>2. Role(n) \in Roles \cup {Plain}
    BY <1>2
  <2> HIDE DEF Role
  <2> QED BY <2>1, <2>2
<1>4. ASSUME NEW n \in 1..N
      PROVE  p[n].type \in PortTypes /\ p[n].slot \in PortSlots /\ p[n].port \in Int
  <2>1. p \in Seq([type : PortTypes, slot : PortSlots, port : Int])
    BY PlacesDiffer, Zenon
  <2> DEFINE R == [type : PortTypes, slot : PortSlots, port : Int]
  <2>2. p \in Seq(R)
    BY <2>1
  <2>3. \A r \in R : r.type \in PortTypes /\ r.slot \in PortSlots /\ r.port \in Int
    OBVIOUS
  <2> HIDE DEF R
  <2>4. p[n] \in R
    BY <1>2, <2>2
  <2> QED BY <2>3, <2>4
<1>5. \A n \in 1..N : inventory[n] = With(p[n], Role(n))
  BY <1>1, <1>2
<1>6. DOMAIN inventory = 1..N /\ inventory = [n \in 1..N |-> inventory[n]]
  BY <1>1, <1>2
<1> HIDE DEF Role
<1>7. \A n \in 1..N : /\ inventory[n] \in Interfaces(PortTypes, PortSlots, Modes, Nets)
                      /\ inventory[n].type = p[n].type /\ inventory[n].port = p[n].port
  <2> SUFFICES ASSUME NEW n \in 1..N
               PROVE  /\ inventory[n] \in Interfaces(PortTypes, PortSlots, Modes, Nets)
                      /\ inventory[n].type = p[n].type /\ inventory[n].port = p[n].port
    OBVIOUS
  <2>1. inventory[n] = With(p[n], Role(n))
    BY <1>5
  <2>2. With(p[n], Role(n)) \in Interfaces(PortTypes, PortSlots, Modes, Nets)
    BY <1>3, <1>4 DEF With, Interfaces
  <2>3. With(p[n], Role(n)).type = p[n].type /\ With(p[n], Role(n)).port = p[n].port
    BY DEF With
  <2> QED BY <2>1, <2>2, <2>3
<1>8. inventory \in Seq(Interfaces(PortTypes, PortSlots, Modes, Nets))
  <2> DEFINE R == Interfaces(PortTypes, PortSlots, Modes, Nets)
  <2>1. inventory \in [1..N -> R]
    <3> HIDE DEF R
    <3> QED BY <1>6, <1>7 DEF R
  <2> HIDE DEF R
  <2>2. inventory \in Seq(R)
    BY <1>2, <2>1, ListIsSequence
  <2> QED BY <2>2 DEF R
<1>9. ASSUME NEW m \in 1..N, NEW n \in 1..N,
             Candidate!Name(inventory[m]) = Candidate!Name(inventory[n])
      PROVE  m = n
  <2>1. inventory[m].type = inventory[n].type /\ inventory[m].port = inventory[n].port
    BY <1>9 DEF Candidate!Name
  <2>2. p[m].type = p[n].type /\ p[m].port = p[n].port
    BY <1>7, <2>1
  <2> QED BY <1>2, <2>2, PlacesDiffer, Zenon
<1> QED
  BY <1>6, <1>8, <1>9 DEF Distinct

\* To leave the addresses out changes nothing else.
LEMMA ListedKeepsRoles ==
    ASSUME NEW inventory \in Seq(Interfaces(PortTypes, PortSlots, Modes, Nets)), Distinct(inventory)
    PROVE  /\ Listed(inventory) \in Seq(Interfaces(PortTypes, PortSlots, Modes, Nets))
           /\ Distinct(Listed(inventory))
           /\ Len(Listed(inventory)) = Len(inventory)
           /\ \A n \in 1..Len(inventory) :
                /\ Candidate!Name(Listed(inventory)[n]) = Candidate!Name(inventory[n])
                /\ LeftAlone(Listed(inventory)[n]) <=>
                        inventory[n].mode = "routed" \/ inventory[n].member \/ inventory[n].type = "Po"
<1> DEFINE R == Interfaces(PortTypes, PortSlots, Modes, Nets)
           N == Len(inventory)
           list == Listed(inventory)
<1>1. N \in Nat /\ DOMAIN inventory = 1..N /\ \A n \in 1..N : inventory[n] \in R
  OBVIOUS
<1>2. list = [n \in 1..N |-> [inventory[n] EXCEPT !.address = "none"]]
  BY <1>1 DEF Listed
<1> HIDE DEF N, list
<1>3. \A r \in R : /\ [r EXCEPT !.address = "none"] \in R
                   /\ [r EXCEPT !.address = "none"].type = r.type
                   /\ [r EXCEPT !.address = "none"].slot = r.slot
                   /\ [r EXCEPT !.address = "none"].port = r.port
                   /\ [r EXCEPT !.address = "none"].mode = r.mode
                   /\ [r EXCEPT !.address = "none"].member = r.member
                   /\ r.type \in PortTypes
  BY DEF Interfaces, Nets
<1>4. \A n \in 1..N : /\ list[n] \in R
                      /\ list[n].type = inventory[n].type /\ list[n].slot = inventory[n].slot
                      /\ list[n].port = inventory[n].port /\ list[n].mode = inventory[n].mode
                      /\ list[n].member = inventory[n].member
                      /\ inventory[n].type \in PortTypes
  <2>1. \A n \in 1..N : list[n] = [inventory[n] EXCEPT !.address = "none"]
    BY <1>2
  <2> HIDE DEF R
  <2> QED BY <1>1, <1>3, <2>1, ZenonT(60)
<1>5. list \in Seq(R) /\ Len(list) = N /\ DOMAIN list = 1..N
  <2> HIDE DEF R
  <2>1. list \in [1..N -> R]
    BY <1>2, <1>4
  <2> QED BY <1>1, <2>1, ListIsSequence
<1>6. \A n \in 1..N : Candidate!Name(list[n]) = Candidate!Name(inventory[n])
  BY <1>4 DEF Candidate!Name
<1>7. Distinct(list)
  BY <1>1, <1>5, <1>6 DEF Distinct
<1>8. \A n \in 1..N : LeftAlone(list[n]) <=>
            inventory[n].mode = "routed" \/ inventory[n].member \/ inventory[n].type = "Po"
  BY <1>4 DEF LeftAlone, PortTypes, Candidate!Physical
<1> QED
  BY <1>5, <1>6, <1>7, <1>8 DEF list, N

Chosen == Openable(PortTypes, PortSlots)

\* The selections of the run choose sections and add lines of the operator.
LEMMA SelectionsFit ==
    ASSUME NEW c \in Selections
    PROVE  /\ c[1] \in SUBSET Sections /\ c[3] \in BOOLEAN
           /\ c[2] \in Seq(Additions({Override}, Chosen))
<1> DEFINE A == Additions({Override}, Chosen)
<1>1. Override \in A
  BY DEF Additions
<1>2. Candidate!Line("overrides", "end", {}) \in A
  <2>1. Candidate!Line("overrides", "end", {}) \in [section : {"overrides"}, text : {"end"}, on : SUBSET Chosen]
    BY DEF Candidate!Line
  <2> QED BY <2>1 DEF Additions
<1> HIDE DEF A
<1>3. {"hostname", "transceiver", "aaa", "user_ports", "ntp"} \subseteq Sections
  <2>1. /\ Candidate!SECTION_ORDER[2] = "hostname" /\ Candidate!SECTION_ORDER[4] = "aaa"
        /\ Candidate!SECTION_ORDER[11] = "transceiver" /\ Candidate!SECTION_ORDER[16] = "user_ports"
        /\ Candidate!SECTION_ORDER[21] = "ntp"
    BY DEF Candidate!SECTION_ORDER
  <2>2. \A n \in 1..21 : Candidate!SECTION_ORDER[n] \in Sections
    BY SectionsInOrder, Zenon
  <2>3. 2 \in 1..21 /\ 4 \in 1..21 /\ 11 \in 1..21 /\ 16 \in 1..21 /\ 21 \in 1..21
    OBVIOUS
  <2> QED BY <2>1, <2>2, <2>3
<1> DEFINE one == <<Override>>
           end == Candidate!Line("overrides", "end", {})
           three == <<Override, end, Override>>
<1>4. <<>> \in Seq(A) /\ one \in Seq(A) /\ three \in Seq(A)
  <2> HIDE DEF end
  <2> QED BY <1>1, <1>2 DEF end
<1> HIDE DEF one, end, three
<1>5. \/ c = <<Sections, <<>>, TRUE>>
      \/ c = <<Sections \ {"provision_port"}, one, FALSE>>
      \/ c = <<{"hostname", "transceiver", "aaa", "user_ports", "ntp"}, three, FALSE>>
  BY Zenon DEF Selections, one, end, three
<1>6. ASSUME NEW x, NEW y, NEW z, c = <<x, y, z>> PROVE c[1] = x /\ c[2] = y /\ c[3] = z
  BY <1>6
<1>7. TRUE \in BOOLEAN /\ FALSE \in BOOLEAN
  OBVIOUS
<1>8. CASE c = <<Sections, <<>>, TRUE>>
  <2>1. c[1] = Sections /\ c[2] = <<>> /\ c[3] = TRUE
    BY <1>6, <1>8, Zenon
  <2> QED BY <1>4, <1>7, <2>1, Zenon DEF A
<1>9. CASE c = <<Sections \ {"provision_port"}, one, FALSE>>
  <2>1. c[1] = Sections \ {"provision_port"} /\ c[2] = one /\ c[3] = FALSE
    BY <1>6, <1>9, Zenon
  <2> QED BY <1>4, <1>7, <2>1, Zenon DEF A
<1>10. CASE c = <<{"hostname", "transceiver", "aaa", "user_ports", "ntp"}, three, FALSE>>
  <2>1. /\ c[1] = {"hostname", "transceiver", "aaa", "user_ports", "ntp"}
        /\ c[2] = three /\ c[3] = FALSE
    BY <1>6, <1>10, Zenon
  <2> QED BY <1>3, <1>4, <1>7, <2>1, Zenon DEF A
<1> QED
  BY <1>5, <1>8, <1>9, <1>10, Zenon

\* So do the inputs.
LEMMA CandidateInputsFit ==
    ASSUME input \in CandidateInputs
    PROVE  /\ input.inventory \in Inventories
           /\ input.enabled \in SUBSET Sections /\ input.monitoring \in BOOLEAN
           /\ input.overrides \in Seq(Additions({Override}, Chosen))
<1>1. PICK i \in Inventories, u \in {3, 5}, c \in Selections, a \in BOOLEAN :
        input = [task |-> "candidate", inventory |-> i, uplink |-> Candidate!Name(i[u]), reached |-> a,
                 enabled |-> c[1], overrides |-> c[2], monitoring |-> c[3]]
  BY DEF CandidateInputs
<1>2. /\ input.inventory = i /\ input.enabled = c[1] /\ input.overrides = c[2]
      /\ input.monitoring = c[3]
  BY <1>1
<1> QED
  BY <1>2, SelectionsFit, Zenon

\* The operator's line sets nothing on an interface.
LEMMA OverrideOpensNothing ==
    /\ {Override} \in SUBSET SectionLines("overrides", Chosen)
    /\ \A line \in {Override} : line.text # "interface"
<1>1. Override \in SectionLines("overrides", Chosen)
  BY DEF Override, Candidate!Line, SectionLines
<1>2. Override.text = "setting"
  BY DEF Override, Candidate!Line
<1> QED
  BY <1>1, <1>2

\* What is sent is cut from the text that was rendered for the sections chosen.
LEMMA SentIsRendered ==
    ASSUME input \in CandidateInputs
    PROVE  Sent = Candidate!SplitCandidateBlocks(
                    Candidate!RenderBranchCandidate(Classified, input.monitoring,
                                                    input.enabled, input.overrides))
<1>1. input.enabled \subseteq Candidate!ToSet(Candidate!SECTION_ORDER)
  BY CandidateInputsFit DEF Sections, ToSet, Candidate!ToSet
<1> QED
  BY <1>1, Zenon DEF Sent, Text, Candidate!ProvisionCandidateAdjust

\* The ports, for the inputs of the run.
LEMMA CandidateSetsPorts ==
    ASSUME input \in CandidateInputs PROVE PortsAsClassified
<1> SUFFICES ASSUME Classified.ok, NEW i \in ToSet(input.inventory)
             PROVE  Cardinality(SetOn(Sent, Candidate!Name(i))) =
                        IF Candidate!Name(i) = input.uplink
                        THEN IF "uplink" \in input.enabled THEN 1 ELSE 0
                        ELSE IF i.mode = "routed" \/ i.member \/ i.type = "Po" THEN 0
                        ELSE IF "user_ports" \in input.enabled THEN 1 ELSE 0
  BY Zenon DEF PortsAsClassified
<1> DEFINE inventory == input.inventory
           list == Listed(inventory)
           addresses == IF input.reached THEN Addresses(inventory) ELSE <<>>
           c == Candidate!ProvisionGenerate(list, addresses, input.uplink)
           sent == Candidate!SplitCandidateBlocks(
                     Candidate!RenderBranchCandidate(c, input.monitoring, input.enabled, input.overrides))
<1>1. /\ inventory \in Seq(Interfaces(PortTypes, PortSlots, Modes, Nets)) /\ Distinct(inventory)
  BY CandidateInputsFit, InventoriesDiffer
<1>2. /\ list \in Seq(Interfaces(PortTypes, PortSlots, Modes, Nets)) /\ Distinct(list)
      /\ Len(list) = Len(inventory)
      /\ \A n \in 1..Len(inventory) :
            /\ Candidate!Name(list[n]) = Candidate!Name(inventory[n])
            /\ LeftAlone(list[n]) <=>
                  inventory[n].mode = "routed" \/ inventory[n].member \/ inventory[n].type = "Po"
  BY <1>1, ListedKeepsRoles
<1>3. Classified = c
  BY Zenon DEF Classified
<1>4. Sent = sent
  BY <1>3, SentIsRendered
<1>5. "Vlan" \notin PortTypes
  BY DEF PortTypes
<1>6. PICK n \in 1..Len(inventory) : inventory[n] = i
  <2>1. DOMAIN inventory = 1..Len(inventory)
    BY <1>1
  <2> QED BY <2>1 DEF ToSet
<1>7. /\ c.ok /\ input.monitoring \in BOOLEAN
      /\ input.overrides \in Seq(Additions({Override}, Openable(PortTypes, PortSlots)))
      /\ {Override} \in SUBSET SectionLines("overrides", Openable(PortTypes, PortSlots))
      /\ \A line \in {Override} : line.text # "interface"
  BY <1>3, CandidateInputsFit, OverrideOpensNothing DEF Chosen
<1>8. \A m \in 1..Len(list) :
        Cardinality(SetOn(sent, Candidate!Name(list[m]))) =
            IF Candidate!Name(list[m]) = input.uplink
            THEN IF "uplink" \in input.enabled THEN 1 ELSE 0
            ELSE IF LeftAlone(list[m]) THEN 0
            ELSE IF "user_ports" \in input.enabled THEN 1 ELSE 0
  <2> HIDE DEF list, addresses
  <2>1. SetOnce(sent, list, input.uplink, input.enabled)
    BY <1>2, <1>5, <1>7, EachPortIsSetOnce, Zenon
  <2> QED BY <2>1 DEF SetOnce
<1> HIDE DEF sent, list, inventory
<1> QED
  BY <1>2, <1>4, <1>6, <1>8

\* The order of the blocks, for the inputs of the run.
LEMMA CandidateKeepsOrder ==
    ASSUME input \in CandidateInputs PROVE BlocksInOrder
<1> SUFFICES ASSUME Classified.ok
             PROVE  LET sent == Sent
                        place == [b \in DOMAIN sent |-> Place(sent[b][1].section)]
                    IN  /\ \A b \in DOMAIN sent : \A line \in ToSet(sent[b]) :
                                line.section = sent[b][1].section
                        /\ \A b \in DOMAIN sent \ {1} : place[b - 1] <= place[b]
                        /\ input.enabled \ {"user_ports", "transceiver"} \subseteq
                                {block[1].section : block \in ToSet(sent)}
  BY Zenon DEF BlocksInOrder
<1> DEFINE list == Listed(input.inventory)
           addresses == IF input.reached THEN Addresses(input.inventory) ELSE <<>>
           c == Candidate!ProvisionGenerate(list, addresses, input.uplink)
<1>1. list \in Seq(Interfaces(PortTypes, PortSlots, Modes, Nets)) /\ Distinct(list)
  BY CandidateInputsFit, InventoriesDiffer, ListedKeepsRoles
<1>2. Classified = c
  BY Zenon DEF Classified
<1>3. "Vlan" \notin PortTypes
  BY DEF PortTypes
<1>4. /\ c.ok /\ input.monitoring \in BOOLEAN /\ input.enabled \in SUBSET Sections
      /\ input.overrides \in Seq(Additions({Override}, Openable(PortTypes, PortSlots)))
      /\ {Override} \in SUBSET SectionLines("overrides", Openable(PortTypes, PortSlots))
      /\ \A line \in {Override} : line.text # "interface"
  BY <1>2, CandidateInputsFit, OverrideOpensNothing DEF Chosen
<1>5. IsClassified(c, PortTypes, PortSlots)
  <2> HIDE DEF list, addresses
  <2> QED BY <1>1, <1>3, <1>4, EachPortIsSetOnce, Zenon
<1> HIDE DEF c
<1>6. InOrder(Sent, input.enabled)
  <2>1. InOrder(Candidate!SplitCandidateBlocks(
                    Candidate!RenderBranchCandidate(c, input.monitoring, input.enabled, input.overrides)),
                input.enabled)
    BY <1>4, <1>5, SectionsStayInOrder, Zenon
  <2> QED BY <1>2, <2>1, SentIsRendered
<1> QED
  BY <1>6, Zenon DEF InOrder

-----------------------------------------------------------------------------
(* The properties of the run.                                               *)

\* The task of an input is that of its set.
LEMMA TaskOfInput ==
    /\ input \in PingInputs => input.task = "ping"
    /\ input \in HealthInputs => input.task = "health"
    /\ input \in CandidateInputs => input.task = "candidate"
    /\ input \in DiffInputs => input.task = "diff"
<1>1. input \in PingInputs => input.task = "ping"
  BY DEF PingInputs
<1>2. input \in HealthInputs => input.task = "health"
  BY Zenon DEF HealthInputs
<1>3. input \in CandidateInputs => input.task = "candidate"
  BY DEF CandidateInputs
<1>4. input \in DiffInputs => input.task = "diff"
  BY DEF DiffInputs
<1> QED
  BY <1>1, <1>2, <1>3, <1>4

\* The input never changes.
LEMMA InputKept == Init /\ [Next]_input => Init'
  BY DEF Init, Next

\* The answers of a ping are those for the addresses asked for, each once and in
\* the order asked (PingKeepsTargets, service.py:run_switch_ping).
THEOREM PingKeepsTargetsHolds == Spec => []PingKeepsTargets
<1>1. Init => PingKeepsTargets
  BY TaskOfInput, PingInputsKeep, Zenon DEF Init, PingKeepsTargets
<1> QED
  BY <1>1, InputKept, PTL DEF Spec

\* A counter that is not zero is never passed over, except collisions where they
\* are to be expected (HealthSeesErrors, service.py:classify_interface_health).
THEOREM HealthSeesErrorsHolds == Spec => []HealthSeesErrors
<1>1. Init => HealthSeesErrors
  BY TaskOfInput, HealthInputsSee DEF Init, HealthSeesErrors
<1> QED
  BY <1>1, InputKept, PTL DEF Spec

\* The other inputs are no candidates.
LEMMA OtherInputs ==
    ASSUME input \notin CandidateInputs, Init
    PROVE  PortsAsClassified /\ BlocksInOrder
  BY TaskOfInput DEF Init, PortsAsClassified, BlocksInOrder

\* A candidate sets nothing on ports that are left alone, and each other port
\* once (PortsAsClassified; classifier.py, interface_range.py, renderer.py).
THEOREM PortsAsClassifiedHolds == Spec => []PortsAsClassified
<1>1. Init => PortsAsClassified
  BY CandidateSetsPorts, OtherInputs
<1> QED
  BY <1>1, InputKept, PTL DEF Spec

\* The blocks sent keep the order of the sections (BlocksInOrder; renderer.py, deploy.py).
THEOREM BlocksInOrderHolds == Spec => []BlocksInOrder
<1>1. Init => BlocksInOrder
  BY CandidateKeepsOrder, OtherInputs
<1> QED
  BY <1>1, InputKept, PTL DEF Spec
=============================================================================
