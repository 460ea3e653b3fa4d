------------------------ MODULE ConfigurationDiffProofs ------------------------
(***************************************************************************)
(* Proofs about the comparison of two configurations, of any length.  The   *)
(* search for the longest run of equal lines is a recursive function: that  *)
(* it exists follows by building it up over the width of the spans.  What   *)
(* is found matches equal lines one to one, so the rows lose no line.       *)
(***************************************************************************)
EXTENDS SwitchTextProofs

-----------------------------------------------------------------------------
(* Sets of one size.                                                         *)

\* Two finite sets of one size.
SameSize(S, T) == IsFiniteSet(S) /\ IsFiniteSet(T) /\ Cardinality(S) = Cardinality(T)

\* A relation that gives each element of a set one of the other, and each of that one.
Pairs(R, S, T) ==
    /\ R \subseteq S \X T
    /\ \A x \in S : \E y \in T : <<x, y>> \in R
    /\ \A y \in T : \E x \in S : <<x, y>> \in R
    /\ \A x, z \in S : \A y \in T : <<x, y>> \in R /\ <<z, y>> \in R => x = z
    /\ \A x \in S : \A y, z \in T : <<x, y>> \in R /\ <<x, z>> \in R => y = z

\* What is paired has one size.
LEMMA PairsAreSameSize ==
    ASSUME NEW R, NEW S, NEW T, IsFiniteSet(S), Pairs(R, S, T)
    PROVE  SameSize(S, T)
<1> DEFINE f == [x \in S |-> CHOOSE y \in T : <<x, y>> \in R]
<1>1. \A x \in S : f[x] \in T /\ <<x, f[x]>> \in R
  BY DEF Pairs
<1>2. f \in [S -> T]
  BY <1>1, Zenon
<1>3. \A x, z \in S : f[x] = f[z] => x = z
  <2> HIDE DEF f
  <2> QED BY <1>1, Zenon DEF Pairs
<1>4. \A y \in T : \E x \in S : f[x] = y
  <2> HIDE DEF f
  <2> QED BY <1>1, ZenonT(60) DEF Pairs
<1>5. f \in Bijection(S, T)
  <2> HIDE DEF f
  <2> QED BY <1>2, <1>3, <1>4 DEF Bijection, Injection, Surjection, IsInjective
<1>6. ExistsBijection(S, T)
  BY <1>5 DEF ExistsBijection
<1> QED
  BY <1>6, FS_Bijection DEF SameSize

\* Sets of one size have a pairing.
LEMMA SameSizeHasPairs ==
    ASSUME NEW S, NEW T, SameSize(S, T)
    PROVE  \E R : Pairs(R, S, T)
<1>1. ExistsBijection(S, T)
  BY FS_SameCardinalityBij DEF SameSize
<1>2. PICK f : f \in Bijection(S, T)
  BY <1>1 DEF ExistsBijection
<1>3. /\ f \in [S -> T]
      /\ \A x, z \in S : f[x] = f[z] => x = z
      /\ \A y \in T : \E x \in S : f[x] = y
  BY <1>2 DEF Bijection, Injection, Surjection, IsInjective
<1> DEFINE R == {e \in S \X T : e[2] = f[e[1]]}
<1>4. \A x \in S, y \in T : <<x, y>> \in R <=> f[x] = y
  OBVIOUS
<1>5. R \subseteq S \X T
  OBVIOUS
<1>6. Pairs(R, S, T)
  <2> HIDE DEF R
  <2> QED BY <1>3, <1>4, <1>5 DEF Pairs
<1> QED
  BY <1>6

\* Sets apart count together.
LEMMA SizesAdd ==
    ASSUME NEW S, NEW T, IsFiniteSet(S), IsFiniteSet(T), S \cap T = {}
    PROVE  /\ IsFiniteSet(S \cup T) /\ Cardinality(S) \in Nat /\ Cardinality(T) \in Nat
           /\ Cardinality(S \cup T) = Cardinality(S) + Cardinality(T)
  BY FS_Union, FS_EmptySet, FS_CardinalityType, SMTT(30)

\* The places of a line in a text, and in texts of some names.
PlacesOf(text, line) == {n \in DOMAIN text : text[n] = line}
PlacesIn(texts, line) ==
    {e \in (DOMAIN texts) \X Nat : e[2] \in DOMAIN texts[e[1]] /\ texts[e[1]][e[2]] = line}

\* The places in texts are pairs of a name and a place in the text of that name.
LEMMA PlacesArePairs ==
    ASSUME NEW texts, NEW line
    PROVE  /\ \A e \in PlacesIn(texts, line) :
                /\ e = <<e[1], e[2]>> /\ e[1] \in DOMAIN texts /\ e[2] \in Nat
                /\ e[2] \in DOMAIN texts[e[1]] /\ texts[e[1]][e[2]] = line
           /\ \A k \in DOMAIN texts, n \in Nat :
                <<k, n>> \in PlacesIn(texts, line) <=> n \in DOMAIN texts[k] /\ texts[k][n] = line
<1>1. \A e \in (DOMAIN texts) \X Nat : e = <<e[1], e[2]>> /\ e[1] \in DOMAIN texts /\ e[2] \in Nat
  OBVIOUS
<1>2. \A k \in DOMAIN texts, n \in Nat :
            <<k, n>> \in (DOMAIN texts) \X Nat /\ <<k, n>>[1] = k /\ <<k, n>>[2] = n
  OBVIOUS
<1>3. \A e : e \in PlacesIn(texts, line) <=>
            e \in (DOMAIN texts) \X Nat /\ e[2] \in DOMAIN texts[e[1]] /\ texts[e[1]][e[2]] = line
  BY Zenon DEF PlacesIn
<1>4. ASSUME NEW e \in PlacesIn(texts, line)
      PROVE  /\ e = <<e[1], e[2]>> /\ e[1] \in DOMAIN texts /\ e[2] \in Nat
             /\ e[2] \in DOMAIN texts[e[1]] /\ texts[e[1]][e[2]] = line
  BY <1>1, <1>3, Zenon
<1>5. ASSUME NEW k \in DOMAIN texts, NEW n \in Nat
      PROVE  <<k, n>> \in PlacesIn(texts, line) <=> n \in DOMAIN texts[k] /\ texts[k][n] = line
  <2> DEFINE e == <<k, n>>
  <2>1. e \in (DOMAIN texts) \X Nat /\ e[1] = k /\ e[2] = n
    BY <1>2
  <2> HIDE DEF e
  <2>2. e \in PlacesIn(texts, line) <=> n \in DOMAIN texts[k] /\ texts[k][n] = line
    BY <1>3, <2>1, Zenon
  <2> QED BY <2>2 DEF e
<1> QED
  BY <1>4, <1>5, Zenon

\* Places under names.
Named(K, p) == UNION {{<<k, n>> : n \in p[k]} : k \in K}

\* What the places under names are.
LEMMA NamedHas ==
    ASSUME NEW K, NEW p
    PROVE  /\ \A e \in Named(K, p) : \E k \in K : \E n \in p[k] : e = <<k, n>>
           /\ \A k, n : <<k, n>> \in Named(K, p) <=> k \in K /\ n \in p[k]
<1>1. \A e \in Named(K, p) : \E k \in K : \E n \in p[k] : e = <<k, n>>
  BY DEF Named
<1>2. \A k \in K : \A n \in p[k] : <<k, n>> \in Named(K, p)
  BY DEF Named
<1>3. ASSUME NEW k, NEW n, <<k, n>> \in Named(K, p) PROVE k \in K /\ n \in p[k]
  <2>1. PICK j \in K : \E i \in p[j] : <<k, n>> = <<j, i>>
    BY <1>1, <1>3
  <2>2. PICK i \in p[j] : <<k, n>> = <<j, i>>
    BY <2>1
  <2>3. k = j /\ n = i
    BY <2>2
  <2> QED BY <2>3
<1> QED
  BY <1>1, <1>2, <1>3

\* Sets of one size under each name are of one size under all of them.
LEMMA NamedSameSize ==
    ASSUME NEW K, NEW p, NEW q, \A k \in K : SameSize(p[k], q[k]), IsFiniteSet(Named(K, p))
    PROVE  SameSize(Named(K, p), Named(K, q))
<1> DEFINE S == Named(K, p)
           T == Named(K, q)
<1> DEFINE r == [k \in K |-> CHOOSE R : Pairs(R, p[k], q[k])]
<1>1. \A k \in K : Pairs(r[k], p[k], q[k])
  BY SameSizeHasPairs
<1> HIDE DEF r
<1> DEFINE R == {e \in S \X T : e[1][1] = e[2][1] /\ <<e[1][2], e[2][2]>> \in r[e[1][1]]}
<1>2. /\ \A x \in S : \E k \in K : \E n \in p[k] : x = <<k, n>>
      /\ \A y \in T : \E k \in K : \E n \in q[k] : y = <<k, n>>
      /\ \A k \in K : \A n \in p[k] : <<k, n>> \in S
      /\ \A k \in K : \A n \in q[k] : <<k, n>> \in T
  BY NamedHas
<1> HIDE DEF S, T
<1>3. \A x \in S, y \in T : <<x, y>> \in R <=> x[1] = y[1] /\ <<x[2], y[2]>> \in r[x[1]]
  OBVIOUS
<1>4. R \subseteq S \X T
  OBVIOUS
<1> HIDE DEF R
<1>5. \A k, l \in K : \A n \in p[k], m \in q[l] :
            <<<<k, n>>, <<l, m>>>> \in R <=> k = l /\ <<n, m>> \in r[k]
  <2> TAKE k, l \in K
  <2> TAKE n \in p[k], m \in q[l]
  <2> DEFINE x == <<k, n>>
             y == <<l, m>>
  <2>1. x \in S /\ y \in T
    BY <1>2, Zenon
  <2>2. x[1] = k /\ x[2] = n /\ y[1] = l /\ y[2] = m
    OBVIOUS
  <2> HIDE DEF x, y
  <2>3. <<x, y>> \in R <=> k = l /\ <<n, m>> \in r[k]
    BY <1>3, <2>1, <2>2, Zenon
  <2> QED BY <2>3 DEF x, y
<1>6. /\ \A k \in K : \A n \in p[k] : \E m \in q[k] : <<n, m>> \in r[k]
      /\ \A k \in K : \A m \in q[k] : \E n \in p[k] : <<n, m>> \in r[k]
      /\ \A k \in K : \A n, o \in p[k] : \A m \in q[k] : <<n, m>> \in r[k] /\ <<o, m>> \in r[k] => n = o
      /\ \A k \in K : \A n \in p[k] : \A m, o \in q[k] : <<n, m>> \in r[k] /\ <<n, o>> \in r[k] => m = o
  BY <1>1, Zenon DEF Pairs
<1>7. \A x \in S : \E y \in T : <<x, y>> \in R
  <2> TAKE x \in S
  <2>1. PICK k \in K : \E n \in p[k] : x = <<k, n>>
    BY <1>2
  <2>2. PICK n \in p[k] : x = <<k, n>>
    BY <2>1
  <2>3. PICK m \in q[k] : <<n, m>> \in r[k]
    BY <1>6, Zenon
  <2>4. <<k, m>> \in T /\ <<k, n>> \in S /\ <<<<k, n>>, <<k, m>>>> \in R
    BY <1>2, <1>5, <2>2, <2>3, Zenon
  <2> QED BY <2>2, <2>4
<1>8. \A y \in T : \E x \in S : <<x, y>> \in R
  <2> TAKE y \in T
  <2>1. PICK k \in K : \E n \in q[k] : y = <<k, n>>
    BY <1>2
  <2>2. PICK m \in q[k] : y = <<k, m>>
    BY <2>1
  <2>3. PICK n \in p[k] : <<n, m>> \in r[k]
    BY <1>6
  <2>4. <<k, m>> \in T /\ <<k, n>> \in S /\ <<<<k, n>>, <<k, m>>>> \in R
    BY <1>2, <1>5, <2>2, <2>3, Zenon
  <2> QED BY <2>2, <2>4
<1>9. ASSUME NEW x \in S, NEW z \in S, NEW y \in T, <<x, y>> \in R, <<z, y>> \in R PROVE x = z
  <2>1. PICK k \in K : \E n \in p[k] : x = <<k, n>>
    BY <1>2
  <2>2. PICK n \in p[k] : x = <<k, n>>
    BY <2>1
  <2>3. PICK l \in K : \E m \in q[l] : y = <<l, m>>
    BY <1>2
  <2>4. PICK m \in q[l] : y = <<l, m>>
    BY <2>3
  <2>5. PICK j \in K : \E o \in p[j] : z = <<j, o>>
    BY <1>2
  <2>6. PICK o \in p[j] : z = <<j, o>>
    BY <2>5
  <2>7. k = l /\ <<n, m>> \in r[k]
    BY <1>5, <1>9, <2>2, <2>4, Zenon
  <2>8. j = l /\ <<o, m>> \in r[j]
    BY <1>5, <1>9, <2>6, <2>4, Zenon
  <2>9. n = o
    BY <1>6, <2>7, <2>8, Zenon
  <2> QED BY <2>2, <2>6, <2>7, <2>8, <2>9
<1>10. ASSUME NEW x \in S, NEW y \in T, NEW z \in T, <<x, y>> \in R, <<x, z>> \in R PROVE y = z
  <2>1. PICK k \in K : \E n \in p[k] : x = <<k, n>>
    BY <1>2
  <2>2. PICK n \in p[k] : x = <<k, n>>
    BY <2>1
  <2>3. PICK l \in K : \E m \in q[l] : y = <<l, m>>
    BY <1>2
  <2>4. PICK m \in q[l] : y = <<l, m>>
    BY <2>3
  <2>5. PICK j \in K : \E o \in q[j] : z = <<j, o>>
    BY <1>2
  <2>6. PICK o \in q[j] : z = <<j, o>>
    BY <2>5
  <2>7. k = l /\ <<n, m>> \in r[k]
    BY <1>5, <1>10, <2>2, <2>4, Zenon
  <2>8. k = j /\ <<n, o>> \in r[k]
    BY <1>5, <1>10, <2>2, <2>6, Zenon
  <2>9. m = o
    BY <1>6, <2>7, <2>8, Zenon
  <2> QED BY <2>4, <2>6, <2>7, <2>8, <2>9
<1>11. Pairs(R, S, T)
  <2>1. \A x, z \in S : \A y \in T : <<x, y>> \in R /\ <<z, y>> \in R => x = z
    BY <1>9, Zenon
  <2>2. \A x \in S : \A y, z \in T : <<x, y>> \in R /\ <<x, z>> \in R => y = z
    BY <1>10, Zenon
  <2> QED BY <1>4, <1>7, <1>8, <2>1, <2>2, Zenon DEF Pairs
<1>12. IsFiniteSet(S)
  BY DEF S
<1> QED
  BY <1>11, <1>12, PairsAreSameSize DEF S, T

\* The elements of a sequence at some places are those, each place once.
IsPicked(w, a, S) ==
    /\ Len(w) \in Nat /\ DOMAIN w = 1..Len(w)
    /\ \E o : /\ \A n \in 1..Len(w) : o[n] \in S /\ w[n] = a[o[n]]
              /\ \A m, n \in 1..Len(w) : o[m] = o[n] => m = n
              /\ \A x \in S : \E n \in 1..Len(w) : o[n] = x

\* What At returns: the elements at the places, each place once.
LEMMA PickedPlaces ==
    ASSUME NEW X, NEW a \in Seq(X), NEW S \in SUBSET (1..Len(a))
    PROVE  IsPicked(Diff!At(a, S), a, S) /\ Diff!At(a, S) \in Seq(X)
<1>1. S \in SUBSET Int /\ IsFiniteSet(S)
  <2>1. Len(a) \in Nat
    OBVIOUS
  <2>2. IsFiniteSet(1..Len(a))
    BY <2>1, FS_Interval
  <2>3. S \in SUBSET Int
    BY <2>1
  <2>4. IsFiniteSet(S)
    BY <2>2, FS_Subset, Zenon
  <2> QED BY <2>3, <2>4
<1> DEFINE c == Cardinality(S)
           o == Ascending(S)
           w == [n \in 1..c |-> a[o[n]]]
<1>2. /\ c \in Nat /\ o \in [1..c -> S]
      /\ \A m, n \in 1..c : m < n => o[m] < o[n]
      /\ \A x \in S : \E n \in 1..c : o[n] = x
  BY <1>1, AscendingLists
<1>3. Diff!At(a, S) = w
  <2>1. Diff!Ascending(S) = Ascending(S)
    BY DEF Diff!Ascending, Ascending, Diff!Cardinality, Cardinality
  <2>2. DOMAIN o = 1..c
    BY <1>2
  <2> QED BY <2>1, <2>2, Zenon DEF Diff!At, Diff!Taken
<1> HIDE DEF o, c
<1>4. \A n \in 1..c : a[o[n]] \in X
  <2>1. \A n \in S : a[n] \in X
    OBVIOUS
  <2> QED BY <1>2, <2>1, Zenon
<1>5. w \in Seq(X) /\ Len(w) = c /\ DOMAIN w = 1..c
  BY <1>2, <1>4
<1>6. \A m, n \in 1..c : o[m] = o[n] => m = n
  <2> SUFFICES ASSUME NEW m \in 1..c, NEW n \in 1..c, o[m] = o[n], m # n PROVE FALSE
    OBVIOUS
  <2>1. o[m] \in Int /\ o[n] \in Int
    BY <1>1, <1>2, Zenon
  <2>2. m < n \/ n < m
    BY <1>2
  <2> QED BY <1>2, <2>1, <2>2
<1>7. \A n \in 1..c : o[n] \in S /\ w[n] = a[o[n]]
  BY <1>2
<1> HIDE DEF w
<1> QED
  BY <1>2, <1>3, <1>5, <1>6, <1>7, SMTT(30) DEF IsPicked

\* The lines at the places picked.
LEMMA PickKeepsLines ==
    ASSUME NEW X, NEW a \in Seq(X), NEW S \in SUBSET (1..Len(a)), NEW line
    PROVE  SameSize({n \in S : a[n] = line}, PlacesOf(Diff!At(a, S), line))
<1> DEFINE w == Diff!At(a, S)
<1>1. IsPicked(w, a, S)
  BY PickedPlaces
<1> HIDE DEF w
<1>2. PICK o : /\ \A n \in 1..Len(w) : o[n] \in S /\ w[n] = a[o[n]]
               /\ \A m, n \in 1..Len(w) : o[m] = o[n] => m = n
               /\ \A x \in S : \E n \in 1..Len(w) : o[n] = x
  BY <1>1, Zenon DEF IsPicked
<1>3. PlacesOf(w, line) = {n \in 1..Len(w) : w[n] = line}
  BY <1>1 DEF IsPicked, PlacesOf
<1> DEFINE P == {n \in S : a[n] = line}
           Q == {n \in 1..Len(w) : w[n] = line}
           R == {e \in P \X Q : o[e[2]] = e[1]}
<1>4. IsFiniteSet(P)
  <2>1. Len(a) \in Nat
    OBVIOUS
  <2>2. IsFiniteSet(1..Len(a))
    BY <2>1, FS_Interval
  <2>3. P \in SUBSET (1..Len(a))
    BY Zenon
  <2> QED BY <2>2, <2>3, FS_Subset
<1>5. Pairs(R, P, Q)
  <2>1. \A x \in P, y \in Q : <<x, y>> \in R <=> o[y] = x
    OBVIOUS
  <2>2. R \subseteq P \X Q
    OBVIOUS
  <2>3. \A x \in P : x \in S /\ a[x] = line
    OBVIOUS
  <2>4. \A n \in 1..Len(w) : n \in Q <=> w[n] = line
    OBVIOUS
  <2>5. \A y \in Q : y \in 1..Len(w) /\ o[y] \in P
    BY <1>2
  <2>7. \A x \in P : \A y, z \in Q : o[y] = x /\ o[z] = x => y = z
    BY <1>2, <2>5
  <2>6. \A x \in P : \E y \in Q : <<x, y>> \in R
    <3> TAKE x \in P
    <3>1. PICK n \in 1..Len(w) : o[n] = x
      BY <1>2, <2>3
    <3>2. n \in Q
      BY <1>2, <2>3, <2>4, <3>1
    <3> HIDE DEF R, P, Q
    <3> QED BY <2>1, <3>1, <3>2
  <2> HIDE DEF R, P, Q
  <2>8. \A y \in Q : \E x \in P : <<x, y>> \in R
    BY <2>1, <2>5
  <2> QED BY <2>1, <2>2, <2>6, <2>7, <2>8, Zenon DEF Pairs
<1> HIDE DEF P, Q, R
<1>6. SameSize(P, Q)
  BY <1>4, <1>5, PairsAreSameSize
<1> QED
  BY <1>3, <1>6 DEF P, Q, w

\* The lines of the texts picked.
LEMMA PickKeepsPlaces ==
    ASSUME NEW X, NEW a \in Seq(X), NEW S \in SUBSET (1..Len(a)), NEW line,
           IsFiniteSet(PlacesIn(a, line))
    PROVE  SameSize({e \in PlacesIn(a, line) : e[1] \in S}, PlacesIn(Diff!At(a, S), line))
<1> DEFINE w == Diff!At(a, S)
<1>1. IsPicked(w, a, S)
  BY PickedPlaces
<1> HIDE DEF w
<1>2. PICK o : /\ \A n \in 1..Len(w) : o[n] \in S /\ w[n] = a[o[n]]
               /\ \A m, n \in 1..Len(w) : o[m] = o[n] => m = n
               /\ \A x \in S : \E n \in 1..Len(w) : o[n] = x
  BY <1>1, Zenon DEF IsPicked
<1> DEFINE P == {e \in PlacesIn(a, line) : e[1] \in S}
           Q == PlacesIn(w, line)
           R == {e \in P \X Q : o[e[2][1]] = e[1][1] /\ e[2][2] = e[1][2]}
<1>3. IsFiniteSet(P)
  <2>1. P \in SUBSET PlacesIn(a, line)
    OBVIOUS
  <2> QED BY <2>1, FS_Subset
<1>4. DOMAIN a = 1..Len(a) /\ DOMAIN w = 1..Len(w)
  BY <1>1 DEF IsPicked
<1>5. \A x \in P : /\ x = <<x[1], x[2]>> /\ x[1] \in S /\ x[2] \in Nat
                   /\ x[2] \in DOMAIN a[x[1]] /\ a[x[1]][x[2]] = line
  <2>1. \A x \in P : x \in PlacesIn(a, line) /\ x[1] \in S
    OBVIOUS
  <2>2. \A e \in PlacesIn(a, line) :
                /\ e = <<e[1], e[2]>> /\ e[1] \in DOMAIN a /\ e[2] \in Nat
                /\ e[2] \in DOMAIN a[e[1]] /\ a[e[1]][e[2]] = line
    BY PlacesArePairs, Zenon
  <2> HIDE DEF P
  <2> QED BY <2>1, <2>2, Zenon
<1>6. \A i \in S, j \in Nat : j \in DOMAIN a[i] /\ a[i][j] = line => <<i, j>> \in P
  <2> SUFFICES ASSUME NEW i \in S, NEW j \in Nat, j \in DOMAIN a[i] /\ a[i][j] = line
               PROVE  <<i, j>> \in P
    OBVIOUS
  <2>1. i \in DOMAIN a
    BY <1>4
  <2>2. <<i, j>> \in PlacesIn(a, line)
    BY <2>1, PlacesArePairs, Zenon
  <2> QED BY <2>2
<1>7. \A y \in Q : /\ y = <<y[1], y[2]>> /\ y[1] \in 1..Len(w) /\ y[2] \in Nat
                   /\ y[2] \in DOMAIN w[y[1]] /\ w[y[1]][y[2]] = line
  <2>1. \A e \in Q :
                /\ e = <<e[1], e[2]>> /\ e[1] \in DOMAIN w /\ e[2] \in Nat
                /\ e[2] \in DOMAIN w[e[1]] /\ w[e[1]][e[2]] = line
    BY PlacesArePairs, Zenon
  <2> HIDE DEF Q
  <2> QED BY <1>4, <2>1, Zenon
<1>8. \A i \in 1..Len(w), j \in Nat : j \in DOMAIN w[i] /\ w[i][j] = line => <<i, j>> \in Q
  BY <1>4, PlacesArePairs, Zenon
<1>9. \A x \in P, y \in Q : <<x, y>> \in R <=> o[y[1]] = x[1] /\ y[2] = x[2]
  OBVIOUS
<1>10. R \subseteq P \X Q
  OBVIOUS
<1> HIDE DEF P, Q, R
<1>11. \A x \in P : \E y \in Q : <<x, y>> \in R
  <2> TAKE x \in P
  <2>1. PICK n \in 1..Len(w) : o[n] = x[1]
    BY <1>2, <1>5
  <2>2. w[n] = a[x[1]]
    BY <1>2, <2>1
  <2>3. <<n, x[2]>> \in Q
    BY <1>5, <1>8, <2>2
  <2> QED BY <1>9, <2>1, <2>3
<1>12. \A y \in Q : \E x \in P : <<x, y>> \in R
  <2> TAKE y \in Q
  <2>1. o[y[1]] \in S /\ w[y[1]] = a[o[y[1]]]
    BY <1>2, <1>7
  <2>2. <<o[y[1]], y[2]>> \in P
    BY <1>6, <1>7, <2>1
  <2> QED BY <1>9, <2>1, <2>2
<1>13. \A x, z \in P : \A y \in Q : <<x, y>> \in R /\ <<z, y>> \in R => x = z
  BY <1>5, <1>9
<1>14. \A x \in P : \A y, z \in Q : <<x, y>> \in R /\ <<x, z>> \in R => y = z
  BY <1>2, <1>7, <1>9, SMTT(30)
<1>15. Pairs(R, P, Q)
  BY <1>10, <1>11, <1>12, <1>13, <1>14, Zenon DEF Pairs
<1>16. SameSize(P, Q)
  BY <1>3, <1>15, PairsAreSameSize
<1> QED
  BY <1>16 DEF P, Q, w

-----------------------------------------------------------------------------
(* The blocks of a configuration keep its lines.                             *)

\* A text cut into the lines between separators, line by line.
IsTextCut(f, text) ==
    f[0] = <<<<>>>> /\ \A n \in 1..Len(text) : f[n] = Diff!Cut(f[n - 1], text[n])

\* What a line adds to: the last text, or a new one.
LEMMA CutLine ==
    ASSUME NEW L, NEW blocks \in Some(Seq(L)), NEW line \in L
    PROVE  /\ Len(blocks) \in Nat \ {0} /\ DOMAIN blocks = 1..Len(blocks)
           /\ \A k \in 1..Len(blocks) : blocks[k] \in Seq(L)
           /\ Diff!Cut(blocks, line) \in Some(Seq(L))
           /\ line = Diff!Separator =>
                /\ DOMAIN Diff!Cut(blocks, line) = 1..(Len(blocks) + 1)
                /\ \A k \in 1..Len(blocks) : Diff!Cut(blocks, line)[k] = blocks[k]
                /\ Diff!Cut(blocks, line)[Len(blocks) + 1] = <<>>
           /\ line # Diff!Separator =>
                /\ DOMAIN Diff!Cut(blocks, line) = 1..Len(blocks)
                /\ \A k \in 1..Len(blocks) : k # Len(blocks) => Diff!Cut(blocks, line)[k] = blocks[k]
                /\ Diff!Cut(blocks, line)[Len(blocks)] = Append(blocks[Len(blocks)], line)
<1> DEFINE c == Len(blocks)
           S == Seq(L)
<1>1. blocks \in Seq(S) /\ blocks # <<>>
  BY DEF Some
<1>2. c \in Nat \ {0} /\ DOMAIN blocks = 1..c /\ \A k \in 1..c : blocks[k] \in S
  <2> HIDE DEF S
  <2> QED BY <1>1, EmptySeq
<1>3. CASE line = Diff!Separator
  <2> DEFINE w == Append(blocks, <<>>)
  <2>1. Diff!Cut(blocks, line) = w
    BY <1>3, Zenon DEF Diff!Cut
  <2>2. <<>> \in S
    BY EmptySeq
  <2> HIDE DEF S
  <2>3. w \in Seq(S) /\ DOMAIN w = 1..(c + 1) /\ \A k \in 1..c : w[k] = blocks[k]
    BY <1>1, <1>2, <2>2
  <2>4. w[c + 1] = <<>>
    BY <1>1, <1>2, <2>2
  <2>5. w # <<>>
    BY <1>2, <2>3
  <2> HIDE DEF w
  <2> QED BY <1>2, <1>3, <2>1, <2>3, <2>4, <2>5, Zenon DEF Some, S
<1>4. CASE line # Diff!Separator
  <2> DEFINE e == Append(blocks[c], line)
             w == [blocks EXCEPT ![c] = e]
  <2>1. Diff!Cut(blocks, line) = w
    BY <1>4, Zenon DEF Diff!Cut
  <2>2. e \in S
    <3>1. blocks[c] \in S /\ c \in 1..c
      BY <1>2
    <3> QED BY <3>1
  <2> HIDE DEF S, e
  <2>3. c \in 1..c
    BY <1>2
  <2>4. w \in Seq(S) /\ Len(w) = c /\ \A k \in 1..c : w[k] = IF k = c THEN e ELSE blocks[k]
    BY <1>1, <2>2, <2>3, ExceptSeq
  <2>5. DOMAIN w = 1..c /\ w # <<>>
    BY <1>2, <2>3
  <2> HIDE DEF w
  <2>6. w[c] = e /\ \A k \in 1..c : k # c => w[k] = blocks[k]
    BY <2>3, <2>4
  <2> QED BY <1>2, <1>4, <2>1, <2>4, <2>5, <2>6, Zenon DEF Some, S, e
<1> QED
  BY <1>3, <1>4

\* A line has one place more when it is met, and no other gains or loses one.
LEMMA CutCounts ==
    ASSUME NEW L, NEW blocks \in Some(Seq(L)), NEW new \in L, NEW line, line # Diff!Separator,
           IsFiniteSet(PlacesIn(blocks, line))
    PROVE  /\ IsFiniteSet(PlacesIn(Diff!Cut(blocks, new), line))
           /\ Cardinality(PlacesIn(Diff!Cut(blocks, new), line)) =
                Cardinality(PlacesIn(blocks, line)) + IF new = line THEN 1 ELSE 0
<1> DEFINE c == Len(blocks)
           w == Diff!Cut(blocks, new)
           P == PlacesIn(blocks, line)
           Q == PlacesIn(w, line)
<1>1. /\ c \in Nat \ {0} /\ DOMAIN blocks = 1..c
      /\ \A k \in 1..c : blocks[k] \in Seq(L)
      /\ new = Diff!Separator =>
            DOMAIN w = 1..(c + 1) /\ (\A k \in 1..c : w[k] = blocks[k]) /\ w[c + 1] = <<>>
      /\ new # Diff!Separator =>
            /\ DOMAIN w = 1..c /\ (\A k \in 1..c : k # c => w[k] = blocks[k])
            /\ w[c] = Append(blocks[c], new)
  BY CutLine
<1>3. /\ \A e \in P : /\ e = <<e[1], e[2]>> /\ e[1] \in 1..c /\ e[2] \in Nat
                      /\ e[2] \in DOMAIN blocks[e[1]] /\ blocks[e[1]][e[2]] = line
      /\ \A k \in 1..c, n \in Nat : <<k, n>> \in P <=> n \in DOMAIN blocks[k] /\ blocks[k][n] = line
  <2>1. /\ \A e \in P : /\ e = <<e[1], e[2]>> /\ e[1] \in DOMAIN blocks /\ e[2] \in Nat
                        /\ e[2] \in DOMAIN blocks[e[1]] /\ blocks[e[1]][e[2]] = line
        /\ \A k \in DOMAIN blocks, n \in Nat :
                <<k, n>> \in P <=> n \in DOMAIN blocks[k] /\ blocks[k][n] = line
    BY PlacesArePairs, Zenon
  <2> HIDE DEF P, c
  <2> QED BY <1>1, <2>1, Zenon
<1>4. /\ \A e \in Q : /\ e = <<e[1], e[2]>> /\ e[1] \in DOMAIN w /\ e[2] \in Nat
                      /\ e[2] \in DOMAIN w[e[1]] /\ w[e[1]][e[2]] = line
      /\ \A k \in DOMAIN w, n \in Nat : <<k, n>> \in Q <=> n \in DOMAIN w[k] /\ w[k][n] = line
  BY PlacesArePairs, Zenon
<1>5. Cardinality(P) \in Nat
  BY FS_CardinalityType
<1> HIDE DEF w, P, Q, c
<1>6. CASE new = Diff!Separator
  <2>1. \A e \in P : e \in Q
    <3> TAKE e \in P
    <3>1. e[1] \in DOMAIN w /\ w[e[1]] = blocks[e[1]]
      BY <1>1, <1>3, <1>6
    <3> QED BY <1>3, <1>4, <3>1, Zenon
  <2>2. \A e \in Q : e \in P
    <3> TAKE e \in Q
    <3>1. e[1] # c + 1
      <4>1. DOMAIN <<>> = {}
        OBVIOUS
      <4> QED BY <1>1, <1>4, <1>6, <4>1
    <3>2. e[1] \in 1..c /\ w[e[1]] = blocks[e[1]]
      BY <1>1, <1>4, <1>6, <3>1
    <3> QED BY <1>3, <1>4, <3>2, Zenon
  <2>3. Q = P
    BY <2>1, <2>2, Zenon
  <2> QED BY <1>5, <1>6, <2>3 DEF P, Q, w
<1>7. CASE new # Diff!Separator
  <2> DEFINE d == Len(blocks[c])
             x == <<c, d + 1>>
  <2>1. c \in 1..c /\ blocks[c] \in Seq(L)
    BY <1>1
  <2>2. /\ d \in Nat /\ DOMAIN blocks[c] = 1..d /\ DOMAIN w[c] = 1..(d + 1)
        /\ \A n \in 1..d : w[c][n] = blocks[c][n]
        /\ w[c][d + 1] = new
    BY <1>1, <1>7, <2>1
  <2>3. x[1] = c /\ x[2] = d + 1
    OBVIOUS
  <2>4. x \notin P
    <3>1. d + 1 \notin 1..d
      BY <2>2
    <3> HIDE DEF x, d
    <3> QED BY <1>3, <2>2, <2>3, <3>1
  <2>5. \A e \in P : e \in Q
    <3> TAKE e \in P
    <3>1. CASE e[1] = c
      <4>1. e[2] \in 1..d /\ e[2] \in 1..(d + 1)
        BY <1>3, <2>2, <3>1
      <4>2. w[c][e[2]] = line
        BY <1>3, <2>2, <3>1, <4>1
      <4>3. <<c, e[2]>> \in Q
        BY <1>1, <1>3, <1>4, <1>7, <2>1, <2>2, <4>1, <4>2, Zenon
      <4> QED BY <1>3, <3>1, <4>3
    <3>2. CASE e[1] # c
      <4>1. e[1] \in DOMAIN w /\ w[e[1]] = blocks[e[1]]
        BY <1>1, <1>3, <1>7, <3>2
      <4> QED BY <1>3, <1>4, <4>1, Zenon
    <3> QED BY <3>1, <3>2
  <2>6. \A e \in Q : e \in P \/ (e = x /\ new = line)
    <3> TAKE e \in Q
    <3>1. CASE e[1] = c
      <4>1. e[2] \in 1..(d + 1) /\ w[c][e[2]] = line
        BY <1>4, <2>2, <3>1
      <4>2. CASE e[2] = d + 1
        BY <1>4, <2>2, <3>1, <4>1, <4>2
      <4>3. CASE e[2] # d + 1
        <5>1. e[2] \in 1..d
          BY <2>2, <4>1, <4>3
        <5>2. blocks[c][e[2]] = line
          BY <2>2, <4>1, <5>1
        <5>3. <<c, e[2]>> \in P
          BY <1>3, <1>4, <2>1, <2>2, <5>1, <5>2, Zenon
        <5> QED BY <1>4, <3>1, <5>3
      <4> QED BY <4>2, <4>3
    <3>2. CASE e[1] # c
      <4>1. e[1] \in 1..c /\ w[e[1]] = blocks[e[1]]
        BY <1>1, <1>4, <1>7, <3>2
      <4> QED BY <1>3, <1>4, <4>1, Zenon
    <3> QED BY <3>1, <3>2
  <2>7. new = line => x \in Q
    <3> SUFFICES ASSUME new = line PROVE x \in Q
      OBVIOUS
    <3>1. c \in DOMAIN w /\ d + 1 \in Nat /\ d + 1 \in DOMAIN w[c] /\ w[c][d + 1] = line
      BY <1>1, <1>7, <2>1, <2>2
    <3> QED BY <1>4, <3>1, Zenon
  <2> HIDE DEF x
  <2>8. CASE new = line
    <3>1. Q = P \cup {x}
      BY <2>5, <2>6, <2>7, <2>8
    <3>2. IsFiniteSet(P)
      BY DEF P
    <3>3. IsFiniteSet(Q) /\ Cardinality(Q) = Cardinality(P) + 1
      BY <2>4, <3>1, <3>2, FS_AddElement
    <3> QED BY <2>8, <3>3 DEF P, Q, w
  <2>9. CASE new # line
    <3>1. Q = P
      BY <2>5, <2>6, <2>9, Zenon
    <3> QED BY <1>5, <2>9, <3>1 DEF P, Q, w
  <2> QED BY <2>8, <2>9
<1> QED
  BY <1>6, <1>7

\* The texts that have a line.
Filled(blocks) == {n \in DOMAIN blocks : blocks[n] # <<>>}

\* The fold of a configuration into blocks, line by line.
LEMMA TextCutSteps ==
    ASSUME NEW L, NEW text \in Seq(L)
    PROVE  \E f : /\ IsTextCut(f, text)
                  /\ \A n \in 0..Len(text) : f[n] \in Some(Seq(L))
                  /\ Diff!RawBlocks(text) = Diff!At(f[Len(text)], Filled(f[Len(text)]))
<1>1. PICK N \in Nat : N = Len(text)
  OBVIOUS
<1> DEFINE V == Some(Seq(L))
           start == <<<<>>>>
           step == [p \in V \X (1..N) |-> Diff!Cut(p[1], text[p[2]])]
           Def(h) == [s \in SUBSET (1..N) |->
                        IF s = {} THEN start ELSE Diff!Cut(h[s \ {Max(s)}], text[Max(s)])]
           iter == CHOOSE h : h = Def(h)
<1>2. DOMAIN text = 1..N /\ \A n \in 1..N : text[n] \in L
  BY <1>1
<1>3. start \in V
  <2>1. <<>> \in Seq(L)
    BY EmptySeq
  <2> DEFINE S == Seq(L)
  <2> HIDE DEF S
  <2>2. \A x \in S : <<x>> \in Seq(S) /\ <<x>> # <<>>
    OBVIOUS
  <2>3. start \in Seq(S) /\ start # <<>>
    BY <2>1, <2>2 DEF S
  <2> QED BY <2>3, Zenon DEF Some, S
<1>4. step \in [V \X (1..N) -> V]
  <2>1. ASSUME NEW v \in V, NEW n \in 1..N PROVE Diff!Cut(v, text[n]) \in V
    BY <1>2, CutLine, Zenon
  <2> HIDE DEF V
  <2> QED BY <2>1
<1> HIDE DEF V
<1>5. \A v \in V, n \in 1..N : step[<<v, n>>] = Diff!Cut(v, text[n])
  OBVIOUS
<1> HIDE DEF start
<1>6. PICK h \in [SUBSET (1..N) -> V] : IsFold(h, N, start, step)
  <2> HIDE DEF step
  <2> QED BY <1>3, <1>4, FoldExists, Zenon
<1>7. \A s \in SUBSET (1..N) : s # {} => Max(s) \in 1..N /\ h[s \ {Max(s)}] \in V
  <2>1. ASSUME NEW s \in SUBSET (1..N), s # {} PROVE Max(s) \in s
    BY <2>1, MaxOfSome, Zenon
  <2> QED BY <2>1, Zenon
<1>8. h = Def(h)
  <2>1. \A s \in SUBSET (1..N) :
            h[s] = IF s = {} THEN start ELSE Diff!Cut(h[s \ {Max(s)}], text[Max(s)])
    <3> HIDE DEF step
    <3> QED BY <1>5, <1>6, <1>7, Zenon DEF IsFold
  <2> QED BY <2>1, Zenon
<1>9. iter = Def(iter)
  <2> HIDE DEF Def
  <2> QED BY <1>8
<1>10. Diff!RawBlocks(text) = Diff!At(iter[1..N], Filled(iter[1..N]))
  BY <1>2 DEF start, Diff!RawBlocks, Diff!Keep, Diff!FoldLeft, Diff!MapThenFoldSet, Diff!Max, Max, Filled
<1> HIDE DEF iter
<1> DEFINE f == [n \in 0..N |-> iter[1..n]]
<1>11. f[0] = start
  <2>1. 1..0 = {} /\ {} \in SUBSET (1..N)
    OBVIOUS
  <2> QED BY <1>9, <2>1
<1>12. ASSUME NEW n \in 1..N PROVE f[n] = Diff!Cut(f[n - 1], text[n])
  <2>1. n \in Nat \ {0} /\ 1..n \in SUBSET (1..N) /\ n - 1 \in 0..N /\ n \in 0..N
    OBVIOUS
  <2>2. 1..n # {} /\ Max(1..n) = n /\ (1..n) \ {n} = 1..(n - 1)
    BY <2>1, MaxOfPrefix, Zenon
  <2> QED BY <1>9, <2>1, <2>2, Zenon
<1>13. Diff!RawBlocks(text) = Diff!At(f[N], Filled(f[N]))
  BY <1>10
<1> HIDE DEF f
<1>14. \A n \in 0..N : f[n] \in V
  <2> DEFINE T == {n \in Nat : n <= N => f[n] \in V}
  <2>1. 0 \in T
    BY <1>3, <1>11
  <2>2. ASSUME NEW n \in Nat, n \in T PROVE n + 1 \in T
    <3> SUFFICES ASSUME n + 1 <= N PROVE f[n + 1] \in V
      OBVIOUS
    <3>1. f[n] \in V /\ n + 1 \in 1..N /\ (n + 1) - 1 = n
      BY <2>2
    <3>2. f[n + 1] = Diff!Cut(f[n], text[n + 1])
      BY <1>12, <3>1
    <3>3. text[n + 1] \in L
      BY <1>2, <3>1
    <3>4. Diff!Cut(f[n], text[n + 1]) \in V
      BY <3>1, <3>3, CutLine, Zenon DEF V
    <3> QED BY <3>2, <3>4
  <2>3. \A n \in Nat : n \in T
    <3> HIDE DEF T
    <3> QED BY <2>1, <2>2, NatSetInduction
  <2> QED BY <2>3
<1> QED
  BY <1>1, <1>11, <1>12, <1>13, <1>14, Zenon DEF IsTextCut, start, V

\* Every line that is no separator is in one of the blocks, as often as in the text.
LEMMA BlocksHaveLines ==
    ASSUME NEW L, NEW text \in Seq(L), NEW line, line # Diff!Separator
    PROVE  \E blocks \in Some(Seq(L)) :
              /\ Diff!RawBlocks(text) = Diff!At(blocks, Filled(blocks))
              /\ SameSize(PlacesIn(blocks, line), PlacesOf(text, line))
<1>1. PICK N \in Nat : N = Len(text) /\ DOMAIN text = 1..N /\ \A n \in 1..N : text[n] \in L
  OBVIOUS
<1>2. PICK f : /\ IsTextCut(f, text)
               /\ \A n \in 0..N : f[n] \in Some(Seq(L))
               /\ Diff!RawBlocks(text) = Diff!At(f[N], Filled(f[N]))
  BY <1>1, TextCutSteps
<1>3. f[0] = <<<<>>>> /\ \A n \in 1..N : f[n] = Diff!Cut(f[n - 1], text[n])
  BY <1>1, <1>2 DEF IsTextCut
<1> DEFINE Seen(n) == {m \in 1..n : text[m] = line}
           T == {n \in Nat : n <= N => SameSize(PlacesIn(f[n], line), Seen(n))}
<1>4. 0 \in T
  <2>1. PlacesIn(f[0], line) = {}
    <3>1. DOMAIN f[0] = {1} /\ f[0][1] = <<>>
      BY <1>3
    <3>2. DOMAIN <<>> = {}
      OBVIOUS
    <3>3. \A e \in PlacesIn(f[0], line) : e[1] \in DOMAIN f[0] /\ e[2] \in DOMAIN f[0][e[1]]
      BY PlacesArePairs, Zenon
    <3> QED BY <3>1, <3>2, <3>3
  <2>2. Seen(0) = {}
    OBVIOUS
  <2>3. SameSize(PlacesIn(f[0], line), Seen(0))
    BY <2>1, <2>2, FS_EmptySet DEF SameSize
  <2> QED BY <2>3
<1>5. ASSUME NEW n \in Nat, n \in T PROVE n + 1 \in T
  <2> SUFFICES ASSUME n + 1 <= N PROVE SameSize(PlacesIn(f[n + 1], line), Seen(n + 1))
    OBVIOUS
  <2>1. n \in 0..N /\ n + 1 \in 1..N /\ (n + 1) - 1 = n
    OBVIOUS
  <2>2. SameSize(PlacesIn(f[n], line), Seen(n))
    BY <1>5
  <2>3. f[n + 1] = Diff!Cut(f[n], text[n + 1]) /\ f[n] \in Some(Seq(L)) /\ text[n + 1] \in L
    BY <1>1, <1>2, <1>3, <2>1
  <2>4. IsFiniteSet(PlacesIn(f[n], line)) /\ IsFiniteSet(Seen(n))
        /\ Cardinality(PlacesIn(f[n], line)) = Cardinality(Seen(n))
    BY <2>2 DEF SameSize
  <2>5. /\ IsFiniteSet(PlacesIn(f[n + 1], line))
        /\ Cardinality(PlacesIn(f[n + 1], line)) =
                Cardinality(PlacesIn(f[n], line)) + IF text[n + 1] = line THEN 1 ELSE 0
    <3>1. /\ IsFiniteSet(PlacesIn(Diff!Cut(f[n], text[n + 1]), line))
          /\ Cardinality(PlacesIn(Diff!Cut(f[n], text[n + 1]), line)) =
                Cardinality(PlacesIn(f[n], line)) + IF text[n + 1] = line THEN 1 ELSE 0
      BY <2>3, <2>4, CutCounts
    <3> QED BY <2>3, <3>1
  <2>6. Cardinality(Seen(n)) \in Nat
    BY <2>4, FS_CardinalityType
  <2>7. n + 1 \notin Seen(n)
    OBVIOUS
  <2>8. CASE text[n + 1] = line
    <3>1. Seen(n + 1) = Seen(n) \cup {n + 1}
      BY <2>8
    <3> HIDE DEF Seen
    <3>2. IsFiniteSet(Seen(n + 1)) /\ Cardinality(Seen(n + 1)) = Cardinality(Seen(n)) + 1
      BY <2>4, <2>7, <3>1, FS_AddElement
    <3> QED BY <2>4, <2>5, <2>8, <3>2 DEF SameSize
  <2>9. CASE text[n + 1] # line
    <3>1. Seen(n + 1) = Seen(n)
      BY <2>9
    <3> HIDE DEF Seen
    <3> QED BY <2>4, <2>5, <2>6, <2>9, <3>1 DEF SameSize
  <2> QED BY <2>8, <2>9
<1>6. SameSize(PlacesIn(f[N], line), Seen(N))
  <2>1. \A n \in Nat : n \in T
    <3> HIDE DEF T
    <3> QED BY <1>4, <1>5, NatSetInduction
  <2>2. N \in T /\ N <= N
    <3>1. N \in Nat
      BY <1>1
    <3>2. N \in T
      BY <2>1, <3>1, Zenon
    <3> QED BY <3>1, <3>2
  <2> HIDE DEF Seen
  <2> QED BY <2>2
<1>7. Seen(N) = PlacesOf(text, line)
  BY <1>1 DEF PlacesOf
<1>8. f[N] \in Some(Seq(L))
  BY <1>2
<1> QED
  BY <1>2, <1>6, <1>7, <1>8, Zenon

\* The blocks between separators have a line, and those of the text.
LEMMA RawBlocksHaveLines ==
    ASSUME NEW L, NEW text \in Seq(L), NEW line, line # Diff!Separator
    PROVE  /\ Diff!RawBlocks(text) \in Seq(Some(L))
           /\ SameSize(PlacesIn(Diff!RawBlocks(text), line), PlacesOf(text, line))
<1>1. PICK blocks \in Some(Seq(L)) :
              /\ Diff!RawBlocks(text) = Diff!At(blocks, Filled(blocks))
              /\ SameSize(PlacesIn(blocks, line), PlacesOf(text, line))
  BY BlocksHaveLines
<1> DEFINE raw == Diff!RawBlocks(text)
           S == Filled(blocks)
           B == Seq(L)
<1>2. blocks \in Seq(B)
  BY DEF Some
<1>3. DOMAIN blocks = 1..Len(blocks) /\ \A n \in 1..Len(blocks) : blocks[n] \in B
  <2> HIDE DEF B
  <2> QED BY <1>2
<1>4. S \in SUBSET (1..Len(blocks)) /\ \A n \in S : blocks[n] # <<>> /\ blocks[n] \in B
  BY <1>3 DEF Filled
<1> HIDE DEF S, B
<1>5. IsPicked(raw, blocks, S) /\ raw \in Seq(B)
  BY <1>1, <1>2, <1>4, PickedPlaces, Zenon DEF S
<1>6. IsFiniteSet(PlacesIn(blocks, line))
  BY <1>1 DEF SameSize
<1>7. SameSize({e \in PlacesIn(blocks, line) : e[1] \in S}, PlacesIn(raw, line))
  BY <1>1, <1>2, <1>4, <1>6, PickKeepsPlaces, Zenon DEF S
<1>8. {e \in PlacesIn(blocks, line) : e[1] \in S} = PlacesIn(blocks, line)
  <2>1. \A e \in PlacesIn(blocks, line) : e[1] \in DOMAIN blocks /\ e[2] \in DOMAIN blocks[e[1]]
    BY PlacesArePairs, Zenon
  <2>2. DOMAIN <<>> = {}
    OBVIOUS
  <2>3. \A e \in PlacesIn(blocks, line) : e[1] \in S
    BY <2>1, <2>2, Zenon DEF S, Filled
  <2> QED BY <2>3
<1>9. SameSize(PlacesIn(raw, line), PlacesOf(text, line))
  BY <1>1, <1>7, <1>8, Zenon DEF SameSize
<1>10. raw \in Seq(Some(L))
  <2>1. Len(raw) \in Nat /\ DOMAIN raw = 1..Len(raw)
    BY <1>5 DEF IsPicked
  <2>2. \A n \in 1..Len(raw) : raw[n] \in Some(L)
    <3> TAKE n \in 1..Len(raw)
    <3>1. PICK m \in S : raw[n] = blocks[m]
      BY <1>5 DEF IsPicked
    <3> QED BY <1>4, <3>1, Zenon DEF Some, B
  <2>3. raw = [n \in 1..Len(raw) |-> raw[n]]
    <3> HIDE DEF raw
    <3> QED BY <1>5, <2>1
  <2>4. raw \in [1..Len(raw) -> Some(L)]
    <3> HIDE DEF raw
    <3> DEFINE X == Some(L)
    <3>1. \A n \in 1..Len(raw) : raw[n] \in X
      BY <2>2
    <3> HIDE DEF X
    <3>2. raw \in [1..Len(raw) -> X]
      BY <2>3, <3>1
    <3> QED BY <3>2 DEF X
  <2> HIDE DEF raw
  <2> QED BY <2>1, <2>4, ListIsSequence, Zenon
<1> QED
  BY <1>9, <1>10

\* To put texts together keeps their lines.
LEMMA FlattenKeepsLines ==
    ASSUME NEW L, NEW seqs \in Seq(Seq(L)), NEW line, IsFiniteSet(PlacesIn(seqs, line))
    PROVE  SameSize(PlacesIn(seqs, line), PlacesOf(FlattenSeq(seqs), line))
<1>1. PICK N \in Nat : N = Len(seqs) /\ DOMAIN seqs = 1..N
  OBVIOUS
<1>2. \A n \in 1..N : Len(seqs[n]) \in Nat /\ DOMAIN seqs[n] = 1..Len(seqs[n])
  BY <1>1
<1> DEFINE flat == FlattenSeq(seqs)
<1>3. PICK k : IsPlacing(k, seqs, flat, N)
  BY <1>1, FlattenPlaces
<1>4. Len(flat) \in Nat /\ DOMAIN flat = 1..Len(flat)
  <2>1. flat \in Seq(L)
    BY FlattenPlaces
  <2> HIDE DEF flat
  <2> QED BY <2>1
<1> HIDE DEF flat
<1>5. /\ \A n \in 1..N : k[n] \in Nat /\ k[n - 1] \in Nat /\ k[n] <= Len(flat)
      /\ \A n \in 1..N : k[n] = k[n - 1] + Len(seqs[n])
      /\ \A n \in 1..N : \A j \in 1..Len(seqs[n]) : flat[k[n - 1] + j] = seqs[n][j]
      /\ \A b \in 1..Len(flat) : \E n \in 1..N : \E j \in 1..Len(seqs[n]) : b = k[n - 1] + j
      /\ \A m, n \in 1..N : m < n => k[m] <= k[n - 1]
  BY <1>3, Zenon DEF IsPlacing
<1> DEFINE P == PlacesIn(seqs, line)
           Q == PlacesOf(flat, line)
           R == {e \in P \X Q : e[2] = k[e[1][1] - 1] + e[1][2]}
<1>6. /\ \A e \in P : /\ e = <<e[1], e[2]>> /\ e[1] \in 1..N /\ e[2] \in 1..Len(seqs[e[1]])
                      /\ seqs[e[1]][e[2]] = line
      /\ \A n \in 1..N, j \in Nat : <<n, j>> \in P <=> j \in 1..Len(seqs[n]) /\ seqs[n][j] = line
  <2>1. /\ \A e \in P : /\ e = <<e[1], e[2]>> /\ e[1] \in DOMAIN seqs /\ e[2] \in Nat
                        /\ e[2] \in DOMAIN seqs[e[1]] /\ seqs[e[1]][e[2]] = line
        /\ \A n \in DOMAIN seqs, j \in Nat :
                <<n, j>> \in P <=> j \in DOMAIN seqs[n] /\ seqs[n][j] = line
    BY PlacesArePairs, Zenon
  <2> HIDE DEF P
  <2> QED BY <1>1, <1>2, <2>1
<1>7. \A b : b \in Q <=> b \in 1..Len(flat) /\ flat[b] = line
  BY <1>4 DEF PlacesOf
<1>8. \A x \in P, y \in Q : <<x, y>> \in R <=> y = k[x[1] - 1] + x[2]
  OBVIOUS
<1>9. R \subseteq P \X Q
  OBVIOUS
<1> HIDE DEF P, Q, R
<1>10. \A n \in 1..N, j \in Nat : j \in 1..Len(seqs[n]) => k[n - 1] + j \in 1..Len(flat)
  <2> TAKE n \in 1..N, j \in Nat
  <2> HAVE j \in 1..Len(seqs[n])
  <2>1. k[n] \in Nat /\ k[n - 1] \in Nat /\ k[n] <= Len(flat) /\ k[n] = k[n - 1] + Len(seqs[n])
    BY <1>5, Zenon
  <2>2. Len(seqs[n]) \in Nat
    BY <1>2
  <2> QED BY <1>4, <2>1, <2>2
<1>11. \A x \in P : \E y \in Q : <<x, y>> \in R
  <2> TAKE x \in P
  <2>1. x[1] \in 1..N /\ x[2] \in Nat /\ x[2] \in 1..Len(seqs[x[1]])
    BY <1>6
  <2>2. k[x[1] - 1] + x[2] \in Q
    BY <1>5, <1>6, <1>7, <1>10, <2>1, ZenonT(60)
  <2> QED BY <1>8, <2>2
<1>12. \A y \in Q : \E x \in P : <<x, y>> \in R
  <2> TAKE y \in Q
  <2>1. PICK n \in 1..N : \E j \in 1..Len(seqs[n]) : y = k[n - 1] + j
    BY <1>5, <1>7, Zenon
  <2>2. PICK j \in 1..Len(seqs[n]) : y = k[n - 1] + j
    BY <2>1
  <2>3. j \in Nat /\ seqs[n][j] = line
    <3>1. flat[k[n - 1] + j] = seqs[n][j]
      BY <1>5, <2>1, <2>2, Zenon
    <3>2. flat[y] = line
      BY <1>7, Zenon
    <3>3. Len(seqs[n]) \in Nat
      BY <1>2, <2>1
    <3> QED BY <2>2, <3>1, <3>2, <3>3
  <2>4. <<n, j>> \in P /\ <<n, j>>[1] = n /\ <<n, j>>[2] = j
    BY <1>6, <2>3
  <2> QED BY <1>8, <2>2, <2>4
<1>13. ASSUME NEW x \in P, NEW z \in P, k[x[1] - 1] + x[2] = k[z[1] - 1] + z[2] PROVE x = z
  <2>1. /\ x[1] \in 1..N /\ x[2] \in 1..Len(seqs[x[1]])
        /\ z[1] \in 1..N /\ z[2] \in 1..Len(seqs[z[1]])
    BY <1>6
  <2>2. /\ k[x[1]] \in Nat /\ k[x[1] - 1] \in Nat /\ k[x[1]] = k[x[1] - 1] + Len(seqs[x[1]])
        /\ k[z[1]] \in Nat /\ k[z[1] - 1] \in Nat /\ k[z[1]] = k[z[1] - 1] + Len(seqs[z[1]])
        /\ x[1] < z[1] => k[x[1]] <= k[z[1] - 1]
        /\ z[1] < x[1] => k[z[1]] <= k[x[1] - 1]
    BY <1>5, <2>1, Zenon
  <2>3. Len(seqs[x[1]]) \in Nat /\ Len(seqs[z[1]]) \in Nat
    BY <1>2, <2>1, Zenon
  <2>4. ~(x[1] < z[1]) /\ ~(z[1] < x[1])
    <3>1. ASSUME NEW p \in Nat, NEW q \in Nat, NEW r \in Nat, NEW s \in Nat, NEW l \in Nat,
                 NEW i \in 1..l, NEW j \in Nat, r = p + l, j > 0, r <= q, p + i = q + j
          PROVE  FALSE
      BY <3>1
    <3>2. x[2] \in Nat /\ x[2] > 0 /\ z[2] \in Nat /\ z[2] > 0
      BY <2>1, <2>3, SMTT(30)
    <3>3. ~(x[1] < z[1])
      <4> SUFFICES ASSUME x[1] < z[1] PROVE FALSE
        OBVIOUS
      <4>1. k[x[1]] <= k[z[1] - 1]
        BY <2>2
      <4> QED BY <1>13, <2>1, <2>2, <2>3, <3>1, <3>2, <4>1, Zenon
    <3>4. ~(z[1] < x[1])
      <4> SUFFICES ASSUME z[1] < x[1] PROVE FALSE
        OBVIOUS
      <4>1. k[z[1]] <= k[x[1] - 1]
        BY <2>2
      <4> QED BY <1>13, <2>1, <2>2, <2>3, <3>1, <3>2, <4>1, Zenon
    <3> QED BY <3>3, <3>4
  <2>5. x[1] = z[1]
    BY <2>1, <2>4
  <2>6. x[2] = z[2]
    BY <1>13, <2>1, <2>2, <2>5, SMTT(30)
  <2> QED BY <1>6, <2>5, <2>6
<1>14. \A x, z \in P : \A y \in Q : <<x, y>> \in R /\ <<z, y>> \in R => x = z
  BY <1>8, <1>13
<1>15. \A x \in P : \A y, z \in Q : <<x, y>> \in R /\ <<x, z>> \in R => y = z
  BY <1>8
<1>16. Pairs(R, P, Q)
  BY <1>9, <1>11, <1>12, <1>14, <1>15, Zenon DEF Pairs
<1>17. SameSize(P, Q)
  BY <1>16, PairsAreSameSize DEF P
<1> QED
  BY <1>17 DEF P, Q, flat

\* The number a head has among the heads like it.
LEMMA KeyOfIs ==
    ASSUME NEW heads, NEW n
    PROVE  Diff!KeyOf(heads, n) =
                <<heads[n][1], Cardinality({m \in 1..n : heads[m][1] = heads[n][1]})>>
  BY DEF Diff!KeyOf, Diff!Cardinality, Cardinality

\* No two blocks have one name.
LEMMA NamesDiffer ==
    ASSUME NEW heads, NEW m \in Nat \ {0}, NEW n \in Nat \ {0}, Diff!KeyOf(heads, m) = Diff!KeyOf(heads, n)
    PROVE  m = n
<1> DEFINE Like(j) == {i \in 1..j : heads[i][1] = heads[j][1]}
<1>1. heads[m][1] = heads[n][1] /\ Cardinality(Like(m)) = Cardinality(Like(n))
  BY KeyOfIs
<1>2. ASSUME NEW i \in Nat, NEW j \in Nat, i < j, heads[i][1] = heads[j][1], i > 0
      PROVE  Cardinality(Like(i)) # Cardinality(Like(j))
  <2>1. IsFiniteSet(1..j)
    BY FS_Interval
  <2>2. Like(j) \in SUBSET (1..j)
    OBVIOUS
  <2>3. IsFiniteSet(Like(j))
    BY <2>1, <2>2, FS_Subset, Zenon
  <2>4. Like(i) \in SUBSET Like(j)
    BY <1>2
  <2>5. j \in Like(j) /\ j \notin Like(i)
    BY <1>2
  <2> HIDE DEF Like
  <2> QED BY <2>3, <2>4, <2>5, FS_Subset
<1> HIDE DEF Like
<1>3. ~(m < n)
  BY <1>1, <1>2
<1>4. ~(n < m)
  BY <1>1, <1>2
<1> QED
  BY <1>3, <1>4

\* The blocks by their names: every hierarchical block has its own, and the lines that
\* belong to none have theirs.
LEMMA NamesAreOwn ==
    ASSUME NEW heads, NEW others, NEW c \in Nat, Len(heads) = c, DOMAIN heads = 1..c,
           \A n \in 1..c : heads[n][1].form = "head"
    PROVE  /\ \A n \in 1..c : /\ Diff!KeyOf(heads, n) \in DOMAIN Diff!ByName(heads, others)
                              /\ Diff!ByName(heads, others)[Diff!KeyOf(heads, n)] = heads[n]
                              /\ Diff!KeyOf(heads, n) # Diff!GlobalKey
           /\ \A k \in DOMAIN Diff!ByName(heads, others) :
                    k = Diff!GlobalKey \/ \E n \in 1..c : k = Diff!KeyOf(heads, n)
           /\ Diff!GlobalKey \in DOMAIN Diff!ByName(heads, others) =>
                    Diff!ByName(heads, others)[Diff!GlobalKey] = others
           /\ others # <<>> => Diff!GlobalKey \in DOMAIN Diff!ByName(heads, others)
<1> DEFINE tree == Diff!ByName(heads, others)
           g == Diff!GlobalKey
           key(n) == Diff!KeyOf(heads, n)
           Newest(k) == CHOOSE n \in DOMAIN heads : key(n) = k
                            /\ \A m \in (n + 1)..Len(heads) : key(m) # k
           names == {key(n) : n \in DOMAIN heads} \cup (IF others = <<>> THEN {} ELSE {g})
<1>1. tree = [k \in names |-> IF k = g THEN others ELSE heads[Newest(k)]]
  BY DEF Diff!ByName
<1>2. \A n \in 1..c : key(n) # g
  <2> TAKE n \in 1..c
  <2>1. key(n)[1] = heads[n][1]
    BY KeyOfIs, Zenon
  <2>2. g[1].form = "global"
    BY Zenon DEF Diff!GlobalKey
  <2> HIDE DEF key, g
  <2> QED BY <2>1, <2>2
<1> HIDE DEF g
<1>3. \A m, n \in 1..c : key(m) = key(n) => m = n
  <2> TAKE m, n \in 1..c
  <2>1. m \in Nat \ {0} /\ n \in Nat \ {0}
    OBVIOUS
  <2> QED BY <2>1, NamesDiffer
<1> HIDE DEF key
<1>4. \A n \in 1..c : Newest(key(n)) = n
  <2> TAKE n \in 1..c
  <2>1. \A m \in (n + 1)..Len(heads) : key(m) # key(n)
    <3> TAKE m \in (n + 1)..Len(heads)
    <3>1. m \in 1..c /\ m # n
      OBVIOUS
    <3> QED BY <1>3, <3>1
  <2>2. \A m \in DOMAIN heads : key(m) = key(n) => m = n
    BY <1>3
  <2> QED BY <2>1, <2>2
<1>5. names = {key(n) : n \in 1..c} \cup (IF others = <<>> THEN {} ELSE {g})
  OBVIOUS
<1> HIDE DEF names, Newest, tree
<1>6. DOMAIN tree = names /\ \A k \in names : tree[k] = IF k = g THEN others ELSE heads[Newest(k)]
  BY <1>1
<1>7. \A n \in 1..c : key(n) \in names /\ tree[key(n)] = heads[n]
  BY <1>2, <1>4, <1>5, <1>6
<1>8. \A k \in names : k = g \/ \E n \in 1..c : k = key(n)
  BY <1>5
<1>9. others # <<>> => g \in names
  BY <1>5
<1> QED
  BY <1>2, <1>6, <1>7, <1>8, <1>9 DEF tree, g, key

\* The blocks by their names have the lines they had in a row.
LEMMA NamedBlocksKeepLines ==
    ASSUME NEW heads, NEW others, NEW c \in Nat, Len(heads) = c, DOMAIN heads = 1..c,
           \A n \in 1..c : heads[n][1].form = "head",
           NEW line, IsFiniteSet(PlacesIn(heads, line)), NEW L, others \in Seq(L)
    PROVE  /\ IsFiniteSet(PlacesIn(Diff!ByName(heads, others), line))
           /\ Cardinality(PlacesIn(Diff!ByName(heads, others), line)) =
                Cardinality(PlacesIn(heads, line)) + Cardinality(PlacesOf(others, line))
<1> DEFINE tree == Diff!ByName(heads, others)
           g == Diff!GlobalKey
           key(n) == Diff!KeyOf(heads, n)
<1>1. /\ \A n \in 1..c : key(n) \in DOMAIN tree /\ tree[key(n)] = heads[n] /\ key(n) # g
      /\ \A k \in DOMAIN tree : k = g \/ \E n \in 1..c : k = key(n)
      /\ g \in DOMAIN tree => tree[g] = others
      /\ others # <<>> => g \in DOMAIN tree
  BY NamesAreOwn
<1>2. \A m, n \in 1..c : key(m) = key(n) => m = n
  <2> TAKE m, n \in 1..c
  <2>1. m \in Nat \ {0} /\ n \in Nat \ {0}
    OBVIOUS
  <2> QED BY <2>1, NamesDiffer
<1> HIDE DEF tree, g, key
<1> DEFINE P == PlacesIn(heads, line)
           A == PlacesOf(others, line)
           Q == PlacesIn(tree, line)
           QP == {e \in Q : e[1] # g}
           QA == {e \in Q : e[1] = g}
<1>3. /\ \A e \in P : /\ e = <<e[1], e[2]>> /\ e[1] \in 1..c /\ e[2] \in Nat
                      /\ e[2] \in DOMAIN heads[e[1]] /\ heads[e[1]][e[2]] = line
      /\ \A k \in 1..c, n \in Nat : <<k, n>> \in P <=> n \in DOMAIN heads[k] /\ heads[k][n] = line
  <2>1. /\ \A e \in P : /\ e = <<e[1], e[2]>> /\ e[1] \in DOMAIN heads /\ e[2] \in Nat
                        /\ e[2] \in DOMAIN heads[e[1]] /\ heads[e[1]][e[2]] = line
        /\ \A k \in DOMAIN heads, n \in Nat :
                <<k, n>> \in P <=> n \in DOMAIN heads[k] /\ heads[k][n] = line
    BY PlacesArePairs, Zenon
  <2> HIDE DEF P
  <2> QED BY <2>1
<1>4. /\ \A e \in Q : /\ e = <<e[1], e[2]>> /\ e[1] \in DOMAIN tree /\ e[2] \in Nat
                      /\ e[2] \in DOMAIN tree[e[1]] /\ tree[e[1]][e[2]] = line
      /\ \A k \in DOMAIN tree, n \in Nat : <<k, n>> \in Q <=> n \in DOMAIN tree[k] /\ tree[k][n] = line
  BY PlacesArePairs, Zenon
<1>5. IsFiniteSet(A) /\ \A n : n \in A <=> n \in Nat /\ n \in DOMAIN others /\ others[n] = line
  <2>1. Len(others) \in Nat /\ DOMAIN others = 1..Len(others)
    OBVIOUS
  <2>2. IsFiniteSet(1..Len(others))
    BY <2>1, FS_Interval
  <2>3. A \in SUBSET (1..Len(others))
    BY <2>1 DEF PlacesOf
  <2>4. IsFiniteSet(A)
    BY <2>2, <2>3, FS_Subset, Zenon
  <2> QED BY <2>1, <2>4 DEF PlacesOf
<1>6. Q = QP \cup QA /\ QP \cap QA = {} /\ QP \subseteq Q /\ QA \subseteq Q
      /\ (\A y \in QP : y[1] # g) /\ (\A y \in QA : y[1] = g)
      /\ (\A y \in Q : y[1] # g => y \in QP) /\ (\A y \in Q : y[1] = g => y \in QA)
  OBVIOUS
<1>7. SameSize(P, QP)
  <2> DEFINE R == {e \in P \X QP : e[2][1] = key(e[1][1]) /\ e[2][2] = e[1][2]}
  <2>1. \A x \in P, y \in QP : <<x, y>> \in R <=> y[1] = key(x[1]) /\ y[2] = x[2]
    OBVIOUS
  <2>2. R \subseteq P \X QP
    OBVIOUS
  <2> HIDE DEF P, Q, QP, QA, R
  <2>3. \A x \in P : \E y \in QP : <<x, y>> \in R
    <3> TAKE x \in P
    <3> DEFINE y == <<key(x[1]), x[2]>>
    <3>1. x[1] \in 1..c /\ x[2] \in Nat
      BY <1>3, Zenon
    <3>2. y[1] = key(x[1]) /\ y[2] = x[2]
      OBVIOUS
    <3>3. key(x[1]) \in DOMAIN tree /\ tree[key(x[1])] = heads[x[1]] /\ key(x[1]) # g
      BY <1>1, <3>1, Zenon
    <3>4. x[2] \in DOMAIN tree[key(x[1])] /\ tree[key(x[1])][x[2]] = line
      BY <1>3, <3>3, Zenon
    <3>5. y \in Q
      BY <1>4, <3>1, <3>3, <3>4, Zenon
    <3>6. y \in QP
      <4> HIDE DEF y
      <4> QED BY <1>6, <3>2, <3>3, <3>5, Zenon
    <3> HIDE DEF y
    <3> QED BY <2>1, <3>2, <3>6, Zenon
  <2>4. \A y \in QP : \E x \in P : <<x, y>> \in R
    <3> TAKE y \in QP
    <3>1. y \in Q /\ y[1] # g
      BY <1>6, Zenon
    <3>2. PICK n \in 1..c : y[1] = key(n)
      BY <1>1, <1>4, <3>1, Zenon
    <3> DEFINE x == <<n, y[2]>>
    <3>3. x[1] = n /\ x[2] = y[2]
      OBVIOUS
    <3>4. y[2] \in DOMAIN heads[n] /\ heads[n][y[2]] = line /\ y[2] \in Nat
      BY <1>1, <1>4, <3>1, <3>2, ZenonT(60)
    <3>5. x \in P
      BY <1>3, <3>4, Zenon
    <3> HIDE DEF x
    <3> QED BY <2>1, <3>2, <3>3, <3>5
  <2>5. \A x, z \in P : \A y \in QP : <<x, y>> \in R /\ <<z, y>> \in R => x = z
    <3> SUFFICES ASSUME NEW x \in P, NEW z \in P, NEW y \in QP, <<x, y>> \in R, <<z, y>> \in R
                 PROVE  x = z
      OBVIOUS
    <3>1. y[1] = key(x[1]) /\ y[2] = x[2] /\ y[1] = key(z[1]) /\ y[2] = z[2]
      BY <2>1
    <3>2. x[1] = z[1]
      BY <1>2, <1>3, <3>1, Zenon
    <3> QED BY <1>3, <3>1, <3>2, ZenonT(60)
  <2>6. \A x \in P : \A y, z \in QP : <<x, y>> \in R /\ <<x, z>> \in R => y = z
    <3> SUFFICES ASSUME NEW x \in P, NEW y \in QP, NEW z \in QP, <<x, y>> \in R, <<x, z>> \in R
                 PROVE  y = z
      OBVIOUS
    <3>1. y[1] = key(x[1]) /\ y[2] = x[2] /\ z[1] = key(x[1]) /\ z[2] = x[2]
      BY <2>1
    <3>2. y \in Q /\ z \in Q
      BY <1>6
    <3> QED BY <1>4, <3>1, <3>2
  <2>7. Pairs(R, P, QP)
    BY <2>2, <2>3, <2>4, <2>5, <2>6, Zenon DEF Pairs
  <2>8. IsFiniteSet(P)
    BY DEF P
  <2> QED BY <2>7, <2>8, PairsAreSameSize
<1>8. SameSize(A, QA)
  <2> DEFINE R == {e \in A \X QA : e[2][2] = e[1]}
  <2>1. \A x \in A, y \in QA : <<x, y>> \in R <=> y[2] = x
    OBVIOUS
  <2>2. R \subseteq A \X QA
    OBVIOUS
  <2>9. IsFiniteSet(A)
    BY <1>5
  <2> HIDE DEF P, A, Q, QP, QA, R
  <2>3. \A x \in A : \E y \in QA : <<x, y>> \in R
    <3> TAKE x \in A
    <3> DEFINE y == <<g, x>>
    <3>1. x \in Nat /\ x \in DOMAIN others /\ others[x] = line
      BY <1>5, Zenon
    <3>2. y[1] = g /\ y[2] = x
      OBVIOUS
    <3>3. others # <<>>
      <4>1. DOMAIN <<>> = {}
        OBVIOUS
      <4> QED BY <3>1, <4>1
    <3>4. g \in DOMAIN tree /\ tree[g] = others
      BY <1>1, <3>3, Zenon
    <3>5. x \in DOMAIN tree[g] /\ tree[g][x] = line
      BY <3>1, <3>4, Zenon
    <3>6. y \in Q
      BY <1>4, <3>1, <3>4, <3>5, Zenon
    <3> HIDE DEF y
    <3>7. y \in QA
      BY <1>6, <3>2, <3>6, Zenon
    <3> QED BY <2>1, <3>2, <3>7, Zenon
  <2>4. \A y \in QA : \E x \in A : <<x, y>> \in R
    <3> TAKE y \in QA
    <3>1. y \in Q /\ y[1] = g
      BY <1>6, Zenon
    <3>2. tree[g] = others /\ y[2] \in DOMAIN others /\ others[y[2]] = line /\ y[2] \in Nat
      BY <1>1, <1>4, <3>1, Zenon
    <3>3. y[2] \in A
      BY <1>5, <3>2, Zenon
    <3> QED BY <2>1, <3>3
  <2>5. \A x, z \in A : \A y \in QA : <<x, y>> \in R /\ <<z, y>> \in R => x = z
    BY <2>1
  <2>6. \A x \in A : \A y, z \in QA : <<x, y>> \in R /\ <<x, z>> \in R => y = z
    <3> SUFFICES ASSUME NEW x \in A, NEW y \in QA, NEW z \in QA, <<x, y>> \in R, <<x, z>> \in R
                 PROVE  y = z
      OBVIOUS
    <3>1. y[2] = x /\ z[2] = x /\ y[1] = g /\ z[1] = g
      BY <1>6, <2>1
    <3>2. y \in Q /\ z \in Q
      BY <1>6
    <3> QED BY <1>4, <3>1, <3>2
  <2>7. Pairs(R, A, QA)
    BY <2>2, <2>3, <2>4, <2>5, <2>6, Zenon DEF Pairs
  <2> QED BY <2>7, <2>9, PairsAreSameSize
<1>9. IsFiniteSet(Q) /\ Cardinality(Q) = Cardinality(QP) + Cardinality(QA)
  <2> HIDE DEF P, A, Q, QP, QA
  <2>1. IsFiniteSet(QP) /\ IsFiniteSet(QA)
    BY <1>7, <1>8 DEF SameSize
  <2> QED BY <1>6, <2>1, SizesAdd, Zenon
<1>10. Cardinality(Q) = Cardinality(P) + Cardinality(A)
  <2> HIDE DEF P, A, Q, QP, QA
  <2> QED BY <1>7, <1>8, <1>9 DEF SameSize
<1> QED
  BY <1>9, <1>10 DEF tree

\* Blocks of lines that have a line as often as a text does.
KeepLines(blocks, L, text, line) ==
    /\ SameSize(PlacesIn(blocks, line), PlacesOf(text, line))
    /\ \A k \in DOMAIN blocks : blocks[k] \in Seq(L)

\* A configuration cut into blocks keeps each line that is no separator, as often as it
\* has it (configuration.py:_split_cisco_blocks).
LEMMA BlocksKeepLines ==
    ASSUME NEW L, NEW text \in Seq(L), NEW line, line # Diff!Separator
    PROVE  KeepLines(Diff!SplitCiscoBlocks(text), L, text, line)
<1> DEFINE raw == Diff!RawBlocks(text)
           H == {n \in DOMAIN raw : raw[n][1].form = "head"}
           O == {n \in DOMAIN raw : raw[n][1].form # "head"}
           heads == Diff!At(raw, H)
           rest == Diff!At(raw, O)
           others == FlattenSeq(rest)
           B == Some(L)
<1>1. raw \in Seq(B) /\ SameSize(PlacesIn(raw, line), PlacesOf(text, line))
  BY RawBlocksHaveLines
<1>2. Diff!SplitCiscoBlocks(text) = Diff!ByName(heads, others)
  BY DEF Diff!SplitCiscoBlocks, Diff!Keep, Diff!FlattenSeq, FlattenSeq
<1> HIDE DEF raw
<1>3. DOMAIN raw = 1..Len(raw) /\ Len(raw) \in Nat
  <2> HIDE DEF B
  <2> QED BY <1>1
<1>4. H \in SUBSET (1..Len(raw)) /\ O \in SUBSET (1..Len(raw)) /\ H \cup O = 1..Len(raw)
      /\ H \cap O = {} /\ \A n \in H : raw[n][1].form = "head"
  BY <1>3
<1> HIDE DEF H, O, B
<1>5. IsPicked(heads, raw, H) /\ heads \in Seq(B) /\ rest \in Seq(B)
  BY <1>1, <1>4, PickedPlaces, Zenon
<1>6. IsFiniteSet(PlacesIn(raw, line))
  BY <1>1 DEF SameSize
<1> DEFINE PH == {e \in PlacesIn(raw, line) : e[1] \in H}
           PO == {e \in PlacesIn(raw, line) : e[1] \in O}
<1>7. SameSize(PH, PlacesIn(heads, line)) /\ SameSize(PO, PlacesIn(rest, line))
  BY <1>1, <1>4, <1>6, PickKeepsPlaces, Zenon
<1>8. PH \cup PO = PlacesIn(raw, line) /\ PH \cap PO = {}
  <2>1. \A e \in PlacesIn(raw, line) : e[1] \in DOMAIN raw
    BY PlacesArePairs, Zenon
  <2> QED BY <1>3, <1>4, <2>1
<1>9. Cardinality(PlacesIn(raw, line)) = Cardinality(PH) + Cardinality(PO)
  <2> HIDE DEF PH, PO
  <2>1. IsFiniteSet(PH) /\ IsFiniteSet(PO)
    BY <1>7 DEF SameSize
  <2> QED BY <1>8, <2>1, SizesAdd, Zenon
<1> HIDE DEF PH, PO, heads, rest
<1>10. rest \in Seq(Seq(L))
  <2>1. Len(rest) \in Nat /\ DOMAIN rest = 1..Len(rest) /\ \A n \in 1..Len(rest) : rest[n] \in B
    BY <1>5
  <2> DEFINE S == Seq(L)
  <2>2. \A n \in 1..Len(rest) : rest[n] \in S
    BY <2>1 DEF B, Some
  <2> HIDE DEF S
  <2>3. rest \in Seq(S)
    BY <1>5, <2>1, <2>2
  <2> QED BY <2>3 DEF S
<1>11. SameSize(PlacesIn(rest, line), PlacesOf(others, line)) /\ others \in Seq(L)
  <2>1. IsFiniteSet(PlacesIn(rest, line))
    BY <1>7 DEF SameSize
  <2>2. SameSize(PlacesIn(rest, line), PlacesOf(others, line))
    BY <1>10, <2>1, FlattenKeepsLines, Zenon
  <2>3. others \in Seq(L)
    BY <1>10, FlattenPlaces, Zenon
  <2> QED BY <2>2, <2>3
<1> HIDE DEF others
<1>12. /\ Len(heads) \in Nat /\ DOMAIN heads = 1..Len(heads)
       /\ \A n \in 1..Len(heads) : heads[n][1].form = "head"
  BY <1>4, <1>5, SMTT(30) DEF IsPicked
<1>13. IsFiniteSet(PlacesIn(heads, line))
  BY <1>7 DEF SameSize
<1> DEFINE tree == Diff!ByName(heads, others)
<1>14. /\ IsFiniteSet(PlacesIn(tree, line))
       /\ Cardinality(PlacesIn(tree, line)) =
                Cardinality(PlacesIn(heads, line)) + Cardinality(PlacesOf(others, line))
  BY <1>11, <1>12, <1>13, NamedBlocksKeepLines, Zenon
<1>16. \A k \in DOMAIN tree : tree[k] \in Seq(L)
  <2>1. /\ \A n \in 1..Len(heads) : tree[Diff!KeyOf(heads, n)] = heads[n]
        /\ \A k \in DOMAIN tree :
                k = Diff!GlobalKey \/ \E n \in 1..Len(heads) : k = Diff!KeyOf(heads, n)
        /\ Diff!GlobalKey \in DOMAIN tree => tree[Diff!GlobalKey] = others
    <3>1. PICK c \in Nat : c = Len(heads)
      BY <1>12
    <3>2. Len(heads) = c /\ DOMAIN heads = 1..c /\ \A n \in 1..c : heads[n][1].form = "head"
      BY <1>12, <3>1
    <3>3. /\ \A n \in 1..c : /\ Diff!KeyOf(heads, n) \in DOMAIN tree
                            /\ tree[Diff!KeyOf(heads, n)] = heads[n]
                            /\ Diff!KeyOf(heads, n) # Diff!GlobalKey
          /\ \A k \in DOMAIN tree : k = Diff!GlobalKey \/ \E n \in 1..c : k = Diff!KeyOf(heads, n)
          /\ Diff!GlobalKey \in DOMAIN tree => tree[Diff!GlobalKey] = others
      BY <3>2, NamesAreOwn
    <3> HIDE DEF tree
    <3> QED BY <3>1, <3>3, Zenon
  <2>2. \A n \in 1..Len(heads) : heads[n] \in Seq(L)
    <3>1. \A n \in 1..Len(heads) : heads[n] \in B
      BY <1>5, <1>12
    <3> QED BY <3>1 DEF B, Some
  <2> HIDE DEF tree
  <2> QED BY <1>11, <2>1, <2>2, Zenon
<1> HIDE DEF tree
<1>15. SameSize(PlacesIn(tree, line), PlacesOf(text, line))
  BY <1>1, <1>7, <1>9, <1>11, <1>14 DEF SameSize
<1> QED
  BY <1>2, <1>15, <1>16, Zenon DEF tree, KeepLines

-----------------------------------------------------------------------------
(* The lines two blocks have in common.                                      *)

\* The spans of two texts that the search for equal lines looks at.
Spans(a, b) == (1..(Len(a) + 1)) \X (0..Len(a)) \X (1..(Len(b) + 1)) \X (0..Len(b))

\* The pairs of equal lines the search finds in a span, by what it finds in smaller ones.
Found(h, a, b, q) ==
    UNION {{<<r[1] + d, r[2] + d>> : d \in 0..(r[3] - 1)}
                \cup h[<<q[1], r[1] - 1, q[3], r[2] - 1>>]
                \cup h[<<r[1] + r[3], q[2], r[2] + r[3], q[4]>>] :
            r \in Diff!LongestRun(a, b, q)}

Wide(a, q) == q[2] - q[1] + Len(a) + 2

\* The bounds of a span, and of the measure its search goes down by.
LEMMA SpanFacts ==
    ASSUME NEW L, NEW a \in Seq(L), NEW b \in Seq(L), NEW q \in Spans(a, b)
    PROVE  /\ Len(a) \in Nat /\ Len(b) \in Nat
           /\ q[1] \in 1..(Len(a) + 1) /\ q[2] \in 0..Len(a)
           /\ q[3] \in 1..(Len(b) + 1) /\ q[4] \in 0..Len(b)
           /\ Wide(a, q) \in Nat /\ Wide(a, q) < 2 * Len(a) + 2
<1>1. Len(a) \in Nat /\ Len(b) \in Nat
  OBVIOUS
<1>2. /\ q[1] \in 1..(Len(a) + 1) /\ q[2] \in 0..Len(a)
      /\ q[3] \in 1..(Len(b) + 1) /\ q[4] \in 0..Len(b)
  BY DEF Spans
<1>3. ASSUME NEW n \in Nat, NEW x \in 1..(n + 1), NEW y \in 0..n
      PROVE  y - x + n + 2 \in Nat /\ y - x + n + 2 < 2 * n + 2
  OBVIOUS
<1>4. Wide(a, q) \in Nat /\ Wide(a, q) < 2 * Len(a) + 2
  BY <1>1, <1>2, <1>3, Zenon DEF Wide
<1> QED
  BY <1>1, <1>2, <1>4, Zenon

\* The longest run is one, lies in the span, and leaves smaller spans on either side.
LEMMA LongestRunIs ==
    ASSUME NEW L, NEW a \in Seq(L), NEW b \in Seq(L), NEW q \in Spans(a, b),
           NEW r \in Diff!LongestRun(a, b, q)
    PROVE  /\ r[1] \in Nat /\ r[2] \in Nat /\ r[3] \in Nat \ {0}
           /\ q[1] <= r[1] /\ r[1] + r[3] - 1 <= q[2]
           /\ q[3] <= r[2] /\ r[2] + r[3] - 1 <= q[4]
           /\ \A d \in 0..(r[3] - 1) : a[r[1] + d] = b[r[2] + d]
           /\ \A x \in Diff!LongestRun(a, b, q) : x = r
<1> DEFINE T == (q[1]..q[2]) \X (q[3]..q[4]) \X (1..Len(a))
           places == {x \in T :
                        /\ x[1] + x[3] - 1 <= q[2] /\ x[2] + x[3] - 1 <= q[4]
                        /\ Diff!SameRun(a, b, x[1], x[2], x[3])}
           Beats(x, y) == \/ x[3] > y[3]
                          \/ x[3] = y[3] /\ (x[1] < y[1] \/ (x[1] = y[1] /\ x[2] <= y[2]))
<1>1. Diff!LongestRun(a, b, q) = {x \in places : \A y \in places : Beats(x, y)}
  BY DEF Diff!LongestRun
<1>2. /\ Len(a) \in Nat /\ Len(b) \in Nat
      /\ q[1] \in 1..(Len(a) + 1) /\ q[2] \in 0..Len(a)
      /\ q[3] \in 1..(Len(b) + 1) /\ q[4] \in 0..Len(b)
  BY SpanFacts
<1>3. \A x \in T : /\ x[1] \in Nat /\ x[2] \in Nat /\ x[3] \in Nat \ {0}
                   /\ q[1] <= x[1] /\ q[3] <= x[2] /\ x = <<x[1], x[2], x[3]>>
  <2>1. \A x \in T : /\ x[1] \in q[1]..q[2] /\ x[2] \in q[3]..q[4] /\ x[3] \in 1..Len(a)
                     /\ x = <<x[1], x[2], x[3]>>
    OBVIOUS
  <2> HIDE DEF T
  <2> QED BY <1>2, <2>1, SMTT(30)
<1> HIDE DEF T
<1>4. \A x \in places : /\ x \in T /\ x[1] + x[3] - 1 <= q[2] /\ x[2] + x[3] - 1 <= q[4]
                        /\ Diff!SameRun(a, b, x[1], x[2], x[3])
  OBVIOUS
<1> HIDE DEF places
<1>5. r \in places /\ \A y \in places : Beats(r, y)
  BY <1>1
<1>6. ASSUME NEW x \in Diff!LongestRun(a, b, q) PROVE x = r
  <2>1. x \in places /\ Beats(r, x) /\ Beats(x, r)
    BY <1>1, <1>5
  <2>2. /\ x[1] \in Nat /\ x[2] \in Nat /\ x[3] \in Nat
        /\ r[1] \in Nat /\ r[2] \in Nat /\ r[3] \in Nat
        /\ x = <<x[1], x[2], x[3]>> /\ r = <<r[1], r[2], r[3]>>
    BY <1>3, <1>4, <1>5, <2>1
  <2>3. x[3] = r[3]
    BY <2>1, <2>2
  <2>4. x[1] = r[1]
    BY <2>1, <2>2, <2>3
  <2>5. x[2] = r[2]
    BY <2>1, <2>2, <2>3, <2>4
  <2> QED BY <2>2, <2>3, <2>4, <2>5
<1>7. \A d \in 0..(r[3] - 1) : a[r[1] + d] = b[r[2] + d]
  BY <1>4, <1>5 DEF Diff!SameRun
<1> HIDE DEF Beats
<1>8. /\ r[1] \in Nat /\ r[2] \in Nat /\ r[3] \in Nat \ {0}
      /\ q[1] <= r[1] /\ q[3] <= r[2]
  BY <1>3, <1>4, <1>5, Zenon
<1>9. r[1] + r[3] - 1 <= q[2] /\ r[2] + r[3] - 1 <= q[4]
  BY <1>4, <1>5, Zenon
<1> QED
  BY <1>6, <1>7, <1>8, <1>9

\* The spans on either side of the longest run.
LEMMA SpansBeside ==
    ASSUME NEW L, NEW a \in Seq(L), NEW b \in Seq(L), NEW q \in Spans(a, b),
           NEW r \in Diff!LongestRun(a, b, q)
    PROVE  /\ <<q[1], r[1] - 1, q[3], r[2] - 1>> \in Spans(a, b)
           /\ Wide(a, <<q[1], r[1] - 1, q[3], r[2] - 1>>) < Wide(a, q)
           /\ <<r[1] + r[3], q[2], r[2] + r[3], q[4]>> \in Spans(a, b)
           /\ Wide(a, <<r[1] + r[3], q[2], r[2] + r[3], q[4]>>) < Wide(a, q)
<1>1. /\ r[1] \in Nat /\ r[2] \in Nat /\ r[3] \in Nat \ {0}
      /\ q[1] <= r[1] /\ r[1] + r[3] - 1 <= q[2]
      /\ q[3] <= r[2] /\ r[2] + r[3] - 1 <= q[4]
  BY LongestRunIs, Zenon
<1>2. /\ Len(a) \in Nat /\ Len(b) \in Nat
      /\ q[1] \in 1..(Len(a) + 1) /\ q[2] \in 0..Len(a)
      /\ q[3] \in 1..(Len(b) + 1) /\ q[4] \in 0..Len(b)
  BY SpanFacts
<1>3. /\ r[1] - 1 \in 0..Len(a) /\ r[2] - 1 \in 0..Len(b)
      /\ r[1] + r[3] \in 1..(Len(a) + 1) /\ r[2] + r[3] \in 1..(Len(b) + 1)
  <2>1. ASSUME NEW n \in Nat, NEW x \in 1..(n + 1), NEW y \in 0..n, NEW i \in Nat, NEW l \in Nat \ {0},
               x <= i, i + l - 1 <= y
        PROVE  i - 1 \in 0..n /\ i + l \in 1..(n + 1)
    BY <2>1
  <2> QED BY <1>1, <1>2, <2>1, Zenon
<1>4. /\ <<q[1], r[1] - 1, q[3], r[2] - 1>> \in Spans(a, b)
      /\ <<r[1] + r[3], q[2], r[2] + r[3], q[4]>> \in Spans(a, b)
  BY <1>2, <1>3, Zenon DEF Spans
<1>5. /\ Wide(a, <<q[1], r[1] - 1, q[3], r[2] - 1>>) = (r[1] - 1) - q[1] + Len(a) + 2
      /\ Wide(a, <<r[1] + r[3], q[2], r[2] + r[3], q[4]>>) = q[2] - (r[1] + r[3]) + Len(a) + 2
      /\ Wide(a, q) = q[2] - q[1] + Len(a) + 2
  BY DEF Wide
<1>6. ASSUME NEW n \in Nat, NEW x \in 1..(n + 1), NEW y \in 0..n, NEW i \in Nat, NEW l \in Nat \ {0},
             x <= i, i + l - 1 <= y
      PROVE  (i - 1) - x + n + 2 < y - x + n + 2 /\ y - (i + l) + n + 2 < y - x + n + 2
  BY <1>6
<1>7. /\ (r[1] - 1) - q[1] + Len(a) + 2 < q[2] - q[1] + Len(a) + 2
      /\ q[2] - (r[1] + r[3]) + Len(a) + 2 < q[2] - q[1] + Len(a) + 2
  BY <1>1, <1>2, <1>6, Zenon
<1> QED
  BY <1>4, <1>5, <1>7

\* What is found in a span is decided by what is found in smaller ones.
LEMMA FoundAgrees ==
    ASSUME NEW L, NEW a \in Seq(L), NEW b \in Seq(L), NEW q \in Spans(a, b), NEW h, NEW g,
           \A p \in Spans(a, b) : Wide(a, p) < Wide(a, q) => h[p] = g[p]
    PROVE  Found(h, a, b, q) = Found(g, a, b, q)
<1>1. ASSUME NEW r \in Diff!LongestRun(a, b, q)
      PROVE  /\ h[<<q[1], r[1] - 1, q[3], r[2] - 1>>] = g[<<q[1], r[1] - 1, q[3], r[2] - 1>>]
             /\ h[<<r[1] + r[3], q[2], r[2] + r[3], q[4]>>] = g[<<r[1] + r[3], q[2], r[2] + r[3], q[4]>>]
  BY SpansBeside, Zenon
<1> QED
  BY <1>1, Zenon DEF Found

\* The search is well defined, and finds what its definition says.
IsSearch(h, a, b) == \A q \in Spans(a, b) : h[q] = Found(h, a, b, q)

\* There is a search: it is built up from the narrow spans to the wide ones.
LEMMA SearchExists ==
    ASSUME NEW L, NEW a \in Seq(L), NEW b \in Seq(L)
    PROVE  \E h : h = [q \in Spans(a, b) |-> Found(h, a, b, q)]
<1> DEFINE B == Spans(a, b)
           Upto(h, n) == /\ h = [q \in B |-> h[q]]
                         /\ \A q \in B : Wide(a, q) < n => h[q] = Found(h, a, b, q)
           T == {n \in Nat : \E h : Upto(h, n)}
<1>1. \A q \in B : Wide(a, q) \in Nat /\ Wide(a, q) < 2 * Len(a) + 2
  BY SpanFacts
<1> HIDE DEF B
<1>2. 0 \in T
  <2> DEFINE h == [q \in B |-> {}]
  <2>1. Upto(h, 0)
    BY <1>1
  <2> QED BY <2>1, Zenon
<1>3. ASSUME NEW n \in Nat, n \in T PROVE n + 1 \in T
  <2>1. PICK h : Upto(h, n)
    BY <1>3
  <2> DEFINE g == [q \in B |-> Found(h, a, b, q)]
  <2>2. \A q \in B : g[q] = Found(h, a, b, q)
    OBVIOUS
  <2>3. g = [q \in B |-> g[q]]
    OBVIOUS
  <2> HIDE DEF g
  <2>4. \A p \in B : Wide(a, p) < n => h[p] = g[p]
    BY <2>1, <2>2, Zenon
  <2>5. ASSUME NEW q \in B, Wide(a, q) < n + 1 PROVE g[q] = Found(g, a, b, q)
    <3>1. ASSUME NEW p \in B, Wide(a, p) < Wide(a, q) PROVE h[p] = g[p]
      <4>1. Wide(a, p) < n
        BY <1>1, <2>5, <3>1
      <4> QED BY <2>4, <4>1
    <3>2. Found(h, a, b, q) = Found(g, a, b, q)
      BY <3>1, FoundAgrees, Zenon DEF B
    <3> QED BY <2>2, <3>2
  <2>6. Upto(g, n + 1)
    BY <2>3, <2>5
  <2> QED BY <2>6
<1>4. 2 * Len(a) + 2 \in T
  <2>1. \A n \in Nat : n \in T
    <3> HIDE DEF T
    <3> QED BY <1>2, <1>3, NatSetInduction
  <2>2. 2 * Len(a) + 2 \in Nat
    OBVIOUS
  <2> HIDE DEF T
  <2> QED BY <2>1, <2>2
<1>5. PICK h : Upto(h, 2 * Len(a) + 2)
  BY <1>4
<1>6. h = [q \in B |-> Found(h, a, b, q)]
  BY <1>1, <1>5
<1> QED
  BY <1>6 DEF B

\* What is matched is what the search finds in the whole of both texts.
LEMMA MatchedIsFound ==
    ASSUME NEW L, NEW a \in Seq(L), NEW b \in Seq(L)
    PROVE  \E h : IsSearch(h, a, b) /\ Diff!Matched(a, b) = h[<<1, Len(a), 1, Len(b)>>]
<1> DEFINE match == CHOOSE h : h = [q \in Spans(a, b) |-> Found(h, a, b, q)]
<1>1. match = [q \in Spans(a, b) |-> Found(match, a, b, q)]
  <2> DEFINE Def(h) == [q \in Spans(a, b) |-> Found(h, a, b, q)]
  <2>1. \E h : h = Def(h)
    BY SearchExists
  <2> HIDE DEF Def
  <2>2. (CHOOSE h : h = Def(h)) = Def(CHOOSE h : h = Def(h))
    BY <2>1
  <2> QED BY <2>2 DEF Def
<1>2. Diff!Matched(a, b) = match[<<1, Len(a), 1, Len(b)>>]
  BY DEF Diff!Matched, Spans, Found
<1> HIDE DEF match
<1>3. IsSearch(match, a, b)
  BY <1>1 DEF IsSearch
<1> QED
  BY <1>2, <1>3

\* Pairs of equal lines in a span, each line in one pair at most.
IsMatching(M, a, b, q) ==
    /\ \A m \in M : m[1] \in q[1]..q[2] /\ m[2] \in q[3]..q[4] /\ a[m[1]] = b[m[2]]
    /\ \A m, o \in M : (m[1] = o[1] <=> m[2] = o[2])

\* What is found on either side of the longest run does not meet it.
LEMMA FoundMatches ==
    ASSUME NEW L, NEW a \in Seq(L), NEW b \in Seq(L), NEW q \in Spans(a, b), NEW h,
           \A p \in Spans(a, b) : Wide(a, p) < Wide(a, q) => IsMatching(h[p], a, b, p)
    PROVE  IsMatching(Found(h, a, b, q), a, b, q)
<1>1. /\ q[1] \in Nat /\ q[2] \in Nat /\ q[3] \in Nat /\ q[4] \in Nat
  <2>1. /\ Len(a) \in Nat /\ Len(b) \in Nat
        /\ q[1] \in 1..(Len(a) + 1) /\ q[2] \in 0..Len(a)
        /\ q[3] \in 1..(Len(b) + 1) /\ q[4] \in 0..Len(b)
    BY SpanFacts
  <2> QED BY <2>1
<1>2. CASE Diff!LongestRun(a, b, q) = {}
  <2>1. Found(h, a, b, q) = {}
    BY <1>2 DEF Found
  <2> QED BY <2>1 DEF IsMatching
<1>3. CASE Diff!LongestRun(a, b, q) # {}
  <2>1. PICK r \in Diff!LongestRun(a, b, q) : TRUE
    BY <1>3
  <2> DEFINE below == <<q[1], r[1] - 1, q[3], r[2] - 1>>
             above == <<r[1] + r[3], q[2], r[2] + r[3], q[4]>>
             run == {<<r[1] + d, r[2] + d>> : d \in 0..(r[3] - 1)}
             M == Found(h, a, b, q)
  <2>2. /\ r[1] \in Nat /\ r[2] \in Nat /\ r[3] \in Nat \ {0}
        /\ q[1] <= r[1] /\ r[1] + r[3] - 1 <= q[2]
        /\ q[3] <= r[2] /\ r[2] + r[3] - 1 <= q[4]
        /\ \A d \in 0..(r[3] - 1) : a[r[1] + d] = b[r[2] + d]
        /\ \A x \in Diff!LongestRun(a, b, q) : x = r
    BY LongestRunIs
  <2>3. M = run \cup h[below] \cup h[above]
    <3>1. Diff!LongestRun(a, b, q) = {r}
      BY <2>2, Zenon
    <3> QED BY <3>1 DEF Found
  <2>4. IsMatching(h[below], a, b, below) /\ IsMatching(h[above], a, b, above)
    BY SpansBeside, Zenon
  <2>5. /\ below[1] = q[1] /\ below[2] = r[1] - 1 /\ below[3] = q[3] /\ below[4] = r[2] - 1
        /\ above[1] = r[1] + r[3] /\ above[2] = q[2] /\ above[3] = r[2] + r[3] /\ above[4] = q[4]
    OBVIOUS
  <2> HIDE DEF below, above
  <2>6. \A m \in h[below] : m[1] \in q[1]..(r[1] - 1) /\ m[2] \in q[3]..(r[2] - 1) /\ a[m[1]] = b[m[2]]
    BY <2>4, <2>5 DEF IsMatching
  <2>7. \A m \in h[above] : m[1] \in (r[1] + r[3])..q[2] /\ m[2] \in (r[2] + r[3])..q[4] /\ a[m[1]] = b[m[2]]
    BY <2>4, <2>5 DEF IsMatching
  <2>8. \A m \in run : \E d \in 0..(r[3] - 1) : m[1] = r[1] + d /\ m[2] = r[2] + d
    OBVIOUS
  <2>9. /\ \A m, o \in h[below] : m[1] = o[1] <=> m[2] = o[2]
        /\ \A m, o \in h[above] : m[1] = o[1] <=> m[2] = o[2]
    BY <2>4 DEF IsMatching
  <2> HIDE DEF run
  <2>10. \A m \in run : /\ m[1] \in r[1]..(r[1] + r[3] - 1) /\ m[2] \in r[2]..(r[2] + r[3] - 1)
                        /\ a[m[1]] = b[m[2]] /\ m[2] = m[1] - r[1] + r[2]
    <3> TAKE m \in run
    <3>1. PICK d \in 0..(r[3] - 1) : m[1] = r[1] + d /\ m[2] = r[2] + d
      BY <2>8
    <3>2. a[m[1]] = b[m[2]]
      BY <2>2, <3>1, Zenon
    <3>3. ASSUME NEW i \in Nat, NEW j \in Nat, NEW l \in Nat \ {0}, NEW n \in 0..(l - 1)
          PROVE  i + n \in i..(i + l - 1) /\ j + n \in j..(j + l - 1) /\ j + n = (i + n) - i + j
      OBVIOUS
    <3>4. /\ r[1] + d \in r[1]..(r[1] + r[3] - 1) /\ r[2] + d \in r[2]..(r[2] + r[3] - 1)
          /\ r[2] + d = (r[1] + d) - r[1] + r[2]
      <4>1. r[1] \in Nat /\ r[2] \in Nat /\ r[3] \in Nat \ {0} /\ d \in 0..(r[3] - 1)
        BY <2>2
      <4> QED BY <3>3, <4>1, ZenonT(60)
    <3> QED BY <3>1, <3>2, <3>4
  <2> HIDE DEF M
  <2>11. ASSUME NEW m \in M
         PROVE  m[1] \in q[1]..q[2] /\ m[2] \in q[3]..q[4] /\ a[m[1]] = b[m[2]]
    <3>1. ASSUME NEW i \in Nat, NEW l \in Nat \ {0}, NEW x \in Nat, NEW y \in Nat,
                 x <= i, i + l - 1 <= y
          PROVE  /\ i..(i + l - 1) \subseteq x..y
                 /\ x..(i - 1) \subseteq x..y
                 /\ (i + l)..y \subseteq x..y
      BY <3>1
    <3>2. /\ r[1]..(r[1] + r[3] - 1) \subseteq q[1]..q[2] /\ q[1]..(r[1] - 1) \subseteq q[1]..q[2]
          /\ (r[1] + r[3])..q[2] \subseteq q[1]..q[2]
      BY <1>1, <2>2, <3>1, Zenon
    <3>3. /\ r[2]..(r[2] + r[3] - 1) \subseteq q[3]..q[4] /\ q[3]..(r[2] - 1) \subseteq q[3]..q[4]
          /\ (r[2] + r[3])..q[4] \subseteq q[3]..q[4]
      BY <1>1, <2>2, <3>1, Zenon
    <3> QED BY <2>3, <2>6, <2>7, <2>10, <3>2, <3>3, Zenon
  <2>12. ASSUME NEW m \in M, NEW o \in M PROVE m[1] = o[1] <=> m[2] = o[2]
    <3> DEFINE In(x)   == x[2] = x[1] - r[1] + r[2] /\ x[1] \in r[1]..(r[1] + r[3] - 1)
                            /\ x[2] \in r[2]..(r[2] + r[3] - 1)
               Down(x) == x \in h[below] /\ x[1] \in q[1]..(r[1] - 1) /\ x[2] \in q[3]..(r[2] - 1)
               Up(x)   == x \in h[above] /\ x[1] \in (r[1] + r[3])..q[2] /\ x[2] \in (r[2] + r[3])..q[4]
    <3>1. (In(m) \/ Down(m) \/ Up(m)) /\ (In(o) \/ Down(o) \/ Up(o))
      BY <2>3, <2>6, <2>7, <2>10
    <3>2. ASSUME NEW i \in Nat, NEW l \in Nat \ {0}, NEW x \in Nat, NEW y \in Nat
          PROVE  /\ i..(i + l - 1) \cap x..(i - 1) = {}
                 /\ i..(i + l - 1) \cap (i + l)..y = {}
                 /\ x..(i - 1) \cap (i + l)..y = {}
      OBVIOUS
    <3>3. /\ r[1]..(r[1] + r[3] - 1) \cap q[1]..(r[1] - 1) = {}
          /\ r[1]..(r[1] + r[3] - 1) \cap (r[1] + r[3])..q[2] = {}
          /\ q[1]..(r[1] - 1) \cap (r[1] + r[3])..q[2] = {}
      BY <1>1, <2>2, <3>2, Zenon
    <3>4. /\ r[2]..(r[2] + r[3] - 1) \cap q[3]..(r[2] - 1) = {}
          /\ r[2]..(r[2] + r[3] - 1) \cap (r[2] + r[3])..q[4] = {}
          /\ q[3]..(r[2] - 1) \cap (r[2] + r[3])..q[4] = {}
      BY <1>1, <2>2, <3>2, Zenon
    <3>5. ASSUME NEW x \in M, NEW y \in M, In(x), Down(y) \/ Up(y) PROVE x[1] # y[1] /\ x[2] # y[2]
      BY <3>3, <3>4, <3>5
    <3>6. ASSUME NEW x \in M, NEW y \in M, Down(x), Up(y) PROVE x[1] # y[1] /\ x[2] # y[2]
      BY <3>3, <3>4, <3>6
    <3>7. CASE In(m) /\ In(o)
      <4>1. /\ r[1] \in Int /\ r[2] \in Int /\ m[1] \in Int /\ o[1] \in Int
        BY <2>2, <3>7
      <4>2. m[2] = m[1] - r[1] + r[2] /\ o[2] = o[1] - r[1] + r[2]
        BY <3>7
      <4> QED BY <4>1, <4>2, SMTT(30)
    <3>8. CASE Down(m) /\ Down(o)
      BY <2>9, <3>8, Zenon
    <3>9. CASE Up(m) /\ Up(o)
      BY <2>9, <3>9, Zenon
    <3> HIDE DEF In, Down, Up
    <3>10. CASE (In(m) /\ (Down(o) \/ Up(o))) \/ (Down(m) /\ Up(o))
      BY <3>5, <3>6, <3>10, Zenon
    <3>11. CASE (In(o) /\ (Down(m) \/ Up(m))) \/ (Down(o) /\ Up(m))
      <4>1. o[1] # m[1] /\ o[2] # m[2]
        BY <3>5, <3>6, <3>11, Zenon
      <4> QED BY <4>1
    <3> QED BY <3>1, <3>7, <3>8, <3>9, <3>10, <3>11, Zenon
  <2> QED BY <2>11, <2>12 DEF IsMatching, M
<1> QED
  BY <1>2, <1>3

\* What the search finds in any span is a matching of equal lines.
LEMMA SearchMatches ==
    ASSUME NEW L, NEW a \in Seq(L), NEW b \in Seq(L), NEW h, IsSearch(h, a, b)
    PROVE  \A q \in Spans(a, b) : IsMatching(h[q], a, b, q)
<1> DEFINE T == {n \in Nat : \A q \in Spans(a, b) : Wide(a, q) < n => IsMatching(h[q], a, b, q)}
<1>1. \A q \in Spans(a, b) : Wide(a, q) \in Nat /\ Wide(a, q) < 2 * Len(a) + 2
  BY SpanFacts
<1>2. 0 \in T
  BY <1>1
<1>3. ASSUME NEW n \in Nat, n \in T PROVE n + 1 \in T
  <2>1. ASSUME NEW q \in Spans(a, b), Wide(a, q) < n + 1 PROVE IsMatching(h[q], a, b, q)
    <3>1. ASSUME NEW p \in Spans(a, b), Wide(a, p) < Wide(a, q) PROVE IsMatching(h[p], a, b, p)
      <4>1. Wide(a, p) < n
        BY <1>1, <2>1, <3>1
      <4> QED BY <1>3, <4>1
    <3>2. IsMatching(Found(h, a, b, q), a, b, q)
      BY <3>1, FoundMatches, Zenon
    <3> QED BY <3>2 DEF IsSearch
  <2> QED BY <2>1
<1>4. 2 * Len(a) + 2 \in T
  <2>1. \A n \in Nat : n \in T
    <3> HIDE DEF T
    <3> QED BY <1>2, <1>3, NatSetInduction, Zenon
  <2>2. 2 * Len(a) + 2 \in Nat
    OBVIOUS
  <2> HIDE DEF T
  <2> QED BY <2>1, <2>2
<1> QED
  BY <1>1, <1>4

\* The pairs the comparison takes for one line are equal lines, each in one pair.
LEMMA MatchedMatches ==
    ASSUME NEW L, NEW a \in Seq(L), NEW b \in Seq(L)
    PROVE  IsMatching(Diff!Matched(a, b), a, b, <<1, Len(a), 1, Len(b)>>)
<1>1. PICK h : IsSearch(h, a, b) /\ Diff!Matched(a, b) = h[<<1, Len(a), 1, Len(b)>>]
  BY MatchedIsFound
<1>2. <<1, Len(a), 1, Len(b)>> \in Spans(a, b)
  <2>1. Len(a) \in Nat /\ Len(b) \in Nat
    OBVIOUS
  <2>2. 1 \in 1..(Len(a) + 1) /\ Len(a) \in 0..Len(a) /\ 1 \in 1..(Len(b) + 1) /\ Len(b) \in 0..Len(b)
    BY <2>1
  <2> QED BY <2>2 DEF Spans
<1> QED
  BY <1>1, <1>2, SearchMatches

\* Two sets differ by what is gone and what has come.
Differ(A, B, gone, come) ==
    \E P, Q : /\ P \subseteq A /\ Q \subseteq B /\ SameSize(P, Q)
              /\ SameSize(A \ P, gone) /\ SameSize(B \ Q, come)

\* What is shown as removed and as added are the lines that are in no pair: the rest of
\* both sides is the same lines.
LEMMA ChangesCount ==
    ASSUME NEW L, NEW a \in Seq(L), NEW b \in Seq(L), NEW line
    PROVE  Differ(PlacesOf(a, line), PlacesOf(b, line), PlacesOf(Diff!ChangedLines(a, b).removed, line),
                  PlacesOf(Diff!ChangedLines(a, b).added, line))
<1> DEFINE M == Diff!Matched(a, b)
           left == {m[1] : m \in M}
           right == {m[2] : m \in M}
           P == {n \in left : a[n] = line}
           Q == {n \in right : b[n] = line}
<1>1. /\ DOMAIN a = 1..Len(a) /\ DOMAIN b = 1..Len(b) /\ Len(a) \in Nat /\ Len(b) \in Nat
  OBVIOUS
<1>2. /\ \A m \in M : m[1] \in 1..Len(a) /\ m[2] \in 1..Len(b) /\ a[m[1]] = b[m[2]]
      /\ \A m, o \in M : m[1] = o[1] <=> m[2] = o[2]
  <2> DEFINE q == <<1, Len(a), 1, Len(b)>>
  <2>1. IsMatching(M, a, b, q)
    BY MatchedMatches
  <2>2. q[1] = 1 /\ q[2] = Len(a) /\ q[3] = 1 /\ q[4] = Len(b)
    OBVIOUS
  <2> HIDE DEF q, M
  <2> QED BY <2>1, <2>2 DEF IsMatching
<1>3. /\ Diff!ChangedLines(a, b).removed = Diff!At(a, DOMAIN a \ left)
      /\ Diff!ChangedLines(a, b).added = Diff!At(b, DOMAIN b \ right)
  BY DEF Diff!ChangedLines
<1> HIDE DEF M
<1>4. left \subseteq 1..Len(a) /\ right \subseteq 1..Len(b)
  BY <1>2
<1>5. /\ \A n \in left : \E m \in M : m[1] = n
      /\ \A n \in right : \E m \in M : m[2] = n
      /\ \A m \in M : m[1] \in left /\ m[2] \in right
  OBVIOUS
<1> HIDE DEF left, right
<1>6. P \subseteq PlacesOf(a, line) /\ Q \subseteq PlacesOf(b, line)
  BY <1>1, <1>4, Zenon DEF PlacesOf
<1>7. SameSize(P, Q)
  <2> DEFINE R == {e \in P \X Q : \E m \in M : e[1] = m[1] /\ e[2] = m[2]}
  <2>1. \A x \in P, y \in Q : <<x, y>> \in R <=> \E m \in M : x = m[1] /\ y = m[2]
    OBVIOUS
  <2>2. R \subseteq P \X Q
    OBVIOUS
  <2>3. \A n : n \in P <=> n \in left /\ a[n] = line
    OBVIOUS
  <2>4. \A n : n \in Q <=> n \in right /\ b[n] = line
    OBVIOUS
  <2>5. IsFiniteSet(P)
    <3>1. IsFiniteSet(1..Len(a))
      BY <1>1, FS_Interval
    <3>2. P \in SUBSET (1..Len(a))
      BY <1>4, Zenon
    <3> QED BY <3>1, <3>2, FS_Subset, Zenon
  <2> HIDE DEF P, Q, R
  <2>6. \A x \in P : \E y \in Q : <<x, y>> \in R
    BY <1>2, <1>5, <2>1, <2>3, <2>4
  <2>7. \A y \in Q : \E x \in P : <<x, y>> \in R
    BY <1>2, <1>5, <2>1, <2>3, <2>4
  <2>8. \A x, z \in P : \A y \in Q : <<x, y>> \in R /\ <<z, y>> \in R => x = z
    BY <1>2, <2>1
  <2>9. \A x \in P : \A y, z \in Q : <<x, y>> \in R /\ <<x, z>> \in R => y = z
    BY <1>2, <2>1
  <2>10. Pairs(R, P, Q)
    BY <2>2, <2>6, <2>7, <2>8, <2>9, Zenon DEF Pairs
  <2> QED BY <2>5, <2>10, PairsAreSameSize
<1>8. SameSize(PlacesOf(a, line) \ P, PlacesOf(Diff!ChangedLines(a, b).removed, line))
  <2> DEFINE S == DOMAIN a \ left
  <2>1. S \in SUBSET (1..Len(a))
    BY <1>1
  <2>2. {n \in S : a[n] = line} = PlacesOf(a, line) \ P
    BY DEF PlacesOf
  <2> HIDE DEF S
  <2>3. SameSize({n \in S : a[n] = line}, PlacesOf(Diff!At(a, S), line))
    BY <2>1, PickKeepsLines
  <2> HIDE DEF P
  <2> QED BY <1>3, <2>2, <2>3, Zenon DEF S
<1>9. SameSize(PlacesOf(b, line) \ Q, PlacesOf(Diff!ChangedLines(a, b).added, line))
  <2> DEFINE S == DOMAIN b \ right
  <2>1. S \in SUBSET (1..Len(b))
    BY <1>1
  <2>2. {n \in S : b[n] = line} = PlacesOf(b, line) \ Q
    BY DEF PlacesOf
  <2> HIDE DEF S
  <2>3. SameSize({n \in S : b[n] = line}, PlacesOf(Diff!At(b, S), line))
    BY <2>1, PickKeepsLines
  <2> HIDE DEF Q
  <2> QED BY <1>3, <2>2, <2>3, Zenon DEF S
<1> HIDE DEF P, Q
<1> QED
  BY <1>6, <1>7, <1>8, <1>9, Zenon DEF Differ

-----------------------------------------------------------------------------
(* The rows that show the changes.                                           *)

\* A set of natural numbers that is not empty has a smallest.
LEMMA SmallestExists ==
    ASSUME NEW S \in SUBSET Nat, S # {}
    PROVE  \E x \in S : \A y \in S : x <= y
<1> DEFINE R == {ss \in Nat \X Nat : ss[1] < ss[2]}
<1>1. IsWellFoundedOn(R, Nat)
  BY NatLessThanWellFounded DEF OpToRel
<1>2. PICK x \in S : \A y \in S : ~(<<y, x>> \in R)
  <2> HIDE DEF R
  <2> QED BY <1>1, WFMin, Zenon
<1>3. \A y \in S : x <= y
  <2> TAKE y \in S
  <2>1. ~(y < x)
    BY <1>2, Zenon
  <2> QED BY <2>1
<1> QED
  BY <1>3

\* The rows shown so far, and the new lines in them.
Rows(L) == [startup_line : L, running_line : L \cup {Diff!NoLine}]
ShownSoFar(L, added) == [rows : Seq(Rows(L)), used : SUBSET (DOMAIN added)]

\* The old lines are shown side by side with new ones, one after the other.
IsPairing(f, removed, added) ==
    /\ f[0] = [rows |-> <<>>, used |-> {}]
    /\ \A n \in 1..Len(removed) : f[n] = Diff!Beside(added, f[n - 1], removed[n])

IsBeside(next, L, added, shown, old) ==
    \E row \in Rows(L), used \in SUBSET (DOMAIN added) :
        /\ next = [rows |-> Append(shown.rows, row), used |-> used]
        /\ row.startup_line = old
        /\ \/ row.running_line = Diff!NoLine /\ used = shown.used
           \/ \E i \in DOMAIN added \ shown.used :
                  row.running_line = added[i] /\ used = shown.used \cup {i}

\* A row more shows the old line, and a new line that was not shown or none.
LEMMA BesideAdds ==
    ASSUME NEW L, NEW added \in Seq(L), NEW shown \in ShownSoFar(L, added), NEW old \in L
    PROVE  IsBeside(Diff!Beside(added, shown, old), L, added, shown, old)
<1> DEFINE alike == Diff!Alike(old, added, shown.used)
           first == CHOOSE n \in alike : \A m \in alike : n <= m
<1>1. /\ shown.rows \in Seq(Rows(L)) /\ shown.used \in SUBSET (DOMAIN added)
      /\ shown = [rows |-> shown.rows, used |-> shown.used]
  BY DEF ShownSoFar
<1>2. alike \subseteq DOMAIN added \ shown.used
  BY DEF Diff!Alike
<1>3. DOMAIN added \in SUBSET Nat /\ \A n \in DOMAIN added : added[n] \in L
  OBVIOUS
<1> HIDE DEF alike
<1>4. CASE alike = {}
  <2> DEFINE row == Diff!Row(old, Diff!NoLine)
  <2>1. Diff!Beside(added, shown, old) = [shown EXCEPT !.rows = Append(@, row)]
    BY <1>4 DEF Diff!Beside, alike
  <2>2. row \in Rows(L) /\ row.startup_line = old /\ row.running_line = Diff!NoLine
    <3> DEFINE none == Diff!NoLine
    <3> HIDE DEF none
    <3>1. [startup_line |-> old, running_line |-> none] \in
                [startup_line : L, running_line : L \cup {none}]
      OBVIOUS
    <3> QED BY <3>1 DEF none, Diff!Row, Rows
  <2> HIDE DEF row
  <2>3. [shown EXCEPT !.rows = Append(@, row)] = [rows |-> Append(shown.rows, row), used |-> shown.used]
    <3> DEFINE r == shown.rows
               u == shown.used
               x == Append(shown.rows, row)
    <3>1. shown = [rows |-> r, used |-> u]
      BY <1>1
    <3> HIDE DEF r, u, x
    <3>2. [shown EXCEPT !.rows = x] = [rows |-> x, used |-> u]
      BY <3>1
    <3> QED BY <3>2 DEF x, u
  <2> QED BY <1>1, <2>1, <2>2, <2>3, Zenon DEF IsBeside
<1>5. CASE alike # {}
  <2>1. first \in alike
    <3>1. alike \in SUBSET Nat
      BY <1>2, <1>3
    <3>2. \E n \in alike : \A m \in alike : n <= m
      BY <1>5, <3>1, SmallestExists
    <3> QED BY <3>2
  <2> DEFINE row == Diff!Row(old, added[first])
  <2>2. Diff!Beside(added, shown, old) = [rows |-> Append(shown.rows, row), used |-> shown.used \cup {first}]
    BY <1>5 DEF Diff!Beside, alike
  <2> HIDE DEF first
  <2>3. first \in DOMAIN added \ shown.used /\ added[first] \in L
    BY <1>2, <1>3, <2>1
  <2>4. row \in Rows(L) /\ row.startup_line = old /\ row.running_line = added[first]
    <3> DEFINE none == Diff!NoLine
               new == added[first]
    <3> HIDE DEF none, new
    <3>1. new \in L
      BY <2>3 DEF new
    <3>2. [startup_line |-> old, running_line |-> new] \in
                [startup_line : L, running_line : L \cup {none}]
      BY <3>1
    <3> QED BY <3>2 DEF none, new, Diff!Row, Rows
  <2> HIDE DEF row
  <2>5. shown.used \cup {first} \in SUBSET (DOMAIN added)
    BY <1>1, <2>3
  <2> QED BY <2>2, <2>3, <2>4, <2>5, Zenon DEF IsBeside
<1> QED
  BY <1>4, <1>5

\* The fold that shows old lines beside new ones, line by line.
LEMMA PairingSteps ==
    ASSUME NEW L, NEW removed \in Seq(L), NEW added \in Seq(L)
    PROVE  \E f : /\ IsPairing(f, removed, added)
                  /\ \A n \in 0..Len(removed) : f[n] \in ShownSoFar(L, added)
                  /\ Diff!AlignChangedLines(removed, added) =
                        LET rest == Diff!At(added, DOMAIN added \ f[Len(removed)].used)
                        IN  f[Len(removed)].rows \o
                                [n \in DOMAIN rest |-> Diff!Row(Diff!NoLine, rest[n])]
<1>1. PICK N \in Nat : N = Len(removed)
  OBVIOUS
<1> DEFINE V == ShownSoFar(L, added)
           start == [rows |-> <<>>, used |-> {}]
           step == [p \in V \X (1..N) |-> Diff!Beside(added, p[1], removed[p[2]])]
           Def(h) == [s \in SUBSET (1..N) |->
                        IF s = {} THEN start ELSE Diff!Beside(added, h[s \ {Max(s)}], removed[Max(s)])]
           iter == CHOOSE h : h = Def(h)
<1>2. DOMAIN removed = 1..N /\ \A n \in 1..N : removed[n] \in L
  BY <1>1
<1>3. start \in V
  <2> DEFINE S == Rows(L)
  <2> HIDE DEF S
  <2>1. <<>> \in Seq(S)
    BY EmptySeq
  <2>2. start \in [rows : Seq(S), used : SUBSET (DOMAIN added)]
    BY <2>1
  <2> QED BY <2>2, Zenon DEF ShownSoFar, S
<1>20. ASSUME NEW v \in V, NEW n \in 1..N PROVE Diff!Beside(added, v, removed[n]) \in V
  <2>1. PICK row \in Rows(L), used \in SUBSET (DOMAIN added) :
            Diff!Beside(added, v, removed[n]) = [rows |-> Append(v.rows, row), used |-> used]
    <3>1. removed[n] \in L
      BY <1>2
    <3>2. IsBeside(Diff!Beside(added, v, removed[n]), L, added, v, removed[n])
      BY <3>1, BesideAdds, Zenon
    <3> QED BY <3>2, Zenon DEF IsBeside
  <2> DEFINE S == Rows(L)
  <2>2. v.rows \in Seq(S)
    BY DEF ShownSoFar
  <2> HIDE DEF S
  <2>3. row \in S
    BY DEF S
  <2>4. Append(v.rows, row) \in Seq(S)
    BY <2>2, <2>3
  <2>5. [rows |-> Append(v.rows, row), used |-> used] \in [rows : Seq(S), used : SUBSET (DOMAIN added)]
    BY <2>4
  <2> QED BY <2>1, <2>5 DEF ShownSoFar, S
<1>4. step \in [V \X (1..N) -> V]
  <2> HIDE DEF V
  <2> QED BY <1>20
<1> HIDE DEF V
<1>5. \A v \in V, n \in 1..N : step[<<v, n>>] = Diff!Beside(added, v, removed[n])
  OBVIOUS
<1> HIDE DEF start
<1>6. PICK h \in [SUBSET (1..N) -> V] : IsFold(h, N, start, step)
  <2> HIDE DEF step
  <2> QED BY <1>3, <1>4, FoldExists, Zenon
<1>7. \A s \in SUBSET (1..N) : s # {} => Max(s) \in 1..N /\ h[s \ {Max(s)}] \in V
  <2>1. ASSUME NEW s \in SUBSET (1..N), s # {} PROVE Max(s) \in s
    BY <2>1, MaxOfSome, Zenon
  <2> QED BY <2>1, Zenon
<1>8. h = Def(h)
  <2>1. \A s \in SUBSET (1..N) :
            h[s] = IF s = {} THEN start ELSE Diff!Beside(added, h[s \ {Max(s)}], removed[Max(s)])
    <3> HIDE DEF step
    <3> QED BY <1>5, <1>6, <1>7, Zenon DEF IsFold
  <2> QED BY <2>1, Zenon
<1>9. iter = Def(iter)
  <2> HIDE DEF Def
  <2> QED BY <1>8
<1>10. Diff!AlignChangedLines(removed, added) =
            LET rest == Diff!At(added, DOMAIN added \ iter[1..N].used)
            IN  iter[1..N].rows \o [n \in DOMAIN rest |-> Diff!Row(Diff!NoLine, rest[n])]
  BY <1>2 DEF start, Diff!AlignChangedLines, Diff!FoldLeft, Diff!MapThenFoldSet, Diff!Max, Max
<1> HIDE DEF iter
<1> DEFINE f == [n \in 0..N |-> iter[1..n]]
<1>11. f[0] = start
  <2>1. 1..0 = {} /\ {} \in SUBSET (1..N)
    OBVIOUS
  <2> QED BY <1>9, <2>1
<1>12. ASSUME NEW n \in 1..N PROVE f[n] = Diff!Beside(added, f[n - 1], removed[n])
  <2>1. n \in Nat \ {0} /\ 1..n \in SUBSET (1..N) /\ n - 1 \in 0..N /\ n \in 0..N
    OBVIOUS
  <2>2. 1..n # {} /\ Max(1..n) = n /\ (1..n) \ {n} = 1..(n - 1)
    BY <2>1, MaxOfPrefix, Zenon
  <2> QED BY <1>9, <2>1, <2>2, Zenon
<1>13. f[N] = iter[1..N]
  OBVIOUS
<1> HIDE DEF f
<1>14. \A n \in 0..N : f[n] \in V
  <2> DEFINE T == {n \in Nat : n <= N => f[n] \in V}
  <2>1. 0 \in T
    BY <1>3, <1>11
  <2>2. ASSUME NEW n \in Nat, n \in T PROVE n + 1 \in T
    <3> SUFFICES ASSUME n + 1 <= N PROVE f[n + 1] \in V
      OBVIOUS
    <3>1. f[n] \in V /\ n + 1 \in 1..N /\ (n + 1) - 1 = n
      BY <2>2
    <3>2. f[n + 1] = Diff!Beside(added, f[n], removed[n + 1])
      BY <1>12, <3>1
    <3>4. Diff!Beside(added, f[n], removed[n + 1]) \in V
      BY <3>1, <1>20
    <3> QED BY <3>2, <3>4
  <2>3. \A n \in Nat : n \in T
    <3> HIDE DEF T
    <3> QED BY <2>1, <2>2, NatSetInduction
  <2> QED BY <2>3
<1>15. Diff!AlignChangedLines(removed, added) =
            LET rest == Diff!At(added, DOMAIN added \ f[N].used)
            IN  f[N].rows \o [n \in DOMAIN rest |-> Diff!Row(Diff!NoLine, rest[n])]
  BY <1>10, <1>13
<1>16. IsPairing(f, removed, added)
  BY <1>1, <1>11, <1>12 DEF IsPairing, start
<1> QED
  BY <1>1, <1>14, <1>15, <1>16, Zenon DEF V

\* The rows so far: each shows its old line, and the new lines shown are those used.
ShowsUsed(shown, n, removed, added, line) ==
    /\ Len(shown.rows) = n /\ DOMAIN shown.rows = 1..n
    /\ \A m \in 1..n : shown.rows[m].startup_line = removed[m]
    /\ shown.used \in SUBSET (DOMAIN added)
    /\ SameSize({i \in shown.used : added[i] = line}, {m \in 1..n : shown.rows[m].running_line = line})

\* A row more keeps that the rows show the new lines used and no others.
LEMMA BesideShowsUsed ==
    ASSUME NEW L, NEW removed \in Seq(L), NEW added \in Seq(L), NEW line \in L, Diff!NoLine \notin L,
           NEW n \in Nat, n + 1 \in 1..Len(removed), NEW shown \in ShownSoFar(L, added),
           ShowsUsed(shown, n, removed, added, line)
    PROVE  ShowsUsed(Diff!Beside(added, shown, removed[n + 1]), n + 1, removed, added, line)
<1> DEFINE old == removed[n + 1]
           next == Diff!Beside(added, shown, old)
           U(s) == {i \in s : added[i] = line}
           W(r, m) == {i \in 1..m : r[i].running_line = line}
<1>1. old \in L
  OBVIOUS
<1>2. IsBeside(next, L, added, shown, old)
  BY <1>1, BesideAdds, Zenon
<1> HIDE DEF old, next
<1>3. PICK row \in Rows(L), used \in SUBSET (DOMAIN added) :
        /\ next = [rows |-> Append(shown.rows, row), used |-> used]
        /\ row.startup_line = old
        /\ \/ row.running_line = Diff!NoLine /\ used = shown.used
           \/ \E i \in DOMAIN added \ shown.used :
                  row.running_line = added[i] /\ used = shown.used \cup {i}
  BY <1>2, Zenon DEF IsBeside
<1> DEFINE r == Append(shown.rows, row)
<1>4. next.rows = r /\ next.used = used
  BY <1>3
<1>5. /\ Len(shown.rows) = n /\ DOMAIN shown.rows = 1..n
      /\ \A m \in 1..n : shown.rows[m].startup_line = removed[m]
      /\ SameSize(U(shown.used), W(shown.rows, n))
  BY DEF ShowsUsed
<1>6. Len(r) = n + 1 /\ DOMAIN r = 1..(n + 1) /\ r[n + 1] = row
      /\ \A m \in 1..n : r[m] = shown.rows[m]
  <2> DEFINE S == Rows(L)
  <2>1. shown.rows \in Seq(S)
    BY DEF ShownSoFar
  <2> HIDE DEF S
  <2>2. row \in S
    BY DEF S
  <2> QED BY <1>5, <2>1, <2>2
<1> HIDE DEF r
<1>7. \A m \in 1..(n + 1) : r[m].startup_line = removed[m]
  <2> TAKE m \in 1..(n + 1)
  <2>1. CASE m = n + 1
    BY <1>3, <1>6, <2>1 DEF old
  <2>2. CASE m # n + 1
    <3>1. m \in 1..n
      BY <2>2
    <3> QED BY <1>5, <1>6, <3>1
  <2> QED BY <2>1, <2>2
<1>8. W(r, n) = W(shown.rows, n)
  BY <1>6
<1>9. n + 1 \notin W(r, n)
  OBVIOUS
<1>10. W(r, n + 1) = IF row.running_line = line THEN W(r, n) \cup {n + 1} ELSE W(r, n)
  <2>1. \A m \in 1..(n + 1) : m \in 1..n \/ m = n + 1
    OBVIOUS
  <2>2. n + 1 \in 1..(n + 1) /\ 1..n \subseteq 1..(n + 1)
    OBVIOUS
  <2> QED BY <1>6, <2>1, <2>2
<1>11. SameSize(U(used), W(r, n + 1))
  <2>1. CASE row.running_line = Diff!NoLine /\ used = shown.used
    <3>1. row.running_line # line
      BY <2>1
    <3> QED BY <1>5, <1>8, <1>10, <2>1, <3>1, Zenon
  <2>2. ASSUME NEW i \in DOMAIN added \ shown.used,
               row.running_line = added[i] /\ used = shown.used \cup {i}
        PROVE  SameSize(U(used), W(r, n + 1))
    <3>1. i \notin U(shown.used)
      BY <2>2
    <3>2. U(used) = IF added[i] = line THEN U(shown.used) \cup {i} ELSE U(shown.used)
      BY <2>2
    <3>3. CASE added[i] = line
      <4>1. U(used) = U(shown.used) \cup {i} /\ W(r, n + 1) = W(r, n) \cup {n + 1}
        BY <1>10, <2>2, <3>2, <3>3
      <4>2. SameSize(U(shown.used), W(r, n))
        BY <1>5, <1>8, Zenon
      <4> HIDE DEF U, W
      <4>3. /\ IsFiniteSet(U(used)) /\ Cardinality(U(used)) = Cardinality(U(shown.used)) + 1
        BY <3>1, <4>1, <4>2, FS_AddElement DEF SameSize
      <4>4. /\ IsFiniteSet(W(r, n + 1)) /\ Cardinality(W(r, n + 1)) = Cardinality(W(r, n)) + 1
        BY <1>9, <4>1, <4>2, FS_AddElement DEF SameSize
      <4> QED BY <4>2, <4>3, <4>4 DEF SameSize
    <3>4. CASE added[i] # line
      BY <1>5, <1>8, <1>10, <2>2, <3>2, <3>4, Zenon
    <3> QED BY <3>3, <3>4
  <2> QED BY <1>3, <2>1, <2>2, Zenon
<1>12. ShowsUsed(next, n + 1, removed, added, line)
  BY <1>4, <1>6, <1>7, <1>11 DEF ShowsUsed
<1> QED
  BY <1>12 DEF next, old

\* The rows of all old lines show the new lines used and no others.
LEMMA PairingShowsUsed ==
    ASSUME NEW L, NEW removed \in Seq(L), NEW added \in Seq(L), NEW line \in L, Diff!NoLine \notin L,
           NEW f, IsPairing(f, removed, added),
           \A n \in 0..Len(removed) : f[n] \in ShownSoFar(L, added)
    PROVE  ShowsUsed(f[Len(removed)], Len(removed), removed, added, line)
<1>1. PICK N \in Nat : N = Len(removed)
  OBVIOUS
<1> DEFINE T == {n \in Nat : n <= N => ShowsUsed(f[n], n, removed, added, line)}
<1>2. f[0] = [rows |-> <<>>, used |-> {}] /\ \A n \in 1..N : f[n] = Diff!Beside(added, f[n - 1], removed[n])
  BY <1>1 DEF IsPairing
<1>3. 0 \in T
  <2>1. f[0].rows = <<>> /\ f[0].used = {}
    BY <1>2
  <2>2. Len(<<>>) = 0 /\ DOMAIN <<>> = 1..0 /\ 1..0 = {}
    OBVIOUS
  <2>3. {i \in {} : added[i] = line} = {}
    OBVIOUS
  <2>4. {m \in {} : f[0].rows[m].running_line = line} = {}
    OBVIOUS
  <2>5. SameSize({}, {})
    BY FS_EmptySet DEF SameSize
  <2>6. ShowsUsed(f[0], 0, removed, added, line)
    BY <2>1, <2>2, <2>3, <2>4, <2>5 DEF ShowsUsed
  <2> QED BY <2>6
<1>4. ASSUME NEW n \in Nat, n \in T PROVE n + 1 \in T
  <2> SUFFICES ASSUME n + 1 <= N PROVE ShowsUsed(f[n + 1], n + 1, removed, added, line)
    OBVIOUS
  <2>1. n + 1 \in 1..N /\ (n + 1) - 1 = n /\ n \in 0..N
    OBVIOUS
  <2>2. ShowsUsed(f[n], n, removed, added, line)
    BY <1>4
  <2>3. f[n + 1] = Diff!Beside(added, f[n], removed[n + 1]) /\ f[n] \in ShownSoFar(L, added)
    BY <1>1, <1>2, <2>1
  <2>4. ShowsUsed(Diff!Beside(added, f[n], removed[n + 1]), n + 1, removed, added, line)
    <3>1. n + 1 \in 1..Len(removed)
      BY <1>1, <2>1
    <3> QED BY <2>2, <2>3, <3>1, BesideShowsUsed, Zenon
  <2> QED BY <2>3, <2>4
<1>5. ShowsUsed(f[N], N, removed, added, line)
  <2>1. \A n \in Nat : n \in T
    <3> HIDE DEF T
    <3> QED BY <1>3, <1>4, NatSetInduction
  <2>2. N \in T
    <3> HIDE DEF T
    <3> QED BY <1>1, <2>1
  <2>3. N <= N
    BY <1>1
  <2> QED BY <2>2, <2>3
<1> QED
  BY <1>1, <1>5

\* Rows show a line as often as it was removed on the old side, and added on the new.
RowsShow(rows, removed, added, line) ==
    /\ SameSize(PlacesOf(removed, line), {n \in DOMAIN rows : rows[n].startup_line = line})
    /\ SameSize(PlacesOf(added, line), {n \in DOMAIN rows : rows[n].running_line = line})

\* The rows show each change once (configuration.py:_align_changed_lines).
LEMMA RowsShowChanges ==
    ASSUME NEW L, NEW removed \in Seq(L), NEW added \in Seq(L), NEW line \in L, Diff!NoLine \notin L,
           NEW rows, rows = Diff!AlignChangedLines(removed, added)
    PROVE  RowsShow(rows, removed, added, line)
<1>1. PICK N \in Nat : N = Len(removed) /\ DOMAIN removed = 1..N
  OBVIOUS
<1>2. PICK f : /\ IsPairing(f, removed, added)
               /\ \A n \in 0..Len(removed) : f[n] \in ShownSoFar(L, added)
               /\ rows = LET rest == Diff!At(added, DOMAIN added \ f[Len(removed)].used)
                         IN  f[Len(removed)].rows \o
                                [n \in DOMAIN rest |-> Diff!Row(Diff!NoLine, rest[n])]
  BY PairingSteps, Zenon
<1> DEFINE shown == f[Len(removed)]
           S == DOMAIN added \ shown.used
           rest == Diff!At(added, S)
           tail == [n \in DOMAIN rest |-> Diff!Row(Diff!NoLine, rest[n])]
           w == shown.rows
<1>3. ShowsUsed(shown, N, removed, added, line)
  <2>1. ShowsUsed(shown, Len(removed), removed, added, line)
    BY <1>2, PairingShowsUsed, Zenon
  <2> QED BY <1>1, <2>1
<1>4. shown \in ShownSoFar(L, added)
  <2>1. Len(removed) \in 0..Len(removed)
    BY <1>1
  <2> QED BY <1>2, <2>1
<1>5. rows = w \o tail
  BY <1>2
<1> HIDE DEF shown
<1>6. /\ Len(w) = N /\ DOMAIN w = 1..N
      /\ \A m \in 1..N : w[m].startup_line = removed[m]
      /\ shown.used \in SUBSET (DOMAIN added)
      /\ SameSize({i \in shown.used : added[i] = line}, {m \in 1..N : w[m].running_line = line})
  BY <1>3 DEF ShowsUsed
<1>7. DOMAIN added = 1..Len(added) /\ Len(added) \in Nat
  OBVIOUS
<1>8. S \in SUBSET (1..Len(added))
  BY <1>7
<1>9. IsPicked(rest, added, S) /\ rest \in Seq(L)
  BY <1>8, PickedPlaces
<1>10. SameSize({n \in S : added[n] = line}, PlacesOf(rest, line))
  BY <1>8, PickKeepsLines
<1> HIDE DEF rest, S, w
<1>11. PICK c \in Nat : c = Len(rest) /\ DOMAIN rest = 1..c
  BY <1>9
<1>12. tail = [n \in 1..c |-> Diff!Row(Diff!NoLine, rest[n])]
  BY <1>11
<1>13. Len(tail) = c /\ DOMAIN tail = 1..c
       /\ \A n \in 1..c : tail[n].startup_line = Diff!NoLine /\ tail[n].running_line = rest[n]
  BY <1>12 DEF Diff!Row
<1> HIDE DEF tail
<1>14. /\ DOMAIN rows = 1..(N + c)
       /\ \A n \in 1..N : rows[n] = w[n]
       /\ \A n \in 1..c : rows[N + n] = tail[n]
  <2> DEFINE X == {w[n] : n \in 1..N} \cup {tail[n] : n \in 1..c}
  <2>1. w \in Seq(X) /\ tail \in Seq(X)
    <3>1. w \in Seq(Rows(L))
      BY <1>4 DEF w, ShownSoFar
    <3>2. w = [n \in 1..N |-> w[n]]
      <4> DEFINE R == Rows(L)
      <4> HIDE DEF R
      <4>1. w \in Seq(R)
        BY <3>1 DEF R
      <4> QED BY <1>6, <4>1
    <3>3. tail = [n \in 1..c |-> tail[n]]
      BY <1>12, <1>13 DEF tail
    <3>4. (\A n \in 1..N : w[n] \in X) /\ (\A n \in 1..c : tail[n] \in X)
      OBVIOUS
    <3> HIDE DEF X
    <3>5. w \in [1..N -> X] /\ tail \in [1..c -> X]
      BY <3>2, <3>3, <3>4
    <3> QED BY <3>5, ListIsSequence, Zenon
  <2> HIDE DEF X
  <2>2. /\ rows \in Seq(X) /\ Len(rows) = Len(w) + Len(tail)
        /\ \A i \in 1..Len(w) : rows[i] = w[i]
        /\ \A j \in 1..Len(tail) : rows[Len(w) + j] = tail[j]
    BY <1>5, <2>1, ConcatElements
  <2> QED BY <1>6, <1>13, <2>2
<1>15. ASSUME NEW n \in DOMAIN rows
       PROVE  \/ n \in 1..N /\ rows[n].startup_line = removed[n] /\ rows[n].running_line = w[n].running_line
              \/ \E j \in 1..c : n = N + j /\ rows[n].startup_line = Diff!NoLine
                                 /\ rows[n].running_line = rest[j]
  <2>1. CASE n \in 1..N
    BY <1>6, <1>14, <2>1
  <2>2. CASE n \notin 1..N
    <3>1. n - N \in 1..c /\ n = N + (n - N)
      BY <1>14, <2>2
    <3> QED BY <1>13, <1>14, <3>1
  <2> QED BY <2>1, <2>2
<1>16. /\ \A n \in 1..N : /\ n \in DOMAIN rows /\ rows[n].startup_line = removed[n]
                         /\ rows[n].running_line = w[n].running_line
       /\ \A j \in 1..c : N + j \in DOMAIN rows /\ rows[N + j].running_line = rest[j]
  <2>1. \A n \in 1..N : n \in 1..(N + c)
    OBVIOUS
  <2>2. \A j \in 1..c : N + j \in 1..(N + c)
    OBVIOUS
  <2> QED BY <1>6, <1>13, <1>14, <2>1, <2>2
<1>17. line # Diff!NoLine
  OBVIOUS
<1>18. SameSize(PlacesOf(removed, line), {n \in DOMAIN rows : rows[n].startup_line = line})
  <2>1. {n \in DOMAIN rows : rows[n].startup_line = line} = PlacesOf(removed, line)
    <3>1. \A n \in DOMAIN rows : rows[n].startup_line = line => n \in PlacesOf(removed, line)
      BY <1>1, <1>15, <1>17 DEF PlacesOf
    <3>2. \A n \in PlacesOf(removed, line) : n \in DOMAIN rows /\ rows[n].startup_line = line
      BY <1>1, <1>16 DEF PlacesOf
    <3> QED BY <3>1, <3>2
  <2>2. IsFiniteSet(PlacesOf(removed, line))
    <3>1. IsFiniteSet(1..N)
      BY FS_Interval
    <3>2. PlacesOf(removed, line) \in SUBSET (1..N)
      BY <1>1 DEF PlacesOf
    <3> QED BY <3>1, <3>2, FS_Subset, Zenon
  <2> QED BY <2>1, <2>2, Zenon DEF SameSize
<1> DEFINE All == {n \in DOMAIN rows : rows[n].running_line = line}
           W == {m \in 1..N : w[m].running_line = line}
           A == PlacesOf(rest, line)
           V == {N + j : j \in A}
           U == {i \in shown.used : added[i] = line}
           Z == {n \in S : added[n] = line}
<1>19. A \subseteq 1..c /\ \A j \in 1..c : j \in A <=> rest[j] = line
  BY <1>11 DEF PlacesOf
<1>20. All = W \cup V
  <2>1. \A n \in All : n \in W \/ n \in V
    <3> TAKE n \in All
    <3>1. n \in DOMAIN rows /\ rows[n].running_line = line
      OBVIOUS
    <3>2. CASE n \in 1..N /\ rows[n].running_line = w[n].running_line
      BY <3>1, <3>2
    <3>3. ASSUME NEW j \in 1..c, n = N + j, rows[n].running_line = rest[j]
          PROVE  n \in V
      BY <1>19, <3>1, <3>3
    <3> QED BY <1>15, <3>1, <3>2, <3>3
  <2>2. \A n \in W : n \in All
    BY <1>16
  <2>3. \A n \in V : n \in All
    <3> TAKE n \in V
    <3>1. PICK j \in A : n = N + j
      OBVIOUS
    <3> QED BY <1>16, <1>19, <3>1, Zenon
  <2> HIDE DEF All, W, V
  <2> QED BY <2>1, <2>2, <2>3
<1>21. W \cap V = {}
  <2> SUFFICES ASSUME NEW n \in W, n \in V PROVE FALSE
    OBVIOUS
  <2>1. PICK j \in A : n = N + j
    OBVIOUS
  <2>2. n \in 1..N /\ j \in 1..c
    BY <1>19
  <2> QED BY <2>1, <2>2
<1>22. SameSize(A, V)
  <2> DEFINE R == {e \in A \X V : e[2] = N + e[1]}
  <2>1. \A x \in A, y \in V : <<x, y>> \in R <=> y = N + x
    OBVIOUS
  <2>2. R \subseteq A \X V
    OBVIOUS
  <2>3. \A y \in V : \E x \in A : y = N + x
    OBVIOUS
  <2>4. \A x \in A : N + x \in V
    OBVIOUS
  <2> HIDE DEF A, V, R
  <2>5. \A x \in A : \E y \in V : <<x, y>> \in R
    BY <2>1, <2>4
  <2>6. \A y \in V : \E x \in A : <<x, y>> \in R
    BY <2>1, <2>3
  <2>7. \A x, z \in A : \A y \in V : <<x, y>> \in R /\ <<z, y>> \in R => x = z
    BY <1>19, <2>1
  <2>8. \A x \in A : \A y, z \in V : <<x, y>> \in R /\ <<x, z>> \in R => y = z
    BY <2>1
  <2>9. Pairs(R, A, V)
    BY <2>2, <2>5, <2>6, <2>7, <2>8, Zenon DEF Pairs
  <2>10. IsFiniteSet(A)
    BY <1>10 DEF SameSize, A
  <2> QED BY <2>9, <2>10, PairsAreSameSize
<1>23. SameSize(U, W) /\ SameSize(Z, A)
  BY <1>6, <1>10
<1>24. PlacesOf(added, line) = U \cup Z /\ U \cap Z = {}
  BY <1>6 DEF PlacesOf, S
<1> HIDE DEF All, W, A, V, U, Z
<1>25. SameSize(PlacesOf(added, line), All)
  <2>1. IsFiniteSet(U) /\ IsFiniteSet(Z) /\ IsFiniteSet(W) /\ IsFiniteSet(V)
    BY <1>22, <1>23 DEF SameSize
  <2>2. /\ IsFiniteSet(PlacesOf(added, line))
        /\ Cardinality(PlacesOf(added, line)) = Cardinality(U) + Cardinality(Z)
    BY <1>24, <2>1, SizesAdd, Zenon
  <2>3. IsFiniteSet(All) /\ Cardinality(All) = Cardinality(W) + Cardinality(V)
    BY <1>20, <1>21, <2>1, SizesAdd, Zenon
  <2> QED BY <1>22, <1>23, <2>2, <2>3 DEF SameSize
<1> QED
  BY <1>18, <1>25 DEF All, RowsShow

-----------------------------------------------------------------------------
(* The comparison of two configurations.                                     *)

\* One side with what has come is as large as the other with what is gone.
AddUp(A, B, gone, come) ==
    /\ IsFiniteSet(gone) /\ IsFiniteSet(come)
    /\ Cardinality(A) + Cardinality(come) = Cardinality(B) + Cardinality(gone)

\* Two sides that are the same where nothing changed, and elsewhere but for what is gone
\* and what has come, count the same with what has come and with what is gone.
LEMMA ChangesAddUp ==
    ASSUME NEW N, NEW K \in SUBSET N, NEW l, NEW r, NEW gone, NEW come,
           \A k \in N \ K : l[k] = r[k],
           \A k \in K : Differ(l[k], r[k], gone[k], come[k]),
           IsFiniteSet(Named(N, l)), IsFiniteSet(Named(N, r))
    PROVE  AddUp(Named(N, l), Named(N, r), Named(K, gone), Named(K, come))
<1> DEFINE Stay(k, P, Q) == /\ P \subseteq l[k] /\ Q \subseteq r[k] /\ SameSize(P, Q)
                            /\ SameSize(l[k] \ P, gone[k]) /\ SameSize(r[k] \ Q, come[k])
           p == [k \in K |-> CHOOSE P : \E Q : Stay(k, P, Q)]
           q == [k \in K |-> CHOOSE Q : Stay(k, p[k], Q)]
           dl == [k \in K |-> l[k] \ p[k]]
           dr == [k \in K |-> r[k] \ q[k]]
<1>1. \A k \in K : Stay(k, p[k], q[k])
  <2> HIDE DEF Stay
  <2>1. \A k \in K : \E P : \E Q : Stay(k, P, Q)
    BY Zenon DEF Stay, Differ
  <2>2. \A k \in K : \E Q : Stay(k, p[k], Q)
    BY <2>1, Zenon
  <2> HIDE DEF p
  <2> QED BY <2>2
<1> HIDE DEF p, q
<1>2. \A k \in K : /\ p[k] \subseteq l[k] /\ q[k] \subseteq r[k] /\ SameSize(p[k], q[k])
                   /\ SameSize(dl[k], gone[k]) /\ SameSize(dr[k], come[k])
                   /\ l[k] = p[k] \cup dl[k] /\ p[k] \cap dl[k] = {}
                   /\ r[k] = q[k] \cup dr[k] /\ q[k] \cap dr[k] = {}
  <2>1. \A k \in K : dl[k] = l[k] \ p[k] /\ dr[k] = r[k] \ q[k]
    OBVIOUS
  <2> HIDE DEF dl, dr
  <2> QED BY <1>1, <2>1, Zenon
<1> HIDE DEF Stay, dl, dr
<1> DEFINE A == Named(N \ K, l)
           LP == Named(K, p)
           LD == Named(K, dl)
           RQ == Named(K, q)
           RD == Named(K, dr)
<1>3. Named(N, l) = A \cup (LP \cup LD) /\ LP \cap LD = {} /\ A \cap (LP \cup LD) = {}
  <2>1. \A e \in Named(N, l) : e \in A \/ e \in LP \/ e \in LD
    <3> TAKE e \in Named(N, l)
    <3>1. PICK k \in N : \E n \in l[k] : e = <<k, n>>
      BY NamedHas
    <3>2. PICK n \in l[k] : e = <<k, n>>
      BY <3>1
    <3>3. k \in N \ K \/ (k \in K /\ n \in p[k]) \/ (k \in K /\ n \in dl[k])
      BY <1>2
    <3> QED BY <3>2, <3>3, NamedHas, Zenon
  <2>2. \A e \in A : e \in Named(N, l) /\ e \notin LP /\ e \notin LD
    <3> TAKE e \in A
    <3>1. PICK k \in N \ K : \E n \in l[k] : e = <<k, n>>
      BY NamedHas
    <3>2. PICK n \in l[k] : e = <<k, n>>
      BY <3>1
    <3>3. k \in N /\ k \notin K
      OBVIOUS
    <3> QED BY <3>2, <3>3, NamedHas, Zenon
  <2>3. \A e \in LP : e \in Named(N, l) /\ e \notin LD
    <3> TAKE e \in LP
    <3>1. PICK k \in K : \E n \in p[k] : e = <<k, n>>
      BY NamedHas
    <3>2. PICK n \in p[k] : e = <<k, n>>
      BY <3>1
    <3>3. k \in N /\ n \in l[k] /\ n \notin dl[k]
      BY <1>2
    <3> QED BY <3>2, <3>3, NamedHas, Zenon
  <2>4. \A e \in LD : e \in Named(N, l)
    <3> TAKE e \in LD
    <3>1. PICK k \in K : \E n \in dl[k] : e = <<k, n>>
      BY NamedHas
    <3>2. PICK n \in dl[k] : e = <<k, n>>
      BY <3>1
    <3>3. k \in N /\ n \in l[k]
      BY <1>2
    <3> QED BY <3>2, <3>3, NamedHas, Zenon
  <2> HIDE DEF A, LP, LD
  <2> QED BY <2>1, <2>2, <2>3, <2>4
<1>4. Named(N, r) = A \cup (RQ \cup RD) /\ RQ \cap RD = {} /\ A \cap (RQ \cup RD) = {}
  <2>1. \A e \in Named(N, r) : e \in A \/ e \in RQ \/ e \in RD
    <3> TAKE e \in Named(N, r)
    <3>1. PICK k \in N : \E n \in r[k] : e = <<k, n>>
      BY NamedHas
    <3>2. PICK n \in r[k] : e = <<k, n>>
      BY <3>1
    <3>3. (k \in N \ K /\ n \in l[k]) \/ (k \in K /\ n \in q[k]) \/ (k \in K /\ n \in dr[k])
      BY <1>2
    <3> QED BY <3>2, <3>3, NamedHas, Zenon
  <2>2. \A e \in A : e \in Named(N, r) /\ e \notin RQ /\ e \notin RD
    <3> TAKE e \in A
    <3>1. PICK k \in N \ K : \E n \in l[k] : e = <<k, n>>
      BY NamedHas
    <3>2. PICK n \in l[k] : e = <<k, n>>
      BY <3>1
    <3>3. k \in N /\ k \notin K /\ n \in r[k]
      OBVIOUS
    <3> QED BY <3>2, <3>3, NamedHas, Zenon
  <2>3. \A e \in RQ : e \in Named(N, r) /\ e \notin RD
    <3> TAKE e \in RQ
    <3>1. PICK k \in K : \E n \in q[k] : e = <<k, n>>
      BY NamedHas
    <3>2. PICK n \in q[k] : e = <<k, n>>
      BY <3>1
    <3>3. k \in N /\ n \in r[k] /\ n \notin dr[k]
      BY <1>2
    <3> QED BY <3>2, <3>3, NamedHas, Zenon
  <2>4. \A e \in RD : e \in Named(N, r)
    <3> TAKE e \in RD
    <3>1. PICK k \in K : \E n \in dr[k] : e = <<k, n>>
      BY NamedHas
    <3>2. PICK n \in dr[k] : e = <<k, n>>
      BY <3>1
    <3>3. k \in N /\ n \in r[k]
      BY <1>2
    <3> QED BY <3>2, <3>3, NamedHas, Zenon
  <2> HIDE DEF A, RQ, RD
  <2> QED BY <2>1, <2>2, <2>3, <2>4
<1> HIDE DEF A, LP, LD, RQ, RD
<1>5. IsFiniteSet(A) /\ IsFiniteSet(LP) /\ IsFiniteSet(LD) /\ IsFiniteSet(RD)
  BY <1>3, <1>4, FS_Subset
<1>6. SameSize(LP, RQ) /\ SameSize(LD, Named(K, gone)) /\ SameSize(RD, Named(K, come))
  BY <1>2, <1>5, NamedSameSize DEF LP, RQ, LD, RD
<1>7. IsFiniteSet(RQ) /\ IsFiniteSet(LP \cup LD) /\ IsFiniteSet(RQ \cup RD)
  BY <1>3, <1>4, FS_Subset
<1>8. /\ Cardinality(Named(N, l)) = Cardinality(A) + Cardinality(LP \cup LD)
      /\ Cardinality(LP \cup LD) = Cardinality(LP) + Cardinality(LD)
  BY <1>3, <1>5, <1>7, SizesAdd
<1>9. /\ Cardinality(Named(N, r)) = Cardinality(A) + Cardinality(RQ \cup RD)
      /\ Cardinality(RQ \cup RD) = Cardinality(RQ) + Cardinality(RD)
  BY <1>4, <1>5, <1>7, SizesAdd
<1>10. /\ Cardinality(A) \in Nat /\ Cardinality(LP) \in Nat /\ Cardinality(LD) \in Nat
       /\ Cardinality(RQ) \in Nat /\ Cardinality(RD) \in Nat
  BY <1>5, <1>7, FS_CardinalityType
<1> QED
  BY <1>6, <1>8, <1>9, <1>10 DEF SameSize, AddUp

\* The places of a line in blocks, by the names of the blocks of both sides.
LinesOf(blocks, k) == IF k \in DOMAIN blocks THEN blocks[k] ELSE <<>>

\* The places of a line in the blocks of one side, by the names of both.
LEMMA PlacesByName ==
    ASSUME NEW L, NEW blocks, \A k \in DOMAIN blocks : blocks[k] \in Seq(L),
           NEW N, DOMAIN blocks \subseteq N, NEW line
    PROVE  Named(N, [k \in N |-> PlacesOf(LinesOf(blocks, k), line)]) = PlacesIn(blocks, line)
<1> DEFINE p == [k \in N |-> PlacesOf(LinesOf(blocks, k), line)]
<1>1. \A k \in N : p[k] = PlacesOf(LinesOf(blocks, k), line)
  OBVIOUS
<1> HIDE DEF p
<1>2. ASSUME NEW k \in N, NEW n, n \in p[k]
      PROVE  k \in DOMAIN blocks /\ n \in Nat /\ n \in DOMAIN blocks[k] /\ blocks[k][n] = line
  <2>1. n \in DOMAIN LinesOf(blocks, k) /\ LinesOf(blocks, k)[n] = line
    BY <1>1, <1>2 DEF PlacesOf
  <2>2. DOMAIN <<>> = {}
    OBVIOUS
  <2>3. k \in DOMAIN blocks
    BY <2>1, <2>2 DEF LinesOf
  <2>4. DOMAIN blocks[k] \subseteq Nat
    BY <2>3
  <2> QED BY <2>1, <2>3, <2>4 DEF LinesOf
<1>3. \A e \in Named(N, p) : e \in PlacesIn(blocks, line)
  <2> TAKE e \in Named(N, p)
  <2>1. PICK k \in N : \E n \in p[k] : e = <<k, n>>
    BY NamedHas
  <2>2. PICK n \in p[k] : e = <<k, n>>
    BY <2>1
  <2>3. k \in DOMAIN blocks /\ n \in Nat /\ n \in DOMAIN blocks[k] /\ blocks[k][n] = line
    BY <1>2
  <2>4. <<k, n>> \in PlacesIn(blocks, line)
    BY <2>3, PlacesArePairs, Zenon
  <2> QED BY <2>2, <2>4
<1>4. \A e \in PlacesIn(blocks, line) : e \in Named(N, p)
  <2> TAKE e \in PlacesIn(blocks, line)
  <2>1. /\ e = <<e[1], e[2]>> /\ e[1] \in DOMAIN blocks /\ e[2] \in Nat
        /\ e[2] \in DOMAIN blocks[e[1]] /\ blocks[e[1]][e[2]] = line
    <3>1. \A x \in PlacesIn(blocks, line) :
                /\ x = <<x[1], x[2]>> /\ x[1] \in DOMAIN blocks /\ x[2] \in Nat
                /\ x[2] \in DOMAIN blocks[x[1]] /\ blocks[x[1]][x[2]] = line
      BY PlacesArePairs, Zenon
    <3> QED BY <3>1
  <2>2. e[1] \in N /\ e[2] \in p[e[1]]
    BY <1>1, <2>1 DEF PlacesOf, LinesOf
  <2>3. <<e[1], e[2]>> \in Named(N, p)
    BY <2>2, NamedHas, Zenon
  <2> QED BY <2>1, <2>3, Zenon
<1> QED
  BY <1>3, <1>4, Zenon DEF p

\* The lines shown as changed are lines of the two sides.
LEMMA ChangedAreLines ==
    ASSUME NEW L, NEW a \in Seq(L), NEW b \in Seq(L)
    PROVE  Diff!ChangedLines(a, b).removed \in Seq(L) /\ Diff!ChangedLines(a, b).added \in Seq(L)
<1> DEFINE P == DOMAIN a \ {m[1] : m \in Diff!Matched(a, b)}
           Q == DOMAIN b \ {m[2] : m \in Diff!Matched(a, b)}
<1>1. Diff!ChangedLines(a, b).removed = Diff!At(a, P) /\ Diff!ChangedLines(a, b).added = Diff!At(b, Q)
  BY DEF Diff!ChangedLines
<1>2. P \in SUBSET (1..Len(a)) /\ Q \in SUBSET (1..Len(b))
  <2>1. DOMAIN a = 1..Len(a) /\ DOMAIN b = 1..Len(b)
    OBVIOUS
  <2> QED BY <2>1
<1> HIDE DEF P, Q
<1>3. Diff!At(a, P) \in Seq(L) /\ Diff!At(b, Q) \in Seq(L)
  BY <1>2, PickedPlaces
<1> QED
  BY <1>1, <1>3

\* Where the sections of a comparison show a line: as removed, as added, and in the rows
\* on the old side and on the new.
Gone(sections, line) == UNION {{<<s.key, n>> : n \in PlacesOf(s.removed_lines, line)} : s \in sections}
Come(sections, line) == UNION {{<<s.key, n>> : n \in PlacesOf(s.added_lines, line)} : s \in sections}
OldSide(rows) == [n \in DOMAIN rows |-> rows[n].startup_line]
NewSide(rows) == [n \in DOMAIN rows |-> rows[n].running_line]
OldRows(sections, line) == UNION {{<<s.key, n>> : n \in PlacesOf(OldSide(s.rows), line)} : s \in sections}
NewRows(sections, line) == UNION {{<<s.key, n>> : n \in PlacesOf(NewSide(s.rows), line)} : s \in sections}

ShowsChanges(sections, left, right, line) ==
    /\ Cardinality(PlacesOf(left, line)) + Cardinality(Come(sections, line)) =
            Cardinality(PlacesOf(right, line)) + Cardinality(Gone(sections, line))
    /\ SameSize(Gone(sections, line), OldRows(sections, line))
    /\ SameSize(Come(sections, line), NewRows(sections, line))

\* Whatever the configurations, what the left has with what is shown as added is what the
\* right has with what is shown as removed, and the rows show each change once
\* (configuration.py:compare_cisco_configs).
THEOREM DiffKeepsLines ==
    ASSUME NEW L, NEW left \in Seq(L), NEW right \in Seq(L), Diff!NoLine \notin L,
           NEW line \in L, line # Diff!Separator,
           NEW sections, sections = Diff!CompareCiscoConfigs(left, right)
    PROVE  ShowsChanges(sections, left, right, line)
<1> DEFINE x == Diff!SplitCiscoBlocks(left)
           y == Diff!SplitCiscoBlocks(right)
           N == DOMAIN x \cup DOMAIN y
           K == {k \in N : LinesOf(x, k) # LinesOf(y, k)}
           ch(k) == Diff!ChangedLines(LinesOf(x, k), LinesOf(y, k))
           sec(k) == Diff!Section(k, ch(k))
<1>1. /\ SameSize(PlacesIn(x, line), PlacesOf(left, line)) /\ (\A k \in DOMAIN x : x[k] \in Seq(L))
      /\ SameSize(PlacesIn(y, line), PlacesOf(right, line)) /\ (\A k \in DOMAIN y : y[k] \in Seq(L))
  <2>1. KeepLines(x, L, left, line) /\ KeepLines(y, L, right, line)
    BY BlocksKeepLines
  <2> HIDE DEF x, y
  <2> QED BY <2>1 DEF KeepLines
<1>2. sections = {sec(k) : k \in K}
  <2>1. sections = Diff!Compared(x, y)
    BY DEF Diff!CompareCiscoConfigs
  <2> HIDE DEF x, y
  <2> QED BY <2>1 DEF Diff!Compared, LinesOf
<1> HIDE DEF x, y
<1>3. /\ \A k \in N : LinesOf(x, k) \in Seq(L) /\ LinesOf(y, k) \in Seq(L)
      /\ \A k \in N \ K : LinesOf(x, k) = LinesOf(y, k)
  <2> DEFINE S == Seq(L)
  <2>1. <<>> \in S
    BY EmptySeq
  <2>2. (\A k \in DOMAIN x : x[k] \in S) /\ (\A k \in DOMAIN y : y[k] \in S)
    BY <1>1
  <2> HIDE DEF S
  <2>3. \A k \in N : LinesOf(x, k) \in S /\ LinesOf(y, k) \in S
    BY <2>1, <2>2 DEF LinesOf
  <2> QED BY <2>3 DEF S
<1>4. K \in SUBSET N /\ DOMAIN x \subseteq N /\ DOMAIN y \subseteq N
  OBVIOUS
<1> DEFINE l == [k \in N |-> PlacesOf(LinesOf(x, k), line)]
           r == [k \in N |-> PlacesOf(LinesOf(y, k), line)]
           gone == [k \in K |-> PlacesOf(ch(k).removed, line)]
           come == [k \in K |-> PlacesOf(ch(k).added, line)]
           rows(k) == Diff!AlignChangedLines(ch(k).removed, ch(k).added)
           old == [k \in K |-> PlacesOf(OldSide(rows(k)), line)]
           new == [k \in K |-> PlacesOf(NewSide(rows(k)), line)]
<1> HIDE DEF N, K
<1>5. Named(N, l) = PlacesIn(x, line) /\ Named(N, r) = PlacesIn(y, line)
  BY <1>1, <1>4, PlacesByName, Zenon
<1>6. \A k \in N : l[k] = PlacesOf(LinesOf(x, k), line) /\ r[k] = PlacesOf(LinesOf(y, k), line)
  OBVIOUS
<1>7. \A k \in K : gone[k] = PlacesOf(ch(k).removed, line) /\ come[k] = PlacesOf(ch(k).added, line)
  OBVIOUS
<1>8. \A k \in K : old[k] = PlacesOf(OldSide(rows(k)), line) /\ new[k] = PlacesOf(NewSide(rows(k)), line)
  OBVIOUS
<1>9. ASSUME NEW k \in K
      PROVE  Differ(l[k], r[k], gone[k], come[k])
  <2>1. LinesOf(x, k) \in Seq(L) /\ LinesOf(y, k) \in Seq(L) /\ k \in N
    BY <1>3, <1>4
  <2> HIDE DEF l, r, gone, come
  <2>2. Differ(PlacesOf(LinesOf(x, k), line), PlacesOf(LinesOf(y, k), line),
               PlacesOf(ch(k).removed, line), PlacesOf(ch(k).added, line))
    BY <2>1, ChangesCount, Zenon
  <2> QED BY <1>6, <1>7, <2>1, <2>2, Zenon
<1>10. \A k \in K : SameSize(gone[k], old[k]) /\ SameSize(come[k], new[k])
  <2> TAKE k \in K
  <2>1. LinesOf(x, k) \in Seq(L) /\ LinesOf(y, k) \in Seq(L)
    BY <1>3, <1>4
  <2>2. ch(k).removed \in Seq(L) /\ ch(k).added \in Seq(L)
    BY <2>1, ChangedAreLines, Zenon
  <2> DEFINE w == rows(k)
  <2>3. w = Diff!AlignChangedLines(ch(k).removed, ch(k).added)
    OBVIOUS
  <2> HIDE DEF w, ch, old, new, gone, come
  <2>4. RowsShow(w, ch(k).removed, ch(k).added, line)
    BY <2>2, <2>3, RowsShowChanges, Zenon
  <2>5. /\ PlacesOf(OldSide(w), line) = {n \in DOMAIN w : w[n].startup_line = line}
        /\ PlacesOf(NewSide(w), line) = {n \in DOMAIN w : w[n].running_line = line}
    BY DEF PlacesOf, OldSide, NewSide
  <2> QED BY <1>7, <1>8, <2>4, <2>5, Zenon DEF w, RowsShow
<1>11. /\ Gone(sections, line) = Named(K, gone) /\ Come(sections, line) = Named(K, come)
       /\ OldRows(sections, line) = Named(K, old) /\ NewRows(sections, line) = Named(K, new)
  <2>1. \A k \in K : /\ sec(k).key = k /\ sec(k).removed_lines = ch(k).removed
                     /\ sec(k).added_lines = ch(k).added /\ sec(k).rows = rows(k)
    BY DEF Diff!Section
  <2> HIDE DEF sec, ch, rows
  <2>2. Gone(sections, line) = UNION {{<<sec(k).key, n>> : n \in PlacesOf(sec(k).removed_lines, line)} : k \in K}
    BY <1>2 DEF Gone
  <2>3. Come(sections, line) = UNION {{<<sec(k).key, n>> : n \in PlacesOf(sec(k).added_lines, line)} : k \in K}
    BY <1>2 DEF Come
  <2>4. OldRows(sections, line) = UNION {{<<sec(k).key, n>> : n \in PlacesOf(OldSide(sec(k).rows), line)} : k \in K}
    BY <1>2 DEF OldRows
  <2>5. NewRows(sections, line) = UNION {{<<sec(k).key, n>> : n \in PlacesOf(NewSide(sec(k).rows), line)} : k \in K}
    BY <1>2 DEF NewRows
  <2>6. Gone(sections, line) = Named(K, gone)
    BY <1>7, <2>1, <2>2 DEF Named
  <2>7. Come(sections, line) = Named(K, come)
    BY <1>7, <2>1, <2>3 DEF Named
  <2>8. OldRows(sections, line) = Named(K, old)
    BY <1>8, <2>1, <2>4 DEF Named
  <2>9. NewRows(sections, line) = Named(K, new)
    BY <1>8, <2>1, <2>5 DEF Named
  <2> QED BY <2>6, <2>7, <2>8, <2>9
<1> HIDE DEF l, r, gone, come, old, new
<1>12. IsFiniteSet(Named(N, l)) /\ IsFiniteSet(Named(N, r))
  BY <1>1, <1>5 DEF SameSize
<1>13. \A k \in N \ K : l[k] = r[k]
  BY <1>3, <1>6
<1>14. AddUp(Named(N, l), Named(N, r), Named(K, gone), Named(K, come))
  BY <1>4, <1>9, <1>12, <1>13, ChangesAddUp, Zenon
<1>15. SameSize(Named(K, gone), Named(K, old)) /\ SameSize(Named(K, come), Named(K, new))
  BY <1>10, <1>14, NamedSameSize, Zenon DEF AddUp
<1>16. Cardinality(Named(N, l)) = Cardinality(PlacesOf(left, line))
       /\ Cardinality(Named(N, r)) = Cardinality(PlacesOf(right, line))
  BY <1>1, <1>5 DEF SameSize
<1> QED
  BY <1>11, <1>14, <1>15, <1>16 DEF ShowsChanges, AddUp

\* The property of the comparison for the inputs of the run.
LEMMA DiffInputsKeep ==
    ASSUME input \in DiffInputs PROVE DiffLosesNothing
<1> DEFINE left == input.left
           right == input.right
           sections == Diff!CompareCiscoConfigs(left, right)
           lines == {Diff!Separator} \cup
                {[form |-> "head", of |-> "interface Gi1", to |-> 0],
                 [form |-> "line", of |-> "access vlan", to |-> 1],
                 [form |-> "line", of |-> "access vlan", to |-> 2],
                 [form |-> "line", of |-> "hostname", to |-> 1]}
<1>1. left \in Seq(lines) /\ right \in Seq(lines)
  <2>1. left \in Texts(MaxLeft) /\ right \in Texts(MaxRight)
    BY DEF DiffInputs
  <2>2. MaxLeft \in Nat /\ MaxRight \in Nat
    BY SwitchTextAssumption
  <2> HIDE DEF left, right, lines
  <2>3. \A m : \A t \in Texts(m) : \E n \in 0..m : t \in [1..n -> lines]
    BY Zenon DEF Texts, lines
  <2>4. PICK n \in 0..MaxLeft : left \in [1..n -> lines]
    BY <2>1, <2>3, Zenon
  <2>5. PICK m \in 0..MaxRight : right \in [1..m -> lines]
    BY <2>1, <2>3, Zenon
  <2>6. n \in Nat /\ m \in Nat
    BY <2>2
  <2>7. left \in Seq(lines)
    BY <2>4, <2>6, ListIsSequence, Zenon
  <2>8. right \in Seq(lines)
    BY <2>5, <2>6, ListIsSequence, Zenon
  <2> QED BY <2>7, <2>8
<1>2. Diff!NoLine \notin lines
  BY Zenon DEF Diff!NoLine, Diff!Separator
<1>3. ToSet(left) \cup ToSet(right) \subseteq lines
  <2> HIDE DEF left, right, lines
  <2> QED BY <1>1 DEF ToSet
<1> HIDE DEF lines, sections, left, right
<1>4. ASSUME NEW line \in (ToSet(left) \cup ToSet(right)) \ {Diff!Separator}
      PROVE  /\ Cardinality(PlacesOf(left, line)) + Cardinality(Come(sections, line)) =
                    Cardinality(PlacesOf(right, line)) + Cardinality(Gone(sections, line))
             /\ Cardinality(Gone(sections, line)) = Cardinality(OldRows(sections, line))
             /\ Cardinality(Come(sections, line)) = Cardinality(NewRows(sections, line))
  <2>1. line \in lines /\ line # Diff!Separator
    BY <1>3
  <2>2. sections = Diff!CompareCiscoConfigs(left, right)
    BY DEF sections
  <2>3. ShowsChanges(sections, left, right, line)
    BY <1>1, <1>2, <2>1, <2>2, DiffKeepsLines, Zenon
  <2> QED BY <2>3 DEF ShowsChanges, SameSize
<1>5. ASSUME NEW line
      PROVE  /\ OldRows(sections, line) =
                    UNION {{<<s.key, n>> : n \in
                        {m \in DOMAIN [n \in DOMAIN s.rows |-> s.rows[n].startup_line] :
                            [n \in DOMAIN s.rows |-> s.rows[n].startup_line][m] = line}} : s \in sections}
             /\ NewRows(sections, line) =
                    UNION {{<<s.key, n>> : n \in
                        {m \in DOMAIN [n \in DOMAIN s.rows |-> s.rows[n].running_line] :
                            [n \in DOMAIN s.rows |-> s.rows[n].running_line][m] = line}} : s \in sections}
             /\ Gone(sections, line) =
                    UNION {{<<s.key, n>> : n \in {m \in DOMAIN s.removed_lines : s.removed_lines[m] = line}} :
                            s \in sections}
             /\ Come(sections, line) =
                    UNION {{<<s.key, n>> : n \in {m \in DOMAIN s.added_lines : s.added_lines[m] = line}} :
                            s \in sections}
  BY DEF OldRows, NewRows, Gone, Come, PlacesOf, OldSide, NewSide
<1>6. \A line : Occurs(line, left) = Cardinality(PlacesOf(left, line))
                /\ Occurs(line, right) = Cardinality(PlacesOf(right, line))
  BY DEF Occurs, PlacesOf
<1> QED
  BY <1>4, <1>5, <1>6, ZenonT(60) DEF DiffLosesNothing, sections, left, right

\* The comparison loses no line and shows each change once (DiffLosesNothing;
\* configuration.py:compare_cisco_configs).
THEOREM DiffLosesNothingHolds == Spec => []DiffLosesNothing
<1>1. Init => DiffLosesNothing
  <2>1. CASE input \in DiffInputs
    BY <2>1, DiffInputsKeep
  <2>2. CASE input \notin DiffInputs
    BY <2>2, TaskOfInput DEF Init, DiffLosesNothing
  <2> QED BY <2>1, <2>2
<1> QED
  BY <1>1, InputKept, PTL DEF Spec
=============================================================================
