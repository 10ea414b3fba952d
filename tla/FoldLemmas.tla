----------------------------- MODULE FoldLemmas -----------------------------
(***************************************************************************)
(* What the folds of the community modules compute.                        *)
(*                                                                         *)
(* FoldLeft and MapThenSumSet are defined by a recursive function on the   *)
(* subsets of a finite set, g[S] from g[S \ {c[S]}], and a recursive        *)
(* function is a CHOOSE: before anything can be said of its values, a      *)
(* function that satisfies the equation has to be shown to exist.  The     *)
(* lemmas below do that, by induction on the size of S; the induction      *)
(* itself is an instance of the well-foundedness of strict inclusion on    *)
(* finite sets, which FiniteSetTheorems states without an operator         *)
(* parameter.                                                              *)
(***************************************************************************)
EXTENDS Integers, FiniteSetTheorems, SequencesExt, TLAPS

(* Every nonempty set of naturals has a least element: the intervals 0..k  *)
(* have an inclusion-minimal one among them.                               *)
LEMMA LeastNatural ==
  ASSUME NEW T \in SUBSET Nat, T # {}
  PROVE  \E m \in T : \A k \in T : m <= k
<1> DEFINE B == {0..k : k \in T}
<1>1. ASSUME NEW k \in T PROVE 0..k \in FiniteSubsetsOf(Nat)
  <2>1. k \in Int /\ 0 \in Int
    OBVIOUS
  <2>2. IsFiniteSet(0..k)
    BY <2>1, FS_Interval
  <2> QED
    BY <2>2 DEF FiniteSubsetsOf
<1>2. B \subseteq FiniteSubsetsOf(Nat)
  BY <1>1
<1>3. IsWellFoundedOn(StrictSubsetOrdering(Nat), FiniteSubsetsOf(Nat))
  BY FS_StrictSubsetOrderingWellFounded
<1>4. B # {}
  OBVIOUS
<1>5. \E x \in B : \A y \in B : ~ (<<y, x>> \in StrictSubsetOrdering(Nat))
  <2> HIDE DEF B
  <2> QED
    BY <1>2, <1>3, <1>4, WFMin
<1>6. PICK m \in T : \A k \in T : ~ (<<0..k, 0..m>> \in StrictSubsetOrdering(Nat))
  BY <1>5
<1>7. ASSUME NEW k \in T, k < m PROVE FALSE
  <2>1. 0..k \in SUBSET Nat /\ 0..m \in SUBSET Nat
    OBVIOUS
  <2>2. 0..k \subseteq 0..m /\ 0..k # 0..m
    BY <1>7
  <2> QED
    BY <1>6, <2>1, <2>2 DEF StrictSubsetOrdering
<1> QED
  BY <1>7

(* Induction over the naturals, for a property given as a set.             *)
LEMMA NatSetInduction ==
  ASSUME NEW T, 0 \in T, \A n \in Nat : n \in T => n + 1 \in T
  PROVE  \A n \in Nat : n \in T
<1> SUFFICES ASSUME \E n \in Nat : n \notin T
             PROVE  FALSE
  OBVIOUS
<1>1. PICK m \in Nat \ T : \A k \in Nat \ T : m <= k
  BY LeastNatural
<1>2. m - 1 \in Nat /\ m - 1 \in T
  BY <1>1
<1> QED
  BY <1>1, <1>2

(* A choice function on the nonempty subsets of D.                         *)
Chooses(c, D) == \A S \in SUBSET D : S # {} => c[S] \in S

(* g folds F over the subsets of D, taking out c[S] last.                  *)
Folds(g, D, base, F, c) ==
  \A S \in SUBSET D :
    g[S] = IF S = {} THEN base ELSE F[<<g[S \ {c[S]}], c[S]>>]

(* A fold over a finite set exists: g on the sets of at most n + 1         *)
(* elements is built from g on those of at most n.                         *)
LEMMA FoldExists ==
  ASSUME NEW D, IsFiniteSet(D), NEW V, NEW base \in V,
         NEW F \in [V \X D -> V], NEW c, Chooses(c, D)
  PROVE  \E g \in [SUBSET D -> V] : Folds(g, D, base, F, c)
<1> USE DEF Chooses
<1> DEFINE Small(n) == {S \in SUBSET D : Cardinality(S) <= n}
           FoldsSmall(g, n) == \A S \in Small(n) :
             g[S] = IF S = {} THEN base ELSE F[<<g[S \ {c[S]}], c[S]>>]
           T == {n \in Nat : \E g \in [Small(n) -> V] : FoldsSmall(g, n)}
<1>0. ASSUME NEW S \in SUBSET D
      PROVE  /\ Cardinality(S) \in Nat
             /\ Cardinality(S) <= Cardinality(D)
             /\ S = {} <=> Cardinality(S) = 0
             /\ S # {} => Cardinality(S \ {c[S]}) = Cardinality(S) - 1
  <2>1. IsFiniteSet(S) /\ Cardinality(S) <= Cardinality(D)
    BY FS_Subset
  <2> QED
    BY <2>1, FS_CardinalityType, FS_EmptySet, FS_RemoveElement
<1>1. 0 \in T
  <2> DEFINE g == [S \in Small(0) |-> base]
  <2>1. ASSUME NEW S \in Small(0) PROVE S = {}
    <3>1. S \in SUBSET D /\ Cardinality(S) <= 0
      OBVIOUS
    <3>2. Cardinality(S) \in Nat /\ (S = {} <=> Cardinality(S) = 0)
      BY <1>0, <3>1
    <3> QED
      BY <3>1, <3>2
  <2>2. g \in [Small(0) -> V] /\ FoldsSmall(g, 0)
    BY <2>1
  <2> QED
    BY <2>2
<1>2. ASSUME NEW n \in Nat, n \in T PROVE n + 1 \in T
  <2>1. PICK g \in [Small(n) -> V] : FoldsSmall(g, n)
    BY <1>2
  <2> DEFINE h == [S \in Small(n + 1) |->
                     IF Cardinality(S) <= n THEN g[S] ELSE F[<<g[S \ {c[S]}], c[S]>>]]
  <2>2. ASSUME NEW S \in Small(n + 1)
        PROVE  /\ h[S] \in V
               /\ h[S] = IF S = {} THEN base ELSE F[<<h[S \ {c[S]}], c[S]>>]
    <3>1. S \in SUBSET D
      OBVIOUS
    <3>2. S # {} => S \ {c[S]} \in Small(n) /\ S \ {c[S]} \in Small(n + 1) /\ c[S] \in D
      BY <3>1, <1>0
    <3>3. S # {} => h[S \ {c[S]}] = g[S \ {c[S]}] /\ g[S \ {c[S]}] \in V
      BY <3>2
    <3>4. CASE Cardinality(S) <= n
      <4>1. S \in Small(n)
        BY <3>4
      <4>2. h[S] = g[S] /\ g[S] \in V
        BY <3>4, <4>1
      <4> QED
        BY <4>1, <4>2, <2>1, <3>3
    <3>5. CASE ~ (Cardinality(S) <= n)
      <4>1. S # {}
        <5>1. S = {} <=> Cardinality(S) = 0
          BY <3>1, <1>0
        <5> QED
          BY <3>5, <5>1
      <4>2. h[S] = F[<<g[S \ {c[S]}], c[S]>>]
        BY <3>5
      <4> QED
        BY <4>1, <4>2, <3>2, <3>3
    <3> QED
      BY <3>4, <3>5
  <2>3. h \in [Small(n + 1) -> V]
    BY <2>2
  <2>4. FoldsSmall(h, n + 1)
    BY <2>2
  <2> HIDE DEF FoldsSmall, Small, h
  <2> QED
    BY <2>3, <2>4
<1>3. \A n \in Nat : n \in T
  <2> HIDE DEF T
  <2> QED
    BY <1>1, <1>2, NatSetInduction
<1>4. Cardinality(D) \in Nat /\ Small(Cardinality(D)) = SUBSET D
  BY <1>0, FS_CardinalityType
<1>5. Cardinality(D) \in T
  BY <1>3, <1>4
<1>6. PICK g \in [Small(Cardinality(D)) -> V] : FoldsSmall(g, Cardinality(D))
  BY <1>5
<1> QED
  BY <1>4, <1>6 DEF Folds

(* Max picks the largest element of a set of positions.                    *)
LEMMA MaxInSet ==
  ASSUME NEW n \in Nat, NEW S \in SUBSET (1..n), S # {}
  PROVE  Max(S) \in S /\ \A k \in S : k <= Max(S)
<1> DEFINE T == {n - k : k \in S}
<1>0. \A k \in S : k \in Int /\ k <= n /\ n - k \in Nat
  OBVIOUS
<1>1. T \in SUBSET Nat /\ T # {}
  <2>1. ASSUME NEW e \in T PROVE e \in Nat
    BY <1>0
  <2> QED
    BY <2>1
<1>2. PICK m \in T : \A k \in T : m <= k
  <2> HIDE DEF T
  <2> QED
    BY <1>1, LeastNatural
<1>3. PICK x \in S : m = n - x
  OBVIOUS
<1>4. ASSUME NEW k \in S PROVE x >= k
  <2>1. n - k \in T
    OBVIOUS
  <2>2. m <= n - k
    BY <1>2, <2>1
  <2> QED
    BY <1>0, <1>3, <2>2
<1> QED
  BY <1>0, <1>4 DEF Max

(* Taking the largest position out of 1..k+1 leaves 1..k: a left fold over *)
(* a sequence goes through its prefixes.                                   *)
LEMMA MaxOfPrefix ==
  ASSUME NEW k \in Nat
  PROVE  Max(1..(k + 1)) = k + 1 /\ (1..(k + 1)) \ {k + 1} = 1..k
<1>1. (1..(k + 1)) \in SUBSET (1..(k + 1)) /\ 1..(k + 1) # {} /\ k + 1 \in Nat
  OBVIOUS
<1>2. Max(1..(k + 1)) \in 1..(k + 1) /\ \A i \in 1..(k + 1) : i <= Max(1..(k + 1))
  BY <1>1, MaxInSet, Zenon
<1> HIDE DEF Max
<1> QED
  BY <1>2

(* The recursion of FoldLeft over a sequence of length n, by positions.    *)
FoldsLeft(g, n, base, F) ==
  \A S \in SUBSET (1..n) :
    g[S] = IF S = {} THEN base ELSE F[<<g[S \ {Max(S)}], Max(S)>>]

(* Every left fold of a sequence exists.                                   *)
LEMMA LeftFoldExists ==
  ASSUME NEW n \in Nat, NEW V, NEW base \in V, NEW F \in [V \X (1..n) -> V]
  PROVE  \E g \in [SUBSET (1..n) -> V] : FoldsLeft(g, n, base, F)
<1> DEFINE D == 1..n
           c == [S \in SUBSET D |-> Max(S)]
<1>1. IsFiniteSet(D)
  BY FS_Interval
<1>2. \A S \in SUBSET D : c[S] = Max(S)
  OBVIOUS
<1>3. Chooses(c, D)
  BY <1>2, MaxInSet DEF Chooses
<1>4. F \in [V \X D -> V]
  OBVIOUS
<1>5. PICK g \in [SUBSET D -> V] : Folds(g, D, base, F, c)
  <2> HIDE DEF c, D
  <2> QED
    BY <1>1, <1>3, <1>4, FoldExists
<1>6. \A S \in SUBSET D :
        g[S] = IF S = {} THEN base ELSE F[<<g[S \ {Max(S)}], Max(S)>>]
  <2> HIDE DEF c, D
  <2> QED
    BY <1>2, <1>5 DEF Folds
<1> QED
  BY <1>6 DEF FoldsLeft

(* The recursion of MapThenSumSet: w is the weight of each element.        *)
Sums(g, D, w, c) ==
  \A S \in SUBSET D :
    g[S] = IF S = {} THEN 0 ELSE w[c[S]] + g[S \ {c[S]}]

(* Every sum of naturals over a finite set exists.                         *)
LEMMA SumExists ==
  ASSUME NEW D, IsFiniteSet(D), NEW w \in [D -> Nat], NEW c, Chooses(c, D)
  PROVE  \E g \in [SUBSET D -> Nat] : Sums(g, D, w, c)
<1> DEFINE F == [e \in Nat \X D |-> w[e[2]] + e[1]]
<1>1. F \in [Nat \X D -> Nat]
  OBVIOUS
<1>2. PICK g \in [SUBSET D -> Nat] : Folds(g, D, 0, F, c)
  <2> HIDE DEF F
  <2> QED
    BY <1>1, FoldExists
<1>3. ASSUME NEW S \in SUBSET D, S # {}
      PROVE  g[S] = w[c[S]] + g[S \ {c[S]}]
  <2>1. g[S] = F[<<g[S \ {c[S]}], c[S]>>]
    BY <1>2, <1>3 DEF Folds
  <2>2. c[S] \in D /\ g[S \ {c[S]}] \in Nat
    BY <1>3 DEF Chooses
  <2> QED
    BY <2>1, <2>2
<1>4. \A S \in SUBSET D : S = {} => g[S] = 0
  BY <1>2 DEF Folds
<1> QED
  BY <1>3, <1>4 DEF Sums

(* ... and does not depend on the order in which elements are taken out:   *)
(* any element may be the last one.                                        *)
LEMMA SumAdditive ==
  ASSUME NEW D, IsFiniteSet(D), NEW w \in [D -> Nat],
         NEW c, Chooses(c, D), NEW g, Sums(g, D, w, c)
  PROVE  \A S \in SUBSET D :
           g[S] \in Nat /\ \A x \in S : g[S] = w[x] + g[S \ {x}]
<1> USE DEF Chooses, Sums
<1> DEFINE Adds(S) == g[S] \in Nat /\ \A x \in S : g[S] = w[x] + g[S \ {x}]
           T == {n \in Nat : \A S \in SUBSET D : Cardinality(S) <= n => Adds(S)}
<1>0. ASSUME NEW S \in SUBSET D
      PROVE  /\ IsFiniteSet(S) /\ Cardinality(S) \in Nat
             /\ S = {} <=> Cardinality(S) = 0
             /\ \A x \in S : Cardinality(S \ {x}) = Cardinality(S) - 1
  <2>1. IsFiniteSet(S)
    BY FS_Subset
  <2> QED
    BY <2>1, FS_CardinalityType, FS_EmptySet, FS_RemoveElement
<1>5. ASSUME NEW S \in SUBSET D, S = {} PROVE Adds(S)
  <2>1. g[S] = 0
    BY <1>5, Zenon
  <2> QED
    BY <1>5, <2>1
<1>1. 0 \in T
  <2>1. ASSUME NEW S \in SUBSET D, Cardinality(S) <= 0 PROVE Adds(S)
    <3>1. S = {}
      BY <1>0, <2>1
    <3> QED
      BY <3>1, <1>5
  <2> QED
    BY <2>1
<1>2. ASSUME NEW n \in Nat, n \in T PROVE n + 1 \in T
  <2>1. ASSUME NEW S \in SUBSET D, Cardinality(S) <= n + 1, S # {} PROVE Adds(S)
    <3> DEFINE y == c[S]
    <3>1. y \in S /\ g[S] = w[y] + g[S \ {y}]
      BY <2>1
    <3> HIDE DEF y
    <3>2. \A x \in S : S \ {x} \in SUBSET D /\ Cardinality(S \ {x}) <= n
      BY <1>0, <2>1
    <3>3. \A x \in S : Adds(S \ {x})
      BY <1>2, <3>2
    <3>4. ASSUME NEW x \in S, x # y PROVE g[S] = w[x] + g[S \ {x}]
      <4>1. g[S \ {y}] = w[x] + g[(S \ {y}) \ {x}]
        BY <3>1, <3>3, <3>4
      <4>2. g[S \ {x}] = w[y] + g[(S \ {x}) \ {y}]
        BY <3>1, <3>3, <3>4
      <4>3. (S \ {y}) \ {x} = (S \ {x}) \ {y}
        OBVIOUS
      <4>4. w[x] \in Nat /\ w[y] \in Nat
        BY <3>1
      <4>5. (S \ {x}) \ {y} \in SUBSET D /\ Cardinality((S \ {x}) \ {y}) <= n
        <5>1. S \ {x} \in SUBSET D /\ y \in S \ {x} /\ Cardinality(S \ {x}) <= n
          BY <3>1, <3>2, <3>4
        <5>2. Cardinality((S \ {x}) \ {y}) = Cardinality(S \ {x}) - 1
          BY <5>1, <1>0
        <5> QED
          BY <5>1, <5>2, <1>0
      <4>6. g[(S \ {x}) \ {y}] \in Nat
        BY <1>2, <4>5
      <4> DEFINE G == g[(S \ {x}) \ {y}]  a == w[x]  b == w[y]
      <4>7. a + (b + G) = b + (a + G)
        <5> HIDE DEF G, a, b
        <5> QED
          BY <4>4, <4>6 DEF G, a, b
      <4>8. g[S] = b + (a + G) /\ g[S \ {x}] = b + G
        BY <3>1, <4>1, <4>2, <4>3
      <4> QED
        BY <4>7, <4>8
    <3>5. g[S] \in Nat
      <4>1. w[y] \in Nat /\ g[S \ {y}] \in Nat
        BY <3>1, <3>3
      <4> QED
        BY <3>1, <4>1
    <3> QED
      BY <3>1, <3>4, <3>5
  <2>2. ASSUME NEW S \in SUBSET D, Cardinality(S) <= n + 1 PROVE Adds(S)
    <3> QED
      BY <1>5, <2>1, <2>2
  <2> HIDE DEF Adds
  <2> QED
    BY <2>2
<1>3. \A n \in Nat : n \in T
  <2> HIDE DEF T
  <2> QED
    BY <1>1, <1>2, NatSetInduction
<1>4. \A S \in SUBSET D : Adds(S)
  <2> HIDE DEF Adds
  <2> QED
    BY <1>0, <1>3
<1> QED
  BY <1>4
-----------------------------------------------------------------------------

(* The elements of a sequence.                                             *)
LEMMA ElementsOf ==
  ASSUME NEW S, NEW q \in Seq(S)
  PROVE  /\ ToSet(q) \subseteq S
         /\ \A e : e \in ToSet(q) <=> \E i \in 1..Len(q) : q[i] = e
         /\ q = <<>> <=> ToSet(q) = {}
<1>1. q \in [1..Len(q) -> S] /\ Len(q) \in Nat
  OBVIOUS
<1>2. \A e : e \in ToSet(q) <=> \E i \in 1..Len(q) : q[i] = e
  BY <1>1 DEF ToSet
<1>3. q = <<>> <=> Len(q) = 0
  OBVIOUS
<1>4. Len(q) = 0 <=> ToSet(q) = {}
  <2>1. Len(q) = 0 => ToSet(q) = {}
    BY <1>2
  <2>2. Len(q) # 0 => 1 \in 1..Len(q)
    BY <1>1
  <2>3. Len(q) # 0 => q[1] \in ToSet(q)
    BY <1>2, <2>2
  <2> QED
    BY <2>1, <2>3
<1>5. ToSet(q) \subseteq S
  BY <1>1, <1>2
<1> QED
  BY <1>2, <1>3, <1>4, <1>5

(* Appending adds one element.                                             *)
LEMMA ElementsOfAppend ==
  ASSUME NEW S, NEW q \in Seq(S), NEW e \in S
  PROVE  ToSet(Append(q, e)) = ToSet(q) \cup {e}
<1> DEFINE r == Append(q, e)
<1>1. r \in Seq(S) /\ Len(r) = Len(q) + 1 /\ Len(q) \in Nat
  OBVIOUS
<1>2. \A i \in 1..Len(r) : r[i] = IF i <= Len(q) THEN q[i] ELSE e
  OBVIOUS
<1>3. /\ \A x : x \in ToSet(q) <=> \E i \in 1..Len(q) : q[i] = x
      /\ \A x : x \in ToSet(r) <=> \E i \in 1..Len(r) : r[i] = x
  <2> HIDE DEF r
  <2> QED
    BY <1>1, ElementsOf
<1> HIDE DEF r
<1>4. ASSUME NEW x, x \in ToSet(r) PROVE x \in ToSet(q) \cup {e}
  BY <1>1, <1>2, <1>3, <1>4
<1>5. ASSUME NEW x, x \in ToSet(q) PROVE x \in ToSet(r)
  <2>1. PICK i \in 1..Len(q) : q[i] = x
    BY <1>3, <1>5
  <2>2. i \in 1..Len(r) /\ r[i] = x
    BY <1>1, <1>2, <2>1
  <2> QED
    BY <1>3, <2>2
<1>6. e \in ToSet(r)
  <2>1. Len(r) \in 1..Len(r) /\ r[Len(r)] = e
    BY <1>1, <1>2
  <2> QED
    BY <1>3, <2>1
<1> QED
  BY <1>4, <1>5, <1>6 DEF r

(* A nonempty sequence consists of its head and its tail.                  *)
LEMMA ElementsOfTail ==
  ASSUME NEW S, NEW q \in Seq(S), q # <<>>
  PROVE  ToSet(q) = ToSet(Tail(q)) \cup {Head(q)}
<1> DEFINE r == Tail(q)
<1>1. r \in Seq(S) /\ Len(r) = Len(q) - 1 /\ Len(q) \in Nat \ {0} /\ Head(q) = q[1]
  OBVIOUS
<1>2. \A i \in 1..Len(r) : r[i] = q[i + 1]
  OBVIOUS
<1>3. /\ \A x : x \in ToSet(q) <=> \E i \in 1..Len(q) : q[i] = x
      /\ \A x : x \in ToSet(r) <=> \E i \in 1..Len(r) : r[i] = x
  <2> HIDE DEF r
  <2> QED
    BY <1>1, ElementsOf
<1> HIDE DEF r
<1>4. ASSUME NEW x, x \in ToSet(r) PROVE x \in ToSet(q)
  <2>1. PICK i \in 1..Len(r) : r[i] = x
    BY <1>3, <1>4
  <2>2. i + 1 \in 1..Len(q) /\ q[i + 1] = x
    BY <1>1, <1>2, <2>1
  <2> QED
    BY <1>3, <2>2
<1>5. ASSUME NEW x, x \in ToSet(q) PROVE x \in ToSet(r) \cup {Head(q)}
  <2>1. PICK i \in 1..Len(q) : q[i] = x
    BY <1>3, <1>5
  <2>2. CASE i = 1
    BY <1>1, <2>1, <2>2
  <2>3. CASE i # 1
    <3>1. i - 1 \in 1..Len(r) /\ r[i - 1] = x
      BY <1>1, <1>2, <2>1, <2>3
    <3> QED
      BY <1>3, <3>1
  <2> QED
    BY <2>2, <2>3
<1>6. Head(q) \in ToSet(q)
  <2>1. 1 \in 1..Len(q)
    BY <1>1
  <2> QED
    BY <1>1, <1>3, <2>1
<1> QED
  BY <1>4, <1>5, <1>6 DEF r
-----------------------------------------------------------------------------
(* The products of a request's lines, in the order of their first mention. *)

(* One more line.                                                          *)
Mention(seen, p) == IF p \in ToSet(seen) THEN seen ELSE Append(seen, p)

(* The loop over the lines, as both models of Create fold it.              *)
FirstMentions(lines) ==
  FoldLeft(LAMBDA seen, line : IF line.product \in ToSet(seen)
                               THEN seen ELSE Append(seen, line.product),
           <<>>, lines)

(* The recursion behind FirstMentions.                                     *)
Mentions(g, lines) ==
  g = [S \in SUBSET DOMAIN lines |->
         IF S = {} THEN <<>> ELSE Mention(g[S \ {Max(S)}], lines[Max(S)].product)]

(* One step of the loop keeps a sequence of products and adds the product  *)
(* of the line.                                                            *)
LEMMA MentionType ==
  ASSUME NEW P, NEW seen \in Seq(P), NEW p \in P
  PROVE  /\ Mention(seen, p) \in Seq(P)
         /\ Len(Mention(seen, p)) <= Len(seen) + 1
         /\ ToSet(Mention(seen, p)) = ToSet(seen) \cup {p}
<1>0. Len(seen) \in Nat
  OBVIOUS
<1>1. CASE p \in ToSet(seen)
  BY <1>0, <1>1 DEF Mention
<1>2. CASE p \notin ToSet(seen)
  <2>1. ToSet(Append(seen, p)) = ToSet(seen) \cup {p}
    BY ElementsOfAppend
  <2>2. Append(seen, p) \in Seq(P) /\ Len(Append(seen, p)) <= Len(seen) + 1
    BY <1>0
  <2> QED
    BY <1>2, <2>1, <2>2 DEF Mention
<1> QED
  BY <1>1, <1>2

(* The fold of FirstMentions exists, ...                                   *)
LEMMA MentionsExist ==
  ASSUME NEW P, NEW lines, NEW n \in Nat, DOMAIN lines = 1..n,
         \A i \in 1..n : lines[i].product \in P
  PROVE  \E g : Mentions(g, lines)
<1> DEFINE F == [e \in Seq(P) \X (1..n) |-> Mention(e[1], lines[e[2]].product)]
<1>2. F \in [Seq(P) \X (1..n) -> Seq(P)]
  BY MentionType
<1>3. <<>> \in Seq(P)
  OBVIOUS
<1>4. PICK g \in [SUBSET (1..n) -> Seq(P)] : FoldsLeft(g, n, <<>>, F)
  <2> HIDE DEF F
  <2> QED
    BY <1>2, <1>3, LeftFoldExists
<1>5. ASSUME NEW S \in SUBSET (1..n), S # {}
      PROVE  g[S] = Mention(g[S \ {Max(S)}], lines[Max(S)].product)
  <2>1. Max(S) \in 1..n
    BY <1>5, MaxInSet
  <2>2. S \ {Max(S)} \in SUBSET (1..n)
    BY Zenon
  <2>3. g[S \ {Max(S)}] \in Seq(P)
    BY <2>2
  <2>4. g[S] = F[<<g[S \ {Max(S)}], Max(S)>>]
    BY <1>4, <1>5 DEF FoldsLeft
  <2> HIDE DEF Max
  <2> QED
    BY <2>1, <2>3, <2>4
<1>6. \A S \in SUBSET (1..n) : S = {} => g[S] = <<>>
  BY <1>4 DEF FoldsLeft
<1>7. Mentions(g, lines)
  <2> HIDE DEF Max, F
  <2> QED
    BY <1>5, <1>6 DEF Mentions
<1> QED
  BY <1>7

(* ... and lists every product of the lines, and nothing else.             *)
LEMMA FirstMentionsList ==
  ASSUME NEW P, NEW lines, NEW n \in Nat \ {0}, DOMAIN lines = 1..n,
         \A i \in 1..n : lines[i].product \in P
  PROVE  /\ FirstMentions(lines) \in Seq(P)
         /\ Len(FirstMentions(lines)) \in 1..n
         /\ ToSet(FirstMentions(lines)) = {lines[i].product : i \in 1..n}
<1> DEFINE g == CHOOSE h : Mentions(h, lines)
           T == {k \in Nat : k <= n =>
                   /\ g[1..k] \in Seq(P)
                   /\ Len(g[1..k]) <= k
                   /\ ToSet(g[1..k]) = {lines[i].product : i \in 1..k}}
<1>2. Mentions(g, lines)
  BY MentionsExist
<1>3. FirstMentions(lines) = g[DOMAIN lines]
  BY DEF FirstMentions, FoldLeft, MapThenFoldSet, Mentions, Mention
<1> HIDE DEF g
<1>4. 0 \in T
  <2>1. 1..0 = {}
    OBVIOUS
  <2>2. g[{}] = <<>>
    BY <1>2 DEF Mentions
  <2>3. {lines[i].product : i \in 1..0} = {}
    BY <2>1
  <2>4. <<>> \in Seq(P) /\ Len(<<>>) = 0 /\ ToSet(<<>>) = {}
    <3>1. <<>> \in Seq(P) /\ Len(<<>>) = 0
      OBVIOUS
    <3> QED
      BY <3>1, ElementsOf, Zenon
  <2>5. g[1..0] = <<>>
    BY <2>1, <2>2, Zenon
  <2>6. /\ g[1..0] \in Seq(P) /\ Len(g[1..0]) = 0
        /\ ToSet(g[1..0]) = {lines[i].product : i \in 1..0}
    BY <2>3, <2>4, <2>5, Zenon
  <2> QED
    BY <2>6
<1>5. ASSUME NEW k \in Nat, k \in T
      PROVE  k + 1 \in T
  <2> SUFFICES ASSUME k + 1 <= n
               PROVE  /\ g[1..(k + 1)] \in Seq(P)
                      /\ Len(g[1..(k + 1)]) <= k + 1
                      /\ ToSet(g[1..(k + 1)]) = {lines[i].product : i \in 1..(k + 1)}
    OBVIOUS
  <2>1. g[1..(k + 1)] = Mention(g[1..k], lines[k + 1].product)
    <3>0. k + 1 \in 1..n /\ k + 1 \in 1..(k + 1)
      OBVIOUS
    <3>1. 1..(k + 1) \in SUBSET (1..n) /\ 1..(k + 1) # {}
      <4>1. \A i \in 1..(k + 1) : i \in 1..n
        BY <3>0
      <4> QED
        BY <3>0, <4>1, Zenon
    <3>2. g[1..(k + 1)] = Mention(g[(1..(k + 1)) \ {Max(1..(k + 1))}],
                                  lines[Max(1..(k + 1))].product)
      BY <1>2, <3>1, Zenon DEF Mentions
    <3> HIDE DEF Max
    <3> QED
      BY <3>2, MaxOfPrefix
  <2>2. /\ g[1..k] \in Seq(P) /\ Len(g[1..k]) <= k
        /\ ToSet(g[1..k]) = {lines[i].product : i \in 1..k}
    BY <1>5
  <2>3. lines[k + 1].product \in P
    OBVIOUS
  <2>4. {lines[i].product : i \in 1..(k + 1)}
          = {lines[i].product : i \in 1..k} \cup {lines[k + 1].product}
    OBVIOUS
  <2>5. /\ Mention(g[1..k], lines[k + 1].product) \in Seq(P)
        /\ Len(Mention(g[1..k], lines[k + 1].product)) <= Len(g[1..k]) + 1
        /\ ToSet(Mention(g[1..k], lines[k + 1].product))
             = ToSet(g[1..k]) \cup {lines[k + 1].product}
    <3> DEFINE q == g[1..k]  p == lines[k + 1].product
    <3>1. q \in Seq(P) /\ p \in P
      BY <2>2, <2>3
    <3> HIDE DEF q, p
    <3>2. /\ Mention(q, p) \in Seq(P)
          /\ Len(Mention(q, p)) <= Len(q) + 1
          /\ ToSet(Mention(q, p)) = ToSet(q) \cup {p}
      BY <3>1, MentionType
    <3> QED
      BY <3>2 DEF q, p
  <2>6. Len(g[1..k]) \in Nat /\ Len(Mention(g[1..k], lines[k + 1].product)) \in Nat
    BY <2>2, <2>5
  <2>7. Len(g[1..(k + 1)]) <= k + 1
    BY <2>1, <2>2, <2>5, <2>6
  <2> QED
    BY <2>1, <2>2, <2>4, <2>5, <2>7, Zenon
<1>6. n \in T
  <2>1. \A k \in Nat : k \in T
    <3> HIDE DEF T
    <3> QED
      BY <1>4, <1>5, NatSetInduction
  <2> QED
    BY <2>1
<1>7. /\ FirstMentions(lines) \in Seq(P) /\ Len(FirstMentions(lines)) <= n
      /\ ToSet(FirstMentions(lines)) = {lines[i].product : i \in 1..n}
  BY <1>3, <1>6
<1>8. FirstMentions(lines) # <<>>
  <2>0. 1 \in 1..n
    OBVIOUS
  <2>1. lines[1].product \in ToSet(FirstMentions(lines))
    BY <1>7, <2>0
  <2> DEFINE q == FirstMentions(lines)
  <2>2. q \in Seq(P) /\ ToSet(q) # {}
    BY <1>7, <2>1
  <2> HIDE DEF q
  <2>3. q # <<>>
    BY <2>2, ElementsOf
  <2> QED
    BY <2>3 DEF q
<1> HIDE DEF T
<1>9. Len(FirstMentions(lines)) \in Nat /\ Len(FirstMentions(lines)) # 0
  <2> DEFINE q == FirstMentions(lines)
  <2>1. q \in Seq(P) /\ q # <<>>
    BY <1>7, <1>8
  <2> HIDE DEF q
  <2>2. Len(q) \in Nat /\ Len(q) # 0
    BY <2>1
  <2> QED
    BY <2>2 DEF q
<1> QED
  BY <1>7, <1>9
=============================================================================
