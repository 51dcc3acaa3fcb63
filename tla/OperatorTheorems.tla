------------------------- MODULE OperatorTheorems -------------------------
(***************************************************************************)
(* What the community modules' operators return that the model is built    *)
(* from.  They are defined by recursive functions; a proof about one first *)
(* shows that there is such a function, and argues by a least              *)
(* counterexample where a reader would say "by induction".                 *)
(*                                                                         *)
(* FoldSet takes the elements of a set in some order: what stays true of   *)
(* its accumulator, and that a sum does not depend on the order.           *)
(* FlattenSeq joins sequences, SetToSortSeq lists a set in an order.       *)
(***************************************************************************)
EXTENDS Integers, FiniteSets, Sequences, FiniteSetsExt, SequencesExt, FiniteSetTheorems,
        SequenceTheorems, WellFoundedInduction, TLAPS

(* A set of numbers that is not empty has a least one.                     *)
LEMMA LeastNumber ==
    ASSUME NEW T \in SUBSET Nat, T # {}
    PROVE  \E n \in T : \A m \in T : n <= m
<1>1. PICK n \in T : \A m \in T : ~(<<m, n>> \in OpToRel(<, Nat))
  BY WFMin, NatLessThanWellFounded
<1>2. \A m \in T : ~(m < n)
  BY <1>1 DEF OpToRel
<1> QED BY <1>2

(* Min is that least number.                                               *)
LEMMA MinIsLeast ==
    ASSUME NEW T \in SUBSET Nat, T # {}
    PROVE  Min(T) \in T /\ \A m \in T : Min(T) <= m
BY LeastNumber DEF Min

(* Some numbers up to n have a greatest.                                   *)
LEMMA MaxIsAmongThem ==
    ASSUME NEW n \in Nat, NEW T \in SUBSET (1 .. n), T # {}
    PROVE  Max(T) \in T /\ \A x \in T : x <= Max(T)
<1> DEFINE U == {n - x : x \in T}
<1>1. \A x \in T : x \in Nat /\ x <= n /\ n - x \in Nat
  OBVIOUS
<1>2. U \in SUBSET Nat /\ U # {}
  BY <1>1
<1>3. PICK u \in U : \A v \in U : u <= v
  BY <1>2, LeastNumber
<1>4. PICK x \in T : u = n - x
  BY <1>3
<1>5. \A y \in T : x >= y
  <2> TAKE y \in T
  <2>1. n - y \in U /\ n - x <= n - y
    BY <1>3, <1>4
  <2> QED BY <1>1, <2>1
<1>6. Max(T) \in T /\ \A y \in T : Max(T) >= y
  BY <1>5 DEF Max
<1> QED BY <1>1, <1>6

(* Induction over the numbers up to n.                                     *)
LEMMA UpTo ==
    ASSUME NEW n \in Nat, NEW Good, 0 \in Good,
           \A k \in 0 .. n - 1 : k \in Good => k + 1 \in Good
    PROVE  \A k \in 0 .. n : k \in Good
<1> DEFINE Off == {k \in Nat : k <= n /\ k \notin Good}
<1>1. Off = {}
  <2> SUFFICES ASSUME Off # {} PROVE FALSE
    OBVIOUS
  <2>1. PICK k \in Off : \A j \in Off : k <= j
    BY LeastNumber
  <2>2. k # 0
    BY <2>1
  <2>3. k - 1 \in 0 .. n - 1 /\ k - 1 \in Nat /\ k - 1 <= n /\ (k - 1) + 1 = k
    BY <2>1, <2>2
  <2>4. k - 1 \in Good
    BY <2>1, <2>3
  <2> QED BY <2>1, <2>3, <2>4
<1> QED BY <1>1

-----------------------------------------------------------------------------
(* g takes a step n times, from x; there is such a g.                      *)
Iterates(g, x, step, n) == g = [k \in 0 .. n |-> IF k = 0 THEN x ELSE step[g[k - 1]]]

LEMMA RepeaterExists ==
    ASSUME NEW x, NEW step, NEW n \in Nat
    PROVE  \E g : Iterates(g, x, step, n)
<1> DEFINE Good == {k \in Nat : \E g : Iterates(g, x, step, k)}
<1>1. 0 \in Good
  <2>1. Iterates([k \in 0 .. 0 |-> x], x, step, 0)
    BY DEF Iterates
  <2> QED BY <2>1
<1>2. ASSUME NEW k \in 0 .. n - 1, k \in Good PROVE k + 1 \in Good
  <2>1. PICK h : Iterates(h, x, step, k)
    BY <1>2
  <2>2. /\ k \in Nat /\ k + 1 \in Nat
        /\ \A i \in 0 .. k : i \in 0 .. k + 1
        /\ \A i \in 0 .. k + 1 : i # 0 => i - 1 \in 0 .. k
    OBVIOUS
  <2> DEFINE g == [i \in 0 .. k + 1 |-> IF i = 0 THEN x ELSE step[h[i - 1]]]
  <2>3. \A i \in 0 .. k : g[i] = h[i]
    <3>1. \A i \in 0 .. k : h[i] = IF i = 0 THEN x ELSE step[h[i - 1]]
      BY <2>1 DEF Iterates
    <3> QED BY <2>2, <3>1
  <2>4. \A i \in 0 .. k + 1 : g[i] = IF i = 0 THEN x ELSE step[h[i - 1]]
    OBVIOUS
  <2>5. g = [i \in 0 .. k + 1 |-> g[i]]
    OBVIOUS
  <2> HIDE DEF g
  <2>6. \A i \in 0 .. k + 1 : g[i] = IF i = 0 THEN x ELSE step[g[i - 1]]
    BY <2>2, <2>3, <2>4
  <2>7. Iterates(g, x, step, k + 1)
    BY <2>5, <2>6 DEF Iterates
  <2> QED BY <2>2, <2>7
<1> HIDE DEF Good
<1>3. \A k \in 0 .. n : k \in Good
  BY <1>1, <1>2, UpTo
<1> QED BY <1>3 DEF Good

(* g is the running total of w, and is so up to n.                         *)
RunningTotal(g, w) == g = [k \in Nat |-> IF k = 0 THEN 0 ELSE g[k - 1] + w[k]]

TotalUpTo(g, w, n) == g = [k \in 0 .. n |-> IF k = 0 THEN 0 ELSE g[k - 1] + w[k]]

(* Up to any number there is one, and but one.                             *)
LEMMA TotalsUpTo ==
    ASSUME NEW w, NEW n \in Nat
    PROVE  /\ \E g : TotalUpTo(g, w, n)
           /\ \A m \in n .. n + 1 : \A g, h : TotalUpTo(g, w, n) /\ TotalUpTo(h, w, m) => g[n] = h[n]
<1>1. \E g : TotalUpTo(g, w, n)
  <2> DEFINE Good == {k \in Nat : \E g : TotalUpTo(g, w, k)}
  <2>1. 0 \in Good
    <3>1. TotalUpTo([i \in 0 .. 0 |-> 0], w, 0)
      BY DEF TotalUpTo
    <3> QED BY <3>1
  <2>2. ASSUME NEW k \in 0 .. n - 1, k \in Good PROVE k + 1 \in Good
    <3>1. PICK h : TotalUpTo(h, w, k)
      BY <2>2
    <3>2. /\ k \in Nat /\ k + 1 \in Nat
          /\ \A i \in 0 .. k : i \in 0 .. k + 1
          /\ \A i \in 0 .. k + 1 : i # 0 => i - 1 \in 0 .. k
      OBVIOUS
    <3> DEFINE g == [i \in 0 .. k + 1 |-> IF i = 0 THEN 0 ELSE h[i - 1] + w[i]]
    <3>3. \A i \in 0 .. k : g[i] = h[i]
      <4>1. \A i \in 0 .. k : h[i] = IF i = 0 THEN 0 ELSE h[i - 1] + w[i]
        BY <3>1 DEF TotalUpTo
      <4> QED BY <3>2, <4>1
    <3>4. \A i \in 0 .. k + 1 : g[i] = IF i = 0 THEN 0 ELSE h[i - 1] + w[i]
      OBVIOUS
    <3>5. g = [i \in 0 .. k + 1 |-> g[i]]
      OBVIOUS
    <3> HIDE DEF g
    <3>6. \A i \in 0 .. k + 1 : g[i] = IF i = 0 THEN 0 ELSE g[i - 1] + w[i]
      BY <3>2, <3>3, <3>4
    <3>7. TotalUpTo(g, w, k + 1)
      BY <3>5, <3>6 DEF TotalUpTo
    <3> QED BY <3>2, <3>7
  <2> HIDE DEF Good
  <2>3. \A k \in 0 .. n : k \in Good
    BY <2>1, <2>2, UpTo
  <2>4. n \in Good
    BY <2>3
  <2> QED BY <2>4 DEF Good
<1>2. ASSUME NEW m \in n .. n + 1, NEW g, NEW h, TotalUpTo(g, w, n), TotalUpTo(h, w, m)
      PROVE  g[n] = h[n]
  <2> DEFINE Good == {k \in 0 .. n : g[k] = h[k]}
  <2>1. /\ \A i \in 0 .. n : g[i] = IF i = 0 THEN 0 ELSE g[i - 1] + w[i]
        /\ \A i \in 0 .. m : h[i] = IF i = 0 THEN 0 ELSE h[i - 1] + w[i]
    BY <1>2 DEF TotalUpTo
  <2>2. \A i \in 0 .. n : i \in 0 .. m
    OBVIOUS
  <2>3. 0 \in Good
    BY <2>1, <2>2
  <2>4. ASSUME NEW k \in 0 .. n - 1, k \in Good PROVE k + 1 \in Good
    <3>1. k + 1 \in 0 .. n /\ k + 1 # 0 /\ (k + 1) - 1 = k
      OBVIOUS
    <3>2. g[k + 1] = g[k] + w[k + 1] /\ h[k + 1] = h[k] + w[k + 1]
      BY <2>1, <2>2, <3>1
    <3> QED BY <2>4, <3>1, <3>2
  <2> HIDE DEF Good
  <2>5. \A k \in 0 .. n : k \in Good
    BY <2>3, <2>4, UpTo
  <2> QED BY <2>5 DEF Good
<1> QED BY <1>1, <1>2

(* There is a running total.                                               *)
LEMMA RunningTotalExists ==
    ASSUME NEW w PROVE \E g : RunningTotal(g, w)
<1> DEFINE part(n) == CHOOSE g : TotalUpTo(g, w, n)
           total == [n \in Nat |-> part(n)[n]]
<1>1. \A n \in Nat : TotalUpTo(part(n), w, n)
  BY TotalsUpTo
<1> HIDE DEF part
<1>2. ASSUME NEW n \in Nat
      PROVE  total[n] = IF n = 0 THEN 0 ELSE total[n - 1] + w[n]
  <2>1. part(n)[n] = IF n = 0 THEN 0 ELSE part(n)[n - 1] + w[n]
    <3>1. n \in 0 .. n
      OBVIOUS
    <3> QED BY <1>1, <3>1 DEF TotalUpTo
  <2>2. CASE n = 0
    BY <2>1, <2>2
  <2>3. CASE n # 0
    <3>1. n - 1 \in Nat /\ n \in n - 1 .. (n - 1) + 1
      BY <2>3
    <3>2. TotalUpTo(part(n - 1), w, n - 1) /\ TotalUpTo(part(n), w, n)
      BY <1>1, <3>1
    <3>3. part(n - 1)[n - 1] = part(n)[n - 1]
      BY <3>1, <3>2, TotalsUpTo
    <3> QED BY <2>1, <2>3, <3>1, <3>3
  <2> QED BY <2>2, <2>3
<1>3. total = [n \in Nat |-> total[n]]
  OBVIOUS
<1> HIDE DEF total
<1>4. RunningTotal(total, w)
  BY <1>2, <1>3 DEF RunningTotal
<1> QED BY <1>4

-----------------------------------------------------------------------------
(* The element a fold takes first, and the subsets of up to n elements.    *)
Pick(s) == CHOOSE x \in s : TRUE
Small(S, n) == {s \in SUBSET S : Cardinality(s) <= n}

(* g folds the members of D from base, one element after the other, the    *)
(* one that pick names first.                                              *)
Folds(g, step, base, pick, D) ==
    g = [s \in D |-> IF s = {} THEN base ELSE step[pick[s]][g[s \ {pick[s]}]]]

Picks(pick, S) == \A s \in SUBSET S : s # {} => pick[s] \in s

(* The element taken is one of the set.                                    *)
LEMMA PickFrom ==
    ASSUME NEW s, s # {} PROVE Pick(s) \in s
BY DEF Pick

(* A finite set without one of its elements has one element fewer.         *)
LEMMA OneFewer ==
    ASSUME NEW s, IsFiniteSet(s), NEW x \in s
    PROVE  /\ IsFiniteSet(s \ {x}) /\ Cardinality(s) \in Nat
           /\ Cardinality(s \ {x}) = Cardinality(s) - 1 /\ Cardinality(s) - 1 \in Nat
<1>1. IsFiniteSet(s \ {x}) /\ Cardinality(s \ {x}) = Cardinality(s) - 1
  BY FS_RemoveElement
<1>2. Cardinality(s) \in Nat /\ Cardinality(s \ {x}) \in Nat
  BY <1>1, FS_CardinalityType
<1> QED BY <1>1, <1>2

(* There is a function that folds every subset of a finite set.            *)
LEMMA FolderExists ==
    ASSUME NEW S, IsFiniteSet(S), NEW step, NEW base, NEW pick, Picks(pick, S)
    PROVE  \E g : Folds(g, step, base, pick, SUBSET S)
<1> DEFINE T == {n \in Nat : ~ \E g : Folds(g, step, base, pick, Small(S, n))}
<1>1. T = {}
  <2> SUFFICES ASSUME T # {} PROVE FALSE
    OBVIOUS
  <2>1. PICK n \in T : \A m \in T : n <= m
    BY LeastNumber
  <2>2. \A s \in SUBSET S : IsFiniteSet(s) /\ Cardinality(s) \in Nat
    BY FS_Subset, FS_CardinalityType
  <2>3. CASE n = 0
    <3> DEFINE g == [s \in Small(S, n) |-> base]
    <3>1. \A s \in Small(S, n) : s = {}
      BY <2>2, <2>3, FS_EmptySet DEF Small
    <3>2. Folds(g, step, base, pick, Small(S, n))
      BY <3>1 DEF Folds
    <3> QED BY <2>1, <3>2
  <2>4. CASE n # 0
    <3>1. n - 1 \in Nat /\ n - 1 \notin T
      BY <2>1, <2>4
    <3>2. PICK h : Folds(h, step, base, pick, Small(S, n - 1))
      BY <3>1
    <3> DEFINE g == [s \in Small(S, n) |->
                       IF s = {} THEN base ELSE step[pick[s]][h[s \ {pick[s]}]]]
    <3>3. ASSUME NEW s \in Small(S, n), s # {}
          PROVE  s \ {pick[s]} \in Small(S, n - 1) /\ s \ {pick[s]} \in Small(S, n)
      <4>1. pick[s] \in s /\ IsFiniteSet(s) /\ Cardinality(s) \in Nat /\ Cardinality(s) <= n
        BY <2>2, <3>3 DEF Small, Picks
      <4>2. Cardinality(s \ {pick[s]}) = Cardinality(s) - 1
        BY <4>1, FS_RemoveElement
      <4> QED BY <2>1, <4>1, <4>2 DEF Small
    <3>4. ASSUME NEW s \in Small(S, n - 1)
          PROVE  g[s] = h[s]
      <4>1. s \in Small(S, n)
        BY <2>1, <2>2 DEF Small
      <4>2. h[s] = IF s = {} THEN base ELSE step[pick[s]][h[s \ {pick[s]}]]
        BY <3>2 DEF Folds
      <4> QED BY <4>1, <4>2
    <3>5. Folds(g, step, base, pick, Small(S, n))
      <4>1. \A s \in Small(S, n) :
              g[s] = IF s = {} THEN base ELSE step[pick[s]][g[s \ {pick[s]}]]
        BY <3>3, <3>4
      <4> HIDE DEF g
      <4>2. g = [s \in Small(S, n) |-> g[s]]
        BY DEF g
      <4> QED BY <4>1, <4>2 DEF Folds
    <3> QED BY <2>1, <3>5
  <2> QED BY <2>3, <2>4
<1>2. Cardinality(S) \in Nat
  BY FS_CardinalityType
<1>3. PICK g : Folds(g, step, base, pick, Small(S, Cardinality(S)))
  BY <1>1, <1>2
<1>4. Small(S, Cardinality(S)) = SUBSET S
  BY FS_Subset DEF Small
<1> QED BY <1>3, <1>4

(* Induction over the subsets of a finite set, an element at a time.       *)
LEMMA SubsetInduction ==
    ASSUME NEW S, IsFiniteSet(S), NEW pick, Picks(pick, S), NEW Good, {} \in Good,
           \A s \in SUBSET S : s # {} /\ s \ {pick[s]} \in Good => s \in Good
    PROVE  \A s \in SUBSET S : s \in Good
<1> DEFINE Off == {n \in Nat : \E s \in SUBSET S : Cardinality(s) = n /\ s \notin Good}
<1>1. \A s \in SUBSET S : IsFiniteSet(s) /\ Cardinality(s) \in Nat
  BY FS_Subset, FS_CardinalityType
<1>2. Off = {}
  <2> SUFFICES ASSUME Off # {} PROVE FALSE
    OBVIOUS
  <2>1. PICK n \in Off : \A m \in Off : n <= m
    BY LeastNumber
  <2>2. PICK s \in SUBSET S : Cardinality(s) = n /\ s \notin Good
    BY <2>1
  <2>3. s # {} /\ pick[s] \in s /\ s \ {pick[s]} \in SUBSET S /\ s \ {pick[s]} \notin Good
    BY <2>2 DEF Picks
  <2>4. Cardinality(s \ {pick[s]}) = n - 1 /\ n - 1 \in Nat
    BY <1>1, <2>2, <2>3, OneFewer
  <2>5. n - 1 \in Off
    BY <2>3, <2>4
  <2> QED BY <2>1, <2>5
<1> QED BY <1>1, <1>2

(* What every step keeps is true of the whole fold.                        *)
LEMMA FoldStays ==
    ASSUME NEW S, IsFiniteSet(S), NEW R, NEW step \in [S -> [R -> R]], NEW base \in R,
           NEW pick, Picks(pick, S), NEW g, Folds(g, step, base, pick, SUBSET S)
    PROVE  \A s \in SUBSET S : g[s] \in R
<1> DEFINE Good == {s \in SUBSET S : g[s] \in R}
<1>1. \A s \in SUBSET S : g[s] = IF s = {} THEN base ELSE step[pick[s]][g[s \ {pick[s]}]]
  BY DEF Folds
<1>2. {} \in Good
  BY <1>1
<1>3. ASSUME NEW s \in SUBSET S, s # {}, s \ {pick[s]} \in Good
      PROVE  s \in Good
  <2>1. pick[s] \in S /\ g[s \ {pick[s]}] \in R
    BY <1>3 DEF Picks
  <2>2. step[pick[s]] \in [R -> R]
    BY <2>1
  <2>3. step[pick[s]][g[s \ {pick[s]}]] \in R
    BY <2>1, <2>2
  <2> QED BY <1>1, <1>3, <2>3
<1> HIDE DEF Good
<1>4. \A s \in SUBSET S : s \in Good
  BY <1>2, <1>3, SubsetInduction
<1> QED BY <1>4 DEF Good
-----------------------------------------------------------------------------
(* The sum of f over S, as a fold.                                         *)
Sum(f, S) == FoldSet(LAMBDA d, sum : sum + f[d], 0, S)

(* g adds up f over the members of D, one element after the other.         *)
Adds(g, f, D) ==
    g = [s \in D |-> IF s = {} THEN 0 ELSE g[s \ {Pick(s)}] + f[Pick(s)]]

(* There is a function that adds up, and it is one of those that fold.     *)
LEMMA SumIsAnAdder ==
    ASSUME NEW S, IsFiniteSet(S), NEW f, \A x \in S : f[x] \in Int
    PROVE  \E g : Adds(g, f, SUBSET S) /\ Sum(f, S) = g[S]
<1> DEFINE step == [x \in S |-> [n \in Int |-> n + f[x]]]
           pick == [s \in SUBSET S |-> Pick(s)]
           it == CHOOSE g : Adds(g, f, SUBSET S)
<1>0. Picks(pick, S)
  BY PickFrom DEF Picks
<1>1. PICK g : Folds(g, step, 0, pick, SUBSET S)
  BY <1>0, FolderExists
<1>2. step \in [S -> [Int -> Int]]
  OBVIOUS
<1>3. \A s \in SUBSET S : g[s] \in Int
  <2> DEFINE R == Int
  <2>1. step \in [S -> [R -> R]] /\ 0 \in R
    BY <1>2
  <2> HIDE DEF step, pick, R
  <2>2. \A s \in SUBSET S : g[s] \in R
    BY <1>0, <1>1, <2>1, FoldStays
  <2> QED BY <2>2 DEF R
<1>4. \A s \in SUBSET S : s # {} => Pick(s) \in S /\ g[s \ {Pick(s)}] \in Int
  BY <1>3, PickFrom
<1>5. \A s \in SUBSET S : g[s] = IF s = {} THEN 0 ELSE g[s \ {Pick(s)}] + f[Pick(s)]
  BY <1>1, <1>4 DEF Folds
<1>6. g = [s \in SUBSET S |-> g[s]]
  BY <1>1 DEF Folds
<1>7. Adds(g, f, SUBSET S)
  BY <1>5, <1>6 DEF Adds
<1>8. Adds(it, f, SUBSET S)
  BY <1>7
<1>9. Sum(f, S) = it[S]
  BY DEF Sum, FoldSet, MapThenFoldSet, Adds, Pick
<1> QED BY <1>8, <1>9

(* One function that adds up over a finite set, one over a part of it.     *)
BothAdd(g, h, f, S, T) ==
    IsFiniteSet(S) /\ T \in SUBSET S /\ Adds(g, f, SUBSET S) /\ Adds(h, f, SUBSET T)

(* Two functions that add up agree on the sets both know.                  *)
LEMMA AddersAgree ==
    ASSUME NEW S, NEW T, NEW f, NEW g, NEW h, BothAdd(g, h, f, S, T)
    PROVE  \A s \in SUBSET T : g[s] = h[s]
<1> USE DEF BothAdd
<1> DEFINE Off == {n \in Nat : \E s \in SUBSET T : Cardinality(s) = n /\ g[s] # h[s]}
<1>1. \A s \in SUBSET T : IsFiniteSet(s) /\ Cardinality(s) \in Nat /\ s \in SUBSET S
  BY FS_Subset, FS_CardinalityType
<1>2. Off = {}
  <2> SUFFICES ASSUME Off # {} PROVE FALSE
    OBVIOUS
  <2>1. PICK n \in Off : \A m \in Off : n <= m
    BY LeastNumber
  <2>2. PICK s \in SUBSET T : Cardinality(s) = n /\ g[s] # h[s]
    BY <2>1
  <2>3. /\ g[s] = IF s = {} THEN 0 ELSE g[s \ {Pick(s)}] + f[Pick(s)]
        /\ h[s] = IF s = {} THEN 0 ELSE h[s \ {Pick(s)}] + f[Pick(s)]
    BY <1>1, <2>2 DEF Adds
  <2>4. s # {} /\ g[s \ {Pick(s)}] # h[s \ {Pick(s)}]
    BY <2>2, <2>3
  <2>5. Cardinality(s \ {Pick(s)}) = n - 1 /\ n - 1 \in Nat
    BY <1>1, <2>2, <2>4, PickFrom, OneFewer
  <2>6. n - 1 \in Off
    BY <2>2, <2>4, <2>5
  <2> QED BY <2>1, <2>6
<1> QED BY <1>1, <1>2

(* The recursion of the fold. *)
LEMMA SumUnfolds ==
    ASSUME NEW S, IsFiniteSet(S), NEW f, \A x \in S : f[x] \in Int
    PROVE  Sum(f, S) = IF S = {} THEN 0 ELSE Sum(f, S \ {Pick(S)}) + f[Pick(S)]
<1>1. PICK g : Adds(g, f, SUBSET S) /\ Sum(f, S) = g[S]
  BY SumIsAnAdder
<1>2. g[S] = IF S = {} THEN 0 ELSE g[S \ {Pick(S)}] + f[Pick(S)]
  BY <1>1 DEF Adds
<1>3. IsFiniteSet(S \ {Pick(S)})
  BY FS_Subset
<1>4. PICK h : Adds(h, f, SUBSET (S \ {Pick(S)})) /\ Sum(f, S \ {Pick(S)}) = h[S \ {Pick(S)}]
  BY <1>3, SumIsAnAdder
<1>5. g[S \ {Pick(S)}] = h[S \ {Pick(S)}]
  <2> DEFINE T == S \ {Pick(S)}
  <2>1. T \in SUBSET S /\ T \in SUBSET T
    OBVIOUS
  <2>2. Adds(g, f, SUBSET S) /\ Adds(h, f, SUBSET T)
    BY <1>1, <1>4
  <2> HIDE DEF T
  <2>3. g[T] = h[T]
    <3>1. BothAdd(g, h, f, S, T)
      BY <2>1, <2>2 DEF BothAdd
    <3>2. \A s \in SUBSET T : g[s] = h[s]
      BY <3>1, AddersAgree
    <3> QED BY <2>1, <3>2
  <2> QED BY <2>3 DEF T
<1> QED BY <1>1, <1>2, <1>4, <1>5

(* The sum over no element is 0. *)
LEMMA SumEmpty ==
    ASSUME NEW f PROVE Sum(f, {}) = 0
BY FS_EmptySet, SumUnfolds

(* A sum of integers is an integer. *)
LEMMA SumIsInt ==
    ASSUME NEW S, IsFiniteSet(S), NEW f, \A x \in S : f[x] \in Int
    PROVE  Sum(f, S) \in Int
<1> DEFINE Good == {s \in SUBSET S : Sum(f, s) \in Int}
           pick == [s \in SUBSET S |-> Pick(s)]
<1>1. Picks(pick, S)
  BY PickFrom DEF Picks
<1>2. {} \in Good
  BY SumEmpty
<1>3. ASSUME NEW s \in SUBSET S, s # {}, s \ {pick[s]} \in Good PROVE s \in Good
  <2>1. Pick(s) \in S /\ f[Pick(s)] \in Int /\ pick[s] = Pick(s)
    BY <1>3, PickFrom
  <2>2. Sum(f, s) = Sum(f, s \ {Pick(s)}) + f[Pick(s)]
    BY <1>3, FS_Subset, SumUnfolds
  <2> QED BY <1>3, <2>1, <2>2
<1> HIDE DEF Good, pick
<1>4. \A s \in SUBSET S : s \in Good
  BY <1>1, <1>2, <1>3, SubsetInduction
<1> QED BY <1>4 DEF Good

(* A sum of natural numbers is one. *)
LEMMA SumType ==
    ASSUME NEW S, IsFiniteSet(S), NEW f, \A x \in S : f[x] \in Nat
    PROVE  Sum(f, S) \in Nat
<1> DEFINE Good == {s \in SUBSET S : Sum(f, s) \in Nat}
           pick == [s \in SUBSET S |-> Pick(s)]
<1>1. Picks(pick, S)
  BY PickFrom DEF Picks
<1>2. {} \in Good
  BY SumEmpty
<1>3. ASSUME NEW s \in SUBSET S, s # {}, s \ {pick[s]} \in Good PROVE s \in Good
  <2>1. Pick(s) \in S /\ f[Pick(s)] \in Nat /\ pick[s] = Pick(s)
    BY <1>3, PickFrom
  <2>2. Sum(f, s) = Sum(f, s \ {Pick(s)}) + f[Pick(s)]
    <3>1. IsFiniteSet(s) /\ \A x \in s : f[x] \in Int
      BY FS_Subset
    <3> QED BY <1>3, <3>1, SumUnfolds
  <2> QED BY <1>3, <2>1, <2>2
<1> HIDE DEF Good, pick
<1>4. \A s \in SUBSET S : s \in Good
  BY <1>1, <1>2, <1>3, SubsetInduction
<1> QED BY <1>4 DEF Good

(* Any element may be the last one added. *)
LEMMA SumOfOneMore ==
    ASSUME NEW S, IsFiniteSet(S), NEW f, \A x \in S : f[x] \in Int, NEW y \in S
    PROVE  Sum(f, S) = Sum(f, S \ {y}) + f[y]
<1> DEFINE Off == {n \in Nat : \E s \in SUBSET S : /\ Cardinality(s) = n
                                                /\ \E z \in s : Sum(f, s) # Sum(f, s \ {z}) + f[z]}
<1>1. \A s \in SUBSET S : IsFiniteSet(s) /\ Cardinality(s) \in Nat
  BY FS_Subset, FS_CardinalityType
<1>2. \A s \in SUBSET S : Sum(f, s) \in Int
  BY <1>1, SumIsInt
<1>3. Off = {}
  <2> SUFFICES ASSUME Off # {} PROVE FALSE
    OBVIOUS
  <2>1. PICK n \in Off : \A m \in Off : n <= m
    BY LeastNumber
  <2>2. PICK s \in SUBSET S, z \in S :
          z \in s /\ Cardinality(s) = n /\ Sum(f, s) # Sum(f, s \ {z}) + f[z]
    BY <2>1
  <2> DEFINE x == Pick(s)
  <2>3. x \in s /\ Sum(f, s) = Sum(f, s \ {x}) + f[x]
    BY <1>1, <2>2, SumUnfolds, PickFrom
  <2> HIDE DEF x
  <2>4. x # z
    BY <2>2, <2>3
  <2>5. /\ Cardinality(s \ {x}) = n - 1 /\ Cardinality(s \ {z}) = n - 1 /\ n - 1 \in Nat
    BY <1>1, <2>2, <2>3, OneFewer
  <2>6. n - 1 \notin Off
    BY <2>1, <2>5
  <2>7. /\ Sum(f, s \ {x}) = Sum(f, (s \ {x}) \ {z}) + f[z]
        /\ Sum(f, s \ {z}) = Sum(f, (s \ {z}) \ {x}) + f[x]
    BY <2>2, <2>3, <2>4, <2>5, <2>6
  <2>8. (s \ {x}) \ {z} = (s \ {z}) \ {x}
    OBVIOUS
  <2>9. Sum(f, (s \ {x}) \ {z}) \in Int /\ f[x] \in Int /\ f[z] \in Int
    BY <1>2, <2>2, <2>3
  <2> DEFINE rest == Sum(f, (s \ {x}) \ {z})
  <2>10. Sum(f, s) = (rest + f[z]) + f[x] /\ Sum(f, s \ {z}) = rest + f[x] /\ rest \in Int
    BY <2>3, <2>7, <2>8, <2>9
  <2> HIDE DEF rest
  <2> QED BY <2>2, <2>9, <2>10
<1> QED BY <1>1, <1>3

(* The larger set has the larger sum. *)
LEMMA SumIsMonotonic ==
    ASSUME NEW S, IsFiniteSet(S), NEW f, \A x \in S : f[x] \in Nat, NEW T \in SUBSET S
    PROVE  Sum(f, T) <= Sum(f, S)
<1> DEFINE Off == {n \in Nat : \E s \in SUBSET S : /\ Cardinality(s) = n /\ T \subseteq s
                                                /\ ~(Sum(f, T) <= Sum(f, s))}
<1>1. \A s \in SUBSET S : IsFiniteSet(s) /\ Cardinality(s) \in Nat /\ Sum(f, s) \in Nat
  BY FS_Subset, FS_CardinalityType, SumType
<1>2. Off = {}
  <2> SUFFICES ASSUME Off # {} PROVE FALSE
    OBVIOUS
  <2>1. PICK n \in Off : \A m \in Off : n <= m
    BY LeastNumber
  <2>2. PICK s \in SUBSET S : Cardinality(s) = n /\ T \subseteq s /\ ~(Sum(f, T) <= Sum(f, s))
    BY <2>1
  <2>3. PICK x \in s : x \notin T
    BY <1>1, <2>2
  <2>4. Sum(f, s) = Sum(f, s \ {x}) + f[x] /\ f[x] \in Nat /\ Sum(f, s \ {x}) \in Nat
    BY <1>1, SumOfOneMore
  <2>5. ~(Sum(f, T) <= Sum(f, s \ {x}))
    BY <1>1, <2>2, <2>4
  <2>6. Cardinality(s \ {x}) = n - 1 /\ n - 1 \in Nat
    BY <1>1, <2>2, <2>3, OneFewer
  <2>7. n - 1 \in Off
    BY <2>2, <2>3, <2>5, <2>6
  <2> QED BY <2>1, <2>7
<1> QED BY <1>1, <1>2

(* What is added up counts, not what else the function knows.              *)
LEMMA SumsAgree ==
    ASSUME NEW S, IsFiniteSet(S), NEW f, NEW g, \A x \in S : f[x] \in Int /\ g[x] = f[x]
    PROVE  Sum(g, S) = Sum(f, S)
<1> DEFINE Good == {s \in SUBSET S : Sum(g, s) = Sum(f, s)}
           pick == [s \in SUBSET S |-> Pick(s)]
<1>1. Picks(pick, S)
  BY PickFrom DEF Picks
<1>2. {} \in Good
  BY SumEmpty
<1>3. ASSUME NEW s \in SUBSET S, s # {}, s \ {pick[s]} \in Good PROVE s \in Good
  <2>1. Pick(s) \in S /\ pick[s] = Pick(s) /\ g[Pick(s)] = f[Pick(s)]
    BY <1>3, PickFrom
  <2>2. IsFiniteSet(s) /\ \A x \in s : f[x] \in Int /\ g[x] \in Int
    BY FS_Subset
  <2>3. Sum(f, s) = Sum(f, s \ {Pick(s)}) + f[Pick(s)]
    BY <1>3, <2>2, SumUnfolds
  <2>4. Sum(g, s) = Sum(g, s \ {Pick(s)}) + g[Pick(s)]
    BY <1>3, <2>2, SumUnfolds
  <2> QED BY <1>3, <2>1, <2>3, <2>4
<1> HIDE DEF Good, pick
<1>4. \A s \in SUBSET S : s \in Good
  BY <1>1, <1>2, <1>3, SubsetInduction
<1> QED BY <1>4 DEF Good

(* Zeros add up to nothing.                                                *)
LEMMA SumOfZeros ==
    ASSUME NEW S, IsFiniteSet(S), NEW f, \A x \in S : f[x] = 0
    PROVE  Sum(f, S) = 0
<1> DEFINE Good == {s \in SUBSET S : Sum(f, s) = 0}
           pick == [s \in SUBSET S |-> Pick(s)]
<1>1. Picks(pick, S)
  BY PickFrom DEF Picks
<1>2. {} \in Good
  BY SumEmpty
<1>3. ASSUME NEW s \in SUBSET S, s # {}, s \ {pick[s]} \in Good PROVE s \in Good
  <2>1. f[Pick(s)] = 0 /\ pick[s] = Pick(s)
    BY <1>3, PickFrom
  <2>2. IsFiniteSet(s) /\ \A x \in s : f[x] \in Int
    BY FS_Subset
  <2>3. Sum(f, s) = Sum(f, s \ {Pick(s)}) + f[Pick(s)]
    BY <1>3, <2>2, SumUnfolds
  <2> QED BY <1>3, <2>1, <2>3
<1> HIDE DEF Good, pick
<1>4. \A s \in SUBSET S : s \in Good
  BY <1>1, <1>2, <1>3, SubsetInduction
<1> QED BY <1>4 DEF Good

(* Ones add up to the number of elements.                                  *)
LEMMA SumOfOnes ==
    ASSUME NEW S, IsFiniteSet(S), NEW f, \A x \in S : f[x] = 1
    PROVE  Sum(f, S) = Cardinality(S)
<1> DEFINE Good == {s \in SUBSET S : Sum(f, s) = Cardinality(s)}
           pick == [s \in SUBSET S |-> Pick(s)]
<1>1. Picks(pick, S)
  BY PickFrom DEF Picks
<1>2. {} \in Good
  BY SumEmpty, FS_EmptySet
<1>3. ASSUME NEW s \in SUBSET S, s # {}, s \ {pick[s]} \in Good PROVE s \in Good
  <2>1. Pick(s) \in s /\ pick[s] = Pick(s) /\ f[Pick(s)] = 1
    BY <1>3, PickFrom
  <2>2. IsFiniteSet(s) /\ \A x \in s : f[x] \in Int
    BY FS_Subset
  <2>3. Sum(f, s) = Sum(f, s \ {Pick(s)}) + f[Pick(s)]
    BY <1>3, <2>2, SumUnfolds
  <2>4. Cardinality(s) \in Nat /\ Cardinality(s \ {Pick(s)}) = Cardinality(s) - 1
    BY <2>1, <2>2, OneFewer
  <2> QED BY <1>3, <2>1, <2>3, <2>4
<1> HIDE DEF Good, pick
<1>4. \A s \in SUBSET S : s \in Good
  BY <1>1, <1>2, <1>3, SubsetInduction
<1> QED BY <1>4 DEF Good

(* Two sets that have no element in common add up one after the other.     *)
LEMMA SumOfApart ==
    ASSUME NEW S, IsFiniteSet(S), NEW f, \A x \in S : f[x] \in Int,
           NEW A \in SUBSET S, NEW B \in SUBSET S, A \intersect B = {}
    PROVE  Sum(f, A \union B) = Sum(f, A) + Sum(f, B)
<1> DEFINE Good == {s \in SUBSET B : Sum(f, A \union s) = Sum(f, A) + Sum(f, s)}
           pick == [s \in SUBSET B |-> Pick(s)]
<1>1. Picks(pick, B)
  BY PickFrom DEF Picks
<1>2. \A s \in SUBSET S : IsFiniteSet(s) /\ Sum(f, s) \in Int
  BY FS_Subset, SumIsInt
<1>3. {} \in Good
  <2>1. A \union {} = A /\ Sum(f, {}) = 0 /\ Sum(f, A) \in Int
    BY <1>2, SumEmpty
  <2> QED BY <2>1
<1>4. ASSUME NEW s \in SUBSET B, s # {}, s \ {pick[s]} \in Good PROVE s \in Good
  <2> DEFINE x == Pick(s)
             r == s \ {x}
  <2>1. x \in s /\ pick[s] = x /\ f[x] \in Int
    BY <1>4, PickFrom
  <2> HIDE DEF x
  <2>2. Sum(f, s) = Sum(f, r) + f[x]
    BY <1>2, <2>1, SumOfOneMore
  <2>3. Sum(f, A \union s) = Sum(f, (A \union s) \ {x}) + f[x]
    <3>1. IsFiniteSet(A \union s) /\ x \in A \union s /\ \A y \in A \union s : f[y] \in Int
      BY <1>2, <2>1
    <3> QED BY <3>1, SumOfOneMore
  <2>4. (A \union s) \ {x} = A \union r
    BY <2>1
  <2>5. Sum(f, A \union r) = Sum(f, A) + Sum(f, r) /\ Sum(f, A) \in Int /\ Sum(f, r) \in Int
    BY <1>2, <1>4, <2>1
  <2>6. Sum(f, A \union s) = Sum(f, A) + Sum(f, s)
    <3> DEFINE a == Sum(f, A)
               b == Sum(f, r)
               c == f[x]
    <3>1. a \in Int /\ b \in Int /\ c \in Int
      BY <2>1, <2>5
    <3>2. Sum(f, A \union s) = (a + b) + c
      BY <2>3, <2>4, <2>5, Zenon
    <3>3. Sum(f, s) = b + c
      BY <2>2
    <3> HIDE DEF a, b, c
    <3>4. (a + b) + c = a + (b + c)
      BY <3>1
    <3> QED BY <3>2, <3>3, <3>4, Zenon DEF a
  <2> QED BY <2>6
<1> HIDE DEF Good, pick
<1>5. \A s \in SUBSET B : s \in Good
  <2>1. IsFiniteSet(B)
    BY <1>2
  <2> QED BY <1>1, <1>3, <1>4, <2>1, SubsetInduction
<1> QED BY <1>5 DEF Good

(* The sum over one element.                                               *)
LEMMA SumOfSingle ==
    ASSUME NEW f, NEW x, f[x] \in Int
    PROVE  Sum(f, {x}) = f[x]
<1> DEFINE S == {x}
<1>1. IsFiniteSet(S) /\ x \in S /\ \A y \in S : f[y] \in Int
  BY FS_Singleton
<1>2. S \ {x} = {}
  OBVIOUS
<1> HIDE DEF S
<1>3. Sum(f, S) = Sum(f, S \ {x}) + f[x]
  BY <1>1, SumOfOneMore
<1>4. Sum(f, S) = 0 + f[x]
  BY <1>2, <1>3, SumEmpty
<1> QED BY <1>4 DEF S

(* Adding up group by group: when rep names the group of every element,    *)
(* the sums of the groups add up to the sum of all.                        *)
LEMMA SumByFibres ==
    ASSUME NEW S, IsFiniteSet(S), NEW T, IsFiniteSet(T), NEW rep, \A x \in S : rep[x] \in T,
           NEW f, \A x \in S : f[x] \in Int,
           NEW part, \A t \in T : part[t] = {x \in S : rep[x] = t},
           NEW w, \A t \in T : w[t] = Sum(f, part[t])
    PROVE  Sum(w, T) = Sum(f, S)
<1> DEFINE Over(U) == {x \in S : rep[x] \in U}
           Good == {U \in SUBSET T : Sum(w, U) = Sum(f, Over(U))}
           pick == [U \in SUBSET T |-> Pick(U)]
<1>1. Picks(pick, T)
  BY PickFrom DEF Picks
<1>2. \A s \in SUBSET S : IsFiniteSet(s) /\ Sum(f, s) \in Int
  BY FS_Subset, SumIsInt
<1>3. \A t \in T : w[t] \in Int
  <2>1. \A t \in T : part[t] \in SUBSET S
    OBVIOUS
  <2> QED BY <1>2, <2>1
<1>4. \A U \in SUBSET T : IsFiniteSet(U) /\ Sum(w, U) \in Int
  BY <1>3, FS_Subset, SumIsInt
<1>5. {} \in Good
  <2>1. Over({}) = {}
    OBVIOUS
  <2>2. Sum(w, {}) = 0 /\ Sum(f, {}) = 0
    BY SumEmpty
  <2> QED BY <2>1, <2>2
<1>6. ASSUME NEW U \in SUBSET T, U # {}, U \ {pick[U]} \in Good PROVE U \in Good
  <2> DEFINE t == Pick(U)
             V == U \ {t}
             fibre == part[t]
  <2>1. t \in U /\ pick[U] = t
    BY <1>6, PickFrom
  <2> HIDE DEF t
  <2>2. Sum(w, U) = Sum(w, V) + w[t]
    <3>1. IsFiniteSet(U) /\ \A u \in U : w[u] \in Int
      BY <1>3, <1>4
    <3> QED BY <2>1, <3>1, SumOfOneMore
  <2>3. Over(U) = Over(V) \union fibre /\ Over(V) \intersect fibre = {}
    BY <2>1
  <2>4. Over(V) \in SUBSET S /\ fibre \in SUBSET S
    BY <2>1
  <2>5. w[t] = Sum(f, fibre) /\ Sum(w, V) = Sum(f, Over(V))
    BY <1>6, <2>1
  <2> HIDE DEF fibre
  <2>6. Sum(f, Over(V) \union fibre) = Sum(f, Over(V)) + Sum(f, fibre)
    <3> DEFINE rest == Over(V)
    <3>1. rest \in SUBSET S /\ fibre \in SUBSET S /\ rest \intersect fibre = {}
      BY <2>3, <2>4
    <3> HIDE DEF rest
    <3>2. Sum(f, rest \union fibre) = Sum(f, rest) + Sum(f, fibre)
      BY <3>1, SumOfApart
    <3> QED BY <3>2 DEF rest
  <2>7. Sum(w, U) = Sum(f, Over(U))
    BY <2>2, <2>3, <2>5, <2>6
  <2> QED BY <2>7
<1> HIDE DEF Good, pick
<1>7. \A U \in SUBSET T : U \in Good
  BY <1>1, <1>5, <1>6, SubsetInduction
<1>8. Over(T) = S
  OBVIOUS
<1> HIDE DEF Over
<1> QED BY <1>7, <1>8 DEF Good
(* A function adds up to the sum of its values.                            *)
LEMMA SumFunctionIsSum ==
    ASSUME NEW S, IsFiniteSet(S), NEW f, DOMAIN f = S, \A x \in S : f[x] \in Int
    PROVE  SumFunction(f) = Sum(f, S)
<1> DEFINE AddsInFront(g) == g = [s \in SUBSET S |-> IF s = {} THEN 0 ELSE f[Pick(s)] + g[s \ {Pick(s)}]]
           it == CHOOSE g : AddsInFront(g)
<1>1. PICK g : Adds(g, f, SUBSET S) /\ Sum(f, S) = g[S]
  BY SumIsAnAdder
<1>2. \A s \in SUBSET S : g[s] = IF s = {} THEN 0 ELSE g[s \ {Pick(s)}] + f[Pick(s)]
  BY <1>1 DEF Adds
<1> DEFINE pick == [s \in SUBSET S |-> Pick(s)]
<1>3. Picks(pick, S) /\ \A s \in SUBSET S : s # {} => Pick(s) \in S /\ pick[s] = Pick(s)
  BY PickFrom DEF Picks
<1> HIDE DEF pick
<1>4. \A s \in SUBSET S : g[s] \in Int
  <2> DEFINE Good == {s \in SUBSET S : g[s] \in Int}
  <2>1. {} \in Good
    <3>1. {} \in SUBSET S
      OBVIOUS
    <3>2. g[{}] = 0
      BY <1>2, <3>1
    <3> QED BY <3>1, <3>2
  <2>2. ASSUME NEW s \in SUBSET S, s # {}, s \ {pick[s]} \in Good PROVE s \in Good
    BY <1>2, <1>3, <2>2
  <2> HIDE DEF Good
  <2>3. \A s \in SUBSET S : s \in Good
    BY <1>3, <2>1, <2>2, SubsetInduction
  <2> QED BY <2>3 DEF Good
<1>5. \A s \in SUBSET S : s # {} => g[s \ {Pick(s)}] + f[Pick(s)] = f[Pick(s)] + g[s \ {Pick(s)}]
  BY <1>3, <1>4
<1>6. AddsInFront(g)
  <2>1. g = [s \in SUBSET S |-> g[s]]
    BY <1>1 DEF Adds
  <2>2. \A s \in SUBSET S : g[s] = IF s = {} THEN 0 ELSE f[Pick(s)] + g[s \ {Pick(s)}]
    BY <1>2, <1>5
  <2> QED BY <2>1, <2>2
<1>7. AddsInFront(it)
  BY <1>6
<1>8. SumFunction(f) = it[S]
  BY DEF SumFunction, SumFunctionOnSet, FoldFunctionOnSet, MapThenFoldSet, Pick
<1> HIDE DEF it
<1>9. \A s \in SUBSET S : it[s] = g[s]
  <2> DEFINE Good == {s \in SUBSET S : it[s] = g[s]}
  <2>1. \A s \in SUBSET S : it[s] = IF s = {} THEN 0 ELSE f[Pick(s)] + it[s \ {Pick(s)}]
    BY <1>7
  <2>2. {} \in Good
    BY <1>2, <2>1
  <2>3. ASSUME NEW s \in SUBSET S, s # {}, s \ {pick[s]} \in Good PROVE s \in Good
    <3>1. it[s] = f[Pick(s)] + it[s \ {Pick(s)}] /\ g[s] = f[Pick(s)] + g[s \ {Pick(s)}]
      BY <1>2, <1>5, <2>1, <2>3
    <3>2. it[s \ {Pick(s)}] = g[s \ {Pick(s)}]
      BY <1>3, <2>3
    <3> QED BY <3>1, <3>2
  <2> HIDE DEF Good
  <2>4. \A s \in SUBSET S : s \in Good
    BY <1>3, <2>2, <2>3, SubsetInduction
  <2> QED BY <2>4 DEF Good
<1> QED BY <1>1, <1>8, <1>9

(* f is a less b. *)
IsLess(f, a, b, S) == \A x \in S : a[x] \in Int /\ b[x] \in Int /\ f[x] = a[x] - b[x]

(* Differences add up to the difference of the sums.                       *)
LEMMA SumOfDifferences ==
    ASSUME NEW S, IsFiniteSet(S), NEW f, NEW a, NEW b, IsLess(f, a, b, S)
    PROVE  Sum(f, S) = Sum(a, S) - Sum(b, S)
<1> DEFINE Good == {s \in SUBSET S : Sum(f, s) = Sum(a, s) - Sum(b, s)}
           pick == [s \in SUBSET S |-> Pick(s)]
<1>1. Picks(pick, S)
  BY PickFrom DEF Picks
<1>2. {} \in Good
  BY SumEmpty
<1>3. ASSUME NEW s \in SUBSET S, s # {}, s \ {pick[s]} \in Good PROVE s \in Good
  <2> DEFINE x == Pick(s)
             r == s \ {x}
  <2>1. x \in S /\ pick[s] = x
    BY <1>3, PickFrom
  <2>2. /\ IsFiniteSet(s) /\ IsFiniteSet(r) /\ x \in s
        /\ \A y \in s : a[y] \in Int /\ b[y] \in Int /\ f[y] \in Int
    BY <1>3, FS_Subset, PickFrom DEF IsLess
  <2> HIDE DEF x
  <2>3. Sum(f, s) = Sum(f, r) + f[x] /\ Sum(a, s) = Sum(a, r) + a[x] /\ Sum(b, s) = Sum(b, r) + b[x]
    BY <2>2, SumOfOneMore
  <2>4. Sum(a, r) \in Int /\ Sum(b, r) \in Int
    BY <2>2, SumIsInt
  <2>5. Sum(f, r) = Sum(a, r) - Sum(b, r)
    BY <1>3, <2>1
  <2>6. f[x] = a[x] - b[x] /\ a[x] \in Int /\ b[x] \in Int
    BY <2>1 DEF IsLess
  <2> HIDE DEF r
  <2> QED BY <2>3, <2>4, <2>5, <2>6
<1> HIDE DEF Good, pick
<1>4. \A s \in SUBSET S : s \in Good
  BY <1>1, <1>2, <1>3, SubsetInduction
<1> QED BY <1>4 DEF Good
-----------------------------------------------------------------------------
(* g joins the first sequences of ss, one after the other.                 *)
Joins(g, ss, n) == g = [i \in 1 .. n |-> IF i = 1 THEN ss[i] ELSE g[i - 1] \o ss[i]]

(* There is a function that joins.                                         *)
LEMMA JoinerExists ==
    ASSUME NEW ss, NEW n \in Nat
    PROVE  \E g : Joins(g, ss, n)
<1> DEFINE T == {m \in Nat : ~ \E g : Joins(g, ss, m)}
<1>1. T = {}
  <2> SUFFICES ASSUME T # {} PROVE FALSE
    OBVIOUS
  <2>1. PICK m \in T : \A k \in T : m <= k
    BY LeastNumber
  <2>2. CASE m = 0
    <3>1. Joins([i \in 1 .. m |-> ss], ss, m)
      BY <2>2 DEF Joins
    <3> QED BY <2>1, <3>1
  <2>3. CASE m # 0
    <3>1. m - 1 \in Nat /\ m - 1 \notin T
      BY <2>1, <2>3
    <3>2. PICK h : Joins(h, ss, m - 1)
      BY <3>1
    <3> DEFINE g == [i \in 1 .. m |-> IF i = 1 THEN ss[i] ELSE h[i - 1] \o ss[i]]
    <3>3. ASSUME NEW i \in 1 .. m - 1 PROVE g[i] = h[i]
      <4>1. h[i] = IF i = 1 THEN ss[i] ELSE h[i - 1] \o ss[i]
        BY <3>2 DEF Joins
      <4>2. i \in 1 .. m
        BY <2>1
      <4> QED BY <4>1, <4>2
    <3>4. \A i \in 1 .. m : i # 1 => i - 1 \in 1 .. m - 1
      BY <2>1
    <3>5. \A i \in 1 .. m : g[i] = IF i = 1 THEN ss[i] ELSE g[i - 1] \o ss[i]
      <4>1. \A i \in 1 .. m : g[i] = IF i = 1 THEN ss[i] ELSE h[i - 1] \o ss[i]
        OBVIOUS
      <4> HIDE DEF g
      <4> QED BY <3>3, <3>4, <4>1
    <3>6. g = [i \in 1 .. m |-> g[i]]
      OBVIOUS
    <3> HIDE DEF g
    <3>7. Joins(g, ss, m)
      BY <3>5, <3>6 DEF Joins
    <3> QED BY <2>1, <3>7
  <2> QED BY <2>2, <2>3
<1> QED BY <1>1

(* FlattenSeq is what the last of the joins holds.                         *)
LEMMA FlattenJoins ==
    ASSUME NEW ss, Len(ss) \in Nat, Len(ss) # 0
    PROVE  \E g : Joins(g, ss, Len(ss)) /\ FlattenSeq(ss) = g[Len(ss)]
<1> DEFINE it == CHOOSE g : Joins(g, ss, Len(ss))
<1>1. Joins(it, ss, Len(ss))
  BY JoinerExists
<1>2. FlattenSeq(ss) = it[Len(ss)]
  BY DEF FlattenSeq, Joins
<1> QED BY <1>1, <1>2

(* Three sequences, joined.                                                *)
LEMMA FlattenThree ==
    ASSUME NEW ss, ss = [i \in 1 .. 3 |-> ss[i]]
    PROVE  FlattenSeq(ss) = (ss[1] \o ss[2]) \o ss[3]
<1>1. Len(ss) = 3
  <2>1. ss \in Seq({ss[1], ss[2], ss[3]}) /\ DOMAIN ss = 1 .. 3
    OBVIOUS
  <2> QED BY <2>1
<1>2. PICK g : Joins(g, ss, Len(ss)) /\ FlattenSeq(ss) = g[Len(ss)]
  <2>1. Len(ss) \in Nat /\ Len(ss) # 0
    BY <1>1
  <2> QED BY <2>1, FlattenJoins
<1>3. \A i \in 1 .. 3 : g[i] = IF i = 1 THEN ss[i] ELSE g[i - 1] \o ss[i]
  BY <1>1, <1>2 DEF Joins
<1>4. 1 \in 1 .. 3 /\ 2 \in 1 .. 3 /\ 3 \in 1 .. 3 /\ 2 - 1 = 1 /\ 3 - 1 = 2 /\ 2 # 1 /\ 3 # 1
  OBVIOUS
<1>5. g[1] = ss[1]
  BY <1>3, <1>4
<1>6. g[2] = g[1] \o ss[2]
  BY <1>3, <1>4
<1>7. g[3] = g[2] \o ss[3]
  BY <1>3, <1>4
<1> QED BY <1>1, <1>2, <1>5, <1>6, <1>7

(* What is joined are sequences.                                           *)
LEMMA JoinsAreSequences ==
    ASSUME NEW S, NEW ss \in Seq(Seq(S)), NEW g, Joins(g, ss, Len(ss))
    PROVE  \A i \in 1 .. Len(ss) : g[i] \in Seq(S)
<1> DEFINE Good == {n \in 0 .. Len(ss) : n = 0 \/ g[n] \in Seq(S)}
<1>1. Len(ss) \in Nat /\ \A i \in 1 .. Len(ss) : ss[i] \in Seq(S)
  OBVIOUS
<1>2. \A i \in 1 .. Len(ss) : g[i] = IF i = 1 THEN ss[i] ELSE g[i - 1] \o ss[i]
  BY DEF Joins
<1>3. 0 \in Good
  BY <1>1
<1>4. ASSUME NEW k \in 0 .. Len(ss) - 1, k \in Good
      PROVE  k + 1 \in Good
  <2>1. k + 1 \in 1 .. Len(ss) /\ (k + 1) - 1 = k /\ (k + 1 = 1 => k = 0)
    BY <1>1
  <2>2. g[k + 1] = IF k + 1 = 1 THEN ss[k + 1] ELSE g[k] \o ss[k + 1]
    BY <1>2, <2>1
  <2>3. CASE k = 0
    BY <1>1, <2>1, <2>2, <2>3
  <2>4. CASE k # 0
    <3>1. g[k] \in Seq(S) /\ ss[k + 1] \in Seq(S) /\ k + 1 # 1
      BY <1>1, <1>4, <2>1, <2>4
    <3>2. g[k] \o ss[k + 1] \in Seq(S)
      BY <3>1, ConcatProperties
    <3>3. g[k + 1] \in Seq(S)
      BY <2>2, <3>1, <3>2
    <3>4. k + 1 \in 0 .. Len(ss)
      BY <1>1, <2>1
    <3> QED BY <3>3, <3>4
  <2> QED BY <2>3, <2>4
<1> HIDE DEF Good
<1>5. \A k \in 0 .. Len(ss) : k \in Good
  BY <1>1, <1>3, <1>4, UpTo
<1> QED BY <1>1, <1>5 DEF Good

(* Where the parts begin in the flattened sequence: part i follows at[i-1].*)
Places(at, ss, flat) ==
    /\ at \in [0 .. Len(ss) -> Nat] /\ at[0] = 0 /\ Len(flat) = at[Len(ss)]
    /\ \A i \in 1 .. Len(ss) : at[i] = at[i - 1] + Len(ss[i])
    /\ \A i, j \in 0 .. Len(ss) : i <= j => at[i] <= at[j]
    /\ \A i \in 1 .. Len(ss) : \A k \in 1 .. Len(ss[i]) :
         at[i - 1] + k \in 1 .. Len(flat) /\ flat[at[i - 1] + k] = ss[i][k]

(* The flattened sequence has the members of its parts, part after part.   *)
LEMMA FlattenPlaces ==
    ASSUME NEW S, NEW ss \in Seq(Seq(S))
    PROVE  FlattenSeq(ss) \in Seq(S) /\ \E at : Places(at, ss, FlattenSeq(ss))
<1>1. /\ Len(ss) \in Nat /\ DOMAIN ss = 1 .. Len(ss)
      /\ \A i \in 1 .. Len(ss) : ss[i] \in Seq(S) /\ Len(ss[i]) \in Nat
  OBVIOUS
<1>2. CASE Len(ss) = 0
  <2>1. ss = <<>> /\ FlattenSeq(ss) = ss /\ ss \in Seq(S)
    BY <1>1, <1>2 DEF FlattenSeq
  <2>2. Places([i \in 0 .. Len(ss) |-> 0], ss, ss)
    BY <1>2 DEF Places
  <2> QED BY <2>1, <2>2
<1>3. CASE Len(ss) # 0
  <2> DEFINE n == Len(ss)
  <2>1. PICK g : Joins(g, ss, n) /\ FlattenSeq(ss) = g[n]
    BY <1>1, <1>3, FlattenJoins
  <2>2. \A i \in 1 .. n : g[i] \in Seq(S) /\ Len(g[i]) \in Nat
    BY <2>1, JoinsAreSequences
  <2> DEFINE at == [i \in 0 .. n |-> IF i = 0 THEN 0 ELSE Len(g[i])]
  <2>3. at \in [0 .. n -> Nat] /\ at[0] = 0
    <3>1. \A i \in 0 .. n : i = 0 \/ i \in 1 .. n
      BY <1>1
    <3> QED BY <1>1, <2>2, <3>1
  <2>4. ASSUME NEW i \in 1 .. n
        PROVE  /\ i - 1 \in 0 .. n /\ i \in 0 .. n /\ at[i] = Len(g[i])
               /\ at[i] = at[i - 1] + Len(ss[i])
               /\ i # 1 => i - 1 \in 1 .. n /\ g[i] = g[i - 1] \o ss[i] /\ at[i - 1] = Len(g[i - 1])
               /\ i = 1 => g[i] = ss[i]
    <3>1. g[i] = IF i = 1 THEN ss[i] ELSE g[i - 1] \o ss[i]
      BY <2>1 DEF Joins
    <3>2. i - 1 \in 0 .. n /\ i \in 0 .. n /\ at[i] = Len(g[i])
      BY <1>1
    <3>3. CASE i = 1
      BY <1>1, <2>3, <3>1, <3>2, <3>3
    <3>4. CASE i # 1
      <4>1. i - 1 \in 1 .. n /\ i - 1 # 0
        BY <1>1, <3>4
      <4>2. at[i - 1] = Len(g[i - 1])
        BY <3>2, <4>1
      <4>3. g[i] = g[i - 1] \o ss[i]
        BY <3>1, <3>4
      <4>4. Len(g[i]) = Len(g[i - 1]) + Len(ss[i])
        BY <1>1, <2>2, <4>1, <4>3, ConcatProperties
      <4> QED BY <3>2, <3>4, <4>1, <4>2, <4>3, <4>4
    <3> QED BY <3>3, <3>4
  <2> HIDE DEF at
  <2> DEFINE Up == {j \in 0 .. n : \A i \in 0 .. n : i <= j => at[i] <= at[j]}
  <2>5. \A j \in 0 .. n : j \in Up
    <3>1. 0 \in Up
      <4>1. \A i \in 0 .. n : i <= 0 => i = 0
        BY <1>1
      <4>2. 0 \in 0 .. n /\ at[0] \in Nat
        BY <1>1, <2>3
      <4> QED BY <4>1, <4>2
    <3>2. ASSUME NEW k \in 0 .. n - 1, k \in Up PROVE k + 1 \in Up
      <4>1. k + 1 \in 1 .. n /\ k + 1 \in 0 .. n /\ (k + 1) - 1 = k /\ k \in 0 .. n
        BY <1>1
      <4>2. at[k + 1] = at[k] + Len(ss[k + 1]) /\ at[k] \in Nat /\ Len(ss[k + 1]) \in Nat
        BY <1>1, <2>3, <2>4, <4>1
      <4>3. ASSUME NEW i \in 0 .. n, i <= k + 1 PROVE at[i] <= at[k + 1]
        <5>1. at[i] \in Nat
          BY <2>3
        <5>2. i <= k \/ i = k + 1
          BY <1>1, <4>3
        <5> QED BY <3>2, <4>2, <5>1, <5>2
      <4> QED BY <4>1, <4>3
    <3> HIDE DEF Up
    <3> QED BY <1>1, <3>1, <3>2, UpTo
  <2>6. \A i, j \in 0 .. n : i <= j => at[i] <= at[j]
    BY <2>5
  <2> HIDE DEF Up
  <2> DEFINE Good == {j \in 0 .. n : \A i \in 1 .. n : \A k \in 1 .. Len(ss[i]) :
                        i <= j => at[i - 1] + k \in 1 .. Len(g[j]) /\ g[j][at[i - 1] + k] = ss[i][k]}
  <2>7. \A j \in 0 .. n : j \in Good
    <3>1. 0 \in Good
      <4>1. 0 \in 0 .. n /\ \A i \in 1 .. n : ~(i <= 0)
        BY <1>1
      <4> QED BY <4>1
    <3>2. ASSUME NEW j \in 0 .. n - 1, j \in Good PROVE j + 1 \in Good
      <4>1. j + 1 \in 1 .. n /\ j + 1 \in 0 .. n /\ (j + 1) - 1 = j
        BY <1>1
      <4>2. ASSUME NEW i \in 1 .. n, NEW k \in 1 .. Len(ss[i]), i <= j + 1
            PROVE  at[i - 1] + k \in 1 .. Len(g[j + 1]) /\ g[j + 1][at[i - 1] + k] = ss[i][k]
        <5>1. CASE j + 1 = 1
          <6>1. i = 1 /\ at[i - 1] = 0 /\ g[j + 1] = ss[i]
            <7>1. i = 1 /\ j = 0 /\ i - 1 = 0
              BY <1>1, <4>2, <5>1
            <7>2. g[j + 1] = ss[j + 1] /\ j + 1 = i
              BY <2>4, <4>1, <5>1, <7>1
            <7>3. at[i - 1] = 0
              BY <2>3, <7>1
            <7> QED BY <7>1, <7>2, <7>3
          <6> QED BY <1>1, <6>1
        <5>2. CASE j + 1 # 1
          <6>1. /\ g[j + 1] = g[j] \o ss[j + 1] /\ j \in 1 .. n
                /\ at[j] = Len(g[j])
            BY <2>4, <4>1, <5>2
          <6>0. g[j] \in Seq(S) /\ ss[j + 1] \in Seq(S)
            BY <1>1, <2>2, <4>1, <6>1
          <6>7. /\ Len(g[j]) \in Nat /\ Len(ss[j + 1]) \in Nat
                 /\ Len(g[j + 1]) = Len(g[j]) + Len(ss[j + 1])
            <7>1. Len(g[j]) \in Nat /\ Len(ss[j + 1]) \in Nat
              BY <6>0, LenProperties
            <7>2. Len(g[j] \o ss[j + 1]) = Len(g[j]) + Len(ss[j + 1])
              BY <6>0, ConcatProperties
            <7> QED BY <6>1, <7>1, <7>2
          <6>2. \E a, b \in Nat : /\ Len(g[j]) = a /\ Len(ss[j + 1]) = b
                                  /\ Len(g[j + 1]) = a + b
            BY <6>7
          <6>3. CASE i = j + 1
            <7>1. at[i - 1] = Len(g[j]) /\ k \in 1 .. Len(ss[j + 1])
              BY <4>1, <6>1, <6>3
            <7>2. Len(g[j]) + k \in 1 .. Len(g[j + 1]) /\ ~(Len(g[j]) + k <= Len(g[j]))
                  /\ Len(g[j]) + k \in Nat /\ (Len(g[j]) + k) - Len(g[j]) = k
                  /\ Len(g[j]) + k \in 1 .. Len(g[j]) + Len(ss[j + 1])
              BY <6>2, <7>1
            <7>3. g[j + 1][Len(g[j]) + k] = ss[j + 1][k]
              BY <6>0, <6>1, <7>2, ConcatProperties
            <7> QED BY <6>3, <7>1, <7>2, <7>3
          <6>4. CASE i # j + 1
            <7>1. i <= j
              BY <4>2, <4>1, <6>4
            <7>2. at[i - 1] + k \in 1 .. Len(g[j]) /\ g[j][at[i - 1] + k] = ss[i][k]
              BY <3>2, <7>1
            <7>3. at[i - 1] + k \in 1 .. Len(g[j]) + Len(ss[j + 1])
              BY <6>2, <7>2
            <7>4. g[j + 1][at[i - 1] + k] = g[j][at[i - 1] + k]
              BY <6>0, <6>1, <7>2, <7>3, ConcatProperties
            <7> QED BY <6>2, <7>2, <7>3, <7>4
          <6> QED BY <6>3, <6>4
        <5> QED BY <5>1, <5>2
      <4> QED BY <4>1, <4>2
    <3> HIDE DEF Good
    <3> QED BY <1>1, <3>1, <3>2, UpTo
  <2>8. n \in 1 .. n /\ n \in 0 .. n /\ at[n] = Len(g[n])
    BY <1>1, <1>3, <2>4
  <2>9. \A i \in 1 .. n : \A k \in 1 .. Len(ss[i]) :
          at[i - 1] + k \in 1 .. Len(g[n]) /\ g[n][at[i - 1] + k] = ss[i][k]
    <3>1. n \in Good
      BY <2>7, <2>8
    <3>2. \A i \in 1 .. n : i <= n
      BY <1>1
    <3> QED BY <3>1, <3>2
  <2>10. Places(at, ss, g[n])
    BY <2>3, <2>4, <2>6, <2>8, <2>9 DEF Places
  <2> QED BY <2>1, <2>2, <2>8, <2>10
<1> QED BY <1>2, <1>3
-----------------------------------------------------------------------------
(* Those of S that stand before i.                                         *)
Ahead(S, r, i) == {j \in S : <<j, i>> \in r}

(* Counting from 1 what stands before each member of a finite set, in a    *)
(* strict total order, numbers the members without a gap.                  *)
LEMMA EveryPlaceIsTaken ==
    ASSUME NEW S, IsFiniteSet(S), NEW r,
           \A i \in S : <<i, i>> \notin r,
           \A i, j, k \in S : <<i, j>> \in r /\ <<j, k>> \in r => <<i, k>> \in r,
           \A i, j \in S : i = j \/ <<i, j>> \in r \/ <<j, i>> \in r,
           NEW k \in 1 .. Cardinality(S)
    PROVE  \E i \in S : 1 + Cardinality(Ahead(S, r, i)) = k
<1> DEFINE place == [i \in S |-> 1 + Cardinality(Ahead(S, r, i))]
           n == Cardinality(S)
<1>1. n \in Nat /\ \A i \in S : IsFiniteSet(Ahead(S, r, i)) /\ Cardinality(Ahead(S, r, i)) \in Nat
  BY FS_CardinalityType, FS_Subset DEF Ahead
<1>2. ASSUME NEW i \in S PROVE place[i] \in 1 .. n
  <2>1. Ahead(S, r, i) \in SUBSET (S \ {i})
    BY DEF Ahead
  <2>2. IsFiniteSet(S \ {i}) /\ Cardinality(S \ {i}) = n - 1 /\ n - 1 \in Nat
    BY OneFewer
  <2>3. Cardinality(Ahead(S, r, i)) <= n - 1
    BY <2>1, <2>2, FS_Subset
  <2> QED BY <1>1, <2>2, <2>3
<1>3. ASSUME NEW i \in S, NEW j \in S, <<i, j>> \in r
      PROVE  Cardinality(Ahead(S, r, i)) < Cardinality(Ahead(S, r, j))
  <2>1. Ahead(S, r, i) \in SUBSET (Ahead(S, r, j) \ {i}) /\ i \in Ahead(S, r, j)
    BY <1>3 DEF Ahead
  <2>2. /\ IsFiniteSet(Ahead(S, r, j) \ {i}) /\ Cardinality(Ahead(S, r, j) \ {i}) = Cardinality(Ahead(S, r, j)) - 1
        /\ Cardinality(Ahead(S, r, j)) - 1 \in Nat
    BY <1>1, <2>1, OneFewer
  <2>3. Cardinality(Ahead(S, r, i)) <= Cardinality(Ahead(S, r, j)) - 1
    BY <2>1, <2>2, FS_Subset
  <2> QED BY <1>1, <2>2, <2>3
<1> HIDE DEF n
<1>4. \A i, j \in S : place[i] = place[j] => i = j
  <2> SUFFICES ASSUME NEW i \in S, NEW j \in S, place[i] = place[j] PROVE i = j
    OBVIOUS
  <2>1. Cardinality(Ahead(S, r, i)) = Cardinality(Ahead(S, r, j))
    BY <1>1
  <2>2. <<i, j>> \notin r /\ <<j, i>> \notin r
    BY <1>1, <1>3, <2>1
  <2> QED BY <2>2
<1>5. place \in Injection(S, 1 .. n)
  BY <1>2, <1>4 DEF Injection, IsInjective
<1>6. IsFiniteSet(1 .. n) /\ Cardinality(1 .. n) = n
  BY <1>1, FS_Interval
<1>7. place \in Surjection(S, 1 .. n)
  BY <1>5, <1>6, FS_Injection DEF n
<1>8. \E i \in S : place[i] = k
  BY <1>7 DEF Surjection, n
<1> QED BY <1>8

(* A strict total order of S.                                             *)
StrictOrder(S, r) ==
    /\ \A i \in S : <<i, i>> \notin r
    /\ \A i, j, k \in S : <<i, j>> \in r /\ <<j, k>> \in r => <<i, k>> \in r
    /\ \A i, j \in S : i = j \/ <<i, j>> \in r \/ <<j, i>> \in r

(* at has, at each place, a member of S that stands there, if any does.    *)
ListedInOrder(at, S, r) ==
    \A k \in 1 .. Cardinality(S) :
        (\E i \in S : Cardinality(Ahead(S, r, i)) = k - 1)
            => at[k] \in S /\ Cardinality(Ahead(S, r, at[k])) = k - 1

(* Such a list has every member once, in order.                            *)
LEMMA ListsAreComplete ==
    ASSUME NEW S, IsFiniteSet(S), NEW r, StrictOrder(S, r), NEW at, ListedInOrder(at, S, r),
           NEW n, n = Cardinality(S)
    PROVE  /\ n \in Nat
           /\ \A k \in 1 .. n : at[k] \in S /\ Cardinality(Ahead(S, r, at[k])) = k - 1
           /\ \A j, k \in 1 .. n : at[j] = at[k] => j = k
           /\ \A i \in S : \E k \in 1 .. n : at[k] = i
           /\ \A j, k \in 1 .. n : j < k => <<at[j], at[k]>> \in r
<1>1. n \in Nat /\ \A i \in S : IsFiniteSet(Ahead(S, r, i)) /\ Cardinality(Ahead(S, r, i)) \in Nat
  <2>1. \A i \in S : Ahead(S, r, i) \in SUBSET S
    BY DEF Ahead
  <2> QED BY <2>1, FS_Subset, FS_CardinalityType
<1>2. ASSUME NEW k \in 1 .. n
      PROVE  at[k] \in S /\ Cardinality(Ahead(S, r, at[k])) = k - 1
  <2>1. PICK i \in S : 1 + Cardinality(Ahead(S, r, i)) = k
    <3>1. k \in 1 .. Cardinality(S)
      OBVIOUS
    <3>2. /\ \A i \in S : <<i, i>> \notin r
          /\ \A i, j, h \in S : <<i, j>> \in r /\ <<j, h>> \in r => <<i, h>> \in r
          /\ \A i, j \in S : i = j \/ <<i, j>> \in r \/ <<j, i>> \in r
      BY DEF StrictOrder
    <3> QED BY <3>1, <3>2, EveryPlaceIsTaken
  <2>2. Cardinality(Ahead(S, r, i)) = k - 1
    BY <1>1, <2>1
  <2> QED BY <2>2 DEF ListedInOrder
<1>3. \A j, k \in 1 .. n : at[j] = at[k] => j = k
  <2> TAKE j \in 1 .. n, k \in 1 .. n
  <2> HAVE at[j] = at[k]
  <2>1. j - 1 = k - 1
    BY <1>2
  <2> QED BY <1>1, <2>1
<1>4. \A i \in S : \E k \in 1 .. n : at[k] = i
  <2> DEFINE f == [k \in 1 .. n |-> at[k]]
  <2>1. f \in Injection(1 .. n, S)
    BY <1>2, <1>3 DEF Injection, IsInjective
  <2>2. IsFiniteSet(1 .. n) /\ Cardinality(1 .. n) = Cardinality(S)
    BY <1>1, FS_Interval
  <2>3. f \in Surjection(1 .. n, S)
    BY <2>1, <2>2, FS_Injection
  <2> QED BY <2>3 DEF Surjection
<1>5. ASSUME NEW j \in 1 .. n, NEW k \in 1 .. n, j < k PROVE <<at[j], at[k]>> \in r
  <2> SUFFICES ASSUME <<at[j], at[k]>> \notin r PROVE FALSE
    OBVIOUS
  <2>1. at[j] \in S /\ at[k] \in S /\ at[j] # at[k]
    BY <1>2, <1>3, <1>5
  <2>2. <<at[k], at[j]>> \in r
    BY <2>1 DEF StrictOrder
  <2>3. Ahead(S, r, at[k]) \subseteq Ahead(S, r, at[j])
    BY <2>1, <2>2 DEF Ahead, StrictOrder
  <2>4. Cardinality(Ahead(S, r, at[k])) <= Cardinality(Ahead(S, r, at[j]))
    BY <1>1, <2>1, <2>3, FS_Subset
  <2> QED BY <1>1, <1>2, <1>5, <2>4
<1> QED BY <1>1, <1>2, <1>3, <1>4, <1>5

(* What is where in a tail, and in a join of two sequences.                *)
LEMMA TailPlaces ==
    ASSUME NEW S, NEW q \in Seq(S), q # <<>>
    PROVE  /\ Tail(q) \in Seq(S) /\ Len(Tail(q)) = Len(q) - 1 /\ Len(Tail(q)) \in Nat
           /\ \A i \in 1 .. Len(Tail(q)) : Tail(q)[i] = q[i + 1] /\ i + 1 \in 1 .. Len(q)
OBVIOUS

LEMMA JoinPlaces ==
    ASSUME NEW S, NEW q \in Seq(S), NEW r \in Seq(S), NEW t, t = q \o r
    PROVE  /\ t \in Seq(S) /\ Len(t) = Len(q) + Len(r)
           /\ \A i \in 1 .. Len(q) : t[i] = q[i]
           /\ \A i \in Len(q) + 1 .. Len(t) : t[i] = r[i - Len(q)] /\ i - Len(q) \in 1 .. Len(r)
OBVIOUS

(* A sequence of different elements without one of them.                   *)
LEMMA RemoveAtMembers ==
    ASSUME NEW S, NEW s \in Seq(S), NEW i \in 1 .. Len(s)
    PROVE  /\ RemoveAt(s, i) \in Seq(S)
           /\ Len(RemoveAt(s, i)) = Len(s) - 1
           /\ \A k \in 1 .. Len(s) - 1 :
                RemoveAt(s, i)[k] = IF k < i THEN s[k] ELSE s[k + 1]
<1> DEFINE a == SubSeq(s, 1, i - 1)
           b == SubSeq(s, i + 1, Len(s))
           n == Len(s)
<1>1. n \in Nat /\ i \in 1 .. n /\ \A k \in 1 .. n : s[k] \in S
  OBVIOUS
<1>2. a \in Seq(S) /\ Len(a) = i - 1 /\ \A k \in 1 .. i - 1 : a[k] = s[k]
  BY <1>1, SubSeqProperties
<1>3. b \in Seq(S) /\ Len(b) = n - i /\ \A k \in 1 .. n - i : b[k] = s[k + i]
  BY <1>1, SubSeqProperties
<1>4. RemoveAt(s, i) = a \o b
  BY DEF RemoveAt
<1> HIDE DEF a, b, n
<1>5. /\ a \o b \in Seq(S) /\ Len(a \o b) = n - 1
      /\ \A k \in 1 .. n - 1 : (a \o b)[k] = IF k <= i - 1 THEN a[k] ELSE b[k - (i - 1)]
  <2>1. Len(a) + Len(b) = n - 1
    BY <1>1, <1>2, <1>3
  <2>2. /\ a \o b \in Seq(S) /\ Len(a \o b) = Len(a) + Len(b)
        /\ \A k \in 1 .. Len(a) + Len(b) :
             (a \o b)[k] = IF k <= Len(a) THEN a[k] ELSE b[k - Len(a)]
    BY <1>2, <1>3, ConcatProperties
  <2> QED BY <1>2, <2>1, <2>2
<1>6. ASSUME NEW k \in 1 .. n - 1
      PROVE  (a \o b)[k] = IF k < i THEN s[k] ELSE s[k + 1]
  <2>1. CASE k < i
    <3>1. k \in 1 .. i - 1 /\ k <= i - 1
      BY <1>1, <2>1
    <3> QED BY <1>2, <1>5, <2>1, <3>1
  <2>2. CASE ~(k < i)
    <3>1. k - (i - 1) \in 1 .. n - i /\ ~(k <= i - 1) /\ (k - (i - 1)) + i = k + 1
      BY <1>1, <2>2
    <3> QED BY <1>3, <1>5, <2>2, <3>1
  <2> QED BY <2>1, <2>2
<1> QED BY <1>4, <1>5, <1>6 DEF n
=============================================================================
