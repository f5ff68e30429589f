-------------------------------- MODULE Sums --------------------------------
(* What the folds of the specifications compute: sums of natural numbers   *)
(* over finite sets.  Induction is by minimal counterexample, since sets   *)
(* can be named where predicates cannot.                                   *)
EXTENDS Integers, FiniteSetsExt, FiniteSetTheorems, WellFoundedInduction, TLAPS

(* A set of natural numbers that is not empty has a least element.         *)
LEMMA NatMin ==
    ASSUME NEW T, T \subseteq Nat, T # {}
    PROVE  \E x \in T : \A y \in T : x <= y
<1>1. IsWellFoundedOn(OpToRel(<, Nat), Nat)
  BY NatLessThanWellFounded
<1>2. PICK x \in T : \A y \in T : ~(<<y, x>> \in OpToRel(<, Nat))
  BY <1>1, WFMin
<1>3. \A y \in Nat : y < x => <<y, x>> \in OpToRel(<, Nat)
  BY DEF OpToRel
<1>4. \A y \in T : ~(y < x) /\ y \in Nat
  BY <1>2, <1>3
<1>5. \A y \in T : x <= y
  BY <1>4
<1> QED BY <1>5

(* A set of natural numbers that has 0 and the successor of each of its    *)
(* elements has all of them.                                               *)
LEMMA NatAll ==
    ASSUME NEW P, 0 \in P, \A n \in Nat : n \in P => n + 1 \in P
    PROVE  Nat \subseteq P
<1> SUFFICES ASSUME Nat \ P # {} PROVE FALSE
  OBVIOUS
<1>1. PICK m \in Nat \ P : \A y \in Nat \ P : m <= y
  BY NatMin
<1>2. m # 0 /\ m - 1 \in Nat /\ (m - 1) + 1 = m
  BY <1>1
<1>3. m - 1 \in P
  BY <1>1, <1>2
<1> QED BY <1>1, <1>2, <1>3

(* A family of subsets of a finite set that contains a subset whenever it  *)
(* contains all those with one element less contains every subset.         *)
LEMMA SubsetAll ==
    ASSUME NEW S, IsFiniteSet(S), NEW P,
           \A s \in SUBSET S : (\A x \in s : s \ {x} \in P) => s \in P
    PROVE  SUBSET S \subseteq P
<1> DEFINE Q == {n \in Nat : \A s \in SUBSET S : Cardinality(s) = n => s \in P}
<1>1. \A s \in SUBSET S : IsFiniteSet(s) /\ Cardinality(s) \in Nat
  BY FS_Subset, FS_CardinalityType
<1>2. 0 \in Q
  <2> SUFFICES ASSUME NEW s \in SUBSET S, Cardinality(s) = 0 PROVE s \in P
    OBVIOUS
  <2>1. s = {}
    BY <1>1, FS_EmptySet
  <2> QED BY <2>1
<1>3. ASSUME NEW n \in Nat, n \in Q PROVE n + 1 \in Q
  <2> SUFFICES ASSUME NEW s \in SUBSET S, Cardinality(s) = n + 1 PROVE s \in P
    OBVIOUS
  <2>1. ASSUME NEW x \in s PROVE s \ {x} \in P
    <3>1. Cardinality(s \ {x}) = Cardinality(s) - 1
      BY <1>1, FS_RemoveElement
    <3>2. Cardinality(s \ {x}) = n /\ s \ {x} \in SUBSET S
      BY <3>1
    <3> QED BY <1>3, <3>2
  <2> QED BY <2>1
<1> HIDE DEF Q
<1>4. Nat \subseteq Q
  BY <1>2, <1>3, NatAll
<1> QED BY <1>1, <1>4 DEF Q

-----------------------------------------------------------------------------
(* The sum of f over S, as the community modules define it, and the        *)
(* equation that the function behind it solves.                            *)
Sum(f, S) == MapThenSumSet(LAMBDA x : f[x], S)

Chosen(s) == CHOOSE x \in s : TRUE
SumBody(f, s, g) == IF s = {} THEN 0 ELSE f[Chosen(s)] + g[s \ {Chosen(s)}]
SumSolves(f, S, g) == g = [s \in SUBSET S |-> SumBody(f, s, g)]

LEMMA SumUnfold ==
    ASSUME NEW f, NEW S, \E g : SumSolves(f, S, g)
    PROVE  \E g : SumSolves(f, S, g) /\ Sum(f, S) = g[S]
BY DEF Sum, MapThenSumSet, MapThenFoldSet, SumSolves, SumBody, Chosen

(* The equation has a solution: one up to every size of the subsets.       *)
LEMMA SumExists ==
    ASSUME NEW f, NEW S, IsFiniteSet(S)
    PROVE  \E g : SumSolves(f, S, g)
<1> DEFINE Upto(n) == {s \in SUBSET S : Cardinality(s) <= n}
           Q == {n \in Nat : \E g : g = [s \in Upto(n) |-> SumBody(f, s, g)]}
<1>1. \A s \in SUBSET S : IsFiniteSet(s) /\ Cardinality(s) \in Nat
  BY FS_Subset, FS_CardinalityType
<1>2. 0 \in Q
  <2> DEFINE g == [s \in Upto(0) |-> 0]
  <2>1. \A s \in Upto(0) : s = {}
    BY <1>1, FS_EmptySet
  <2>2. g = [s \in Upto(0) |-> SumBody(f, s, g)]
    BY <2>1 DEF SumBody
  <2> QED BY <2>2
<1>3. ASSUME NEW n \in Nat, n \in Q PROVE n + 1 \in Q
  <2>1. PICK g : g = [s \in Upto(n) |-> SumBody(f, s, g)]
    BY <1>3
  <2> DEFINE h == [s \in Upto(n + 1) |-> SumBody(f, s, g)]
  <2>2. \A s \in Upto(n) : s \in Upto(n + 1) /\ h[s] = g[s]
    <3> SUFFICES ASSUME NEW s \in Upto(n) PROVE s \in Upto(n + 1) /\ h[s] = g[s]
      OBVIOUS
    <3>1. s \in Upto(n + 1)
      BY <1>1
    <3> HIDE DEF Upto
    <3>2. h[s] = SumBody(f, s, g)
      BY <3>1
    <3>3. g[s] = SumBody(f, s, g)
      BY <2>1
    <3> QED BY <3>1, <3>2, <3>3
  <2>3. \A s \in Upto(n + 1) : s # {} => s \ {Chosen(s)} \in Upto(n)
    <3> SUFFICES ASSUME NEW s \in Upto(n + 1), s # {} PROVE s \ {Chosen(s)} \in Upto(n)
      OBVIOUS
    <3>1. Chosen(s) \in s
      BY DEF Chosen
    <3>2. Cardinality(s \ {Chosen(s)}) = Cardinality(s) - 1
      BY <1>1, <3>1, FS_RemoveElement
    <3> QED BY <1>1, <3>2
  <2> HIDE DEF Upto
  <2>4. \A s \in Upto(n + 1) : SumBody(f, s, g) = SumBody(f, s, h)
    BY <2>2, <2>3 DEF SumBody
  <2>5. h = [s \in Upto(n + 1) |-> SumBody(f, s, h)]
    BY <2>4
  <2> HIDE DEF h
  <2> QED BY <2>5
<1> HIDE DEF Q
<1>4. Nat \subseteq Q
  BY <1>2, <1>3, NatAll
<1>5. Cardinality(S) \in Q
  BY <1>1, <1>4
<1>6. PICK g : g = [s \in Upto(Cardinality(S)) |-> SumBody(f, s, g)]
  BY <1>5 DEF Q
<1>7. Upto(Cardinality(S)) = SUBSET S
  BY FS_Subset
<1> QED BY <1>6, <1>7 DEF SumSolves

(* Any two solutions agree where both are defined.                         *)
LEMMA SumUnique ==
    ASSUME NEW f, NEW S, IsFiniteSet(S), NEW g, SumSolves(f, S, g),
           NEW T \in SUBSET S, NEW h, SumSolves(f, T, h)
    PROVE  \A s \in SUBSET T : g[s] = h[s]
<1> DEFINE P == {s \in SUBSET T : g[s] = h[s]}
<1>1. ASSUME NEW s \in SUBSET T, \A x \in s : s \ {x} \in P PROVE s \in P
  <2>1. g[s] = SumBody(f, s, g) /\ h[s] = SumBody(f, s, h)
    BY DEF SumSolves
  <2>2. s # {} => g[s \ {Chosen(s)}] = h[s \ {Chosen(s)}]
    BY <1>1 DEF Chosen
  <2> QED BY <2>1, <2>2 DEF SumBody
<1>2. IsFiniteSet(T)
  BY FS_Subset
<1> HIDE DEF P
<1>3. SUBSET T \subseteq P
  BY <1>1, <1>2, SubsetAll
<1> QED BY <1>3 DEF P

LEMMA SumStep ==
    ASSUME NEW f, NEW S, IsFiniteSet(S)
    PROVE  Sum(f, S) = IF S = {} THEN 0 ELSE f[Chosen(S)] + Sum(f, S \ {Chosen(S)})
<1>1. PICK g : SumSolves(f, S, g) /\ Sum(f, S) = g[S]
  BY SumExists, SumUnfold
<1>2. g[S] = SumBody(f, S, g)
  BY <1>1 DEF SumSolves
<1>3. CASE S = {}
  BY <1>1, <1>2, <1>3 DEF SumBody
<1>4. CASE S # {}
  <2> DEFINE T == S \ {Chosen(S)}
  <2>1. T \in SUBSET S /\ IsFiniteSet(T)
    BY FS_Subset
  <2> HIDE DEF T
  <2>2. PICK h : SumSolves(f, T, h) /\ Sum(f, T) = h[T]
    BY <2>1, SumExists, SumUnfold
  <2>3. g[T] = h[T]
    BY <1>1, <2>1, <2>2, SumUnique
  <2>4. Sum(f, S) = f[Chosen(S)] + Sum(f, T)
    BY <1>1, <1>2, <1>4, <2>2, <2>3 DEF SumBody, T
  <2> QED BY <1>4, <2>4 DEF T
<1> QED BY <1>3, <1>4

LEMMA SumEmpty == \A f : Sum(f, {}) = 0
BY SumStep, FS_EmptySet

LEMMA ChosenIn == \A s : s # {} => Chosen(s) \in s
BY DEF Chosen

(* Sums of natural numbers are natural numbers.                            *)
LEMMA SumType ==
    ASSUME NEW f, NEW S, IsFiniteSet(S), \A x \in S : f[x] \in Nat
    PROVE  Sum(f, S) \in Nat
<1> DEFINE P == {s \in SUBSET S : Sum(f, s) \in Nat}
<1>1. ASSUME NEW s \in SUBSET S, \A x \in s : s \ {x} \in P PROVE s \in P
  <2>1. IsFiniteSet(s)
    BY FS_Subset
  <2>2. Sum(f, s) = IF s = {} THEN 0 ELSE f[Chosen(s)] + Sum(f, s \ {Chosen(s)})
    BY <2>1, SumStep
  <2>3. s # {} => f[Chosen(s)] \in Nat /\ Sum(f, s \ {Chosen(s)}) \in Nat
    BY <1>1, ChosenIn
  <2> QED BY <2>2, <2>3
<1> HIDE DEF P
<1>2. SUBSET S \subseteq P
  BY <1>1, SubsetAll
<1> QED BY <1>2 DEF P

(* Any element can be taken out first.                                     *)
LEMMA SumRemove ==
    ASSUME NEW f, NEW S, IsFiniteSet(S), \A x \in S : f[x] \in Nat
    PROVE  \A x \in S : Sum(f, S) = f[x] + Sum(f, S \ {x})
<1> DEFINE P == {s \in SUBSET S : \A x \in s : Sum(f, s) = f[x] + Sum(f, s \ {x})}
<1>0. \A s \in SUBSET S : IsFiniteSet(s) /\ Sum(f, s) \in Nat
  <2> SUFFICES ASSUME NEW s \in SUBSET S PROVE IsFiniteSet(s) /\ Sum(f, s) \in Nat
    OBVIOUS
  <2>1. IsFiniteSet(s)
    BY FS_Subset
  <2> QED BY <2>1, SumType
<1>1. ASSUME NEW s \in SUBSET S, \A x \in s : s \ {x} \in P PROVE s \in P
  <2> SUFFICES ASSUME NEW x \in s PROVE Sum(f, s) = f[x] + Sum(f, s \ {x})
    OBVIOUS
  <2> DEFINE c == Chosen(s)
  <2>1. c \in s
    BY ChosenIn
  <2>2. Sum(f, s) = f[c] + Sum(f, s \ {c})
    BY <1>0, SumStep
  <2>3. CASE x = c
    BY <2>2, <2>3
  <2>4. CASE x # c
    <3> HIDE DEF c
    <3> DEFINE u == (s \ {c}) \ {x}
    <3>1. x \in s \ {c} /\ c \in s \ {x} /\ u = (s \ {x}) \ {c}
      BY <2>1, <2>4
    <3>2. Sum(f, s \ {c}) = f[x] + Sum(f, u)
      BY <1>1, <2>1, <3>1
    <3>3. Sum(f, s \ {x}) = f[c] + Sum(f, u)
      BY <1>1, <3>1
    <3>4. Sum(f, u) \in Nat /\ f[x] \in Nat /\ f[c] \in Nat
      BY <1>0, <2>1
    <3> HIDE DEF u
    <3> QED BY <2>2, <3>2, <3>3, <3>4
  <2> QED BY <2>3, <2>4
<1> HIDE DEF P
<1>2. SUBSET S \subseteq P
  BY <1>1, SubsetAll
<1> QED BY <1>2 DEF P

(* Functions that agree on the set have the same sum.                      *)
LEMMA SumSame ==
    ASSUME NEW f, NEW g, NEW S, IsFiniteSet(S), \A x \in S : f[x] = g[x]
    PROVE  Sum(f, S) = Sum(g, S)
<1> DEFINE P == {s \in SUBSET S : Sum(f, s) = Sum(g, s)}
<1>1. ASSUME NEW s \in SUBSET S, \A x \in s : s \ {x} \in P PROVE s \in P
  <2>1. IsFiniteSet(s)
    BY FS_Subset
  <2>2. /\ Sum(f, s) = IF s = {} THEN 0 ELSE f[Chosen(s)] + Sum(f, s \ {Chosen(s)})
        /\ Sum(g, s) = IF s = {} THEN 0 ELSE g[Chosen(s)] + Sum(g, s \ {Chosen(s)})
    BY <2>1, SumStep
  <2>3. s # {} => f[Chosen(s)] = g[Chosen(s)] /\ Sum(f, s \ {Chosen(s)}) = Sum(g, s \ {Chosen(s)})
    BY <1>1, ChosenIn
  <2> QED BY <2>2, <2>3
<1> HIDE DEF P
<1>2. SUBSET S \subseteq P
  BY <1>1, SubsetAll
<1> QED BY <1>2 DEF P

(* One term that changes changes the sum by as much.                       *)
LEMMA SumChange ==
    ASSUME NEW f, NEW g, NEW S, IsFiniteSet(S), NEW x \in S,
           \A y \in S : f[y] \in Nat /\ g[y] \in Nat,
           \A y \in S \ {x} : f[y] = g[y]
    PROVE  Sum(f, S) + g[x] = Sum(g, S) + f[x]
<1> DEFINE T == S \ {x}
<1>1. T \in SUBSET S /\ IsFiniteSet(T)
  BY FS_Subset
<1>2. Sum(f, S) = f[x] + Sum(f, T) /\ Sum(g, S) = g[x] + Sum(g, T)
  BY SumRemove
<1>3. Sum(f, T) = Sum(g, T)
  BY <1>1, SumSame
<1>4. Sum(f, T) \in Nat /\ f[x] \in Nat /\ g[x] \in Nat
  <2>1. \A y \in T : f[y] \in Nat
    OBVIOUS
  <2> HIDE DEF T
  <2>2. Sum(f, T) \in Nat
    BY <1>1, <2>1, SumType
  <2> QED BY <2>2
<1> HIDE DEF T
<1> QED BY <1>2, <1>3, <1>4

(* A sum of smaller terms is smaller, and so is one of fewer.              *)
LEMMA SumLess ==
    ASSUME NEW f, NEW g, NEW S, IsFiniteSet(S),
           \A x \in S : f[x] \in Nat /\ g[x] \in Nat /\ f[x] <= g[x]
    PROVE  Sum(f, S) <= Sum(g, S)
<1> DEFINE P == {s \in SUBSET S : Sum(f, s) <= Sum(g, s)}
<1>1. ASSUME NEW s \in SUBSET S, \A x \in s : s \ {x} \in P PROVE s \in P
  <2>1. IsFiniteSet(s)
    BY FS_Subset
  <2>2. /\ Sum(f, s) = IF s = {} THEN 0 ELSE f[Chosen(s)] + Sum(f, s \ {Chosen(s)})
        /\ Sum(g, s) = IF s = {} THEN 0 ELSE g[Chosen(s)] + Sum(g, s \ {Chosen(s)})
    BY <2>1, SumStep
  <2>3. CASE s = {}
    BY <2>2, <2>3
  <2>4. CASE s # {}
    <3> DEFINE c == Chosen(s)
               u == s \ {c}
    <3>1. c \in S /\ u \in P /\ u \in SUBSET S /\ IsFiniteSet(u)
      BY <1>1, <2>1, <2>4, ChosenIn, FS_RemoveElement
    <3>2. \A x \in u : f[x] \in Nat /\ g[x] \in Nat
      BY <3>1
    <3> HIDE DEF c, u
    <3>3. Sum(f, u) \in Nat /\ Sum(g, u) \in Nat
      BY <3>1, <3>2, SumType
    <3>4. Sum(f, s) = f[c] + Sum(f, u) /\ Sum(g, s) = g[c] + Sum(g, u)
      BY <2>2, <2>4 DEF c, u
    <3>5. Sum(f, u) <= Sum(g, u) /\ f[c] \in Nat /\ g[c] \in Nat /\ f[c] <= g[c]
      BY <3>1
    <3>6. Sum(f, s) <= Sum(g, s)
      BY <3>3, <3>4, <3>5
    <3> QED BY <3>6
  <2> QED BY <2>3, <2>4
<1> HIDE DEF P
<1>2. SUBSET S \subseteq P
  BY <1>1, SubsetAll
<1> QED BY <1>2 DEF P

LEMMA SumSubset ==
    ASSUME NEW f, NEW S, IsFiniteSet(S), \A x \in S : f[x] \in Nat, NEW T \in SUBSET S
    PROVE  Sum(f, T) <= Sum(f, S)
<1> DEFINE P == {s \in SUBSET S : \A t \in SUBSET s : Sum(f, t) <= Sum(f, s)}
<1>0. \A s \in SUBSET S : IsFiniteSet(s) /\ Sum(f, s) \in Nat
  <2> SUFFICES ASSUME NEW s \in SUBSET S PROVE IsFiniteSet(s) /\ Sum(f, s) \in Nat
    OBVIOUS
  <2>1. IsFiniteSet(s)
    BY FS_Subset
  <2> QED BY <2>1, SumType
<1>1. ASSUME NEW s \in SUBSET S, \A x \in s : s \ {x} \in P PROVE s \in P
  <2> SUFFICES ASSUME NEW t \in SUBSET s, t # s PROVE Sum(f, t) <= Sum(f, s)
    BY <1>0
  <2>1. PICK x \in s : x \notin t
    OBVIOUS
  <2>2. s \ {x} \in P /\ t \in SUBSET (s \ {x})
    BY <1>1, <2>1
  <2>3. Sum(f, t) <= Sum(f, s \ {x})
    BY <2>2
  <2>4. Sum(f, s) = f[x] + Sum(f, s \ {x})
    BY <1>0, SumRemove
  <2>5. Sum(f, t) \in Nat /\ Sum(f, s \ {x}) \in Nat /\ f[x] \in Nat
    BY <1>0
  <2> QED BY <2>3, <2>4, <2>5
<1> HIDE DEF P
<1>2. SUBSET S \subseteq P
  BY <1>1, SubsetAll
<1> QED BY <1>2 DEF P

LEMMA SumZero ==
    ASSUME NEW f, NEW S, IsFiniteSet(S), \A x \in S : f[x] = 0
    PROVE  Sum(f, S) = 0
<1> DEFINE P == {s \in SUBSET S : Sum(f, s) = 0}
<1>1. ASSUME NEW s \in SUBSET S, \A x \in s : s \ {x} \in P PROVE s \in P
  <2>1. IsFiniteSet(s)
    BY FS_Subset
  <2>2. Sum(f, s) = IF s = {} THEN 0 ELSE f[Chosen(s)] + Sum(f, s \ {Chosen(s)})
    BY <2>1, SumStep
  <2>3. s # {} => f[Chosen(s)] = 0 /\ Sum(f, s \ {Chosen(s)}) = 0
    BY <1>1, ChosenIn
  <2> QED BY <2>2, <2>3
<1> HIDE DEF P
<1>2. SUBSET S \subseteq P
  BY <1>1, SubsetAll
<1> QED BY <1>2 DEF P

(* A part of the set, and the rest.                                        *)
LEMMA SumSplit ==
    ASSUME NEW f, NEW S, IsFiniteSet(S), \A x \in S : f[x] \in Nat, NEW T \in SUBSET S
    PROVE  Sum(f, S) = Sum(f, T) + Sum(f, S \ T)
<1> DEFINE P == {u \in SUBSET T : Sum(f, S) = Sum(f, u) + Sum(f, S \ u)}
<1>0. \A u \in SUBSET S : IsFiniteSet(u) /\ Sum(f, u) \in Nat /\ \A x \in u : f[x] \in Nat
  <2> SUFFICES ASSUME NEW u \in SUBSET S PROVE IsFiniteSet(u) /\ Sum(f, u) \in Nat
    OBVIOUS
  <2>1. IsFiniteSet(u)
    BY FS_Subset
  <2> QED BY <2>1, SumType
<1>1. ASSUME NEW u \in SUBSET T, \A x \in u : u \ {x} \in P PROVE u \in P
  <2>1. CASE u = {}
    <3>1. S \ u = S /\ Sum(f, u) = 0 /\ Sum(f, S) \in Nat
      BY <1>0, <2>1, SumEmpty
    <3>2. Sum(f, S) = Sum(f, u) + Sum(f, S \ u)
      BY <3>1
    <3> QED BY <3>2
  <2>2. CASE u # {}
    <3>1. PICK x \in u : TRUE
      BY <2>2
    <3> DEFINE v == u \ {x}
    <3>2. Sum(f, S) = Sum(f, v) + Sum(f, S \ v)
      BY <1>1, <3>1
    <3>3. Sum(f, u) = f[x] + Sum(f, v)
      BY <1>0, <3>1, SumRemove
    <3>4. Sum(f, S \ v) = f[x] + Sum(f, S \ u)
      <4>1. x \in S \ v /\ (S \ v) \ {x} = S \ u /\ S \ v \in SUBSET S
        BY <3>1
      <4> HIDE DEF v
      <4>2. Sum(f, S \ v) = f[x] + Sum(f, (S \ v) \ {x})
        BY <1>0, <4>1, SumRemove
      <4> QED BY <4>1, <4>2
    <3>5. /\ Sum(f, v) \in Nat /\ Sum(f, S \ u) \in Nat /\ f[x] \in Nat
          /\ Sum(f, u) \in Nat /\ Sum(f, S \ v) \in Nat
      BY <1>0, <3>1
    <3>6. Sum(f, S) = Sum(f, u) + Sum(f, S \ u)
      <4> HIDE DEF v
      <4> QED BY <3>2, <3>3, <3>4, <3>5
    <3> QED BY <3>6
  <2> QED BY <2>1, <2>2
<1>2. IsFiniteSet(T)
  BY FS_Subset
<1> HIDE DEF P
<1>3. SUBSET T \subseteq P
  BY <1>1, <1>2, SubsetAll
<1>4. T \in P
  BY <1>3
<1> QED BY <1>4 DEF P

(* A finite set of natural numbers that is not empty has a greatest one.   *)
LEMMA NatMax ==
    ASSUME NEW S, IsFiniteSet(S), S \subseteq Nat, S # {}
    PROVE  \E x \in S : \A y \in S : y <= x
<1> DEFINE P == {s \in SUBSET S : s # {} => \E x \in s : \A y \in s : y <= x}
<1>1. ASSUME NEW s \in SUBSET S, \A x \in s : s \ {x} \in P PROVE s \in P
  <2> SUFFICES ASSUME s # {} PROVE \E x \in s : \A y \in s : y <= x
    OBVIOUS
  <2>1. PICK x \in s : TRUE
    OBVIOUS
  <2>2. CASE s \ {x} = {}
    <3>1. \A y \in s : y <= x
      BY <2>1, <2>2
    <3> QED BY <2>1, <3>1
  <2>3. CASE s \ {x} # {}
    <3>1. PICK z \in s \ {x} : \A y \in s \ {x} : y <= z
      BY <1>1, <2>1, <2>3
    <3>2. CASE x <= z
      BY <3>1, <3>2
    <3>3. CASE ~(x <= z)
      <4>1. \A y \in s : y <= x
        BY <2>1, <3>1, <3>3
      <4> QED BY <2>1, <4>1
    <3> QED BY <3>2, <3>3
  <2> QED BY <2>2, <2>3
<1> HIDE DEF P
<1>2. SUBSET S \subseteq P
  BY <1>1, SubsetAll
<1>3. S \in P
  BY <1>2
<1> QED BY <1>3 DEF P

(* The sum over the image of a set under a function that is injective.     *)
LEMMA SumImage ==
    ASSUME NEW f, NEW g, NEW h, NEW S, IsFiniteSet(S),
           \A x \in S : f[x] \in Nat /\ g[h[x]] = f[x],
           \A x, y \in S : h[x] = h[y] => x = y
    PROVE  /\ Sum(f, S) = Sum(g, {h[x] : x \in S})
           /\ IsFiniteSet({h[x] : x \in S})
<1> DEFINE Im(s) == {h[x] : x \in s}
           P == {s \in SUBSET S : IsFiniteSet(Im(s)) /\ Sum(f, s) = Sum(g, Im(s))}
<1>1. ASSUME NEW s \in SUBSET S, \A x \in s : s \ {x} \in P PROVE s \in P
  <2>1. CASE s = {}
    <3>1. Im(s) = {}
      BY <2>1
    <3>2. IsFiniteSet(Im(s))
      BY <3>1, FS_EmptySet
    <3> HIDE DEF Im
    <3>3. Sum(f, s) = 0 /\ Sum(g, Im(s)) = 0
      BY <2>1, <3>1, SumEmpty
    <3> QED BY <3>2, <3>3
  <2>2. CASE s # {}
    <3>1. PICK x \in s : TRUE
      BY <2>2
    <3> DEFINE A == Im(s \ {x})
               B == Im(s)
    <3>2. B \ {h[x]} = A /\ h[x] \in B /\ B = A \cup {h[x]}
      BY <3>1
    <3>3. IsFiniteSet(A) /\ Sum(f, s \ {x}) = Sum(g, A)
      BY <1>1, <3>1
    <3>4. IsFiniteSet(s) /\ \A y \in s : f[y] \in Nat
      BY FS_Subset
    <3>5. \A z \in B : g[z] \in Nat
      OBVIOUS
    <3>6. g[h[x]] = f[x]
      BY <3>1
    <3> HIDE DEF A, B
    <3>7. IsFiniteSet(B)
      BY <3>2, <3>3, FS_AddElement
    <3>8. Sum(f, s) = f[x] + Sum(f, s \ {x})
      BY <3>1, <3>4, SumRemove
    <3>9. Sum(g, B) = g[h[x]] + Sum(g, B \ {h[x]})
      BY <3>2, <3>5, <3>7, SumRemove
    <3>10. Sum(f, s) = Sum(g, B)
      BY <3>2, <3>3, <3>6, <3>8, <3>9
    <3> QED BY <3>7, <3>10 DEF B
  <2> QED BY <2>1, <2>2
<1> HIDE DEF P
<1>2. SUBSET S \subseteq P
  BY <1>1, SubsetAll
<1>3. S \in P
  BY <1>2
<1> QED BY <1>3 DEF P

=============================================================================
