----------------------------- MODULE FoldLemmas -----------------------------
(***************************************************************************)
(* Induction over data: the principle of induction over the natural        *)
(* numbers, stated with sets so that the provers can instantiate it; the   *)
(* existence of the functions that the folds of the community modules      *)
(* define by recursion over the subsets of a finite set; and, with the     *)
(* step of the fold given as a function, what FoldLeft returns for the     *)
(* empty sequence and for a sequence with one element appended.            *)
(***************************************************************************)
EXTENDS Integers, SequencesExt, FiniteSetTheorems, SequenceTheorems, WellFoundedInduction, TLAPS

LEMMA NatSetInduction ==
  ASSUME NEW T \in SUBSET Nat, 0 \in T, \A n \in T : n + 1 \in T
  PROVE  T = Nat
<1> SUFFICES ASSUME Nat \ T # {} PROVE FALSE
  OBVIOUS
<1>1. PICK x \in Nat \ T : \A y \in Nat \ T : ~(<<y, x>> \in OpToRel(<, Nat))
  <2> DEFINE R == OpToRel(<, Nat)
             U == Nat \ T
  <2>1. IsWellFoundedOn(R, Nat) /\ U \subseteq Nat /\ U # {}
    BY NatLessThanWellFounded
  <2> HIDE DEF R, U
  <2>2. \E x \in U : \A y \in U : ~(<<y, x>> \in R)
    BY <2>1, WFMin
  <2> QED BY <2>2 DEF R, U
<1>2. x \in Nat /\ x # 0
  OBVIOUS
<1>3. x - 1 \in Nat /\ x - 1 < x /\ (x - 1) + 1 = x
  BY <1>2
<1>4. <<x - 1, x>> \in OpToRel(<, Nat)
  BY <1>2, <1>3 DEF OpToRel
<1>5. x - 1 \in T
  BY <1>1, <1>3, <1>4
<1>6. x \in T
  BY <1>3, <1>5
<1> QED BY <1>6

(* The subsets of S with at most n elements.                                *)
AtMost(S, n) == {s \in SUBSET S : Cardinality(s) <= n}

(* One element less.                                                        *)
LEMMA OneLess ==
  ASSUME NEW S, IsFiniteSet(S), NEW s \in SUBSET S, NEW x \in s
  PROVE  /\ IsFiniteSet(s) /\ Cardinality(s) \in Nat /\ Cardinality(s) # 0
         /\ s \ {x} \in SUBSET S /\ Cardinality(s \ {x}) = Cardinality(s) - 1
<1>1. IsFiniteSet(s)
  BY FS_Subset
<1>2. Cardinality(s) \in Nat /\ Cardinality(s) # 0
  BY <1>1, FS_CardinalityType, FS_EmptySet
<1>3. Cardinality(s \ {x}) = Cardinality(s) - 1
  BY <1>1, FS_RemoveElement
<1> QED BY <1>1, <1>2, <1>3

(* Induction over the subsets of a finite set.                              *)
LEMMA SubsetInduction ==
  ASSUME NEW T, IsFiniteSet(T), NEW P, {} \in P,
         \A s \in SUBSET T : s # {} /\ (\A x \in s : s \ {x} \in P) => s \in P
  PROVE  \A s \in SUBSET T : s \in P
<1> DEFINE U == {n \in Nat : \A s \in SUBSET T : Cardinality(s) = n => s \in P}
<1>1. 0 \in U
  <2>1. \A s \in SUBSET T : Cardinality(s) = 0 => s = {}
    BY FS_Subset, FS_EmptySet
  <2> QED BY <2>1
<1>2. ASSUME NEW n \in U PROVE n + 1 \in U
  <2>1. n \in Nat
    OBVIOUS
  <2>2. ASSUME NEW s \in SUBSET T, Cardinality(s) = n + 1 PROVE s \in P
    <3>1. ASSUME NEW x \in s PROVE s \ {x} \in P
      <4>1. s \ {x} \in SUBSET T /\ Cardinality(s \ {x}) = Cardinality(s) - 1
        BY OneLess
      <4>2. Cardinality(s \ {x}) = n
        BY <2>1, <2>2, <4>1
      <4> QED BY <4>1, <4>2
    <3> QED BY <3>1
  <2>3. n + 1 \in Nat
    BY <2>1
  <2> QED BY <2>2, <2>3
<1>3. U = Nat
  <2>1. U \in SUBSET Nat
    OBVIOUS
  <2> HIDE DEF U
  <2> QED BY <1>1, <1>2, <2>1, NatSetInduction
<1>4. \A s \in SUBSET T : Cardinality(s) \in U
  BY <1>3, FS_Subset, FS_CardinalityType
<1> QED BY <1>4

(* A fold takes element c[s] out of the set s, combines it by H with the    *)
(* fold of the rest, and gives `base` for the empty set. It exists.         *)
Chooses(c, S) == \A s \in SUBSET S : s # {} => c[s] \in s
Folds(g, c, H, base, S) ==
  \A s \in SUBSET S : g[s] = IF s = {} THEN base ELSE H[s][g[s \ {c[s]}]]

LEMMA FoldExists ==
  ASSUME NEW S, IsFiniteSet(S), NEW V, NEW base \in V, NEW c, Chooses(c, S),
         NEW H \in [SUBSET S -> [V -> V]]
  PROVE  \E g \in [SUBSET S -> V] : Folds(g, c, H, base, S)
<1> DEFINE UpTo(g, n) == \A s \in AtMost(S, n) :
             g[s] = IF s = {} THEN base ELSE H[s][g[s \ {c[s]}]]
           T == {n \in Nat : \E g \in [AtMost(S, n) -> V] : UpTo(g, n)}
<1>1. \A s \in SUBSET S : IsFiniteSet(s) /\ Cardinality(s) \in Nat
                          /\ (Cardinality(s) = 0 <=> s = {})
  BY FS_Subset, FS_CardinalityType, FS_EmptySet
<1>2. 0 \in T
  <2> DEFINE g == [s \in AtMost(S, 0) |-> base]
  <2>1. \A s \in AtMost(S, 0) : s = {}
    BY <1>1 DEF AtMost
  <2>2. g \in [AtMost(S, 0) -> V] /\ UpTo(g, 0)
    BY <2>1
  <2> QED BY <2>2
<1>3. ASSUME NEW n \in T PROVE n + 1 \in T
  <2>1. n \in Nat
    OBVIOUS
  <2>2. PICK f \in [AtMost(S, n) -> V] : UpTo(f, n)
    OBVIOUS
  <2> DEFINE g == [s \in AtMost(S, n + 1) |->
                     IF s = {} THEN base ELSE H[s][f[s \ {c[s]}]]]
  <2>3. ASSUME NEW s \in AtMost(S, n + 1), s # {}
        PROVE  s \in SUBSET S /\ s \ {c[s]} \in AtMost(S, n)
    <3>1. s \in SUBSET S /\ Cardinality(s) <= n + 1
      BY DEF AtMost
    <3>2. PICK x \in s : x = c[s]
      BY <2>3, <3>1 DEF Chooses
    <3>3. /\ s \ {x} \in SUBSET S /\ Cardinality(s) \in Nat
          /\ Cardinality(s \ {x}) = Cardinality(s) - 1
      BY <3>1, OneLess
    <3> QED BY <2>1, <3>1, <3>2, <3>3 DEF AtMost
  <2>4. g \in [AtMost(S, n + 1) -> V]
    <3>1. ASSUME NEW s \in AtMost(S, n + 1), s # {}
          PROVE  H[s][f[s \ {c[s]}]] \in V
      <4>1. s \in SUBSET S /\ f[s \ {c[s]}] \in V
        BY <2>3, <3>1
      <4> QED BY <4>1
    <3> QED BY <3>1
  <2>5. ASSUME NEW s \in AtMost(S, n) PROVE s \in AtMost(S, n + 1) /\ g[s] = f[s]
    <3>1. s \in AtMost(S, n + 1)
      BY <1>1, <2>1 DEF AtMost
    <3>2. f[s] = IF s = {} THEN base ELSE H[s][f[s \ {c[s]}]]
      BY <2>2
    <3> QED BY <3>1, <3>2
  <2>6. UpTo(g, n + 1)
    <3> SUFFICES ASSUME NEW s \in AtMost(S, n + 1)
                 PROVE  g[s] = IF s = {} THEN base ELSE H[s][g[s \ {c[s]}]]
      OBVIOUS
    <3>1. g[s] = IF s = {} THEN base ELSE H[s][f[s \ {c[s]}]]
      OBVIOUS
    <3> HIDE DEF g
    <3>2. s # {} => g[s \ {c[s]}] = f[s \ {c[s]}]
      BY <2>3, <2>5
    <3> QED BY <3>1, <3>2
  <2> HIDE DEF g
  <2>7. \E h \in [AtMost(S, n + 1) -> V] : UpTo(h, n + 1)
    BY <2>4, <2>6
  <2>8. n + 1 \in Nat
    BY <2>1
  <2> QED BY <2>7, <2>8, Zenon
<1>4. T = Nat
  <2> HIDE DEF T
  <2>1. T \in SUBSET Nat
    BY DEF T
  <2> QED BY <1>2, <1>3, <2>1, NatSetInduction
<1>5. PICK g \in [AtMost(S, Cardinality(S)) -> V] : UpTo(g, Cardinality(S))
  <2>1. Cardinality(S) \in T
    BY <1>4, FS_CardinalityType
  <2> QED BY <2>1
<1>6. AtMost(S, Cardinality(S)) = SUBSET S
  BY FS_Subset DEF AtMost
<1> QED BY <1>5, <1>6 DEF Folds

(* A finite set of integers has its largest and its smallest element.       *)
LEMMA MaxMin ==
  ASSUME NEW S \in SUBSET Int, IsFiniteSet(S), S # {}
  PROVE  /\ Max(S) \in S /\ \A y \in S : y <= Max(S)
         /\ Min(S) \in S /\ \A y \in S : Min(S) <= y
<1> DEFINE Has(s) == /\ \E x \in s : \A y \in s : x >= y
                     /\ \E x \in s : \A y \in s : x <= y
           P == {s \in SUBSET S : s = {} \/ Has(s)}
<1>1. ASSUME NEW s \in SUBSET S, s # {}, \A x \in s : s \ {x} \in P PROVE s \in P
  <2>1. PICK x \in s : s \ {x} \in P
    BY <1>1
  <2>2. x \in Int /\ \A y \in s : y \in Int
    OBVIOUS
  <2>3. CASE s \ {x} = {}
    <3>1. \A y \in s : y = x
      BY <2>3
    <3> QED BY <2>2, <3>1
  <2>4. CASE s \ {x} # {}
    <3>1. Has(s \ {x})
      BY <2>1, <2>4
    <3>2. PICK a \in s \ {x} : \A y \in s \ {x} : a >= y
      BY <3>1
    <3>3. PICK b \in s \ {x} : \A y \in s \ {x} : b <= y
      BY <3>1
    <3>4. \E m \in s : \A y \in s : m >= y
      BY <2>2, <3>2
    <3>5. \E m \in s : \A y \in s : m <= y
      BY <2>2, <3>3
    <3> QED BY <3>4, <3>5
  <2> QED BY <2>3, <2>4
<1>2. {} \in P
  OBVIOUS
<1>3. S \in P
  <2> HIDE DEF P
  <2> QED BY <1>1, <1>2, SubsetInduction
<1>4. Has(S)
  BY <1>3
<1>5. Max(S) \in S /\ \A y \in S : Max(S) >= y
  BY <1>4 DEF Max
<1>6. Min(S) \in S /\ \A y \in S : Min(S) <= y
  BY <1>4 DEF Min
<1> QED BY <1>5, <1>6

-----------------------------------------------------------------------------
(* Sums. The community modules add up a set in an order of their choosing;  *)
(* the sum does not depend on it.                                           *)

SumOf(size, T) == MapThenSumSet(LAMBDA s : size[s], T)

Chosen(s) == CHOOSE x \in s : TRUE

(* The function that MapThenSumSet defines to sum up T.                     *)
SumFun(size, T) ==
  CHOOSE f : f = [s \in SUBSET T |->
                    IF s = {} THEN 0 ELSE size[Chosen(s)] + f[s \ {Chosen(s)}]]

LEMMA SumOfFun == ASSUME NEW size, NEW T PROVE SumOf(size, T) = SumFun(size, T)[T]
BY DEF SumOf, MapThenSumSet, MapThenFoldSet, SumFun, Chosen

LEMMA SumFunEquation ==
  ASSUME NEW T, IsFiniteSet(T), NEW size, \A x \in T : size[x] \in Nat
  PROVE  /\ SumFun(size, T) \in [SUBSET T -> Nat]
         /\ SumFun(size, T)[{}] = 0
         /\ \A s \in SUBSET T : s # {} =>
              /\ Chosen(s) \in s
              /\ SumFun(size, T)[s] = size[Chosen(s)] + SumFun(size, T)[s \ {Chosen(s)}]
<1> DEFINE c == [s \in SUBSET T |-> Chosen(s)]
           H == [s \in SUBSET T |-> [v \in Nat |-> IF s = {} THEN 0 ELSE size[Chosen(s)] + v]]
           Eq(f) == f = [s \in SUBSET T |->
                      IF s = {} THEN 0 ELSE size[Chosen(s)] + f[s \ {Chosen(s)}]]
<1>1. \A s \in SUBSET T : s # {} => Chosen(s) \in s
  BY DEF Chosen
<1>2. \A s \in SUBSET T : c[s] = Chosen(s)
  OBVIOUS
<1>3. H \in [SUBSET T -> [Nat -> Nat]]
  BY <1>1
<1>4. \A s \in SUBSET T : \A v \in Nat : s # {} => H[s][v] = size[Chosen(s)] + v
  OBVIOUS
<1> HIDE DEF c, H
<1>5. PICK g \in [SUBSET T -> Nat] :
        \A s \in SUBSET T : g[s] = IF s = {} THEN 0 ELSE H[s][g[s \ {c[s]}]]
  <2>1. Chooses(c, T)
    BY <1>1, <1>2 DEF Chooses
  <2> DEFINE V == Nat
             base == 0
  <2>2. base \in V /\ H \in [SUBSET T -> [V -> V]]
    BY <1>3
  <2> HIDE DEF V, base
  <2>3. \E g \in [SUBSET T -> V] : Folds(g, c, H, base, T)
    BY <2>1, <2>2, FoldExists
  <2> QED BY <2>3 DEF V, base, Folds
<1>6. ASSUME NEW s \in SUBSET T
      PROVE  g[s] = IF s = {} THEN 0 ELSE size[Chosen(s)] + g[s \ {Chosen(s)}]
  <2>1. s \ {Chosen(s)} \in SUBSET T
    OBVIOUS
  <2>2. g[s \ {Chosen(s)}] \in Nat
    BY <2>1
  <2> QED BY <1>2, <1>4, <1>5, <2>2
<1>7. Eq(g)
  BY <1>6
<1>8. Eq(SumFun(size, T))
  <2>1. \E f : Eq(f)
    BY <1>7
  <2>2. SumFun(size, T) = CHOOSE f : Eq(f)
    BY DEF SumFun
  <2> HIDE DEF Eq
  <2> QED BY <2>1, <2>2
<1> DEFINE f == SumFun(size, T)
<1>9. \A s \in SUBSET T : f[s] = IF s = {} THEN 0 ELSE size[Chosen(s)] + f[s \ {Chosen(s)}]
  BY <1>8
<1>10. DOMAIN f = SUBSET T /\ f = [s \in SUBSET T |-> f[s]]
  BY <1>8
<1> HIDE DEF f
<1>11. \A s \in SUBSET T : f[s] \in Nat
  <2> DEFINE P == {s \in SUBSET T : f[s] \in Nat}
  <2>1. {} \in P
    <3>1. f[{}] = 0
      BY <1>9
    <3> QED BY <3>1
  <2>2. ASSUME NEW s \in SUBSET T, s # {}, \A x \in s : s \ {x} \in P PROVE s \in P
    <3>1. PICK x \in s : x = Chosen(s)
      BY <1>1, <2>2
    <3>2. f[s \ {x}] \in Nat /\ size[x] \in Nat
      BY <2>2
    <3>3. f[s] = size[x] + f[s \ {x}]
      BY <1>9, <2>2, <3>1
    <3> QED BY <3>2, <3>3
  <2> HIDE DEF P
  <2>3. \A s \in SUBSET T : s \in P
    BY <2>1, <2>2, SubsetInduction
  <2> QED BY <2>3 DEF P
<1>12. f \in [SUBSET T -> Nat]
  BY <1>10, <1>11
<1> QED BY <1>1, <1>9, <1>12 DEF f

(* It sums up the subsets of T as their own functions do.                   *)
LEMMA SumOfSubset ==
  ASSUME NEW T, IsFiniteSet(T), NEW size, \A x \in T : size[x] \in Nat, NEW S \in SUBSET T
  PROVE  SumOf(size, S) = SumFun(size, T)[S]
<1>1. IsFiniteSet(S) /\ \A x \in S : size[x] \in Nat
  BY FS_Subset
<1>2. /\ SumFun(size, S)[{}] = 0
      /\ \A s \in SUBSET S : s # {} =>
           /\ Chosen(s) \in s
           /\ SumFun(size, S)[s] = size[Chosen(s)] + SumFun(size, S)[s \ {Chosen(s)}]
  BY <1>1, SumFunEquation
<1>3. /\ SumFun(size, T)[{}] = 0
      /\ \A s \in SUBSET T : s # {} =>
           /\ Chosen(s) \in s
           /\ SumFun(size, T)[s] = size[Chosen(s)] + SumFun(size, T)[s \ {Chosen(s)}]
  <2>1. IsFiniteSet(T) /\ \A x \in T : size[x] \in Nat
    OBVIOUS
  <2> QED BY ONLY <2>1, SumFunEquation
<1> DEFINE f == SumFun(size, S)
           g == SumFun(size, T)
           P == {s \in SUBSET S : f[s] = g[s]}
<1> HIDE DEF f, g
<1>4. {} \in P
  BY <1>2, <1>3 DEF f, g
<1>5. ASSUME NEW s \in SUBSET S, s # {}, \A x \in s : s \ {x} \in P PROVE s \in P
  <2>1. f[s \ {Chosen(s)}] = g[s \ {Chosen(s)}]
    BY <1>2, <1>5 DEF f, g
  <2>2. s \in SUBSET T
    OBVIOUS
  <2> QED BY <1>2, <1>3, <1>5, <2>1, <2>2 DEF f, g
<1> HIDE DEF P
<1>6. S \in P
  BY <1>1, <1>4, <1>5, SubsetInduction
<1> QED BY <1>6, SumOfFun DEF f, g, P

(* The sum of a set and one more element.                                   *)
LEMMA SumOfAdd ==
  ASSUME NEW T, IsFiniteSet(T), NEW size, \A x \in T : size[x] \in Nat
  PROVE  /\ SumOf(size, {}) = 0
         /\ \A S \in SUBSET T : SumOf(size, S) \in Nat
         /\ \A S \in SUBSET T : \A x \in T \ S :
              SumOf(size, S \cup {x}) = SumOf(size, S) + size[x]
<1> DEFINE f == SumFun(size, T)
           P == {s \in SUBSET T : \A x \in T \ s : f[s \cup {x}] = f[s] + size[x]}
<1>1. /\ f \in [SUBSET T -> Nat] /\ f[{}] = 0
      /\ \A s \in SUBSET T : s # {} =>
           Chosen(s) \in s /\ f[s] = size[Chosen(s)] + f[s \ {Chosen(s)}]
  BY SumFunEquation
<1>2. \A S \in SUBSET T : SumOf(size, S) = f[S]
  BY SumOfSubset
<1> HIDE DEF f
<1>3. {} \in P
  <2> SUFFICES ASSUME NEW x \in T PROVE f[{} \cup {x}] = f[{}] + size[x]
    OBVIOUS
  <2>1. {} \cup {x} = {x} /\ {x} \in SUBSET T /\ {x} # {} /\ {x} \ {x} = {}
    OBVIOUS
  <2>2. Chosen({x}) = x
    BY <1>1, <2>1
  <2>3. f[{x}] = size[x] + f[{}]
    BY <1>1, <2>1, <2>2
  <2> QED BY <1>1, <2>1, <2>3
<1>4. ASSUME NEW s \in SUBSET T, s # {}, \A y \in s : s \ {y} \in P PROVE s \in P
  <2> SUFFICES ASSUME NEW x \in T \ s PROVE f[s \cup {x}] = f[s] + size[x]
    OBVIOUS
  <2> DEFINE more == s \cup {x}
  <2>1. more \in SUBSET T /\ more # {}
    OBVIOUS
  <2>2. PICK y \in more : y = Chosen(more)
    BY <1>1, <2>1
  <2>3. f[more] = size[y] + f[more \ {y}]
    BY <1>1, <2>1, <2>2
  <2>4. /\ size[x] \in Nat /\ size[y] \in Nat /\ f[s] \in Nat
    BY <1>1, <2>1, <2>2
  <2>5. f[more] = f[s] + size[x]
    <3>1. CASE y = x
      <4>1. more \ {y} = s
        BY <3>1
      <4>2. f[more \ {y}] = f[s] /\ size[y] = size[x]
        BY <3>1, <4>1, Zenon
      <4> HIDE DEF more
      <4> QED BY <2>3, <2>4, <4>2
    <3>2. CASE y # x
      <4>1. y \in s /\ s \ {y} \in P /\ x \in T \ (s \ {y}) /\ y \in T \ (s \ {y})
        BY <1>4, <3>2
      <4>2. /\ f[(s \ {y}) \cup {x}] = f[s \ {y}] + size[x]
            /\ f[(s \ {y}) \cup {y}] = f[s \ {y}] + size[y]
        BY <4>1
      <4>3. more \ {y} = (s \ {y}) \cup {x} /\ (s \ {y}) \cup {y} = s
        BY <3>2, <4>1
      <4>4. f[s \ {y}] \in Nat
        BY <1>1, <4>1
      <4>5. f[more \ {y}] = f[s \ {y}] + size[x] /\ f[s] = f[s \ {y}] + size[y]
        BY <4>2, <4>3
      <4> HIDE DEF more
      <4> QED BY <2>3, <2>4, <4>4, <4>5
    <3> QED BY <3>1, <3>2
  <2> QED BY <2>5
<1>5. ASSUME NEW S \in SUBSET T, NEW x \in T \ S
      PROVE  SumOf(size, S \cup {x}) = SumOf(size, S) + size[x]
  <2>1. S \in P
    <3> HIDE DEF P
    <3> QED BY <1>3, <1>4, SubsetInduction
  <2>2. f[S \cup {x}] = f[S] + size[x]
    BY <2>1
  <2>3. S \cup {x} \in SUBSET T
    OBVIOUS
  <2> QED BY <1>2, <2>2, <2>3
<1>6. {} \in SUBSET T
  OBVIOUS
<1> QED BY <1>1, <1>2, <1>5, <1>6

-----------------------------------------------------------------------------
(* Folds over sequences.                                                    *)

LEMMA MaxInterval ==
  ASSUME NEW n \in Nat, n > 0
  PROVE  Max(1..n) = n /\ (1..n) \ {n} = 1..(n - 1)
<1>1. n \in 1..n /\ \A y \in 1..n : n >= y
  OBVIOUS
<1>2. \A x \in 1..n : (\A y \in 1..n : x >= y) => x = n
  OBVIOUS
<1> QED BY <1>1, <1>2 DEF Max

(* Induction over sequences, from the left.                                 *)
LEMMA SeqInduction ==
  ASSUME NEW T, NEW P, <<>> \in P,
         \A s \in Seq(T) : \A x \in T : s \in P => Append(s, x) \in P
  PROVE  \A s \in Seq(T) : s \in P
<1> DEFINE U == {n \in Nat : \A s \in Seq(T) : Len(s) = n => s \in P}
<1>1. 0 \in U
  BY EmptySeq
<1>2. ASSUME NEW n \in U PROVE n + 1 \in U
  <2>1. n \in Nat
    OBVIOUS
  <2>2. ASSUME NEW s \in Seq(T), Len(s) = n + 1 PROVE s \in P
    <3>1. s # <<>>
      BY <2>1, <2>2
    <3>2. PICK r \in Seq(T), x \in T : s = Append(r, x)
      BY <3>1, SequenceEmptyOrAppend
    <3>3. Len(r) = n
      BY <2>1, <2>2, <3>2, AppendProperties
    <3> QED BY <3>2, <3>3
  <2>3. n + 1 \in Nat
    BY <2>1
  <2> QED BY <2>2, <2>3
<1>3. U = Nat
  <2>1. U \in SUBSET Nat
    OBVIOUS
  <2> HIDE DEF U
  <2> QED BY <1>1, <1>2, <2>1, NatSetInduction
<1>4. \A s \in Seq(T) : Len(s) \in U
  BY <1>3, LenProperties
<1> QED BY <1>4

(* The folds of the model, with the step as a function: whatever such a     *)
(* fold does at the empty sequence and at Append is proved once, here.      *)
Fold(H, base, s) == FoldLeft(LAMBDA p, x : H[<<p, x>>], base, s)

Steps(H, V, T) == H \in [V \X T -> V]

(* The function by which FoldLeft folds, over sets of places of s.           *)
FoldFun(H, base, s) ==
  CHOOSE f : f = [S \in SUBSET DOMAIN s |->
                    IF S = {} THEN base ELSE H[<<f[S \ {Max(S)}], s[Max(S)]>>]]

LEMMA FoldOfFun ==
  ASSUME NEW H, NEW base, NEW s
  PROVE  Fold(H, base, s) = FoldFun(H, base, s)[DOMAIN s]
BY DEF Fold, FoldLeft, MapThenFoldSet, FoldFun

LEMMA MaxPlace ==
  ASSUME NEW T, NEW s \in Seq(T), NEW S \in SUBSET DOMAIN s, S # {}
  PROVE  Max(S) \in S /\ s[Max(S)] \in T
<1>1. DOMAIN s = 1..Len(s) /\ Len(s) \in Nat
  BY LenProperties
<1>2. IsFiniteSet(DOMAIN s) /\ DOMAIN s \in SUBSET Int
  BY <1>1, FS_Interval
<1>3. IsFiniteSet(S) /\ S \in SUBSET Int
  BY <1>2, FS_Subset
<1>4. Max(S) \in S
  BY <1>3, MaxMin
<1> QED BY <1>4, ElementOfSeq, <1>1

FoldsBy(f, H, base, s, V) ==
  /\ f \in [SUBSET DOMAIN s -> V]
  /\ \A S \in SUBSET DOMAIN s :
       f[S] = IF S = {} THEN base ELSE H[<<f[S \ {Max(S)}], s[Max(S)]>>]

LEMMA FoldFunEquation ==
  ASSUME NEW T, NEW V, NEW H, Steps(H, V, T), NEW base \in V, NEW s \in Seq(T)
  PROVE  FoldsBy(FoldFun(H, base, s), H, base, s, V)
<1> DEFINE D == DOMAIN s
           c == [S \in SUBSET D |-> Max(S)]
           K == [S \in SUBSET D |-> [p \in V |->
                   IF S = {} THEN p ELSE H[<<p, s[Max(S)]>>]]]
           Eq(f) == f = [S \in SUBSET D |->
                      IF S = {} THEN base ELSE H[<<f[S \ {Max(S)}], s[Max(S)]>>]]
<1>1. IsFiniteSet(D)
  BY LenProperties, FS_Interval
<1>2. \A S \in SUBSET D : S # {} => Max(S) \in S /\ s[Max(S)] \in T
  BY MaxPlace
<1> HIDE DEF D
<1>3. Chooses(c, D)
  BY <1>2 DEF Chooses
<1>4. K \in [SUBSET D -> [V -> V]]
  BY <1>2 DEF Steps
<1>5. /\ \A S \in SUBSET D : c[S] = Max(S)
      /\ \A S \in SUBSET D, p \in V : S # {} => K[S][p] = H[<<p, s[Max(S)]>>]
  OBVIOUS
<1> HIDE DEF c, K
<1>6. PICK g \in [SUBSET D -> V] : Folds(g, c, K, base, D)
  BY <1>1, <1>3, <1>4, FoldExists
<1>7. ASSUME NEW S \in SUBSET D
      PROVE  g[S] = IF S = {} THEN base ELSE H[<<g[S \ {Max(S)}], s[Max(S)]>>]
  <2>1. S \ {Max(S)} \in SUBSET D
    OBVIOUS
  <2>2. g[S \ {Max(S)}] \in V
    BY <2>1
  <2> QED BY <1>5, <1>6, <2>2 DEF Folds
<1>8. Eq(g)
  BY <1>7
<1> DEFINE f == FoldFun(H, base, s)
<1>9. Eq(f)
  <2>1. \E h : Eq(h)
    BY <1>8
  <2>2. f = CHOOSE h : Eq(h)
    BY DEF FoldFun, D
  <2> HIDE DEF Eq, f
  <2> QED BY <2>1, <2>2
<1>10. \A S \in SUBSET D : f[S] = IF S = {} THEN base ELSE H[<<f[S \ {Max(S)}], s[Max(S)]>>]
  BY <1>9
<1>11. DOMAIN f = SUBSET D /\ f = [S \in SUBSET D |-> f[S]]
  BY <1>9
<1> HIDE DEF f
<1>12. \A S \in SUBSET D : f[S] \in V
  <2> DEFINE P == {S \in SUBSET D : f[S] \in V}
  <2>1. {} \in P
    BY <1>10
  <2>2. ASSUME NEW S \in SUBSET D, S # {}, \A x \in S : S \ {x} \in P PROVE S \in P
    <3>1. PICK x \in S : x = Max(S)
      BY <1>2, <2>2
    <3>2. f[S \ {x}] \in V /\ s[x] \in T
      BY <1>2, <2>2, <3>1
    <3>3. f[S] = H[<<f[S \ {x}], s[x]>>]
      BY <1>10, <2>2, <3>1
    <3> QED BY <3>2, <3>3 DEF Steps
  <2> HIDE DEF P
  <2>3. \A S \in SUBSET D : S \in P
    BY <1>1, <2>1, <2>2, SubsetInduction
  <2> QED BY <2>3 DEF P
<1>13. f \in [SUBSET D -> V]
  BY <1>11, <1>12
<1> QED BY <1>10, <1>13 DEF f, D, FoldsBy

Satisfies(f, H, base, s, V) ==
  \A S \in SUBSET DOMAIN s :
    /\ S = {} => f[S] = base
    /\ S # {} /\ f[S \ {Max(S)}] \in V =>
         f[S] = H[<<f[S \ {Max(S)}], s[Max(S)]>>]

(* What satisfies the equation of a fold, where that says something, is it.  *)
LEMMA FoldUnique ==
  ASSUME NEW T, NEW V, NEW H, Steps(H, V, T), NEW base \in V, NEW s \in Seq(T), NEW f,
         Satisfies(f, H, base, s, V)
  PROVE  f[DOMAIN s] = Fold(H, base, s)
<1> DEFINE D == DOMAIN s
           g == FoldFun(H, base, s)
           P == {S \in SUBSET D : f[S] = g[S]}
<1>1. /\ g \in [SUBSET D -> V]
      /\ \A S \in SUBSET D : g[S] = IF S = {} THEN base ELSE H[<<g[S \ {Max(S)}], s[Max(S)]>>]
  <2>1. FoldsBy(g, H, base, s, V)
    BY FoldFunEquation
  <2> QED BY <2>1 DEF FoldsBy
<1>2. IsFiniteSet(D)
  BY LenProperties, FS_Interval
<1>3. \A S \in SUBSET D : S # {} => Max(S) \in S
  BY MaxPlace
<1> HIDE DEF g
<1>4. {} \in P
  BY <1>1 DEF Satisfies
<1>5. ASSUME NEW S \in SUBSET D, S # {}, \A x \in S : S \ {x} \in P PROVE S \in P
  <2>1. PICK x \in S : x = Max(S)
    BY <1>3, <1>5
  <2>2. f[S \ {x}] = g[S \ {x}] /\ g[S \ {x}] \in V
    BY <1>1, <1>5
  <2>3. f[S] = H[<<f[S \ {x}], s[x]>>]
    BY <1>5, <2>1, <2>2 DEF Satisfies
  <2>4. g[S] = H[<<g[S \ {x}], s[x]>>]
    BY <1>1, <1>5, <2>1
  <2> QED BY <2>2, <2>3, <2>4
<1>6. f[D] = g[D]
  <2> HIDE DEF P
  <2>1. \A S \in SUBSET D : S \in P
    BY <1>2, <1>4, <1>5, SubsetInduction
  <2> QED BY <2>1 DEF P
<1> QED BY <1>6, FoldOfFun DEF g

LEMMA FoldEmpty ==
  ASSUME NEW T, NEW V, NEW H, Steps(H, V, T), NEW base \in V
  PROVE  Fold(H, base, <<>>) = base
<1>1. <<>> \in Seq(T) /\ DOMAIN <<>> = {}
  BY EmptySeq
<1>2. FoldFun(H, base, <<>>)[{}] = base
  <2>1. FoldsBy(FoldFun(H, base, <<>>), H, base, <<>>, V)
    BY <1>1, FoldFunEquation
  <2>2. {} \in SUBSET DOMAIN <<>>
    OBVIOUS
  <2> QED BY <2>1, <2>2 DEF FoldsBy
<1> QED BY <1>1, <1>2, FoldOfFun

LEMMA FoldType ==
  ASSUME NEW T, NEW V, NEW H, Steps(H, V, T), NEW base \in V, NEW s \in Seq(T)
  PROVE  Fold(H, base, s) \in V
<1>1. FoldsBy(FoldFun(H, base, s), H, base, s, V)
  BY FoldFunEquation
<1> QED BY <1>1, FoldOfFun DEF FoldsBy

LEMMA FoldAppend ==
  ASSUME NEW T, NEW V, NEW H, Steps(H, V, T), NEW base \in V, NEW s \in Seq(T), NEW x \in T
  PROVE  Fold(H, base, Append(s, x)) = H[<<Fold(H, base, s), x>>]
<1> DEFINE t == Append(s, x)
           n == Len(s)
           f == FoldFun(H, base, t)
<1>1. /\ n \in Nat /\ DOMAIN s = 1..n /\ t \in Seq(T) /\ DOMAIN t = 1..(n + 1)
      /\ t[n + 1] = x /\ \A i \in 1..n : t[i] = s[i]
  BY AppendProperties, LenProperties
<1>2. /\ f \in [SUBSET DOMAIN t -> V]
      /\ \A S \in SUBSET DOMAIN t : f[S] =
           IF S = {} THEN base ELSE H[<<f[S \ {Max(S)}], t[Max(S)]>>]
  <2>1. FoldsBy(f, H, base, t, V)
    BY <1>1, FoldFunEquation
  <2> QED BY <2>1 DEF FoldsBy
<1>3. \A S \in SUBSET DOMAIN s : S # {} => Max(S) \in S
  BY MaxPlace
<1> HIDE DEF t, n, f
<1>4. \A S \in SUBSET DOMAIN s : S \in SUBSET DOMAIN t
  BY <1>1
<1>5. \A S \in SUBSET DOMAIN s : S # {} => t[Max(S)] = s[Max(S)]
  BY <1>1, <1>3
<1>6. f[1..n] = Fold(H, base, s)
  <2>1. Satisfies(f, H, base, s, V)
    BY <1>2, <1>4, <1>5 DEF Satisfies
  <2>2. f[DOMAIN s] = Fold(H, base, s)
    BY <2>1, FoldUnique
  <2> QED BY <1>1, <2>2
<1>7. Max(1..(n + 1)) = n + 1 /\ (1..(n + 1)) \ {n + 1} = 1..n
  <2>1. n + 1 \in Nat /\ n + 1 > 0 /\ (n + 1) - 1 = n
    BY <1>1
  <2> QED BY <2>1, MaxInterval
<1>8. f[1..(n + 1)] = H[<<f[1..n], x>>]
  <2>1. n + 1 \in DOMAIN t
    BY <1>1
  <2> QED BY <1>1, <1>2, <1>7, <2>1
<1>9. Fold(H, base, t) = f[1..(n + 1)]
  BY <1>1, FoldOfFun DEF f
<1> QED BY <1>6, <1>8, <1>9 DEF t
=============================================================================
