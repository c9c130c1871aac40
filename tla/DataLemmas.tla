------------------------------- MODULE DataLemmas -------------------------------
(***************************************************************************)
(* Facts about data that the proofs of several components need: least and  *)
(* greatest numbers, induction over the naturals stated with a set, one    *)
(* element removed from a sequence, and folds.                             *)
(*                                                                         *)
(* The folds of the community modules are defined by recursion over the    *)
(* subsets of a finite set.  FoldExists shows that a recursion of that     *)
(* form has a solution, FoldType and FoldLeftSteps what is true of every    *)
(* solution; a proof about one fold gives its step as a function.          *)
(***************************************************************************)
EXTENDS Integers, Sequences, FiniteSets, FiniteSetsExt, SequencesExt, Functions,
        FiniteSetTheorems, SequenceTheorems, WellFoundedInduction, TLAPS

--------------------------------------------------------------------------------
(* Numbers.                                                                *)

(* A set of naturals that is not empty has a least member.                 *)
LEMMA LeastNat ==
  ASSUME NEW S, S \subseteq Nat, S # {}
  PROVE  \E x \in S : \A y \in S : x <= y
<1> DEFINE R == OpToRel(<, Nat)
<1>1. IsWellFoundedOn(R, Nat)
  BY NatLessThanWellFounded
<1>2. \A x, y \in Nat : y < x => <<y, x>> \in R
  BY DEF OpToRel
<1> HIDE DEF R
<1>3. PICK x \in S : \A y \in S : ~ (<<y, x>> \in R)
  BY <1>1, WFMin
<1>4. ASSUME NEW y \in S PROVE x <= y
  <2>1. x \in Nat /\ y \in Nat
    OBVIOUS
  <2>2. ~ (y < x)
    BY <1>2, <1>3, <2>1
  <2> QED
    BY <2>1, <2>2
<1> QED
  BY <1>4

(* Induction: a set that holds 0 and is closed under successor.            *)
LEMMA SetInduction ==
  ASSUME NEW S, 0 \in S, \A n \in Nat : n \in S => n + 1 \in S
  PROVE  Nat \subseteq S
<1> SUFFICES ASSUME Nat \ S # {} PROVE FALSE
  OBVIOUS
<1>1. PICK m \in Nat \ S : \A y \in Nat \ S : m <= y
  <2>1. Nat \ S \subseteq Nat
    OBVIOUS
  <2> QED
    BY <2>1, LeastNat
<1>2. m - 1 \in Nat
  BY <1>1
<1>3. m - 1 \in S
  BY <1>1, <1>2
<1> QED
  BY <1>2, <1>3

(* The greatest of the numbers up to n.                                    *)
LEMMA MaxOfInterval ==
  ASSUME NEW n \in Nat, n # 0
  PROVE  Max(1..n) = n
<1>1. n \in 1..n /\ \A y \in 1..n : n >= y
  OBVIOUS
<1>2. \A x \in 1..n : (\A y \in 1..n : x >= y) => x = n
  BY <1>1
<1> QED
  BY <1>1, <1>2 DEF Max

(* A finite set of integers that is not empty has a greatest member.       *)
LEMMA MaxOfFinite ==
  ASSUME NEW S, IsFiniteSet(S), S \subseteq Int, S # {}
  PROVE  Max(S) \in S /\ \A y \in S : Max(S) >= y
<1> DEFINE N == {n \in Nat : \A T \in SUBSET S :
                   T # {} /\ Cardinality(T) <= n => \E x \in T : \A y \in T : x >= y}
<1>1. \A T \in SUBSET S : IsFiniteSet(T) /\ Cardinality(T) \in Nat
  BY FS_Subset, FS_CardinalityType
<1>2. 0 \in N
  <2>1. \A T \in SUBSET S : Cardinality(T) <= 0 => T = {}
    BY <1>1, FS_EmptySet
  <2> QED
    BY <2>1
<1>3. ASSUME NEW n \in Nat, n \in N PROVE n + 1 \in N
  <2> SUFFICES ASSUME NEW T \in SUBSET S, T # {}, Cardinality(T) <= n + 1
               PROVE  \E x \in T : \A y \in T : x >= y
    OBVIOUS
  <2>1. PICK t \in T : TRUE
    OBVIOUS
  <2>2. CASE T \ {t} = {}
    <3>1. \A y \in T : t >= y
      BY <2>2
    <3> QED
      BY <3>1
  <2>3. CASE T \ {t} # {}
    <3>1. Cardinality(T \ {t}) <= n
      BY <1>1, FS_RemoveElement
    <3>2. PICK x \in T \ {t} : \A y \in T \ {t} : x >= y
      BY <1>3, <2>3, <3>1
    <3>3. CASE x >= t
      BY <3>2, <3>3
    <3>4. CASE ~(x >= t)
      <4>1. x \in Int /\ t \in Int /\ \A y \in T : y \in Int
        OBVIOUS
      <4>2. \A y \in T : t >= y
        BY <3>2, <3>4, <4>1
      <4> QED
        BY <4>2
    <3> QED
      BY <3>3, <3>4
  <2> QED
    BY <2>2, <2>3
<1>4. Cardinality(S) \in N
  <2> HIDE DEF N
  <2>1. Nat \subseteq N
    BY <1>2, <1>3, SetInduction
  <2> QED
    BY <2>1, FS_CardinalityType
<1>5. \E x \in S : \A y \in S : x >= y
  BY <1>1, <1>4
<1> QED
  BY <1>5 DEF Max

--------------------------------------------------------------------------------
(* Sequences.                                                              *)

(* One element removed: those before it stay, those after it move up.      *)
LEMMA RemovedFromSeq ==
  ASSUME NEW S, NEW s \in Seq(S), NEW i \in DOMAIN s
  PROVE  /\ RemoveAt(s, i) \in Seq(S)
         /\ Len(RemoveAt(s, i)) = Len(s) - 1
         /\ \A j \in 1..(Len(s) - 1) :
              RemoveAt(s, i)[j] = IF j < i THEN s[j] ELSE s[j + 1]
<1>1. i \in 1..Len(s) /\ Len(s) \in Nat
  OBVIOUS
<1> DEFINE before == SubSeq(s, 1, i - 1)
           after == SubSeq(s, i + 1, Len(s))
<1>2. before \in Seq(S) /\ Len(before) = i - 1 /\ \A j \in 1..(i - 1) : before[j] = s[j]
  BY <1>1
<1>3. after \in Seq(S) /\ Len(after) = Len(s) - i /\ \A j \in 1..(Len(s) - i) : after[j] = s[i + j]
  BY <1>1
<1>4. RemoveAt(s, i) = before \o after
  BY DEF RemoveAt
<1> HIDE DEF before, after
<1>5. RemoveAt(s, i) \in Seq(S) /\ Len(RemoveAt(s, i)) = Len(s) - 1
  BY <1>1, <1>2, <1>3, <1>4
<1>6. ASSUME NEW j \in 1..(Len(s) - 1)
      PROVE  RemoveAt(s, i)[j] = IF j < i THEN s[j] ELSE s[j + 1]
  <2>1. CASE j < i
    BY <1>1, <1>2, <1>3, <1>4, <2>1
  <2>2. CASE ~(j < i)
    <3>1. j - (i - 1) \in 1..(Len(s) - i)
      BY <1>1, <2>2
    <3>2. RemoveAt(s, i)[j] = after[j - (i - 1)]
      <4>1. j \in 1..(Len(before) + Len(after)) /\ ~(j <= Len(before))
        BY <1>1, <1>2, <1>3, <2>2
      <4>2. (before \o after)[j] = after[j - Len(before)]
        BY <1>2, <1>3, <4>1, ConcatProperties
      <4> QED
        BY <1>2, <1>4, <4>2
    <3>3. after[j - (i - 1)] = s[i + (j - (i - 1))]
      BY <1>3, <3>1
    <3>4. i + (j - (i - 1)) = j + 1
      BY <1>1
    <3> QED
      BY <2>2, <3>2, <3>3, <3>4
  <2> QED
    BY <2>1, <2>2
<1> QED
  BY <1>5, <1>6

--------------------------------------------------------------------------------
(* Folds.                                                                  *)

(* A fold takes one element after another off a set, down to the empty set: *)
(* ch says which, and h makes the value for the set from that element and  *)
(* the value for the rest.                                                 *)
Chooses(D, ch) == \A s \in SUBSET D : s # {} => ch[s] \in s

StepIn(D, V, h) == \A x \in D : \A v \in V : h[<<x, v>>] \in V

FoldOf(D, V, base, h, ch, g) ==
  /\ g \in [SUBSET D -> V]
  /\ \A s \in SUBSET D : g[s] = IF s = {} THEN base ELSE h[<<ch[s], g[s \ {ch[s]}]>>]

(* The same for the indices of a sequence, of which the greatest is taken. *)
FoldLeftOf(n, V, base, h, g) ==
  /\ g \in [SUBSET (1..n) -> V]
  /\ \A t \in SUBSET (1..n) : g[t] = IF t = {} THEN base ELSE h[<<Max(t), g[t \ {Max(t)}]>>]

(* A value that the recursion of such a fold defines, whatever its type.   *)
Unfolds(n, V, base, h, g) ==
  /\ g[{}] = base
  /\ \A t \in SUBSET (1..n) :
        t # {} /\ g[t \ {Max(t)}] \in V => g[t] = h[<<Max(t), g[t \ {Max(t)}]>>]

(* What the fold reaches from the first element on.                        *)
Reaches(n, V, base, h, g, r) ==
  /\ r \in [0..n -> V]
  /\ r[0] = base
  /\ \A k \in 1..n : r[k] = h[<<k, r[k - 1]>>]
  /\ r[n] = g[1..n]

(* A recursion over the subsets of a finite set that takes one element off *)
(* a set has a solution.                                                   *)
LEMMA FoldExists ==
  ASSUME NEW D, IsFiniteSet(D), NEW V, NEW base \in V, NEW h, NEW ch,
         Chooses(D, ch), StepIn(D, V, h)
  PROVE  \E g : FoldOf(D, V, base, h, ch, g)
<1> USE DEF Chooses, StepIn
<1> DEFINE Small(n) == {s \in SUBSET D : Cardinality(s) <= n}
           Works(n, g) == /\ g \in [Small(n) -> V]
                          /\ \A s \in Small(n) :
                               g[s] = IF s = {} THEN base ELSE h[<<ch[s], g[s \ {ch[s]}]>>]
           N == {n \in Nat : \E g : Works(n, g)}
<1>1. \A s \in SUBSET D : IsFiniteSet(s) /\ Cardinality(s) \in Nat
  BY FS_Subset, FS_CardinalityType
<1>2. 0 \in N
  <2>1. Small(0) = {{}}
    BY <1>1, FS_EmptySet
  <2>2. Works(0, [s \in Small(0) |-> base])
    BY <2>1
  <2> HIDE DEF Works
  <2> QED
    BY <2>2
<1>3. ASSUME NEW n \in Nat, n \in N PROVE n + 1 \in N
  <2>1. PICK g : Works(n, g)
    BY <1>3
  <2> DEFINE g2 == [s \in Small(n + 1) |->
                      IF s = {} THEN base ELSE h[<<ch[s], g[s \ {ch[s]}]>>]]
  <2>2. \A s \in Small(n + 1) : s # {} => s \ {ch[s]} \in Small(n)
    BY <1>1, FS_RemoveElement
  <2>3. g2 \in [Small(n + 1) -> V]
    <3> SUFFICES ASSUME NEW s \in Small(n + 1), s # {}
                 PROVE  h[<<ch[s], g[s \ {ch[s]}]>>] \in V
      OBVIOUS
    <3>1. g[s \ {ch[s]}] \in V
      BY <2>1, <2>2
    <3>2. ch[s] \in D
      OBVIOUS
    <3> QED
      BY <3>1, <3>2
  <2>4. \A s \in Small(n) : s \in Small(n + 1) /\ g2[s] = g[s]
    <3> SUFFICES ASSUME NEW s \in Small(n) PROVE s \in Small(n + 1) /\ g2[s] = g[s]
      OBVIOUS
    <3>1. s \in Small(n + 1)
      BY <1>1
    <3> QED
      BY <3>1, <2>1
  <2>5. Works(n + 1, g2)
    <3> SUFFICES ASSUME NEW s \in Small(n + 1), s # {}
                 PROVE  g2[s] = h[<<ch[s], g2[s \ {ch[s]}]>>]
      BY <2>3
    <3>1. g2[s \ {ch[s]}] = g[s \ {ch[s]}]
      BY <2>2, <2>4
    <3> QED
      BY <3>1
  <2> HIDE DEF Works
  <2> QED
    BY <2>5
<1>4. Cardinality(D) \in N
  <2> HIDE DEF N
  <2>1. Nat \subseteq N
    BY <1>2, <1>3, SetInduction
  <2> QED
    BY <2>1, FS_CardinalityType
<1>5. Small(Cardinality(D)) = SUBSET D
  <2>1. \A s \in SUBSET D : Cardinality(s) <= Cardinality(D)
    BY FS_Subset
  <2> QED
    BY <2>1
<1>6. PICK g : Works(Cardinality(D), g)
  BY <1>4
<1>7. g \in [SUBSET D -> V]
  BY <1>5, <1>6
<1>8. \A s \in SUBSET D : g[s] = IF s = {} THEN base ELSE h[<<ch[s], g[s \ {ch[s]}]>>]
  BY <1>5, <1>6, <1>7
<1> QED
  BY <1>7, <1>8 DEF FoldOf

(* What holds of the value for the empty set, and of the value for a set   *)
(* when it holds for the set without one element, holds of every value.    *)
LEMMA FoldType ==
  ASSUME NEW D, IsFiniteSet(D), NEW V, NEW g, NEW ch, g[{}] \in V, Chooses(D, ch),
         \A s \in SUBSET D : s # {} /\ g[s \ {ch[s]}] \in V => g[s] \in V
  PROVE  \A s \in SUBSET D : g[s] \in V
<1> USE DEF Chooses
<1> DEFINE N == {n \in Nat : \A s \in SUBSET D : Cardinality(s) <= n => g[s] \in V}
<1>1. \A s \in SUBSET D : IsFiniteSet(s) /\ Cardinality(s) \in Nat
  BY FS_Subset, FS_CardinalityType
<1>2. 0 \in N
  <2>1. \A s \in SUBSET D : Cardinality(s) <= 0 => s = {}
    BY <1>1, FS_EmptySet
  <2> QED
    BY <2>1
<1>3. ASSUME NEW n \in Nat, n \in N PROVE n + 1 \in N
  <2>1. ASSUME NEW s \in SUBSET D, Cardinality(s) <= n + 1 PROVE g[s] \in V
    <3>1. CASE s = {}
      BY <3>1
    <3>2. CASE s # {}
      <4>1. Cardinality(s \ {ch[s]}) <= n
        BY <1>1, <2>1, <3>2, FS_RemoveElement
      <4>2. g[s \ {ch[s]}] \in V
        BY <1>3, <4>1
      <4> QED
        BY <3>2, <4>2
    <3> QED
      BY <3>1, <3>2
  <2> QED
    BY <2>1
<1>4. Nat \subseteq N
  <2> HIDE DEF N
  <2> QED
    BY <1>2, <1>3, SetInduction
<1> QED
  BY <1>1, <1>4

LEMMA MaxOfSub ==
  ASSUME NEW n \in Nat, NEW t \in SUBSET (1..n), t # {}
  PROVE  Max(t) \in t
<1>1. IsFiniteSet(1..n) /\ 1..n \subseteq Int
  BY FS_Interval
<1>2. IsFiniteSet(t) /\ t \subseteq Int
  BY <1>1, FS_Subset
<1> QED
  BY <1>2, MaxOfFinite

(* The folds over a sequence take the greatest index off.  For the step of *)
(* such a fold, as a function h of an index and a value: its recursion has *)
(* a solution, and every solution is reached from the first element on.    *)
LEMMA FoldLeftExists ==
  ASSUME NEW n \in Nat, NEW V, NEW base \in V, NEW h, StepIn(1..n, V, h)
  PROVE  \E g : FoldLeftOf(n, V, base, h, g)
<1> DEFINE ch == [t \in SUBSET (1..n) |-> Max(t)]
<1>1. IsFiniteSet(1..n)
  BY FS_Interval
<1>2. \A t \in SUBSET (1..n) : ch[t] = Max(t)
  OBVIOUS
<1>3. Chooses(1..n, ch)
  BY <1>2, MaxOfSub DEF Chooses
<1> HIDE DEF ch
<1>4. PICK g : FoldOf(1..n, V, base, h, ch, g)
  BY <1>1, <1>3, FoldExists
<1>5. FoldLeftOf(n, V, base, h, g)
  BY <1>2, <1>4 DEF FoldOf, FoldLeftOf
<1> QED
  BY <1>5

LEMMA FoldLeftSteps ==
  ASSUME NEW n \in Nat, NEW V, NEW base \in V, NEW h, StepIn(1..n, V, h),
         NEW g, Unfolds(n, V, base, h, g)
  PROVE  \E r : Reaches(n, V, base, h, g, r)
<1> DEFINE ch == [t \in SUBSET (1..n) |-> Max(t)]
           r == [k \in 0..n |-> g[1..k]]
<1>1. IsFiniteSet(1..n)
  BY FS_Interval
<1>2. \A t \in SUBSET (1..n) : ch[t] = Max(t)
  OBVIOUS
<1>3. Chooses(1..n, ch)
  BY <1>2, MaxOfSub DEF Chooses
<1>4. \A t \in SUBSET (1..n) : t # {} /\ g[t \ {ch[t]}] \in V => g[t] \in V
  <2> SUFFICES ASSUME NEW t \in SUBSET (1..n), t # {}, g[t \ {ch[t]}] \in V PROVE g[t] \in V
    OBVIOUS
  <2>1. g[t] = h[<<Max(t), g[t \ {Max(t)}]>>] /\ g[t \ {Max(t)}] \in V
    BY <1>2 DEF Unfolds
  <2>2. Max(t) \in 1..n
    BY MaxOfSub
  <2> QED
    BY <2>1, <2>2 DEF StepIn
<1>5. \A t \in SUBSET (1..n) : g[t] \in V
  <2>1. g[{}] \in V
    BY DEF Unfolds
  <2> HIDE DEF ch
  <2> QED
    BY <1>1, <1>3, <1>4, <2>1, FoldType
<1>6. r \in [0..n -> V]
  <2>1. \A k \in 0..n : 1..k \in SUBSET (1..n)
    OBVIOUS
  <2> QED
    BY <1>5, <2>1
<1>7. r[0] = base
  <2>1. 1..0 = {}
    OBVIOUS
  <2> QED
    BY <2>1 DEF Unfolds
<1>8. ASSUME NEW k \in 1..n PROVE r[k] = h[<<k, r[k - 1]>>]
  <2>1. k \in Nat /\ k # 0
    OBVIOUS
  <2>2. Max(1..k) = k
    BY <2>1, MaxOfInterval
  <2>3. /\ 1..k # {} /\ (1..k) \ {k} = 1..(k - 1)
        /\ 1..k \in SUBSET (1..n) /\ 1..(k - 1) \in SUBSET (1..n)
    BY <2>1
  <2>4. g[1..(k - 1)] \in V
    BY <1>5, <2>3
  <2>5. g[1..k] = h[<<k, g[1..(k - 1)]>>]
    BY <2>2, <2>3, <2>4 DEF Unfolds
  <2>6. k \in 0..n /\ k - 1 \in 0..n
    OBVIOUS
  <2> QED
    BY <2>5, <2>6
<1>9. r[n] = g[1..n]
  OBVIOUS
<1> HIDE DEF r
<1>10. Reaches(n, V, base, h, g, r)
  BY <1>6, <1>7, <1>8, <1>9 DEF Reaches
<1> QED
  BY <1>10

(* Two functions that start alike and go on alike agree.                   *)
LEMMA StepsAgree ==
  ASSUME NEW n \in Nat, NEW p, NEW q, p[0] = q[0],
         \A k \in 0..(n - 1) : p[k] = q[k] => p[k + 1] = q[k + 1]
  PROVE  \A k \in 0..n : p[k] = q[k]
<1> DEFINE N == {k \in Nat : k <= n => p[k] = q[k]}
<1>1. 0 \in N
  OBVIOUS
<1>2. ASSUME NEW k \in Nat, k \in N PROVE k + 1 \in N
  BY <1>2
<1>3. Nat \subseteq N
  <2> HIDE DEF N
  <2> QED
    BY <1>1, <1>2, SetInduction
<1> QED
  BY <1>3

--------------------------------------------------------------------------------
(* Sums.                                                                   *)

(* The sums of f over the subsets of D: any member may be taken off first. *)
Sums(D, f, g) ==
  /\ g \in [SUBSET D -> Nat]
  /\ g[{}] = 0
  /\ \A s \in SUBSET D : \A x \in s : g[s] = f[x] + g[s \ {x}]

(* A property of the empty set that a set has when it has it without one   *)
(* of its members is a property of every subset of a finite set.           *)
LEMMA SubsetInduction ==
  ASSUME NEW D, IsFiniteSet(D), NEW P, {} \in P,
         \A s \in SUBSET D : s # {} /\ (\A x \in s : s \ {x} \in P) => s \in P
  PROVE  \A s \in SUBSET D : s \in P
<1> DEFINE N == {n \in Nat : \A s \in SUBSET D : Cardinality(s) <= n => s \in P}
<1>1. \A s \in SUBSET D : IsFiniteSet(s) /\ Cardinality(s) \in Nat
  BY FS_Subset, FS_CardinalityType
<1>2. 0 \in N
  <2>1. \A s \in SUBSET D : Cardinality(s) <= 0 => s = {}
    BY <1>1, FS_EmptySet
  <2> QED
    BY <2>1
<1>3. ASSUME NEW n \in Nat, n \in N PROVE n + 1 \in N
  <2>1. ASSUME NEW s \in SUBSET D, Cardinality(s) <= n + 1, s # {} PROVE s \in P
    <3>1. \A x \in s : Cardinality(s \ {x}) <= n /\ s \ {x} \in SUBSET D
      BY <1>1, <2>1, FS_RemoveElement
    <3>2. \A x \in s : s \ {x} \in P
      BY <1>3, <3>1
    <3> QED
      BY <2>1, <3>2
  <2>2. \A s \in SUBSET D : Cardinality(s) <= n + 1 => s \in P
    <3> SUFFICES ASSUME NEW s \in SUBSET D, Cardinality(s) <= n + 1 PROVE s \in P
      OBVIOUS
    <3>1. CASE s = {}
      BY <3>1
    <3>2. CASE s # {}
      BY <2>1, <3>2
    <3> QED
      BY <3>1, <3>2
  <2>3. n + 1 \in Nat
    OBVIOUS
  <2> QED
    BY <2>2, <2>3
<1>4. Nat \subseteq N
  <2> HIDE DEF N
  <2> QED
    BY <1>2, <1>3, SetInduction
<1> QED
  BY <1>1, <1>4

(* SumFunction takes one element after another, in an order that CHOOSE    *)
(* fixes; the order makes no difference.                                   *)
LEMMA SumFunctionSums ==
  ASSUME NEW D, IsFiniteSet(D), NEW f \in [D -> Nat]
  PROVE  \E g : Sums(D, f, g) /\ SumFunction(f) = g[D]
<1> DEFINE First(s) == CHOOSE x \in s : TRUE
           Step(g) == [s \in SUBSET D |->
                         IF s = {} THEN 0 ELSE f[First(s)] + g[s \ {First(s)}]]
           I == CHOOSE g : g = Step(g)
           h == [p \in D \X Nat |-> f[p[1]] + p[2]]
           ch == [s \in SUBSET D |-> First(s)]
<1>1. SumFunction(f) = I[D]
  <2>1. DOMAIN f = D
    OBVIOUS
  <2> QED
    BY <2>1 DEF SumFunction, SumFunctionOnSet, FoldFunctionOnSet, MapThenFoldSet
<1>2. \A s \in SUBSET D : s # {} => First(s) \in s
  OBVIOUS
<1>3. \A x \in D : \A v \in Nat : h[<<x, v>>] = f[x] + v /\ h[<<x, v>>] \in Nat
  OBVIOUS
<1>4. \A s \in SUBSET D : ch[s] = First(s)
  OBVIOUS
<1> HIDE DEF h, ch, First
<1>5. StepIn(D, Nat, h)
  BY <1>3 DEF StepIn
<1>6. Chooses(D, ch)
  BY <1>2, <1>4 DEF Chooses
<1>7. PICK g : FoldOf(D, Nat, 0, h, ch, g)
  BY <1>5, <1>6, FoldExists
<1>8. \A s \in SUBSET D : g[s] = IF s = {} THEN 0 ELSE f[First(s)] + g[s \ {First(s)}]
  <2> SUFFICES ASSUME NEW s \in SUBSET D, s # {} PROVE g[s] = f[First(s)] + g[s \ {First(s)}]
    BY <1>7 DEF FoldOf
  <2>1. g[s] = h[<<First(s), g[s \ {First(s)}]>>] /\ g[s \ {First(s)}] \in Nat
    BY <1>4, <1>7 DEF FoldOf
  <2> QED
    BY <1>2, <1>3, <2>1
<1>9. g = Step(g)
  BY <1>7, <1>8 DEF FoldOf
<1>10. I = Step(I)
  BY <1>9
<1> HIDE DEF I
<1>11. I[{}] = 0 /\ \A s \in SUBSET D : s # {} => I[s] = f[First(s)] + I[s \ {First(s)}]
  BY <1>10
<1>12. \A s \in SUBSET D : I[s] \in Nat
  <2> DEFINE P == {s \in SUBSET D : I[s] \in Nat}
  <2>1. {} \in P
    BY <1>11
  <2>2. ASSUME NEW s \in SUBSET D, s # {}, \A x \in s : s \ {x} \in P PROVE s \in P
    <3> DEFINE c == First(s)
    <3>1. c \in s /\ I[s] = f[c] + I[s \ {c}]
      BY <1>2, <1>11, <2>2
    <3> HIDE DEF c
    <3>2. I[s \ {c}] \in Nat /\ f[c] \in Nat
      BY <2>2, <3>1
    <3> QED
      BY <3>1, <3>2
  <2>3. \A s \in SUBSET D : s \in P
    <3> HIDE DEF P
    <3> QED
      BY <2>1, <2>2, SubsetInduction
  <2> QED
    BY <2>3
<1>13. \A s \in SUBSET D : \A x \in s : I[s] = f[x] + I[s \ {x}]
  <2> DEFINE P == {s \in SUBSET D : \A x \in s : I[s] = f[x] + I[s \ {x}]}
  <2>1. {} \in P
    OBVIOUS
  <2>2. ASSUME NEW s \in SUBSET D, s # {}, \A x \in s : s \ {x} \in P PROVE s \in P
    <3> SUFFICES ASSUME NEW x \in s PROVE I[s] = f[x] + I[s \ {x}]
      OBVIOUS
    <3> DEFINE c == First(s)
    <3>1. c \in s /\ I[s] = f[c] + I[s \ {c}]
      BY <1>2, <1>11, <2>2
    <3> HIDE DEF c
    <3>2. CASE x = c
      BY <3>1, <3>2
    <3>3. CASE x # c
      <4>1. x \in s \ {c} /\ c \in s \ {x} /\ (s \ {c}) \ {x} = (s \ {x}) \ {c}
        BY <3>1, <3>3
      <4>2. I[s \ {c}] = f[x] + I[(s \ {c}) \ {x}] /\ I[s \ {x}] = f[c] + I[(s \ {x}) \ {c}]
        BY <2>2, <3>1, <4>1
      <4>3. f[c] \in Nat /\ f[x] \in Nat /\ I[(s \ {c}) \ {x}] \in Nat
        BY <1>12, <3>1
      <4> QED
        BY <3>1, <4>1, <4>2, <4>3
    <3> QED
      BY <3>2, <3>3
  <2>3. \A s \in SUBSET D : s \in P
    <3> HIDE DEF P
    <3> QED
      BY <2>1, <2>2, SubsetInduction
  <2> QED
    BY <2>3
<1>14. I \in [SUBSET D -> Nat]
  BY <1>10, <1>12
<1> QED
  BY <1>1, <1>11, <1>13, <1>14 DEF Sums

(* Where one function is not above another, its sum is not either.         *)
LEMMA SumsMonotone ==
  ASSUME NEW D, IsFiniteSet(D), NEW f \in [D -> Nat], NEW f2 \in [D -> Nat],
         NEW g, Sums(D, f, g), NEW g2, Sums(D, f2, g2),
         NEW T \in SUBSET D, \A x \in T : f[x] <= f2[x]
  PROVE  g[T] <= g2[T]
<1> DEFINE P == {s \in SUBSET D : s \subseteq T => g[s] <= g2[s]}
<1>1. {} \in P
  BY DEF Sums
<1>2. ASSUME NEW s \in SUBSET D, s # {}, \A x \in s : s \ {x} \in P PROVE s \in P
  <2> SUFFICES ASSUME s \subseteq T PROVE g[s] <= g2[s]
    OBVIOUS
  <2>1. PICK x \in s : TRUE
    BY <1>2
  <2>2. g[s \ {x}] <= g2[s \ {x}] /\ f[x] <= f2[x]
    BY <1>2
  <2>3. /\ g[s] = f[x] + g[s \ {x}] /\ g2[s] = f2[x] + g2[s \ {x}]
        /\ g[s \ {x}] \in Nat /\ g2[s \ {x}] \in Nat /\ f[x] \in Nat /\ f2[x] \in Nat
    BY DEF Sums
  <2> QED
    BY <2>2, <2>3
<1>3. \A s \in SUBSET D : s \in P
  <2> HIDE DEF P
  <2> QED
    BY <1>1, <1>2, SubsetInduction
<1> QED
  BY <1>3

LEMMA SumType ==
  ASSUME NEW D, IsFiniteSet(D), NEW f \in [D -> Nat]
  PROVE  SumFunction(f) \in Nat
<1>1. PICK g : Sums(D, f, g) /\ SumFunction(f) = g[D]
  BY SumFunctionSums
<1> QED
  BY <1>1 DEF Sums

LEMMA SumMonotone ==
  ASSUME NEW D, IsFiniteSet(D), NEW f \in [D -> Nat], NEW f2 \in [D -> Nat],
         \A x \in D : f[x] <= f2[x]
  PROVE  SumFunction(f) <= SumFunction(f2)
<1>1. PICK g : Sums(D, f, g) /\ SumFunction(f) = g[D]
  BY SumFunctionSums
<1>2. PICK g2 : Sums(D, f2, g2) /\ SumFunction(f2) = g2[D]
  BY SumFunctionSums
<1> QED
  BY <1>1, <1>2, SumsMonotone

LEMMA SumUpdate ==
  ASSUME NEW D, IsFiniteSet(D), NEW f \in [D -> Nat], NEW f2 \in [D -> Nat], NEW x \in D,
         \A y \in D \ {x} : f2[y] = f[y]
  PROVE  SumFunction(f2) + f[x] = SumFunction(f) + f2[x]
<1>2. PICK g : Sums(D, f, g) /\ SumFunction(f) = g[D]
  BY SumFunctionSums
<1>3. PICK g2 : Sums(D, f2, g2) /\ SumFunction(f2) = g2[D]
  BY SumFunctionSums
<1>4. D \ {x} \in SUBSET D /\ D \in SUBSET D /\ \A y \in D \ {x} : f[y] \in Nat
  OBVIOUS
<1>5. g[D \ {x}] <= g2[D \ {x}]
  BY <1>2, <1>3, <1>4, SumsMonotone
<1>6. g2[D \ {x}] <= g[D \ {x}]
  <2>1. \A y \in D \ {x} : f2[y] <= f[y]
    BY <1>4
  <2> QED
    BY <1>2, <1>3, <1>4, <2>1, SumsMonotone
<1>7. g[D \ {x}] \in Nat /\ g2[D \ {x}] \in Nat
  BY <1>2, <1>3, <1>4 DEF Sums
<1>8. g[D] = f[x] + g[D \ {x}] /\ g2[D] = f2[x] + g2[D \ {x}]
  BY <1>2, <1>3, <1>4 DEF Sums
<1> QED
  BY <1>2, <1>3, <1>5, <1>6, <1>7, <1>8

LEMMA SumOfZeros ==
  ASSUME NEW D, IsFiniteSet(D), NEW f \in [D -> Nat], \A x \in D : f[x] = 0
  PROVE  SumFunction(f) = 0
<1>1. PICK g : Sums(D, f, g) /\ SumFunction(f) = g[D]
  BY SumFunctionSums
<1> DEFINE P == {s \in SUBSET D : g[s] = 0}
<1>2. {} \in P
  BY <1>1 DEF Sums
<1>3. ASSUME NEW s \in SUBSET D, s # {}, \A x \in s : s \ {x} \in P PROVE s \in P
  <2>1. PICK x \in s : TRUE
    BY <1>3
  <2>2. g[s \ {x}] = 0 /\ f[x] = 0
    BY <1>3
  <2>3. g[s] = f[x] + g[s \ {x}]
    BY <1>1 DEF Sums
  <2> QED
    BY <2>2, <2>3
<1>4. \A s \in SUBSET D : s \in P
  <2> HIDE DEF P
  <2> QED
    BY <1>2, <1>3, SubsetInduction
<1> QED
  BY <1>1, <1>4

(* No value is above the sum.                                              *)
LEMMA SumIsAbove ==
  ASSUME NEW D, IsFiniteSet(D), NEW f \in [D -> Nat], NEW x \in D
  PROVE  f[x] <= SumFunction(f)
<1>1. PICK g : Sums(D, f, g) /\ SumFunction(f) = g[D]
  BY SumFunctionSums
<1>2. g[D] = f[x] + g[D \ {x}] /\ g[D \ {x}] \in Nat /\ f[x] \in Nat
  BY <1>1 DEF Sums
<1> QED
  BY <1>1, <1>2
================================================================================
