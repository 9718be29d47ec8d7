------------------------- MODULE ObservationProofs -------------------------
(***************************************************************************)
(* What holds of what is observed of a program: of the behaviours that a   *)
(* discovery finds, and of the coverage that the tests reach.  For any     *)
(* documents, help texts and rules, any projects, sources and functions,   *)
(* any number of discoveries, runs and iterations, ended anywhere.  The    *)
(* lemmas on numbers, sums, selections and ranges come first: what is      *)
(* computed step by step is reasoned about by induction on the steps.      *)
(***************************************************************************)
EXTENDS BehaviorDiscovery, CoverageMeasurement, FiniteSetTheorems, SequenceTheorems,
        WellFoundedInduction, TLAPS

(* Numbers, and functions that are defined step by step.                   *)

\* A set of numbers has a least one.
LEMMA LeastNumber ==
  ASSUME NEW S \in SUBSET Nat, S # {}
  PROVE  \E n \in S : \A m \in S : n <= m
<1>1. PICK n \in S : \A m \in S : <<m, n>> \notin OpToRel(<, Nat)
  BY WFMin, NatLessThanWellFounded
<1>2. \A m \in S : ~ (m < n)
  BY <1>1 DEF OpToRel
<1>3. \A m \in S : n <= m
  <2> TAKE m \in S
  <2>1. m \in Nat /\ n \in Nat
    OBVIOUS
  <2> QED
    BY <1>2, <2>1
<1> QED
  BY <1>3

\* Induction over the numbers, for a set of them.
LEMMA AllNumbers ==
  ASSUME NEW S, 0 \in S, \A n \in Nat : n \in S => n + 1 \in S
  PROVE  Nat \subseteq S
<1> SUFFICES ASSUME Nat \ S # {} PROVE FALSE
  OBVIOUS
<1>1. PICK n \in Nat \ S : \A m \in Nat \ S : n <= m
  <2> DEFINE T == Nat \ S
  <2>1. T \in SUBSET Nat /\ T # {}
    OBVIOUS
  <2> HIDE DEF T
  <2>2. \E n \in T : \A m \in T : n <= m
    BY <2>1, LeastNumber
  <2> QED
    BY <2>2 DEF T
<1>2. n # 0 /\ n - 1 \in Nat
  BY <1>1
<1>3. n - 1 \in S
  BY <1>1, <1>2
<1>4. (n - 1) + 1 \in S
  BY <1>2, <1>3
<1> QED
  BY <1>1, <1>4

StepByStep(f, n, first, step) ==
  f[0] = first /\ \A i \in 1 .. n : f[i] = step[<<f[i - 1], i>>]

\* A function may be defined by its first value and a step.
LEMMA StepsDefineFunction ==
  ASSUME NEW N \in Nat, NEW A, NEW a \in A, NEW step \in [A \X Nat -> A]
  PROVE  \E f \in [0 .. N -> A] : StepByStep(f, N, a, step)
<1> DEFINE Built == {n \in Nat : \E f \in [0 .. n -> A] : StepByStep(f, n, a, step)}
<1>1. 0 \in Built
  <2>1. StepByStep([i \in 0 .. 0 |-> a], 0, a, step)
    BY DEF StepByStep
  <2> QED
    BY <2>1
<1>2. ASSUME NEW n \in Nat, n \in Built PROVE n + 1 \in Built
  <2>1. PICK f \in [0 .. n -> A] : StepByStep(f, n, a, step)
    BY <1>2
  <2> DEFINE g == [i \in 0 .. n + 1 |-> IF i <= n THEN f[i] ELSE step[<<f[n], n + 1>>]]
  <2>2. step[<<f[n], n + 1>>] \in A
    OBVIOUS
  <2>3. g \in [0 .. n + 1 -> A]
    BY <2>2
  <2>4. ASSUME NEW i \in 1 .. n + 1 PROVE g[i] = step[<<g[i - 1], i>>]
    <3>1. CASE i = n + 1
      BY <3>1
    <3>2. CASE i \in 1 .. n
      <4>1. g[i] = f[i] /\ g[i - 1] = f[i - 1]
        BY <3>2
      <4> QED
        BY <2>1, <3>2, <4>1 DEF StepByStep
    <3> QED
      BY <3>1, <3>2
  <2>5. g[0] = f[0]
    OBVIOUS
  <2>6. StepByStep(g, n + 1, a, step)
    <3> HIDE DEF g
    <3> QED
      BY <2>1, <2>4, <2>5 DEF StepByStep
  <2> HIDE DEF g
  <2> QED
    BY <2>3, <2>6
<1>3. Nat \subseteq Built
  <2> HIDE DEF Built
  <2> QED
    BY <1>1, <1>2, AllNumbers
<1> QED
  BY <1>3

-----------------------------------------------------------------------------
(* Sums.                                                                   *)

Some(s) == CHOOSE x \in s : TRUE

\* What the sum of a function over the subsets of a set satisfies.
SumsUp(f, S, sums) ==
  sums = [s \in SUBSET S |-> IF s = {} THEN 0 ELSE f[Some(s)] + sums[s \ {Some(s)}]]

\* A sum is what such a function gives for its set.
LEMMA SumIsChosen ==
  ASSUME NEW f, NEW S
  PROVE  SumFunctionOnSet(f, S) = (CHOOSE sums : SumsUp(f, S, sums))[S]
  BY Zenon DEF SumFunctionOnSet, FoldFunctionOnSet, MapThenFoldSet, SumsUp, Some

\* One element less.
LEMMA SmallerSet ==
  ASSUME NEW s, IsFiniteSet(s), s # {}
  PROVE  /\ Some(s) \in s
         /\ Cardinality(s) \in Nat /\ Cardinality(s) # 0
         /\ IsFiniteSet(s \ {Some(s)}) /\ Cardinality(s \ {Some(s)}) = Cardinality(s) - 1
<1>1. Some(s) \in s
  BY DEF Some
<1> QED
  BY <1>1, FS_RemoveElement, FS_CardinalityType, FS_EmptySet

\* Such sums exist for a finite set: they are found by the sizes of its subsets.
LEMMA SumsExist ==
  ASSUME NEW U, NEW S \in SUBSET U, IsFiniteSet(S), NEW f \in [U -> Int]
  PROVE  \E sums \in [SUBSET S -> Int] : SumsUp(f, S, sums)
<1> DEFINE A == [SUBSET S -> Int]
           N == Cardinality(S)
           zero == [s \in SUBSET S |-> 0]
           Grown(g) == [s \in SUBSET S |-> IF s = {} THEN 0 ELSE f[Some(s)] + g[s \ {Some(s)}]]
           step == [p \in A \X Nat |-> Grown(p[1])]
<1>1. N \in Nat
  BY FS_CardinalityType
<1>2. ASSUME NEW s \in SUBSET S, s # {}
      PROVE  /\ Some(s) \in s /\ f[Some(s)] \in Int /\ s \ {Some(s)} \in SUBSET S
             /\ Cardinality(s) \in Nat /\ Cardinality(s) # 0
             /\ Cardinality(s \ {Some(s)}) = Cardinality(s) - 1
  <2>1. IsFiniteSet(s)
    BY FS_Subset
  <2> QED
    BY <1>2, <2>1, SmallerSet
<1>3. ASSUME NEW g \in A PROVE Grown(g) \in A
  <2>1. ASSUME NEW s \in SUBSET S, s # {} PROVE f[Some(s)] + g[s \ {Some(s)}] \in Int
    <3>1. f[Some(s)] \in Int /\ g[s \ {Some(s)}] \in Int
      BY <1>2, <2>1
    <3> QED
      BY <3>1
  <2> QED
    BY <2>1
<1>4. step \in [A \X Nat -> A] /\ zero \in A
  <2> HIDE DEF A, Grown
  <2>1. \A p \in A \X Nat : p[1] \in A
    OBVIOUS
  <2>2. step \in [A \X Nat -> A]
    BY <1>3, <2>1
  <2>3. zero \in A
    BY DEF A
  <2> QED
    BY <2>2, <2>3
<1>5. PICK h \in [0 .. N + 1 -> A] :
        h[0] = zero /\ \A i \in 1 .. N + 1 : h[i] = step[<<h[i - 1], i>>]
  <2> DEFINE M == N + 1
  <2>1. M \in Nat
    BY <1>1
  <2> HIDE DEF A, step, zero, M
  <2>2. \E h \in [0 .. M -> A] : StepByStep(h, M, zero, step)
    BY <1>4, <2>1, StepsDefineFunction
  <2> QED
    BY <2>2 DEF M, StepByStep
<1>6. \A i \in 1 .. N + 1 : h[i] = Grown(h[i - 1])
  <2> TAKE i \in 1 .. N + 1
  <2> HIDE DEF A, Grown, N
  <2>1. <<h[i - 1], i>> \in A \X Nat
    BY <1>1
  <2> QED
    BY <1>5, <2>1
<1> DEFINE Settled ==
      {n \in Nat : n <= N => \A s \in SUBSET S : Cardinality(s) <= n =>
        h[n][s] = h[n + 1][s]}
<1> HIDE DEF N, step
<1>7. 0 \in Settled
  <2> SUFFICES ASSUME NEW s \in SUBSET S, Cardinality(s) <= 0 PROVE h[0][s] = h[0 + 1][s]
    OBVIOUS
  <2>1. s = {}
    <3>1. IsFiniteSet(s)
      BY FS_Subset
    <3>2. Cardinality(s) \in Nat
      BY <3>1, FS_CardinalityType
    <3>3. Cardinality(s) = 0
      BY <3>2
    <3> QED
      BY <3>1, <3>3, FS_EmptySet
  <2>2. h[0 + 1] = Grown(h[0])
    <3>1. 1 \in 1 .. N + 1 /\ 0 + 1 = 1 /\ 1 - 1 = 0
      BY <1>1
    <3> HIDE DEF Grown
    <3> QED
      BY <1>6, <3>1
  <2>3. h[0][s] = 0
    BY <1>5
  <2>4. h[0 + 1][s] = 0
    BY <2>1, <2>2
  <2> QED
    BY <2>3, <2>4
<1>8. ASSUME NEW n \in Nat, n \in Settled PROVE n + 1 \in Settled
  <2> SUFFICES ASSUME n + 1 <= N, NEW s \in SUBSET S, Cardinality(s) <= n + 1
               PROVE  h[n + 1][s] = h[(n + 1) + 1][s]
    OBVIOUS
  <2>1. h[n + 1] = Grown(h[n]) /\ h[(n + 1) + 1] = Grown(h[n + 1])
    <3>1. n + 1 \in 1 .. N + 1 /\ (n + 1) + 1 \in 1 .. N + 1
      BY <1>1
    <3>2. (n + 1) - 1 = n /\ ((n + 1) + 1) - 1 = n + 1
      OBVIOUS
    <3> HIDE DEF Grown
    <3> QED
      BY <1>6, <3>1, <3>2
  <2>2. CASE s = {}
    BY <2>1, <2>2
  <2>3. CASE s # {}
    <3>1. h[n][s \ {Some(s)}] = h[n + 1][s \ {Some(s)}]
      <4>1. Cardinality(s \ {Some(s)}) <= n /\ n <= N /\ s \ {Some(s)} \in SUBSET S
        BY <1>1, <1>2, <2>3
      <4> QED
        BY <1>8, <4>1
    <3> QED
      BY <2>1, <2>3, <3>1
  <2> QED
    BY <2>2, <2>3
<1>9. N \in Settled
  <2> HIDE DEF Settled
  <2> QED
    BY <1>1, <1>7, <1>8, AllNumbers
<1>10. h[N] = h[N + 1]
  <2>1. \A s \in SUBSET S : h[N][s] = h[N + 1][s]
    <3> TAKE s \in SUBSET S
    <3>1. Cardinality(s) <= N
      BY FS_Subset DEF N
    <3> QED
      BY <1>1, <1>9, <3>1
  <2>2. h[N] \in A /\ h[N + 1] \in A
    <3> HIDE DEF A
    <3> QED
      BY <1>1
  <2> QED
    BY <2>1, <2>2
<1>11. h[N + 1] = Grown(h[N])
  <2> HIDE DEF Grown
  <2>1. N + 1 \in 1 .. N + 1 /\ (N + 1) - 1 = N
    BY <1>1
  <2> QED
    BY <1>6, <2>1
<1>12. h[N] \in A
  <2> HIDE DEF A
  <2> QED
    BY <1>1
<1> QED
  BY <1>10, <1>11, <1>12 DEF SumsUp

\* Two of them agree on the finite sets that they both sum over.
LEMMA SumsAgree ==
  ASSUME NEW f, NEW S, NEW T, NEW p, SumsUp(f, S, p), NEW q, SumsUp(f, T, q),
         NEW s \in SUBSET (S \cap T), IsFiniteSet(s)
  PROVE  p[s] = q[s]
<1> DEFINE Agreed ==
      {n \in Nat : \A r \in SUBSET (S \cap T) : IsFiniteSet(r)
      /\ Cardinality(r) = n => p[r] = q[r]}
<1>1. \A r \in SUBSET (S \cap T) :
        /\ p[r] = IF r = {} THEN 0 ELSE f[Some(r)] + p[r \ {Some(r)}]
        /\ q[r] = IF r = {} THEN 0 ELSE f[Some(r)] + q[r \ {Some(r)}]
  BY DEF SumsUp
<1>2. 0 \in Agreed
  BY <1>1, FS_EmptySet
<1>3. ASSUME NEW n \in Nat, n \in Agreed PROVE n + 1 \in Agreed
  <2> SUFFICES ASSUME NEW r \in SUBSET (S \cap T), IsFiniteSet(r), Cardinality(r) = n + 1
               PROVE  p[r] = q[r]
    OBVIOUS
  <2>1. r # {}
    BY FS_EmptySet
  <2>2. IsFiniteSet(r \ {Some(r)}) /\ Cardinality(r \ {Some(r)}) = Cardinality(r) - 1
    BY <2>1, SmallerSet
  <2>3. Cardinality(r \ {Some(r)}) = n
    BY <2>2
  <2>4. p[r \ {Some(r)}] = q[r \ {Some(r)}]
    BY <1>3, <2>2, <2>3
  <2> QED
    BY <1>1, <2>1, <2>4
<1>4. Nat \subseteq Agreed
  <2> HIDE DEF Agreed
  <2> QED
    BY <1>2, <1>3, AllNumbers
<1> QED
  BY <1>4, FS_CardinalityType

\* A sum is that of the smaller set and one element more.
LEMMA SumStep ==
  ASSUME NEW U, NEW S \in SUBSET U, IsFiniteSet(S), NEW f \in [U -> Int]
  PROVE  /\ SumFunctionOnSet(f, S) \in Int
         /\ SumFunctionOnSet(f, S) =
              IF S = {} THEN 0 ELSE f[Some(S)] + SumFunctionOnSet(f, S \ {Some(S)})
<1> DEFINE Solution(T) == CHOOSE sums : SumsUp(f, T, sums)
<1>1. ASSUME NEW T \in SUBSET S
      PROVE  /\ IsFiniteSet(T) /\ SumsUp(f, T, Solution(T))
             /\ SumFunctionOnSet(f, T) = Solution(T)[T]
  <2>1. IsFiniteSet(T) /\ T \in SUBSET U
    BY FS_Subset
  <2>2. \E sums : SumsUp(f, T, sums)
    BY <2>1, SumsExist
  <2> QED
    BY <2>1, <2>2, SumIsChosen
<1>2. PICK p \in [SUBSET S -> Int] : SumsUp(f, S, p)
  BY SumsExist
<1>3. ASSUME NEW T \in SUBSET S PROVE SumFunctionOnSet(f, T) = p[T]
  <2>1. T \in SUBSET (T \cap S)
    OBVIOUS
  <2> HIDE DEF Solution
  <2> QED
    BY <1>1, <1>2, <2>1, SumsAgree
<1>4. p[S] = IF S = {} THEN 0 ELSE f[Some(S)] + p[S \ {Some(S)}]
  BY <1>2 DEF SumsUp
<1> QED
  BY <1>2, <1>3, <1>4

\* Nothing sums up to nothing.
LEMMA SumOfNothing ==
  ASSUME NEW U, NEW f \in [U -> Int]
  PROVE  SumFunctionOnSet(f, {}) = 0
  BY FS_EmptySet, SumStep

CountsApart(f, S, x) ==
  SumFunctionOnSet(f, S) = f[x] + SumFunctionOnSet(f, S \ {x})

\* Any element may be counted first.
LEMMA SumWithout ==
  ASSUME NEW U, NEW S \in SUBSET U, IsFiniteSet(S), NEW f \in [U -> Int], NEW x \in S
  PROVE  CountsApart(f, S, x)
<1> DEFINE SumOver(s) == SumFunctionOnSet(f, s)
           Free == {n \in Nat : \A s \in SUBSET S : Cardinality(s) = n =>
                                  \A y \in s : SumOver(s) = f[y] + SumOver(s \ {y})}
<1>1. ASSUME NEW s \in SUBSET S, s # {}
      PROVE  /\ SumOver(s) = f[Some(s)] + SumOver(s \ {Some(s)}) /\ Some(s) \in s
             /\ Cardinality(s) \in Nat /\ IsFiniteSet(s)
             /\ \A y \in s : Cardinality(s \ {y}) = Cardinality(s) - 1
  <2>1. IsFiniteSet(s) /\ s \in SUBSET U
    BY FS_Subset
  <2>2. \A y \in s : Cardinality(s \ {y}) = Cardinality(s) - 1
    BY <2>1, FS_RemoveElement
  <2> HIDE DEF SumOver
  <2>3. SumOver(s) = f[Some(s)] + SumOver(s \ {Some(s)})
    BY <1>1, <2>1, SumStep DEF SumOver
  <2> QED
    BY <1>1, <2>1, <2>2, <2>3, SmallerSet
<1>2. \A s \in SUBSET S : SumOver(s) \in Int
  <2> TAKE s \in SUBSET S
  <2>1. IsFiniteSet(s) /\ s \in SUBSET U
    BY FS_Subset
  <2> QED
    BY <2>1, SumStep
<1> HIDE DEF SumOver
<1>3. 0 \in Free
  <2> SUFFICES ASSUME NEW s \in SUBSET S, Cardinality(s) = 0, NEW y \in s PROVE FALSE
    OBVIOUS
  <2> QED
    BY <1>1, FS_EmptySet
<1>4. ASSUME NEW n \in Nat, n \in Free PROVE n + 1 \in Free
  <2> SUFFICES ASSUME NEW s \in SUBSET S, Cardinality(s) = n + 1, NEW y \in s
               PROVE  SumOver(s) = f[y] + SumOver(s \ {y})
    OBVIOUS
  <2> DEFINE c == Some(s)
  <2>1. /\ SumOver(s) = f[c] + SumOver(s \ {c}) /\ c \in s
        /\ Cardinality(s \ {c}) = n /\ Cardinality(s \ {y}) = n
    <3>1. s # {}
      OBVIOUS
    <3>2. (n + 1) - 1 = n
      OBVIOUS
    <3> QED
      BY <1>1, <3>1, <3>2
  <2> HIDE DEF c
  <2>2. CASE y = c
    BY <2>1, <2>2
  <2>3. CASE y # c
    <3>1. y \in s \ {c} /\ c \in s \ {y} /\ (s \ {c}) \ {y} = (s \ {y}) \ {c}
      BY <2>1, <2>3
    <3>2. SumOver(s \ {c}) = f[y] + SumOver((s \ {c}) \ {y})
      BY <1>4, <2>1, <3>1
    <3>3. SumOver(s \ {y}) = f[c] + SumOver((s \ {y}) \ {c})
      BY <1>4, <2>1, <3>1
    <3>4. f[y] \in Int /\ f[c] \in Int /\ SumOver((s \ {y}) \ {c}) \in Int
      BY <1>2, <2>1
    <3>5. SumOver(s) = f[c] + (f[y] + SumOver((s \ {y}) \ {c}))
      BY <2>1, <3>1, <3>2
    <3> QED
      BY <3>3, <3>4, <3>5
  <2> QED
    BY <2>2, <2>3
<1>5. Nat \subseteq Free
  <2> HIDE DEF Free
  <2> QED
    BY <1>3, <1>4, AllNumbers
<1>6. S \in SUBSET S /\ Cardinality(S) \in Nat
  BY FS_CardinalityType
<1> QED
  BY <1>5, <1>6 DEF SumOver, CountsApart

\* A sum over the images of an injection.
LEMMA SumOfImages ==
  ASSUME NEW S, IsFiniteSet(S), NEW T, NEW f \in [T -> Int], NEW g \in [S -> T],
         \A x, y \in S : g[x] = g[y] => x = y
  PROVE  SumFunctionOnSet(f, {g[x] : x \in S}) = SumFunctionOnSet([x \in S |-> f[g[x]]], S)
<1> DEFINE h == [x \in S |-> f[g[x]]]
           Image(s) == {g[x] : x \in s}
           Equal == {n \in Nat : \A s \in SUBSET S : Cardinality(s) = n =>
                                   /\ IsFiniteSet(Image(s))
                                   /\ SumFunctionOnSet(f, Image(s)) = SumFunctionOnSet(h,
                                        s)}
<1>1. h \in [S -> Int]
  OBVIOUS
<1>2. 0 \in Equal
  <2> SUFFICES ASSUME NEW s \in SUBSET S, Cardinality(s) = 0
               PROVE  /\ IsFiniteSet(Image(s))
                      /\ SumFunctionOnSet(f, Image(s)) = SumFunctionOnSet(h, s)
    OBVIOUS
  <2>1. s = {} /\ Image(s) = {}
    BY FS_Subset, FS_EmptySet
  <2> HIDE DEF h
  <2> QED
    BY <1>1, <2>1, SumOfNothing, FS_EmptySet
<1>3. ASSUME NEW n \in Nat, n \in Equal PROVE n + 1 \in Equal
  <2> SUFFICES ASSUME NEW s \in SUBSET S, Cardinality(s) = n + 1
               PROVE  /\ IsFiniteSet(Image(s))
                      /\ SumFunctionOnSet(f, Image(s)) = SumFunctionOnSet(h, s)
    OBVIOUS
  <2>1. IsFiniteSet(s)
    BY FS_Subset
  <2>2. s # {}
    BY <2>1, FS_EmptySet
  <2>3. PICK x : x \in s
    BY <2>2
  <2>4. Cardinality(s \ {x}) = n /\ s \ {x} \in SUBSET S
    <3>1. Cardinality(s \ {x}) = Cardinality(s) - 1
      BY <2>1, <2>3, FS_RemoveElement
    <3> QED
      BY <3>1
  <2>5. /\ IsFiniteSet(Image(s \ {x}))
        /\ SumFunctionOnSet(f, Image(s \ {x})) = SumFunctionOnSet(h, s \ {x})
    BY <1>3, <2>4
  <2>6. SumFunctionOnSet(h, s) = h[x] + SumFunctionOnSet(h, s \ {x})
    <3>1. x \in s /\ IsFiniteSet(s) /\ s \in SUBSET S
      BY <2>1, <2>3
    <3> HIDE DEF h
    <3>2. CountsApart(h, s, x)
      BY <1>1, <3>1, SumWithout
    <3> QED
      BY <3>2 DEF CountsApart
  <2>7. /\ Image(s) \in SUBSET T /\ IsFiniteSet(Image(s)) /\ g[x] \in Image(s)
        /\ Image(s) \ {g[x]} = Image(s \ {x})
    <3>1. Image(s) = Image(s \ {x}) \cup {g[x]}
      BY <2>3
    <3>2. IsFiniteSet(Image(s))
      <4> HIDE DEF Image
      <4>1. IsFiniteSet(Image(s \ {x}) \cup {g[x]})
        BY ONLY <2>5, FS_AddElement
      <4> QED
        BY <3>1, <4>1
    <3>3. Image(s) \ {g[x]} = Image(s \ {x})
      BY <2>3
    <3> QED
      BY <2>3, <3>2, <3>3
  <2>8. SumFunctionOnSet(f, Image(s)) = f[g[x]] + SumFunctionOnSet(f, Image(s) \ {g[x]})
    <3> HIDE DEF Image
    <3>1. CountsApart(f, Image(s), g[x])
      BY <2>7, SumWithout
    <3> QED
      BY <3>1 DEF CountsApart
  <2> QED
    BY <2>3, <2>5, <2>6, <2>7, <2>8
<1>4. Nat \subseteq Equal
  <2> HIDE DEF Equal
  <2> QED
    BY <1>2, <1>3, AllNumbers
<1> QED
  BY <1>4, FS_CardinalityType

\* A sum of positive numbers.
LEMMA SumIsPositive ==
  ASSUME NEW S, IsFiniteSet(S), S # {}, NEW f \in [S -> Nat \ {0}]
  PROVE  SumFunctionOnSet(f, S) >= 1
<1> DEFINE Low == {n \in Nat : \A s \in SUBSET S : Cardinality(s) = n =>
             SumFunctionOnSet(f, s) >= n}
<1>1. f \in [S -> Int]
  OBVIOUS
<1>2. 0 \in Low
  <2> SUFFICES ASSUME NEW s \in SUBSET S, Cardinality(s) = 0 PROVE SumFunctionOnSet(f,
                        s) >= 0
    OBVIOUS
  <2>1. s = {}
    BY FS_Subset, FS_EmptySet
  <2>2. SumFunctionOnSet(f, {}) = 0
    BY <1>1, SumOfNothing
  <2> QED
    BY <2>1, <2>2
<1>3. ASSUME NEW n \in Nat, n \in Low PROVE n + 1 \in Low
  <2> SUFFICES ASSUME NEW s \in SUBSET S, Cardinality(s) = n + 1
               PROVE  SumFunctionOnSet(f, s) >= n + 1
    OBVIOUS
  <2>1. IsFiniteSet(s) /\ s # {}
    BY FS_Subset, FS_EmptySet
  <2>2. PICK x : x \in s
    BY <2>1
  <2>3. Cardinality(s \ {x}) = n /\ s \ {x} \in SUBSET S /\ IsFiniteSet(s \ {x})
    <3>1. Cardinality(s \ {x}) = Cardinality(s) - 1 /\ IsFiniteSet(s \ {x})
      BY <2>1, <2>2, FS_RemoveElement
    <3> QED
      BY <3>1
  <2>4. SumFunctionOnSet(f, s) = f[x] + SumFunctionOnSet(f, s \ {x})
    <3>1. CountsApart(f, s, x)
      BY <1>1, <2>1, <2>2, SumWithout
    <3> QED
      BY <3>1 DEF CountsApart
  <2>5. SumFunctionOnSet(f, s \ {x}) >= n
    BY <1>3, <2>3
  <2>6. SumFunctionOnSet(f, s \ {x}) \in Int
    BY <1>1, <2>3, SumStep
  <2> QED
    BY <2>2, <2>4, <2>5, <2>6
<1>4. Nat \subseteq Low
  <2> HIDE DEF Low
  <2> QED
    BY <1>2, <1>3, AllNumbers
<1>5. Cardinality(S) \in Nat /\ Cardinality(S) # 0
  BY FS_CardinalityType, FS_EmptySet
<1>6. SumFunctionOnSet(f, S) >= Cardinality(S) /\ SumFunctionOnSet(f, S) \in Int
  BY <1>1, <1>4, <1>5, SumStep
<1> QED
  BY <1>5, <1>6

-----------------------------------------------------------------------------
(* What KeepOnly keeps.                                                    *)

IsWalk(upTo, s, kept) ==
  upTo = [n \in 0 .. Len(s) |->
            IF n = 0 THEN <<>>
            ELSE IF s[n] \in kept THEN Append(upTo[n - 1], s[n]) ELSE upTo[n - 1]]

\* What is kept of the first n elements.
KeptUpTo(s, kept, n) == (CHOOSE upTo : IsWalk(upTo, s, kept))[n]

\* What is kept is what is kept of all elements.
LEMMA KeepOnlyIsKept ==
  ASSUME NEW s, NEW kept
  PROVE  KeepOnly(s, kept) = KeptUpTo(s, kept, Len(s))
  BY Zenon DEF KeepOnly, KeptUpTo, IsWalk

KeepsNext(s, kept, n) ==
  KeptUpTo(s, kept, n + 1) = IF s[n + 1] \in kept THEN Append(KeptUpTo(s, kept, n),
    s[n + 1])
                             ELSE KeptUpTo(s, kept, n)

\* It starts with nothing and grows by an element that is kept.
LEMMA KeptStep ==
  ASSUME NEW S, NEW s \in Seq(S), NEW kept
  PROVE  /\ KeptUpTo(s, kept, 0) = <<>>
         /\ \A n \in 0 .. Len(s) : KeptUpTo(s, kept, n) \in Seq(S)
         /\ \A n \in Nat : n + 1 <= Len(s) => KeepsNext(s, kept, n)
<1> DEFINE N == Len(s)
           Grow(r, n) == IF n \in 1 .. Len(s) /\ s[n] \in kept THEN Append(r, s[n]) ELSE r
           step == [p \in Seq(S) \X Nat |-> Grow(p[1], p[2])]
           W(u) == IsWalk(u, s, kept)
<1>1. N \in Nat /\ <<>> \in Seq(S)
  OBVIOUS
<1>2. step \in [Seq(S) \X Nat -> Seq(S)]
  OBVIOUS
<1>3. PICK f \in [0 .. N -> Seq(S)] : StepByStep(f, N, <<>>, step)
  <2> HIDE DEF N, step
  <2> QED
    BY <1>1, <1>2, StepsDefineFunction
<1>4. ASSUME NEW n \in 1 .. Len(s)
      PROVE  f[n] = IF s[n] \in kept THEN Append(f[n - 1], s[n]) ELSE f[n - 1]
  <2>1. f[n] = step[<<f[n - 1], n>>]
    BY <1>3 DEF StepByStep
  <2>2. f[n - 1] \in Seq(S) /\ n \in Nat
    OBVIOUS
  <2> QED
    BY <2>1, <2>2
<1>5. W(f)
  <2>1. f[0] = <<>>
    BY <1>3 DEF StepByStep
  <2>2. ASSUME NEW n \in 0 .. Len(s)
        PROVE  f[n] = IF n = 0 THEN <<>>
                      ELSE IF s[n] \in kept THEN Append(f[n - 1], s[n]) ELSE f[n - 1]
    <3>1. n = 0 \/ n \in 1 .. Len(s)
      OBVIOUS
    <3> HIDE DEF step
    <3> QED
      BY <1>4, <2>1, <3>1
  <2>3. f = [n \in 0 .. Len(s) |-> f[n]]
    OBVIOUS
  <2> HIDE DEF step
  <2> QED
    BY <2>2, <2>3, Zenon DEF IsWalk
<1> DEFINE u == CHOOSE u : W(u)
<1>6. W(u)
  <2> HIDE DEF W
  <2> QED
    BY <1>5
<1>7. \A n \in 0 .. Len(s) : KeptUpTo(s, kept, n) = u[n]
  BY DEF KeptUpTo
<1> HIDE DEF u
<1>8. \A n \in 0 .. Len(s) :
        u[n] = IF n = 0 THEN <<>>
               ELSE IF s[n] \in kept THEN Append(u[n - 1], s[n]) ELSE u[n - 1]
  BY <1>6 DEF IsWalk
<1> DEFINE Typed == {n \in Nat : n <= Len(s) => u[n] \in Seq(S)}
<1>9. 0 \in Typed
  <2>1. 0 \in 0 .. Len(s)
    OBVIOUS
  <2>2. u[0] = <<>>
    BY <1>8, <2>1
  <2> QED
    BY <1>1, <2>2
<1>10. ASSUME NEW n \in Nat, n \in Typed PROVE n + 1 \in Typed
  <2> SUFFICES ASSUME n + 1 <= Len(s) PROVE u[n + 1] \in Seq(S)
    OBVIOUS
  <2>1. u[n] \in Seq(S) /\ n + 1 \in 1 .. Len(s) /\ (n + 1) - 1 = n /\ n + 1 \in 0 .. Len(s)
    BY <1>10
  <2>2. s[n + 1] \in S
    BY <2>1
  <2>3. u[n + 1] = IF s[n + 1] \in kept THEN Append(u[n], s[n + 1]) ELSE u[n]
    BY <1>8, <2>1
  <2> QED
    BY <2>1, <2>2, <2>3
<1>11. Nat \subseteq Typed
  <2> HIDE DEF Typed
  <2> QED
    BY <1>9, <1>10, AllNumbers
<1> QED
  <2>1. \A n \in 1 .. Len(s) : n - 1 \in 0 .. Len(s) /\ n \in 0 .. Len(s) /\ n # 0
    OBVIOUS
  <2>2. 0 \in 0 .. Len(s)
    OBVIOUS
  <2>3. KeptUpTo(s, kept, 0) = <<>>
    BY <1>7, <1>8, <2>2
  <2>4. \A n \in 0 .. Len(s) : KeptUpTo(s, kept, n) \in Seq(S)
    BY <1>7, <1>11
  <2>5. ASSUME NEW n \in Nat, n + 1 <= Len(s) PROVE KeepsNext(s, kept, n)
    <3>1. n + 1 \in 0 .. Len(s) /\ n \in 0 .. Len(s) /\ n + 1 # 0 /\ (n + 1) - 1 = n
      BY <2>5
    <3>2. u[n + 1] = IF s[n + 1] \in kept THEN Append(u[n], s[n + 1]) ELSE u[n]
      BY <1>8, <3>1
    <3>3. KeptUpTo(s, kept, n + 1) = u[n + 1] /\ KeptUpTo(s, kept, n) = u[n]
      BY <1>7, <3>1
    <3> QED
      BY <3>2, <3>3 DEF KeepsNext
  <2> QED
    BY <2>3, <2>4, <2>5

\* The next element, of a known type.
LEMMA KeptNext ==
  ASSUME NEW S, NEW s \in Seq(S), NEW kept, NEW n \in Nat, n + 1 <= Len(s)
  PROVE  KeepsNext(s, kept, n) /\ KeptUpTo(s, kept, n) \in Seq(S) /\ s[n + 1] \in S
<1>1. KeepsNext(s, kept, n)
  BY KeptStep
<1>2. n \in 0 .. Len(s) /\ n + 1 \in 1 .. Len(s)
  OBVIOUS
<1>3. KeptUpTo(s, kept, n) \in Seq(S)
  BY <1>2, KeptStep
<1>4. s[n + 1] \in S
  BY <1>2
<1> QED
  BY <1>1, <1>3, <1>4

\* Sequences that are alike, and sets that are for their elements.
LEMMA KeptAlike ==
  ASSUME NEW S, NEW s \in Seq(S), NEW T, NEW t \in Seq(T), NEW K, NEW L,
         NEW n \in Nat, n <= Len(s), n <= Len(t),
         \A i \in 1 .. n : s[i] = t[i] /\ (s[i] \in K <=> t[i] \in L)
  PROVE  KeptUpTo(s, K, n) = KeptUpTo(t, L, n)
<1> DEFINE Alike == {i \in Nat : i <= n => KeptUpTo(s, K, i) = KeptUpTo(t, L, i)}
<1>1. 0 \in Alike
  BY KeptStep
<1>2. ASSUME NEW i \in Nat, i \in Alike PROVE i + 1 \in Alike
  <2> SUFFICES ASSUME i + 1 <= n PROVE KeptUpTo(s, K, i + 1) = KeptUpTo(t, L, i + 1)
    OBVIOUS
  <2>1. /\ i + 1 \in 1 .. n /\ i + 1 \in 1 .. Len(s) /\ i + 1 \in 1 .. Len(t)
        /\ i + 1 <= Len(s) /\ i + 1 <= Len(t) /\ KeptUpTo(s, K, i) = KeptUpTo(t, L, i)
    BY <1>2
  <2>2. KeepsNext(s, K, i) /\ KeepsNext(t, L, i)
    BY <2>1, KeptNext
  <2> QED
    BY <2>1, <2>2 DEF KeepsNext
<1>3. Nat \subseteq Alike
  <2> HIDE DEF Alike
  <2> QED
    BY <1>1, <1>2, AllNumbers
<1> QED
  BY <1>3

\* The elements that are kept, and how many they are at most.
LEMMA KeptElements ==
  ASSUME NEW S, NEW s \in Seq(S), NEW K, NEW n \in Nat, n <= Len(s)
  PROVE  /\ ToSet(KeptUpTo(s, K, n)) = {s[i] : i \in 1 .. n} \cap K
         /\ Len(KeptUpTo(s, K, n)) <= n
<1> DEFINE E(i) == {s[j] : j \in 1 .. i} \cap K
           Listed == {i \in Nat : i <= n => /\ ToSet(KeptUpTo(s, K, i)) = E(i)
                                            /\ Len(KeptUpTo(s, K, i)) <= i}
<1>1. 0 \in Listed
  <2>1. KeptUpTo(s, K, 0) = <<>>
    BY KeptStep
  <2>2. E(0) = {}
    OBVIOUS
  <2>3. Len(KeptUpTo(s, K, 0)) = 0
    BY <2>1
  <2>4. ToSet(KeptUpTo(s, K, 0)) = {}
    BY <2>1 DEF ToSet
  <2> HIDE DEF E
  <2>5. Len(KeptUpTo(s, K, 0)) <= 0
    BY <2>3
  <2> QED
    BY <2>2, <2>4, <2>5
<1>2. ASSUME NEW i \in Nat, i \in Listed PROVE i + 1 \in Listed
  <2> SUFFICES ASSUME i + 1 <= n
               PROVE  /\ ToSet(KeptUpTo(s, K, i + 1)) = E(i + 1)
                      /\ Len(KeptUpTo(s, K, i + 1)) <= i + 1
    OBVIOUS
  <2> DEFINE r == KeptUpTo(s, K, i)
  <2>1. /\ i + 1 \in 1 .. Len(s) /\ (i + 1) - 1 = i /\ i + 1 <= Len(s) /\ i \in 0 .. Len(s)
        /\ ToSet(r) = E(i) /\ Len(r) <= i
    BY <1>2
  <2>2. KeptUpTo(s, K, i + 1) = IF s[i + 1] \in K THEN Append(r, s[i + 1]) ELSE r
    BY <2>1, KeptNext DEF KeepsNext
  <2>3. r \in Seq(S)
    BY <2>1, KeptNext
  <2>4. E(i + 1) = IF s[i + 1] \in K THEN E(i) \cup {s[i + 1]} ELSE E(i)
    <3>1. 1 .. i + 1 = 1 .. i \cup {i + 1}
      OBVIOUS
    <3> QED
      BY <3>1
  <2> HIDE DEF r, E
  <2>5. /\ ToSet(Append(r, s[i + 1])) = ToSet(r) \cup {s[i + 1]}
        /\ Len(Append(r, s[i + 1])) = Len(r) + 1
    <3>1. s[i + 1] \in S
      BY <2>1
    <3> HIDE DEF r
    <3> DEFINE x == s[i + 1]
               a == Append(r, x)
    <3> HIDE DEF x
    <3>2. DOMAIN a = DOMAIN r \cup {Len(r) + 1} /\ a[Len(r) + 1] = x
          /\ \A j \in DOMAIN r : a[j] = r[j]
      BY <2>3, <3>1 DEF x
    <3>3. Len(a) = Len(r) + 1
      BY <2>3, <3>1 DEF x
    <3> HIDE DEF a
    <3>4. ToSet(a) = ToSet(r) \cup {x}
      BY <3>2 DEF ToSet
    <3> QED
      BY <3>3, <3>4 DEF a, x
  <2>6. Len(r) \in Nat
    BY <2>3
  <2>7. CASE s[i + 1] \in K
    <3>1. KeptUpTo(s, K, i + 1) = Append(r, s[i + 1]) /\ E(i + 1) = E(i) \cup {s[i + 1]}
      BY <2>2, <2>4, <2>7
    <3>2. Len(r) + 1 <= i + 1
      BY <2>1, <2>6
    <3> QED
      BY <2>1, <2>5, <3>1, <3>2
  <2>8. CASE s[i + 1] \notin K
    BY <2>1, <2>2, <2>4, <2>6, <2>8
  <2> QED
    BY <2>7, <2>8
<1>3. Nat \subseteq Listed
  <2> HIDE DEF Listed
  <2> QED
    BY <1>1, <1>2, AllNumbers
<1> QED
  BY <1>3

\* Nothing is kept twice of a sequence without repetition.
LEMMA KeptInjective ==
  ASSUME NEW S, NEW s \in Seq(S), IsInjective(s), NEW K, NEW n \in Nat, n <= Len(s)
  PROVE  IsInjective(KeptUpTo(s, K, n))
<1> DEFINE Single == {i \in Nat : i <= n => IsInjective(KeptUpTo(s, K, i))}
<1>1. 0 \in Single
  <2>1. KeptUpTo(s, K, 0) = <<>>
    BY KeptStep
  <2> QED
    BY <2>1 DEF IsInjective
<1>2. ASSUME NEW i \in Nat, i \in Single PROVE i + 1 \in Single
  <2> SUFFICES ASSUME i + 1 <= n PROVE IsInjective(KeptUpTo(s, K, i + 1))
    OBVIOUS
  <2> DEFINE r == KeptUpTo(s, K, i)
             x == s[i + 1]
             a == Append(r, x)
  <2>1. /\ i + 1 \in 1 .. Len(s) /\ (i + 1) - 1 = i /\ i + 1 <= Len(s)
           /\ i \in 0 .. Len(s) /\ i <= Len(s)
        /\ IsInjective(r)
    BY <1>2
  <2>2. KeptUpTo(s, K, i + 1) = IF x \in K THEN a ELSE r
    BY <2>1, KeptNext DEF KeepsNext
  <2>3. r \in Seq(S) /\ x \in S
    BY <2>1, KeptNext
  <2>4. x \notin ToSet(r)
    <3>1. ToSet(r) \subseteq {s[j] : j \in 1 .. i}
      BY <2>1, KeptElements
    <3>2. \A j \in 1 .. i : s[j] # x
      BY <2>1 DEF IsInjective
    <3> QED
      BY <3>1, <3>2
  <2> HIDE DEF r, x
  <2>5. /\ DOMAIN a = DOMAIN r \cup {Len(r) + 1} /\ a[Len(r) + 1] = x
        /\ \A j \in DOMAIN r : a[j] = r[j] /\ r[j] # x
    BY <2>3, <2>4 DEF ToSet
  <2> HIDE DEF a
  <2>6. IsInjective(a)
    BY <2>1, <2>5 DEF IsInjective
  <2> QED
    BY <2>1, <2>2, <2>6
<1>3. Nat \subseteq Single
  <2> HIDE DEF Single
  <2> QED
    BY <1>1, <1>2, AllNumbers
<1> QED
  BY <1>3

\* What is kept of a longer sequence.
LEMMA KeepOnlyAppend ==
  ASSUME NEW S, NEW r \in Seq(S), NEW x \in S, NEW K
  PROVE  KeepOnly(Append(r, x), K) = IF x \in K THEN Append(KeepOnly(r, K),
           x) ELSE KeepOnly(r, K)
<1> DEFINE a == Append(r, x)
           m == Len(r)
<1>1. /\ a \in Seq(S) /\ Len(a) = m + 1 /\ a[m + 1] = x /\ m \in Nat
      /\ \A i \in 1 .. m : a[i] = r[i]
  OBVIOUS
<1> HIDE DEF a
<1>2. KeptUpTo(a, K, m) = KeptUpTo(r, K, m)
  <2> HIDE DEF m
  <2>1. m <= Len(a) /\ m <= Len(r)
    BY <1>1 DEF m
  <2> QED
    BY <1>1, <2>1, KeptAlike
<1>3. KeepsNext(a, K, m)
  BY <1>1, KeptNext
<1>4. KeepOnly(r, K) = KeptUpTo(r, K, m) /\ KeepOnly(a, K) = KeptUpTo(a, K, m + 1)
  BY <1>1, KeepOnlyIsKept
<1> HIDE DEF m
<1> QED
  BY <1>1, <1>2, <1>3, <1>4 DEF KeepsNext, a

\* Keeping some of what was kept.
LEMMA KeptTwice ==
  ASSUME NEW S, NEW s \in Seq(S), NEW K, NEW L
  PROVE  KeepOnly(KeepOnly(s, K), L) = KeepOnly(s, K \cap L)
<1> DEFINE Both == {i \in Nat : i <= Len(s) =>
                      KeepOnly(KeptUpTo(s, K, i), L) = KeptUpTo(s, K \cap L, i)}
<1>1. 0 \in Both
  <2>1. KeptUpTo(s, K, 0) = <<>> /\ KeptUpTo(s, K \cap L, 0) = <<>>
    BY KeptStep
  <2>2. KeepOnly(<<>>, L) = KeptUpTo(<<>>, L, 0)
    <3>1. Len(<<>>) = 0
      OBVIOUS
    <3> QED
      BY <3>1, KeepOnlyIsKept
  <2>3. KeptUpTo(<<>>, L, 0) = <<>>
    <3>1. <<>> \in Seq(S)
      OBVIOUS
    <3> QED
      BY <3>1, KeptStep
  <2> QED
    BY <2>1, <2>2, <2>3
<1>2. ASSUME NEW i \in Nat, i \in Both PROVE i + 1 \in Both
  <2> SUFFICES ASSUME i + 1 <= Len(s)
               PROVE  KeepOnly(KeptUpTo(s, K, i + 1), L) = KeptUpTo(s, K \cap L, i + 1)
    OBVIOUS
  <2> DEFINE r == KeptUpTo(s, K, i)
             x == s[i + 1]
  <2>1. KeepsNext(s, K, i) /\ KeepsNext(s, K \cap L, i) /\ r \in Seq(S) /\ x \in S
    BY KeptNext
  <2>2. KeepOnly(r, L) = KeptUpTo(s, K \cap L, i)
    BY <1>2
  <2>3. KeptUpTo(s, K, i + 1) = IF x \in K THEN Append(r, x) ELSE r
    BY <2>1 DEF KeepsNext
  <2>4. KeptUpTo(s, K \cap L, i + 1) =
          IF x \in K \cap L THEN Append(KeepOnly(r, L), x) ELSE KeepOnly(r, L)
    BY <2>1, <2>2 DEF KeepsNext
  <2> HIDE DEF r, x
  <2>5. KeepOnly(Append(r, x), L) = IF x \in L THEN Append(KeepOnly(r, L),
          x) ELSE KeepOnly(r, L)
    BY <2>1, KeepOnlyAppend
  <2> QED
    BY <2>3, <2>4, <2>5
<1>3. Nat \subseteq Both
  <2> HIDE DEF Both
  <2> QED
    BY <1>1, <1>2, AllNumbers
<1>4. Len(s) \in Nat /\ Len(s) <= Len(s)
  OBVIOUS
<1>5. KeepOnly(KeptUpTo(s, K, Len(s)), L) = KeptUpTo(s, K \cap L, Len(s))
  BY <1>3, <1>4
<1> QED
  BY <1>5, KeepOnlyIsKept

\* What is kept: of the same type, the elements that are kept, and no longer.
LEMMA KeepOnlyType ==
  ASSUME NEW S, NEW s \in Seq(S), NEW K
  PROVE  /\ KeepOnly(s, K) \in Seq(S)
         /\ ToSet(KeepOnly(s, K)) = ToSet(s) \cap K
         /\ Len(KeepOnly(s, K)) <= Len(s)
         /\ IsInjective(s) => IsInjective(KeepOnly(s, K))
<1> DEFINE m == Len(s)
<1>1. m \in Nat /\ m <= Len(s) /\ m \in 0 .. Len(s)
  OBVIOUS
<1> HIDE DEF m
<1>2. KeepOnly(s, K) = KeptUpTo(s, K, m)
  BY KeepOnlyIsKept DEF m
<1>3. KeptUpTo(s, K, m) \in Seq(S)
  BY <1>1, KeptStep
<1>4. /\ ToSet(KeptUpTo(s, K, m)) = {s[i] : i \in 1 .. m} \cap K
      /\ Len(KeptUpTo(s, K, m)) <= m
  BY <1>1, KeptElements
<1>5. ToSet(s) = {s[i] : i \in 1 .. m}
  BY DEF ToSet, m
<1>6. IsInjective(s) => IsInjective(KeptUpTo(s, K, m))
  BY <1>1, KeptInjective
<1> QED
  BY <1>2, <1>3, <1>4, <1>5, <1>6 DEF m

\* Only what the set says of the elements matters.
LEMMA KeepOnlySame ==
  ASSUME NEW S, NEW s \in Seq(S), NEW K, NEW L, K \cap ToSet(s) = L \cap ToSet(s)
  PROVE  KeepOnly(s, K) = KeepOnly(s, L)
<1> DEFINE m == Len(s)
<1>1. m \in Nat /\ m <= Len(s)
  OBVIOUS
<1>2. \A i \in 1 .. m : s[i] = s[i] /\ (s[i] \in K <=> s[i] \in L)
  BY DEF ToSet
<1> HIDE DEF m
<1>3. KeptUpTo(s, K, m) = KeptUpTo(s, L, m)
  BY <1>1, <1>2, KeptAlike
<1> QED
  BY <1>3, KeepOnlyIsKept DEF m

-----------------------------------------------------------------------------
(* The behaviours that a discovery has found.                              *)

\* The strings, among them those that the program asks for help with.
Arguments == STRING \cup {"--help", "-h", "--version"}

ProbeType == [args : Arguments, safe : BOOLEAN]

\* The arguments of probes.
LEMMA ArgsOfType ==
  ASSUME NEW p \in Seq(ProbeType)
  PROVE  /\ ArgsOf(p) \in Seq(Arguments) /\ Len(ArgsOf(p)) = Len(p)
            /\ DOMAIN ArgsOf(p) = DOMAIN p
         /\ \A i \in 1 .. Len(p) : ArgsOf(p)[i] = p[i].args
         /\ ToSet(ArgsOf(p)) = {q.args : q \in ToSet(p)}
<1>1. \A i \in 1 .. Len(p) : p[i].args \in Arguments
  <2> TAKE i \in 1 .. Len(p)
  <2>1. p[i] \in ProbeType
    OBVIOUS
  <2> QED
    BY <2>1 DEF ProbeType
<1>2. DOMAIN p = 1 .. Len(p) /\ Len(p) \in Nat
  OBVIOUS
<1>3. ArgsOf(p) = [i \in 1 .. Len(p) |-> p[i].args]
  BY <1>2 DEF ArgsOf
<1>4. ArgsOf(p) \in Seq(Arguments) /\ Len(ArgsOf(p)) = Len(p)
  BY <1>1, <1>2, <1>3
<1>5. ToSet(ArgsOf(p)) = {q.args : q \in ToSet(p)}
  BY <1>2, <1>3 DEF ToSet
<1> QED
  BY <1>2, <1>3, <1>4, <1>5

\* The arguments of one probe more.
LEMMA ArgsOfAppend ==
  ASSUME NEW p \in Seq(ProbeType), NEW q \in ProbeType
  PROVE  ArgsOf(Append(p, q)) = Append(ArgsOf(p), q.args)
<1> DEFINE a == Append(p, q)
<1>1. /\ a \in Seq(ProbeType) /\ Len(a) = Len(p) + 1 /\ a[Len(p) + 1] = q /\ Len(p) \in Nat
      /\ \A i \in 1 .. Len(p) : a[i] = p[i]
  OBVIOUS
<1>2. q.args \in Arguments
  BY DEF ProbeType
<1> HIDE DEF a
<1> DEFINE b == ArgsOf(p)
           c == ArgsOf(a)
<1>3. /\ b \in Seq(Arguments) /\ Len(b) = Len(p) /\ \A i \in 1 .. Len(p) : b[i] = p[i].args
      /\ c \in Seq(Arguments) /\ Len(c) = Len(a) /\ \A i \in 1 .. Len(a) : c[i] = a[i].args
  BY <1>1, ArgsOfType
<1> HIDE DEF b, c
<1> DEFINE x == q.args
           d == Append(b, x)
<1>4. x \in Arguments
  BY <1>2
<1> HIDE DEF x
<1>5. /\ d \in Seq(Arguments) /\ Len(d) = Len(p) + 1 /\ d[Len(p) + 1] = x
      /\ \A i \in 1 .. Len(p) : d[i] = b[i]
  BY <1>3, <1>4
<1> HIDE DEF d
<1>6. ASSUME NEW i \in 1 .. Len(p) + 1 PROVE c[i] = d[i]
  <2>1. CASE i = Len(p) + 1
    BY <1>1, <1>3, <1>5, <2>1 DEF x
  <2>2. CASE i \in 1 .. Len(p)
    BY <1>1, <1>3, <1>5, <2>2
  <2> QED
    BY <1>1, <2>1, <2>2
<1>7. c = d
  BY <1>1, <1>3, <1>5, <1>6
<1> QED
  BY <1>7 DEF a, b, c, d, x

\* The arguments of the probes that are kept are those kept of the arguments.
LEMMA ArgsOfKept ==
  ASSUME NEW p \in Seq(ProbeType), NEW K, NEW L,
         \A i \in 1 .. Len(p) : p[i] \in K <=> p[i].args \in L
  PROVE  ArgsOf(KeepOnly(p, K)) = KeepOnly(ArgsOf(p), L)
<1> DEFINE b == ArgsOf(p)
           Same == {i \in Nat : i <= Len(p) => ArgsOf(KeptUpTo(p, K, i)) = KeptUpTo(b, L,
             i)}
<1>1. b \in Seq(Arguments) /\ Len(b) = Len(p) /\ \A i \in 1 .. Len(p) : b[i] = p[i].args
  BY ArgsOfType
<1> HIDE DEF b
<1>2. 0 \in Same
  <2>1. KeptUpTo(p, K, 0) = <<>> /\ KeptUpTo(b, L, 0) = <<>>
    BY <1>1, KeptStep
  <2>2. ArgsOf(<<>>) = <<>>
    BY DEF ArgsOf
  <2> QED
    BY <2>1, <2>2
<1>3. ASSUME NEW i \in Nat, i \in Same PROVE i + 1 \in Same
  <2> SUFFICES ASSUME i + 1 <= Len(p) PROVE ArgsOf(KeptUpTo(p, K, i + 1)) = KeptUpTo(b,
                        L, i + 1)
    OBVIOUS
  <2> DEFINE r == KeptUpTo(p, K, i)
             x == p[i + 1]
  <2>1. KeepsNext(p, K, i) /\ r \in Seq(ProbeType) /\ x \in ProbeType
    BY KeptNext
  <2>2. KeepsNext(b, L, i)
    BY <1>1, KeptNext
  <2>3. ArgsOf(r) = KeptUpTo(b, L, i)
    BY <1>3
  <2>4. b[i + 1] = x.args /\ (x \in K <=> x.args \in L)
    <3>1. i + 1 \in 1 .. Len(p)
      OBVIOUS
    <3> QED
      BY <1>1, <3>1
  <2>5. KeptUpTo(p, K, i + 1) = IF x \in K THEN Append(r, x) ELSE r
    BY <2>1 DEF KeepsNext
  <2>6. KeptUpTo(b, L, i + 1) = IF x.args \in L THEN Append(ArgsOf(r),
          x.args) ELSE ArgsOf(r)
    BY <2>2, <2>3, <2>4 DEF KeepsNext
  <2> HIDE DEF r, x
  <2> QED
    BY <2>1, <2>4, <2>5, <2>6, ArgsOfAppend
<1>4. Nat \subseteq Same
  <2> HIDE DEF Same
  <2> QED
    BY <1>2, <1>3, AllNumbers
<1>5. Len(p) \in Nat /\ Len(p) <= Len(p)
  OBVIOUS
<1>6. ArgsOf(KeptUpTo(p, K, Len(p))) = KeptUpTo(b, L, Len(p))
  BY <1>4, <1>5
<1> QED
  BY <1>1, <1>6, KeepOnlyIsKept DEF b

\* The plan: different examples, all of them if there is room.
LEMMA ChosenDiffer ==
  ASSUME NEW examples \in Seq(Arguments)
  PROVE  /\ Chosen(examples) \in Seq(Arguments)
         /\ Len(Chosen(examples)) <= MaxProbes
         /\ IsInjective(Chosen(examples))
         /\ Len(Chosen(examples)) < MaxProbes =>
              ToSet(examples) \subseteq ToSet(Chosen(examples))
<1> DEFINE own == [i \in DOMAIN examples |-> i]
           firsts == {i \in DOMAIN examples : FirstTime(examples, i)}
           places == KeepOnly(own, firsts)
           n == IF Len(places) < MaxProbes THEN Len(places) ELSE MaxProbes
           chosen == [k \in 1 .. n |-> examples[places[k]]]
<1>1. Chosen(examples) = chosen
  BY DEF Chosen
<1>2. own \in Seq(Nat) /\ DOMAIN own = 1 .. Len(examples)
      /\ \A i \in DOMAIN own : own[i] = i
  OBVIOUS
<1>3. IsInjective(own) /\ ToSet(own) = 1 .. Len(examples)
  BY <1>2 DEF IsInjective, ToSet
<1>4. firsts \subseteq 1 .. Len(examples)
  OBVIOUS
<1> HIDE DEF own, firsts
<1>5. places \in Seq(Nat) /\ ToSet(places) = firsts /\ IsInjective(places)
  <2>1. ToSet(own) \cap firsts = firsts
    BY <1>3, <1>4
  <2> QED
    BY <1>2, <1>3, <2>1, KeepOnlyType
<1> HIDE DEF places
<1>6. n \in Nat /\ n <= MaxProbes /\ 1 .. n \subseteq 1 .. Len(places)
      /\ Len(places) \in Nat
      /\ (n < MaxProbes => n = Len(places))
  BY <1>5, DiscoveryAssumption
<1> HIDE DEF n
<1>7. \A k \in 1 .. n : places[k] \in firsts
  BY <1>5, <1>6 DEF ToSet
<1>8. chosen \in Seq(Arguments) /\ Len(chosen) = n /\ DOMAIN chosen = 1 .. n
  <2>1. \A i \in firsts : examples[i] \in Arguments
    BY <1>4
  <2>2. \A k \in 1 .. n : examples[places[k]] \in Arguments
    BY <1>7, <2>1
  <2> QED
    BY <1>6, <2>2
<1>9. IsInjective(chosen)
  <2> SUFFICES ASSUME NEW j \in 1 .. n, NEW k \in 1 .. n,
                        examples[places[j]] = examples[places[k]]
               PROVE  j = k
    BY DEF IsInjective
  <2>1. FirstTime(examples, places[j]) /\ FirstTime(examples, places[k])
    BY <1>7 DEF firsts
  <2>2. places[j] \in Nat /\ places[k] \in Nat /\ places[j] >= 1 /\ places[k] >= 1
    <3>1. \A i \in 1 .. Len(examples) : i \in Nat /\ i >= 1
      OBVIOUS
    <3> QED
      BY <1>4, <1>7, <3>1
  <2>3. places[j] = places[k]
    BY <2>1, <2>2 DEF FirstTime
  <2> QED
    BY <1>5, <1>6, <2>3 DEF IsInjective
<1>10. ASSUME n < MaxProbes, NEW i \in 1 .. Len(examples) PROVE examples[i] \in ToSet(chosen)
  <2> DEFINE S == {j \in Nat : j \in 1 .. Len(examples) /\ examples[j] = examples[i]}
  <2>1. S \in SUBSET Nat /\ S # {}
    OBVIOUS
  <2> HIDE DEF S
  <2>2. PICK j \in S : \A m \in S : j <= m
    BY <2>1, LeastNumber
  <2>3. j \in 1 .. Len(examples) /\ examples[j] = examples[i]
    BY <2>2 DEF S
  <2>4. FirstTime(examples, j)
    <3> SUFFICES ASSUME NEW m \in 1 .. j - 1, examples[m] = examples[j] PROVE FALSE
      BY DEF FirstTime
    <3>1. m \in S /\ m < j
      BY <2>3 DEF S
    <3> QED
      BY <2>2, <2>3, <3>1
  <2>5. j \in ToSet(places)
    BY <1>5, <2>3, <2>4 DEF firsts
  <2>6. PICK k \in 1 .. n : places[k] = j
    BY <1>5, <1>6, <1>10, <2>5 DEF ToSet
  <2> QED
    BY <1>8, <2>3, <2>6 DEF ToSet
<1> HIDE DEF chosen
<1>11. n < MaxProbes => ToSet(examples) \subseteq ToSet(chosen)
  BY <1>10 DEF ToSet
<1> QED
  BY <1>1, <1>6, <1>8, <1>9, <1>11

InputsTyped == inputs.docs \in Seq(Arguments) /\ inputs.help.usages \in Seq(Arguments)

\* The examples hold what the program says of itself.
LEMMA ExamplesHold ==
  ASSUME InputsTyped
  PROVE  /\ Examples \in Seq(Arguments)
         /\ heard => ToSet(inputs.help.usages) \subseteq ToSet(Examples)
         /\ "--help" \in ToSet(Examples)
<1> DEFINE d == inputs.docs
           u == IF heard THEN inputs.help.usages ELSE <<>>
           h == HelpDerived
           k == <<"--help", "-h", "--version">>
<1>1. d \in Seq(Arguments) /\ u \in Seq(Arguments)
  <2>1. <<>> \in Seq(Arguments)
    OBVIOUS
  <2> QED
    BY <2>1 DEF InputsTyped
<1>2. h \in Seq(Arguments) /\ "--help" \in ToSet(h)
  <2>1. k \in Seq(Arguments)
    <3>1. k = [i \in 1 .. 3 |-> k[i]]
      OBVIOUS
    <3>2. k[1] \in Arguments /\ k[2] \in Arguments /\ k[3] \in Arguments
      BY DEF Arguments
    <3> HIDE DEF k
    <3>3. \A i \in 1 .. 3 : k[i] \in Arguments
      BY <3>2
    <3> QED
      BY <3>1, <3>3
  <2>2. "--help" \in ToSet(k)
    <3>1. 1 \in DOMAIN k /\ k[1] = "--help"
      OBVIOUS
    <3> HIDE DEF k
    <3> QED
      BY <3>1 DEF ToSet
  <2> HIDE DEF k
  <2>3. /\ KeepOnly(k, {"--help"} \cup Mentioned) \in Seq(Arguments)
        /\ ToSet(KeepOnly(k, {"--help"} \cup Mentioned)) = ToSet(k) \cap ({"--help"} \cup Mentioned)
    BY <2>1, KeepOnlyType
  <2> QED
    BY <2>2, <2>3 DEF HelpDerived, k
<1> HIDE DEF d, h
<1>3. Examples = (d \o u) \o h
  BY DEF Examples, d, h
<1> HIDE DEF u
<1>4. (d \o u) \o h \in Seq(Arguments)
  BY <1>1, <1>2
<1>5. ASSUME NEW s \in Seq(Arguments), NEW t \in Seq(Arguments)
      PROVE  ToSet(s \o t) = ToSet(s) \cup ToSet(t)
  <2> DEFINE c == s \o t
  <2>1. /\ DOMAIN c = 1 .. Len(s) + Len(t) /\ Len(s) \in Nat /\ Len(t) \in Nat
        /\ \A i \in 1 .. Len(s) : c[i] = s[i]
        /\ \A i \in 1 .. Len(t) : c[i + Len(s)] = t[i]
    BY ConcatProperties
  <2>2. DOMAIN s = 1 .. Len(s) /\ DOMAIN t = 1 .. Len(t)
    OBVIOUS
  <2> HIDE DEF c
  <2>3. ToSet(s) \cup ToSet(t) \subseteq ToSet(c)
    <3>1. \A i \in 1 .. Len(t) : i + Len(s) \in DOMAIN c
      BY <2>1
    <3>2. \A i \in 1 .. Len(s) : i \in DOMAIN c
      BY <2>1
    <3> QED
      BY <2>1, <2>2, <3>1, <3>2 DEF ToSet
  <2>4. ToSet(c) \subseteq ToSet(s) \cup ToSet(t)
    <3> SUFFICES ASSUME NEW i \in 1 .. Len(s) + Len(t) PROVE c[i] \in ToSet(s) \cup ToSet(t)
      BY <2>1 DEF ToSet
    <3>1. CASE i \in 1 .. Len(s)
      BY <2>1, <2>2, <3>1 DEF ToSet
    <3>2. CASE i - Len(s) \in 1 .. Len(t)
      <4>1. (i - Len(s)) + Len(s) = i
        BY <2>1
      <4>2. c[i] = t[i - Len(s)]
        BY <2>1, <3>2, <4>1
      <4> QED
        BY <2>2, <3>2, <4>2 DEF ToSet
    <3> QED
      BY <2>1, <3>1, <3>2
  <2> QED
    BY <2>3, <2>4 DEF c
<1>6. d \o u \in Seq(Arguments)
  BY <1>1
<1>7. ToSet((d \o u) \o h) = (ToSet(d) \cup ToSet(u)) \cup ToSet(h)
  BY <1>1, <1>2, <1>5, <1>6
<1> QED
  BY <1>2, <1>3, <1>4, <1>7 DEF u

FileType == [discovery : Nat, probes : Seq(Arguments), behaviors : Seq(Arguments)]

\* The types of a discovery and of its files.
DiscoveryTypes ==
  /\ discovery \in 0 .. MaxDiscoveries
  /\ InputsTyped
  /\ phase \in Phases
  /\ attempt \in 1 .. Len(HelpArgs) + 1
  /\ planned \in Seq(ProbeType) /\ Len(planned) <= MaxProbes
  /\ position \in 1 .. Len(planned) + 1
  /\ behaviors \in Seq(Arguments) /\ Len(behaviors) < position
  /\ files \in [{"planned", "observed", "surface"} -> FileType]
  /\ \A f \in DOMAIN files : files[f].discovery <= discovery

WithPlan == {"probe", "write plan", "write observed", "write surface", "returned"}

\* From the plan on, the probes are those of the examples that were chosen.
PlanInv ==
  /\ phase = "help" =>
       planned = <<>> /\ position = 1 /\ behaviors = <<>> /\ unanswered = {}
  /\ phase \in WithPlan =>
       /\ ArgsOf(planned) = Chosen(Examples)
       /\ \A i \in 1 .. Len(planned) : planned[i] = Probe(planned[i].args)
  /\ phase \in WithPlan \ {"probe"} => position = Len(planned) + 1

\* The arguments of the safe ones among the first n probes.
SafeUpTo(n) == {planned[i].args : i \in {i \in 1 .. n : planned[i].safe}}

\* The behaviours are those of safe probes, in the order of the plan; and each
\* safe probe has one or no answer, if the patterns look at arguments only.
ProbeInv ==
  phase \in WithPlan =>
    /\ behaviors = KeptUpTo(ArgsOf(planned), ToSet(behaviors), position - 1)
    /\ ToSet(behaviors) \subseteq SafeUpTo(position - 1)
    /\ PatternsOnArguments => SafeUpTo(position - 1) = ToSet(behaviors) \cup unanswered

\* The files that this discovery has written.
WrittenInv ==
  /\ phase \in {"help", "probe", "write plan"} => files["planned"].discovery < discovery
  /\ phase = "write observed" => files["observed"].discovery < discovery
  /\ phase = "write surface" => files["surface"].discovery < discovery
  /\ phase \in {"write observed", "write surface", "returned"} =>
       files["planned"].discovery = discovery /\ files["planned"].probes = ArgsOf(planned)
  /\ phase \in {"write surface", "returned"} =>
       /\ files["observed"].discovery = discovery
          /\ files["observed"].probes = Safe(planned)
       /\ files["observed"].behaviors = behaviors

DiscoveryInv == DiscoveryTypes /\ PlanInv /\ ProbeInv /\ WrittenInv /\ FilesAgree

\* Whatever is kept of a sequence is a selection of it.
LEMMA SelectsAll ==
  ASSUME NEW S, NEW s \in Seq(S), NEW K
  PROVE  IsSelectionOf(KeepOnly(s, K), s)
<1>1. K \cap ToSet(s) \in SUBSET ToSet(s)
  OBVIOUS
<1>2. KeepOnly(s, K) = KeepOnly(s, K \cap ToSet(s))
  BY KeepOnlySame
<1> QED
  BY <1>1, <1>2 DEF IsSelectionOf

\* Before the first discovery there is no file.
LEMMA DiscoveryStarts == DiscoveryInit => DiscoveryInv
<1> SUFFICES ASSUME DiscoveryInit PROVE DiscoveryInv
  OBVIOUS
<1>1. NoFile \in FileType
  BY DEF NoFile, FileType
<1>2. \A f \in {"planned", "observed", "surface"} : files[f] = NoFile
  BY DEF DiscoveryInit
<1>3. InputsTyped
  <2>1. inputs.docs \in Seq(STRING) /\ inputs.help.usages \in Seq(STRING)
    BY DiscoveryAssumption DEF DiscoveryInit
  <2>2. Seq(STRING) \subseteq Seq(Arguments)
    BY DEF Arguments
  <2> QED
    BY <2>1, <2>2 DEF InputsTyped
<1>4. DiscoveryTypes
  <2>1. files \in [{"planned", "observed", "surface"} -> FileType]
    BY <1>1 DEF DiscoveryInit
  <2>2. \A f \in DOMAIN files : files[f].discovery <= discovery
    BY DEF DiscoveryInit, NoFile
  <2>3. discovery \in 0 .. MaxDiscoveries
    BY DiscoveryAssumption DEF DiscoveryInit
  <2>4. phase \in Phases /\ attempt \in 1 .. Len(HelpArgs) + 1
    BY DEF DiscoveryInit, Phases, HelpArgs
  <2>5. planned \in Seq(ProbeType) /\ Len(planned) <= MaxProbes
        /\ position \in 1 .. Len(planned) + 1
        /\ behaviors \in Seq(Arguments) /\ Len(behaviors) < position
    BY DiscoveryAssumption DEF DiscoveryInit
  <2> QED
    BY <1>3, <2>1, <2>2, <2>3, <2>4, <2>5 DEF DiscoveryTypes
<1>5. PlanInv /\ ProbeInv /\ WrittenInv
  BY DEF DiscoveryInit, PlanInv, ProbeInv, WrittenInv, WithPlan
<1>6. FilesAgree
  <2>1. <<>> \in Seq(Arguments) /\ Len(<<>>) = 0
    OBVIOUS
  <2>2. KeepOnly(<<>>, {}) = <<>>
    <3>1. KeepOnly(<<>>, {}) = KeptUpTo(<<>>, {}, 0)
      BY <2>1, KeepOnlyIsKept
    <3> QED
      BY <2>1, <3>1, KeptStep
  <2>3. IsSelectionOf(<<>>, <<>>)
    BY <2>2 DEF IsSelectionOf
  <2>4. IsInjective(<<>>)
    BY DEF IsInjective
  <2>5. files["planned"] = NoFile /\ files["observed"] = NoFile /\ files["surface"] = NoFile
    BY <1>2
  <2> QED
    BY <2>3, <2>4, <2>5 DEF FilesAgree, NoFile
<1> QED
  BY <1>4, <1>5, <1>6 DEF DiscoveryInv

\* A step that changes neither the plan nor a file, and goes nowhere but to the
\* end of the discovery.
LEMMA DiscoveryRests ==
  ASSUME DiscoveryInv, UNCHANGED <<task, probing, files>>, phase' \in {phase, "idle"},
         attempt' \in 1 .. Len(HelpArgs) + 1, heard' = heard \/ phase \in {"idle", "help"}
  PROVE  DiscoveryInv'
<1>1. DiscoveryTypes'
  BY DEF DiscoveryInv, DiscoveryTypes, task, probing, Phases, InputsTyped
<1>2. PlanInv'
  <2>1. inputs' = inputs /\ planned' = planned /\ position' = position
        /\ behaviors' = behaviors /\ unanswered' = unanswered
    BY DEF task, probing
  <2>2. phase' = "help" => phase = "help"
    BY DEF DiscoveryInv, DiscoveryTypes, Phases
  <2>3. phase' \in WithPlan => phase \in WithPlan /\ heard' = heard /\ phase' = phase
    BY DEF DiscoveryInv, DiscoveryTypes, Phases, WithPlan
  <2>4. heard' = heard => Examples' = Examples
    BY <2>1 DEF Examples, HelpDerived, Mentioned
  <2>5. \A a : Probe(a)' = Probe(a)
    BY <2>1 DEF Probe
  <2> QED
    BY <2>1, <2>2, <2>3, <2>4, <2>5 DEF DiscoveryInv, PlanInv, WithPlan
<1>3. ProbeInv'
  <2>1. inputs' = inputs /\ planned' = planned /\ position' = position
        /\ behaviors' = behaviors /\ unanswered' = unanswered
    BY DEF task, probing
  <2>2. phase' \in WithPlan => phase \in WithPlan
    BY DEF DiscoveryInv, DiscoveryTypes, Phases, WithPlan
  <2>3. PatternsOnArguments' = PatternsOnArguments
    BY <2>1 DEF PatternsOnArguments
  <2>4. SafeUpTo(position - 1)' = SafeUpTo(position - 1)
    BY <2>1 DEF SafeUpTo
  <2> QED
    BY <2>1, <2>2, <2>3, <2>4 DEF DiscoveryInv, ProbeInv
<1>4. WrittenInv' /\ FilesAgree'
  BY DEF DiscoveryInv, WrittenInv, FilesAgree, task, probing, FilesAgree
<1> QED
  BY <1>1, <1>2, <1>3, <1>4 DEF DiscoveryInv

\* The files are not newer than the discovery.
LEMMA FilesAreOlder ==
  ASSUME DiscoveryInv
  PROVE  \A f \in DOMAIN files : /\ files[f].discovery <= discovery + 1
                                 /\ files[f].discovery < discovery + 1
<1> TAKE f \in DOMAIN files
<1>1. files[f] \in FileType /\ files[f].discovery <= discovery
  BY DEF DiscoveryInv, DiscoveryTypes
<1>2. files[f].discovery \in Nat
  BY <1>1 DEF FileType
<1>3. discovery \in Nat
  BY DiscoveryAssumption DEF DiscoveryInv, DiscoveryTypes
<1> QED
  BY <1>1, <1>2, <1>3

\* A discovery begins with an empty plan, and leaves the files of earlier ones.
LEMMA DiscoverKeepsDiscovery == DiscoveryInv /\ Discover => DiscoveryInv'
<1> SUFFICES ASSUME DiscoveryInv, Discover PROVE DiscoveryInv'
  OBVIOUS
<1>1. InputsTyped'
  <2>1. inputs'.docs \in Seq(STRING) /\ inputs'.help.usages \in Seq(STRING)
    BY DiscoveryAssumption DEF Discover
  <2>2. Seq(STRING) \subseteq Seq(Arguments)
    BY DEF Arguments
  <2> QED
    BY <2>1, <2>2 DEF InputsTyped
<1>2. planned' = <<>> /\ position' = 1 /\ behaviors' = <<>> /\ unanswered' = {}
      /\ phase' = "help"
      /\ attempt' = 1 /\ discovery' = discovery + 1 /\ files' = files
  BY DEF Discover
<1>3. DiscoveryTypes'
  <2>1. planned' \in Seq(ProbeType) /\ Len(planned') <= MaxProbes
        /\ position' \in 1 .. Len(planned') + 1
        /\ behaviors' \in Seq(Arguments) /\ Len(behaviors') < position'
    BY <1>2, DiscoveryAssumption
  <2>2. discovery' \in 0 .. MaxDiscoveries
        /\ files' \in [{"planned", "observed", "surface"} -> FileType]
    BY <1>2, DiscoveryAssumption DEF Discover, DiscoveryInv, DiscoveryTypes
  <2>3. \A f \in DOMAIN files' : files'[f].discovery <= discovery'
    BY <1>2, FilesAreOlder
  <2>4. phase' \in Phases /\ attempt' \in 1 .. Len(HelpArgs) + 1
    BY <1>2 DEF Phases, HelpArgs
  <2> QED
    BY <1>1, <2>1, <2>2, <2>3, <2>4 DEF DiscoveryTypes
<1>4. PlanInv' /\ ProbeInv'
  BY <1>2 DEF PlanInv, ProbeInv, WithPlan
<1>5. WrittenInv'
  <2>1. files["planned"].discovery < discovery + 1
    <3>1. "planned" \in DOMAIN files
      BY DEF DiscoveryInv, DiscoveryTypes
    <3> QED
      BY <3>1, FilesAreOlder
  <2> QED
    BY <1>2, <2>1 DEF WrittenInv
<1>6. FilesAgree'
  BY <1>2 DEF DiscoveryInv, FilesAgree
<1> QED
  BY <1>3, <1>4, <1>5, <1>6 DEF DiscoveryInv

\* The plan is made of the examples, when all help commands were tried.
LEMMA PlanKeepsDiscovery == DiscoveryInv /\ Plan => DiscoveryInv'
<1> SUFFICES ASSUME DiscoveryInv, Plan PROVE DiscoveryInv'
  OBVIOUS
<1> DEFINE chosen == Chosen(Examples)
<1>1. /\ inputs' = inputs /\ discovery' = discovery /\ heard' = heard /\ files' = files
      /\ position' = position /\ behaviors' = behaviors /\ unanswered' = unanswered
      /\ attempt' = attempt /\ phase = "help" /\ phase' = "probe"
      /\ planned' = [i \in DOMAIN chosen |-> Probe(chosen[i])]
  BY DEF Plan, task
<1>2. position = 1 /\ behaviors = <<>> /\ unanswered = {}
  BY <1>1 DEF DiscoveryInv, PlanInv
<1>3. chosen \in Seq(Arguments) /\ Len(chosen) <= MaxProbes
  BY ExamplesHold, ChosenDiffer DEF DiscoveryInv, DiscoveryTypes
<1>4. Examples' = Examples
  BY <1>1 DEF Examples, HelpDerived, Mentioned
<1>5. \A a : Probe(a)' = Probe(a) /\ Probe(a).args = a
  BY <1>1 DEF Probe
<1>6. \A a \in Arguments : Probe(a) \in ProbeType
  <2>1. \A c, k, r : IsCommandAllowed(c, k, r) \in BOOLEAN
    BY DEF IsCommandAllowed
  <2> QED
    BY <2>1 DEF Probe, ProbeType
<1> HIDE DEF chosen
<1>7. /\ planned' \in Seq(ProbeType) /\ Len(planned') = Len(chosen)
      /\ DOMAIN planned' = DOMAIN chosen
      /\ \A i \in 1 .. Len(chosen) : planned'[i] = Probe(chosen[i])
  BY <1>1, <1>3, <1>6
<1>8. ArgsOf(planned') = chosen
  BY <1>3, <1>5, <1>7 DEF ArgsOf
<1>9. DiscoveryTypes'
  <2>1. InputsTyped'
    BY <1>1 DEF DiscoveryInv, DiscoveryTypes, InputsTyped
  <2>2. position' \in 1 .. Len(planned') + 1
    BY <1>1, <1>2, <1>7
  <2> QED
    BY <1>1, <1>3, <1>7, <2>1, <2>2 DEF DiscoveryInv, DiscoveryTypes, Phases
<1>10. PlanInv'
  <2>1. (\A i \in 1 .. Len(planned) : planned[i] = Probe(planned[i].args))'
    <3> SUFFICES ASSUME NEW i \in 1 .. Len(planned') PROVE planned'[i] = Probe(planned[i].args)'
      OBVIOUS
    <3>1. planned'[i] = Probe(chosen[i])
      BY <1>7
    <3>2. planned'[i].args = chosen[i]
      BY <1>5, <3>1
    <3> QED
      BY <1>1, <3>1, <3>2 DEF Probe
  <2>2. (ArgsOf(planned) = Chosen(Examples))'
    BY <1>4, <1>8 DEF chosen
  <2> QED
    BY <1>1, <2>1, <2>2 DEF PlanInv, WithPlan
<1>11. ProbeInv'
  <2>1. ToSet(behaviors') = {}
    BY <1>1, <1>2 DEF ToSet
  <2>2. ArgsOf(planned') \in Seq(Arguments)
    BY <1>3, <1>8
  <2>3. KeptUpTo(ArgsOf(planned'), ToSet(behaviors'), 0) = <<>>
    BY <2>2, KeptStep
  <2>4. SafeUpTo(0)' = {}
    BY DEF SafeUpTo
  <2>5. position' - 1 = 0
    BY <1>1, <1>2
  <2> QED
    BY <1>1, <1>2, <2>1, <2>3, <2>4, <2>5 DEF ProbeInv
<1>12. WrittenInv' /\ FilesAgree'
  BY <1>1 DEF DiscoveryInv, WrittenInv, FilesAgree
<1> QED
  BY <1>9, <1>10, <1>11, <1>12 DEF DiscoveryInv

\* Patterns that look at the arguments allow the probe that was planned.
LEMMA SafeIsRunnable ==
  ASSUME DiscoveryInv, AtProbe, PatternsOnArguments, planned[position].safe
  PROVE  Runnable
<1> DEFINE x == planned[position].args
           rules == inputs.rules
<1>1. planned[position] = Probe(x)
  <2>1. phase \in WithPlan /\ position \in 1 .. Len(planned)
    BY DEF AtProbe, WithPlan, DiscoveryInv, DiscoveryTypes
  <2> QED
    BY <2>1 DEF DiscoveryInv, PlanInv
<1>2. IsCommandAllowed(AsPlanned(x), "probe", rules)
  BY <1>1 DEF Probe
<1>3. AsPlanned(x).args = x /\ OfGold(x).args = x /\ AsPlanned(x).root = "program"
      /\ OfGold(x).root = "path"
  BY DEF AsPlanned, OfGold
<1> HIDE DEF x, rules
<1>4. ASSUME NEW pattern \in rules.allow \cup rules.deny
      PROVE  AsPlanned(x) \in pattern <=> OfGold(x) \in pattern
  BY <1>3 DEF PatternsOnArguments, rules
<1>5. Found(rules.deny, OfGold(x)) <=> Found(rules.deny, AsPlanned(x))
  BY <1>4 DEF Found
<1>6. Found(rules.allow, OfGold(x)) <=> Found(rules.allow, AsPlanned(x))
  BY <1>4 DEF Found
<1>7. GenericallyAllowed(AsPlanned(x), "probe") => GenericallyAllowed(OfGold(x), "probe")
  BY <1>3 DEF GenericallyAllowed, DeniedRoots, BuildRoots, Interpreters
<1>8. IsCommandAllowed(OfGold(x), "probe", rules)
  BY <1>2, <1>5, <1>6, <1>7 DEF IsCommandAllowed
<1> QED
  BY <1>8 DEF Runnable, x, rules

\* What the next probe adds.
LEMMA NextProbe ==
  ASSUME DiscoveryInv, AtProbe
  PROVE  /\ position \in 1 .. Len(planned) /\ planned[position].args \in Arguments
         /\ \A i \in 1 .. position - 1 : ArgsOf(planned)[i] # planned[position].args
         /\ planned[position].args \notin ToSet(behaviors)
         /\ SafeUpTo(position) = SafeUpTo(position - 1) \cup
              (IF planned[position].safe THEN {planned[position].args} ELSE {})
         /\ KeptUpTo(ArgsOf(planned), ToSet(behaviors), position) = behaviors
         /\ KeptUpTo(ArgsOf(planned), ToSet(behaviors) \cup {planned[position].args},
              position)
              = Append(behaviors, planned[position].args)
<1> DEFINE x == planned[position].args
           a == ArgsOf(planned)
           K == ToSet(behaviors)
           m == position - 1
<1>1. /\ position \in 1 .. Len(planned) /\ phase \in WithPlan /\ Len(planned) \in Nat
      /\ planned \in Seq(ProbeType)
  BY DEF DiscoveryInv, DiscoveryTypes, AtProbe, WithPlan
<1>2. m \in Nat /\ m + 1 = position /\ m + 1 <= Len(planned)
  BY <1>1
<1>3. x \in Arguments
  <2>1. planned[position] \in ProbeType
    BY <1>1
  <2> QED
    BY <2>1 DEF ProbeType
<1>4. /\ a \in Seq(Arguments) /\ Len(a) = Len(planned)
      /\ \A i \in 1 .. Len(planned) : a[i] = planned[i].args
  BY <1>1, ArgsOfType
<1>5. IsInjective(a)
  <2>1. Examples \in Seq(Arguments)
    BY ExamplesHold DEF DiscoveryInv, DiscoveryTypes
  <2>2. IsInjective(Chosen(Examples))
    BY <2>1, ChosenDiffer
  <2> QED
    BY <1>1, <2>2 DEF DiscoveryInv, PlanInv
<1>6. behaviors = KeptUpTo(a, K, m) /\ K \subseteq SafeUpTo(m)
  BY <1>1 DEF DiscoveryInv, ProbeInv
<1> HIDE DEF a, K, m
<1>7. a[m + 1] = x
  BY <1>1, <1>2, <1>4
<1>8. \A i \in 1 .. m : a[i] # x
  <2> SUFFICES ASSUME NEW i \in 1 .. m, a[i] = x PROVE FALSE
    OBVIOUS
  <2>1. i \in DOMAIN a /\ m + 1 \in DOMAIN a /\ i # m + 1
    BY <1>2, <1>4
  <2> QED
    BY <1>5, <1>7, <2>1 DEF IsInjective
<1>9. x \notin K
  <2>1. \A i \in 1 .. m : planned[i].args # x
    BY <1>2, <1>4, <1>8
  <2> QED
    BY <1>6, <2>1 DEF SafeUpTo
<1>10. SafeUpTo(position) =
         SafeUpTo(m) \cup (IF planned[position].safe THEN {x} ELSE {})
  <2>1. 1 .. position = 1 .. m \cup {position}
    BY <1>1, <1>2
  <2>2. {i \in 1 .. position : planned[i].safe} =
          {i \in 1 .. m : planned[i].safe}
            \cup (IF planned[position].safe THEN {position} ELSE {})
    BY <2>1
  <2> QED
    BY <2>2 DEF SafeUpTo
<1>11. KeepsNext(a, K, m) /\ KeepsNext(a, K \cup {x}, m)
  BY <1>2, <1>4, KeptNext
<1>12. KeptUpTo(a, K \cup {x}, m) = KeptUpTo(a, K, m)
  <2> DEFINE L == K \cup {x}
  <2>1. \A i \in 1 .. m : a[i] = a[i] /\ (a[i] \in L <=> a[i] \in K)
    BY <1>8
  <2> HIDE DEF L
  <2>2. KeptUpTo(a, L, m) = KeptUpTo(a, K, m)
    BY <1>2, <1>4, <2>1, KeptAlike
  <2> QED
    BY <2>2 DEF L
<1> HIDE DEF x
<1>13. KeptUpTo(a, K, m + 1) = behaviors
  BY <1>6, <1>7, <1>9, <1>11 DEF KeepsNext
<1>14. KeptUpTo(a, K \cup {x}, m + 1) = Append(behaviors, x)
  BY <1>6, <1>7, <1>11, <1>12 DEF KeepsNext
<1> QED
  BY <1>1, <1>2, <1>3, <1>8, <1>9, <1>10, <1>13, <1>14 DEF a, K, m, x

\* A step to the next probe.
LEMMA ProbeKeepsDiscovery ==
  ASSUME DiscoveryInv, AtProbe, position' = position + 1, phase' = phase,
         UNCHANGED <<task, attempt, heard, planned, files>>,
         \/ ~ Runnable /\ UNCHANGED <<behaviors, unanswered>>
         \/ /\ Runnable /\ UNCHANGED behaviors
            /\ unanswered' = unanswered \cup {planned[position].args}
         \/ /\ Runnable /\ UNCHANGED unanswered
            /\ behaviors' = Append(behaviors, planned[position].args)
  PROVE  DiscoveryInv'
<1> DEFINE x == planned[position].args
<1>1. /\ position \in 1 .. Len(planned) /\ x \in Arguments /\ x \notin ToSet(behaviors)
      /\ SafeUpTo(position) = SafeUpTo(position - 1) \cup (IF planned[position].safe THEN {x} ELSE {})
      /\ KeptUpTo(ArgsOf(planned), ToSet(behaviors), position) = behaviors
      /\ KeptUpTo(ArgsOf(planned), ToSet(behaviors) \cup {x},
           position) = Append(behaviors, x)
  BY NextProbe
<1>2. /\ phase = "probe" /\ phase \in WithPlan /\ inputs' = inputs /\ discovery' = discovery
      /\ behaviors \in Seq(Arguments) /\ Len(behaviors) < position /\ Len(planned) \in Nat
  BY DEF AtProbe, WithPlan, task, DiscoveryInv, DiscoveryTypes
<1> HIDE DEF x
<1>3. /\ Len(Append(behaviors, x)) = Len(behaviors) + 1
         /\ Append(behaviors, x) \in Seq(Arguments)
      /\ ToSet(Append(behaviors, x)) = ToSet(behaviors) \cup {x}
  <2> DEFINE b == Append(behaviors, x)
  <2>1. /\ b \in Seq(Arguments) /\ Len(b) = Len(behaviors) + 1 /\ Len(behaviors) \in Nat
        /\ DOMAIN b = DOMAIN behaviors \cup {Len(behaviors) + 1}
           /\ b[Len(behaviors) + 1] = x
        /\ \A i \in DOMAIN behaviors : b[i] = behaviors[i]
    BY <1>1, <1>2
  <2> HIDE DEF b
  <2>2. ToSet(b) = ToSet(behaviors) \cup {x}
    BY <2>1 DEF ToSet
  <2> QED
    BY <2>1, <2>2 DEF b
<1>4. DiscoveryTypes'
  <2>1. InputsTyped'
    BY <1>2 DEF DiscoveryInv, DiscoveryTypes, InputsTyped
  <2>2. position' \in 1 .. Len(planned') + 1
    BY <1>1, <1>2
  <2>3. behaviors' \in Seq(Arguments) /\ Len(behaviors') < position'
    BY <1>1, <1>2, <1>3 DEF x
  <2> QED
    BY <1>2, <2>1, <2>2, <2>3 DEF DiscoveryInv, DiscoveryTypes
<1>5. PlanInv'
  <2>1. Examples' = Examples
    BY <1>2 DEF Examples, HelpDerived, Mentioned
  <2>2. (\A i \in 1 .. Len(planned) : planned[i] = Probe(planned[i].args))'
    BY <1>2 DEF DiscoveryInv, PlanInv, Probe
  <2> QED
    BY <1>2, <2>1, <2>2 DEF DiscoveryInv, PlanInv, WithPlan
<1>6. ProbeInv'
  <2>1. position' - 1 = position
    BY <1>1
  <2>2. SafeUpTo(position - 1)' = SafeUpTo(position)
    BY <2>1 DEF SafeUpTo
  <2>3. PatternsOnArguments' = PatternsOnArguments
    BY <1>2 DEF PatternsOnArguments
  <2>4. /\ ToSet(behaviors) \subseteq SafeUpTo(position - 1)
        /\ PatternsOnArguments => SafeUpTo(position - 1) = ToSet(behaviors) \cup unanswered
    BY <1>2 DEF DiscoveryInv, ProbeInv
  <2>5. behaviors' = KeptUpTo(ArgsOf(planned'), ToSet(behaviors'), position)
    BY <1>1, <1>3 DEF x
  <2>6. ToSet(behaviors') \subseteq SafeUpTo(position)
    <3>1. Runnable => planned[position].safe
      BY DEF Runnable
    <3> QED
      BY <1>1, <1>3, <2>4, <3>1 DEF x
  <2>7. PatternsOnArguments => SafeUpTo(position) = ToSet(behaviors') \cup unanswered'
    <3>1. PatternsOnArguments => (Runnable <=> planned[position].safe)
      BY SafeIsRunnable DEF Runnable
    <3> QED
      BY <1>1, <1>3, <2>4, <3>1 DEF x
  <2> QED
    BY <2>1, <2>2, <2>3, <2>5, <2>6, <2>7 DEF ProbeInv
<1>7. WrittenInv' /\ FilesAgree'
  BY <1>2 DEF DiscoveryInv, WrittenInv, FilesAgree
<1> QED
  BY <1>4, <1>5, <1>6, <1>7 DEF DiscoveryInv

\* The safe probes of the plan, and what was seen of them.
LEMMA SafeProbes ==
  ASSUME DiscoveryInv, phase \in WithPlan \ {"probe"}
  PROVE  /\ Safe(planned) \in Seq(Arguments)
            /\ ToSet(Safe(planned)) = SafeUpTo(position - 1)
         /\ IsSelectionOf(Safe(planned), ArgsOf(planned))
         /\ IsSelectionOf(behaviors, Safe(planned))
<1> DEFINE a == ArgsOf(planned)
           m == Len(planned)
           safe == SafeUpTo(m)
           K == {p \in ToSet(planned) : p.safe}
           B == ToSet(behaviors)
<1>1. /\ phase \in WithPlan /\ position - 1 = m /\ m \in Nat /\ planned \in Seq(ProbeType)
  BY DEF DiscoveryInv, DiscoveryTypes, PlanInv
<1>2. a \in Seq(Arguments) /\ Len(a) = m /\ \A i \in 1 .. m : a[i] = planned[i].args
  BY <1>1, ArgsOfType
<1>3. IsInjective(a)
  <2>1. IsInjective(Chosen(Examples))
    BY ExamplesHold, ChosenDiffer DEF DiscoveryInv, DiscoveryTypes
  <2> QED
    BY <1>1, <2>1 DEF DiscoveryInv, PlanInv
<1>4. \A i \in 1 .. m : planned[i] \in K <=> planned[i].args \in safe
  <2> SUFFICES ASSUME NEW i \in 1 .. m PROVE planned[i] \in K <=> planned[i].args \in safe
    OBVIOUS
  <2>1. planned[i] \in K <=> planned[i].safe
    BY <1>1 DEF ToSet
  <2>2. planned[i].safe => planned[i].args \in safe
    BY DEF SafeUpTo
  <2>3. ASSUME planned[i].args \in safe PROVE planned[i].safe
    <3>1. PICK j \in 1 .. m : planned[j].safe /\ planned[j].args = planned[i].args
      BY <2>3 DEF SafeUpTo
    <3>2. a[i] = a[j] /\ i \in DOMAIN a /\ j \in DOMAIN a
      BY <1>2, <3>1
    <3>3. i = j
      BY <1>3, <3>2 DEF IsInjective
    <3> QED
      BY <3>1, <3>3
  <2> QED
    BY <2>1, <2>2, <2>3
<1>5. behaviors = KeptUpTo(a, B, m) /\ B \subseteq safe
  BY <1>1 DEF DiscoveryInv, ProbeInv
<1>6. safe \subseteq ToSet(a)
  BY <1>2 DEF SafeUpTo, ToSet
<1> HIDE DEF a, safe, K, B
<1>7. Safe(planned) = KeepOnly(a, safe)
  <2>1. ArgsOf(KeepOnly(planned, K)) = KeepOnly(ArgsOf(planned), safe)
    <3> HIDE DEF m
    <3>1. \A i \in 1 .. Len(planned) : planned[i] \in K <=> planned[i].args \in safe
      BY <1>4 DEF m
    <3> QED
      BY <1>1, <3>1, ArgsOfKept
  <2> QED
    BY <2>1 DEF Safe, a, K
<1>8. KeepOnly(a, safe) \in Seq(Arguments) /\ ToSet(KeepOnly(a, safe)) = ToSet(a) \cap safe
  BY <1>2, KeepOnlyType
<1>9. behaviors = KeepOnly(a, B)
  <2>1. KeepOnly(a, B) = KeptUpTo(a, B, Len(a))
    BY KeepOnlyIsKept
  <2> QED
    BY <1>2, <1>5, <2>1
<1>10. behaviors = KeepOnly(KeepOnly(a, safe), B)
  <2>1. safe \cap B = B
    BY <1>5
  <2>2. KeepOnly(KeepOnly(a, safe), B) = KeepOnly(a, safe \cap B)
    BY <1>2, KeptTwice
  <2> QED
    BY <1>9, <2>1, <2>2
<1>11. IsSelectionOf(KeepOnly(a, safe), a)
  BY <1>2, SelectsAll
<1>12. IsSelectionOf(KeepOnly(KeepOnly(a, safe), B), KeepOnly(a, safe))
  BY <1>8, SelectsAll
<1> QED
  BY <1>1, <1>6, <1>7, <1>8, <1>10, <1>11, <1>12 DEF a, safe

\* A step that keeps the plan and what was seen, and writes at most one file.
LEMMA PlanRests ==
  ASSUME DiscoveryInv, UNCHANGED <<task, attempt, heard, probing>>, phase \in WithPlan,
         phase' \in WithPlan \ {"probe"}, position = Len(planned) + 1,
         NEW name \in {"planned", "observed", "surface"}, NEW file \in FileType,
         file.discovery = discovery,
         files' = files \/ files' = [files EXCEPT ![name] = file]
  PROVE  DiscoveryTypes' /\ PlanInv' /\ ProbeInv'
<1>1. /\ inputs' = inputs /\ discovery' = discovery /\ planned' = planned
         /\ position' = position
      /\ behaviors' = behaviors /\ unanswered' = unanswered /\ attempt' = attempt
         /\ heard' = heard
  BY DEF task, probing
<1>2. DiscoveryTypes'
  <2>1. files \in [{"planned", "observed", "surface"} -> FileType]
        /\ (\A f \in DOMAIN files : files[f].discovery <= discovery) /\ discovery \in Nat
    BY DiscoveryAssumption DEF DiscoveryInv, DiscoveryTypes
  <2>2. files' \in [{"planned", "observed", "surface"} -> FileType]
    BY <2>1
  <2>3. \A f \in DOMAIN files' : files'[f].discovery <= discovery
    BY <2>1
  <2>4. InputsTyped'
    BY <1>1 DEF DiscoveryInv, DiscoveryTypes, InputsTyped
  <2>5. phase' \in Phases
    BY DEF Phases, WithPlan
  <2> QED
    BY <1>1, <2>2, <2>3, <2>4, <2>5 DEF DiscoveryInv, DiscoveryTypes
<1>3. PlanInv'
  <2>1. Examples' = Examples
    BY <1>1 DEF Examples, HelpDerived, Mentioned
  <2>2. (\A i \in 1 .. Len(planned) : planned[i] = Probe(planned[i].args))'
    BY <1>1 DEF DiscoveryInv, PlanInv, Probe
  <2>3. phase' # "help"
    BY DEF WithPlan
  <2> QED
    BY <1>1, <2>1, <2>2, <2>3 DEF DiscoveryInv, PlanInv
<1>4. ProbeInv'
  <2>1. PatternsOnArguments' = PatternsOnArguments
    BY <1>1 DEF PatternsOnArguments
  <2>2. SafeUpTo(position - 1)' = SafeUpTo(position - 1)
    BY <1>1 DEF SafeUpTo
  <2> QED
    BY <1>1, <2>1, <2>2 DEF DiscoveryInv, ProbeInv
<1> QED
  BY <1>2, <1>3, <1>4

\* After the last probe all that are safe are accounted for.
LEMMA EndProbesKeepsDiscovery == DiscoveryInv /\ EndProbes => DiscoveryInv'
<1> SUFFICES ASSUME DiscoveryInv, EndProbes PROVE DiscoveryInv'
  OBVIOUS
<1>1. /\ phase = "probe" /\ phase' = "write plan"
         /\ UNCHANGED <<task, attempt, heard, probing>>
      /\ files' = files /\ discovery' = discovery
  BY DEF EndProbes, task
<1>2. position = Len(planned) + 1
  <2>1. position \in 1 .. Len(planned) + 1 /\ planned \in Seq(ProbeType)
    BY DEF DiscoveryInv, DiscoveryTypes
  <2>2. Len(planned) \in Nat
    BY <2>1
  <2>3. position > Len(planned)
    BY DEF EndProbes
  <2> QED
    BY <2>1, <2>2, <2>3
<1> DEFINE file == [discovery |-> discovery, probes |-> <<>>, behaviors |-> <<>>]
<1>3. file \in FileType /\ file.discovery = discovery
  BY DiscoveryAssumption DEF DiscoveryInv, DiscoveryTypes, FileType
<1>4. phase \in WithPlan /\ phase' \in WithPlan \ {"probe"}
  BY <1>1 DEF WithPlan
<1> HIDE DEF file
<1>5. DiscoveryTypes' /\ PlanInv' /\ ProbeInv'
  BY <1>1, <1>2, <1>3, <1>4, PlanRests
<1>6. WrittenInv' /\ FilesAgree'
  BY <1>1 DEF DiscoveryInv, WrittenInv, FilesAgree
<1> QED
  BY <1>5, <1>6 DEF DiscoveryInv

\* The plan is written first: the other files are now older than it.
LEMMA WritePlanKeepsDiscovery == DiscoveryInv /\ WritePlan => DiscoveryInv'
<1> SUFFICES ASSUME DiscoveryInv, WritePlan PROVE DiscoveryInv'
  OBVIOUS
<1> DEFINE file == [discovery |-> discovery, probes |-> ArgsOf(planned), behaviors |-> <<>>]
<1>1. /\ phase = "write plan" /\ phase' = "write observed"
         /\ UNCHANGED <<task, attempt, heard, probing>>
      /\ files' = [files EXCEPT !["planned"] = file]
      /\ discovery' = discovery /\ planned' = planned
  BY DEF WritePlan, WriteFile, task, probing
<1>2. phase \in WithPlan /\ phase' \in WithPlan \ {"probe"}
      /\ phase \in WithPlan \ {"probe"}
  BY <1>1 DEF WithPlan
<1>3. file \in FileType /\ file.discovery = discovery
  BY DiscoveryAssumption, ArgsOfType DEF DiscoveryInv, DiscoveryTypes, FileType
<1>4. file.probes = ArgsOf(planned)
  OBVIOUS
<1>5. position = Len(planned) + 1
  BY <1>2 DEF DiscoveryInv, PlanInv
<1> HIDE DEF file
<1>6. DiscoveryTypes' /\ PlanInv' /\ ProbeInv'
  BY <1>1, <1>2, <1>3, <1>5, PlanRests
<1>7. /\ files'["planned"] = file /\ files'["observed"] = files["observed"]
      /\ files'["surface"] = files["surface"]
  BY <1>1 DEF DiscoveryInv, DiscoveryTypes
<1>8. /\ files["planned"].discovery \in Nat /\ files["observed"].discovery \in Nat
      /\ discovery \in Nat /\ files["planned"].discovery < discovery
      /\ files["observed"].discovery <= files["planned"].discovery
      /\ files["observed"].discovery < discovery
  <2>1. files["planned"].discovery \in Nat /\ files["observed"].discovery \in Nat
    BY DEF DiscoveryInv, DiscoveryTypes, FileType
  <2>2. discovery \in Nat /\ files["planned"].discovery < discovery
    <3>1. discovery \in Nat
      BY DiscoveryAssumption DEF DiscoveryInv, DiscoveryTypes
    <3> QED
      BY <1>1, <3>1 DEF DiscoveryInv, WrittenInv
  <2>3. files["observed"].discovery <= files["planned"].discovery
    BY DEF DiscoveryInv, FilesAgree
  <2> QED
    BY <2>1, <2>2, <2>3
<1>9. WrittenInv'
  BY <1>1, <1>3, <1>4, <1>7, <1>8 DEF WrittenInv
<1>10. FilesAgree'
  <2>1. IsInjective(ArgsOf(planned))
    <3>1. IsInjective(Chosen(Examples))
      BY ExamplesHold, ChosenDiffer DEF DiscoveryInv, DiscoveryTypes
    <3> QED
      BY <1>2, <3>1 DEF DiscoveryInv, PlanInv
  <2> QED
    BY <1>3, <1>4, <1>7, <1>8, <2>1 DEF DiscoveryInv, FilesAgree
<1> QED
  BY <1>6, <1>9, <1>10 DEF DiscoveryInv

\* The observations are of the plan on disk.
LEMMA WriteObservedKeepsDiscovery == DiscoveryInv /\ WriteObserved => DiscoveryInv'
<1> SUFFICES ASSUME DiscoveryInv, WriteObserved PROVE DiscoveryInv'
  OBVIOUS
<1> DEFINE file == [discovery |-> discovery, probes |-> Safe(planned),
             behaviors |-> behaviors]
<1>1. /\ phase = "write observed" /\ phase' = "write surface"
      /\ UNCHANGED <<task, attempt, heard, probing>>
      /\ files' = [files EXCEPT !["observed"] = file]
      /\ discovery' = discovery /\ planned' = planned /\ behaviors' = behaviors
  BY DEF WriteObserved, WriteFile, task, probing
<1>2. phase \in WithPlan /\ phase' \in WithPlan \ {"probe"}
      /\ phase \in WithPlan \ {"probe"}
  BY <1>1 DEF WithPlan
<1>3. /\ Safe(planned) \in Seq(Arguments) /\ IsSelectionOf(Safe(planned), ArgsOf(planned))
      /\ IsSelectionOf(behaviors, Safe(planned))
  BY <1>2, SafeProbes
<1>4. file \in FileType /\ file.discovery = discovery
  BY <1>3, DiscoveryAssumption DEF DiscoveryInv, DiscoveryTypes, FileType
<1>5. file.probes = Safe(planned) /\ file.behaviors = behaviors
  OBVIOUS
<1>6. position = Len(planned) + 1
  BY <1>2 DEF DiscoveryInv, PlanInv
<1> HIDE DEF file
<1>7. DiscoveryTypes' /\ PlanInv' /\ ProbeInv'
  BY <1>1, <1>2, <1>4, <1>6, PlanRests
<1>8. /\ files'["planned"] = files["planned"] /\ files'["observed"] = file
      /\ files'["surface"] = files["surface"]
  BY <1>1 DEF DiscoveryInv, DiscoveryTypes
<1>9. /\ files["observed"].discovery \in Nat /\ files["surface"].discovery \in Nat
      /\ discovery \in Nat /\ files["observed"].discovery < discovery
      /\ files["surface"].discovery < discovery
      /\ files["planned"].discovery = discovery /\ files["planned"].probes = ArgsOf(planned)
  <2>1. files["surface"].discovery \in Nat /\ files["observed"].discovery \in Nat
    BY DEF DiscoveryInv, DiscoveryTypes, FileType
  <2>2. /\ discovery \in Nat /\ files["observed"].discovery < discovery
        /\ files["planned"].discovery = discovery
           /\ files["planned"].probes = ArgsOf(planned)
    <3>1. discovery \in Nat
      BY DiscoveryAssumption DEF DiscoveryInv, DiscoveryTypes
    <3> QED
      BY <1>1, <3>1 DEF DiscoveryInv, WrittenInv
  <2>3. files["surface"].discovery <= files["observed"].discovery
    BY DEF DiscoveryInv, FilesAgree
  <2> QED
    BY <2>1, <2>2, <2>3
<1>10. WrittenInv'
  <2>1. Safe(planned)' = Safe(planned) /\ ArgsOf(planned)' = ArgsOf(planned)
    BY <1>1
  <2> QED
    BY <1>1, <1>4, <1>5, <1>8, <1>9, <2>1 DEF WrittenInv
<1>11. FilesAgree'
  BY <1>3, <1>4, <1>5, <1>8, <1>9 DEF DiscoveryInv, FilesAgree
<1> QED
  BY <1>7, <1>10, <1>11 DEF DiscoveryInv

\* The surface is of the observations on disk.
LEMMA WriteSurfaceKeepsDiscovery == DiscoveryInv /\ WriteSurface => DiscoveryInv'
<1> SUFFICES ASSUME DiscoveryInv, WriteSurface PROVE DiscoveryInv'
  OBVIOUS
<1> DEFINE file == [discovery |-> discovery, probes |-> <<>>, behaviors |-> behaviors]
<1>1. /\ phase = "write surface" /\ phase' = "returned"
      /\ UNCHANGED <<task, attempt, heard, probing>>
      /\ files' = [files EXCEPT !["surface"] = file]
      /\ discovery' = discovery /\ planned' = planned /\ behaviors' = behaviors
  BY DEF WriteSurface, WriteFile, task, probing
<1>2. phase \in WithPlan /\ phase' \in WithPlan \ {"probe"}
      /\ phase \in WithPlan \ {"probe"}
  BY <1>1 DEF WithPlan
<1>3. file \in FileType /\ file.discovery = discovery
  BY DiscoveryAssumption DEF DiscoveryInv, DiscoveryTypes, FileType
<1>4. file.behaviors = behaviors
  OBVIOUS
<1>5. position = Len(planned) + 1
  BY <1>2 DEF DiscoveryInv, PlanInv
<1> HIDE DEF file
<1>6. DiscoveryTypes' /\ PlanInv' /\ ProbeInv'
  BY <1>1, <1>2, <1>3, <1>5, PlanRests
<1>7. /\ files'["planned"] = files["planned"] /\ files'["observed"] = files["observed"]
      /\ files'["surface"] = file
  BY <1>1 DEF DiscoveryInv, DiscoveryTypes
<1>8. WrittenInv'
  <2>1. Safe(planned)' = Safe(planned) /\ ArgsOf(planned)' = ArgsOf(planned)
    BY <1>1
  <2> QED
    BY <1>1, <1>7, <2>1 DEF DiscoveryInv, WrittenInv
<1>9. FilesAgree'
  <2>1. /\ files["observed"].discovery = discovery
           /\ files["observed"].behaviors = behaviors
        /\ discovery \in Nat
    <3>1. discovery \in Nat
      BY DiscoveryAssumption DEF DiscoveryInv, DiscoveryTypes
    <3> QED
      BY <1>1, <3>1 DEF DiscoveryInv, WrittenInv
  <2> QED
    BY <1>3, <1>4, <1>7, <2>1 DEF DiscoveryInv, FilesAgree
<1> QED
  BY <1>6, <1>8, <1>9 DEF DiscoveryInv

\* Each step of a discovery, and its end at any time.
LEMMA NextKeepsDiscovery == DiscoveryInv /\ [DiscoveryNext]_discoveryVars => DiscoveryInv'
<1> SUFFICES ASSUME DiscoveryInv, [DiscoveryNext]_discoveryVars PROVE DiscoveryInv'
  OBVIOUS
<1>1. CASE Discover
  BY <1>1, DiscoverKeepsDiscovery
<1>2. CASE HelpAnswers \/ HelpPassedOver
  <2>1. UNCHANGED <<task, probing, files>> /\ phase' = phase /\ phase = "help"
    BY <1>2 DEF HelpAnswers, HelpPassedOver, AskingHelp
  <2>2. attempt' \in 1 .. Len(HelpArgs) + 1
    <3>1. Len(HelpArgs) = 4
      BY DEF HelpArgs
    <3> QED
      BY <1>2, <3>1 DEF HelpAnswers, HelpPassedOver, AskingHelp, DiscoveryInv,
           DiscoveryTypes
  <2> QED
    BY <2>1, <2>2, DiscoveryRests
<1>3. CASE HelpRaises \/ ProbeRaises \/ KillDiscovery
  <2>1. UNCHANGED <<task, attempt, heard, probing, files>> /\ phase' = "idle"
    BY <1>3 DEF HelpRaises, ProbeRaises, KillDiscovery
  <2>2. attempt' \in 1 .. Len(HelpArgs) + 1
    BY <2>1 DEF DiscoveryInv, DiscoveryTypes
  <2> QED
    BY <2>1, <2>2, DiscoveryRests
<1>4. CASE Plan
  BY <1>4, PlanKeepsDiscovery
<1>5. CASE SkipProbe \/ ProbeAnswers \/ ProbePassedOver
  <2>1. AtProbe /\ position' = position + 1 /\ phase' = phase
        /\ UNCHANGED <<task, attempt, heard, planned, files>>
    BY <1>5 DEF SkipProbe, ProbeAnswers, ProbePassedOver
  <2>2. \/ ~ Runnable /\ UNCHANGED <<behaviors, unanswered>>
        \/ /\ Runnable /\ UNCHANGED behaviors
           /\ unanswered' = unanswered \cup {planned[position].args}
        \/ /\ Runnable /\ UNCHANGED unanswered
           /\ behaviors' = Append(behaviors, planned[position].args)
    BY <1>5 DEF SkipProbe, ProbeAnswers, ProbePassedOver
  <2> QED
    BY <2>1, <2>2, ProbeKeepsDiscovery
<1>6. CASE EndProbes
  BY <1>6, EndProbesKeepsDiscovery
<1>7. CASE WritePlan
  BY <1>7, WritePlanKeepsDiscovery
<1>8. CASE WriteObserved
  BY <1>8, WriteObservedKeepsDiscovery
<1>9. CASE WriteSurface
  BY <1>9, WriteSurfaceKeepsDiscovery
<1>10. CASE UNCHANGED discoveryVars
  <2>1. UNCHANGED <<task, attempt, heard, probing, files>> /\ phase' = phase
    BY <1>10 DEF discoveryVars, task, probing
  <2>2. attempt' \in 1 .. Len(HelpArgs) + 1
    BY <2>1 DEF DiscoveryInv, DiscoveryTypes
  <2> QED
    BY <2>1, <2>2, DiscoveryRests
<1> QED
  BY <1>1, <1>2, <1>3, <1>4, <1>5, <1>6, <1>7, <1>8, <1>9, <1>10 DEF DiscoveryNext, Step

\* Whenever a discovery ends, by itself or not: its behaviours are those of safe
\* probes, in the order of a plan made of the examples, and each file holds what
\* was known when it was written (behavioral_surface.py:181-320).
THEOREM DiscoveryInvariant == DiscoverySpec => []DiscoveryInv
<1>1. DiscoveryInit => DiscoveryInv
  BY DiscoveryStarts
<1>2. DiscoveryInv /\ [DiscoveryNext]_discoveryVars => DiscoveryInv'
  BY NextKeepsDiscovery
<1> QED
  BY <1>1, <1>2, PTL DEF DiscoverySpec

\* The surface is never newer than the observations nor these than the plan, and
\* those of one discovery tell the same story, also when a discovery died between
\* two writes (behavioral_surface.py:297-320): for any documents, help texts and
\* rules, and any number of discoveries.
THEOREM DiscoveryArtifactsAgree == DiscoverySpec => []ArtifactsAgree
<1>1. DiscoveryInv => ArtifactsAgree
  <2> SUFFICES ASSUME DiscoveryInv PROVE DiscoveryTypeOK /\ FilesAgree
    BY DEF ArtifactsAgree
  <2>1. \A f \in DOMAIN files : files[f].discovery \in 0 .. discovery
    <3> SUFFICES ASSUME NEW f \in DOMAIN files PROVE files[f].discovery \in 0 .. discovery
      OBVIOUS
    <3>1. files[f] \in FileType /\ files[f].discovery <= discovery /\ discovery \in Nat
      BY DiscoveryAssumption DEF DiscoveryInv, DiscoveryTypes
    <3> QED
      BY <3>1 DEF FileType
  <2> QED
    BY <2>1 DEF DiscoveryInv, DiscoveryTypes, DiscoveryTypeOK
<1> QED
  BY <1>1, DiscoveryInvariant, PTL

\* A help text that could be had is in a plan with room, and a safe probe has a
\* behaviour unless the program did not answer, for rules that look at arguments
\* only (behavioral_surface.py:181-294).
THEOREM DiscoveryCarriesOut == DiscoverySpec => []PlanIsCarriedOut
<1>1. DiscoveryInv => HelpReachesThePlan
  <2> SUFFICES ASSUME DiscoveryInv, phase = "returned", heard,
                      Len(files["planned"].probes) < MaxProbes
               PROVE  /\ ToSet(inputs.help.usages) \subseteq ToSet(files["planned"].probes)
                      /\ "--help" \in ToSet(files["planned"].probes)
    BY DEF HelpReachesThePlan
  <2>1. files["planned"].probes = Chosen(Examples)
    BY DEF DiscoveryInv, WrittenInv, PlanInv, WithPlan
  <2>2. /\ Examples \in Seq(Arguments)
        /\ ToSet(inputs.help.usages) \subseteq ToSet(Examples)
           /\ "--help" \in ToSet(Examples)
    BY ExamplesHold DEF DiscoveryInv, DiscoveryTypes
  <2>3. ToSet(Examples) \subseteq ToSet(Chosen(Examples))
    BY <2>1, <2>2, ChosenDiffer
  <2> QED
    BY <2>1, <2>2, <2>3
<1>2. DiscoveryInv => SafeProbesAreRun
  <2> SUFFICES ASSUME DiscoveryInv, phase = "returned", PatternsOnArguments
               PROVE  ToSet(files["observed"].probes)
                        = ToSet(files["observed"].behaviors) \cup unanswered
    BY DEF SafeProbesAreRun
  <2>1. phase \in WithPlan \ {"probe"}
    BY DEF WithPlan
  <2>2. files["observed"].probes = Safe(planned) /\ files["observed"].behaviors = behaviors
    BY DEF DiscoveryInv, WrittenInv
  <2>3. ToSet(Safe(planned)) = SafeUpTo(position - 1)
    BY <2>1, SafeProbes
  <2>4. SafeUpTo(position - 1) = ToSet(behaviors) \cup unanswered
    BY <2>1 DEF DiscoveryInv, ProbeInv
  <2> QED
    BY <2>2, <2>3, <2>4
<1> QED
  BY <1>1, <1>2, DiscoveryInvariant, PTL DEF PlanIsCarriedOut

-----------------------------------------------------------------------------
(* The ranges of missing lines.                                            *)

\* A finite set of numbers has a greatest one.
LEMMA GreatestNumber ==
  ASSUME NEW S \in SUBSET Nat, IsFiniteSet(S), S # {}
  PROVE  Max(S) \in S /\ \A n \in S : n <= Max(S)
<1> DEFINE HasMax(s) == \E x \in s : \A y \in s : x >= y
           Sized == {n \in Nat : \A s \in SUBSET S : Cardinality(s) = n + 1 => HasMax(s)}
<1>1. 0 \in Sized
  <2> SUFFICES ASSUME NEW s \in SUBSET S, Cardinality(s) = 0 + 1 PROVE HasMax(s)
    OBVIOUS
  <2>1. IsFiniteSet(s) /\ Cardinality(s) = 1
    <3>1. 0 + 1 = 1
      OBVIOUS
    <3> QED
      BY <3>1, FS_Subset
  <2>2. PICK x : s = {x}
    BY <2>1, FS_Singleton
  <2>3. x \in Nat
    BY <2>2
  <2> QED
    BY <2>2, <2>3
<1>2. ASSUME NEW n \in Nat, n \in Sized PROVE n + 1 \in Sized
  <2> SUFFICES ASSUME NEW s \in SUBSET S, Cardinality(s) = (n + 1) + 1 PROVE HasMax(s)
    OBVIOUS
  <2>1. IsFiniteSet(s) /\ s # {}
    <3>1. (n + 1) + 1 # 0
      OBVIOUS
    <3> QED
      BY <3>1, FS_Subset, FS_EmptySet
  <2>2. PICK z : z \in s
    BY <2>1
  <2>3. Cardinality(s \ {z}) = n + 1 /\ s \ {z} \in SUBSET S
    <3>1. Cardinality(s \ {z}) = Cardinality(s) - 1
      BY <2>1, <2>2, FS_RemoveElement
    <3>2. ((n + 1) + 1) - 1 = n + 1
      OBVIOUS
    <3> QED
      BY <3>1, <3>2
  <2>4. PICK x \in s \ {z} : \A y \in s \ {z} : x >= y
    BY <1>2, <2>3
  <2>5. x \in Nat /\ z \in Nat /\ \A y \in s : y \in Nat
    BY <2>2, <2>4
  <2>6. CASE x >= z
    BY <2>4, <2>6
  <2>7. CASE z >= x
    <3>1. \A y \in s : z >= y
      BY <2>4, <2>5, <2>7
    <3> QED
      BY <2>2, <3>1
  <2> QED
    BY <2>5, <2>6, <2>7
<1>3. Nat \subseteq Sized
  <2> HIDE DEF Sized
  <2> QED
    BY <1>1, <1>2, AllNumbers
<1>4. Cardinality(S) \in Nat /\ Cardinality(S) # 0
  BY FS_CardinalityType, FS_EmptySet
<1>5. Cardinality(S) - 1 \in Nat /\ (Cardinality(S) - 1) + 1 = Cardinality(S)
  BY <1>4
<1>6. HasMax(S)
  <2>1. Cardinality(S) - 1 \in Sized
    BY <1>3, <1>5
  <2>2. S \in SUBSET S
    OBVIOUS
  <2> HIDE DEF HasMax
  <2> QED
    BY <1>5, <2>1, <2>2
<1>7. Max(S) \in S /\ \A y \in S : Max(S) >= y
  BY <1>6 DEF Max
<1> QED
  BY <1>7

\* The ranges of a file: of numbers, and of the functions of its lines.
RangeType(spans) ==
  [start : Nat, end : Nat, function : {FunctionForLine(l, spans) : l \in Nat}]

LastLine(lines) == Max(lines \cup {0})

IsScan(upTo, lines, spans) ==
  upTo = [line \in 0 .. LastLine(lines) |->
            IF line = 0 THEN <<>>
            ELSE IF line \in lines
              THEN AddLine(upTo[line - 1], line, FunctionForLine(line, spans))
              ELSE upTo[line - 1]]

\* The ranges of the first n lines.
RangesUpTo(lines, spans, n) == (CHOOSE upTo : IsScan(upTo, lines, spans))[n]

\* The ranges are those of the lines up to the last.
LEMMA RangesAreScanned ==
  ASSUME NEW lines, NEW spans
  PROVE  MissingRanges(lines, spans) = RangesUpTo(lines, spans, LastLine(lines))
  BY Zenon DEF MissingRanges, RangesUpTo, IsScan, LastLine

ScansNext(lines, spans, n) ==
  RangesUpTo(lines, spans, n + 1) =
    IF n + 1 \in lines
      THEN AddLine(RangesUpTo(lines, spans, n), n + 1, FunctionForLine(n + 1, spans))
      ELSE RangesUpTo(lines, spans, n)

\* There is a last line.
LEMMA LastLineType ==
  ASSUME NEW lines \in SUBSET (Nat \ {0}), IsFiniteSet(lines)
  PROVE  LastLine(lines) \in Nat /\ \A l \in lines : l <= LastLine(lines)
<1> DEFINE S == lines \cup {0}
<1>1. S \in SUBSET Nat /\ S # {} /\ IsFiniteSet(S)
  BY FS_AddElement
<1> HIDE DEF S
<1>2. Max(S) \in S /\ \A n \in S : n <= Max(S)
  BY <1>1, GreatestNumber
<1> QED
  BY <1>1, <1>2 DEF S, LastLine

\* One line more, of a known type.
LEMMA AddLineType ==
  ASSUME NEW spans, NEW ranges \in Seq(RangeType(spans)), NEW line \in Nat
  PROVE  AddLine(ranges, line, FunctionForLine(line, spans)) \in Seq(RangeType(spans))
<1> DEFINE name == FunctionForLine(line, spans)
           T == RangeType(spans)
           k == Len(ranges)
           opened == [start |-> line, end |-> line, function |-> name]
           longer == [ranges[k] EXCEPT !.end = line]
<1>1. opened \in T
  BY DEF RangeType
<1>2. Append(ranges, opened) \in Seq(T)
  <2> HIDE DEF opened, T
  <2> QED
    BY <1>1 DEF T
<1>3. ASSUME ranges # <<>> PROVE [ranges EXCEPT ![k] = longer] \in Seq(T)
  <2>1. k \in 1 .. Len(ranges)
    BY <1>3
  <2>2. ranges[k] \in T
    BY <2>1
  <2>3. longer \in T
    BY <2>2 DEF RangeType
  <2> HIDE DEF longer, T, k
  <2> QED
    BY <2>1, <2>3 DEF T
<1>4. [ranges EXCEPT ![Len(ranges)].end = line] = [ranges EXCEPT ![k] = longer]
  OBVIOUS
<1> QED
  BY <1>2, <1>3, <1>4 DEF AddLine

\* The scan starts with no ranges and goes on line by line.
LEMMA RangesStep ==
  ASSUME NEW lines \in SUBSET (Nat \ {0}), IsFiniteSet(lines), NEW spans
  PROVE  /\ RangesUpTo(lines, spans, 0) = <<>>
         /\ \A n \in Nat : n + 1 <= LastLine(lines) => ScansNext(lines, spans, n)
<1> DEFINE N == LastLine(lines)
           A == Seq(RangeType(spans))
           Grow(r, n) == IF n \in lines THEN AddLine(r, n, FunctionForLine(n, spans)) ELSE r
           step == [p \in A \X Nat |-> Grow(p[1], p[2])]
           W(u) == IsScan(u, lines, spans)
<1>1. N \in Nat /\ <<>> \in A
  BY LastLineType
<1>2. step \in [A \X Nat -> A]
  <2>1. \A r \in A : \A n \in Nat : Grow(r, n) \in A
    BY AddLineType
  <2> HIDE DEF Grow, A
  <2> QED
    BY <2>1
<1> HIDE DEF N
<1>3. PICK f \in [0 .. N -> A] : StepByStep(f, N, <<>>, step)
  <2> HIDE DEF N, step, A
  <2> QED
    BY <1>1, <1>2, StepsDefineFunction
<1>4. ASSUME NEW n \in 1 .. N
      PROVE  f[n] = IF n \in lines THEN AddLine(f[n - 1], n, FunctionForLine(n, spans))
                    ELSE f[n - 1]
  <2> HIDE DEF A
  <2>1. f[n] = step[<<f[n - 1], n>>]
    BY <1>3 DEF StepByStep
  <2>2. f[n - 1] \in A /\ n \in Nat
    BY <1>1
  <2>3. step[<<f[n - 1], n>>] = Grow(f[n - 1], n)
    <3> HIDE DEF Grow
    <3> QED
      BY <2>2
  <2> QED
    BY <2>1, <2>3
<1>5. W(f)
  <2> HIDE DEF A, step
  <2>1. f[0] = <<>>
    BY <1>3 DEF StepByStep
  <2>2. ASSUME NEW n \in 0 .. N
        PROVE  f[n] = IF n = 0 THEN <<>>
                      ELSE IF n \in lines THEN AddLine(f[n - 1], n, FunctionForLine(n,
                        spans))
                      ELSE f[n - 1]
    <3>1. n = 0 \/ n \in 1 .. N
      BY <1>1
    <3> QED
      BY <1>4, <2>1, <3>1
  <2>3. f = [n \in 0 .. N |-> f[n]]
    OBVIOUS
  <2> QED
    BY <2>2, <2>3, Zenon DEF IsScan, N
<1> DEFINE u == CHOOSE u : W(u)
<1>6. W(u)
  <2> HIDE DEF W
  <2> QED
    BY <1>5
<1>7. \A n \in 0 .. N : RangesUpTo(lines, spans, n) = u[n]
  BY DEF RangesUpTo
<1> HIDE DEF u
<1>8. \A n \in 0 .. N :
        u[n] = IF n = 0 THEN <<>>
               ELSE IF n \in lines THEN AddLine(u[n - 1], n, FunctionForLine(n, spans))
               ELSE u[n - 1]
  BY <1>6 DEF IsScan, N
<1> HIDE DEF W, A, step
<1>9. RangesUpTo(lines, spans, 0) = <<>>
  <2>1. 0 \in 0 .. N
    BY <1>1
  <2> QED
    BY <1>7, <1>8, <2>1
<1>10. ASSUME NEW n \in Nat, n + 1 <= N PROVE ScansNext(lines, spans, n)
  <2>1. n + 1 \in 0 .. N /\ n \in 0 .. N /\ n + 1 # 0 /\ (n + 1) - 1 = n
    BY <1>1, <1>10
  <2>2. u[n + 1] = IF n + 1 \in lines THEN AddLine(u[n], n + 1, FunctionForLine(n + 1,
          spans))
                   ELSE u[n]
    BY <1>8, <2>1
  <2>3. RangesUpTo(lines, spans, n + 1) = u[n + 1] /\ RangesUpTo(lines, spans, n) = u[n]
    BY <1>7, <2>1
  <2> QED
    BY <2>2, <2>3 DEF ScansNext
<1> QED
  BY <1>9, <1>10 DEF N

\* What is true of the ranges of the first n lines: each has lines of one function
\* that are missing, in their order, with every missing line in one of them, and
\* no two could be one.
RangeFits(r, lines, spans, n) ==
  /\ 1 <= r.start /\ r.start <= r.end /\ r.end <= n
  /\ \A l \in r.start .. r.end : l \in lines /\ FunctionForLine(l, spans) = r.function

RangesApart(p, q) ==
  p.end < q.start /\ (p.end < q.start - 1 \/ p.function # q.function)

RangesAreGood(ranges, lines, spans, n) ==
  /\ ranges \in Seq(RangeType(spans))
  /\ \A i \in 1 .. Len(ranges) : RangeFits(ranges[i], lines, spans, n)
  /\ \A l \in lines : l <= n =>
       \E i \in 1 .. Len(ranges) : ranges[i].start <= l /\ l <= ranges[i].end
  /\ \A i, j \in 1 .. Len(ranges) : i < j => RangesApart(ranges[i], ranges[j])

\* A line that was executed.
LEMMA GoodWithoutLine ==
  ASSUME NEW lines \in SUBSET (Nat \ {0}), NEW spans, NEW n \in Nat, n + 1 \notin lines,
         NEW ranges, RangesAreGood(ranges, lines, spans, n)
  PROVE  RangesAreGood(ranges, lines, spans, n + 1)
<1>1. ranges \in Seq(RangeType(spans))
  BY DEF RangesAreGood
<1>2. \A i \in 1 .. Len(ranges) : RangeFits(ranges[i], lines, spans, n + 1)
  <2> SUFFICES ASSUME NEW i \in 1 .. Len(ranges) PROVE RangeFits(ranges[i], lines, spans,
                        n + 1)
    OBVIOUS
  <2>1. ranges[i] \in RangeType(spans)
    BY <1>1
  <2>2. ranges[i].end \in Nat
    BY <2>1 DEF RangeType
  <2> QED
    BY <2>2 DEF RangesAreGood, RangeFits
<1>3. \A l \in lines : l <= n + 1 => l <= n
  OBVIOUS
<1> QED
  BY <1>1, <1>2, <1>3 DEF RangesAreGood

\* A missing line that opens a range.
LEMMA GoodWithRange ==
  ASSUME NEW lines \in SUBSET (Nat \ {0}), NEW spans, NEW n \in Nat, n + 1 \in lines,
         NEW ranges, RangesAreGood(ranges, lines, spans, n),
         ranges # <<>> => ~ Extends(Last(ranges), n + 1, FunctionForLine(n + 1, spans))
  PROVE  RangesAreGood(Append(ranges, [start |-> n + 1, end |-> n + 1,
                                       function |-> FunctionForLine(n + 1, spans)]),
                       lines, spans, n + 1)
<1> DEFINE r == [start |-> n + 1, end |-> n + 1, function |-> FunctionForLine(n + 1, spans)]
           a == Append(ranges, r)
           k == Len(ranges)
<1>1. /\ r \in RangeType(spans) /\ r.start = n + 1 /\ r.end = n + 1
      /\ r.function = FunctionForLine(n + 1, spans)
  BY DEF RangeType
<1>2. ranges \in Seq(RangeType(spans)) /\ k \in Nat
  BY DEF RangesAreGood
<1> HIDE DEF r
<1>3. /\ a \in Seq(RangeType(spans)) /\ Len(a) = k + 1 /\ a[k + 1] = r
      /\ \A i \in 1 .. k : a[i] = ranges[i] /\ a[i] \in RangeType(spans)
  BY <1>1, <1>2
<1> HIDE DEF a
<1>4. \A i \in 1 .. k : a[i].start \in Nat /\ a[i].end \in Nat
  BY <1>3 DEF RangeType
<1>5. \A i \in 1 .. k : RangeFits(a[i], lines, spans, n)
  BY <1>3 DEF RangesAreGood
<1>6. \A i \in 1 .. k + 1 : i \in 1 .. k \/ i = k + 1
  BY <1>2
<1>7. \A i \in 1 .. k + 1 : RangeFits(a[i], lines, spans, n + 1)
  <2>1. RangeFits(r, lines, spans, n + 1)
    <3>1. \A l \in r.start .. r.end : l = n + 1
      BY <1>1
    <3> QED
      BY <1>1, <3>1 DEF RangeFits
  <2>2. \A i \in 1 .. k : RangeFits(a[i], lines, spans, n + 1)
    BY <1>4, <1>5 DEF RangeFits
  <2> QED
    BY <1>3, <1>6, <2>1, <2>2
<1>8. ASSUME NEW l \in lines, l <= n + 1
      PROVE  \E i \in 1 .. k + 1 : a[i].start <= l /\ l <= a[i].end
  <2>1. CASE l = n + 1
    <3>1. k + 1 \in 1 .. k + 1
      BY <1>2
    <3> QED
      BY <1>1, <1>3, <2>1, <3>1
  <2>2. CASE l <= n
    <3>1. PICK i \in 1 .. k : ranges[i].start <= l /\ l <= ranges[i].end
      BY <2>2 DEF RangesAreGood
    <3>2. i \in 1 .. k + 1
      BY <1>2
    <3> QED
      BY <1>3, <3>1, <3>2
  <2> QED
    BY <1>8, <2>1, <2>2
<1>9. ASSUME NEW i \in 1 .. k + 1, NEW j \in 1 .. k + 1, i < j
      PROVE  RangesApart(a[i], a[j])
  <2>1. i \in 1 .. k
    BY <1>2, <1>9
  <2>2. CASE j \in 1 .. k
    BY <1>3, <1>9, <2>1, <2>2 DEF RangesAreGood
  <2>3. CASE j = k + 1
    <3>1. a[j] = r /\ a[i].end <= n /\ a[i].end \in Nat
      BY <1>3, <1>4, <1>5, <2>1, <2>3 DEF RangeFits
    <3>2. CASE a[i].end < n
      BY <1>1, <3>1, <3>2 DEF RangesApart
    <3>3. CASE a[i].end = n
      <4>1. i = k
        <5> SUFFICES ASSUME i # k PROVE FALSE
          OBVIOUS
        <5>1. k \in 1 .. k /\ i < k
          BY <1>2, <2>1
        <5>2. RangesApart(a[i], a[k])
          BY <1>3, <2>1, <5>1 DEF RangesAreGood
        <5>3. a[i].end < a[k].start /\ a[k].start <= a[k].end /\ a[k].end <= n
          BY <1>5, <5>1, <5>2 DEF RangesApart, RangeFits
        <5> QED
          BY <1>4, <2>1, <3>3, <5>1, <5>3
      <4>2. Last(ranges) = a[i] /\ ranges # <<>>
        BY <1>2, <1>3, <2>1, <4>1 DEF Last
      <4>3. FunctionForLine(n + 1, spans) # a[i].function
        BY <3>3, <4>2 DEF Extends
      <4> QED
        BY <1>1, <3>1, <3>3, <4>3 DEF RangesApart
    <3> QED
      BY <3>1, <3>2, <3>3
  <2> QED
    BY <1>6, <2>2, <2>3
<1>10. RangesAreGood(a, lines, spans, n + 1)
  BY <1>3, <1>7, <1>8, <1>9 DEF RangesAreGood
<1> QED
  BY <1>10 DEF a, r

\* A missing line that goes to the range that is open.
LEMMA GoodWithLonger ==
  ASSUME NEW lines \in SUBSET (Nat \ {0}), NEW spans, NEW n \in Nat, n + 1 \in lines,
         NEW ranges, RangesAreGood(ranges, lines, spans, n), ranges # <<>>,
         Extends(Last(ranges), n + 1, FunctionForLine(n + 1, spans))
  PROVE  RangesAreGood([ranges EXCEPT ![Len(ranges)].end = n + 1], lines, spans, n + 1)
<1> DEFINE k == Len(ranges)
           a == [ranges EXCEPT ![Len(ranges)].end = n + 1]
<1>1. /\ ranges \in Seq(RangeType(spans)) /\ k \in Nat /\ k \in 1 .. k
         /\ Last(ranges) = ranges[k]
      /\ k = Len(ranges)
  BY DEF RangesAreGood, Last
<1>2. \A i \in 1 .. k : ranges[i] \in RangeType(spans)
  BY <1>1
<1>3. \A i \in 1 .. k : ranges[i].start \in Nat /\ ranges[i].end \in Nat
  BY <1>2 DEF RangeType
<1>4. \A i \in 1 .. k : RangeFits(ranges[i], lines, spans, n)
  BY DEF RangesAreGood
<1>5. ranges[k].end = n /\ ranges[k].function = FunctionForLine(n + 1, spans)
  BY <1>1, <1>3 DEF Extends
<1>6. /\ Len(a) = k /\ a[k] = [ranges[k] EXCEPT !.end = n + 1]
      /\ \A i \in 1 .. k : i # k => a[i] = ranges[i]
  BY <1>1
<1>7. /\ a[k].start = ranges[k].start /\ a[k].end = n + 1
         /\ a[k].function = ranges[k].function
      /\ a[k] \in RangeType(spans)
  <2>1. ranges[k] \in RangeType(spans)
    BY <1>1, <1>2
  <2> QED
    BY <1>6, <2>1 DEF RangeType
<1>8. a \in Seq(RangeType(spans))
  <2>1. \A i \in 1 .. k : a[i] \in RangeType(spans)
    BY <1>2, <1>6, <1>7
  <2>2. a = [i \in 1 .. k |-> a[i]]
    BY <1>1
  <2> HIDE DEF a
  <2> QED
    BY <1>1, <2>1, <2>2
<1> HIDE DEF a, k
<1>9. \A i \in 1 .. k : RangeFits(a[i], lines, spans, n + 1)
  <2> SUFFICES ASSUME NEW i \in 1 .. k PROVE RangeFits(a[i], lines, spans, n + 1)
    OBVIOUS
  <2>1. CASE i # k
    <3>1. a[i] = ranges[i] /\ RangeFits(ranges[i], lines, spans, n) /\ ranges[i].end \in Nat
      BY <1>3, <1>4, <1>6, <2>1
    <3> QED
      BY <3>1 DEF RangeFits
  <2>2. CASE i = k
    <3>1. RangeFits(ranges[k], lines, spans, n)
      BY <1>1, <1>4
    <3>2. ASSUME NEW l \in a[k].start .. a[k].end
          PROVE  l \in lines /\ FunctionForLine(l, spans) = a[k].function
      <4>1. l = n + 1 \/ l \in ranges[k].start .. ranges[k].end
        BY <1>1, <1>3, <1>5, <1>7
      <4> QED
        BY <1>5, <1>7, <3>1, <4>1 DEF RangeFits
    <3>3. 1 <= a[k].start /\ a[k].start <= a[k].end /\ a[k].end <= n + 1
      BY <1>1, <1>3, <1>5, <1>7, <3>1 DEF RangeFits
    <3> QED
      BY <2>2, <3>2, <3>3 DEF RangeFits
  <2> QED
    BY <2>1, <2>2
<1>10. ASSUME NEW l \in lines, l <= n + 1
       PROVE  \E i \in 1 .. k : a[i].start <= l /\ l <= a[i].end
  <2>1. CASE l = n + 1
    <3>1. a[k].start <= n + 1
      BY <1>1, <1>9, <1>7 DEF RangeFits
    <3> QED
      BY <1>1, <1>7, <2>1, <3>1
  <2>2. CASE l <= n
    <3>1. PICK i \in 1 .. k : ranges[i].start <= l /\ l <= ranges[i].end
      BY <1>1, <2>2 DEF RangesAreGood
    <3>2. i = k => l <= n + 1
      BY <2>2
    <3> QED
      BY <1>6, <1>7, <3>1, <3>2
  <2>3. l \in Nat
    OBVIOUS
  <2> QED
    BY <1>10, <2>1, <2>2, <2>3
<1>11. ASSUME NEW i \in 1 .. k, NEW j \in 1 .. k, i < j
       PROVE  RangesApart(a[i], a[j])
  <2>1. RangesApart(ranges[i], ranges[j])
    BY <1>1, <1>11 DEF RangesAreGood
  <2>2. i # k
    BY <1>1, <1>11
  <2>3. a[i] = ranges[i] /\ a[j].start = ranges[j].start
        /\ a[j].function = ranges[j].function
    BY <1>6, <1>7, <2>2
  <2> QED
    BY <2>1, <2>3 DEF RangesApart
<1>12. RangesAreGood(a, lines, spans, n + 1)
  BY <1>6, <1>8, <1>9, <1>10, <1>11 DEF RangesAreGood
<1> QED
  BY <1>12 DEF a

\* The ranges of all lines are good.
LEMMA MissingRangesAreGood ==
  ASSUME NEW lines \in SUBSET (Nat \ {0}), IsFiniteSet(lines), NEW spans
  PROVE  /\ LastLine(lines) \in Nat /\ \A l \in lines : l <= LastLine(lines)
         /\ RangesAreGood(MissingRanges(lines, spans), lines, spans, LastLine(lines))
<1> DEFINE N == LastLine(lines)
           R(n) == RangesUpTo(lines, spans, n)
           Done == {n \in Nat : n <= N => RangesAreGood(R(n), lines, spans, n)}
<1>1. N \in Nat /\ \A l \in lines : l <= N
  BY LastLineType
<1>2. 0 \in Done
  <2>1. R(0) = <<>>
    BY RangesStep
  <2>2. \A l \in lines : ~ (l <= 0)
    OBVIOUS
  <2>3. RangesAreGood(<<>>, lines, spans, 0)
    <3>1. <<>> \in Seq(RangeType(spans)) /\ Len(<<>>) = 0
      OBVIOUS
    <3>2. 1 .. 0 = {}
      OBVIOUS
    <3> QED
      BY <2>2, <3>1, <3>2 DEF RangesAreGood
  <2> QED
    BY <2>1, <2>3
<1>3. ASSUME NEW n \in Nat, n \in Done PROVE n + 1 \in Done
  <2> SUFFICES ASSUME n + 1 <= N PROVE RangesAreGood(R(n + 1), lines, spans, n + 1)
    OBVIOUS
  <2>1. RangesAreGood(R(n), lines, spans, n)
    BY <1>1, <1>3
  <2>2. ScansNext(lines, spans, n)
    BY RangesStep
  <2> DEFINE r == R(n)
  <2> HIDE DEF N
  <2>3. R(n + 1) = IF n + 1 \in lines THEN AddLine(r, n + 1, FunctionForLine(n + 1,
          spans)) ELSE r
    BY <2>2 DEF ScansNext
  <2> HIDE DEF R
  <2> HIDE DEF r
  <2>4. RangesAreGood(r, lines, spans, n)
    BY <2>1 DEF r
  <2>5. CASE n + 1 \notin lines
    BY <2>3, <2>4, <2>5, GoodWithoutLine
  <2>6. CASE n + 1 \in lines
    <3>1. CASE r # <<>> /\ Extends(Last(r), n + 1, FunctionForLine(n + 1, spans))
      <4>1. RangesAreGood([r EXCEPT ![Len(r)].end = n + 1], lines, spans, n + 1)
        BY <2>4, <2>6, <3>1, GoodWithLonger
      <4> QED
        BY <2>3, <2>6, <3>1, <4>1 DEF AddLine
    <3>2. CASE ~ (r # <<>> /\ Extends(Last(r), n + 1, FunctionForLine(n + 1, spans)))
      <4>1. RangesAreGood(Append(r, [start |-> n + 1, end |-> n + 1,
                                     function |-> FunctionForLine(n + 1, spans)]),
                          lines, spans, n + 1)
        BY <2>4, <2>6, <3>2, GoodWithRange
      <4> QED
        BY <2>3, <2>6, <3>2, <4>1 DEF AddLine
    <3> QED
      BY <3>1, <3>2
  <2> QED
    BY <2>5, <2>6
<1>4. Nat \subseteq Done
  <2> HIDE DEF Done
  <2> QED
    BY <1>2, <1>3, AllNumbers
<1>5. RangesAreGood(R(N), lines, spans, N)
  BY <1>1, <1>4
<1> QED
  BY <1>1, <1>5, RangesAreScanned

\* The smallest function around a line.
SmallestName(l, spans) ==
  LET Around == {f \in spans : Covers(f, l)}
  IN  IF Around = {} THEN Module
      ELSE (CHOOSE f \in Around : \A g \in Around : f.end - f.start <= g.end - g.start).name

\* The function that starts last is the smallest one.
LEMMA InnermostIsSmallest ==
  ASSUME NEW spans \in SUBSET SpanType, Laminar(spans), NEW l \in Nat
  PROVE  FunctionForLine(l, spans) = SmallestName(l, spans)
<1> DEFINE A == {f \in spans : Covers(f, l)}
           Latest(s) == \A t \in A : LaterStart(s, t)
           Least(s) == \A t \in A : s.end - s.start <= t.end - t.start
<1>1. ASSUME NEW s \in A
      PROVE  s \in spans /\ s.start \in Nat /\ s.end \in Nat /\ s.start <= l /\ l <= s.end
  BY DEF Covers, SpanType
<1>2. ASSUME NEW s \in A, NEW t \in A, s # t PROVE Nested(s, t) \/ Nested(t, s)
  <2>1. ~ Apart(s, t) /\ ~ Apart(t, s)
    BY <1>1 DEF Apart
  <2> QED
    BY <1>1, <1>2, <2>1 DEF Laminar
<1>3. CASE A = {}
  BY <1>3 DEF FunctionForLine, SmallestName
<1>4. CASE A # {}
  <2> DEFINE Depths == {d \in Nat : \E s \in A : d = l - s.start}
  <2> HIDE DEF A
  <2>1. Depths \in SUBSET Nat /\ Depths # {}
    <3>1. PICK s : s \in A
      BY <1>4
    <3>2. l - s.start \in Nat
      BY <1>1, <3>1
    <3> QED
      BY <3>1, <3>2
  <2>2. PICK d \in Depths : \A e \in Depths : d <= e
    <3> HIDE DEF Depths
    <3> QED
      BY <2>1, LeastNumber
  <2>3. PICK s \in A : d = l - s.start
    BY <2>2
  <2>4. ASSUME NEW t \in A PROVE t.start <= s.start
    <3>1. l - t.start \in Depths
      BY <1>1
    <3>2. l - s.start <= l - t.start
      BY <2>2, <2>3, <3>1
    <3> QED
      BY <1>1, <2>3, <3>2
  <2>5. ASSUME NEW t \in A, t # s PROVE t.start < s.start /\ s.end <= t.end
    <3>1. ~ Nested(s, t)
      BY <1>1, <2>4, <2>3 DEF Nested
    <3> QED
      BY <1>2, <2>3, <2>5, <3>1 DEF Nested
  <2>6. Latest(s) /\ Least(s)
    <3> SUFFICES ASSUME NEW t \in A
                 PROVE  LaterStart(s, t) /\ s.end - s.start <= t.end - t.start
      OBVIOUS
    <3>1. CASE t = s
      BY <1>1, <2>3, <3>1 DEF LaterStart
    <3>2. CASE t # s
      BY <1>1, <2>3, <2>5, <3>2 DEF LaterStart
    <3> QED
      BY <3>1, <3>2
  <2>7. ASSUME NEW t \in A, Latest(t) \/ Least(t) PROVE t = s
    <3> SUFFICES ASSUME t # s PROVE FALSE
      OBVIOUS
    <3>1. t.start < s.start /\ s.end <= t.end
      BY <2>5
    <3>2. LaterStart(t, s) \/ t.end - t.start <= s.end - s.start
      BY <2>3, <2>7
    <3> QED
      BY <1>1, <2>3, <3>1, <3>2 DEF LaterStart
  <2>8. (CHOOSE t \in A : Latest(t)) = s /\ (CHOOSE t \in A : Least(t)) = s
    <3> HIDE DEF Latest, Least
    <3> QED
      BY <2>3, <2>6, <2>7
  <2>9. FunctionForLine(l, spans) = (CHOOSE t \in A : Latest(t)).name
    BY <1>4 DEF FunctionForLine, A
  <2>10. SmallestName(l, spans) = (CHOOSE t \in A : Least(t)).name
    BY <1>4 DEF SmallestName, A
  <2> HIDE DEF Latest, Least
  <2> QED
    BY <2>8, <2>9, <2>10
<1> QED
  BY <1>3, <1>4

\* The ranges of the missing lines hold these lines and no others, each in one
\* function; and two of them could not be one.
LEMMA RangesOfLines ==
  ASSUME NEW lines \in SUBSET (Nat \ {0}), IsFiniteSet(lines), NEW spans
  PROVE  /\ \A r \in ToSet(MissingRanges(lines, spans)) :
              /\ r.start \in Nat /\ r.end \in Nat
              /\ \A l \in r.start .. r.end :
                   l \in lines /\ FunctionForLine(l, spans) = r.function
         /\ \A l \in lines : \E r \in ToSet(MissingRanges(lines, spans)) :
              l \in r.start .. r.end
         /\ \A p, q \in ToSet(MissingRanges(lines, spans)) :
              p = q \/ RangesApart(p, q) \/ RangesApart(q, p)
<1> DEFINE ranges == MissingRanges(lines, spans)
           N == LastLine(lines)
<1>1. RangesAreGood(ranges, lines, spans, N) /\ \A l \in lines : l <= N
  BY MissingRangesAreGood
<1> HIDE DEF ranges, N
<1>2. ranges \in Seq(RangeType(spans)) /\ DOMAIN ranges = 1 .. Len(ranges)
      /\ Len(ranges) \in Nat
  BY <1>1 DEF RangesAreGood
<1>3. ToSet(ranges) = {ranges[i] : i \in 1 .. Len(ranges)}
  BY <1>2 DEF ToSet
<1>4. \A i \in 1 .. Len(ranges) : ranges[i].start \in Nat /\ ranges[i].end \in Nat
  <2> TAKE i \in 1 .. Len(ranges)
  <2>1. ranges[i] \in RangeType(spans)
    BY <1>2
  <2> QED
    BY <2>1 DEF RangeType
<1>5. ASSUME NEW r \in ToSet(ranges)
      PROVE  /\ r.start \in Nat /\ r.end \in Nat
             /\ \A l \in r.start .. r.end : l \in lines
                /\ FunctionForLine(l, spans) = r.function
  <2>1. PICK i \in 1 .. Len(ranges) : r = ranges[i]
    BY <1>3
  <2>2. RangeFits(r, lines, spans, N)
    BY <1>1, <2>1 DEF RangesAreGood
  <2> QED
    BY <1>4, <2>1, <2>2 DEF RangeFits
<1>6. ASSUME NEW l \in lines PROVE \E r \in ToSet(ranges) : l \in r.start .. r.end
  <2>1. PICK i \in 1 .. Len(ranges) : ranges[i].start <= l /\ l <= ranges[i].end
    BY <1>1 DEF RangesAreGood
  <2>2. l \in ranges[i].start .. ranges[i].end
    BY <1>4, <2>1
  <2> QED
    BY <1>3, <2>2
<1>7. ASSUME NEW p \in ToSet(ranges), NEW q \in ToSet(ranges)
      PROVE  p = q \/ RangesApart(p, q) \/ RangesApart(q, p)
  <2>1. PICK i \in 1 .. Len(ranges), j \in 1 .. Len(ranges) : p = ranges[i] /\ q = ranges[j]
    BY <1>3
  <2>2. i = j \/ i < j \/ j < i
    BY <1>2
  <2> QED
    BY <1>1, <2>1, <2>2 DEF RangesAreGood
<1> QED
  BY <1>5, <1>6, <1>7 DEF ranges

-----------------------------------------------------------------------------
(* What a measurement keeps.                                               *)

PythonSteps == {"coverage.py", "pytest", "combine", "json", "parse"}
NativeSteps == {"build", "gcov?", "gcov"}
BeforeReport == {"select", "report"} \cup PythonSteps \cup NativeSteps

\* A measurement goes through the steps of its backend, and a report that is
\* available is that of what was measured.
StepsInv ==
  /\ project \in Projects
  /\ iteration \in Numbers /\ reported \subseteq Numbers /\ marker \in Numbers \cup {None}
  /\ DOMAIN reports = Numbers /\ DOMAIN markers = Numbers
  /\ pc \in {"idle", "marker", "next"} \cup BeforeReport
  /\ pc \in PythonSteps => Backend = "python"
  /\ pc \in NativeSteps => Backend = "native"
  /\ pc = "parse" => Imported # {}
  /\ pc = "report" =>
       \/ result = Unavailable
       \/ Backend = "python" /\ Imported # {} /\ result = PythonReport
       \/ Backend = "native" /\ todo = {} /\ summaries # {} /\ result = NativeReport

\* What a report says of itself.
Honest(r) ==
  r # None => r.available = (r.covered # None) /\ (~ r.available => r.gaps = {})

\* The iterations of this run without coverage whose markers are written.
Unmeasured == {n \in reported : ~ reports[n].available}
Settled    == Unmeasured \ (IF pc = "marker" THEN {iteration} ELSE {})

MarksInv ==
  pc # "idle" =>
    /\ \A n \in reported : n <= iteration /\ (pc \in BeforeReport => n < iteration)
    /\ pc = "marker" => reports[iteration] = result /\ iteration \in Unmeasured
    /\ \A n \in Settled : markers[n] = reports[n]
    /\ Settled # {} => marker \in Settled /\ \A n \in Settled : n <= marker

ReportsInv == Honest(result) /\ (\A n \in Numbers : Honest(reports[n])) /\ MarksInv

\* The sources that gcov reports on.
Targets == {Target(s) : s \in project.sources} \ {None}

\* A summary is of a source that gcov has run for, and of what gcov reported.
SummaryFits(x) ==
  /\ x.source \in project.sources \ todo /\ Target(x.source) # None
  /\ x.covered = Covered(Target(x.source)) /\ x.lines = Target(x.source).size
  /\ \/ x.gaps = {}
     \/ \E t \in Targets : /\ t.name = x.source.name
                           /\ x.gaps = Gaps(BareName(x.source), CollapseRanges(t.missed))
  /\ IF project.absolute
       THEN Target(x.source).name = x.source.name =>
              x.gaps = Gaps(BareName(x.source), CollapseRanges(Target(x.source).missed))
       ELSE x.gaps = {}

GcovInv ==
  /\ todo \subseteq project.sources
  /\ \A n \in DOMAIN gcovFile : gcovFile[n] \in Targets /\ gcovFile[n].name = n
  /\ IsFiniteSet(summaries)
  /\ \A x \in summaries : SummaryFits(x)
  /\ \A x, y \in summaries : x.source = y.source => x = y
  /\ pc # "idle" /\ (pc = "gcov" \/ summaries # {}) =>
       \A s \in project.sources \ todo :
         Target(s) # None => \E x \in summaries : x.source = s

MeasurementInv == StepsInv /\ ReportsInv /\ GcovInv

\* What is assumed of the project that is measured.
LEMMA ProjectTyped ==
  ASSUME project \in Projects
  PROVE  /\ IsFiniteSet(project.sources) /\ project.absolute \in BOOLEAN
         /\ \A s \in project.sources :
              /\ s \in Sources /\ s # None /\ s.place \in Nat /\ s.size \in Nat \ {0}
              /\ s.missed \in SUBSET (Nat \ {0}) /\ IsFiniteSet(s.missed)
              /\ s.spans \in SUBSET SpanType /\ Laminar(s.spans)
              /\ s.built \in BOOLEAN /\ Covered(s) \in Int
         /\ \A s, t \in project.sources :
              /\ s.place = t.place => s = t
              /\ s.name = t.name => s.stem = t.stem
         /\ Backend # "python" => \A s \in project.sources : s.spans = {}
<1>1. project \in ProjectType
  BY MeasurementAssumption
<1>2. project.sources \subseteq Sources /\ project.absolute \in BOOLEAN
  BY <1>1 DEF ProjectType
<1>3. ASSUME NEW s \in project.sources
      PROVE  /\ s \in Sources /\ s # None /\ s.place \in Nat /\ s.size \in Nat \ {0}
             /\ s.missed \in SUBSET (Nat \ {0}) /\ IsFiniteSet(s.missed)
             /\ s.spans \in SUBSET SpanType /\ Laminar(s.spans)
             /\ s.built \in BOOLEAN
  <2>1. s \in Sources
    BY <1>2
  <2>2. s \in SourceType
    BY <2>1, MeasurementAssumption
  <2>3. s # None /\ IsFiniteSet(s.missed) /\ Laminar(s.spans)
    BY <2>1, MeasurementAssumption
  <2> QED
    BY <2>1, <2>2, <2>3 DEF SourceType
<1>4. \A s \in project.sources : Covered(s) \in Int
  <2> TAKE s \in project.sources
  <2>1. Cardinality(s.missed) \in Nat
    BY <1>3, FS_CardinalityType
  <2>2. s.size \in Nat
    BY <1>3
  <2> QED
    BY <2>1, <2>2 DEF Covered
<1>5. /\ IsFiniteSet(project.sources)
      /\ \A s, t \in project.sources :
           /\ s.place = t.place => s = t
           /\ s.name = t.name => s.stem = t.stem
      /\ project.language # "python" => \A s \in project.sources : s.spans = {}
  BY MeasurementAssumption
<1>6. Backend # "python" => project.language # "python"
  BY DEF Backend
<1> QED
  BY <1>2, <1>3, <1>4, <1>5, <1>6

\* One source comes first.
LEMMA FirstSource ==
  ASSUME project \in Projects, NEW S \in SUBSET project.sources, S # {}
  PROVE  First(S) \in S /\ \A t \in S : First(S).place <= t.place
<1> DEFINE Places == {n \in Nat : \E s \in S : n = s.place}
<1>1. Places \in SUBSET Nat /\ Places # {}
  BY ProjectTyped
<1>2. PICK n \in Places : \A m \in Places : n <= m
  <2> HIDE DEF Places
  <2> QED
    BY <1>1, LeastNumber
<1>3. PICK s \in S : n = s.place
  BY <1>2
<1>4. \A t \in S : s.place <= t.place
  BY <1>2, <1>3, ProjectTyped
<1> QED
  BY <1>3, <1>4 DEF First

Fits(s) == {t \in Imported \ silent : DataName(t) \in {s.stem, s.name}}

\* gcov reports on the first source that fits.
LEMMA TargetFits ==
  ASSUME project \in Projects, NEW s \in project.sources, Target(s) # None
  PROVE  Target(s) \in Fits(s) /\ Target(s).built
         /\ \A t \in Fits(s) : Target(s).place <= t.place
<1> USE DEF Imported
<1>1. Target(s) = IF Fits(s) = {} THEN None ELSE First(Fits(s))
  BY DEF Target, Fits
<1>2. Fits(s) # {} /\ Target(s) = First(Fits(s))
  BY <1>1
<1>3. Fits(s) \in SUBSET project.sources
  BY DEF Fits
<1>4. First(Fits(s)) \in Fits(s) /\ \A t \in Fits(s) : First(Fits(s)).place <= t.place
  BY <1>2, <1>3, FirstSource
<1> QED
  BY <1>2, <1>4 DEF Fits

\* gcov reports on one source of each name.
LEMMA TargetsDiffer ==
  ASSUME project \in Projects, NEW t \in Targets, NEW u \in Targets, t.name = u.name
  PROVE  t = u
<1>1. PICK r \in project.sources : t = Target(r) /\ Target(r) # None
  BY DEF Targets
<1>2. PICK s \in project.sources : u = Target(s) /\ Target(s) # None
  BY DEF Targets
<1>3. t \in Fits(r) /\ \A v \in Fits(r) : t.place <= v.place
  BY <1>1, TargetFits
<1>4. u \in Fits(s) /\ \A v \in Fits(s) : u.place <= v.place
  BY <1>2, TargetFits
<1>5. t \in project.sources /\ u \in project.sources
  BY <1>3, <1>4 DEF Fits, Imported
<1>6. t.stem = u.stem
  BY <1>5, ProjectTyped
<1>7. DataName(t) = DataName(u)
  BY <1>6 DEF DataName
<1>8. t \in Fits(s) /\ u \in Fits(r)
  BY <1>3, <1>4, <1>7 DEF Fits
<1>9. t.place \in Nat /\ u.place \in Nat /\ (t.place = u.place => t = u)
  BY <1>5, ProjectTyped
<1>10. t.place <= u.place /\ u.place <= t.place
  BY <1>3, <1>4, <1>8
<1> QED
  BY <1>9, <1>10

\* A report of some lines is available and states its coverage.
LEMMA MeasuredIsHonest ==
  ASSUME NEW covered \in Int, NEW lines \in Int, lines >= 1, NEW gaps
  PROVE  /\ Measured(covered, lines, gaps).available
            /\ Honest(Measured(covered, lines, gaps))
         /\ Measured(covered, lines, gaps).covered = covered
         /\ Measured(covered, lines, gaps).lines = lines
         /\ Measured(covered, lines, gaps).gaps = gaps
<1>1. covered # None /\ lines # 0
  BY MeasurementAssumption
<1>2. Measured(covered, lines, gaps) =
        [available |-> TRUE, covered |-> covered, lines |-> lines, gaps |-> gaps]
  BY <1>1 DEF Measured
<1> DEFINE m == Measured(covered, lines, gaps)
<1>3. m.available = TRUE /\ m.covered = covered /\ m.lines = lines /\ m.gaps = gaps
  BY <1>2
<1> HIDE DEF m
<1>4. Honest(m)
  <2>1. (m.covered # None) = TRUE
    BY <1>1, <1>3
  <2> QED
    BY <1>3, <2>1 DEF Honest
<1> QED
  BY <1>3, <1>4 DEF m

\* The report of coverage.py, of a program that imports something.
LEMMA PythonReportIs ==
  ASSUME project \in Projects, Imported # {}
  PROVE  /\ PythonReport.available /\ Honest(PythonReport)
         /\ PythonReport.covered = CoveredOf(Imported)
            /\ PythonReport.lines = SizeOf(Imported)
         /\ PythonReport.gaps =
              UNION {Gaps(Path(s), MissingRanges(s.missed, s.spans)) : s \in Imported}
<1> DEFINE gaps == UNION {Gaps(Path(s), MissingRanges(s.missed, s.spans)) : s \in Imported}
           c == [s \in Imported |-> Covered(s)]
           z == [s \in Imported |-> s.size]
<1>1. IsFiniteSet(Imported) /\ Imported \in SUBSET Imported
  <2>1. Imported \subseteq project.sources
    BY DEF Imported
  <2> QED
    BY <2>1, ProjectTyped, FS_Subset
<1>2. c \in [Imported -> Int] /\ z \in [Imported -> Nat \ {0}] /\ z \in [Imported -> Int]
  BY ProjectTyped DEF Imported
<1> HIDE DEF c, z, gaps
<1>3. SumFunctionOnSet(c, Imported) \in Int /\ SumFunctionOnSet(z, Imported) \in Int
  BY <1>1, <1>2, SumStep
<1>4. SumFunctionOnSet(z, Imported) >= 1
  BY <1>1, <1>2, SumIsPositive
<1>5. CoveredOf(Imported) = SumFunctionOnSet(c, Imported)
  BY DEF CoveredOf, Total, c
<1>6. SizeOf(Imported) = SumFunctionOnSet(z, Imported)
  BY DEF SizeOf, Total, z
<1>7. PythonReport = Measured(CoveredOf(Imported), SizeOf(Imported), gaps)
  BY DEF PythonReport, gaps
<1> QED
  BY <1>3, <1>4, <1>5, <1>6, <1>7, MeasuredIsHonest DEF gaps

\* The report of gcov, if it has run for some source.
LEMMA NativeReportIs ==
  ASSUME project \in Projects, GcovInv, summaries # {}
  PROVE  /\ NativeReport.available /\ Honest(NativeReport)
         /\ NativeReport.covered = Total([x \in summaries |-> x.covered])
         /\ NativeReport.lines = Total([x \in summaries |-> x.lines])
         /\ NativeReport.gaps = UNION {x.gaps : x \in summaries}
<1> DEFINE gaps == UNION {x.gaps : x \in summaries}
           c == [x \in summaries |-> x.covered]
           z == [x \in summaries |-> x.lines]
<1>1. IsFiniteSet(summaries) /\ summaries \in SUBSET summaries
  BY DEF GcovInv
<1>2. \A x \in summaries : x.covered \in Int /\ x.lines \in Nat \ {0}
  <2> TAKE x \in summaries
  <2>1. /\ x.source \in project.sources /\ Target(x.source) # None
        /\ x.covered = Covered(Target(x.source)) /\ x.lines = Target(x.source).size
    BY DEF GcovInv, SummaryFits
  <2>2. Target(x.source) \in project.sources
    BY <2>1, TargetFits DEF Fits, Imported
  <2> QED
    BY <2>1, <2>2, ProjectTyped
<1>3. c \in [summaries -> Int] /\ z \in [summaries -> Nat \ {0}] /\ z \in [summaries -> Int]
  BY <1>2
<1> HIDE DEF c, z, gaps
<1>4. SumFunctionOnSet(c, summaries) \in Int /\ SumFunctionOnSet(z, summaries) \in Int
  BY <1>1, <1>3, SumStep
<1>5. SumFunctionOnSet(z, summaries) >= 1
  BY <1>1, <1>3, SumIsPositive
<1>6. Total(c) = SumFunctionOnSet(c, summaries) /\ Total(z) = SumFunctionOnSet(z, summaries)
  BY DEF Total, c, z
<1>7. NativeReport = Measured(Total(c), Total(z), gaps)
  BY DEF NativeReport, gaps, c, z
<1> QED
  BY <1>4, <1>5, <1>6, <1>7, MeasuredIsHonest DEF gaps, c, z

\* The report of a measurement that failed.
LEMMA UnavailableIsHonest == ~ Unavailable.available /\ Honest(Unavailable)
  BY DEF Unavailable, Honest

-----------------------------------------------------------------------------
(* The steps of a measurement.                                             *)

\* Before the first run there is no report.
LEMMA MeasurementStarts == Init => MeasurementInv
<1> SUFFICES ASSUME Init PROVE MeasurementInv
  OBVIOUS
<1>1. StepsInv
  <2>1. 0 \in Numbers
    BY MeasurementAssumption DEF Numbers
  <2> QED
    BY <2>1 DEF Init, StepsInv, PythonSteps, NativeSteps, BeforeReport
<1>2. ReportsInv
  BY DEF Init, ReportsInv, MarksInv, Honest
<1>3. GcovInv
  <2>1. IsFiniteSet(summaries)
    BY FS_EmptySet DEF Init
  <2> QED
    BY <2>1 DEF Init, GcovInv
<1> QED
  BY <1>1, <1>2, <1>3 DEF MeasurementInv

\* gcov has not run.
LEMMA GcovRests ==
  ASSUME GcovInv, UNCHANGED <<project, todo, silent, gcovFile, summaries>>,
         pc' = "idle" \/ (pc # "idle" /\ (pc' # "gcov" \/ pc = "gcov"))
  PROVE  GcovInv'
<1>1. /\ project' = project /\ todo' = todo /\ silent' = silent
      /\ gcovFile' = gcovFile /\ summaries' = summaries
  OBVIOUS
<1>2. \A s : Target(s)' = Target(s)
  BY <1>1 DEF Target, DataName, Imported
<1>3. Targets' = Targets
  BY <1>1, <1>2 DEF Targets
<1>4. \A x : SummaryFits(x)' = SummaryFits(x)
  BY <1>1, <1>2, <1>3 DEF SummaryFits
<1>5. ASSUME pc' # "idle", pc' = "gcov" \/ summaries # {}, NEW s \in project.sources \ todo,
             Target(s) # None
      PROVE  \E x \in summaries : x.source = s
  BY <1>5 DEF GcovInv
<1> QED
  BY <1>1, <1>2, <1>3, <1>4, <1>5 DEF GcovInv

\* Nothing is written, and the run goes on to its report or ends.
LEMMA ReportsRest ==
  ASSUME StepsInv, ReportsInv, UNCHANGED <<disk, reported, iteration>>, Honest(result'),
         pc' = "idle" \/ (pc \in BeforeReport /\ pc' \in BeforeReport)
  PROVE  ReportsInv'
<1>1. /\ reports' = reports /\ markers' = markers /\ marker' = marker
         /\ reported' = reported
      /\ iteration' = iteration
  BY DEF disk
<1>2. (Honest(result) /\ (\A n \in Numbers : Honest(reports[n])))'
  BY <1>1 DEF ReportsInv, Honest, Numbers
<1>3. ASSUME pc' # "idle" PROVE Settled' = Settled /\ pc' # "marker" /\ pc # "idle"
  <2>1. pc # "marker" /\ pc' # "marker" /\ pc # "idle"
    BY <1>3 DEF BeforeReport, PythonSteps, NativeSteps
  <2>2. Unmeasured' = Unmeasured
    BY <1>1 DEF Unmeasured
  <2> QED
    BY <2>1, <2>2 DEF Settled
<1>4. MarksInv'
  BY <1>1, <1>3 DEF ReportsInv, MarksInv
<1> QED
  BY <1>2, <1>4 DEF ReportsInv

\* A step to the report, to the next command or out of the run.
LEMMA MeasureKeepsMeasurement ==
  ASSUME MeasurementInv, pc \in BeforeReport,
         UNCHANGED <<project, disk, iteration, todo, silent, gcovFile, summaries, reported>>,
         \/ pc' = "report" /\ result' = Unavailable
         \/ pc' = "report" /\ Backend = "python" /\ Imported # {} /\ result' = PythonReport
         \/ /\ pc' = "report" /\ Backend = "native" /\ todo = {} /\ summaries # {}
            /\ result' = NativeReport
         \/ /\ pc' \in BeforeReport \ {"report", "gcov"} /\ result' = result
            /\ pc' \in PythonSteps => Backend = "python"
            /\ pc' \in NativeSteps => Backend = "native"
            /\ pc' = "parse" => Imported # {}
         \/ pc' = "idle" /\ result' = result
  PROVE  MeasurementInv'
<1>1. project' = project /\ summaries' = summaries /\ todo' = todo /\ project \in Projects
  BY DEF MeasurementInv, StepsInv
<1>2. Backend' = Backend /\ Imported' = Imported
  BY <1>1 DEF Backend, Imported
<1>3. PythonReport' = PythonReport /\ NativeReport' = NativeReport
  BY <1>1, <1>2 DEF PythonReport, NativeReport
<1>4. StepsInv'
  <2>1. (\/ result = Unavailable
         \/ Backend = "python" /\ Imported # {} /\ result = PythonReport
         \/ Backend = "native" /\ todo = {} /\ summaries # {} /\ result = NativeReport)'
        \/ pc' # "report"
    BY <1>1, <1>2, <1>3
  <2>2. pc' \in {"idle", "marker", "next"} \cup BeforeReport
    BY DEF BeforeReport
  <2>3. /\ pc' \in PythonSteps => Backend = "python"
        /\ pc' \in NativeSteps => Backend = "native"
        /\ pc' = "parse" => Imported # {}
    BY DEF PythonSteps, NativeSteps
  <2>4. /\ project' \in Projects /\ iteration' \in Numbers /\ reported' \subseteq Numbers
        /\ marker' \in Numbers \cup {None} /\ DOMAIN reports' = Numbers
           /\ DOMAIN markers' = Numbers
    BY DEF MeasurementInv, StepsInv, disk
  <2> QED
    BY <1>2, <2>1, <2>2, <2>3, <2>4 DEF StepsInv, Numbers
<1>5. ReportsInv'
  <2>1. Honest(result')
    <3>1. Honest(result)
      BY DEF MeasurementInv, ReportsInv
    <3>2. Honest(Unavailable)
      BY UnavailableIsHonest
    <3>3. Imported # {} => Honest(PythonReport)
      BY <1>1, PythonReportIs
    <3>4. summaries # {} => Honest(NativeReport)
      BY <1>1, NativeReportIs DEF MeasurementInv
    <3> QED
      BY <3>1, <3>2, <3>3, <3>4
  <2>2. pc' = "idle" \/ pc' \in BeforeReport
    BY DEF BeforeReport
  <2> QED
    BY <2>1, <2>2, ReportsRest DEF MeasurementInv
<1>6. GcovInv'
  <2>1. pc # "idle" /\ pc' # "gcov"
    BY DEF BeforeReport, PythonSteps, NativeSteps
  <2> QED
    BY <2>1, GcovRests DEF MeasurementInv
<1> QED
  BY <1>4, <1>5, <1>6 DEF MeasurementInv

\* A run begins, maybe of another project, over the files of earlier ones.
LEMMA BeginKeepsMeasurement == MeasurementInv /\ Begin => MeasurementInv'
<1> SUFFICES ASSUME MeasurementInv, Begin PROVE MeasurementInv'
  OBVIOUS
<1>1. /\ pc' = "select" /\ iteration' = 0 /\ reported' = {} /\ project' \in Projects
      /\ todo' = {} /\ gcovFile' = <<>> /\ summaries' = {} /\ result' = None
      /\ reports' = reports /\ markers' = markers /\ marker' = marker
  BY DEF Begin, disk
<1>2. StepsInv'
  <2>1. 0 \in Numbers
    BY MeasurementAssumption DEF Numbers
  <2> QED
    BY <1>1, <2>1 DEF MeasurementInv, StepsInv, PythonSteps, NativeSteps, BeforeReport,
         Numbers
<1>3. ReportsInv'
  BY <1>1 DEF MeasurementInv, ReportsInv, MarksInv, Settled, Unmeasured, Honest, Numbers
<1>4. GcovInv'
  BY <1>1, FS_EmptySet DEF GcovInv
<1> QED
  BY <1>2, <1>3, <1>4 DEF MeasurementInv

\* The instrumented program has run, or could not.
LEMMA InstrumentedKeepsMeasurement == MeasurementInv /\ RunInstrumented => MeasurementInv'
<1> SUFFICES ASSUME MeasurementInv, RunInstrumented PROVE MeasurementInv'
  OBVIOUS
<1>1. pc = "gcov?" /\ pc \in BeforeReport /\ Backend = "native"
  BY DEF RunInstrumented, MeasurementInv, StepsInv, BeforeReport, NativeSteps
<1>2. CASE Deliver(Unavailable)
  <2>1. /\ pc' = "report" /\ result' = Unavailable
        /\ UNCHANGED <<project, disk, iteration, todo, silent, gcovFile, summaries, reported>>
    BY <1>2 DEF Deliver
  <2> QED
    BY <1>1, <2>1, MeasureKeepsMeasurement
<1>3. CASE /\ pc' = "gcov" /\ summaries' = {} /\ gcovFile' = <<>>
           /\ todo' = project.sources /\ silent' \in SUBSET Imported
           /\ UNCHANGED <<project, disk, iteration, result, runs, reported>>
  <2>1. project' = project /\ Backend' = Backend
    BY <1>3 DEF Backend
  <2>2. StepsInv'
    BY <1>1, <1>3, <2>1
       DEF MeasurementInv, StepsInv, PythonSteps, NativeSteps, BeforeReport, Numbers, disk
  <2>3. ReportsInv'
    <3>1. Honest(result') /\ pc' \in BeforeReport
      BY <1>3 DEF MeasurementInv, ReportsInv, BeforeReport, NativeSteps
    <3> QED
      BY <1>1, <1>3, <3>1, ReportsRest DEF MeasurementInv
  <2>4. GcovInv'
    BY <1>3, FS_EmptySet DEF GcovInv
  <2> QED
    BY <2>2, <2>3, <2>4 DEF MeasurementInv
<1> QED
  BY <1>2, <1>3 DEF RunInstrumented

\* The report comes before its marker.
LEMMA WriteReportKeepsMeasurement == MeasurementInv /\ WriteReport => MeasurementInv'
<1> SUFFICES ASSUME MeasurementInv, WriteReport PROVE MeasurementInv'
  OBVIOUS
<1>1. /\ pc = "report" /\ pc' = IF result.available THEN "next" ELSE "marker"
      /\ reports' = [reports EXCEPT ![iteration] = result]
      /\ reported' = reported \cup {iteration} /\ result' = result
      /\ UNCHANGED <<project, markers, marker, iteration, todo, silent, gcovFile, summaries>>
  BY DEF WriteReport, Goto, work
<1>2. /\ iteration \in Numbers /\ DOMAIN reports = Numbers
      /\ \A n \in reported : n < iteration /\ n \in Numbers
      /\ iteration \in Nat
  <2>1. iteration \in Numbers /\ DOMAIN reports = Numbers /\ reported \subseteq Numbers
    BY DEF MeasurementInv, StepsInv
  <2>2. \A n \in reported : n < iteration
    BY <1>1 DEF MeasurementInv, ReportsInv, MarksInv, BeforeReport
  <2> QED
    BY <2>1, <2>2 DEF Numbers
<1>3. StepsInv'
  BY <1>1, <1>2 DEF MeasurementInv, StepsInv, PythonSteps, NativeSteps, BeforeReport,
       Numbers
<1>4. /\ reports'[iteration] = result
      /\ \A n \in reported : reports'[n] = reports[n] /\ n # iteration
  BY <1>1, <1>2
<1>5. Unmeasured' = Unmeasured \cup (IF result.available THEN {} ELSE {iteration})
  BY <1>1, <1>4 DEF Unmeasured
<1>6. iteration \notin Unmeasured /\ Settled = Unmeasured
  BY <1>1, <1>4 DEF Unmeasured, Settled
<1>7. Settled' = Settled
  BY <1>1, <1>5, <1>6 DEF Settled
<1>8. MarksInv'
  <2>1. \A n \in reported' : n <= iteration
    BY <1>1, <1>2 DEF Numbers
  <2>2. pc' \notin BeforeReport
    BY <1>1 DEF BeforeReport, PythonSteps, NativeSteps
  <2>3. pc' = "marker" => reports'[iteration] = result' /\ iteration \in Unmeasured'
    BY <1>1, <1>4, <1>5
  <2>4. (\A n \in Settled : markers[n] = reports[n]) /\ (Settled # {} => marker \in Settled)
        /\ \A n \in Settled : n <= marker
    BY <1>1 DEF MeasurementInv, ReportsInv, MarksInv
  <2>5. \A n \in Settled : reports'[n] = reports[n]
    BY <1>4 DEF Settled, Unmeasured
  <2> QED
    BY <1>1, <1>7, <2>1, <2>2, <2>3, <2>4, <2>5 DEF MarksInv
<1>9. (Honest(result) /\ (\A n \in Numbers : Honest(reports[n])))'
  <2>1. \A n \in Numbers : reports'[n] = result \/ reports'[n] = reports[n]
    BY <1>1, <1>2
  <2>2. Honest(result) /\ \A n \in Numbers : Honest(reports[n])
    BY DEF MeasurementInv, ReportsInv
  <2>3. \A n \in Numbers : Honest(reports'[n])
    BY <2>1, <2>2
  <2> QED
    BY <1>1, <2>2, <2>3 DEF Numbers, Honest
<1>10. GcovInv'
  <2>1. pc # "idle" /\ pc' # "gcov"
    BY <1>1
  <2> QED
    BY <1>1, <2>1, GcovRests DEF MeasurementInv
<1> QED
  BY <1>3, <1>8, <1>9, <1>10 DEF MeasurementInv, ReportsInv

\* The marker without a number is of the latest unavailable report.
LEMMA WriteMarkersKeepsMeasurement == MeasurementInv /\ WriteMarkers => MeasurementInv'
<1> SUFFICES ASSUME MeasurementInv, WriteMarkers PROVE MeasurementInv'
  OBVIOUS
<1>1. /\ pc = "marker" /\ pc' = "next" /\ markers' = [markers EXCEPT ![iteration] = result]
      /\ marker' = iteration /\ result' = result
      /\ UNCHANGED <<project, reports, reported, iteration, todo, silent, gcovFile, summaries>>
  BY DEF WriteMarkers, Goto, work
<1>2. /\ iteration \in Numbers /\ DOMAIN markers = Numbers
      /\ \A n \in reported : n <= iteration /\ n \in Numbers
      /\ reports[iteration] = result /\ iteration \in Unmeasured
      /\ \A n \in Settled : markers[n] = reports[n]
  BY <1>1 DEF MeasurementInv, StepsInv, ReportsInv, MarksInv
<1>3. StepsInv'
  BY <1>1, <1>2 DEF MeasurementInv, StepsInv, PythonSteps, NativeSteps, BeforeReport,
       Numbers
<1>4. Settled = Unmeasured \ {iteration} /\ Settled' = Unmeasured
  BY <1>1 DEF Settled, Unmeasured
<1>5. MarksInv'
  <2>1. \A n \in Settled' : markers'[n] = reports'[n]
    <3> SUFFICES ASSUME NEW n \in Unmeasured PROVE markers'[n] = reports[n]
      BY <1>1, <1>4
    <3>1. n \in Numbers
      BY <1>2 DEF Unmeasured
    <3>2. CASE n = iteration
      BY <1>1, <1>2, <3>2
    <3>3. CASE n # iteration
      BY <1>1, <1>2, <1>4, <3>1, <3>3
    <3> QED
      BY <3>2, <3>3
  <2>2. marker' \in Settled' /\ \A n \in Settled' : n <= marker'
    BY <1>1, <1>2, <1>4 DEF Unmeasured
  <2>3. pc' \notin BeforeReport /\ pc' # "marker"
    BY <1>1 DEF BeforeReport, PythonSteps, NativeSteps
  <2> QED
    BY <1>1, <1>2, <2>1, <2>2, <2>3 DEF MarksInv
<1>6. (Honest(result) /\ (\A n \in Numbers : Honest(reports[n])))'
  BY <1>1 DEF MeasurementInv, ReportsInv, Honest, Numbers
<1>7. GcovInv'
  <2>1. pc # "idle" /\ pc' # "gcov"
    BY <1>1
  <2> QED
    BY <1>1, <2>1, GcovRests DEF MeasurementInv
<1> QED
  BY <1>3, <1>5, <1>6, <1>7 DEF MeasurementInv, ReportsInv

\* The run ends, by itself or not.
LEMMA EndKeepsMeasurement ==
  ASSUME MeasurementInv, pc' = "idle", UNCHANGED <<project, disk, iteration, work,
           reported>>
  PROVE  MeasurementInv'
<1>1. UNCHANGED <<project, todo, silent, gcovFile, summaries>> /\ result' = result
  BY DEF work
<1>2. StepsInv'
  BY DEF MeasurementInv, StepsInv, PythonSteps, NativeSteps, BeforeReport, Numbers, disk
<1>3. ReportsInv'
  <2>1. Honest(result')
    BY <1>1 DEF MeasurementInv, ReportsInv
  <2> QED
    BY <2>1, ReportsRest DEF MeasurementInv
<1>4. GcovInv'
  BY <1>1, GcovRests DEF MeasurementInv
<1> QED
  BY <1>2, <1>3, <1>4 DEF MeasurementInv

\* The next iteration, or the end of the run.
LEMMA ContinueKeepsMeasurement == MeasurementInv /\ Continue => MeasurementInv'
<1> SUFFICES ASSUME MeasurementInv, Continue PROVE MeasurementInv'
  OBVIOUS
<1>1. pc = "next" /\ UNCHANGED <<project, disk, work, runs, reported>>
  BY DEF Continue
<1>2. CASE pc' = "idle" /\ UNCHANGED iteration
  BY <1>1, <1>2, EndKeepsMeasurement
<1>3. CASE iteration + 1 < Iterations /\ iteration' = iteration + 1 /\ pc' = "select"
  <2>1. /\ project' = project /\ reports' = reports /\ markers' = markers
           /\ marker' = marker
        /\ reported' = reported /\ result' = result
        /\ UNCHANGED <<todo, silent, gcovFile, summaries>>
    BY <1>1 DEF disk, work
  <2>2. /\ iteration \in Nat /\ iteration + 1 \in Numbers
        /\ \A n \in reported : n <= iteration /\ n \in Nat
    <3>1. iteration \in Numbers /\ reported \subseteq Numbers /\ Iterations \in Nat
      BY MeasurementAssumption DEF MeasurementInv, StepsInv
    <3>2. \A n \in reported : n <= iteration
      BY <1>1 DEF MeasurementInv, ReportsInv, MarksInv
    <3> QED
      BY <1>3, <3>1, <3>2 DEF Numbers
  <2>3. StepsInv'
    BY <1>3, <2>1, <2>2 DEF MeasurementInv, StepsInv, PythonSteps, NativeSteps,
         BeforeReport, Numbers
  <2>4. Settled' = Settled /\ Unmeasured' = Unmeasured
    BY <1>1, <1>3, <2>1 DEF Settled, Unmeasured
  <2>5. MarksInv'
    <3>1. \A n \in reported : n < iteration + 1 /\ n <= iteration + 1
      BY <2>2
    <3> QED
      BY <1>1, <1>3, <2>1, <2>4, <3>1 DEF MeasurementInv, ReportsInv, MarksInv
  <2>6. (Honest(result) /\ (\A n \in Numbers : Honest(reports[n])))'
    BY <2>1 DEF MeasurementInv, ReportsInv, Honest, Numbers
  <2>7. GcovInv'
    <3>1. pc # "idle" /\ pc' # "gcov"
      BY <1>1, <1>3
    <3> QED
      BY <2>1, <3>1, GcovRests DEF MeasurementInv
  <2> QED
    BY <2>3, <2>5, <2>6, <2>7 DEF MeasurementInv, ReportsInv
<1> QED
  BY <1>2, <1>3 DEF Continue

\* A summary stays that of a source gcov has run for.
LEMMA SummaryKept ==
  ASSUME NEW x, SummaryFits(x), project' = project, silent' = silent, todo' \subseteq todo
  PROVE  SummaryFits(x)'
<1>1. \A s : Target(s)' = Target(s)
  BY DEF Target, DataName, Imported
<1>2. Targets' = Targets
  BY <1>1 DEF Targets
<1> QED
  BY <1>1, <1>2 DEF SummaryFits

\* What gcov says of one more source.
LEMMA SummaryNew ==
  ASSUME MeasurementInv, pc = "gcov", todo # {}, project' = project, silent' = silent,
           todo' = todo \ {First(todo)},
         Target(First(todo)) # None,
         gcovFile' = [n \in DOMAIN gcovFile \cup {Target(First(todo)).name} |->
                        IF n = Target(First(todo)).name THEN Target(First(todo)) ELSE gcovFile[n]],
         NEW y,
         y = [source |-> First(todo), covered |-> Covered(Target(First(todo))),
              lines |-> Target(First(todo)).size, gaps |-> Listing(First(todo), gcovFile')]
  PROVE  /\ (\A n \in DOMAIN gcovFile : gcovFile[n] \in Targets /\ gcovFile[n].name = n)'
         /\ SummaryFits(y)' /\ y.source = First(todo)
<1> DEFINE s == First(todo)
           t == Target(s)
<1>1. project \in Projects /\ todo \subseteq project.sources
  BY DEF MeasurementInv, StepsInv, GcovInv
<1>2. s \in todo /\ s \in project.sources
  BY <1>1, FirstSource
<1>3. t # None /\ t \in Targets
  BY <1>2 DEF Targets
<1>4. \A r : Target(r)' = Target(r)
  BY DEF Target, DataName, Imported
<1>5. Targets' = Targets
  BY <1>4 DEF Targets
<1>6. /\ y.source = s /\ y.covered = Covered(t) /\ y.lines = t.size
      /\ y.gaps = Listing(s, gcovFile')
  OBVIOUS
<1>7. todo' = todo \ {s}
  OBVIOUS
<1>8. gcovFile' = [n \in DOMAIN gcovFile \cup {t.name} |-> IF n = t.name THEN t ELSE gcovFile[n]]
  OBVIOUS
<1> HIDE DEF s, t
<1>9. \A n \in DOMAIN gcovFile' : gcovFile'[n] \in Targets /\ gcovFile'[n].name = n
  <2>1. \A n \in DOMAIN gcovFile : gcovFile[n] \in Targets /\ gcovFile[n].name = n
    BY DEF MeasurementInv, GcovInv
  <2> QED
    BY <1>3, <1>8, <2>1
<1>10. y.gaps = IF s.name \in DOMAIN gcovFile' /\ project.absolute
                  THEN Gaps(BareName(s), CollapseRanges(gcovFile'[s.name].missed)) ELSE {}
  BY <1>6 DEF Listing
<1>11. t.name = s.name => s.name \in DOMAIN gcovFile' /\ gcovFile'[s.name] = t
  BY <1>8
<1>12. SummaryFits(y)'
  <2>1. y.source \in project.sources \ todo' /\ Target(y.source) # None
        /\ y.covered = Covered(Target(y.source)) /\ y.lines = Target(y.source).size
    BY <1>2, <1>3, <1>6, <1>7 DEF t
  <2>2. \/ y.gaps = {}
        \/ \E u \in Targets : /\ u.name = y.source.name
                              /\ y.gaps = Gaps(BareName(y.source), CollapseRanges(u.missed))
    BY <1>6, <1>9, <1>10
  <2>3. IF project.absolute
          THEN Target(y.source).name = y.source.name =>
                 y.gaps = Gaps(BareName(y.source), CollapseRanges(Target(y.source).missed))
          ELSE y.gaps = {}
    BY <1>6, <1>10, <1>11 DEF t
  <2> QED
    BY <1>4, <1>5, <2>1, <2>2, <2>3 DEF SummaryFits
<1> QED
  BY <1>5, <1>6, <1>9, <1>12 DEF s

\* gcov runs for one more source: the summaries stay those of what it reported.
LEMMA RunGcovInv == MeasurementInv /\ RunGcov => GcovInv'
<1> SUFFICES ASSUME MeasurementInv, RunGcov PROVE GcovInv'
  OBVIOUS
<1> DEFINE s == First(todo)
           t == Target(s)
           y == [source |-> s, covered |-> Covered(t), lines |-> t.size,
                 gaps |-> Listing(s, gcovFile')]
<1>1. /\ pc = "gcov" /\ todo # {} /\ todo' = todo \ {s}
      /\ project' = project /\ silent' = silent
  BY DEF RunGcov
<1>2. /\ project \in Projects /\ todo \subseteq project.sources /\ IsFiniteSet(summaries)
      /\ \A n \in DOMAIN gcovFile : gcovFile[n] \in Targets /\ gcovFile[n].name = n
      /\ \A x \in summaries : SummaryFits(x) /\ x.source \notin todo
      /\ \A x, z \in summaries : x.source = z.source => x = z
      /\ \A r \in project.sources \ todo :
           Target(r) # None => \E x \in summaries : x.source = r
  BY <1>1 DEF MeasurementInv, StepsInv, GcovInv, SummaryFits
<1>3. s \in todo
  BY <1>1, <1>2, FirstSource
<1>4. \A r : Target(r)' = Target(r)
  BY <1>1 DEF Target, DataName, Imported
<1>5. Targets' = Targets
  BY <1>1, <1>4 DEF Targets
<1>6. \A x \in summaries : SummaryFits(x)'
  BY <1>1, <1>2, SummaryKept
<1>7. CASE UNCHANGED <<gcovFile, summaries>> /\ (t = None \/ pc' = "idle")
  <2>1. \A r \in project.sources \ todo' :
          pc' # "idle" /\ Target(r) # None => \E x \in summaries : x.source = r
    BY <1>1, <1>2, <1>7
  <2> HIDE DEF s, t, y
  <2> QED
    BY <1>1, <1>2, <1>4, <1>5, <1>6, <1>7, <2>1 DEF GcovInv
<1>8. CASE /\ t # None
           /\ gcovFile' = [n \in DOMAIN gcovFile \cup {t.name} |->
                             IF n = t.name THEN t ELSE gcovFile[n]]
           /\ summaries' = summaries \cup {y}
  <2> PICK z : z = y
    OBVIOUS
  <2>1. /\ (\A n \in DOMAIN gcovFile : gcovFile[n] \in Targets /\ gcovFile[n].name = n)'
        /\ SummaryFits(z)' /\ z.source = s
    <3>1. z = [source |-> First(todo), covered |-> Covered(Target(First(todo))),
               lines |-> Target(First(todo)).size, gaps |-> Listing(First(todo), gcovFile')]
      OBVIOUS
    <3>2. /\ Target(First(todo)) # None /\ todo' = todo \ {First(todo)}
          /\ gcovFile' = [n \in DOMAIN gcovFile \cup {Target(First(todo)).name} |->
                            IF n = Target(First(todo)).name THEN Target(First(todo)) ELSE gcovFile[n]]
      BY <1>1, <1>8
    <3> HIDE DEF y, t
    <3> QED
      BY <1>1, <3>1, <3>2, SummaryNew
  <2>2. summaries' = summaries \cup {z}
    BY <1>8
  <2> HIDE DEF s, t, y
  <2>3. IsFiniteSet(summaries')
    BY <1>2, <2>2, FS_AddElement
  <2>4. (\A x \in summaries : SummaryFits(x))'
    BY <1>6, <2>1, <2>2
  <2>5. \A x, w \in summaries' : x.source = w.source => x = w
    BY <1>2, <1>3, <2>1, <2>2
  <2>6. \A r \in project.sources \ todo' :
          Target(r) # None => \E x \in summaries' : x.source = r
    BY <1>1, <1>2, <2>1, <2>2
  <2>7. todo' \subseteq project.sources
    BY <1>1, <1>2
  <2> QED
    BY <1>1, <1>4, <2>1, <2>3, <2>4, <2>5, <2>6, <2>7 DEF GcovInv
<1> QED
  BY <1>7, <1>8 DEF RunGcov

\* That step, with the rest of the state.
LEMMA RunGcovKeepsMeasurement == MeasurementInv /\ RunGcov => MeasurementInv'
<1> SUFFICES ASSUME MeasurementInv, RunGcov PROVE MeasurementInv'
  OBVIOUS
<1>1. /\ pc = "gcov" /\ pc' \in {"gcov", "idle"}
      /\ UNCHANGED <<project, disk, iteration, result, runs, reported>>
  BY DEF RunGcov
<1>2. StepsInv'
  <2>1. Backend' = Backend /\ Backend = "native"
    BY <1>1 DEF Backend, MeasurementInv, StepsInv, NativeSteps
  <2> QED
    BY <1>1, <2>1
       DEF MeasurementInv, StepsInv, PythonSteps, NativeSteps, BeforeReport, Numbers, disk
<1>3. ReportsInv'
  <2>1. Honest(result') /\ (pc' = "idle" \/ (pc \in BeforeReport /\ pc' \in BeforeReport))
    BY <1>1 DEF MeasurementInv, ReportsInv, BeforeReport, NativeSteps
  <2> QED
    BY <1>1, <2>1, ReportsRest DEF MeasurementInv
<1>4. GcovInv'
  BY RunGcovInv
<1> QED
  BY <1>2, <1>3, <1>4 DEF MeasurementInv

\* The commands.
LEMMA CommandKeepsMeasurement ==
  ASSUME MeasurementInv, NEW here \in BeforeReport,
           NEW there \in BeforeReport \ {"report", "gcov"},
         Command(here, there),
         pc = here => /\ there \in PythonSteps => Backend = "python"
                      /\ there \in NativeSteps => Backend = "native",
         pc' = "parse" => Imported # {}
  PROVE  MeasurementInv'
<1>1. pc = here /\ pc \in BeforeReport
  BY DEF Command
<1>2. CASE Deliver(Unavailable)
  <2>1. /\ pc' = "report" /\ result' = Unavailable
        /\ UNCHANGED <<project, disk, iteration, todo, silent, gcovFile, summaries, reported>>
    BY <1>2 DEF Deliver
  <2> QED
    BY <1>1, <2>1, MeasureKeepsMeasurement
<1>3. CASE Keep /\ (pc' = there \/ pc' = "idle")
  <2>1. /\ result' = result
        /\ UNCHANGED <<project, disk, iteration, todo, silent, gcovFile, summaries, reported>>
    BY <1>3 DEF Keep, work
  <2> QED
    BY <1>1, <1>3, <2>1, MeasureKeepsMeasurement
<1> QED
  BY <1>2, <1>3 DEF Command

\* The backend is selected.
LEMMA SelectKeepsMeasurement == MeasurementInv /\ Select => MeasurementInv'
<1> SUFFICES ASSUME MeasurementInv, Select PROVE MeasurementInv'
  OBVIOUS
<1>1. pc \in BeforeReport
  BY DEF Select, BeforeReport
<1>2. CASE Backend = "none" /\ Deliver(Unavailable)
  <2>1. /\ pc' = "report" /\ result' = Unavailable
        /\ UNCHANGED <<project, disk, iteration, todo, silent, gcovFile, summaries, reported>>
    BY <1>2 DEF Deliver
  <2> QED
    BY <1>1, <2>1, MeasureKeepsMeasurement
<1>3. CASE \/ Backend = "python" /\ pc' = "coverage.py" /\ Keep
           \/ Backend = "native" /\ pc' = "build" /\ Keep
  <2>1. /\ result' = result
        /\ UNCHANGED <<project, disk, iteration, todo, silent, gcovFile, summaries, reported>>
    BY <1>3 DEF Keep, work
  <2>2. /\ pc' \in BeforeReport \ {"report", "gcov"}
        /\ pc' \in PythonSteps => Backend = "python"
        /\ pc' \in NativeSteps => Backend = "native"
        /\ pc' # "parse"
    BY <1>3 DEF BeforeReport, PythonSteps, NativeSteps
  <2> QED
    BY <1>1, <2>1, <2>2, MeasureKeepsMeasurement
<1> QED
  BY <1>2, <1>3 DEF Select

\* The steps of the Python adapter.
LEMMA PythonKeepsMeasurement ==
  MeasurementInv
  /\ (EnsureCoverage \/ RunPytest \/ Combine \/ ExportJson \/ ParseJson) => MeasurementInv'
<1> SUFFICES ASSUME MeasurementInv, EnsureCoverage \/ RunPytest \/ Combine \/ ExportJson \/ ParseJson
             PROVE  MeasurementInv'
  OBVIOUS
<1>1. PythonSteps \subseteq BeforeReport /\ PythonSteps \cap {"report", "gcov"} = {}
      /\ PythonSteps \cap NativeSteps = {}
  BY DEF BeforeReport, PythonSteps, NativeSteps
<1>2. pc \in PythonSteps => Backend = "python"
  BY DEF MeasurementInv, StepsInv
<1>3. ASSUME NEW here \in PythonSteps, NEW there \in PythonSteps, Command(here, there),
             pc' = "parse" => Imported # {}
      PROVE  MeasurementInv'
  BY <1>1, <1>2, <1>3, CommandKeepsMeasurement
<1>4. "coverage.py" \in PythonSteps /\ "pytest" \in PythonSteps /\ "combine" \in PythonSteps
      /\ "json" \in PythonSteps /\ "parse" \in PythonSteps
  BY DEF PythonSteps
<1>5. CASE EnsureCoverage
  <2>1. Command("coverage.py", "pytest") /\ pc' # "parse"
    BY <1>5 DEF EnsureCoverage, Command, Deliver
  <2> QED
    BY <1>3, <1>4, <2>1
<1>6. CASE RunPytest
  <2>1. Command("pytest", "combine") /\ pc' # "parse"
    BY <1>6 DEF RunPytest, Command, Deliver
  <2> QED
    BY <1>3, <1>4, <2>1
<1>7. CASE Combine
  <2>1. Command("combine", "json") /\ pc' # "parse"
    BY <1>7 DEF Combine, Command, Deliver
  <2> QED
    BY <1>3, <1>4, <2>1
<1>8. CASE ExportJson
  <2>1. Command("json", "parse") /\ (pc' = "parse" => Imported # {})
    BY <1>8 DEF ExportJson
  <2> QED
    BY <1>3, <1>4, <2>1
<1>9. CASE ParseJson
  <2>1. /\ pc = "parse" /\ pc' = "report" /\ result' = PythonReport
        /\ UNCHANGED <<project, disk, iteration, todo, silent, gcovFile, summaries, reported>>
    BY <1>9 DEF ParseJson, Deliver
  <2>2. Backend = "python" /\ Imported # {} /\ pc \in BeforeReport
    BY <1>1, <1>2, <1>4, <2>1 DEF MeasurementInv, StepsInv
  <2> QED
    BY <2>1, <2>2, MeasureKeepsMeasurement
<1> QED
  BY <1>5, <1>6, <1>7, <1>8, <1>9

\* The instrumented build.
LEMMA BuildKeepsMeasurement == MeasurementInv /\ BuildInstrumented => MeasurementInv'
<1> SUFFICES ASSUME MeasurementInv, BuildInstrumented PROVE MeasurementInv'
  OBVIOUS
<1>1. Command("build", "gcov?") /\ pc = "build" /\ pc' # "parse"
  BY DEF BuildInstrumented, Command, Deliver, Keep
<1>2. Backend = "native"
  BY <1>1 DEF MeasurementInv, StepsInv, NativeSteps
<1>3. "build" \in BeforeReport /\ "gcov?" \in BeforeReport \ {"report", "gcov"}
      /\ "gcov?" \notin PythonSteps
  BY DEF BeforeReport, PythonSteps, NativeSteps
<1> QED
  BY <1>1, <1>2, <1>3, CommandKeepsMeasurement

\* The summaries become the report.
LEMMA ParseGcovKeepsMeasurement == MeasurementInv /\ ParseGcov => MeasurementInv'
<1> SUFFICES ASSUME MeasurementInv, ParseGcov PROVE MeasurementInv'
  OBVIOUS
<1>1. /\ pc = "gcov" /\ todo = {} /\ pc' = "report" /\ result' = NativeReport
      /\ UNCHANGED <<project, disk, iteration, todo, silent, gcovFile, summaries, reported>>
  BY DEF ParseGcov, Deliver
<1>2. pc \in BeforeReport /\ Backend = "native"
  BY <1>1 DEF MeasurementInv, StepsInv, BeforeReport, NativeSteps
<1>3. summaries = {} => NativeReport = Unavailable
  BY DEF NativeReport
<1> QED
  BY <1>1, <1>2, <1>3, MeasureKeepsMeasurement

\* Each step of a measurement, and its end at any time.
LEMMA NextKeepsMeasurement == MeasurementInv /\ [Next]_vars => MeasurementInv'
<1> SUFFICES ASSUME MeasurementInv, [Next]_vars PROVE MeasurementInv'
  OBVIOUS
<1>1. CASE Begin
  BY <1>1, BeginKeepsMeasurement
<1>2. CASE Measure
  BY <1>2, SelectKeepsMeasurement, PythonKeepsMeasurement, BuildKeepsMeasurement,
       InstrumentedKeepsMeasurement, RunGcovKeepsMeasurement, ParseGcovKeepsMeasurement,
     WriteReportKeepsMeasurement, WriteMarkersKeepsMeasurement,
       ContinueKeepsMeasurement DEF Measure
<1>3. CASE Kill
  <2>1. pc' = "idle" /\ UNCHANGED <<project, disk, iteration, work, reported>>
    BY <1>3 DEF Kill, Keep
  <2> QED
    BY <2>1, EndKeepsMeasurement
<1>4. CASE UNCHANGED vars
  <2>1. /\ project' = project /\ reports' = reports /\ markers' = markers
           /\ marker' = marker
        /\ pc' = pc /\ iteration' = iteration /\ todo' = todo /\ silent' = silent
        /\ gcovFile' = gcovFile
        /\ summaries' = summaries /\ result' = result /\ reported' = reported
    BY <1>4 DEF vars, disk, work
  <2>2. Backend' = Backend /\ Imported' = Imported
    BY <2>1 DEF Backend, Imported
  <2>3. PythonReport' = PythonReport /\ NativeReport' = NativeReport
    BY <2>1, <2>2 DEF PythonReport, NativeReport
  <2>4. StepsInv'
    BY <2>1, <2>2, <2>3 DEF MeasurementInv, StepsInv, Numbers
  <2>5. ReportsInv'
    BY <2>1 DEF MeasurementInv, ReportsInv, MarksInv, Settled, Unmeasured, Honest, Numbers
  <2>6. GcovInv'
    <3>1. pc' = "idle" \/ (pc # "idle" /\ (pc' # "gcov" \/ pc = "gcov"))
      BY <2>1
    <3> QED
      BY <2>1, <3>1, GcovRests DEF MeasurementInv
  <2> QED
    BY <2>4, <2>5, <2>6 DEF MeasurementInv
<1> QED
  BY <1>1, <1>2, <1>3, <1>4 DEF Next

\* A measurement goes through the steps of one backend, gcov has left what the
\* summaries hold, and the markers are those of the unavailable reports
\* (coverage/registry.py:104-133, coverage/adapters.py).
THEOREM MeasurementInvariant == Spec => []MeasurementInv
<1>1. Init => MeasurementInv
  BY MeasurementStarts
<1>2. MeasurementInv /\ [Next]_vars => MeasurementInv'
  BY NextKeepsMeasurement
<1> QED
  BY <1>1, <1>2, PTL DEF Spec

\* Reports and markers say whether coverage was measured, after failures and ends
\* of the process at any step (coverage/registry.py:104-133): for any projects and
\* any number of runs and iterations.
THEOREM CoverageReportsAreHonest == Spec => []ReportsAreHonest
<1>1. MeasurementInv => ReportsAreHonest
  <2> SUFFICES ASSUME MeasurementInv PROVE TypeOK /\ AvailableMeansMeasured
                      /\ UnavailableIsMarked
    BY DEF ReportsAreHonest
  <2>1. TypeOK
    BY DEF MeasurementInv, StepsInv, GcovInv, TypeOK
  <2>2. AvailableMeansMeasured
    <3>1. \A r \in {result} \cup {reports[n] : n \in Numbers} : Honest(r)
      BY DEF MeasurementInv, ReportsInv
    <3> QED
      BY <3>1 DEF AvailableMeansMeasured, Honest
  <2>3. UnavailableIsMarked
    <3> SUFFICES ASSUME pc \in {"next", "select"}, Unmeasured # {}
                 PROVE  /\ \A n \in Unmeasured : markers[n] = reports[n]
                        /\ marker = Max(Unmeasured)
      BY DEF UnavailableIsMarked, Unmeasured
    <3>1. Settled = Unmeasured
      BY DEF Settled
    <3>2. /\ \A n \in Unmeasured : markers[n] = reports[n]
          /\ marker \in Unmeasured /\ \A n \in Unmeasured : n <= marker
      BY <3>1 DEF MeasurementInv, ReportsInv, MarksInv
    <3>3. Unmeasured \subseteq Nat
      <4>1. reported \subseteq Numbers /\ Numbers \subseteq Nat
        BY MeasurementAssumption DEF MeasurementInv, StepsInv, Numbers
      <4> QED
        BY <4>1 DEF Unmeasured
    <3> HIDE DEF Unmeasured
    <3>4. \A n \in Unmeasured : marker >= n
      BY <3>2, <3>3
    <3>5. Max(Unmeasured) \in Unmeasured /\ \A n \in Unmeasured : Max(Unmeasured) >= n
      BY <3>2, <3>4, Zenon DEF Max
    <3>6. marker = Max(Unmeasured)
      <4> DEFINE m == Max(Unmeasured)
      <4>1. m \in Nat /\ marker \in Nat /\ m <= marker /\ m >= marker
        BY <3>2, <3>3, <3>5
      <4> HIDE DEF m
      <4>2. m = marker
        BY <4>1
      <4> QED
        BY <4>2 DEF m
    <3> QED
      BY <3>2, <3>6
  <2> QED
    BY <2>1, <2>2, <2>3
<1> QED
  BY <1>1, MeasurementInvariant, PTL

-----------------------------------------------------------------------------
(* The gaps.                                                               *)

\* The gaps of a source and the lines that they hold.
LinesOf(gaps) == UNION {{<<g.file, l>> : l \in g.range.start .. g.range.end} : g \in gaps}

GapsOf(s) == Gaps(GapFile(s), MissingRanges(s.missed, s.spans))

\* The gaps of the imported sources hold the lines they miss.
LEMMA GapsHoldTheMissedLines ==
  ASSUME project \in Projects
  PROVE  LinesOf(UNION {GapsOf(s) : s \in Counted})
           = UNION {{<<GapFile(s), l>> : l \in s.missed} : s \in Counted}
<1> DEFINE gaps == UNION {GapsOf(s) : s \in Counted}
           R(s) == ToSet(MissingRanges(s.missed, s.spans))
           missed == UNION {{<<GapFile(s), l>> : l \in s.missed} : s \in Counted}
<1>1. \A s \in Counted :
        /\ s.missed \in SUBSET (Nat \ {0})
        /\ \A r \in R(s) : \A l \in r.start .. r.end : l \in s.missed
        /\ \A l \in s.missed : \E r \in R(s) : l \in r.start .. r.end
  <2> TAKE s \in Counted
  <2>1. s.missed \in SUBSET (Nat \ {0}) /\ IsFiniteSet(s.missed)
    BY ProjectTyped DEF Counted, Imported
  <2> QED
    BY <2>1, RangesOfLines
<1> HIDE DEF R
<1>2. \A s : GapsOf(s) = {[file |-> GapFile(s), range |-> r] : r \in R(s)}
  BY DEF GapsOf, Gaps, R
<1>3. ASSUME NEW x \in LinesOf(gaps) PROVE x \in missed
  <2>1. PICK g \in gaps : \E l \in g.range.start .. g.range.end : x = <<g.file, l>>
    BY DEF LinesOf
  <2>2. PICK l \in g.range.start .. g.range.end : x = <<g.file, l>>
    BY <2>1
  <2>3. PICK s \in Counted : g \in GapsOf(s)
    OBVIOUS
  <2>4. g.range \in R(s) /\ g.file = GapFile(s)
    BY <1>2, <2>3
  <2>5. l \in s.missed
    BY <1>1, <2>2, <2>4
  <2> QED
    BY <2>2, <2>4, <2>5
<1>4. ASSUME NEW x \in missed PROVE x \in LinesOf(gaps)
  <2>1. PICK s \in Counted : \E l \in s.missed : x = <<GapFile(s), l>>
    OBVIOUS
  <2>2. PICK l \in s.missed : x = <<GapFile(s), l>>
    BY <2>1
  <2>3. PICK r \in R(s) : l \in r.start .. r.end
    BY <1>1
  <2>4. PICK g : g = [file |-> GapFile(s), range |-> r]
    OBVIOUS
  <2>5. g \in GapsOf(s) /\ g.file = GapFile(s) /\ g.range = r
    BY <1>2, <2>4
  <2>6. g \in gaps
    BY <2>5
  <2> HIDE DEF gaps
  <2> QED
    BY <2>2, <2>3, <2>5, <2>6 DEF LinesOf
<1> QED
  BY <1>3, <1>4

\* The data files of C sources are told apart by name and stem.
NamesDiffer ==
  \A s, t \in project.sources : s # t => {s.name, s.stem} \cap {t.name, t.stem} = {}

\* Then gcov reports on the source that it was asked for.
LEMMA TargetIsSource ==
  ASSUME project \in Projects, NamesDiffer, NEW s \in project.sources
  PROVE  /\ s \in Imported \ silent => Target(s) = s
         /\ Target(s) # None => s \in Imported \ silent /\ Target(s) = s
<1>1. ASSUME NEW t \in Fits(s) PROVE t = s
  <2>1. t \in project.sources /\ DataName(t) \in {s.stem, s.name}
        /\ DataName(t) \in {t.name, t.stem}
    BY DEF Fits, DataName, Imported
  <2> QED
    BY <2>1 DEF NamesDiffer
<1>2. s \in Imported \ silent => s \in Fits(s)
  BY DEF Fits, DataName
<1>3. Fits(s) \subseteq project.sources /\ Fits(s) \subseteq Imported \ silent
  BY DEF Fits, Imported
<1>4. Target(s) = IF Fits(s) = {} THEN None ELSE First(Fits(s))
  BY DEF Target, Fits
<1>5. Fits(s) # {} => First(Fits(s)) \in Fits(s)
  BY <1>3, FirstSource
<1> HIDE DEF Fits
<1>6. Fits(s) # {} => Target(s) = s /\ s \in Imported \ silent
  BY <1>1, <1>3, <1>4, <1>5
<1> QED
  BY <1>2, <1>4, <1>6

\* What gcov has said, when each source has a name of its own.
LEMMA NativeMeasures ==
  ASSUME project \in Projects, GcovInv, pc = "report", todo = {}, summaries # {},
         Backend = "native", NamesDiffer
  PROVE  /\ Total([x \in summaries |-> x.covered]) = CoveredOf(Counted)
         /\ Total([x \in summaries |-> x.lines]) = SizeOf(Counted)
         /\ Counted # {}
         /\ UNION {x.gaps : x \in summaries} =
              IF project.absolute THEN UNION {GapsOf(s) : s \in Counted} ELSE {}
<1> DEFINE g == [x \in summaries |-> x.source]
           c == [s \in Counted |-> Covered(s)]
           z == [s \in Counted |-> s.size]
<1>1. ASSUME NEW x \in summaries
      PROVE  /\ x.source \in Counted /\ x.covered = Covered(x.source)
                /\ x.lines = x.source.size
             /\ x.gaps = IF project.absolute THEN GapsOf(x.source) ELSE {}
  <2>1. SummaryFits(x)
    BY DEF GcovInv
  <2>2. x.source \in project.sources /\ Target(x.source) # None
    BY <2>1 DEF SummaryFits
  <2>3. Target(x.source) = x.source /\ x.source \in Counted
    BY <2>2, TargetIsSource DEF Counted
  <2>4. x.source.spans = {} /\ GapFile(x.source) = BareName(x.source)
    BY <2>2, ProjectTyped DEF GapFile
  <2>5. GapsOf(x.source) = Gaps(BareName(x.source), CollapseRanges(x.source.missed))
    BY <2>4 DEF GapsOf, CollapseRanges
  <2> QED
    BY <2>1, <2>3, <2>5 DEF SummaryFits
<1>2. ASSUME NEW s \in Counted PROVE \E x \in summaries : x.source = s
  <2>1. s \in project.sources \ todo /\ s \in Imported \ silent /\ s # None
    BY ProjectTyped DEF Counted, Imported
  <2>2. Target(s) # None
    BY <2>1, TargetIsSource
  <2> QED
    BY <2>1, <2>2 DEF GcovInv
<1>3. \A x, y \in summaries : x.source = y.source => x = y
  BY DEF GcovInv
<1>4. IsFiniteSet(summaries)
  BY DEF GcovInv
<1>5. g \in [summaries -> Counted] /\ \A x, y \in summaries : g[x] = g[y] => x = y
  BY <1>1, <1>3
<1>6. {g[x] : x \in summaries} = Counted
  BY <1>1, <1>2
<1>7. c \in [Counted -> Int] /\ z \in [Counted -> Int]
  BY ProjectTyped DEF Counted, Imported
<1>8. [x \in summaries |-> x.covered] = [x \in summaries |-> c[g[x]]]
  BY <1>1
<1>9. [x \in summaries |-> x.lines] = [x \in summaries |-> z[g[x]]]
  BY <1>1
<1>10. UNION {x.gaps : x \in summaries} =
         IF project.absolute THEN UNION {GapsOf(s) : s \in Counted} ELSE {}
  <2>1. CASE project.absolute
    <3>1. \A x \in summaries : x.gaps = GapsOf(x.source) /\ x.source \in Counted
      BY <1>1, <2>1
    <3> QED
      BY <1>2, <2>1, <3>1
  <2>2. CASE ~ project.absolute
    <3>1. \A x \in summaries : x.gaps = {}
      BY <1>1, <2>2
    <3> QED
      BY <2>2, <3>1
  <2> QED
    BY <2>1, <2>2
<1> HIDE DEF g, c, z
<1>11. SumFunctionOnSet(c, {g[x] : x \in summaries})
         = SumFunctionOnSet([x \in summaries |-> c[g[x]]], summaries)
  BY <1>4, <1>5, <1>7, SumOfImages
<1>12. SumFunctionOnSet(z, {g[x] : x \in summaries})
         = SumFunctionOnSet([x \in summaries |-> z[g[x]]], summaries)
  BY <1>4, <1>5, <1>7, SumOfImages
<1>13. Total([x \in summaries |-> x.covered]) = SumFunctionOnSet([x \in summaries |-> x.covered], summaries)
  BY DEF Total
<1>14. Total([x \in summaries |-> x.lines]) = SumFunctionOnSet([x \in summaries |-> x.lines], summaries)
  BY DEF Total
<1>15. CoveredOf(Counted) = SumFunctionOnSet(c, Counted)
  BY DEF CoveredOf, Total, c
<1>16. SizeOf(Counted) = SumFunctionOnSet(z, Counted)
  BY DEF SizeOf, Total, z
<1> QED
  BY <1>1, <1>6, <1>8, <1>9, <1>10, <1>11, <1>12, <1>13, <1>14, <1>15, <1>16

\* The report of a backend.
LEMMA ReportIsThatOfTheBackend ==
  ASSUME MeasurementInv, pc = "report", result.available
  PROVE  /\ project \in Projects /\ GcovInv
         /\ \/ Backend = "python" /\ Imported # {} /\ result = PythonReport
            \/ Backend = "native" /\ todo = {} /\ summaries # {} /\ result = NativeReport
<1>1. result # Unavailable
  BY UnavailableIsHonest
<1> QED
  BY <1>1 DEF MeasurementInv, StepsInv

\* The coverage of an available report is that of the sources of the program, with
\* gcov of all but those it is silent about, and its gaps hold the lines the tests
\* left out of them, no others: in Python always, with gcov if no source has the
\* name or the stem of another (coverage/adapters.py:355-412, 760-803).
THEOREM CoverageMeasuresTheProgram == Spec => []MeasuresTheProgram
<1>1. MeasurementInv => MeasuresTheProgram
  <2> SUFFICES ASSUME MeasurementInv, pc = "report", result.available,
                        Backend = "python" \/ NamesDiffer
               PROVE  /\ Counted # {}
                      /\ result.covered = CoveredOf(Counted)
                         /\ result.lines = SizeOf(Counted)
                      /\ LinesOf(result.gaps) =
                           IF Backend = "python" \/ project.absolute
                             THEN UNION {{<<GapFile(s),
                               l>> : l \in s.missed} : s \in Counted}
                             ELSE {}
    BY DEF MeasuresTheProgram, LinesOf, NamesDiffer
  <2>1. /\ project \in Projects /\ GcovInv
        /\ \/ Backend = "python" /\ Imported # {} /\ result = PythonReport
           \/ Backend = "native" /\ todo = {} /\ summaries # {} /\ result = NativeReport
    BY ReportIsThatOfTheBackend
  <2>2. LinesOf(UNION {GapsOf(s) : s \in Counted})
          = UNION {{<<GapFile(s), l>> : l \in s.missed} : s \in Counted}
    BY <2>1, GapsHoldTheMissedLines
  <2>3. CASE Backend = "python" /\ Imported # {} /\ result = PythonReport
    <3>0. Counted = Imported
      BY <2>3 DEF Counted
    <3>1. /\ result.covered = CoveredOf(Imported) /\ result.lines = SizeOf(Imported)
          /\ result.gaps = UNION {Gaps(Path(s), MissingRanges(s.missed,
               s.spans)) : s \in Imported}
      BY <2>1, <2>3, PythonReportIs
    <3>2. \A s : GapsOf(s) = Gaps(Path(s), MissingRanges(s.missed, s.spans))
      BY <2>3 DEF GapsOf, GapFile
    <3>3. result.gaps = UNION {GapsOf(s) : s \in Counted}
      BY <3>0, <3>1, <3>2
    <3> QED
      BY <2>2, <2>3, <3>0, <3>1, <3>3
  <2>4. CASE Backend = "native" /\ todo = {} /\ summaries # {} /\ result = NativeReport
    <3>1. /\ result.covered = Total([x \in summaries |-> x.covered])
          /\ result.lines = Total([x \in summaries |-> x.lines])
          /\ result.gaps = UNION {x.gaps : x \in summaries}
      BY <2>1, <2>4, NativeReportIs
    <3>2. NamesDiffer
      BY <2>4
    <3>3. /\ Counted # {}
          /\ result.covered = CoveredOf(Counted) /\ result.lines = SizeOf(Counted)
          /\ result.gaps = IF project.absolute THEN UNION {GapsOf(s) : s \in Counted} ELSE {}
      BY <2>1, <2>4, <3>1, <3>2, NativeMeasures
    <3>4. LinesOf({}) = {}
      BY DEF LinesOf
    <3> QED
      BY <2>2, <2>4, <3>3, <3>4
  <2> QED
    BY <2>1, <2>3, <2>4
<1> QED
  BY <1>1, MeasurementInvariant, PTL

\* Ranges of the missing lines of a source with the same functions.
LEMMA RangesArePrecise ==
  ASSUME project \in Projects, NEW s \in project.sources, NEW t \in project.sources,
         t.spans = s.spans, NEW ranges \in SUBSET ToSet(MissingRanges(t.missed, s.spans))
  PROVE  /\ \A r \in ranges : \A l \in r.start .. r.end : SmallestName(l,
              s.spans) = r.function
         /\ \A p, q \in ranges :
              \/ p = q \/ p.end < q.start - 1 \/ q.end < p.start - 1
              \/ p.function # q.function /\ (p.end < q.start \/ q.end < p.start)
<1>1. /\ t.missed \in SUBSET (Nat \ {0}) /\ IsFiniteSet(t.missed)
      /\ s.spans \in SUBSET SpanType /\ Laminar(s.spans)
  BY ProjectTyped
<1> DEFINE all == ToSet(MissingRanges(t.missed, s.spans))
<1>2. /\ \A r \in all : /\ r.start \in Nat /\ r.end \in Nat
                        /\ \A l \in r.start .. r.end : FunctionForLine(l,
                             s.spans) = r.function
      /\ \A p, q \in all : p = q \/ RangesApart(p, q) \/ RangesApart(q, p)
  BY <1>1, RangesOfLines
<1> HIDE DEF all
<1>3. \A r \in ranges : \A l \in r.start .. r.end : SmallestName(l, s.spans) = r.function
  <2> SUFFICES ASSUME NEW r \in ranges, NEW l \in r.start .. r.end
               PROVE  SmallestName(l, s.spans) = r.function
    OBVIOUS
  <2>1. r \in all /\ r.start \in Nat /\ r.end \in Nat
    BY <1>2 DEF all
  <2>2. l \in Nat
    BY <2>1
  <2> QED
    BY <1>1, <1>2, <2>1, <2>2, InnermostIsSmallest
<1>4. ASSUME NEW p \in ranges, NEW q \in ranges
      PROVE  \/ p = q \/ p.end < q.start - 1 \/ q.end < p.start - 1
             \/ p.function # q.function /\ (p.end < q.start \/ q.end < p.start)
  <2>1. p \in all /\ q \in all
    BY DEF all
  <2> QED
    BY <1>2, <2>1 DEF RangesApart
<1> QED
  BY <1>3, <1>4

RangesIn(file) == {g.range : g \in {g \in result.gaps : g.file = file}}

\* The gaps of a file are of one source.
LEMMA GapsAreOfOneSource ==
  ASSUME MeasurementInv, pc = "report", result.available, NEW s \in Imported
  PROVE  \E t \in project.sources :
           t.spans = s.spans
           /\ RangesIn(GapFile(s)) \subseteq ToSet(MissingRanges(t.missed, s.spans))
<1>1. /\ project \in Projects /\ GcovInv /\ s \in project.sources
      /\ \/ Backend = "python" /\ Imported # {} /\ result = PythonReport
         \/ Backend = "native" /\ todo = {} /\ summaries # {} /\ result = NativeReport
  BY ReportIsThatOfTheBackend DEF Imported
<1>2. CASE Backend = "python" /\ Imported # {} /\ result = PythonReport
  <2>1. result.gaps = UNION {Gaps(Path(t), MissingRanges(t.missed,
          t.spans)) : t \in Imported}
    BY <1>1, <1>2, PythonReportIs
  <2>2. GapFile(s) = Path(s)
    BY <1>2 DEF GapFile
  <2>3. ASSUME NEW g \in result.gaps, g.file = Path(s)
        PROVE  g.range \in ToSet(MissingRanges(s.missed, s.spans))
    <3>1. PICK t \in Imported : g \in Gaps(Path(t), MissingRanges(t.missed, t.spans))
      BY <2>1
    <3>2. g.file = Path(t) /\ g.range \in ToSet(MissingRanges(t.missed, t.spans))
      BY <3>1 DEF Gaps
    <3>3. s.place = t.place
      BY <2>3, <3>2 DEF Path
    <3>4. s = t
      BY <1>1, <3>3, ProjectTyped DEF Imported
    <3> QED
      BY <3>2, <3>4
  <2>4. RangesIn(GapFile(s)) \subseteq ToSet(MissingRanges(s.missed, s.spans))
    BY <2>2, <2>3 DEF RangesIn
  <2> QED
    BY <1>1, <2>4
<1>3. CASE Backend = "native" /\ todo = {} /\ summaries # {} /\ result = NativeReport
  <2>1. result.gaps = UNION {x.gaps : x \in summaries}
    BY <1>1, <1>3, NativeReportIs
  <2>2. GapFile(s) = BareName(s)
    BY <1>3 DEF GapFile
  <2>3. ASSUME NEW g \in result.gaps, g.file = BareName(s)
        PROVE  \E t \in Targets : t.name = s.name
               /\ g.range \in ToSet(CollapseRanges(t.missed))
    <3>1. PICK x \in summaries : g \in x.gaps
      BY <2>1
    <3>2. SummaryFits(x) /\ x.gaps # {}
      BY <1>1, <3>1 DEF GcovInv
    <3>3. PICK t \in Targets : /\ t.name = x.source.name
                               /\ x.gaps = Gaps(BareName(x.source),
                                    CollapseRanges(t.missed))
      BY <3>2 DEF SummaryFits
    <3>4. g.file = BareName(x.source) /\ g.range \in ToSet(CollapseRanges(t.missed))
      BY <3>1, <3>3 DEF Gaps
    <3>5. x.source.name = s.name
      BY <2>3, <3>4 DEF BareName
    <3> QED
      BY <3>3, <3>4, <3>5
  <2>4. \A t \in project.sources : t.spans = {} /\ s.spans = {}
    BY <1>1, <1>3, ProjectTyped
  <2>5. CASE RangesIn(GapFile(s)) = {}
    BY <1>1, <2>5
  <2>6. CASE RangesIn(GapFile(s)) # {}
    <3>1. PICK h \in result.gaps : h.file = BareName(s)
      BY <2>2, <2>6 DEF RangesIn
    <3>2. PICK t \in Targets : t.name = s.name
      BY <2>3, <3>1
    <3>3. ASSUME NEW g \in result.gaps, g.file = BareName(s)
          PROVE  g.range \in ToSet(CollapseRanges(t.missed))
      <4>1. PICK u \in Targets : u.name = s.name
            /\ g.range \in ToSet(CollapseRanges(u.missed))
        BY <2>3, <3>3
      <4>2. u = t
        BY <1>1, <3>2, <4>1, TargetsDiffer
      <4> QED
        BY <4>1, <4>2
    <3>4. t \in project.sources
      <4>1. PICK r \in project.sources : t = Target(r) /\ Target(r) # None
        BY DEF Targets
      <4> QED
        BY <1>1, <4>1, TargetFits DEF Fits, Imported
    <3>5. CollapseRanges(t.missed) = MissingRanges(t.missed, s.spans) /\ t.spans = s.spans
      BY <2>4, <3>4 DEF CollapseRanges
    <3>6. RangesIn(GapFile(s)) \subseteq ToSet(MissingRanges(t.missed, s.spans))
      BY <2>2, <3>3, <3>5 DEF RangesIn
    <3> QED
      BY <3>4, <3>5, <3>6
  <2> QED
    BY <2>5, <2>6
<1> QED
  BY <1>1, <1>2, <1>3

\* Gaps of a file lie apart, each is in the one function it names, the smallest
\* around it, and none could be longer (_missing_ranges, _function_for_line and
\* _collapse_ranges of coverage/adapters.py): for any lines and functions.
THEOREM CoverageGapsArePrecise == Spec => []GapsArePrecise
<1>1. MeasurementInv => GapsArePrecise
  <2> SUFFICES ASSUME MeasurementInv, pc = "report", result.available, NEW s \in Imported
               PROVE  /\ \A r \in RangesIn(GapFile(s)) : \A l \in r.start .. r.end :
                           SmallestName(l, s.spans) = r.function
                      /\ \A p, q \in RangesIn(GapFile(s)) :
                           \/ p = q \/ p.end < q.start - 1 \/ q.end < p.start - 1
                           \/ p.function # q.function
                              /\ (p.end < q.start \/ q.end < p.start)
    BY Zenon DEF GapsArePrecise, SmallestName, RangesIn
  <2>1. PICK t \in project.sources :
          t.spans = s.spans
          /\ RangesIn(GapFile(s)) \subseteq ToSet(MissingRanges(t.missed, s.spans))
    BY GapsAreOfOneSource
  <2>2. project \in Projects /\ s \in project.sources
    BY DEF MeasurementInv, StepsInv, Imported
  <2> DEFINE ranges == RangesIn(GapFile(s))
  <2>3. ranges \in SUBSET ToSet(MissingRanges(t.missed, s.spans))
    BY <2>1
  <2> HIDE DEF ranges
  <2>4. /\ \A r \in ranges : \A l \in r.start .. r.end : SmallestName(l,
             s.spans) = r.function
        /\ \A p, q \in ranges :
             \/ p = q \/ p.end < q.start - 1 \/ q.end < p.start - 1
             \/ p.function # q.function /\ (p.end < q.start \/ q.end < p.start)
    BY <2>1, <2>2, <2>3, RangesArePrecise
  <2> QED
    BY <2>4 DEF ranges
<1> QED
  BY <1>1, MeasurementInvariant, PTL
=============================================================================
