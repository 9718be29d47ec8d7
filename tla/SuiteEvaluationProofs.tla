----------------------- MODULE SuiteEvaluationProofs -----------------------
(***************************************************************************)
(* The reports of an evaluation are of one suite, in order, the score is   *)
(* a rate, and a queue without items speaks for every test, for any tests, *)
(* traits, coverages, multipliers and numbers of runs and evaluations.     *)
(* And a better suite scores no less, for any suite that may be drawn.     *)
(***************************************************************************)
EXTENDS MCSuiteEvaluation, FiniteSetTheorems, TLAPS

\* The steps after each report, and after each measurement before them.
AfterQueue       == {"export", "done"}
AfterReward      == {"qc"} \cup AfterQueue
AfterQuality     == {"reward"} \cup AfterReward
AfterEfficiency  == {"quality"} \cup AfterQuality
AfterMutation    == {"efficiency"} \cup AfterEfficiency
AfterRedundancy  == {"mutation"} \cup AfterMutation
AfterDummies     == {"redundancy"} \cup AfterRedundancy
AfterLint        == {"determinism", "dummies"} \cup AfterDummies
AfterGold        == {"lint 2"} \cup AfterLint
Steps == {"idle", "gold 1", "lint 1", "gates", "gold 2"} \cup AfterGold

After ==
  [redundancy |-> AfterRedundancy, mutation |-> AfterMutation, efficiency |-> AfterEfficiency,
   quality |-> AfterQuality, reward |-> AfterReward, qc |-> AfterQueue]

DiskType ==
  /\ trait \in [Tests -> TraitType] /\ suite \in SUBSET Tests
  /\ coverage \in Rates \cup {None}
  /\ exported \in {None, "ready", "review", "hold"}

CallType ==
  /\ pc \in Steps /\ calls \in Nat
  /\ gold \in [run : SUBSET Tests, passed : SUBSET Tests] /\ gold.passed \subseteq gold.run
  /\ lint \in [run : SUBSET Tests, high : SUBSET Tests, medium : SUBSET Tests]
  /\ runs \in 0 .. DeterminismRuns
  /\ unsteady \in SUBSET Tests /\ fooled \in SUBSET Tests

ReportType ==
  /\ report = [n \in Names |-> report[n]]
  /\ \A n \in Names : report[n] \in Reports[n] \cup {None}
  /\ \A n \in Names : report[n] # None => report[n].call <= calls

\* What was measured after the gates is of the suite that they left.
MeasuresAreCurrent ==
  /\ pc \in AfterGold => gold.run = suite
  /\ pc \in AfterLint => lint = Flags(suite)
  /\ pc \in AfterDummies => fooled = {t \in suite : trait[t].fools}

\* So is every report the call has written.
ReportsAreCurrent ==
  \A n \in Names :
    pc \in After[n] => report[n] # None /\ report[n].of = suite /\ report[n].call = calls

ContentsAreCurrent ==
  /\ pc \in AfterRedundancy =>
       report["redundancy"].clustered = {t \in suite : Cluster(t, suite) # {t}}
  /\ pc \in AfterMutation =>
       report["mutation"].survivors = {t \in suite : trait[t].survives}
  /\ pc \in AfterEfficiency /\ ~report["efficiency"].eligible =>
       report["efficiency"].multiplier = None
  /\ pc \in AfterQueue => report["qc"].items = QueueItems

\* UntimedIsNeutral as soon as the score is written.
Neutral ==
  LET r     == report["reward"]
      score == r.result.score
  IN  r.result.passed =>
        /\ ~report["efficiency"].eligible =>
             score = IF coverage = None THEN Smaller(r.quality, Cap) ELSE r.quality
        /\ coverage = None => score <= Cap

EInv ==
  /\ DiskType /\ CallType /\ ReportType
  /\ MeasuresAreCurrent /\ ReportsAreCurrent /\ ContentsAreCurrent
  /\ pc \in AfterReward => Neutral
  /\ ReportsInOrder
-----------------------------------------------------------------------------
(* The arithmetic of the score.                                            *)

LEMMA OneIsPositive == One \in Nat \ {0} /\ Gate \in 0 .. One /\ None \notin Nat
  BY ScoreAssumption

LEMMA Quotient ==
  ASSUME NEW a \in Nat, NEW n \in Nat \ {0}
  PROVE  /\ a \div n \in Nat
         /\ \A o \in Nat : a <= o * n => a \div n <= o
  OBVIOUS

LEMMA Transitivity == \A a, b, c \in Nat : a <= a /\ (a <= b /\ b <= c => a <= c)
  OBVIOUS

LEMMA Products ==
  ASSUME NEW a \in Nat, NEW k \in Nat
  PROVE  /\ a * k \in Nat
         /\ \A n \in Nat : k <= n => a * k <= a * n
  OBVIOUS

LEMMA ShareIsRate ==
  ASSUME NEW k \in Nat, NEW n \in Nat
  PROVE  Share(k, n) \in Nat /\ (k <= n => Share(k, n) <= One)
<1>1. CASE n = 0
  BY <1>1, OneIsPositive DEF Share
<1>2. CASE n # 0
  <2> DEFINE a == One * k
  <2>1. a \in Nat /\ (k <= n => a <= One * n)
    BY OneIsPositive, Products
  <2>2. Share(k, n) = a \div n
    BY <1>2 DEF Share
  <2> HIDE DEF a
  <2> QED
    BY <1>2, <2>1, <2>2, OneIsPositive, Quotient
<1> QED
  BY <1>1, <1>2

LEMMA StrengthIsRate ==
  ASSUME NEW n \in Nat, NEW high \in Nat, NEW medium \in Nat
  PROVE  AssertionStrength(n, high, medium) \in Nat
<1> DEFINE Part(k) == Smaller(One, (One * k) \div Larger(n, 1))
<1>1. ASSUME NEW k \in Nat PROVE Part(k) \in Nat
  <2>1. Larger(n, 1) \in Nat \ {0}
    BY DEF Larger
  <2>2. One * k \in Nat
    BY OneIsPositive, Products
  <2>3. (One * k) \div Larger(n, 1) \in Nat
    BY <2>1, <2>2, Quotient
  <2> QED
    BY <2>3, OneIsPositive DEF Smaller
<1> HIDE DEF Part
<1> DEFINE loss == Part(high) + Part(medium) \div 4
<1>2. loss \in Nat
  <2>1. Part(high) \in Nat /\ Part(medium) \in Nat
    BY <1>1
  <2>2. Part(medium) \div 4 \in Nat
    BY <2>1, Quotient
  <2> QED
    BY <2>1, <2>2
<1>3. AssertionStrength(n, high, medium) = IF loss >= One THEN 0 ELSE One - loss
  BY DEF AssertionStrength, Part
<1> HIDE DEF loss
<1> QED
  BY <1>2, <1>3, OneIsPositive

MeasuresType ==
  [correct : Nat, strength : Nat, coverage : Nat \cup {None}, steady : Nat,
   rejecting : Nat, redundant : Nat]

LEMMA QualityIsRate ==
  ASSUME NEW m \in MeasuresType
  PROVE  Quality(m) \in 0 .. One
<1> DEFINE coverage0 == IF m.coverage = None THEN 0 ELSE m.coverage
           gain      == 45 * m.correct + 25 * m.strength + 10 * coverage0
                          + 10 * m.steady + 10 * m.rejecting
<1>1. /\ m.correct \in Nat /\ m.strength \in Nat /\ coverage0 \in Nat
      /\ m.steady \in Nat /\ m.rejecting \in Nat /\ m.redundant \in Nat
  BY DEF MeasuresType
<1>2. gain \in Nat
  <2> HIDE DEF coverage0
  <2> QED
    BY <1>1
<1>3. Quality(m) = IF gain <= 5 * m.redundant THEN 0
                   ELSE Smaller(One, (gain - 5 * m.redundant) \div 100)
  BY DEF Quality
<1> HIDE DEF gain
<1>4. CASE gain <= 5 * m.redundant
  BY <1>3, <1>4, OneIsPositive
<1>5. CASE ~(gain <= 5 * m.redundant)
  <2>1. gain - 5 * m.redundant \in Nat
    BY <1>1, <1>2, <1>5
  <2>2. (gain - 5 * m.redundant) \div 100 \in Nat
    BY <2>1, Quotient
  <2> QED
    BY <1>3, <1>5, <2>2, OneIsPositive DEF Smaller
<1> QED
  BY <1>4, <1>5

LEMMA CapIsRate == Cap \in 0 .. One
<1>1. One \in Nat
  BY OneIsPositive
<1> QED
  BY <1>1 DEF Cap

LEMMA FinalIsRate ==
  ASSUME NEW q \in 0 .. One, NEW times \in Nat, NEW measured \in BOOLEAN
  PROVE  /\ Final(q, times, measured) \in 0 .. One
         /\ ~measured => Final(q, times, measured) <= Cap
         /\ times = 4 => Final(q, times, measured) = IF measured THEN q ELSE Smaller(q, Cap)
<1> DEFINE product == Smaller(One, (q * times) \div 4)
<1>1. q \in Nat /\ q <= One /\ One \in Nat
  BY OneIsPositive
<1>2. q * times \in Nat
  BY <1>1, Products
<1>3. (q * times) \div 4 \in Nat
  BY <1>2, Quotient
<1>4. product \in 0 .. One
  BY <1>1, <1>3 DEF Smaller
<1>5. times = 4 => product = q
  <2>1. (q * 4) \div 4 = q
    BY <1>1
  <2> QED
    BY <1>1, <2>1 DEF Smaller
<1>6. Final(q, times, measured) = IF measured THEN product ELSE Smaller(product, Cap)
  BY DEF Final
<1> HIDE DEF product
<1> QED
  BY <1>1, <1>4, <1>5, <1>6, CapIsRate DEF Smaller

\* What is written of a suite is a rate, at most the cap without coverage,
\* and the quality itself if nothing was timed.
LEMMA RewardIsRate ==
  ASSUME NEW m \in MeasuresType, NEW times \in 3 .. 5 \cup {None}
  PROVE  LET r == Reward(m, times)
         IN  /\ r \in [passed : BOOLEAN, multiplier : Nat \cup {None}, score : 0 .. One,
                       noted : BOOLEAN]
             /\ r.passed =>
                  /\ times = None => r.score = IF m.coverage = None THEN Smaller(Quality(m), Cap)
                                                                    ELSE Quality(m)
                  /\ m.coverage = None => r.score <= Cap
<1> DEFINE passed == PassesGate(m.correct)
           by == IF times = None THEN 4 ELSE times
           final == Final(Quality(m), by, m.coverage # None)
<1>1. by \in Nat /\ (times = None => by = 4)
  OBVIOUS
<1>2. /\ final \in 0 .. One /\ (m.coverage = None => final <= Cap)
      /\ by = 4 => final = IF m.coverage = None THEN Smaller(Quality(m), Cap) ELSE Quality(m)
  <2>1. Quality(m) \in 0 .. One
    BY QualityIsRate
  <2>2. (m.coverage # None) \in BOOLEAN
    OBVIOUS
  <2> HIDE DEF by
  <2> QED
    BY <1>1, <2>1, <2>2, FinalIsRate
<1>3. passed \in BOOLEAN /\ (~passed => m.correct \in 0 .. One)
  <2>1. m.correct \in Nat
    BY DEF MeasuresType
  <2> QED
    BY <2>1, OneIsPositive DEF PassesGate
<1>4. Reward(m, times) =
        [passed |-> passed, multiplier |-> IF passed THEN by ELSE None,
         score |-> IF passed THEN final ELSE m.correct, noted |-> m.coverage = None]
  BY DEF Reward
<1> HIDE DEF passed, by, final
<1> QED
  BY <1>1, <1>2, <1>3, <1>4

\* No measure is worse in b than in m: it has coverage where m has.
NotWorse(b, m) ==
  /\ m.correct <= b.correct /\ m.strength <= b.strength
  /\ m.coverage # None => b.coverage # None /\ m.coverage <= b.coverage
  /\ m.steady <= b.steady /\ m.rejecting <= b.rejecting /\ b.redundant <= m.redundant

LEMMA QualityIsMonotone ==
  ASSUME NEW m \in MeasuresType, NEW b \in MeasuresType, NotWorse(b, m)
  PROVE  Quality(m) <= Quality(b)
<1> DEFINE cover(x) == IF x.coverage = None THEN 0 ELSE x.coverage
           gain(x)  == 45 * x.correct + 25 * x.strength + 10 * cover(x)
                         + 10 * x.steady + 10 * x.rejecting
           loss(x)  == 5 * x.redundant
<1>1. /\ m.correct \in Nat /\ m.strength \in Nat /\ m.steady \in Nat /\ m.rejecting \in Nat
      /\ b.correct \in Nat /\ b.strength \in Nat /\ b.steady \in Nat /\ b.rejecting \in Nat
      /\ m.redundant \in Nat /\ b.redundant \in Nat
      /\ m.coverage \in Nat \cup {None} /\ b.coverage \in Nat \cup {None}
  BY DEF MeasuresType
<1>2. cover(m) \in Nat /\ cover(b) \in Nat /\ cover(m) <= cover(b)
  BY <1>1 DEF NotWorse
<1>3. /\ gain(m) \in Nat /\ gain(b) \in Nat /\ gain(m) <= gain(b)
      /\ loss(m) \in Nat /\ loss(b) \in Nat /\ loss(b) <= loss(m)
  <2> HIDE DEF cover
  <2> QED
    BY <1>1, <1>2 DEF NotWorse
<1>4. /\ Quality(m) = IF gain(m) <= loss(m) THEN 0 ELSE Smaller(One, (gain(m) - loss(m)) \div 100)
      /\ Quality(b) = IF gain(b) <= loss(b) THEN 0 ELSE Smaller(One, (gain(b) - loss(b)) \div 100)
  BY DEF Quality
<1>5. Quality(m) \in Nat /\ Quality(b) \in Nat
  BY QualityIsRate, OneIsPositive
<1> HIDE DEF gain, loss
<1>6. CASE gain(m) <= loss(m)
  BY <1>4, <1>5, <1>6
<1>7. CASE ~(gain(m) <= loss(m))
  <2>1. ~(gain(b) <= loss(b)) /\ gain(m) - loss(m) \in Nat /\ gain(b) - loss(b) \in Nat
        /\ gain(m) - loss(m) <= gain(b) - loss(b)
    BY <1>3, <1>7
  <2>2. (gain(m) - loss(m)) \div 100 <= (gain(b) - loss(b)) \div 100
    BY <2>1
  <2>3. (gain(m) - loss(m)) \div 100 \in Nat /\ (gain(b) - loss(b)) \div 100 \in Nat
    BY <2>1, Quotient
  <2> QED
    BY <1>4, <1>7, <2>1, <2>2, <2>3, OneIsPositive DEF Smaller
<1> QED
  BY <1>6, <1>7

LEMMA FinalIsMonotone ==
  ASSUME NEW q \in 0 .. One, NEW p \in 0 .. One, q <= p, NEW times \in 3 .. 5,
         NEW measured \in BOOLEAN, NEW known \in BOOLEAN, measured => known
  PROVE  Final(q, times, measured) <= Final(p, times, known)
<1> DEFINE product(x) == Smaller(One, (x * times) \div 4)
<1>1. q \in Nat /\ p \in Nat /\ One \in Nat
  BY OneIsPositive
<1>2. (q * times) \div 4 <= (p * times) \div 4 /\ (q * times) \div 4 \in Nat /\ (p * times) \div 4 \in Nat
  <2>1. CASE times = 3
    BY <1>1, <2>1
  <2>2. CASE times = 4
    BY <1>1, <2>2
  <2>3. CASE times = 5
    BY <1>1, <2>3
  <2> QED
    BY <2>1, <2>2, <2>3
<1>3. product(q) \in Nat /\ product(p) \in Nat /\ product(q) <= product(p)
  BY <1>1, <1>2 DEF Smaller
<1>4. /\ Final(q, times, measured) = IF measured THEN product(q) ELSE Smaller(product(q), Cap)
      /\ Final(p, times, known) = IF known THEN product(p) ELSE Smaller(product(p), Cap)
  BY DEF Final
<1>5. Cap \in Nat
  BY CapIsRate
<1> HIDE DEF product
<1> QED
  BY <1>3, <1>4, <1>5 DEF Smaller

\* Improving measures never lowers the score of a suite that stays on its side
\* of the gate, whatever the rates, the gate and the multiplier
\* (scoring/suite_scorer.py:48-78).
THEOREM ScoreIsMonotone ==
  ASSUME NEW m \in MeasuresType, NEW b \in MeasuresType, NotWorse(b, m),
         NEW times \in 3 .. 5 \cup {None}, PassesGate(b.correct) <=> PassesGate(m.correct)
  PROVE  Reward(m, times).score <= Reward(b, times).score
<1> DEFINE by == IF times = None THEN 4 ELSE times
           final(x) == Final(Quality(x), by, x.coverage # None)
<1>1. /\ Reward(m, times).score = IF PassesGate(m.correct) THEN final(m) ELSE m.correct
      /\ Reward(b, times).score = IF PassesGate(b.correct) THEN final(b) ELSE b.correct
  BY DEF Reward
<1>2. final(m) <= final(b)
  <2>1. by \in 3 .. 5
    OBVIOUS
  <2>2. Quality(m) \in 0 .. One /\ Quality(b) \in 0 .. One /\ Quality(m) <= Quality(b)
    BY QualityIsRate, QualityIsMonotone
  <2>3. /\ (m.coverage # None) \in BOOLEAN /\ (b.coverage # None) \in BOOLEAN
        /\ m.coverage # None => b.coverage # None
    BY DEF NotWorse
  <2> HIDE DEF by
  <2> QED
    BY <2>1, <2>2, <2>3, FinalIsMonotone
<1>3. m.correct <= b.correct
  BY DEF NotWorse
<1> HIDE DEF final
<1> QED
  BY <1>1, <1>2, <1>3
-----------------------------------------------------------------------------
(* The measures.                                                           *)

LEMMA TestsAreFinite ==
  ASSUME NEW s \in SUBSET Tests
  PROVE  IsFiniteSet(s) /\ Cardinality(s) \in Nat
<1>1. IsFiniteSet(Tests)
  BY EvaluationAssumption
<1> QED
  BY <1>1, FS_Subset, FS_CardinalityType

LEMMA PortionIsRate ==
  ASSUME NEW t \in SUBSET Tests, NEW s \in SUBSET t
  PROVE  Portion(s, t) \in 0 .. One
<1>1. Cardinality(s) \in Nat /\ Cardinality(t) \in Nat
  BY TestsAreFinite
<1>2. Cardinality(s) <= Cardinality(t)
  BY TestsAreFinite, FS_Subset
<1>3. Share(Cardinality(s), Cardinality(t)) \in Nat /\ Share(Cardinality(s), Cardinality(t)) <= One
  BY <1>1, <1>2, ShareIsRate
<1> QED
  BY <1>3, OneIsPositive DEF Portion

LEMMA RedundancyIsNatural ==
  ASSUME NEW s \in SUBSET Tests
  PROVE  Redundancy(s) \in Nat
<1>1. IsFiniteSet(s) /\ Cardinality(s) \in Nat
  BY TestsAreFinite
<1>2. Cardinality(Clusters(s)) \in Nat /\ Cardinality(Clusters(s)) <= Cardinality(s)
  <2> DEFINE f == [t \in s |-> Cluster(t, s)]
  <2>1. f \in Surjection(s, Clusters(s))
    BY DEF Surjection, Clusters
  <2> HIDE DEF f
  <2>2. IsFiniteSet(Clusters(s)) /\ Cardinality(Clusters(s)) <= Cardinality(s)
    BY <1>1, <2>1, FS_Surjection
  <2> QED
    BY <2>2, FS_CardinalityType
<1>3. Cardinality(s) - Cardinality(Clusters(s)) \in Nat
  BY <1>1, <1>2
<1> QED
  BY <1>1, <1>3, ShareIsRate DEF Redundancy

LEMMA FlagsAreTests ==
  ASSUME NEW s \in SUBSET Tests
  PROVE  Flags(s) \in [run : SUBSET Tests, high : SUBSET Tests, medium : SUBSET Tests]
  BY DEF Flags

LEMMA QueueIsFinite ==
  ASSUME NEW q \in SUBSET Items
  PROVE  Cardinality(q) \in Nat
<1>1. IsFiniteSet(Tests \cup {"suite"})
  BY EvaluationAssumption, FS_AddElement
<1>2. IsFiniteSet({"weak", "flaky", "dummy", "mutation", "redundant"})
  <2>1. IsFiniteSet({}) /\ \A a : IsFiniteSet({} \cup {a})
    BY FS_EmptySet, FS_AddElement
  <2>2. \A a, b : IsFiniteSet({a} \cup {b})
    BY FS_Singleton, FS_AddElement
  <2>3. \A a, b, c : IsFiniteSet(({a} \cup {b}) \cup {c})
    BY <2>2, FS_AddElement
  <2>4. \A a, b, c, d : IsFiniteSet((({a} \cup {b}) \cup {c}) \cup {d})
    BY <2>3, FS_AddElement
  <2>5. \A a, b, c, d, e : IsFiniteSet(((({a} \cup {b}) \cup {c}) \cup {d}) \cup {e})
    BY <2>4, FS_AddElement
  <2>6. ASSUME NEW a, NEW b, NEW c, NEW d, NEW e PROVE IsFiniteSet({a, b, c, d, e})
    <3>1. ((({a} \cup {b}) \cup {c}) \cup {d}) \cup {e} = {a, b, c, d, e}
      OBVIOUS
    <3>2. IsFiniteSet(((({a} \cup {b}) \cup {c}) \cup {d}) \cup {e})
      BY <2>5
    <3> QED
      BY <3>1, <3>2, Zenon
  <2> QED
    BY <2>6, Zenon
<1>3. IsFiniteSet(Items)
  BY <1>1, <1>2, FS_Product DEF Items
<1> QED
  BY <1>3, FS_Subset, FS_CardinalityType

LEMMA QueueIsOfItems ==
  ASSUME DiskType, CallType, report["mutation"].survivors \in SUBSET Tests,
         report["redundancy"].clustered \in SUBSET Tests
  PROVE  QueueItems \in SUBSET Items
<1>1. lint.high \subseteq Tests /\ lint.medium \subseteq Tests
  BY DEF CallType
<1> QED
  BY <1>1 DEF QueueItems, Items

\* What score_suite is given, when every measure has been taken.
LEMMA MeasuresAreRates ==
  ASSUME EInv, pc \in {"quality", "reward", "qc"}
  PROVE  Measures \in MeasuresType
<1>1. /\ gold.passed \subseteq gold.run /\ gold.run = suite /\ suite \in SUBSET Tests
      /\ lint = Flags(suite) /\ fooled = {t \in suite : trait[t].fools}
      /\ coverage \in Rates \cup {None}
  BY DEF EInv, DiskType, CallType, MeasuresAreCurrent, AfterGold, AfterLint, AfterDummies,
     AfterRedundancy, AfterMutation, AfterEfficiency, AfterQuality, AfterReward
<1>2. Portion(gold.passed, gold.run) \in Nat
  <2>1. Portion(gold.passed, gold.run) \in 0 .. One
    BY <1>1, PortionIsRate
  <2> QED
    BY <2>1, OneIsPositive
<1>3. AssertionStrength(Cardinality(gold.run), Cardinality(lint.high), Cardinality(lint.medium)) \in Nat
  <2>1. lint.high \in SUBSET Tests /\ lint.medium \in SUBSET Tests
    BY DEF EInv, CallType
  <2>2. /\ Cardinality(gold.run) \in Nat
        /\ Cardinality(lint.high) \in Nat /\ Cardinality(lint.medium) \in Nat
    BY <1>1, <2>1, TestsAreFinite
  <2> QED
    BY <2>2, StrengthIsRate
<1>4. coverage \in Nat \cup {None}
  <2>1. Rates \subseteq 0 .. One
    BY EvaluationAssumption
  <2> QED
    BY <1>1, <2>1, OneIsPositive
<1>5. Portion(suite \ unsteady, suite) \in Nat
  <2>1. Portion(suite \ unsteady, suite) \in 0 .. One
    BY <1>1, PortionIsRate
  <2> QED
    BY <2>1, OneIsPositive
<1>6. One - Portion(fooled, suite) \in Nat
  <2>1. Portion(fooled, suite) \in 0 .. One
    BY <1>1, PortionIsRate
  <2> QED
    BY <2>1, OneIsPositive
<1>7. report["redundancy"].score \in Nat
  <2>1. report["redundancy"] \in Reports["redundancy"]
    BY DEF EInv, ReportType, ReportsAreCurrent, After, Names, Reports, AfterRedundancy,
       AfterMutation, AfterEfficiency, AfterQuality, AfterReward
  <2> QED
    BY <2>1 DEF Reports
<1> QED
  BY <1>2, <1>3, <1>4, <1>5, <1>6, <1>7 DEF Measures, MeasuresType
-----------------------------------------------------------------------------
(* The steps.                                                              *)

USE DEF AfterQueue, AfterReward, AfterQuality, AfterEfficiency, AfterMutation,
        AfterRedundancy, AfterDummies, AfterLint, AfterGold, Steps

LEMMA NamesAre == Names = {"redundancy", "mutation", "efficiency", "quality", "reward", "qc"}
  BY DEF Names, Reports

LEMMA AfterAre ==
  /\ After["redundancy"] = AfterRedundancy /\ After["mutation"] = AfterMutation
  /\ After["efficiency"] = AfterEfficiency /\ After["quality"] = AfterQuality
  /\ After["reward"] = AfterReward /\ After["qc"] = AfterQueue
  BY DEF After

\* Every report names its evaluation and its tests.
LEMMA ReportFields ==
  \A n \in Names : \A r \in Reports[n] : r # None /\ r.call \in Nat /\ r.of \in SUBSET Tests
<1>2. \A n \in Names : None \notin Reports[n]
  BY EvaluationAssumption
<1>3. /\ \A r \in Reports["redundancy"] : r.call \in Nat /\ r.of \in SUBSET Tests
      /\ \A r \in Reports["mutation"] : r.call \in Nat /\ r.of \in SUBSET Tests
      /\ \A r \in Reports["efficiency"] : r.call \in Nat /\ r.of \in SUBSET Tests
      /\ \A r \in Reports["quality"] : r.call \in Nat /\ r.of \in SUBSET Tests
      /\ \A r \in Reports["reward"] : r.call \in Nat /\ r.of \in SUBSET Tests
      /\ \A r \in Reports["qc"] : r.call \in Nat /\ r.of \in SUBSET Tests
  BY DEF Reports
<1> QED
  BY <1>2, <1>3, NamesAre

\* The steps before the gates, and between the calls.
LEMMA BeforeTheGates ==
  ASSUME EInv, report' = report, pc' \in Steps \ AfterGold, calls' \in Nat, calls <= calls',
         DiskType', CallType'
  PROVE  EInv'
<1>1. ReportType'
  <2>1. \A n \in Names : report[n] # None => report[n].call \in Nat
    BY ReportFields DEF EInv, ReportType
  <2>2. calls \in Nat /\ \A n \in Names : report[n] # None => report[n].call <= calls
    BY DEF EInv, ReportType, CallType
  <2>3. ASSUME NEW n \in Names, report[n] # None PROVE report[n].call <= calls'
    <3>1. /\ report[n].call \in Nat /\ calls \in Nat /\ calls' \in Nat
          /\ report[n].call <= calls /\ calls <= calls'
      BY <2>1, <2>2, <2>3
    <3> QED
      BY <3>1, Transitivity
  <2>4. /\ report = [n \in Names |-> report[n]]
        /\ \A n \in Names : report[n] \in Reports[n] \cup {None}
    BY DEF EInv, ReportType
  <2> QED
    BY <2>3, <2>4 DEF ReportType
<1>2. ReportsInOrder'
  BY DEF EInv, ReportsInOrder
<1>3. ReportsAreCurrent'
  <2>1. \A n \in Names : After[n] \subseteq AfterGold
    BY NamesAre, AfterAre
  <2> QED
    BY <2>1 DEF ReportsAreCurrent
<1> QED
  BY <1>1, <1>2, <1>3 DEF EInv, MeasuresAreCurrent, ContentsAreCurrent

\* The steps that measure what the gates left.
LEMMA BeforeTheReports ==
  ASSUME EInv, UNCHANGED <<disk, report, exported, calls>>, pc' \in Steps \ AfterRedundancy,
         CallType', MeasuresAreCurrent'
  PROVE  EInv'
<1>1. DiskType'
  BY DEF EInv, DiskType, disk
<1>2. ReportType' /\ ReportsInOrder'
  BY DEF EInv, ReportType, ReportsInOrder
<1>3. ReportsAreCurrent'
  <2>1. \A n \in Names : After[n] \subseteq AfterRedundancy
    BY NamesAre, AfterAre
  <2> QED
    BY <2>1 DEF ReportsAreCurrent
<1> QED
  BY <1>1, <1>2, <1>3 DEF EInv, ContentsAreCurrent

LEMMA GoldRunsAreOfTests ==
  ASSUME DiskType, NEW g \in GoldRuns
  PROVE  /\ g \in [run : SUBSET Tests, passed : SUBSET Tests]
         /\ g.passed \subseteq g.run /\ g.run = suite
<1>1. PICK f \in SUBSET suite : g = [run |-> suite, passed |-> suite \ f]
  BY DEF GoldRuns
<1> QED
  BY <1>1 DEF DiskType

LEMMA BeginStep == EInv /\ Begin => EInv'
<1> SUFFICES ASSUME EInv, Begin PROVE EInv'
  OBVIOUS
<1>1. DiskType'
  BY DEF EInv, Begin, DiskType, disk
<1>2. calls' \in Nat /\ calls <= calls' /\ report' = report
  <2>1. calls \in Nat /\ calls' = calls + 1 /\ report' = report
    BY DEF EInv, CallType, Begin
  <2> QED
    BY <2>1
<1>3. CallType'
  <2>1. NoResult \in [run : SUBSET Tests, passed : SUBSET Tests] /\ NoResult.passed \subseteq NoResult.run
    BY DEF NoResult
  <2>2. NoFlags \in [run : SUBSET Tests, high : SUBSET Tests, medium : SUBSET Tests]
    BY DEF NoFlags
  <2>3. /\ gold' = NoResult /\ lint' = NoFlags /\ runs' = 0 /\ pc' = "gold 1"
        /\ unsteady' = {} /\ fooled' = {}
    BY DEF Begin, Goto
  <2>4. 0 \in 0 .. DeterminismRuns
    BY EvaluationAssumption
  <2> QED
    BY <1>2, <2>1, <2>2, <2>3, <2>4 DEF CallType
<1>4. pc' \in Steps \ AfterGold
  BY DEF Begin, Goto
<1> QED
  BY <1>1, <1>2, <1>3, <1>4, BeforeTheGates

LEMMA EarlyStep == EInv /\ (FirstGoldRun \/ FirstLint \/ HardGates \/ Generate \/ Kill) => EInv'
<1> SUFFICES ASSUME EInv, FirstGoldRun \/ FirstLint \/ HardGates \/ Generate \/ Kill
             PROVE  EInv'
  OBVIOUS
<1>1. /\ report' = report /\ pc' \in Steps \ AfterGold
      /\ calls' = calls /\ calls' \in Nat /\ calls <= calls'
  <2>1. /\ report' = report /\ pc' \in Steps \ AfterGold
    BY DEF FirstGoldRun, FirstLint, HardGates, Generate, Kill, Goto
  <2>2. calls' = calls /\ calls \in Nat
    BY DEF EInv, CallType, FirstGoldRun, FirstLint, HardGates, Generate, Kill, local
  <2>3. calls' \in Nat /\ calls <= calls'
    BY <2>2
  <2> QED
    BY <2>1, <2>2, <2>3
<1>2. DiskType'
  <2>1. CASE FirstGoldRun \/ FirstLint \/ Kill
    BY <2>1 DEF EInv, DiskType, FirstGoldRun, FirstLint, Kill, disk
  <2>2. CASE HardGates
    <3>1. suite' \subseteq suite
      BY <2>2 DEF HardGates
    <3> QED
      BY <2>2, <3>1 DEF EInv, DiskType, HardGates
  <2>3. CASE Generate
    BY <2>3 DEF EInv, DiskType, Generate
  <2> QED
    BY <2>1, <2>2, <2>3
<1>3. CallType'
  <2>1. CASE FirstGoldRun
    <3>1. /\ gold' \in [run : SUBSET Tests, passed : SUBSET Tests]
          /\ gold'.passed \subseteq gold'.run
      BY <2>1, GoldRunsAreOfTests DEF EInv, FirstGoldRun
    <3> QED
      BY <1>1, <2>1, <3>1 DEF EInv, CallType, FirstGoldRun
  <2>2. CASE FirstLint
    <3>1. lint' \in [run : SUBSET Tests, high : SUBSET Tests, medium : SUBSET Tests]
      BY <2>2, FlagsAreTests DEF EInv, DiskType, FirstLint
    <3> QED
      BY <1>1, <2>2, <3>1 DEF EInv, CallType, FirstLint
  <2>3. CASE HardGates \/ Generate \/ Kill
    BY <1>1, <2>3 DEF EInv, CallType, HardGates, Generate, Kill, local
  <2> QED
    BY <2>1, <2>2, <2>3
<1> QED
  BY <1>1, <1>2, <1>3, BeforeTheGates

LEMMA MeasuringStep == EInv /\ (GoldRun \/ Lint \/ DeterminismRun \/ DummyRuns) => EInv'
<1> SUFFICES ASSUME EInv, GoldRun \/ Lint \/ DeterminismRun \/ DummyRuns
             PROVE  EInv'
  OBVIOUS
<1>1. UNCHANGED <<disk, report, exported, calls>> /\ pc' \in Steps \ AfterRedundancy
  BY DEF GoldRun, Lint, DeterminismRun, DummyRuns, Goto
<1>2. UNCHANGED <<trait, suite, coverage>>
  BY <1>1 DEF disk
<1>3. CASE GoldRun
  <2>1. /\ gold' \in [run : SUBSET Tests, passed : SUBSET Tests]
        /\ gold'.passed \subseteq gold'.run /\ gold'.run = suite
    BY <1>3, GoldRunsAreOfTests DEF EInv, GoldRun
  <2>2. CallType'
    BY <1>1, <1>3, <2>1 DEF EInv, CallType, GoldRun
  <2>3. MeasuresAreCurrent'
    BY <1>2, <1>3, <2>1 DEF MeasuresAreCurrent, GoldRun, Goto
  <2> QED
    BY <1>1, <2>2, <2>3, BeforeTheReports
<1>4. CASE Lint
  <2>1. lint' = Flags(suite) /\ lint' \in [run : SUBSET Tests, high : SUBSET Tests, medium : SUBSET Tests]
    BY <1>4, FlagsAreTests DEF EInv, DiskType, Lint
  <2>2. CallType'
    BY <1>1, <1>4, <2>1 DEF EInv, CallType, Lint
  <2>3. MeasuresAreCurrent'
    BY <1>2, <1>4, <2>1 DEF EInv, MeasuresAreCurrent, Lint, Goto, Flags
  <2> QED
    BY <1>1, <2>2, <2>3, BeforeTheReports
<1>5. CASE DeterminismRun
  <2>1. PICK r \in GoldRuns : unsteady' = unsteady \cup (r.run \ r.passed)
    BY <1>5 DEF DeterminismRun
  <2>2. unsteady' \in SUBSET Tests
    BY <2>1, GoldRunsAreOfTests DEF EInv, CallType, DiskType
  <2>3. runs' \in 0 .. DeterminismRuns
    BY <1>5, EvaluationAssumption DEF EInv, CallType, DeterminismRun
  <2>4. CallType'
    BY <1>1, <1>5, <2>2, <2>3 DEF EInv, CallType, DeterminismRun
  <2>5. MeasuresAreCurrent'
    BY <1>2, <1>5 DEF EInv, MeasuresAreCurrent, DeterminismRun, Flags
  <2> QED
    BY <1>1, <2>4, <2>5, BeforeTheReports
<1>6. CASE DummyRuns
  <2>1. CallType'
    BY <1>1, <1>6 DEF EInv, CallType, DiskType, DummyRuns
  <2>2. MeasuresAreCurrent'
    BY <1>2, <1>6 DEF EInv, MeasuresAreCurrent, DummyRuns, Goto, Flags
  <2> QED
    BY <1>1, <2>1, <2>2, BeforeTheReports
<1> QED
  BY <1>3, <1>4, <1>5, <1>6
-----------------------------------------------------------------------------
(* The reports.                                                            *)

\* The evaluation of a report, 0 if there is none.
CallOf(n) == IF report[n] = None THEN 0 ELSE report[n].call

LEMMA CallsOfReports ==
  ASSUME EInv, NEW n \in Names
  PROVE  CallOf(n) \in Nat /\ CallOf(n) <= calls /\ (pc \in After[n] => CallOf(n) = calls)
<1>1. /\ report[n] # None => report[n].call \in Nat /\ report[n].call <= calls
      /\ pc \in After[n] => report[n] # None /\ report[n].call = calls
  BY ReportFields DEF EInv, ReportType, ReportsAreCurrent
<1>2. calls \in Nat
  BY DEF EInv, CallType
<1>3. CASE report[n] = None
  BY <1>1, <1>2, <1>3 DEF CallOf
<1>4. CASE report[n] # None
  BY <1>1, <1>2, <1>4 DEF CallOf
<1> QED
  BY <1>3, <1>4

InOrder(measured, ranked, judged, rewarded, queued) ==
  queued <= rewarded /\ rewarded <= judged /\ judged <= ranked /\ ranked <= measured

LEMMA OrderOfCalls ==
  ReportsInOrder
    <=> InOrder(CallOf("mutation"), CallOf("efficiency"), CallOf("quality"), CallOf("reward"),
                CallOf("qc"))
  BY DEF ReportsInOrder, InOrder, CallOf

\* What a step that writes one report leaves of the invariant.
LEMMA Written ==
  ASSUME EInv, NEW n \in Names, NEW r \in Reports[n], Write(n, r),
         r.of = suite, r.call = calls, UNCHANGED <<disk, exported, local, calls>>,
         pc \in AfterDummies, pc' \in Steps,
         \A m \in Names : pc' \in After[m] => m = n \/ pc \in After[m]
  PROVE  /\ DiskType' /\ CallType' /\ ReportType' /\ MeasuresAreCurrent' /\ ReportsAreCurrent'
         /\ report'[n] = r /\ \A m \in Names \ {n} : report'[m] = report[m]
         /\ CallOf(n)' = calls /\ \A m \in Names \ {n} : CallOf(m)' = CallOf(m)
         /\ ReportsInOrder'
              <=> InOrder(CallOf("mutation")', CallOf("efficiency")', CallOf("quality")',
                          CallOf("reward")', CallOf("qc")')
<1>1. UNCHANGED <<trait, suite, coverage, exported, gold, lint, runs, unsteady, fooled, declared, calls>>
  BY DEF disk, local
<1>2. /\ report = [m \in Names |-> report[m]]
      /\ \A m \in Names : report[m] \in Reports[m] \cup {None}
      /\ \A m \in Names : report[m] # None => report[m].call <= calls
      /\ \A m \in Names :
           pc \in After[m] => report[m] # None /\ report[m].of = suite /\ report[m].call = calls
      /\ calls \in Nat
  BY DEF EInv, CallType, ReportType, ReportsAreCurrent
<1>3. /\ report' = [m \in Names |-> IF m = n THEN r ELSE report[m]]
      /\ report'[n] = r /\ \A m \in Names \ {n} : report'[m] = report[m]
  <2>1. report' = [report EXCEPT ![n] = r]
    BY DEF Write
  <2>2. DOMAIN report = Names
    BY <1>2
  <2> QED
    BY <1>2, <2>1, <2>2
<1>4. report' = [m \in Names |-> report'[m]]
  BY <1>3
<1>5. r # None /\ r.call \in Nat
  BY ReportFields
<1>6. DiskType' /\ CallType'
  BY <1>1 DEF EInv, DiskType, CallType
<1>7. ReportType'
  <2>1. ASSUME NEW m \in Names PROVE report'[m] \in Reports[m] \cup {None}
    <3>1. CASE m = n
      BY <1>3, <3>1
    <3>2. CASE m # n
      <4>1. report'[m] = report[m]
        BY <1>3, <3>2
      <4> QED
        BY <1>2, <4>1
    <3> QED
      BY <3>1, <3>2
  <2>2. calls <= calls
    BY <1>2, Transitivity
  <2>3. \A m \in Names : report'[m] # None => report'[m].call <= calls'
    BY <1>1, <1>2, <1>3, <2>2
  <2> QED
    BY <1>4, <2>1, <2>3 DEF ReportType
<1>8. MeasuresAreCurrent'
  BY <1>1 DEF EInv, MeasuresAreCurrent, Flags
<1>9. ReportsAreCurrent'
  <2>1. ASSUME NEW m \in Names, pc' \in After[m]
        PROVE  report'[m] # None /\ report'[m].of = suite /\ report'[m].call = calls
    BY <1>2, <1>3, <1>5, <2>1
  <2> QED
    BY <1>1, <2>1 DEF ReportsAreCurrent
<1>10. CallOf(n)' = calls
  BY <1>3, <1>5 DEF CallOf
<1>11. ASSUME NEW m \in Names \ {n} PROVE CallOf(m)' = CallOf(m)
  BY <1>3 DEF CallOf
<1>12. ReportsInOrder'
         <=> InOrder(CallOf("mutation")', CallOf("efficiency")', CallOf("quality")',
                     CallOf("reward")', CallOf("qc")')
  BY DEF ReportsInOrder, InOrder, CallOf
<1> QED
  BY <1>3, <1>6, <1>7, <1>8, <1>9, <1>10, <1>11, <1>12

LEMMA AnalyzeStep == EInv /\ Analyze => EInv'
<1> SUFFICES ASSUME EInv, Analyze PROVE EInv'
  OBVIOUS
<1> DEFINE r == [call |-> calls, of |-> suite, score |-> Redundancy(suite),
                 clustered |-> {t \in suite : Cluster(t, suite) # {t}}]
<1>1. /\ pc = "redundancy" /\ pc' = "mutation" /\ Write("redundancy", r)
      /\ UNCHANGED <<disk, exported, local, calls>>
  BY DEF Analyze, Goto
<1>2. r \in Reports["redundancy"] /\ r.of = suite /\ r.call = calls
  <2>1. suite \in SUBSET Tests /\ calls \in Nat
    BY DEF EInv, DiskType, CallType
  <2>2. Redundancy(suite) \in Nat
    BY <2>1, RedundancyIsNatural
  <2> QED
    BY <2>1, <2>2 DEF Reports
<1>3. r.clustered = {t \in suite : Cluster(t, suite) # {t}}
  OBVIOUS
<1> HIDE DEF r
<1>4. \A m \in Names : pc' \in After[m] => m = "redundancy" \/ pc \in After[m]
  BY <1>1, NamesAre, AfterAre
<1>5. /\ DiskType' /\ CallType' /\ ReportType' /\ MeasuresAreCurrent' /\ ReportsAreCurrent'
      /\ report'["redundancy"] = r
      /\ \A m \in Names \ {"redundancy"} : CallOf(m)' = CallOf(m)
      /\ ReportsInOrder'
           <=> InOrder(CallOf("mutation")', CallOf("efficiency")', CallOf("quality")',
                       CallOf("reward")', CallOf("qc")')
  BY <1>1, <1>2, <1>4, NamesAre, Written
<1>6. ReportsInOrder'
  BY <1>5, NamesAre, OrderOfCalls DEF EInv
<1>7. ContentsAreCurrent'
  <2>1. {t \in suite : Cluster(t, suite) # {t}}' = {t \in suite : Cluster(t, suite) # {t}}
    BY <1>1 DEF disk, Cluster
  <2> QED
    BY <1>1, <1>3, <1>5, <2>1 DEF ContentsAreCurrent
<1> QED
  BY <1>1, <1>5, <1>6, <1>7 DEF EInv

LEMMA MutationStep == EInv /\ MutationRuns => EInv'
<1> SUFFICES ASSUME EInv, MutationRuns PROVE EInv'
  OBVIOUS
<1> DEFINE r == [call |-> calls, of |-> suite, survivors |-> {t \in suite : trait[t].survives}]
<1>1. /\ pc = "mutation" /\ pc' = "efficiency" /\ Write("mutation", r)
      /\ UNCHANGED <<disk, exported, local, calls>>
  BY DEF MutationRuns, Goto
<1>2. r \in Reports["mutation"] /\ r.of = suite /\ r.call = calls
  BY DEF EInv, DiskType, CallType, Reports
<1>3. r.survivors = {t \in suite : trait[t].survives}
  OBVIOUS
<1> HIDE DEF r
<1>4. \A m \in Names : pc' \in After[m] => m = "mutation" \/ pc \in After[m]
  BY <1>1, NamesAre, AfterAre
<1>5. /\ DiskType' /\ CallType' /\ ReportType' /\ MeasuresAreCurrent' /\ ReportsAreCurrent'
      /\ report'["mutation"] = r /\ report'["redundancy"] = report["redundancy"]
      /\ CallOf("mutation")' = calls
      /\ \A m \in Names \ {"mutation"} : CallOf(m)' = CallOf(m)
      /\ ReportsInOrder'
           <=> InOrder(CallOf("mutation")', CallOf("efficiency")', CallOf("quality")',
                       CallOf("reward")', CallOf("qc")')
  BY <1>1, <1>2, <1>4, NamesAre, Written
<1>6. ReportsInOrder'
  <2>1. CallOf("efficiency") <= calls
    BY NamesAre, CallsOfReports
  <2> QED
    BY <1>5, <2>1, NamesAre, OrderOfCalls DEF EInv, InOrder
<1>7. ContentsAreCurrent'
  BY <1>1, <1>3, <1>5 DEF EInv, ContentsAreCurrent, disk, Cluster
<1> QED
  BY <1>1, <1>5, <1>6, <1>7 DEF EInv

LEMMA EfficiencyStep == EInv /\ ScoreEfficiency => EInv'
<1> SUFFICES ASSUME EInv, ScoreEfficiency PROVE EInv'
  OBVIOUS
<1>1. /\ pc = "efficiency" /\ pc' = "quality" /\ UNCHANGED <<disk, exported, local, calls>>
  BY DEF ScoreEfficiency, Goto
<1>2. PICK r \in Reports["efficiency"] :
        /\ Write("efficiency", r) /\ r.of = suite /\ r.call = calls
        /\ ~r.eligible => r.multiplier = None
  <2>1. suite \in SUBSET Tests /\ calls \in Nat
    BY DEF EInv, DiskType, CallType
  <2>2. ASSUME NEW eligible \in BOOLEAN, NEW m \in Multipliers \cup {None},
               ~eligible => m = None
        PROVE  LET e == Efficiency(eligible, m)
               IN  /\ e \in Reports["efficiency"] /\ e.of = suite /\ e.call = calls
                   /\ ~e.eligible => e.multiplier = None
    BY <2>1, <2>2 DEF Efficiency, Reports
  <2>3. \/ Write("efficiency", Efficiency(FALSE, None))
        \/ \E m \in Multipliers : Write("efficiency", Efficiency(TRUE, m))
    BY DEF ScoreEfficiency
  <2> QED
    BY <2>2, <2>3
<1>3. \A m \in Names : pc' \in After[m] => m = "efficiency" \/ pc \in After[m]
  BY <1>1, NamesAre, AfterAre
<1>4. /\ DiskType' /\ CallType' /\ ReportType' /\ MeasuresAreCurrent' /\ ReportsAreCurrent'
      /\ report'["efficiency"] = r /\ report'["redundancy"] = report["redundancy"]
      /\ report'["mutation"] = report["mutation"]
      /\ CallOf("efficiency")' = calls
      /\ \A m \in Names \ {"efficiency"} : CallOf(m)' = CallOf(m)
      /\ ReportsInOrder'
           <=> InOrder(CallOf("mutation")', CallOf("efficiency")', CallOf("quality")',
                       CallOf("reward")', CallOf("qc")')
  BY <1>1, <1>2, <1>3, NamesAre, Written
<1>5. ReportsInOrder'
  <2>1. CallOf("quality") <= calls /\ CallOf("mutation") = calls /\ calls \in Nat
    BY <1>1, NamesAre, AfterAre, CallsOfReports DEF EInv, CallType
  <2> QED
    BY <1>4, <2>1, NamesAre, OrderOfCalls DEF EInv, InOrder
<1>6. ContentsAreCurrent'
  BY <1>1, <1>2, <1>4 DEF EInv, ContentsAreCurrent, disk, Cluster
<1> QED
  BY <1>1, <1>4, <1>5, <1>6 DEF EInv

LEMMA QualityStep == EInv /\ WriteQuality => EInv'
<1> SUFFICES ASSUME EInv, WriteQuality PROVE EInv'
  OBVIOUS
<1> DEFINE r == [call |-> calls, of |-> gold.run, rate |-> Portion(gold.passed, gold.run),
                 queued |-> Cardinality(QueueItems)]
<1>1. /\ pc = "quality" /\ pc' = "reward" /\ Write("quality", r)
      /\ UNCHANGED <<disk, exported, local, calls>>
  BY DEF WriteQuality, Goto
<1>2. r \in Reports["quality"] /\ r.of = suite /\ r.call = calls
  <2>1. /\ gold.run = suite /\ gold.passed \in SUBSET suite
        /\ suite \in SUBSET Tests /\ calls \in Nat
    BY <1>1 DEF EInv, DiskType, CallType, MeasuresAreCurrent
  <2>2. Portion(gold.passed, gold.run) \in Nat
    <3>1. Portion(gold.passed, gold.run) \in 0 .. One
      BY <2>1, PortionIsRate
    <3> QED
      BY <3>1, OneIsPositive
  <2>3. Cardinality(QueueItems) \in Nat
    <3>1. /\ report["mutation"].survivors = {t \in suite : trait[t].survives}
          /\ report["redundancy"].clustered = {t \in suite : Cluster(t, suite) # {t}}
      BY <1>1 DEF EInv, ContentsAreCurrent
    <3>2. QueueItems \in SUBSET Items
      BY <2>1, <3>1, QueueIsOfItems DEF EInv
    <3> QED
      BY <3>2, QueueIsFinite
  <2> QED
    BY <2>1, <2>2, <2>3 DEF Reports
<1> HIDE DEF r
<1>3. \A m \in Names : pc' \in After[m] => m = "quality" \/ pc \in After[m]
  BY <1>1, NamesAre, AfterAre
<1>4. /\ DiskType' /\ CallType' /\ ReportType' /\ MeasuresAreCurrent' /\ ReportsAreCurrent'
      /\ \A m \in Names \ {"quality"} : report'[m] = report[m]
      /\ CallOf("quality")' = calls
      /\ \A m \in Names \ {"quality"} : CallOf(m)' = CallOf(m)
      /\ ReportsInOrder'
           <=> InOrder(CallOf("mutation")', CallOf("efficiency")', CallOf("quality")',
                       CallOf("reward")', CallOf("qc")')
  BY <1>1, <1>2, <1>3, NamesAre, Written
<1>5. ReportsInOrder'
  <2>1. CallOf("reward") <= calls /\ CallOf("efficiency") = calls /\ calls \in Nat
    BY <1>1, NamesAre, AfterAre, CallsOfReports DEF EInv, CallType
  <2> QED
    BY <1>4, <2>1, NamesAre, OrderOfCalls DEF EInv, InOrder
<1>6. ContentsAreCurrent'
  BY <1>1, <1>4, NamesAre DEF EInv, ContentsAreCurrent, disk, Cluster
<1> QED
  BY <1>1, <1>4, <1>5, <1>6 DEF EInv

LEMMA RewardStep == EInv /\ WriteReward => EInv'
<1> SUFFICES ASSUME EInv, WriteReward PROVE EInv'
  OBVIOUS
<1> DEFINE times  == report["efficiency"].multiplier
           result == Reward(Measures, times)
           r == [call |-> calls, of |-> gold.run, quality |-> Quality(Measures),
                 result |-> result]
<1>1. /\ pc = "reward" /\ pc' = "qc" /\ Write("reward", r)
      /\ UNCHANGED <<disk, exported, local, calls>>
  BY DEF WriteReward, Goto
<1>2. Measures \in MeasuresType /\ Measures.coverage = coverage
  BY <1>1, MeasuresAreRates DEF Measures
<1>3. times \in 3 .. 5 \cup {None} /\ (~report["efficiency"].eligible => times = None)
  <2>1. report["efficiency"] \in Reports["efficiency"]
    BY <1>1, NamesAre, AfterAre DEF EInv, ReportType, ReportsAreCurrent
  <2>2. times \in Multipliers \cup {None}
    BY <2>1 DEF Reports
  <2> QED
    BY <1>1, <2>2, EvaluationAssumption DEF EInv, ContentsAreCurrent
<1>4. Quality(Measures) \in 0 .. One
  BY <1>2, QualityIsRate
<1>5. /\ result \in [passed : BOOLEAN, multiplier : Nat \cup {None}, score : 0 .. One,
                     noted : BOOLEAN]
      /\ result.passed =>
           /\ times = None => result.score = IF coverage = None THEN Smaller(Quality(Measures), Cap)
                                                                ELSE Quality(Measures)
           /\ coverage = None => result.score <= Cap
  <2> HIDE DEF times
  <2> QED
    BY <1>2, <1>3, RewardIsRate
<1> HIDE DEF times, result
<1>6. r \in Reports["reward"] /\ r.of = suite /\ r.call = calls
  <2>1. gold.run = suite /\ suite \in SUBSET Tests /\ calls \in Nat
    BY <1>1 DEF EInv, DiskType, CallType, MeasuresAreCurrent
  <2> QED
    BY <1>4, <1>5, <2>1 DEF Reports
<1>7. r.quality = Quality(Measures) /\ r.result = result
  OBVIOUS
<1> HIDE DEF r
<1>8. \A m \in Names : pc' \in After[m] => m = "reward" \/ pc \in After[m]
  BY <1>1, NamesAre, AfterAre
<1>9. /\ DiskType' /\ CallType' /\ ReportType' /\ MeasuresAreCurrent' /\ ReportsAreCurrent'
      /\ report'["reward"] = r
      /\ \A m \in Names \ {"reward"} : report'[m] = report[m]
      /\ CallOf("reward")' = calls
      /\ \A m \in Names \ {"reward"} : CallOf(m)' = CallOf(m)
      /\ ReportsInOrder'
           <=> InOrder(CallOf("mutation")', CallOf("efficiency")', CallOf("quality")',
                       CallOf("reward")', CallOf("qc")')
  BY <1>1, <1>6, <1>8, NamesAre, Written
<1>10. ReportsInOrder'
  <2>1. CallOf("qc") <= calls /\ CallOf("quality") = calls /\ calls \in Nat
    BY <1>1, NamesAre, AfterAre, CallsOfReports DEF EInv, CallType
  <2> QED
    BY <1>9, <2>1, NamesAre, OrderOfCalls DEF EInv, InOrder
<1>11. ContentsAreCurrent'
  BY <1>1, <1>9, NamesAre DEF EInv, ContentsAreCurrent, disk, Cluster
<1>12. Neutral'
  <2>1. coverage' = coverage /\ report'["efficiency"] = report["efficiency"]
    BY <1>1, <1>9, NamesAre DEF disk
  <2> QED
    BY <1>3, <1>5, <1>7, <1>9, <2>1 DEF Neutral
<1> QED
  BY <1>1, <1>9, <1>10, <1>11, <1>12 DEF EInv

LEMMA QueueStep == EInv /\ WriteQueue => EInv'
<1> SUFFICES ASSUME EInv, WriteQueue PROVE EInv'
  OBVIOUS
<1> DEFINE r == [call |-> calls, of |-> lint.run, items |-> QueueItems]
<1>1. /\ pc = "qc" /\ pc' = "export" /\ Write("qc", r)
      /\ UNCHANGED <<disk, exported, local, calls>>
  BY DEF WriteQueue, Goto
<1>2. r \in Reports["qc"] /\ r.of = suite /\ r.call = calls
  <2>1. /\ lint.run = suite /\ suite \in SUBSET Tests /\ calls \in Nat
    BY <1>1 DEF EInv, DiskType, CallType, MeasuresAreCurrent, Flags
  <2>2. /\ report["mutation"].survivors = {t \in suite : trait[t].survives}
        /\ report["redundancy"].clustered = {t \in suite : Cluster(t, suite) # {t}}
    BY <1>1 DEF EInv, ContentsAreCurrent
  <2>3. QueueItems \in SUBSET Items
    BY <2>1, <2>2, QueueIsOfItems DEF EInv
  <2> QED
    BY <2>1, <2>3 DEF Reports
<1>3. r.items = QueueItems
  OBVIOUS
<1> HIDE DEF r
<1>4. \A m \in Names : pc' \in After[m] => m = "qc" \/ pc \in After[m]
  BY <1>1, NamesAre, AfterAre
<1>5. /\ DiskType' /\ CallType' /\ ReportType' /\ MeasuresAreCurrent' /\ ReportsAreCurrent'
      /\ report'["qc"] = r
      /\ \A m \in Names \ {"qc"} : report'[m] = report[m]
      /\ CallOf("qc")' = calls
      /\ \A m \in Names \ {"qc"} : CallOf(m)' = CallOf(m)
      /\ ReportsInOrder'
           <=> InOrder(CallOf("mutation")', CallOf("efficiency")', CallOf("quality")',
                       CallOf("reward")', CallOf("qc")')
  BY <1>1, <1>2, <1>4, NamesAre, Written
<1>6. ReportsInOrder'
  <2>1. CallOf("reward") = calls /\ calls \in Nat
    BY <1>1, NamesAre, AfterAre, CallsOfReports DEF EInv, CallType
  <2> QED
    BY <1>5, <2>1, NamesAre, OrderOfCalls DEF EInv, InOrder
<1>7. /\ report'["redundancy"] = report["redundancy"] /\ report'["mutation"] = report["mutation"]
      /\ report'["efficiency"] = report["efficiency"] /\ report'["reward"] = report["reward"]
      /\ UNCHANGED <<trait, suite, coverage, lint, unsteady, fooled>>
  BY <1>1, <1>5, NamesAre DEF disk, local
<1>8. ContentsAreCurrent'
  <2>1. QueueItems' = QueueItems
    BY <1>7 DEF QueueItems
  <2> QED
    BY <1>1, <1>3, <1>5, <1>7, <2>1 DEF EInv, ContentsAreCurrent, Cluster
<1>9. Neutral'
  BY <1>1, <1>7 DEF EInv, Neutral
<1> QED
  BY <1>5, <1>6, <1>8, <1>9 DEF EInv

LEMMA ExportStep == EInv /\ Export => EInv'
<1> SUFFICES ASSUME EInv, Export PROVE EInv'
  OBVIOUS
<1>1. /\ pc = "export" /\ pc' = "done"
      /\ UNCHANGED <<trait, suite, coverage, report, gold, lint, runs, unsteady, fooled, declared, calls>>
  BY DEF Export, Goto, disk, local
<1>2. exported' \in {None, "ready", "review", "hold"}
  BY DEF Export, Decision, EInv, DiskType
<1>3. DiskType' /\ CallType' /\ ReportType' /\ ReportsInOrder'
  BY <1>1, <1>2 DEF EInv, DiskType, CallType, ReportType, ReportsInOrder
<1>4. MeasuresAreCurrent' /\ ContentsAreCurrent' /\ Neutral'
  BY <1>1 DEF EInv, MeasuresAreCurrent, ContentsAreCurrent, Neutral, Flags, QueueItems, Cluster
<1>5. ReportsAreCurrent'
  <2>1. \A n \in Names : pc' \in After[n] => pc \in After[n]
    BY <1>1, NamesAre, AfterAre
  <2> QED
    BY <1>1, <2>1 DEF EInv, ReportsAreCurrent
<1> QED
  BY <1>3, <1>4, <1>5 DEF EInv
-----------------------------------------------------------------------------
(* The theorems.                                                           *)

\* At any moment, after any kills, the measurements and reports of a call are
\* of the tests that the gates left, older ones lag behind in order, and the
\* score is a rate (cli.py:228-303, scoring/suite_scorer.py:30-137).
THEOREM EvaluationInvariant == Spec => []EInv
<1>1. Init => EInv
  <2> SUFFICES ASSUME Init PROVE EInv
    OBVIOUS
  <2>1. DiskType
    <3>1. trait \in [Tests -> TraitType]
      BY EvaluationAssumption DEF Init
    <3> QED
      BY <3>1 DEF Init, DiskType
  <2>2. CallType
    <3>1. NoResult \in [run : SUBSET Tests, passed : SUBSET Tests] /\ NoResult.passed \subseteq NoResult.run
      BY DEF NoResult
    <3>2. NoFlags \in [run : SUBSET Tests, high : SUBSET Tests, medium : SUBSET Tests]
      BY DEF NoFlags
    <3>3. 0 \in 0 .. DeterminismRuns
      BY EvaluationAssumption
    <3> QED
      BY <3>1, <3>2, <3>3 DEF Init, CallType
  <2>3. \A n \in Names : report[n] = None
    BY DEF Init
  <2>4. ReportType
    BY <2>3 DEF Init, ReportType
  <2>5. ReportsInOrder
    BY <2>3, NamesAre DEF ReportsInOrder
  <2>6. ReportsAreCurrent
    <3>1. \A n \in Names : pc \notin After[n]
      BY NamesAre, AfterAre DEF Init
    <3> QED
      BY <3>1 DEF ReportsAreCurrent
  <2> QED
    BY <2>1, <2>2, <2>4, <2>5, <2>6 DEF EInv, Init, MeasuresAreCurrent, ContentsAreCurrent
<1>2. EInv /\ [Next]_vars => EInv'
  <2>1. ASSUME EInv, UNCHANGED vars PROVE EInv'
    <3>1. UNCHANGED <<trait, suite, coverage, report, exported, pc, gold, lint, runs, unsteady,
                      fooled, declared, calls>>
      BY <2>1 DEF vars, disk, local
    <3>2. DiskType' /\ CallType' /\ ReportType' /\ ReportsInOrder' /\ ReportsAreCurrent'
      BY <2>1, <3>1 DEF EInv, DiskType, CallType, ReportType, ReportsInOrder, ReportsAreCurrent
    <3>3. MeasuresAreCurrent' /\ ContentsAreCurrent' /\ (pc' \in AfterReward => Neutral')
      BY <2>1, <3>1 DEF EInv, MeasuresAreCurrent, ContentsAreCurrent, Neutral, Flags,
         QueueItems, Cluster
    <3> QED
      BY <3>2, <3>3 DEF EInv
  <2> QED
    BY <2>1, BeginStep, EarlyStep, MeasuringStep, AnalyzeStep, MutationStep, EfficiencyStep,
       QualityStep, RewardStep, QueueStep, ExportStep DEF Next, Step
<1> QED
  BY <1>1, <1>2, PTL DEF Spec

\* The reports of an evaluation that returned are of the tests on disk, and
\* the score of a suite that was not timed is its quality, capped without a
\* coverage report (cli.py:228-303, scoring/suite_scorer.py:30-137).
THEOREM ReportsOfEvaluation == Spec => []ReportsAreConsistent
<1>1. EInv => ReportsAreConsistent
  <2> SUFFICES ASSUME EInv PROVE ReportsAreConsistent
    OBVIOUS
  <2>1. TypeOK
    <3>1. \A n \in Names : report[n] # None => report[n].of \subseteq Tests
      BY ReportFields DEF EInv, ReportType
    <3>2. report["reward"] # None => report["reward"].result.score \in 0 .. One
      <4>1. report["reward"] \in Reports["reward"] \cup {None}
        BY NamesAre DEF EInv, ReportType
      <4> QED
        BY <4>1 DEF Reports
    <3> QED
      BY <3>1, <3>2 DEF EInv, DiskType, CallType, TypeOK
  <2>2. ReportsInOrder
    BY DEF EInv
  <2>3. ReportsOfOneSuite
    <3>1. pc = "done" => \A n \in Names : pc \in After[n]
      BY NamesAre, AfterAre
    <3> QED
      BY <3>1 DEF EInv, ReportsAreCurrent, ReportsOfOneSuite
  <2>4. UntimedIsNeutral
    BY DEF EInv, Neutral, UntimedIsNeutral
  <2> QED
    BY <2>1, <2>2, <2>3, <2>4 DEF ReportsAreConsistent
<1> QED
  BY <1>1, EvaluationInvariant, PTL

\* A queue is exported as ready only for a suite that is not empty, that
\* failed no determinism run, and in which no test is weak or redundant, or
\* passed by a dummy or a mutant (qc/qc_export.py:110).
THEOREM ReadyIsUnflagged == Spec => ReadyMeansUnflagged
<1> DEFINE Unflagged ==
      exported' = "ready" /\ exported' # exported =>
        /\ unsteady = {} /\ suite # {}
        /\ \A t \in suite :
             /\ trait[t].lint = "no" /\ ~trait[t].fools /\ ~trait[t].survives
             /\ \A u \in suite : trait[u].shape = trait[t].shape => u = t
<1>1. EInv /\ [Next]_vars => [Unflagged]_vars
  <2> SUFFICES ASSUME EInv, Next, exported' = "ready", exported' # exported PROVE Unflagged
    BY DEF vars
  <2>1. Export
    BY DEF Next, Step, Begin, FirstGoldRun, FirstLint, HardGates, GoldRun, Lint, DeterminismRun,
       DummyRuns, Analyze, MutationRuns, ScoreEfficiency, WriteQuality, WriteReward, WriteQueue,
       Generate, Kill
  <2>2. pc = "export" /\ Decision(report["qc"].items) = "ready"
    BY <2>1 DEF Export, Goto
  <2>3. report["qc"].items = {}
    BY <2>2 DEF Decision
  <2>4. QueueItems = {}
    BY <2>2, <2>3 DEF EInv, ContentsAreCurrent
  <2>5. /\ lint = Flags(suite) /\ fooled = {t \in suite : trait[t].fools}
        /\ report["mutation"].survivors = {t \in suite : trait[t].survives}
        /\ report["redundancy"].clustered = {t \in suite : Cluster(t, suite) # {t}}
        /\ suite \subseteq Tests /\ trait \in [Tests -> TraitType]
    BY <2>2 DEF EInv, DiskType, MeasuresAreCurrent, ContentsAreCurrent
  <2>6. /\ lint.high = {} /\ lint.medium = {} /\ unsteady = {} /\ suite # {} /\ fooled = {}
        /\ report["mutation"].survivors = {} /\ report["redundancy"].clustered = {}
    <3>1. {<<"weak", t>> : t \in lint.high \cup lint.medium} = {}
      BY <2>4 DEF QueueItems
    <3>2. {<<"mutation", t>> : t \in report["mutation"].survivors} = {}
      BY <2>4 DEF QueueItems
    <3>3. {<<"redundant", t>> : t \in report["redundancy"].clustered} = {}
      BY <2>4 DEF QueueItems
    <3>4. unsteady = {} /\ suite # {} /\ fooled = {}
      BY <2>4 DEF QueueItems
    <3> QED
      BY <3>1, <3>2, <3>3, <3>4
  <2>7. ASSUME NEW t \in suite PROVE trait[t].lint = "no"
    <3>1. trait[t].lint \in {"no", "medium", "high"}
      BY <2>5 DEF TraitType
    <3>2. t \notin lint.high /\ t \notin lint.medium
      BY <2>6
    <3> QED
      BY <2>5, <3>1, <3>2 DEF Flags
  <2>8. ASSUME NEW t \in suite PROVE ~trait[t].fools /\ ~trait[t].survives
    BY <2>5, <2>6
  <2>9. ASSUME NEW t \in suite, NEW u \in suite, trait[u].shape = trait[t].shape PROVE u = t
    <3>1. Cluster(t, suite) = {t}
      BY <2>5, <2>6
    <3> QED
      BY <2>9, <3>1 DEF Cluster
  <2> QED
    BY <2>6, <2>7, <2>8, <2>9
<1> QED
  BY <1>1, EvaluationInvariant, PTL DEF Spec, ReadyMeansUnflagged

-----------------------------------------------------------------------------
(* From the counts of a suite to its score.                                *)

\* What a quotient is, without division.
LEMMA QuotientBounds ==
  ASSUME NEW a \in Nat, NEW n \in Nat \ {0}
  PROVE  /\ a \div n \in Nat /\ (a \div n) * n <= a
         /\ \A q \in Nat : q * n <= a => q <= a \div n
  OBVIOUS

\* Fractions are compared by their cross products.
LEMMA QuotientsCompare ==
  ASSUME NEW a \in Nat, NEW n \in Nat \ {0}, NEW b \in Nat, NEW d \in Nat \ {0},
         a * d <= b * n
  PROVE  a \div n <= b \div d
<1> DEFINE q == a \div n
<1>1. q \in Nat /\ q * n <= a
  BY QuotientBounds
<1> HIDE DEF q
<1>2. (q * n) * d <= a * d
  BY <1>1
<1>3. (q * d) * n <= b * n
  BY <1>1, <1>2
<1>4. q * d \in Nat
  BY <1>1
<1>5. q * d <= b
  <2> DEFINE p == q * d
  <2>1. p \in Nat /\ p * n <= b * n
    BY <1>3, <1>4
  <2> HIDE DEF p
  <2>2. p <= b
    <3>1. ASSUME b + 1 <= p PROVE FALSE
      <4>1. (b + 1) * n <= p * n
        BY <2>1, <3>1
      <4>2. (b + 1) * n = b * n + n
        BY <2>1
      <4> QED
        BY <2>1, <4>1, <4>2
    <3> QED
      BY <2>1, <3>1
  <2> QED
    BY <2>2 DEF p
<1>6. q <= b \div d
  BY <1>1, <1>5, QuotientBounds
<1> QED
  BY <1>6 DEF q

\* More of the same, and the same of fewer.
LEMMA QuotientRises ==
  ASSUME NEW k \in Nat, NEW j \in Nat, k <= j,
         NEW n \in Nat \ {0}, NEW d \in Nat \ {0}, d <= n
  PROVE  (One * k) \div n <= (One * j) \div d
<1>1. One * k \in Nat /\ One * j \in Nat /\ One * k <= One * j
  BY OneIsPositive, Products
<1> DEFINE a == One * k
           b == One * j
<1>2. a \in Nat /\ b \in Nat /\ a <= b
  BY <1>1
<1> HIDE DEF a, b
<1>3. a * d <= a * n /\ a * n <= b * n /\ a * d \in Nat /\ a * n \in Nat /\ b * n \in Nat
  BY <1>2
<1>4. a * d <= b * n
  BY <1>3
<1>5. a \div n <= b \div d
  BY <1>2, <1>4, QuotientsCompare
<1> QED
  BY <1>5 DEF a, b

LEMMA ShareRises ==
  ASSUME NEW k \in Nat, NEW j \in Nat, k <= j, NEW n \in Nat
  PROVE  Share(k, n) <= Share(j, n)
<1>1. CASE n = 0
  BY <1>1 DEF Share
<1>2. CASE n # 0
  BY <1>2, QuotientRises DEF Share
<1> QED
  BY <1>1, <1>2

\* The share of those that are in a larger whole.
LEMMA ShareFalls ==
  ASSUME NEW n \in Nat, NEW k \in 0 .. n
  PROVE  Share(k, n + 1) <= Share(k, n)
<1>1. k \in Nat /\ n + 1 \in Nat \ {0}
  OBVIOUS
<1>2. CASE n = 0
  <2>1. k = 0 /\ One * 0 = 0
    BY <1>2, OneIsPositive
  <2>2. (One * k) \div (n + 1) = 0
    BY <1>2, <2>1
  <2> QED
    BY <1>1, <1>2, <2>2 DEF Share
<1>3. CASE n # 0
  <2>1. (One * k) \div (n + 1) <= (One * k) \div n
    BY <1>1, <1>3, QuotientRises
  <2> QED
    BY <1>1, <1>3, <2>1 DEF Share
<1> QED
  BY <1>2, <1>3

\* One more of one more.
LEMMA ShareOfOneMore ==
  ASSUME NEW n \in Nat, NEW k \in 0 .. n
  PROVE  Share(k, n) <= Share(k + 1, n + 1)
<1>1. k \in Nat /\ n + 1 \in Nat \ {0} /\ k + 1 \in Nat
  OBVIOUS
<1>2. CASE n = 0
  <2>1. Share(k + 1, n + 1) \in Nat
    BY <1>1, ShareIsRate
  <2> QED
    BY <1>2, <2>1 DEF Share
<1>3. CASE n # 0
  <2>1. One * k \in Nat /\ One * (k + 1) \in Nat
    BY <1>1, OneIsPositive, Products
  <2>2. k * (n + 1) <= (k + 1) * n
    <3>1. k * (n + 1) = k * n + k /\ (k + 1) * n = k * n + n /\ k * n \in Nat
      BY <1>1
    <3> QED
      BY <3>1
  <2>3. (One * k) * (n + 1) <= (One * (k + 1)) * n
    <3> DEFINE x == k * (n + 1)
               y == (k + 1) * n
    <3>1. x \in Nat /\ y \in Nat /\ x <= y
      BY <1>1, <2>2, Products
    <3>2. (One * k) * (n + 1) = One * x /\ (One * (k + 1)) * n = One * y
      BY <1>1, OneIsPositive
    <3> HIDE DEF x, y
    <3> QED
      BY <3>1, <3>2, OneIsPositive, Products
  <2>4. (One * k) \div n <= (One * (k + 1)) \div (n + 1)
    BY <1>1, <1>3, <2>1, <2>3, QuotientsCompare
  <2> QED
    BY <1>1, <1>3, <2>4 DEF Share
<1> QED
  BY <1>2, <1>3

\* More tests and fewer flags never weaken the assertions.
LEMMA StrengthRises ==
  ASSUME NEW n \in Nat, NEW o \in Nat, n <= o,
         NEW high \in Nat, NEW medium \in Nat, NEW h \in 0 .. high, NEW m \in 0 .. medium
  PROVE  AssertionStrength(n, high, medium) <= AssertionStrength(o, h, m)
<1> DEFINE Part(k, c) == Smaller(One, (One * k) \div Larger(c, 1))
           Loss(a, b, c) == Part(a, c) + Part(b, c) \div 4
<1>1. ASSUME NEW k \in Nat, NEW j \in 0 .. k
      PROVE  Part(k, n) \in Nat /\ Part(j, o) \in Nat /\ Part(j, o) <= Part(k, n)
  <2>1. /\ Larger(n, 1) \in Nat \ {0} /\ Larger(o, 1) \in Nat \ {0}
        /\ Larger(n, 1) <= Larger(o, 1) /\ j \in Nat /\ j <= k
    BY DEF Larger
  <2>2. One * k \in Nat /\ One * j \in Nat
    BY <2>1, OneIsPositive, Products
  <2>3. /\ (One * k) \div Larger(n, 1) \in Nat /\ (One * j) \div Larger(o, 1) \in Nat
        /\ (One * j) \div Larger(o, 1) <= (One * k) \div Larger(n, 1)
    BY <2>1, <2>2, QuotientRises, Quotient
  <2> QED
    BY <2>3, OneIsPositive DEF Smaller
<1>2. /\ AssertionStrength(n, high, medium)
           = IF Loss(high, medium, n) >= One THEN 0 ELSE One - Loss(high, medium, n)
      /\ AssertionStrength(o, h, m) = IF Loss(h, m, o) >= One THEN 0 ELSE One - Loss(h, m, o)
  BY DEF AssertionStrength
<1> HIDE DEF Part
<1>3. /\ Part(high, n) \in Nat /\ Part(h, o) \in Nat /\ Part(h, o) <= Part(high, n)
      /\ Part(medium, n) \in Nat /\ Part(m, o) \in Nat /\ Part(m, o) <= Part(medium, n)
  BY <1>1
<1>4. Part(m, o) \div 4 <= Part(medium, n) \div 4
      /\ Part(m, o) \div 4 \in Nat /\ Part(medium, n) \div 4 \in Nat
  BY <1>3
<1>5. /\ Loss(h, m, o) \in Nat /\ Loss(high, medium, n) \in Nat
      /\ Loss(h, m, o) <= Loss(high, medium, n)
  BY <1>3, <1>4
<1> HIDE DEF Loss
<1> QED
  BY <1>2, <1>5, OneIsPositive

Counts ==
  {s \in [n : Nat, failed : Nat, high : Nat, medium : Nat, shaky : Nat, passable : Nat,
          redundant : Nat, cover : Nat \cup {None}] :
     s.failed <= s.n /\ s.shaky <= s.n /\ s.passable <= s.n}

\* What an improvement leaves as it is, makes less, or adds.
Improves(b, s) ==
  /\ s.n <= b.n /\ b.n <= s.n + 1 /\ b.failed <= s.failed /\ b.high <= s.high
  /\ b.medium <= s.medium /\ b.shaky <= s.shaky /\ b.passable <= s.passable
  /\ b.redundant <= s.redundant
  /\ b.n # s.n => /\ b.failed = s.failed /\ b.shaky = s.shaky /\ b.passable = s.passable
  /\ s.cover # None => b.cover = s.cover

LEMMA ImprovementsImprove ==
  ASSUME NEW s \in Counts, NEW b \in Improvements(s)
  PROVE  b \in Counts /\ Improves(b, s)
<1>1. /\ s \in [n : Nat, failed : Nat, high : Nat, medium : Nat, shaky : Nat, passable : Nat,
                redundant : Nat, cover : Nat \cup {None}]
      /\ s.failed <= s.n /\ s.shaky <= s.n /\ s.passable <= s.n
  BY DEF Counts
<1>2. CASE b = [s EXCEPT !.n = @ + 1]
  BY <1>1, <1>2 DEF Counts, Improves
<1>3. CASE b = [s EXCEPT !.redundant = 0]
  BY <1>1, <1>3 DEF Counts, Improves
<1>4. CASE s.cover = None /\ b = [s EXCEPT !.cover = 0]
  BY <1>1, <1>4 DEF Counts, Improves
<1>5. CASE s.failed > 0 /\ b = [s EXCEPT !.failed = @ - 1]
  BY <1>1, <1>5 DEF Counts, Improves
<1>6. CASE s.high > 0 /\ b = [s EXCEPT !.high = @ - 1]
  BY <1>1, <1>6 DEF Counts, Improves
<1>7. CASE s.medium > 0 /\ b = [s EXCEPT !.medium = @ - 1]
  BY <1>1, <1>7 DEF Counts, Improves
<1>8. CASE s.shaky > 0 /\ b = [s EXCEPT !.shaky = @ - 1]
  BY <1>1, <1>8 DEF Counts, Improves
<1>9. CASE s.passable > 0 /\ b = [s EXCEPT !.passable = @ - 1]
  BY <1>1, <1>9 DEF Counts, Improves
<1>10. \/ b = [s EXCEPT !.n = @ + 1]
       \/ b = [s EXCEPT !.redundant = 0]
       \/ s.cover = None /\ b = [s EXCEPT !.cover = 0]
       \/ \E f \in {"failed", "high", "medium", "shaky", "passable"} :
            s[f] > 0 /\ b = [s EXCEPT ![f] = @ - 1]
  BY DEF Improvements
<1> QED
  BY <1>2, <1>3, <1>4, <1>5, <1>6, <1>7, <1>8, <1>9, <1>10

LEMMA MeasuresAreTyped ==
  ASSUME NEW s \in Counts
  PROVE  MeasuresOf(s) \in MeasuresType
<1>1. /\ s.n \in Nat /\ s.failed \in Nat /\ s.high \in Nat /\ s.medium \in Nat
      /\ s.shaky \in Nat /\ s.passable \in Nat /\ s.redundant \in Nat
      /\ s.cover \in Nat \cup {None}
      /\ s.failed <= s.n /\ s.shaky <= s.n /\ s.passable <= s.n
  BY DEF Counts
<1>2. s.n - s.failed \in Nat /\ s.n - s.shaky \in Nat
  BY <1>1
<1>3. Share(s.n - s.failed, s.n) \in Nat /\ Share(s.n - s.shaky, s.n) \in Nat
  BY <1>1, <1>2, ShareIsRate
<1>4. One - Share(s.passable, s.n) \in Nat
  <2>1. Share(s.passable, s.n) \in Nat /\ Share(s.passable, s.n) <= One
    BY <1>1, ShareIsRate
  <2> QED
    BY <2>1, OneIsPositive
<1>5. AssertionStrength(s.n, s.high, s.medium) \in Nat
  BY <1>1, StrengthIsRate
<1> QED
  BY <1>1, <1>3, <1>4, <1>5 DEF MeasuresOf, MeasuresType

\* What improves the counts of a suite makes no measure worse.
LEMMA MeasuresImprove ==
  ASSUME NEW s \in Counts, NEW b \in Counts, Improves(b, s)
  PROVE  NotWorse(MeasuresOf(b), MeasuresOf(s))
<1>1. /\ s.n \in Nat /\ s.failed \in Nat /\ s.high \in Nat /\ s.medium \in Nat
      /\ s.shaky \in Nat /\ s.passable \in Nat
      /\ s.failed <= s.n /\ s.shaky <= s.n /\ s.passable <= s.n
      /\ b.n \in Nat /\ b.failed \in Nat /\ b.high \in Nat /\ b.medium \in Nat
      /\ b.shaky \in Nat /\ b.passable \in Nat
      /\ b.failed <= b.n /\ b.shaky <= b.n /\ b.passable <= b.n
  BY DEF Counts
<1>2. ASSUME NEW k \in Nat, NEW j \in Nat, k <= s.n, j <= k, b.n # s.n => j = k, j <= b.n
      PROVE  /\ Share(s.n - k, s.n) <= Share(b.n - j, b.n)
             /\ One - Share(k, s.n) <= One - Share(j, b.n)
  <2>1. Share(k, s.n) \in Nat /\ Share(j, b.n) \in Nat
    BY <1>1, <1>2, ShareIsRate
  <2>2. CASE b.n = s.n
    <3>1. Share(j, s.n) <= Share(k, s.n)
      BY <1>1, <1>2, ShareRises
    <3>2. s.n - k \in Nat /\ s.n - j \in Nat /\ s.n - k <= s.n - j
      BY <1>1, <1>2, <2>2
    <3>3. Share(s.n - k, s.n) <= Share(s.n - j, s.n)
      BY <1>1, <3>2, ShareRises
    <3> QED
      BY <2>1, <2>2, <3>1, <3>3, OneIsPositive
  <2>3. CASE b.n # s.n
    <3>1. b.n = s.n + 1 /\ j = k
      BY <1>1, <1>2, <2>3 DEF Improves
    <3>2. s.n - k \in 0 .. s.n /\ k \in 0 .. s.n /\ (s.n - k) + 1 = (s.n + 1) - k
      BY <1>1, <1>2
    <3>3. Share(s.n - k, s.n) <= Share((s.n - k) + 1, s.n + 1)
      BY <1>1, <3>2, ShareOfOneMore
    <3>4. Share(k, s.n + 1) <= Share(k, s.n)
      BY <1>1, <3>2, ShareFalls
    <3> QED
      BY <2>1, <3>1, <3>2, <3>3, <3>4, OneIsPositive
  <2> QED
    BY <2>2, <2>3
<1>3. /\ Share(s.n - s.failed, s.n) <= Share(b.n - b.failed, b.n)
      /\ Share(s.n - s.shaky, s.n) <= Share(b.n - b.shaky, b.n)
      /\ One - Share(s.passable, s.n) <= One - Share(b.passable, b.n)
  <2>1. Share(s.n - s.failed, s.n) <= Share(b.n - b.failed, b.n)
    BY <1>1, <1>2 DEF Improves
  <2>2. Share(s.n - s.shaky, s.n) <= Share(b.n - b.shaky, b.n)
    BY <1>1, <1>2 DEF Improves
  <2>3. One - Share(s.passable, s.n) <= One - Share(b.passable, b.n)
    BY <1>1, <1>2 DEF Improves
  <2> QED
    BY <2>1, <2>2, <2>3
<1>4. AssertionStrength(s.n, s.high, s.medium) <= AssertionStrength(b.n, b.high, b.medium)
  <2>1. s.n <= b.n /\ b.high \in 0 .. s.high /\ b.medium \in 0 .. s.medium
    BY <1>1 DEF Improves
  <2> QED
    BY <1>1, <2>1, StrengthRises
<1>5. /\ s.redundant \in Nat /\ b.redundant \in Nat /\ b.redundant <= s.redundant
      /\ s.cover \in Nat \cup {None} /\ (s.cover # None => b.cover = s.cover)
  BY DEF Counts, Improves
<1>6. s.cover # None => b.cover # None /\ s.cover <= b.cover
  BY <1>5, OneIsPositive
<1> QED
  BY <1>3, <1>4, <1>5, <1>6 DEF MeasuresOf, NotWorse

\* A suite that was scored is one of those drawn, and its score is as the
\* formula says.
DrawnInv ==
  /\ drawn # None => drawn \in Suites /\ factor \in Multipliers \cup {None}
  /\ reward # None => drawn # None /\ reward = Reward(MeasuresOf(drawn), factor)

LEMMA DrawnSuites == Suites \subseteq Counts
<1>1. ASSUME NEW s \in Suites PROVE s \in Counts
  <2>1. Half \in Nat
    BY OneIsPositive DEF Half
  <2>2. /\ Sizes \subseteq Nat /\ Failing \subseteq Nat /\ FlagCounts \subseteq Nat
        /\ Coverages \subseteq Nat
    BY DrawAssumption, OneIsPositive
  <2>3. /\ s \in [n : Sizes, failed : Failing, high : FlagCounts, medium : FlagCounts,
                  shaky : {0, 1}, passable : {0, 1}, redundant : {0, Half},
                  cover : Coverages \cup {None}]
        /\ s.failed <= s.n /\ s.shaky <= s.n /\ s.passable <= s.n
    BY DEF Suites
  <2>4. /\ s.n \in Sizes /\ s.failed \in Failing /\ s.high \in FlagCounts
        /\ s.medium \in FlagCounts /\ s.shaky \in {0, 1} /\ s.passable \in {0, 1}
        /\ s.redundant \in {0, Half} /\ s.cover \in Coverages \cup {None}
    BY Zenon, <2>3
  <2>5. /\ s.n \in Nat /\ s.failed \in Nat /\ s.high \in Nat /\ s.medium \in Nat
        /\ s.shaky \in Nat /\ s.passable \in Nat
        /\ s.redundant \in Nat /\ s.cover \in Nat \cup {None}
    <3>1. s.n \in Nat /\ s.failed \in Nat
      BY Zenon, <2>2, <2>4
    <3>2. s.high \in Nat /\ s.medium \in Nat /\ s.cover \in Nat \cup {None}
      BY Zenon, <2>2, <2>4
    <3>3. s.shaky \in Nat /\ s.passable \in Nat
      BY <2>4
    <3>4. s.redundant \in Nat
      BY <2>1, <2>4
    <3> QED
      BY <3>1, <3>2, <3>3, <3>4
  <2>6. s = [n |-> s.n, failed |-> s.failed, high |-> s.high, medium |-> s.medium,
             shaky |-> s.shaky, passable |-> s.passable, redundant |-> s.redundant,
             cover |-> s.cover]
    BY <2>3
  <2>7. s \in [n : Nat, failed : Nat, high : Nat, medium : Nat, shaky : Nat, passable : Nat,
               redundant : Nat, cover : Nat \cup {None}]
    BY <2>5, <2>6
  <2> QED
    BY <2>3, <2>7 DEF Counts
<1> QED
  BY <1>1

LEMMA DrawnInvariance == MCSpec => []DrawnInv
<1>1. MCInit => DrawnInv
  BY DEF MCInit, NothingDrawn, Draw, DrawnInv
<1>2. DrawnInv /\ [MCNext]_<<vars, drawnVars>> => DrawnInv'
  <2> SUFFICES ASSUME DrawnInv, [MCNext]_<<vars, drawnVars>> PROVE DrawnInv'
    OBVIOUS
  <2>1. CASE UNCHANGED drawnVars
    BY <2>1 DEF DrawnInv, drawnVars
  <2>2. CASE ScoreDrawn
    BY <2>2 DEF DrawnInv, ScoreDrawn
  <2> QED
    BY <2>1, <2>2 DEF MCNext, drawnVars
<1> QED
  BY <1>1, <1>2, PTL DEF MCSpec

\* No improvement of a suite that keeps it on its side of the gate lowers its
\* score, for any numbers of tests, failures and flags, any coverage, gate and
\* multipliers (quality/suite_scorer.py:48-78).
THEOREM ScoreRewardsBetter == MCSpec => []BetterIsNotWorse
<1>1. ASSUME DrawnInv PROVE BetterIsNotWorse
  <2> SUFFICES ASSUME reward # None, NEW b \in Improvements(drawn),
                      PassesGate(MeasuresOf(b).correct) = reward.passed
               PROVE  ScoreOf(b) >= reward.score
    BY DEF BetterIsNotWorse
  <2>1. /\ drawn \in Counts /\ factor \in 3 .. 5 \cup {None}
        /\ reward = Reward(MeasuresOf(drawn), factor)
    BY <1>1, DrawnSuites, EvaluationAssumption DEF DrawnInv
  <2>2. b \in Counts /\ Improves(b, drawn)
    BY <2>1, ImprovementsImprove
  <2>3. /\ MeasuresOf(drawn) \in MeasuresType /\ MeasuresOf(b) \in MeasuresType
        /\ NotWorse(MeasuresOf(b), MeasuresOf(drawn))
    BY <2>1, <2>2, MeasuresAreTyped, MeasuresImprove
  <2>4. PassesGate(MeasuresOf(b).correct) <=> PassesGate(MeasuresOf(drawn).correct)
    BY <2>1 DEF Reward
  <2>5. Reward(MeasuresOf(drawn), factor).score <= Reward(MeasuresOf(b), factor).score
    BY <2>1, <2>3, <2>4, ScoreIsMonotone
  <2>6. /\ Reward(MeasuresOf(drawn), factor).score \in Nat
        /\ Reward(MeasuresOf(b), factor).score \in Nat
    <3>1. /\ Reward(MeasuresOf(drawn), factor).score \in 0 .. One
          /\ Reward(MeasuresOf(b), factor).score \in 0 .. One
      BY <2>1, <2>3, RewardIsRate
    <3> QED
      BY <3>1, OneIsPositive
  <2> QED
    BY <2>1, <2>5, <2>6 DEF ScoreOf
<1> QED
  BY <1>1, DrawnInvariance, PTL
=============================================================================
