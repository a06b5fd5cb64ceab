-------------------------- MODULE Comparison_proof --------------------------
(***************************************************************************)
(* Proofs about Comparison, for all measurements and policies: that the    *)
(* verdict is the documented one, of functions and of the sums over the    *)
(* members of aggregates, and that using less never hurts.                 *)
(***************************************************************************)
EXTENDS Comparison, TLAPS, FiniteSetTheorems, WellFoundedInduction

(* The fields of a comparison of one metric.                               *)
LEMMA MetricDiffFields ==
  ASSUME NEW b \in Value, NEW h \in Value
  PROVE  /\ Null \in {b, h} => ~MetricDiff(b, h).available
         /\ Null \notin {b, h} => /\ b \in Nat /\ h \in Nat
                                  /\ MetricDiff(b, h).available
                                  /\ MetricDiff(b, h).head = h
                                  /\ MetricDiff(b, h).regression <=> h > b
                                  /\ MetricDiff(b, h).pct = IF b = 0 THEN Null ELSE <<h - b, b>>
BY DEF MetricDiff, Value

(* Growth beyond a cap, in the words of the code and in those of the       *)
(* documentation.                                                          *)
LEMMA ExceedsAsDocumented ==
  ASSUME NEW b \in Nat, NEW h \in Nat, NEW cap \in Nat, h > b, b # 0
  PROVE  Exceeds(<<h - b, b>>, cap)
           <=> \/ 100 * h > (100 + cap) * b
               \/ 100 * h = (100 + cap) * b /\ <<h - b, b>> \in RoundsUp
<1>1. /\ (100 + cap) * b = 100 * b + cap * b
      /\ cap * b \in Nat
  OBVIOUS
<1>2. /\ 100 * (h - b) > cap * b <=> 100 * h > (100 + cap) * b
      /\ 100 * (h - b) = cap * b <=> 100 * h = (100 + cap) * b
  BY <1>1
<1>3. <<h - b, b>> # Null
  <2>1. <<h - b, b>> \in Nat \X Nat
    OBVIOUS
  <2> QED
    BY <2>1, NumbersAssumption
<1> QED
  BY <1>2, <1>3 DEF Exceeds, Exactly

(* A violation is reported exactly when the documented rule does not fit.  *)
LEMMA BreaksAsDocumented ==
  ASSUME NEW rule \in Rule, NEW b \in Value, NEW h \in Value
  PROVE  Breaks(rule, MetricDiff(b, h)) <=> ~Fits(rule, b, h, TRUE)
<1>1. CASE Null \in {b, h}
  BY <1>1, MetricDiffFields DEF Breaks, Fits
<1>2. CASE Null \notin {b, h} /\ ~(h > b)
  BY <1>2, MetricDiffFields DEF Breaks, Fits
<1>3. CASE Null \notin {b, h} /\ h > b
  <2>1. /\ b \in Nat /\ h \in Nat
        /\ MetricDiff(b, h).available /\ MetricDiff(b, h).regression
        /\ MetricDiff(b, h).pct = IF b = 0 THEN Null ELSE <<h - b, b>>
    BY <1>3, MetricDiffFields
  <2>2. CASE rule.kind # "percent"
    BY <1>3, <2>1, <2>2 DEF Breaks, Fits
  <2>3. CASE rule.kind = "percent" /\ b = 0
    <3>1. rule.cap \in Nat
      BY <2>3 DEF Rule
    <3>2. (100 + rule.cap) * b = 0
      BY <2>3, <3>1
    <3> QED
      BY <1>3, <2>1, <2>3, <3>2 DEF Breaks, Fits, Exceeds
  <2>4. CASE rule.kind = "percent" /\ b # 0
    <3>1. rule.cap \in Nat
      BY <2>4 DEF Rule
    <3>2. (100 + rule.cap) * b \in Nat
      BY <2>1, <3>1
    <3>3. Exceeds(<<h - b, b>>, rule.cap)
            <=> \/ 100 * h > (100 + rule.cap) * b
                \/ 100 * h = (100 + rule.cap) * b /\ <<h - b, b>> \in RoundsUp
      BY <1>3, <2>1, <2>4, <3>1, ExceedsAsDocumented
    <3>4. Breaks(rule, MetricDiff(b, h)) <=> Exceeds(<<h - b, b>>, rule.cap)
      BY <2>1, <2>4 DEF Breaks
    <3>5. Fits(rule, b, h, TRUE)
            <=> /\ 100 * h <= (100 + rule.cap) * b
                /\ ~(100 * h = (100 + rule.cap) * b /\ <<h - b, b>> \in RoundsUp)
      BY <1>3, <2>1, <2>4 DEF Fits
    <3>6. 100 * h > (100 + rule.cap) * b <=> ~(100 * h <= (100 + rule.cap) * b)
      BY <2>1, <3>2
    <3>7. 100 * h = (100 + rule.cap) * b => ~(100 * h > (100 + rule.cap) * b)
      BY <2>1, <3>2
    <3> QED
      BY <3>3, <3>4, <3>5, <3>6, <3>7, Zenon
  <2> QED
    BY <2>2, <2>3, <2>4
<1> QED
  BY <1>1, <1>2, <1>3

LEMMA OverAsDocumented ==
  ASSUME NEW limit \in Nat, NEW b \in Value, NEW h \in Value
  PROVE  OverLimit(limit, MetricDiff(b, h)) <=> ~Within(limit, b, h)
<1>1. CASE Null \in {b, h}
  BY <1>1, MetricDiffFields DEF OverLimit, Within
<1>2. CASE Null \notin {b, h}
  <2>1. b \in Nat /\ h \in Nat /\ MetricDiff(b, h).available /\ MetricDiff(b, h).head = h
    BY <1>2, MetricDiffFields
  <2>2. OverLimit(limit, MetricDiff(b, h)) <=> h > limit
    BY <2>1 DEF OverLimit
  <2>3. Within(limit, b, h) <=> h <= limit
    BY <1>2 DEF Within
  <2> QED
    BY <2>1, <2>2, <2>3
<1> QED
  BY <1>1, <1>2

(* What fits still fits when HEAD uses less.                               *)
LEMMA FitsLess ==
  ASSUME NEW rule \in Rule, NEW b \in Value, NEW h \in Value, NEW v \in Nat,
         NoWorse(v, h), Fits(rule, b, h, TRUE)
  PROVE  Fits(rule, b, v, TRUE)
<1>1. CASE rule.kind = "ignore"
  BY <1>1 DEF Fits
<1>2. CASE rule.kind # "ignore"
  <2>1. b \in Nat /\ h \in Nat /\ v <= h /\ v # Null
    BY <1>2, NumbersAssumption DEF Fits, NoWorse, Value
  <2>2. CASE v <= b
    BY <1>2, <2>1, <2>2 DEF Fits
  <2>3. CASE v > b
    <3>1. /\ rule.kind = "percent" /\ rule.cap \in Nat
          /\ 100 * h <= (100 + rule.cap) * b
          /\ ~(100 * h = (100 + rule.cap) * b /\ <<h - b, b>> \in RoundsUp)
      BY <1>2, <2>1, <2>3 DEF Fits, Rule
    <3>2. (100 + rule.cap) * b \in Nat
      BY <2>1, <3>1
    <3>3. 100 * v <= (100 + rule.cap) * b
      BY <2>1, <3>1, <3>2
    <3>4. 100 * v = (100 + rule.cap) * b => 100 * v = 100 * h
      BY <2>1, <3>1, <3>2
    <3>5. 100 * v = 100 * h => v = h
      BY <2>1
    <3>6. ~(100 * v = (100 + rule.cap) * b /\ <<v - b, b>> \in RoundsUp)
      BY <3>1, <3>4, <3>5, Zenon
    <3>7. Null \notin {b, v}
      BY <2>1, NumbersAssumption
    <3>8. Fits(rule, b, v, TRUE)
            <=> /\ 100 * v <= (100 + rule.cap) * b
                /\ ~(100 * v = (100 + rule.cap) * b /\ <<v - b, b>> \in RoundsUp)
      BY <2>1, <2>3, <3>1, <3>7 DEF Fits
    <3> QED
      BY <3>3, <3>6, <3>8, Zenon
  <2>4. v <= b \/ v > b
    BY <2>1
  <2> QED
    BY <2>2, <2>3, <2>4
<1> QED
  BY <1>1, <1>2

LEMMA WithinLess ==
  ASSUME NEW limit \in Nat, NEW b \in Value, NEW h \in Value, NEW v \in Nat,
         NoWorse(v, h), Within(limit, b, h)
  PROVE  Within(limit, b, v)
<1>1. h \in Nat /\ v <= h /\ h <= limit /\ Null \notin {b, v}
  BY NumbersAssumption DEF Within, NoWorse, Value
<1> QED
  BY <1>1 DEF Within

-----------------------------------------------------------------------------
(* The rules and limits asked of a function are rules and limits.          *)
LEMMA AskedAreRules ==
  ASSUME NEW p, IsPolicy(p), NEW fn, NEW metric \in Metrics
  PROVE  RulesAsked(p, fn, metric) \subseteq Rule
<1>1. CASE Overrides(p, fn, metric)
  BY <1>1 DEF RulesAsked, Overrides, Sets, IsPolicy, IsRules
<1>2. CASE ~Overrides(p, fn, metric)
  <2>1. \A m \in DOMAIN p.caps : Percent(p.caps[m]) \in Rule
    BY DEF IsPolicy, Percent, Rule
  <2>2. [kind : {"strict_zero_tolerance"}] \subseteq Rule
    BY DEF Rule
  <2> QED
    BY <1>2, <2>1, <2>2 DEF RulesAsked
<1> QED
  BY <1>1, <1>2

LEMMA LimitsOnAsked ==
  ASSUME NEW p, NEW fn, NEW metric
  PROVE  LimitsOn(p, fn, metric) = LimitsAsked(p, fn, metric)
<1>1. CASE Sets(p.functionLimits, fn)
  BY <1>1 DEF LimitsOn, LimitsAsked, Layer, Sets
<1>2. CASE ~Sets(p.functionLimits, fn)
  BY <1>2 DEF LimitsOn, LimitsAsked, Layer, Sets
<1> QED
  BY <1>1, <1>2

LEMMA LimitsAreNumbers ==
  ASSUME NEW p, IsPolicy(p), NEW fn, NEW metric
  PROVE  LimitsOn(p, fn, metric) \subseteq Nat
BY DEF LimitsOn, Sets, IsPolicy, IsLimits

(* Growth is reported exactly when a rule that is asked does not fit.      *)
LEMMA GrowthAsAsked ==
  ASSUME NEW p, IsPolicy(p), NEW fn, NEW metric \in Metrics,
         NEW b \in Value, NEW h \in Value
  PROVE  GrowthViolated(p, fn, metric, MetricDiff(b, h))
           <=> \E rule \in RulesAsked(p, fn, metric) : ~Fits(rule, b, h, TRUE)
<1> DEFINE d == MetricDiff(b, h)
<1>1. \A rule \in RulesAsked(p, fn, metric) : Breaks(rule, d) <=> ~Fits(rule, b, h, TRUE)
  BY AskedAreRules, BreaksAsDocumented
<1>2. GrowthViolated(p, fn, metric, d) <=> \E rule \in RulesAsked(p, fn, metric) : Breaks(rule, d)
  <2>1. CASE Overrides(p, fn, metric)
    <3>1. RulesAsked(p, fn, metric) = {p.functions[fn][metric]}
      BY <2>1 DEF RulesAsked
    <3> QED
      BY <2>1, <3>1 DEF GrowthViolated
  <2>2. CASE ~Overrides(p, fn, metric)
    <3> DEFINE strict == {r \in [kind : {"strict_zero_tolerance"}] : p.fail_on_any_regression}
               caps == {Percent(p.caps[m]) : m \in {m \in DOMAIN p.caps : m = metric}}
    <3>1. RulesAsked(p, fn, metric) = strict \cup caps
      BY <2>2 DEF RulesAsked
    <3>2. (\E rule \in strict : Breaks(rule, d))
            <=> p.fail_on_any_regression /\ (d.regression \/ ~d.available)
      <4>1. [kind |-> "strict_zero_tolerance"] \in [kind : {"strict_zero_tolerance"}]
        OBVIOUS
      <4>2. \A r \in [kind : {"strict_zero_tolerance"}] :
              Breaks(r, d) <=> d.regression \/ ~d.available
        BY DEF Breaks
      <4> QED
        BY <4>1, <4>2
    <3>3. (\E rule \in caps : Breaks(rule, d))
            <=> Sets(p.caps, metric) /\ Breaks(Percent(p.caps[metric]), d)
      BY DEF Sets
    <3> HIDE DEF d, strict, caps
    <3> QED
      BY <2>2, <3>1, <3>2, <3>3 DEF GrowthViolated
  <2> QED
    BY <2>1, <2>2
<1> QED
  BY <1>1, <1>2

(* No rule for functions is reported violated exactly when the benchmarks  *)
(* that were matched are all as documented.                                *)
LEMMA FunctionVerdict ==
  ASSUME NEW p, IsPolicy(p), NEW b, IsMeasurement(b), NEW h, IsMeasurement(h)
  PROVE  FunctionViolations(p, DiffBenchmarks(b, h)) = {}
           <=> \A id \in Matched(b, h) : FunctionAccepted(p, id, b, h, TRUE)
<1> DEFINE d == DiffBenchmarks(b, h)
<1>1. DOMAIN d = Matched(b, h)
  BY DEF DiffBenchmarks
<1>2. ASSUME NEW id \in Matched(b, h), NEW metric \in Metrics
      PROVE  /\ b[id].metrics[metric] \in Value /\ h[id].metrics[metric] \in Value
             /\ d[id][metric] = MetricDiff(b[id].metrics[metric], h[id].metrics[metric])
  BY <1>2 DEF DiffBenchmarks, IsMeasurement, Matched
<1> HIDE DEF d
<1>3. ASSUME NEW id \in Matched(b, h), NEW metric \in Metrics
      PROVE  (\E limit \in LimitsOn(p, id.function_name, metric) : OverLimit(limit, d[id][metric]))
               <=> \E limit \in LimitsAsked(p, id.function_name, metric) :
                     ~Within(limit, b[id].metrics[metric], h[id].metrics[metric])
  <2> DEFINE x == b[id].metrics[metric]
             y == h[id].metrics[metric]
  <2>1. x \in Value /\ y \in Value /\ d[id][metric] = MetricDiff(x, y)
    BY <1>2, <1>3
  <2> HIDE DEF x, y
  <2>2. /\ LimitsOn(p, id.function_name, metric) = LimitsAsked(p, id.function_name, metric)
        /\ LimitsAsked(p, id.function_name, metric) \subseteq Nat
    BY LimitsOnAsked, LimitsAreNumbers
  <2>3. \A limit \in LimitsAsked(p, id.function_name, metric) :
          OverLimit(limit, MetricDiff(x, y)) <=> ~Within(limit, x, y)
    BY <2>1, <2>2, OverAsDocumented
  <2> QED
    BY <2>1, <2>2, <2>3 DEF x, y
<1>4. ASSUME NEW id \in Matched(b, h), NEW metric \in Metrics
      PROVE  GrowthViolated(p, id.function_name, metric, d[id][metric])
               <=> \E rule \in RulesAsked(p, id.function_name, metric) :
                     ~Fits(rule, b[id].metrics[metric], h[id].metrics[metric], TRUE)
  <2> DEFINE x == b[id].metrics[metric]
             y == h[id].metrics[metric]
  <2>1. x \in Value /\ y \in Value /\ d[id][metric] = MetricDiff(x, y)
    BY <1>2, <1>4
  <2> HIDE DEF x, y
  <2>2. GrowthViolated(p, id.function_name, metric, MetricDiff(x, y))
          <=> \E rule \in RulesAsked(p, id.function_name, metric) : ~Fits(rule, x, y, TRUE)
    BY <1>4, <2>1, GrowthAsAsked
  <2> QED
    BY <2>1, <2>2 DEF x, y
<1>5. FunctionViolations(p, d) = {}
        <=> \A id \in Matched(b, h), metric \in Metrics :
              /\ ~\E limit \in LimitsOn(p, id.function_name, metric) : OverLimit(limit, d[id][metric])
              /\ ~GrowthViolated(p, id.function_name, metric, d[id][metric])
  <2>1. ASSUME NEW id \in Matched(b, h), NEW metric \in Metrics
        PROVE  /\ <<id, metric, "limit">> \in FunctionViolations(p, d)
                    <=> \E limit \in LimitsOn(p, id.function_name, metric) : OverLimit(limit, d[id][metric])
               /\ <<id, metric, "growth">> \in FunctionViolations(p, d)
                    <=> GrowthViolated(p, id.function_name, metric, d[id][metric])
    BY <1>1, <2>1 DEF FunctionViolations
  <2>2. \A x \in FunctionViolations(p, d) :
          \E id \in Matched(b, h), metric \in Metrics :
            x \in {<<id, metric, "limit">>, <<id, metric, "growth">>}
    BY <1>1 DEF FunctionViolations
  <2> DEFINE holds(id, metric) ==
               /\ ~\E limit \in LimitsOn(p, id.function_name, metric) : OverLimit(limit, d[id][metric])
               /\ ~GrowthViolated(p, id.function_name, metric, d[id][metric])
  <2>3. \A id \in Matched(b, h), metric \in Metrics :
          holds(id, metric) <=> {<<id, metric, "limit">>, <<id, metric, "growth">>}
                                  \cap FunctionViolations(p, d) = {}
    BY <2>1
  <2> HIDE DEF holds
  <2>4. FunctionViolations(p, d) = {}
          <=> \A id \in Matched(b, h), metric \in Metrics : holds(id, metric)
    BY <2>2, <2>3
  <2> QED
    BY <2>4 DEF holds
<1> QED
  BY <1>3, <1>4, <1>5 DEF FunctionAccepted, d

-----------------------------------------------------------------------------
(* Sums over finite sets                                                    *)

(* A set of numbers has a least one.                                       *)
Least(S) == CHOOSE i \in S : \A j \in S : i <= j
LEMMA LeastOf ==
  ASSUME NEW S \in SUBSET Nat, S # {}
  PROVE  Least(S) \in S /\ \A d \in S : Least(S) <= d
<1> DEFINE R == {p \in Nat \X Nat : p[1] < p[2]}
<1>1. IsWellFoundedOn(R, Nat)
  BY NatLessThanWellFounded DEF OpToRel
<1> HIDE DEF R
<1>2. PICK c \in S : \A d \in S : ~(<<d, c>> \in R)
  BY <1>1, WFMin
<1>3. \A d \in S : ~(d < c)
  BY <1>2 DEF R
<1>4. \E least \in S : \A d \in S : least <= d
  BY <1>3
<1> QED
  BY <1>4 DEF Least

(* What holds at 0 and is handed on holds up to n.                         *)
LEMMA UpTo ==
  ASSUME NEW n \in Nat, NEW S, 0 \in S, \A i \in 1..n : i - 1 \in S => i \in S
  PROVE  \A i \in 0..n : i \in S
<1> SUFFICES ASSUME (0..n) \ S # {} PROVE FALSE
  OBVIOUS
<1> DEFINE m == Least((0..n) \ S)
<1>1. m \in (0..n) \ S /\ \A d \in (0..n) \ S : m <= d
  <2>1. (0..n) \ S \in SUBSET Nat
    OBVIOUS
  <2> QED
    BY <2>1, LeastOf
<1> HIDE DEF m
<1>2. m \in 1..n /\ m - 1 \in 0..n
  BY <1>1
<1> QED
  BY <1>1, <1>2

(* Whatever holds of a set as soon as it holds of the set without any of   *)
(* its elements, holds of every finite set.                                *)
LEMMA SubsetInduction ==
  ASSUME NEW S, IsFiniteSet(S), NEW P,
         \A T \in SUBSET S : (\A x \in T : T \ {x} \in P) => T \in P
  PROVE  \A T \in SUBSET S : T \in P
<1> DEFINE n == Cardinality(S)
           M == {m \in 0..n : \A T \in SUBSET S : Cardinality(T) <= m => T \in P}
<1>1. /\ n \in Nat
      /\ \A T \in SUBSET S : IsFiniteSet(T) /\ Cardinality(T) \in 0..n
  <2>1. n \in Nat
    BY FS_CardinalityType
  <2>2. ASSUME NEW T \in SUBSET S
        PROVE  IsFiniteSet(T) /\ Cardinality(T) \in 0..n
    BY <2>1, <2>2, FS_Subset, FS_CardinalityType
  <2> QED
    BY <2>1, <2>2
<1>2. ASSUME NEW T \in SUBSET S, NEW x \in T
      PROVE  Cardinality(T \ {x}) = Cardinality(T) - 1
  BY <1>1, <1>2, FS_RemoveElement
<1> HIDE DEF n
<1>3. 0 \in M
  <2>1. ASSUME NEW T \in SUBSET S, Cardinality(T) <= 0
        PROVE  T \in P
    <3>1. T = {}
      BY <1>1, <2>1, FS_EmptySet
    <3> QED
      BY <2>1, <3>1
  <2> QED
    BY <1>1, <2>1
<1>4. ASSUME NEW m \in 1..n, m - 1 \in M
      PROVE  m \in M
  <2>1. ASSUME NEW T \in SUBSET S, Cardinality(T) <= m
        PROVE  T \in P
    <3>1. ASSUME NEW x \in T
          PROVE  T \ {x} \in P
      <4>1. Cardinality(T \ {x}) <= m - 1 /\ T \ {x} \in SUBSET S
        BY <1>1, <1>2, <2>1, <3>1
      <4> QED
        BY <1>4, <4>1
    <3> QED
      BY <3>1
  <2> QED
    BY <2>1
<1> HIDE DEF M
<1>5. n \in M
  <2>1. \A i \in 0..n : i \in M
    BY <1>1, <1>3, <1>4, UpTo
  <2> QED
    BY <1>1, <2>1
<1> QED
  BY <1>1, <1>5 DEF M

(* The element MapThenSumSet takes first, and what it leaves.              *)
Chosen(s) == CHOOSE x \in s : TRUE
Rest(s)   == s \ {Chosen(s)}

LEMMA ChosenIn == ASSUME NEW s, s # {} PROVE Chosen(s) \in s
BY DEF Chosen

(* f is the recursive function by which MapThenSumSet adds up v over S.    *)
Adds(f, s, v) == f[s] = IF s = {} THEN 0 ELSE v[Chosen(s)] + f[Rest(s)]
AddsUp(f, S, v) == f = [s \in SUBSET S |-> IF s = {} THEN 0 ELSE v[Chosen(s)] + f[Rest(s)]]

LEMMA SumExists ==
  ASSUME NEW S, IsFiniteSet(S), NEW v \in [S -> Nat]
  PROVE  \E f : AddsUp(f, S, v)
<1> DEFINE n == Cardinality(S)
           M == {m \in 0..n : \E f \in [SUBSET S -> Nat] :
                    \A s \in SUBSET S : Cardinality(s) <= m => Adds(f, s, v)}
<1>1. n \in Nat
  BY FS_CardinalityType
<1>2. ASSUME NEW s \in SUBSET S
      PROVE  /\ IsFiniteSet(s) /\ Cardinality(s) \in 0..n
             /\ Cardinality(s) = 0 <=> s = {}
  BY <1>1, <1>2, FS_Subset, FS_CardinalityType, FS_EmptySet
<1>3. ASSUME NEW s \in SUBSET S, s # {}
      PROVE  /\ v[Chosen(s)] \in Nat
             /\ Rest(s) \in SUBSET S
             /\ Cardinality(Rest(s)) = Cardinality(s) - 1
  <2>1. Chosen(s) \in s
    BY <1>3, ChosenIn
  <2>2. Cardinality(s \ {Chosen(s)}) = Cardinality(s) - 1
    BY <1>2, <1>3, <2>1, FS_RemoveElement
  <2> QED
    BY <1>3, <2>1, <2>2 DEF Rest
<1> HIDE DEF n
<1>4. 0 \in M
  <2> DEFINE f == [s \in SUBSET S |-> 0]
  <2>1. f \in [SUBSET S -> Nat]
    OBVIOUS
  <2>2. ASSUME NEW s \in SUBSET S, Cardinality(s) <= 0
        PROVE  Adds(f, s, v)
    <3>1. s = {}
      BY <1>1, <1>2, <2>2
    <3> QED
      BY <2>2, <3>1 DEF Adds
  <2> HIDE DEF f
  <2> QED
    BY <1>1, <2>1, <2>2
<1>5. ASSUME NEW m \in 1..n, m - 1 \in M
      PROVE  m \in M
  <2>1. PICK f \in [SUBSET S -> Nat] :
          \A s \in SUBSET S : Cardinality(s) <= m - 1 => Adds(f, s, v)
    BY <1>5
  <2> DEFINE g == [s \in SUBSET S |-> IF Cardinality(s) = m THEN v[Chosen(s)] + f[Rest(s)]
                                                            ELSE f[s]]
  <2>2. ASSUME NEW s \in SUBSET S, Cardinality(s) = m
        PROVE  s # {} /\ g[s] = v[Chosen(s)] + f[Rest(s)]
    BY <1>2, <2>2
  <2>3. ASSUME NEW s \in SUBSET S, Cardinality(s) # m
        PROVE  g[s] = f[s]
    BY <2>3
  <2>4. g \in [SUBSET S -> Nat]
    <3>1. ASSUME NEW s \in SUBSET S
          PROVE  g[s] \in Nat
      <4>1. CASE Cardinality(s) = m
        <5>1. v[Chosen(s)] \in Nat /\ f[Rest(s)] \in Nat
          BY <1>3, <2>1, <2>2, <4>1
        <5> QED
          BY <2>2, <4>1, <5>1
      <4>2. CASE Cardinality(s) # m
        BY <2>1, <2>3, <4>2
      <4> QED
        BY <4>1, <4>2
    <3> QED
      BY <3>1
  <2> HIDE DEF g
  <2>5. ASSUME NEW s \in SUBSET S, Cardinality(s) <= m
        PROVE  Adds(g, s, v)
    <3>1. s # {} => g[Rest(s)] = f[Rest(s)]
      <4>1. SUFFICES ASSUME s # {} PROVE g[Rest(s)] = f[Rest(s)]
        OBVIOUS
      <4>2. Rest(s) \in SUBSET S /\ Cardinality(Rest(s)) # m
        BY <1>2, <1>3, <2>5, <4>1
      <4> QED
        BY <2>3, <4>2
    <3>2. CASE Cardinality(s) = m
      BY <2>2, <3>1, <3>2 DEF Adds
    <3>3. CASE Cardinality(s) # m
      <4>1. Cardinality(s) <= m - 1
        BY <1>2, <2>5, <3>3
      <4>2. Adds(f, s, v) /\ g[s] = f[s]
        BY <2>1, <2>3, <3>3, <4>1
      <4> QED
        BY <3>1, <4>2 DEF Adds
    <3> QED
      BY <3>2, <3>3
  <2> QED
    BY <2>4, <2>5
<1> HIDE DEF M
<1>6. n \in M
  <2>1. \A i \in 0..n : i \in M
    BY <1>1, <1>4, <1>5, UpTo
  <2> QED
    BY <1>1, <2>1
<1>7. PICK f \in [SUBSET S -> Nat] : \A s \in SUBSET S : Cardinality(s) <= n => Adds(f, s, v)
  BY <1>6 DEF M
<1>8. \A s \in SUBSET S : Adds(f, s, v)
  BY <1>1, <1>2, <1>7
<1> QED
  BY <1>8 DEF AddsUp, Adds

(* The sum does not depend on the order of the summands.                   *)
IsSum(f, S, v) ==
  /\ f[{}] = 0
  /\ \A s \in SUBSET S : f[s] \in Nat
  /\ \A s \in SUBSET S : \A x \in s : f[s] = v[x] + f[s \ {x}]

LEMMA AnyOrder ==
  ASSUME NEW S, IsFiniteSet(S), NEW v \in [S -> Nat], NEW f, AddsUp(f, S, v)
  PROVE  IsSum(f, S, v)
<1>1. f[{}] = 0
  BY DEF AddsUp
<1>2. ASSUME NEW s \in SUBSET S, s # {}
      PROVE  Chosen(s) \in s /\ f[s] = v[Chosen(s)] + f[s \ {Chosen(s)}]
  BY <1>2, ChosenIn DEF AddsUp, Rest
<1>3. \A s \in SUBSET S : f[s] \in Nat
  <2> DEFINE P == {s \in SUBSET S : f[s] \in Nat}
  <2>1. ASSUME NEW T \in SUBSET S, \A x \in T : T \ {x} \in P
        PROVE  T \in P
    <3>1. CASE T = {}
      BY <1>1, <3>1
    <3>2. CASE T # {}
      <4>1. v[Chosen(T)] \in Nat /\ f[T \ {Chosen(T)}] \in Nat
        BY <1>2, <2>1, <3>2
      <4>2. f[T] = v[Chosen(T)] + f[T \ {Chosen(T)}]
        BY <1>2, <3>2
      <4> QED
        BY <4>1, <4>2
    <3> QED
      BY <3>1, <3>2
  <2> HIDE DEF P
  <2>2. \A s \in SUBSET S : s \in P
    BY <2>1, SubsetInduction
  <2> QED
    BY <2>2 DEF P
<1>4. \A s \in SUBSET S : \A x \in s : f[s] = v[x] + f[s \ {x}]
  <2> DEFINE P == {s \in SUBSET S : \A x \in s : f[s] = v[x] + f[s \ {x}]}
  <2>1. ASSUME NEW T \in SUBSET S, \A x \in T : T \ {x} \in P, NEW x \in T
        PROVE  f[T] = v[x] + f[T \ {x}]
    <3> DEFINE c == Chosen(T)
    <3>1. c \in T /\ f[T] = v[c] + f[T \ {c}]
      BY <1>2, <2>1
    <3> HIDE DEF c
    <3>2. CASE x = c
      BY <3>1, <3>2
    <3>3. CASE x # c
      <4>1. f[T \ {c}] = v[x] + f[(T \ {c}) \ {x}]
        BY <2>1, <3>1, <3>3
      <4>2. f[T \ {x}] = v[c] + f[(T \ {x}) \ {c}]
        BY <2>1, <3>1, <3>3
      <4>3. (T \ {c}) \ {x} = (T \ {x}) \ {c}
        OBVIOUS
      <4>4. f[(T \ {x}) \ {c}] \in Nat /\ v[x] \in Nat /\ v[c] \in Nat
        BY <1>3, <2>1, <3>1
      <4> HIDE DEF P
      <4> QED
        BY <3>1, <4>1, <4>2, <4>3, <4>4
    <3> QED
      BY <3>2, <3>3
  <2>2. ASSUME NEW T \in SUBSET S, \A x \in T : T \ {x} \in P
        PROVE  T \in P
    BY <2>1, <2>2
  <2> HIDE DEF P
  <2>3. \A s \in SUBSET S : s \in P
    BY <2>2, SubsetInduction
  <2> QED
    BY <2>3 DEF P
<1> QED
  BY <1>1, <1>3, <1>4 DEF IsSum

(* MapThenSumSet adds up the values of one metric.                         *)
LEMMA TotalAdds ==
  ASSUME NEW side, NEW metric, NEW ids, IsFiniteSet(ids),
         NEW v \in [ids -> Nat], \A id \in ids : v[id] = side[id].metrics[metric]
  PROVE  \E f : AddsUp(f, ids, v) /\ Total(side, ids, metric) = f[ids]
<1> DEFINE Iter(f) == f = [s \in SUBSET ids |->
                             IF s = {} THEN 0
                             ELSE side[CHOOSE x \in s : TRUE].metrics[metric]
                                    + f[s \ {CHOOSE x \in s : TRUE}]]
           iter == CHOOSE f : Iter(f)
<1>1. Total(side, ids, metric) = iter[ids]
  BY DEF Total, MapThenSumSet, MapThenFoldSet
<1>2. ASSUME NEW s \in SUBSET ids, s # {}
      PROVE  v[Chosen(s)] = side[Chosen(s)].metrics[metric]
  BY <1>2, ChosenIn
<1>3. ASSUME NEW f PROVE Iter(f) <=> AddsUp(f, ids, v)
  <2>1. \A s \in SUBSET ids :
          (IF s = {} THEN 0 ELSE side[Chosen(s)].metrics[metric] + f[s \ {Chosen(s)}])
            = (IF s = {} THEN 0 ELSE v[Chosen(s)] + f[s \ {Chosen(s)}])
    BY <1>2
  <2> QED
    BY <2>1 DEF AddsUp, Chosen, Rest
<1>4. \E f : Iter(f)
  <2>1. PICK f : AddsUp(f, ids, v)
    BY SumExists
  <2> HIDE DEF Iter
  <2> QED
    BY <1>3, <2>1
<1>5. Iter(iter)
  <2> HIDE DEF Iter
  <2> QED
    BY <1>4
<1> HIDE DEF iter, Iter
<1> QED
  BY <1>1, <1>3, <1>5

(* More of each summand is no less in all.                                 *)
LEMMA LessInAll ==
  ASSUME NEW S, IsFiniteSet(S), NEW v \in [S -> Nat], NEW w \in [S -> Nat],
         \A x \in S : v[x] <= w[x],
         NEW f, AddsUp(f, S, v), NEW g, AddsUp(g, S, w)
  PROVE  f[S] <= g[S]
<1> DEFINE P == {s \in SUBSET S : f[s] <= g[s]}
<1>1. /\ f[{}] = 0
      /\ \A s \in SUBSET S : f[s] \in Nat
      /\ \A s \in SUBSET S : \A x \in s : f[s] = v[x] + f[s \ {x}]
  <2>1. IsSum(f, S, v)
    BY AnyOrder
  <2> QED
    BY <2>1 DEF IsSum
<1>2. /\ g[{}] = 0
      /\ \A s \in SUBSET S : g[s] \in Nat
      /\ \A s \in SUBSET S : \A x \in s : g[s] = w[x] + g[s \ {x}]
  <2>1. IsSum(g, S, w)
    BY AnyOrder
  <2> QED
    BY <2>1 DEF IsSum
<1>3. ASSUME NEW T \in SUBSET S, \A x \in T : T \ {x} \in P
      PROVE  T \in P
  <2>1. CASE T = {}
    BY <1>1, <1>2, <2>1
  <2>2. CASE T # {}
    <3>1. PICK x \in T : TRUE
      BY <2>2
    <3>2. /\ f[T \ {x}] <= g[T \ {x}] /\ v[x] <= w[x]
          /\ f[T \ {x}] \in Nat /\ g[T \ {x}] \in Nat
          /\ v[x] \in Nat /\ w[x] \in Nat
      BY <1>1, <1>2, <1>3
    <3>3. f[T] = v[x] + f[T \ {x}] /\ g[T] = w[x] + g[T \ {x}]
      BY <1>1, <1>2
    <3>4. f[T] <= g[T]
      BY ONLY <3>2, <3>3
    <3> QED
      BY <3>4
  <2> QED
    BY <2>1, <2>2
<1> HIDE DEF P
<1>4. S \in P
  BY <1>3, SubsetInduction
<1> QED
  BY <1>4 DEF P

(* The sum over what the elements of D stand for, one each.                *)
LEMMA Reindexed ==
  ASSUME NEW S, IsFiniteSet(S), NEW D, IsFiniteSet(D),
         NEW v \in [S -> Nat], NEW w \in [D -> Nat],
         NEW e \in [D -> S], \A x \in D : w[x] = v[e[x]],
         \A x, y \in D : e[x] = e[y] => x = y,
         NEW f, AddsUp(f, S, v), NEW g, AddsUp(g, D, w)
  PROVE  g[D] = f[{e[x] : x \in D}]
<1> DEFINE Of(s) == {e[x] : x \in s}
           P == {s \in SUBSET D : g[s] = f[Of(s)]}
<1>1. /\ f[{}] = 0
      /\ \A s \in SUBSET S : f[s] \in Nat
      /\ \A s \in SUBSET S : \A x \in s : f[s] = v[x] + f[s \ {x}]
  <2>1. IsSum(f, S, v)
    BY AnyOrder
  <2> QED
    BY <2>1 DEF IsSum
<1>2. /\ g[{}] = 0
      /\ \A s \in SUBSET D : g[s] \in Nat
      /\ \A s \in SUBSET D : \A x \in s : g[s] = w[x] + g[s \ {x}]
  <2>1. IsSum(g, D, w)
    BY AnyOrder
  <2> QED
    BY <2>1 DEF IsSum
<1>3. ASSUME NEW T \in SUBSET D, \A x \in T : T \ {x} \in P
      PROVE  T \in P
  <2>1. CASE T = {}
    <3>1. Of(T) = {}
      BY <2>1
    <3> QED
      BY <1>1, <1>2, <2>1, <3>1
  <2>2. CASE T # {}
    <3>1. PICK x \in T : TRUE
      BY <2>2
    <3>2. e[x] \in Of(T) /\ Of(T) \in SUBSET S
      OBVIOUS
    <3>3. Of(T) \ {e[x]} = Of(T \ {x})
      OBVIOUS
    <3>4. g[T \ {x}] = f[Of(T \ {x})]
      BY <1>3
    <3> HIDE DEF Of, P
    <3>5. f[Of(T)] = v[e[x]] + f[Of(T) \ {e[x]}]
      BY <1>1, <3>2
    <3>6. g[T] = w[x] + g[T \ {x}]
      BY <1>2
    <3>7. g[T] = f[Of(T)]
      BY <3>3, <3>4, <3>5, <3>6
    <3> QED
      BY <3>7 DEF P
  <2> QED
    BY <2>1, <2>2
<1> HIDE DEF P
<1>4. D \in P
  BY <1>3, SubsetInduction
<1> QED
  BY <1>4 DEF P

-----------------------------------------------------------------------------
(* Aggregates                                                               *)

(* A total is a number, and no more when no member uses more.              *)
Known(side, metric, ids) == \A id \in ids : side[id].metrics[metric] \in Nat

LEMMA TotalIsNumber ==
  ASSUME NEW side, NEW metric, NEW ids, IsFiniteSet(ids), Known(side, metric, ids)
  PROVE  Total(side, ids, metric) \in Nat
<1> DEFINE v == [id \in ids |-> side[id].metrics[metric]]
<1>1. v \in [ids -> Nat] /\ \A id \in ids : v[id] = side[id].metrics[metric]
  BY DEF Known
<1> HIDE DEF v
<1>2. PICK f : AddsUp(f, ids, v) /\ Total(side, ids, metric) = f[ids]
  BY <1>1, TotalAdds
<1>3. IsSum(f, ids, v)
  BY <1>1, <1>2, AnyOrder
<1> QED
  BY <1>2, <1>3 DEF IsSum

LEMMA TotalLess ==
  ASSUME NEW low, NEW high, NEW metric, NEW ids, IsFiniteSet(ids),
         Known(low, metric, ids), Known(high, metric, ids),
         \A id \in ids : low[id].metrics[metric] <= high[id].metrics[metric]
  PROVE  Total(low, ids, metric) <= Total(high, ids, metric)
<1> DEFINE v == [id \in ids |-> low[id].metrics[metric]]
           w == [id \in ids |-> high[id].metrics[metric]]
<1>1. v \in [ids -> Nat] /\ \A id \in ids : v[id] = low[id].metrics[metric]
  BY DEF Known
<1>2. w \in [ids -> Nat] /\ \A id \in ids : w[id] = high[id].metrics[metric]
  BY DEF Known
<1>3. \A id \in ids : v[id] <= w[id]
  OBVIOUS
<1> HIDE DEF v, w
<1>4. PICK f : AddsUp(f, ids, v) /\ Total(low, ids, metric) = f[ids]
  BY <1>1, TotalAdds
<1>5. PICK g : AddsUp(g, ids, w) /\ Total(high, ids, metric) = g[ids]
  BY <1>2, TotalAdds
<1>6. f[ids] <= g[ids]
  BY <1>1, <1>2, <1>3, <1>4, <1>5, LessInAll
<1> QED
  BY <1>4, <1>5, <1>6

(* The documented sum over the selectors is one over what each selects.    *)
Selected(side, member, metric) ==
  {side[id].metrics[metric] : id \in {id \in DOMAIN side : Matches(member, id)}}

LEMMA SumOfAdds ==
  ASSUME NEW side, NEW metric, NEW members, IsFiniteSet(DOMAIN members),
         NEW w \in [DOMAIN members -> Nat],
         \A i \in DOMAIN members :
            Selected(side, members[i], metric) = {w[i]}
  PROVE  \E g : AddsUp(g, DOMAIN members, w) /\ SumOf(members, side, metric) = g[DOMAIN members]
<1> DEFINE D == DOMAIN members
           of(i) == Selected(side, members[i], metric)
           the(i) == CHOOSE y \in of(i) : TRUE
           Iter(f) == f = [s \in SUBSET D |->
                             IF s = {} THEN 0
                             ELSE the(CHOOSE x \in s : TRUE) + f[s \ {CHOOSE x \in s : TRUE}]]
           iter == CHOOSE f : Iter(f)
<1>1. SumOf(members, side, metric) = iter[D]
  <2>1. ~\E i \in D : Null \in of(i)
    BY NumbersAssumption
  <2> QED
    BY <2>1 DEF SumOf, MapThenSumSet, MapThenFoldSet, Selected
<1>2. ASSUME NEW s \in SUBSET D, s # {}
      PROVE  w[Chosen(s)] = the(Chosen(s))
  <2>1. of(Chosen(s)) = {w[Chosen(s)]}
    BY <1>2, ChosenIn
  <2> HIDE DEF of
  <2> QED
    BY <2>1
<1> HIDE DEF of, the
<1>3. ASSUME NEW f PROVE Iter(f) <=> AddsUp(f, D, w)
  <2>1. \A s \in SUBSET D :
          (IF s = {} THEN 0 ELSE the(Chosen(s)) + f[s \ {Chosen(s)}])
            = (IF s = {} THEN 0 ELSE w[Chosen(s)] + f[s \ {Chosen(s)}])
    BY <1>2
  <2> QED
    BY <2>1 DEF AddsUp, Chosen, Rest
<1>4. \E f : Iter(f)
  <2>1. PICK f : AddsUp(f, D, w)
    BY SumExists
  <2> HIDE DEF Iter
  <2> QED
    BY <1>3, <2>1
<1>5. Iter(iter)
  <2> HIDE DEF Iter
  <2> QED
    BY <1>4
<1> HIDE DEF iter, Iter
<1> QED
  BY <1>1, <1>3, <1>5

(* What the members of an aggregate select: each one benchmark, none two.  *)
Selection(members, ids) ==
  {e \in [DOMAIN members -> MembersOf(members, ids)] :
     /\ \A i \in DOMAIN members : {id \in ids : Matches(members[i], id)} = {e[i]}
     /\ \A i, j \in DOMAIN members : e[i] = e[j] => i = j
     /\ {e[i] : i \in DOMAIN members} = MembersOf(members, ids)}

LEMMA Resolved ==
  ASSUME NEW members, IsFiniteSet(DOMAIN members), NEW h, NEW ids, IsFiniteSet(ids),
         Resolvable(members, h, ids)
  PROVE  Selection(members, ids) # {}
<1> DEFINE D == DOMAIN members
           of(i) == {id \in ids : Matches(members[i], id)}
           M == MembersOf(members, ids)
           e == [i \in D |-> CHOOSE id \in of(i) : TRUE]
<1>1. ASSUME NEW i \in D
      PROVE  of(i) = {e[i]} /\ e[i] \in M
  <2>1. IsFiniteSet(of(i))
    BY FS_Subset
  <2>2. Cardinality(of(i)) = 1
    BY <1>1 DEF Resolvable
  <2>3. PICK x : of(i) = {x}
    BY <2>1, <2>2, FS_Singleton
  <2>4. e[i] = x
    <3> HIDE DEF of
    <3> QED
      BY <1>1, <2>3
  <2>5. x \in ids /\ Matches(members[i], x)
    BY <2>3
  <2>6. x \in M
    BY <1>1, <2>5 DEF MembersOf
  <2> QED
    BY <2>3, <2>4, <2>6
<1>2. e \in [D -> M]
  BY <1>1
<1>3. ASSUME NEW id \in M PROVE \E i \in D : e[i] = id
  <2>1. PICK i \in D : id \in of(i)
    BY <1>3 DEF MembersOf
  <2> QED
    BY <1>1, <2>1
<1> HIDE DEF e, of
<1>4. e \in Surjection(D, M)
  BY <1>2, <1>3 DEF Surjection
<1>5. Cardinality(D) = Cardinality(M)
  BY DEF Resolvable
<1>6. e \in Injection(D, M)
  BY <1>4, <1>5, FS_SurjSameCardinalityImpliesInj
<1>7. \A i, j \in D : e[i] = e[j] => i = j
  BY <1>2, <1>6 DEF Injection, IsInjective
<1>8. {e[i] : i \in D} = M
  BY <1>2, <1>3
<1>9. e \in Selection(members, ids)
  BY <1>1, <1>2, <1>7, <1>8 DEF Selection, of
<1> QED
  BY <1>9

(* The documented sum is the total of the code, or unavailable.            *)
LEMMA SumAsTotal ==
  ASSUME NEW side, IsMeasurement(side), NEW ids \in SUBSET DOMAIN side,
         NEW members, IsFiniteSet(DOMAIN members),
         Selection(members, ids) # {}, NEW metric \in Metrics
  PROVE  LET all == [id \in ids |-> side[id]]
             picked == MembersOf(members, ids)
         IN /\ Known(side, metric, picked) =>
                 /\ SumOf(members, all, metric) = Total(side, picked, metric)
                 /\ Total(side, picked, metric) \in Nat
            /\ ~Known(side, metric, picked) =>
                 /\ SumOf(members, all, metric) = Null
                 /\ \E id \in picked : side[id].metrics[metric] = Null
<1> DEFINE all == [id \in ids |-> side[id]]
           picked == MembersOf(members, ids)
           D == DOMAIN members
<1>1. PICK e \in Selection(members, ids) : TRUE
  OBVIOUS
<1>2. /\ e \in [D -> picked]
      /\ \A i \in D : {id \in ids : Matches(members[i], id)} = {e[i]}
      /\ \A i, j \in D : e[i] = e[j] => i = j
      /\ {e[i] : i \in D} = picked
  BY <1>1 DEF Selection
<1>3. picked \subseteq ids /\ IsFiniteSet(picked)
  <2>1. picked \subseteq ids
    BY DEF MembersOf
  <2>2. IsFiniteSet(DOMAIN side)
    BY DEF IsMeasurement
  <2> QED
    BY <2>1, <2>2, FS_Subset
<1>4. \A id \in picked : side[id].metrics[metric] \in Value
  BY <1>3 DEF IsMeasurement
<1>5. ASSUME NEW i \in D
      PROVE  Selected(all, members[i], metric) = {side[e[i]].metrics[metric]}
  <2>1. {id \in DOMAIN all : Matches(members[i], id)} = {e[i]}
    BY <1>2, <1>5
  <2>2. e[i] \in ids
    BY <1>2, <1>3, <1>5
  <2> QED
    BY <2>1, <2>2 DEF Selected
<1> HIDE DEF picked
<1>6. CASE Known(side, metric, picked)
  <2> DEFINE v == [id \in picked |-> side[id].metrics[metric]]
             w == [i \in D |-> side[e[i]].metrics[metric]]
  <2>1. v \in [picked -> Nat] /\ \A id \in picked : v[id] = side[id].metrics[metric]
    BY <1>6 DEF Known
  <2>2. w \in [D -> Nat] /\ \A i \in D : w[i] = side[e[i]].metrics[metric] /\ w[i] = v[e[i]]
    BY <1>2, <1>6 DEF Known
  <2> HIDE DEF v, w, all
  <2>3. PICK f : AddsUp(f, picked, v) /\ Total(side, picked, metric) = f[picked]
    BY <1>3, <2>1, TotalAdds
  <2>4. \A i \in D : Selected(all, members[i], metric) = {w[i]}
    BY <1>5, <2>2
  <2>5. PICK g : AddsUp(g, D, w) /\ SumOf(members, all, metric) = g[D]
    BY <2>2, <2>4, SumOfAdds
  <2>6. g[D] = f[{e[x] : x \in D}]
    BY <1>2, <1>3, <2>1, <2>2, <2>3, <2>5, Reindexed
  <2>7. Total(side, picked, metric) \in Nat
    BY <1>3, <1>6, TotalIsNumber
  <2> QED
    BY <1>2, <1>6, <2>3, <2>5, <2>6, <2>7 DEF all, picked
<1>7. CASE ~Known(side, metric, picked)
  <2>1. PICK id \in picked : side[id].metrics[metric] = Null
    BY <1>4, <1>7 DEF Known, Value
  <2>2. PICK i \in D : id = e[i]
    BY <1>2, <2>1
  <2>3. Null \in Selected(all, members[i], metric)
    BY <1>5, <2>1, <2>2
  <2> HIDE DEF all
  <2>4. SumOf(members, all, metric) = Null
    BY <2>3 DEF SumOf, Selected
  <2> QED
    BY <1>7, <2>1, <2>4 DEF all, picked
<1> QED
  BY <1>6, <1>7

(* A limit or a rule on a sum is violated exactly when the documented sums *)
(* do not meet it.                                                         *)
LEMMA SumsJudged ==
  ASSUME NEW b, IsMeasurement(b), NEW h, IsMeasurement(h),
         NEW members, IsFiniteSet(DOMAIN members),
         Selection(members, Matched(b, h)) # {}, NEW metric \in Metrics
  PROVE  LET ids == Matched(b, h)
             d == AggregateDiff(b, h, MembersOf(members, ids), metric)
             x == SumOf(members, [id \in ids |-> b[id]], metric)
             y == SumOf(members, [id \in ids |-> h[id]], metric)
         IN /\ \A limit \in Nat : OverLimit(limit, d) <=> ~Within(limit, x, y)
            /\ \A rule \in Rule : Breaks(rule, d) <=> ~Fits(rule, x, y, TRUE)
<1> DEFINE ids == Matched(b, h)
           picked == MembersOf(members, ids)
           d == AggregateDiff(b, h, picked, metric)
           x == SumOf(members, [id \in ids |-> b[id]], metric)
           y == SumOf(members, [id \in ids |-> h[id]], metric)
<1>1. ids \in SUBSET DOMAIN b /\ ids \in SUBSET DOMAIN h
  BY DEF Matched
<1>2. /\ Known(b, metric, picked) => x = Total(b, picked, metric) /\ x \in Nat
      /\ ~Known(b, metric, picked) => /\ x = Null
                                      /\ \E id \in picked : b[id].metrics[metric] = Null
  BY <1>1, SumAsTotal
<1>3. /\ Known(h, metric, picked) => y = Total(h, picked, metric) /\ y \in Nat
      /\ ~Known(h, metric, picked) => /\ y = Null
                                      /\ \E id \in picked : h[id].metrics[metric] = Null
  BY <1>1, SumAsTotal
<1> HIDE DEF ids, picked, x, y
<1>4. CASE Known(b, metric, picked) /\ Known(h, metric, picked)
  <2>1. ~\E id \in picked : Null \in {b[id].metrics[metric], h[id].metrics[metric]}
    BY <1>4, NumbersAssumption DEF Known
  <2>2. d = MetricDiff(x, y) /\ x \in Value /\ y \in Value
    BY <1>2, <1>3, <1>4, <2>1 DEF AggregateDiff, Value
  <2> HIDE DEF d
  <2> QED
    BY <2>2, OverAsDocumented, BreaksAsDocumented DEF d, x, y, ids, picked
<1>5. CASE ~(Known(b, metric, picked) /\ Known(h, metric, picked))
  <2>1. \E id \in picked : Null \in {b[id].metrics[metric], h[id].metrics[metric]}
    BY <1>2, <1>3, <1>5
  <2>2. d = MetricDiff(Null, Null) /\ Null \in Value
    BY <2>1 DEF AggregateDiff, Value
  <2>3. Null \in {x, y}
    BY <1>2, <1>3, <1>5
  <2> HIDE DEF d
  <2>4. ~d.available
    BY <2>2 DEF MetricDiff
  <2>5. ASSUME NEW limit \in Nat PROVE OverLimit(limit, d) <=> ~Within(limit, x, y)
    BY <2>3, <2>4 DEF OverLimit, Within
  <2>6. ASSUME NEW rule \in Rule PROVE Breaks(rule, d) <=> ~Fits(rule, x, y, TRUE)
    BY <2>3, <2>4 DEF Breaks, Fits
  <2> QED
    BY <2>5, <2>6 DEF d, x, y, ids, picked
<1> QED
  BY <1>4, <1>5

(* What is asked of the sum of a metric: the table on top replaces the one *)
(* of the aggregate.                                                       *)
Asked(top, name, under, metric) ==
  IF Sets(Layer(top, name), metric) THEN {top[name][metric]}
  ELSE {under[m] : m \in {m \in DOMAIN under : m = metric}}

LEMMA AskedOfSums ==
  ASSUME NEW top, NEW name, NEW under, NEW metric
  PROVE  Asked(top, name, under, metric)
           = {Over(Layer(top, name), under)[m] :
                m \in {metric} \cap DOMAIN Over(Layer(top, name), under)}
<1> DEFINE l == Layer(top, name)
<1>1. Sets(l, metric) => l = top[name]
  BY DEF Layer, Sets
<1>2. Asked(top, name, under, metric)
        = IF Sets(l, metric) THEN {l[metric]}
          ELSE {under[m] : m \in {m \in DOMAIN under : m = metric}}
  BY <1>1 DEF Asked
<1> HIDE DEF l
<1>3. CASE metric \in DOMAIN l
  <2>1. /\ metric \in DOMAIN Over(l, under)
        /\ Over(l, under)[metric] = l[metric]
    BY <1>3 DEF Over, Sets
  <2> QED
    BY <1>2, <1>3, <2>1 DEF Sets, l
<1>4. CASE metric \notin DOMAIN l /\ metric \in DOMAIN under
  <2>1. /\ metric \in DOMAIN Over(l, under)
        /\ Over(l, under)[metric] = under[metric]
    BY <1>4 DEF Over, Sets
  <2> QED
    BY <1>2, <1>4, <2>1 DEF Sets, l
<1>5. CASE metric \notin DOMAIN l /\ metric \notin DOMAIN under
  <2>1. metric \notin DOMAIN Over(l, under)
    BY <1>5 DEF Over
  <2> QED
    BY <1>2, <1>5, <2>1 DEF Sets, l
<1> QED
  BY <1>3, <1>4, <1>5

(* An aggregate is reported violated exactly when the documented sums do   *)
(* not meet what is asked of them.                                         *)
LEMMA AggregateVerdict ==
  ASSUME NEW p, IsPolicy(p), NEW b, IsMeasurement(b), NEW h, IsMeasurement(h),
         NEW name \in DOMAIN p.aggregates,
         Resolvable(p.aggregates[name].members, h, Matched(b, h))
  PROVE  AggregateViolated(p, name, b, h) <=> ~AggregateAccepted(p, name, b, h, TRUE)
<1> DEFINE agg == p.aggregates[name]
           ids == Matched(b, h)
           d(metric) == AggregateDiff(b, h, MembersOf(agg.members, ids), metric)
           x(metric) == SumOf(agg.members, [id \in ids |-> b[id]], metric)
           y(metric) == SumOf(agg.members, [id \in ids |-> h[id]], metric)
           limits == Over(Layer(p.aggregateLimits, name), agg.limits)
           rules == Over(Layer(p.aggregateThresholds, name), agg.thresholds)
<1>1. IsFiniteSet(DOMAIN agg.members) /\ Selection(agg.members, ids) # {}
  <2>1. IsFiniteSet(DOMAIN agg.members)
    BY DEF IsPolicy
  <2>2. IsFiniteSet(ids)
    <3>1. IsFiniteSet(DOMAIN b) /\ ids \subseteq DOMAIN b
      BY DEF IsMeasurement, Matched
    <3> QED
      BY <3>1, FS_Subset
  <2> QED
    BY <2>1, <2>2, Resolved
<1>2. ASSUME NEW metric \in Metrics
      PROVE  /\ \A limit \in Nat : OverLimit(limit, d(metric)) <=> ~Within(limit, x(metric), y(metric))
             /\ \A rule \in Rule : Breaks(rule, d(metric)) <=> ~Fits(rule, x(metric), y(metric), TRUE)
  BY <1>1, <1>2, SumsJudged
<1>3. IsLimits(limits) /\ IsRules(rules)
  <2>1. IsLimits(agg.limits) /\ IsRules(agg.thresholds)
    BY DEF IsPolicy
  <2>2. IsLimits(Layer(p.aggregateLimits, name))
    BY DEF IsPolicy, Layer, Sets, IsLimits
  <2>3. IsRules(Layer(p.aggregateThresholds, name))
    BY DEF IsPolicy, Layer, Sets, IsRules
  <2> QED
    BY <2>1, <2>2, <2>3 DEF IsLimits, IsRules, Over, Sets
<1>4. AggregateViolated(p, name, b, h)
        <=> \/ \E metric \in DOMAIN limits : OverLimit(limits[metric], d(metric))
            \/ \E metric \in DOMAIN rules : Breaks(rules[metric], d(metric))
  BY DEF AggregateViolated
<1>5. AggregateAccepted(p, name, b, h, TRUE)
        <=> \A metric \in Metrics :
              /\ \A rule \in Asked(p.aggregateThresholds, name, agg.thresholds, metric) :
                   rule.kind # "ignore" => Fits(rule, x(metric), y(metric), TRUE)
              /\ \A limit \in Asked(p.aggregateLimits, name, agg.limits, metric) :
                   Within(limit, x(metric), y(metric))
  BY DEF AggregateAccepted, Asked
<1>6. ASSUME NEW metric
      PROVE  /\ Asked(p.aggregateThresholds, name, agg.thresholds, metric)
                  = {rules[m] : m \in {metric} \cap DOMAIN rules}
             /\ Asked(p.aggregateLimits, name, agg.limits, metric)
                  = {limits[m] : m \in {metric} \cap DOMAIN limits}
  BY AskedOfSums
<1> HIDE DEF agg, ids, d, x, y, limits, rules
<1>7. ASSUME NEW metric \in Metrics
      PROVE  /\ (\A limit \in Asked(p.aggregateLimits, name, agg.limits, metric) :
                    Within(limit, x(metric), y(metric)))
                  <=> (metric \in DOMAIN limits => ~OverLimit(limits[metric], d(metric)))
             /\ (\A rule \in Asked(p.aggregateThresholds, name, agg.thresholds, metric) :
                    rule.kind # "ignore" => Fits(rule, x(metric), y(metric), TRUE))
                  <=> (metric \in DOMAIN rules => ~Breaks(rules[metric], d(metric)))
  <2>1. (\A limit \in Asked(p.aggregateLimits, name, agg.limits, metric) :
            Within(limit, x(metric), y(metric)))
          <=> (metric \in DOMAIN limits => ~OverLimit(limits[metric], d(metric)))
    <3>1. CASE metric \in DOMAIN limits
      <4>1. /\ Asked(p.aggregateLimits, name, agg.limits, metric) = {limits[metric]}
            /\ limits[metric] \in Nat
        BY <1>3, <1>6, <3>1 DEF IsLimits
      <4> QED
        BY <1>2, <1>7, <3>1, <4>1
    <3>2. CASE metric \notin DOMAIN limits
      <4>1. Asked(p.aggregateLimits, name, agg.limits, metric) = {}
        BY <1>6, <3>2
      <4> QED
        BY <3>2, <4>1
    <3> QED
      BY <3>1, <3>2
  <2>2. (\A rule \in Asked(p.aggregateThresholds, name, agg.thresholds, metric) :
            rule.kind # "ignore" => Fits(rule, x(metric), y(metric), TRUE))
          <=> (metric \in DOMAIN rules => ~Breaks(rules[metric], d(metric)))
    <3>1. CASE metric \in DOMAIN rules
      <4>1. /\ Asked(p.aggregateThresholds, name, agg.thresholds, metric) = {rules[metric]}
            /\ rules[metric] \in Rule
        BY <1>3, <1>6, <3>1 DEF IsRules
      <4>2. rules[metric].kind = "ignore" => Fits(rules[metric], x(metric), y(metric), TRUE)
        BY DEF Fits
      <4> QED
        BY <1>2, <1>7, <3>1, <4>1, <4>2
    <3>2. CASE metric \notin DOMAIN rules
      <4>1. Asked(p.aggregateThresholds, name, agg.thresholds, metric) = {}
        BY <1>6, <3>2
      <4> QED
        BY <3>2, <4>1
    <3> QED
      BY <3>1, <3>2
  <2> QED
    BY <2>1, <2>2
<1>8. DOMAIN limits \subseteq Metrics /\ DOMAIN rules \subseteq Metrics
  BY <1>3 DEF IsLimits, IsRules
<1> QED
  BY <1>4, <1>5, <1>7, <1>8

(* An aggregate that was not violated is not when HEAD uses no more, value *)
(* by value, or any amount in place of what was unavailable.               *)
UsesLess(low, h, ids) ==
  \A id \in ids, metric \in Metrics :
     \/ low[id].metrics[metric] = h[id].metrics[metric]
     \/ /\ low[id].metrics[metric] \in Nat
        /\ NoWorse(low[id].metrics[metric], h[id].metrics[metric])

LEMMA LessOfSums ==
  ASSUME NEW b, IsMeasurement(b), NEW h, IsMeasurement(h), NEW low,
         NEW ids, IsFiniteSet(ids), ids \subseteq Matched(b, h), UsesLess(low, h, ids),
         NEW metric \in Metrics
  PROVE  LET d == AggregateDiff(b, h, ids, metric)
             l == AggregateDiff(b, low, ids, metric)
         IN /\ \A limit \in Nat : OverLimit(limit, l) => OverLimit(limit, d)
            /\ \A rule \in Rule : Breaks(rule, l) => Breaks(rule, d)
<1> DEFINE d == AggregateDiff(b, h, ids, metric)
           l == AggregateDiff(b, low, ids, metric)
<1>1. \A id \in ids : b[id].metrics[metric] \in Value /\ h[id].metrics[metric] \in Value
  BY DEF IsMeasurement, Matched
<1>2. CASE \E id \in ids : Null \in {b[id].metrics[metric], h[id].metrics[metric]}
  <2>1. d = MetricDiff(Null, Null)
    BY <1>2 DEF AggregateDiff
  <2>2. ~d.available
    BY <2>1 DEF MetricDiff
  <2> HIDE DEF d, l
  <2>3. \A limit \in Nat : OverLimit(limit, d)
    BY <2>2 DEF OverLimit
  <2>4. \A rule \in Rule : Breaks(rule, l) => Breaks(rule, d)
    BY <2>2 DEF Breaks
  <2> QED
    BY <2>3, <2>4 DEF d, l
<1>3. CASE ~\E id \in ids : Null \in {b[id].metrics[metric], h[id].metrics[metric]}
  <2>1. ASSUME NEW id \in ids
        PROVE  /\ b[id].metrics[metric] \in Nat
               /\ h[id].metrics[metric] \in Nat
               /\ low[id].metrics[metric] \in Nat
               /\ low[id].metrics[metric] <= h[id].metrics[metric]
    <3>1. b[id].metrics[metric] \in Nat /\ h[id].metrics[metric] \in Nat
      BY <1>1, <1>3, <2>1 DEF Value
    <3>2. CASE low[id].metrics[metric] = h[id].metrics[metric]
      BY <3>1, <3>2
    <3>3. CASE /\ low[id].metrics[metric] \in Nat
               /\ NoWorse(low[id].metrics[metric], h[id].metrics[metric])
      BY <3>1, <3>3, NumbersAssumption DEF NoWorse
    <3> QED
      BY <2>1, <3>1, <3>2, <3>3 DEF UsesLess
  <2>2. Known(b, metric, ids) /\ Known(h, metric, ids) /\ Known(low, metric, ids)
    BY <2>1 DEF Known
  <2> DEFINE x == Total(b, ids, metric)
             y == Total(h, ids, metric)
             z == Total(low, ids, metric)
  <2>3. x \in Nat /\ y \in Nat /\ z \in Nat
    BY <2>2, TotalIsNumber
  <2>4. z <= y
    BY <2>1, <2>2, TotalLess
  <2>5. /\ d = MetricDiff(x, y)
        /\ l = MetricDiff(x, z)
    <3>1. ~\E id \in ids : Null \in {b[id].metrics[metric], low[id].metrics[metric]}
      BY <2>1, NumbersAssumption
    <3> QED
      BY <1>3, <3>1 DEF AggregateDiff
  <2>6. {x, y, z} \subseteq Value /\ NoWorse(z, y)
    BY <2>3, <2>4 DEF Value, NoWorse
  <2> HIDE DEF x, y, z, d, l
  <2>7. ASSUME NEW limit \in Nat, OverLimit(limit, l) PROVE OverLimit(limit, d)
    BY <2>3, <2>5, <2>6, <2>7, OverAsDocumented, WithinLess
  <2>8. ASSUME NEW rule \in Rule, Breaks(rule, l) PROVE Breaks(rule, d)
    BY <2>3, <2>5, <2>6, <2>8, BreaksAsDocumented, FitsLess
  <2> QED
    BY <2>7, <2>8 DEF d, l
<1> QED
  BY <1>2, <1>3

LEMMA LessAggregated ==
  ASSUME NEW p, IsPolicy(p), NEW b, IsMeasurement(b), NEW h, IsMeasurement(h),
         NEW low, DOMAIN low = DOMAIN h, UsesLess(low, h, Matched(b, h)),
         NEW name \in DOMAIN p.aggregates, AggregateViolated(p, name, b, low)
  PROVE  AggregateViolated(p, name, b, h)
<1> DEFINE agg == p.aggregates[name]
           ids == MembersOf(agg.members, Matched(b, h))
           limits == Over(Layer(p.aggregateLimits, name), agg.limits)
           rules == Over(Layer(p.aggregateThresholds, name), agg.thresholds)
<1>1. Matched(b, low) = Matched(b, h)
  BY DEF Matched
<1>2. ids \subseteq Matched(b, h) /\ IsFiniteSet(ids) /\ UsesLess(low, h, ids)
  <2>1. ids \subseteq Matched(b, h)
    BY DEF MembersOf
  <2>2. IsFiniteSet(DOMAIN h) /\ ids \subseteq DOMAIN h
    BY <2>1 DEF Matched, IsMeasurement
  <2> QED
    BY <2>1, <2>2, FS_Subset DEF UsesLess
<1>3. IsLimits(limits) /\ IsRules(rules)
  <2>1. IsLimits(agg.limits) /\ IsRules(agg.thresholds)
    BY DEF IsPolicy
  <2>2. IsLimits(Layer(p.aggregateLimits, name))
    BY DEF IsPolicy, Layer, Sets, IsLimits
  <2>3. IsRules(Layer(p.aggregateThresholds, name))
    BY DEF IsPolicy, Layer, Sets, IsRules
  <2> QED
    BY <2>1, <2>2, <2>3 DEF IsLimits, IsRules, Over, Sets
<1>4. \/ \E metric \in DOMAIN limits : OverLimit(limits[metric], AggregateDiff(b, low, ids, metric))
      \/ \E metric \in DOMAIN rules : Breaks(rules[metric], AggregateDiff(b, low, ids, metric))
  BY <1>1 DEF AggregateViolated
<1>5. \/ \E metric \in DOMAIN limits : OverLimit(limits[metric], AggregateDiff(b, h, ids, metric))
      \/ \E metric \in DOMAIN rules : Breaks(rules[metric], AggregateDiff(b, h, ids, metric))
  <2> HIDE DEF ids, limits, rules
  <2> QED
    BY <1>2, <1>3, <1>4, LessOfSums DEF IsLimits, IsRules
<1> QED
  BY <1>5 DEF AggregateViolated

-----------------------------------------------------------------------------
Judged == violations = Judgement(policy, base, head)

(* The inductive invariant: the inputs keep their types, and violations    *)
(* are what enforceThresholds returns for them, when it does not throw.    *)
IInv == /\ IsPolicy(policy) /\ IsMeasurement(base) /\ IsMeasurement(head)
        /\ pc \in {"pass", "fail"} => /\ Evaluable(policy, base, head)
                                      /\ Judged
                                      /\ pc = "pass" <=> violations = Clean
        /\ report \in {Null, EffectivePolicy(policy)}

THEOREM Invariance == Spec => []IInv
<1>1. Init => IInv
  BY ScenariosAssumption DEF Init, IInv
<1>2. IInv /\ [Next]_vars => IInv'
  <2> SUFFICES ASSUME IInv, [Next]_vars PROVE IInv'
    OBVIOUS
  <2> USE DEF IInv
  <2>1. CASE Compare
    BY <2>1 DEF Compare
  <2>2. CASE NotComparable
    BY <2>2 DEF NotComparable
  <2>3. CASE Enforce
    BY <2>3 DEF Enforce, Judged
  <2>4. CASE NotEvaluable
    BY <2>4 DEF NotEvaluable
  <2>5. CASE Report
    BY <2>5 DEF Report, Judged
  <2>6. CASE UNCHANGED vars
    BY <2>6 DEF vars, Judged
  <2> QED
    BY <2>1, <2>2, <2>3, <2>4, <2>5, <2>6 DEF Next
<1> QED
  BY <1>1, <1>2, PTL DEF Spec

(* A report that says report-only stands over a policy without rules for   *)
(* functions, under which no function is in violation.                     *)
LEMMA NothingAsked ==
  ASSUME NEW p, IsPolicy(p), EffectivePolicy(p) \in {"absent", "empty"}, NEW d
  PROVE  FunctionViolations(p, d) = {}
<1>1. /\ ~p.fail_on_any_regression
      /\ DOMAIN p.caps = {} /\ DOMAIN p.functions = {}
      /\ DOMAIN p.globalLimits = {} /\ DOMAIN p.functionLimits = {}
  <2>1. CASE ~p.present
    BY <2>1 DEF IsPolicy
  <2>2. CASE p.present
    BY <2>2 DEF EffectivePolicy
  <2> QED
    BY <2>1, <2>2
<1>2. ASSUME NEW fn, NEW metric
      PROVE  LimitsOn(p, fn, metric) = {}
  BY <1>1 DEF LimitsOn, Sets
<1>3. ASSUME NEW fn, NEW metric, NEW diff
      PROVE  ~GrowthViolated(p, fn, metric, diff)
  BY <1>1 DEF GrowthViolated, Overrides, Sets
<1> QED
  BY <1>2, <1>3 DEF FunctionViolations

(* The verdict of a comparison, on functions and on sums, is the           *)
(* documented one up to the rounding of a double, and is only given over   *)
(* what was measured.                                                      *)
THEOREM VerdictAsDocumentedAlways == Spec => []VerdictAsDocumented
<1>1. ASSUME IInv, pc \in {"pass", "fail"} PROVE (pc = "pass") = Accepted(policy, base, head, TRUE)
  <2>1. /\ IsPolicy(policy) /\ IsMeasurement(base) /\ IsMeasurement(head)
        /\ Evaluable(policy, base, head)
        /\ violations = Judgement(policy, base, head)
        /\ pc = "pass" <=> violations = Clean
    BY <1>1 DEF IInv, Judged
  <2>2. violations.functions = {}
          <=> \A id \in Matched(base, head) : FunctionAccepted(policy, id, base, head, TRUE)
    BY <2>1, FunctionVerdict DEF Judgement
  <2>3. ASSUME NEW name \in AggregateNames(policy)
        PROVE  AggregateViolated(policy, name, base, head)
                 <=> ~AggregateAccepted(policy, name, base, head, TRUE)
    <3>1. /\ name \in DOMAIN policy.aggregates
          /\ Resolvable(policy.aggregates[name].members, head, Matched(base, head))
      BY <2>1, <2>3 DEF Evaluable, Sets
    <3> QED
      BY <2>1, <3>1, AggregateVerdict
  <2>4. violations.aggregates = {}
          <=> \A name \in AggregateNames(policy) :
                AggregateAccepted(policy, name, base, head, TRUE)
    BY <2>1, <2>3 DEF Judgement
  <2>5. violations = Clean <=> violations.functions = {} /\ violations.aggregates = {}
    BY <2>1 DEF Judgement, Clean
  <2> QED
    BY <2>1, <2>2, <2>4, <2>5 DEF Accepted
<1>2. ASSUME IInv, pc \in {"pass", "fail"},
             NEW fn \in DOMAIN policy.functions \cup DOMAIN policy.functionLimits
      PROVE  \/ \E id \in Matched(base, head) : id.function_name = fn
             \/ /\ \A m \in DOMAIN Layer(policy.functions, fn) :
                     policy.functions[fn][m].kind = "ignore"
                /\ DOMAIN Layer(policy.functionLimits, fn) = {}
  <2>1. FunctionsMatched(policy, base, head)
    BY <1>2 DEF IInv, Evaluable
  <2>2. DOMAIN <<>> = {}
    OBVIOUS
  <2> QED
    BY <2>1, <2>2 DEF FunctionsMatched, Layer, Sets
<1>3. ASSUME IInv, pc \in {"pass", "fail"}, NEW name \in AggregateNames(policy)
      PROVE  LET members == policy.aggregates[name].members
             IN \E f \in [DOMAIN members -> Matched(base, head)] :
                  /\ \A i \in DOMAIN members : Matches(members[i], f[i])
                  /\ \A i, j \in DOMAIN members : f[i] = f[j] => i = j
  <2> DEFINE members == policy.aggregates[name].members
             ids == Matched(base, head)
  <2>1. Resolvable(members, head, ids) /\ name \in DOMAIN policy.aggregates
    BY <1>3 DEF IInv, Evaluable, Sets
  <2>2. IsFiniteSet(DOMAIN members)
    BY <1>3, <2>1 DEF IInv, IsPolicy
  <2>3. IsFiniteSet(ids)
    <3>1. IsFiniteSet(DOMAIN base) /\ ids \subseteq DOMAIN base
      BY <1>3 DEF IInv, IsMeasurement, Matched
    <3> QED
      BY <3>1, FS_Subset
  <2> HIDE DEF members, ids
  <2>4. PICK e \in Selection(members, ids) : TRUE
    BY <2>1, <2>2, <2>3, Resolved
  <2>5. /\ e \in [DOMAIN members -> MembersOf(members, ids)]
        /\ \A i \in DOMAIN members : {id \in ids : Matches(members[i], id)} = {e[i]}
        /\ \A i, j \in DOMAIN members : e[i] = e[j] => i = j
    BY <2>4 DEF Selection
  <2>6. e \in [DOMAIN members -> ids] /\ \A i \in DOMAIN members : Matches(members[i], e[i])
    BY <2>5 DEF MembersOf
  <2> QED
    BY <2>5, <2>6 DEF members, ids
<1>4. ASSUME IInv, pc \in {"pass", "fail"}, report \in {"absent", "empty"}
      PROVE  violations.functions = {}
  <2>1. EffectivePolicy(policy) \in {"absent", "empty"} /\ IsPolicy(policy)
    BY <1>4, NumbersAssumption DEF IInv
  <2>2. violations.functions = FunctionViolations(policy, DiffBenchmarks(base, head))
    BY <1>4 DEF IInv, Judged, Judgement
  <2> QED
    BY <2>1, <2>2, NothingAsked
<1>5. IInv => VerdictAsDocumented
  BY <1>1, <1>2, <1>3, <1>4 DEF VerdictAsDocumented
<1> QED
  BY <1>5, Invariance, PTL

(* A comparison that passes still passes when HEAD uses less of a metric,  *)
(* or any amount in place of an unavailable one.                           *)
THEOREM WorseNeverPassesAlways == Spec => []WorseNeverPasses
<1>1. ASSUME IInv, pc = "pass",
             NEW id \in DOMAIN head, NEW metric \in Metrics, NEW v \in Numbers,
             NoWorse(v, head[id].metrics[metric])
      PROVE  Judgement(policy, base, Lowered(id, metric, v)) = Clean
  <2> DEFINE low == Lowered(id, metric, v)
  <2>1. /\ IsPolicy(policy) /\ IsMeasurement(base) /\ IsMeasurement(head)
        /\ Evaluable(policy, base, head)
        /\ Judgement(policy, base, head) = Clean
        /\ v \in Nat
    BY <1>1, NumbersAssumption DEF IInv, Judged
  <2>2. /\ DOMAIN low = DOMAIN head
        /\ \A k \in DOMAIN head, m \in Metrics :
             low[k].metrics[m] = IF k = id /\ m = metric THEN v ELSE head[k].metrics[m]
        /\ IsMeasurement(low)
    BY <1>1, <2>1 DEF Lowered, IsMeasurement, Value
  <2>3. \A k \in Matched(base, head) : FunctionAccepted(policy, k, base, head, TRUE)
    <3>1. FunctionViolations(policy, DiffBenchmarks(base, head)) = {}
      BY <2>1 DEF Judgement, Clean
    <3> QED
      BY <2>1, <3>1, FunctionVerdict
  <2> HIDE DEF low
  <2>4. ASSUME NEW k \in Matched(base, low)
        PROVE  FunctionAccepted(policy, k, base, low, TRUE)
    <3>1. k \in Matched(base, head) /\ k \in DOMAIN base /\ k \in DOMAIN head
      BY <2>2, <2>4 DEF Matched
    <3>2. ASSUME NEW m \in Metrics
          PROVE  /\ base[k].metrics[m] \in Value /\ head[k].metrics[m] \in Value
                 /\ \/ low[k].metrics[m] = head[k].metrics[m]
                    \/ low[k].metrics[m] = v /\ NoWorse(v, head[k].metrics[m])
      BY <1>1, <2>1, <2>2, <3>1, <3>2 DEF IsMeasurement
    <3>3. ASSUME NEW m \in Metrics, NEW rule \in RulesAsked(policy, k.function_name, m)
          PROVE  Fits(rule, base[k].metrics[m], low[k].metrics[m], TRUE)
      <4>1. rule \in Rule
        BY <2>1, <3>3, AskedAreRules
      <4>2. Fits(rule, base[k].metrics[m], head[k].metrics[m], TRUE)
        BY <2>3, <3>1, <3>3 DEF FunctionAccepted
      <4> QED
        BY <2>1, <3>2, <3>3, <4>1, <4>2, FitsLess
    <3>4. ASSUME NEW m \in Metrics, NEW limit \in LimitsAsked(policy, k.function_name, m)
          PROVE  Within(limit, base[k].metrics[m], low[k].metrics[m])
      <4>1. limit \in Nat
        BY <2>1, <3>4, LimitsOnAsked, LimitsAreNumbers
      <4>2. Within(limit, base[k].metrics[m], head[k].metrics[m])
        BY <2>3, <3>1, <3>4 DEF FunctionAccepted
      <4> QED
        BY <2>1, <3>2, <3>4, <4>1, <4>2, WithinLess
    <3> QED
      BY <3>3, <3>4 DEF FunctionAccepted
  <2>5. FunctionViolations(policy, DiffBenchmarks(base, low)) = {}
    BY <2>1, <2>2, <2>4, FunctionVerdict
  <2>6. UsesLess(low, head, Matched(base, head))
    BY <1>1, <2>1, <2>2 DEF UsesLess, Matched
  <2>7. ASSUME NEW name \in AggregateNames(policy)
        PROVE  ~AggregateViolated(policy, name, base, low)
    <3>1. name \in DOMAIN policy.aggregates
      BY <2>1, <2>7 DEF Evaluable, Sets
    <3>2. ~AggregateViolated(policy, name, base, head)
      BY <2>1, <2>7 DEF Judgement, Clean
    <3> QED
      BY <2>1, <2>2, <2>6, <3>1, <3>2, LessAggregated
  <2> QED
    BY <2>5, <2>7 DEF Judgement, Clean, low
<1>2. IInv => WorseNeverPasses
  BY <1>1 DEF WorseNeverPasses
<1> QED
  BY <1>2, Invariance, PTL
=============================================================================
