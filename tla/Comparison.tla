----------------------------- MODULE Comparison -----------------------------
(***************************************************************************)
(* The comparison of a BASE and a HEAD measurement and its judgement: the  *)
(* steps 6 to 8 of src/action.ts with diffBenchmarks of src/diff.ts and    *)
(* enforceThresholds and resolveEffectivePolicy of src/threshold.ts.       *)
(*                                                                         *)
(* A measurement is a function from benchmark identities to benchmarks, as *)
(* the validation of records guarantees; fixture and contract of an        *)
(* identity are one name, and so are the parts of a provenance.  Values    *)
(* and caps are naturals.  A percentage is kept as the pair of growth and  *)
(* base it is computed from; whether the double (growth / base) * 100      *)
(* exceeds a cap is decided exactly, except that a growth by just the cap  *)
(* exceeds it for the pairs in RoundsUp.  For growths below 2^45 rounding  *)
(* changes no other comparison.                                            *)
(***************************************************************************)
EXTENDS Integers, FiniteSets, FiniteSetsExt

CONSTANTS
  Metrics,    \* METRIC_KEYS
  Capped,     \* those with a field in GLOBAL_RULE_MAP
  Null,       \* a value that is unavailable; a field that is left out
  Limited,    \* environments with a resource_limits_sha256
  RoundsUp,   \* pairs <<d, b>> whose double (d / b) * 100 is too large
  Numbers,    \* values that are compared with a measured one
  Scenarios   \* records [policy, bases, heads]

Value == Nat \cup {Null}
Rule == [kind : {"ignore", "strict_zero_tolerance"}] \cup [kind : {"percent"}, cap : Nat]

IsLimits(f) == DOMAIN f \subseteq Metrics /\ \A m \in DOMAIN f : f[m] \in Nat
IsRules(f)  == DOMAIN f \subseteq Metrics /\ \A m \in DOMAIN f : f[m] \in Rule

(* WeighinConfig as validateConfig lets it through, null included: the     *)
(* tables that are left out are empty functions, and so are all of null.   *)
IsPolicy(p) ==
  /\ {p.present, p.fail_on_any_regression} \subseteq BOOLEAN
  /\ ~p.present =>
       /\ ~p.fail_on_any_regression
       /\ \A f \in {p.caps, p.functions, p.globalLimits, p.functionLimits,
                    p.aggregates, p.aggregateLimits, p.aggregateThresholds} : DOMAIN f = {}
  /\ DOMAIN p.caps \subseteq Capped /\ \A m \in DOMAIN p.caps : p.caps[m] \in Nat
  /\ IsLimits(p.globalLimits)
  /\ \A fn \in DOMAIN p.functions : IsRules(p.functions[fn])
  /\ \A fn \in DOMAIN p.functionLimits : IsLimits(p.functionLimits[fn])
  /\ \A name \in DOMAIN p.aggregates : /\ IsLimits(p.aggregates[name].limits)
                                       /\ IsRules(p.aggregates[name].thresholds)
                                       /\ IsFiniteSet(DOMAIN p.aggregates[name].members)
  /\ \A name \in DOMAIN p.aggregateLimits : IsLimits(p.aggregateLimits[name])
  /\ \A name \in DOMAIN p.aggregateThresholds : IsRules(p.aggregateThresholds[name])

IsMeasurement(b) == /\ IsFiniteSet(DOMAIN b)
                    /\ \A id \in DOMAIN b : b[id].metrics \in [Metrics -> Value]

ASSUME MetricsAssumption == Capped \subseteq Metrics
ASSUME NumbersAssumption == /\ Numbers \subseteq Nat
                            /\ Null \notin Nat
                            /\ Null \notin (Nat \X Nat)
                            /\ Null \notin {"absent", "empty"}
                            /\ RoundsUp \subseteq (Nat \X Nat)
ASSUME ScenariosAssumption ==
  \A s \in Scenarios : /\ IsPolicy(s.policy)
                       /\ \A b \in s.bases \cup s.heads : IsMeasurement(b)

VARIABLES
  pc, policy, base, head,
  violations,
  report       \* the status of the effective policy

vars == <<pc, policy, base, head, violations, report>>

(* Partial functions: the keys a policy sets.                              *)
Sets(f, k) == k \in DOMAIN f

-----------------------------------------------------------------------------
(* diff.ts                                                                  *)

(* diffMetrics, for one metric.  pct is Null for a base of zero.           *)
\* Bugs: growth from zero is no growth; what is unavailable has not grown.
BugZeroBase(b, h) ==
  IF b = Null \/ h = Null
    THEN [available |-> FALSE, head |-> h, regression |-> FALSE, pct |-> Null]
    ELSE [available |-> TRUE, head |-> h, regression |-> h > b /\ b # 0,
          pct |-> IF b = 0 THEN Null ELSE <<h - b, b>>]
BugUnavailableEqual(b, h) ==
  IF b = Null \/ h = Null
    THEN [available |-> TRUE, head |-> 0, regression |-> FALSE, pct |-> Null]
    ELSE [available |-> TRUE, head |-> h, regression |-> h > b,
          pct |-> IF b = 0 THEN Null ELSE <<h - b, b>>]
MetricDiff(b, h) ==
  IF b = Null \/ h = Null
    THEN [available |-> FALSE, head |-> h, regression |-> FALSE, pct |-> Null]
    ELSE [available |-> TRUE, head |-> h, regression |-> h > b,
          pct |-> IF b = 0 THEN Null ELSE <<h - b, b>>]

Matched(b, h) == DOMAIN b \cap DOMAIN h

(* diffFunctions, for the benchmarks that are on both sides.               *)
DiffBenchmarks(b, h) ==
  [id \in Matched(b, h) |-> [metric \in Metrics |->
     MetricDiff(b[id].metrics[metric], h[id].metrics[metric])]]

(* validateBenchmarkComparisonCompatibility does not throw.  Of a metric's *)
(* meaning only availability is compared: source, limit, limit_source and  *)
(* limit_reason, which have to agree as well, are not part of a metric     *)
(* here, so fewer comparisons are refused than in the code.                *)
Compatible(b, h) ==
  \A id \in Matched(b, h) :
    /\ b[id].environment = h[id].environment
    /\ b[id].environment \in Limited =>
         \A metric \in Metrics : (b[id].metrics[metric] = Null) = (h[id].metrics[metric] = Null)

(* matchesSelector: an omitted field matches everything.                   *)
Matches(selector, id) == /\ selector.function_name = id.function_name
                         /\ selector.logical_id \in {Null, id.logical_id}
                         /\ selector.case_id \in {Null, id.case_id}

MembersOf(members, ids) == {id \in ids : \E i \in DOMAIN members : Matches(members[i], id)}

(* computeAggregateDiffs throws unless every selector resolves to one      *)
(* benchmark, each to another, all measured in one environment.            *)
Resolvable(members, h, ids) ==
  /\ members # <<>>
  /\ \A i \in DOMAIN members : Cardinality({id \in ids : Matches(members[i], id)}) = 1
  /\ Cardinality(MembersOf(members, ids)) = Cardinality(DOMAIN members)
  /\ \A m, n \in MembersOf(members, ids) : h[m].environment = h[n].environment

Total(side, ids, metric) == MapThenSumSet(LAMBDA id : side[id].metrics[metric], ids)

(* The sums of one metric.                                                 *)
AggregateDiff(b, h, ids, metric) ==
  IF \E id \in ids : Null \in {b[id].metrics[metric], h[id].metrics[metric]}
    THEN MetricDiff(Null, Null)
    ELSE MetricDiff(Total(b, ids, metric), Total(h, ids, metric))

-----------------------------------------------------------------------------
(* threshold.ts                                                             *)

Percent(n) == [kind |-> "percent", cap |-> n]

Exactly(pct, cap) == 100 * pct[1] = cap * pct[2]

(* diff.pct === null || diff.pct > allowedPct, of a metric that has grown. *)
Exceeds(pct, cap) == \/ pct = Null
                     \/ 100 * pct[1] > cap * pct[2]
                     \/ Exactly(pct, cap) /\ pct \in RoundsUp

(* evaluateRule returns a violation.                                       *)
Breaks(rule, d) ==
  /\ rule.kind # "ignore"
  /\ \/ ~d.available
     \/ d.regression /\ (rule.kind = "percent" => Exceeds(d.pct, rule.cap))

OverLimit(limit, d) == ~d.available \/ d.head > limit

(* functionLimits ?? globalLimits.                                         *)
LimitsOn(p, fn, metric) ==
  IF Sets(p.functionLimits, fn) /\ Sets(p.functionLimits[fn], metric)
    THEN {p.functionLimits[fn][metric]}
    ELSE {p.globalLimits[k] : k \in {metric} \cap DOMAIN p.globalLimits}

Overrides(p, fn, metric) == Sets(p.functions, fn) /\ Sets(p.functions[fn], metric)

(* An override, or fail_on_any_regression, or a cap on CPU or memory.      *)
GrowthViolated(p, fn, metric, d) ==
  \/ Overrides(p, fn, metric) /\ Breaks(p.functions[fn][metric], d)
  \/ /\ ~Overrides(p, fn, metric)
     /\ p.fail_on_any_regression
     /\ d.regression \/ ~d.available
  \/ /\ ~Overrides(p, fn, metric)
     /\ Sets(p.caps, metric) /\ Breaks(Percent(p.caps[metric]), d)

FunctionViolations(p, d) ==
  {x \in (DOMAIN d) \X Metrics \X {"limit", "growth"} :
     LET fn == x[1].function_name
         m  == d[x[1]][x[2]]
     IN IF x[3] = "limit" THEN \E limit \in LimitsOn(p, fn, x[2]) : OverLimit(limit, m)
                          ELSE GrowthViolated(p, fn, x[2], m)}

(* { ...under, ...top }                                                    *)
Over(top, under) == [k \in DOMAIN top \cup DOMAIN under |-> IF Sets(top, k) THEN top[k] ELSE under[k]]

Layer(f, name) == IF Sets(f, name) THEN f[name] ELSE <<>>

AggregateNames(p) == DOMAIN p.aggregates \cup DOMAIN p.aggregateLimits \cup DOMAIN p.aggregateThresholds

AggregateViolated(p, name, b, h) ==
  LET agg == p.aggregates[name]
      ids == MembersOf(agg.members, Matched(b, h))
      limits == Over(Layer(p.aggregateLimits, name), agg.limits)
      rules == Over(Layer(p.aggregateThresholds, name), agg.thresholds)
  IN \/ \E metric \in DOMAIN limits : OverLimit(limits[metric], AggregateDiff(b, h, ids, metric))
     \/ \E metric \in DOMAIN rules : Breaks(rules[metric], AggregateDiff(b, h, ids, metric))

(* enforceThresholds, when it does not throw.                              *)
Judgement(p, b, h) ==
  [functions  |-> FunctionViolations(p, DiffBenchmarks(b, h)),
   aggregates |-> {n \in AggregateNames(p) : AggregateViolated(p, n, b, h)}]

Clean == [functions |-> {}, aggregates |-> {}]

(* enforceThresholds throws when a rule has nothing to apply to.           *)
FunctionsMatched(p, b, h) ==
  LET compared == {id.function_name : id \in Matched(b, h)}
  IN /\ \A fn \in DOMAIN p.functions \ compared :
          \A metric \in DOMAIN p.functions[fn] : p.functions[fn][metric].kind = "ignore"
     /\ \A fn \in DOMAIN p.functionLimits \ compared : DOMAIN p.functionLimits[fn] = {}

Evaluable(p, b, h) ==
  /\ \A name \in AggregateNames(p) :
       Sets(p.aggregates, name) /\ Resolvable(p.aggregates[name].members, h, Matched(b, h))
  /\ FunctionsMatched(p, b, h)

(* resolveEffectivePolicy: what the report says of the policy.             *)
EffectivePolicy(p) ==
  IF ~p.present THEN "absent"
  ELSE IF \/ p.fail_on_any_regression
          \/ \E f \in {p.caps, p.functions, p.globalLimits, p.functionLimits} : DOMAIN f # {}
         THEN "active" ELSE "empty"

-----------------------------------------------------------------------------
(* action.ts                                                                *)

Init == \E s \in Scenarios :
          /\ policy = s.policy /\ base \in s.bases /\ head \in s.heads
          /\ pc = "measured"
          /\ violations = Clean /\ report = Null

(* diffBenchmarks, and the requirement that something matched.             *)
Compare ==
  /\ pc = "measured"
  /\ Compatible(base, head) /\ Matched(base, head) # {}
  /\ pc' = "compared"
  /\ UNCHANGED <<policy, base, head, violations, report>>

NotComparable ==
  /\ pc = "measured"
  /\ ~Compatible(base, head) \/ Matched(base, head) = {}
  /\ pc' = "error"
  /\ UNCHANGED <<policy, base, head, violations, report>>

(* enforceThresholds.                                                      *)
Enforce ==
  /\ pc = "compared"
  /\ Evaluable(policy, base, head)
  /\ violations' = Judgement(policy, base, head)
  /\ pc' = IF violations' = Clean THEN "pass" ELSE "fail"
  /\ UNCHANGED <<policy, base, head, report>>

NotEvaluable ==
  /\ pc = "compared"
  /\ ~Evaluable(policy, base, head)
  /\ pc' = "error"
  /\ UNCHANGED <<policy, base, head, violations, report>>

(* resolveEffectivePolicy and renderComment.                               *)
Report ==
  /\ pc \in {"pass", "fail"} /\ report = Null
  /\ report' = EffectivePolicy(policy)
  /\ UNCHANGED <<pc, policy, base, head, violations>>

Next == Compare \/ NotComparable \/ Enforce \/ NotEvaluable \/ Report

Spec == Init /\ [][Next]_vars

-----------------------------------------------------------------------------
(* The rules as README.md states them: a rule accepts a change if HEAD is  *)
(* no larger, or within the percentage of a positive BASE.  rounded: not   *)
(* if the growth is just the percentage and the double says otherwise.     *)
Fits(rule, b, h, rounded) ==
  rule.kind = "ignore" \/ /\ Null \notin {b, h}
                          /\ \/ h <= b
                             \/ /\ rule.kind = "percent"
                                /\ 100 * h <= (100 + rule.cap) * b
                                /\ ~(rounded /\ 100 * h = (100 + rule.cap) * b
                                             /\ <<h - b, b>> \in RoundsUp)

Within(limit, b, h) == Null \notin {b, h} /\ h <= limit

(* What is asked of a function: its own rule or limit replaces the global. *)
RulesAsked(p, fn, metric) ==
  IF Overrides(p, fn, metric) THEN {p.functions[fn][metric]}
  ELSE {r \in [kind : {"strict_zero_tolerance"}] : p.fail_on_any_regression}
         \cup {Percent(p.caps[m]) : m \in {m \in DOMAIN p.caps : m = metric}}

LimitsAsked(p, fn, metric) ==
  LET own == {m \in DOMAIN Layer(p.functionLimits, fn) : m = metric}
  IN IF own # {} THEN {p.functionLimits[fn][m] : m \in own}
     ELSE {p.globalLimits[m] : m \in {m \in DOMAIN p.globalLimits : m = metric}}

FunctionAccepted(p, id, b, h, rounded) ==
  \A metric \in Metrics :
    LET x == b[id].metrics[metric]
        y == h[id].metrics[metric]
    IN /\ \A rule \in RulesAsked(p, id.function_name, metric) : Fits(rule, x, y, rounded)
       /\ \A limit \in LimitsAsked(p, id.function_name, metric) : Within(limit, x, y)

(* Sum over the selectors of what each selects, or Null.                   *)
SumOf(members, side, metric) ==
  LET of(i) == {side[id].metrics[metric] : id \in {id \in DOMAIN side : Matches(members[i], id)}}
  IN IF \E i \in DOMAIN members : Null \in of(i) THEN Null
     ELSE MapThenSumSet(LAMBDA i : CHOOSE v \in of(i) : TRUE, DOMAIN members)

AggregateAccepted(p, name, b, h, rounded) ==
  LET both(side) == [id \in Matched(b, h) |-> side[id]]
      agg == p.aggregates[name]
      x(metric) == SumOf(agg.members, both(b), metric)
      y(metric) == SumOf(agg.members, both(h), metric)
      asked(metric, top, under) ==
        IF Sets(Layer(top, name), metric) THEN {top[name][metric]}
        ELSE {under[m] : m \in {m \in DOMAIN under : m = metric}}
  IN \A metric \in Metrics :
       /\ \A rule \in asked(metric, p.aggregateThresholds, agg.thresholds) :
            rule.kind # "ignore" => Fits(rule, x(metric), y(metric), rounded)
       /\ \A limit \in asked(metric, p.aggregateLimits, agg.limits) :
            Within(limit, x(metric), y(metric))

Accepted(p, b, h, rounded) ==
  /\ \A id \in Matched(b, h) : FunctionAccepted(p, id, b, h, rounded)
  /\ \A name \in AggregateNames(p) : AggregateAccepted(p, name, b, h, rounded)

-----------------------------------------------------------------------------
(* The verdict is the documented one, up to the rounding of a growth by    *)
(* just the allowed percentage; one is only given when every function and  *)
(* every member that a rule names has been measured on both sides; and a   *)
(* report that says report-only stands over no violated rule of functions  *)
(* (those of aggregates it does not see).                                  *)
VerdictAsDocumented ==
  pc \in {"pass", "fail"} =>
    /\ (pc = "pass") = Accepted(policy, base, head, TRUE)
    /\ \A fn \in DOMAIN policy.functions \cup DOMAIN policy.functionLimits :
         \/ \E id \in Matched(base, head) : id.function_name = fn
         \/ /\ \A m \in DOMAIN Layer(policy.functions, fn) : policy.functions[fn][m].kind = "ignore"
            /\ DOMAIN Layer(policy.functionLimits, fn) = {}
    /\ \A name \in AggregateNames(policy) :
         LET members == policy.aggregates[name].members
         IN \E f \in [DOMAIN members -> Matched(base, head)] :
              /\ \A i \in DOMAIN members : Matches(members[i], f[i])
              /\ \A i, j \in DOMAIN members : f[i] = f[j] => i = j
    /\ report \in {"absent", "empty"} => violations.functions = {}

(* A HEAD that uses more, or hides what it uses, never passes where one    *)
(* that uses less fails: what passes still passes with any value lowered,  *)
(* and in place of an unavailable value any value passes.                  *)
Lowered(id, metric, v) == [head EXCEPT ![id].metrics[metric] = v]

NoWorse(v, than) == than = Null \/ v <= than

WorseNeverPasses ==
  pc = "pass" =>
    \A id \in DOMAIN head, metric \in Metrics, v \in Numbers :
      NoWorse(v, head[id].metrics[metric])
        => Judgement(policy, base, Lowered(id, metric, v)) = Clean

(* "allow_N_percent_increase - N% increase allowed" of src/threshold.ts:   *)
(* growth by just N percent is within the rule.                            *)
ExactPercentagePasses == pc = "fail" => ~Accepted(policy, base, head, FALSE)
=============================================================================
