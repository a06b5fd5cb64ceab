---------------------------- MODULE MCComparison ----------------------------
(***************************************************************************)
(* Policies over up to three benchmarks of two functions.  CPU takes all   *)
(* combinations of a few values, the other metric one value per side.      *)
(***************************************************************************)
EXTENDS Comparison, TLC

Cpu == "cpu_instructions"
Tx  == "tx_size_bytes"

Bench(fn, case) == [logical_id |-> "token", function_name |-> fn, case_id |-> case]
F1 == Bench("f", "1")
F2 == Bench("f", "2")
G  == Bench("g", "1")

Pick(fn, case) == [logical_id |-> Null, function_name |-> fn, case_id |-> case]

Sides(ids, cpus, txs, env) ==
  {[id \in ids |-> [metrics |-> (Cpu :> v[id]) @@ (Tx :> t), environment |-> env[id]]] :
     v \in [ids -> cpus], t \in txs}

One == [id \in {F1, F2, G} |-> "e"]
Lim == [id \in {F1, F2, G} |-> "limited"]
Two == [id \in {F1, F2, G} |-> IF id = G THEN "e2" ELSE "e"]

No == <<>>
Policy == [present |-> TRUE, fail_on_any_regression |-> FALSE, caps |-> No, functions |-> No,
           globalLimits |-> No, functionLimits |-> No, aggregates |-> No,
           aggregateLimits |-> No, aggregateThresholds |-> No]
Absent == [Policy EXCEPT !.present = FALSE]
Strict == [Policy EXCEPT !.fail_on_any_regression = TRUE]

Zero   == [kind |-> "strict_zero_tolerance"]
Ignore == [kind |-> "ignore"]
Sum(limits, rules) == [members |-> <<Pick("f", "1"), Pick("g", Null)>>,
                       limits |-> limits, thresholds |-> rules]

Simple ==
  {Absent, Policy, Strict,
   [Policy EXCEPT !.caps = Cpu :> 7],
   [Strict EXCEPT !.caps = Cpu :> 7, !.functions = "f" :> (Cpu :> Percent(10) @@ Tx :> Ignore)],
   [Policy EXCEPT !.caps = Cpu :> 7, !.functions = "f" :> (Cpu :> Ignore) @@ "g" :> (Cpu :> Zero)],
   [Policy EXCEPT !.functions = "h" :> (Cpu :> Zero)],
   [Policy EXCEPT !.functions = "h" :> (Cpu :> Ignore), !.functionLimits = "h" :> No],
   [Policy EXCEPT !.globalLimits = Cpu :> 105, !.functionLimits = "f" :> (Cpu :> 107)]}

Summed ==
  {[Policy EXCEPT !.aggregates = "all" :> Sum(Cpu :> 210, Cpu :> Percent(7))],
   [Policy EXCEPT !.aggregates = "all" :> Sum(Cpu :> 100, Cpu :> Percent(7)),
                  !.aggregateLimits = "all" :> (Cpu :> 220),
                  !.aggregateThresholds = "all" :> (Cpu :> Zero)],
   [Policy EXCEPT !.aggregateLimits = "none" :> (Cpu :> 220)],
   [Policy EXCEPT !.aggregates = "twice" :>
      [members |-> <<Pick("f", "1"), [Pick("f", "1") EXCEPT !.logical_id = "token"]>>,
       limits |-> Cpu :> 210, thresholds |-> No]],
   [Policy EXCEPT !.aggregates = "any" :>
      [members |-> <<Pick("f", Null)>>, limits |-> Cpu :> 110, thresholds |-> No]]}

Given(policies, bases, heads) == {[policy |-> p, bases |-> bases, heads |-> heads] : p \in policies}

MCScenarios ==
  Given(Simple, Sides({F1, G}, {Null, 0, 100}, {Null, 2}, One),
                Sides({F1, G}, {Null, 0, 100, 107, 110}, {2, 3}, One))
  \cup Given(Summed, Sides({F1, G}, {Null, 0, 100}, {2}, One),
                     Sides({F1, G}, {Null, 0, 100, 107, 110}, {3}, One))
  \cup Given(Summed, Sides({F1, F2, G}, {0, 100}, {2}, One),
                     Sides({F1, F2}, {100, 107}, {2}, One)
                       \cup Sides({F1, F2, G}, {100, 107}, {2}, Two))
  \cup Given(Summed, Sides({F1, F2, G}, {100}, {2}, Two), Sides({F1, F2, G}, {100, 107}, {2}, Two))
  \cup Given(Simple, Sides({F1}, {100}, {2}, One), Sides({F2}, {100}, {2}, One))
  \cup Given(Simple, Sides({F1}, {Null, 100}, {Null, 2}, Lim), Sides({F1}, {Null, 107}, {Null, 2}, Lim))

(* Of the growths and bases above, the pairs whose double is too large.    *)
MCRoundsUp == {<<7, 100>>, <<14, 200>>}
=============================================================================
