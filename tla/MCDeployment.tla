---------------------------- MODULE MCDeployment ----------------------------
(***************************************************************************)
(* Two runs with the same key file: one may be aborted, one killed.        *)
(***************************************************************************)
EXTENDS Deployment

Fix(wasm, deps, binds) == [wasm |-> wasm, deps |-> deps, binds |-> binds]

(* Callers declared before their callees, in a chain of three of which two *)
(* share a WASM; two contracts with one WASM; one contract; a cycle.       *)
Chain3 == Fix(<<"w2", "w1", "w1">>, <<{2}, {3}, {}>>, <<{2}, {}, {}>>)
Pair   == Fix(<<"w1", "w1">>, <<{2}, {}>>, <<{2}, {}>>)
Alone  == Fix(<<"w1">>, <<{}>>, <<{}>>)
Cycle  == Fix(<<"w1", "w2">>, <<{2}, {1}>>, <<{}, {}>>)

MCRuns   == {"base", "head"}
MCFaults == [r \in MCRuns |-> IF r = "base" THEN {"abort"} ELSE {"kill"}]

(* The chain and the cycle on a single node; the pair behind nodes that    *)
(* are one ledger apart.                                                   *)
Given(f, lag, polls, ledgers) == [fixture |-> [r \in MCRuns |-> IF r = "base" THEN f ELSE Alone],
                           lag |-> lag, polls |-> polls, ledgers |-> ledgers]
MCWorlds == {Given(Chain3, 0, 1, 5), Given(Cycle, 0, 1, 5), Given(Pair, 1, 2, 4)}
=============================================================================
