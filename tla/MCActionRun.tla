---------------------------- MODULE MCActionRun ----------------------------
(***************************************************************************)
(* Two runs for different base refs.  The first one's inputs cover every   *)
(* outcome of the path check: all outputs, none, an output on a source,    *)
(* equal outputs, and a report on the default policy file.                 *)
(***************************************************************************)
EXTENDS ActionRun

MCRuns    == {"r1", "r2"}
MCBaseRef == [r \in MCRuns |-> IF r = "r1" THEN "main" ELSE "release"]

Everything == [report |-> "report.md", metadata |-> "metadata.json", config |-> TRUE,
               trusted |-> TRUE, pr |-> TRUE, token |-> TRUE]
Nothing    == [report |-> "", metadata |-> "", config |-> TRUE,
               trusted |-> FALSE, pr |-> FALSE, token |-> FALSE]

OnFixtures == [Everything EXCEPT !.report = "fixtures.json"]

MCInputs == [r \in MCRuns |->
  IF r = "r1" THEN {Everything, Nothing, OnFixtures,
                    [Everything EXCEPT !.metadata = "weighin.toml"],
                    [Everything EXCEPT !.metadata = "report.md"],
                    [Everything EXCEPT !.report = "weighin.toml", !.config = FALSE]}
              ELSE {[Everything EXCEPT !.token = FALSE]}]

(* Everything may go wrong with the first run; the second shows what is    *)
(* left to a later or to an overlapping one.                               *)
MCFaults == [r \in MCRuns |-> IF r = "r1" THEN {"kill", "cleanup"} ELSE {}]
=============================================================================
