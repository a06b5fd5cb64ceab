-------------------------- MODULE MCNetworkStartup --------------------------
(***************************************************************************)
(* Two starts of which the second may replace what it does not own; a      *)
(* start while containers come and go; a start, then two measurements with *)
(* one key file, of which one may be aborted.                              *)
(***************************************************************************)
EXTENDS NetworkStartup

MCCasts ==
  {[members |-> {"first", "second"}, authorised |-> {"second"},
    upsets |-> {}, health |-> 2, readiness |-> 2],
   [members |-> {"first"}, authorised |-> {},
    upsets |-> {"signals", "others"}, health |-> 2, readiness |-> 3],
   [members |-> {"first", "base", "head"}, authorised |-> {},
    upsets |-> {"signals"}, health |-> 2, readiness |-> 3]}

MCAccountOf == [c \in Clients |-> IF c \in Starters THEN c ELSE "shared"]
=============================================================================
