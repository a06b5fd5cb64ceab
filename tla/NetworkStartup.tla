--------------------------- MODULE NetworkStartup ---------------------------
(***************************************************************************)
(* scripts/start-local-network.sh and wait-for-local-network.cjs: a start  *)
(* replaces the container of a fixed name if it may, runs its own, and     *)
(* waits until the network serves health, a funded account and the compute *)
(* configuration.  A start that fails cleans up what it started.           *)
(*                                                                         *)
(* Starts may overlap: the second finds the container of the first.  Other *)
(* programs use the name too, containers may vanish, docker commands may   *)
(* fail and signals arrive at any time.  Once a start has succeeded,       *)
(* measurements make their accounts ready on the same network: those with  *)
(* the same key file the same one, perhaps at the same time.               *)
(*                                                                         *)
(* One action is one docker command, one HTTP request with the pause after *)
(* it, or one signal.  Clocks count ticks since the start of the wait.     *)
(***************************************************************************)
EXTENDS AccountReadiness

CONSTANTS
  Starters,    \* executions of the script
  Casts,       \* who takes part, under which conditions: see IsCast
  ProbeTime    \* the timeout of one request of the wait, 4 s, in ticks

(* authorised: starts with WEIGHIN_REPLACE_UNOWNED_CONTAINER=1; upsets:    *)
(* whether signals arrive and containers come and go by other hands.       *)
(* health: the deadline of health and configuration, 120 s, in ticks;      *)
(* readiness: DEADLINE_MS of ensureAccountReady, in ticks.                 *)
IsCast(k) == k \in [members : SUBSET Clients, authorised : SUBSET Starters,
                    upsets : SUBSET {"signals", "others"},
                    health : Nat \ {0}, readiness : Nat \ {0}]

ASSUME StartersAssumption == /\ Starters \subseteq Clients \ Aborting
                             /\ Starters \cap {"none", "foreign", "earlier"} = {}
                             /\ \A k \in Casts : IsCast(k)
\* The script asks for the account of a new key pair; measurements share a key file.
ASSUME OwnAccounts ==
  \A s \in Starters, c \in Clients : AccountOf[c] = AccountOf[s] => c = s
ASSUME ProbeAssumption == ProbeTime \in Nat \ {0}

VARIABLES
  cast,
  container,  \* who holds the name stellar-quickstart
  net,        \* what the network of that container serves so far
  proc        \* the execution of each script

vars == <<readinessVars, cast, container, net, proc>>

(* foreign has not the label of this script, earlier was left by one.      *)
Holders == {"none", "foreign", "earlier"} \cup Starters
Owned   == {"earlier"} \cup Starters

Unowned == {"idle", "inspect", "remove"}                   \* no traps yet
Running == {"run", "health", "account", "config"}
Cleanup == {"logs", "stop"}
Ended   == {"ok", "cut", "failed", "killed", "abandoned"}

(* seen: whose container was inspected, until it is removed; started:      *)
(* docker has its container; known: container_id is set; signalled: a      *)
(* signal waits for the command in the foreground.                         *)
Process == [pc : Unowned \cup Running \cup {"ready"} \cup Cleanup \cup Ended,
            clock : Nat, seen : Holders, started : BOOLEAN, known : BOOLEAN,
            signalled : BOOLEAN, warned : BOOLEAN]

NotStarted == [pc |-> "idle", clock |-> 0, seen |-> "none", started |-> FALSE,
               known |-> FALSE, signalled |-> FALSE, warned |-> FALSE]

Fresh == [healthy |-> FALSE, config |-> FALSE]

Init == /\ cast \in Casts
        /\ container \in {"none", "foreign", "earlier"}
        /\ up = (container \in Owned)
        /\ net = Fresh
        /\ proc = [s \in Starters |-> NotStarted]
        /\ InitReadiness

(* The network of a container goes with it.                                *)
Hold(h) == /\ container' = h
           /\ up' = (h \in Owned)
           /\ net' = Fresh
           /\ account' = [a \in Accounts |-> "absent"]

SameNetwork == UNCHANGED <<container, up, net, account>>

At(s, pc) == s \in cast.members /\ proc[s].pc = pc
Goto(s, pc) == proc' = [proc EXCEPT ![s].pc = pc]

-----------------------------------------------------------------------------
(* The script                                                               *)

(* docker ps -a; a failing command ends the script (set -e).               *)
List(s) ==
  /\ At(s, "idle")
  /\ \/ Goto(s, IF container = "none" THEN "run" ELSE "inspect")
     \/ Goto(s, "failed")
  /\ SameNetwork /\ UNCHANGED <<ask, cast>>

(* docker inspect, by name, and the comparison of the label.               *)
\* Bug: the label of an inspected container is not looked at.
BugAnyOwner(s, h) == TRUE
MayReplace(s, h) == h \in Owned \/ s \in cast.authorised

Inspect(s) ==
  /\ At(s, "inspect")
  /\ \/ /\ container # "none" /\ MayReplace(s, container)
        /\ proc' = [proc EXCEPT ![s].pc = "remove", ![s].seen = container]
     \/ Goto(s, "failed")
  /\ SameNetwork /\ UNCHANGED <<ask, cast>>

(* docker rm -f, again by name.                                            *)
Remove(s) ==
  /\ At(s, "remove")
  /\ \/ /\ Hold("none")
        /\ proc' = [proc EXCEPT ![s].pc = "run", ![s].seen = "none"]
     \/ SameNetwork /\ Goto(s, "failed")
  /\ UNCHANGED <<ask, cast>>

(* docker run --rm -d starts the container if the name is free ...         *)
Start(s) ==
  /\ At(s, "run") /\ ~proc[s].started
  /\ container = "none" /\ Hold(s)
  /\ proc' = [proc EXCEPT ![s].started = TRUE]
  /\ UNCHANGED <<ask, cast>>

(* ... and tells its ID, or fails, or tells nothing.  A signal received    *)
(* meanwhile is handled once the assignment of the ID is done.             *)
Started(s) ==
  /\ At(s, "run")
  /\ \/ /\ proc[s].started
        /\ proc' = [proc EXCEPT ![s].known = TRUE,
                      ![s].pc = IF proc[s].signalled THEN "logs" ELSE "health"]
     \/ Goto(s, "failed")
  /\ SameNetwork /\ UNCHANGED <<ask, cast>>

(* The end of the wait, whose variables are gone.  A signal that arrived   *)
(* while node was running is handled before ready=1; every other way leads *)
(* to the EXIT trap as well.                                               *)
Outcome(s, good) == IF good /\ ~proc[s].signalled THEN "ready" ELSE "logs"

WaitEnds(s, good) ==
  /\ proc' = [proc EXCEPT ![s] = [NotStarted EXCEPT !.pc = Outcome(s, good), !.known = TRUE]]
  /\ ask' = [ask EXCEPT ![s] = NotAsked]

(* The signal has reached node too, and ends it.                           *)
WaitCut(s) ==
  /\ s \in cast.members /\ proc[s].pc \in {"health", "account", "config"}
  /\ proc[s].signalled
  /\ WaitEnds(s, FALSE)
  /\ SameNetwork /\ UNCHANGED cast

(* deadline: one for the health check and the configuration.               *)
\* Bug: every round of the wait for the configuration has a deadline anew.
BugAnew(s) == IF proc[s].pc = "health" THEN cast.health ELSE proc[s].clock + cast.health
Deadline(s) == cast.health

Times(s) == {proc[s].clock + d : d \in 0..Timeout(ProbeTime, Deadline(s) - proc[s].clock)}

(* getHealth says healthy.                                                 *)
Healthy(s) ==
  /\ At(s, "health") /\ up /\ net.healthy
  /\ \E t \in Times(s) :
       /\ ask' = [ask EXCEPT ![s] = Asked(t, cast.readiness)]
       /\ proc' = [proc EXCEPT ![s].pc = "account", ![s].clock = t]
  /\ SameNetwork /\ UNCHANGED cast

(* A request of the wait has another answer or none: after the pause the   *)
(* loop goes on unless its deadline is reached.                            *)
ProbeAgain(s) ==
  /\ s \in cast.members /\ proc[s].pc \in {"health", "config"}
  /\ \E t \in Times(s) :
       LET next == t + Timeout(1, Deadline(s) - t)
       IN IF next < Deadline(s)
            THEN proc' = [proc EXCEPT ![s].clock = next] /\ UNCHANGED ask
            ELSE WaitEnds(s, FALSE)
  /\ SameNetwork /\ UNCHANGED cast

(* ensureAccountReady, with a deadline of its own.                         *)
AskReady(s) == At(s, "account") /\ Ask(s) /\ UNCHANGED <<cast, container, net, proc>>

(* Its end.  waitForComputeConfig has what is left of the first deadline,  *)
(* and gives up without a request if that is nothing.                      *)
AccountEnds(s) ==
  /\ At(s, "account")
  /\ \/ /\ ask[s].pc = "confirmed" /\ ask[s].clock < Deadline(s)
        /\ proc' = [proc EXCEPT ![s].pc = "config", ![s].clock = ask[s].clock]
        /\ ask' = [ask EXCEPT ![s] = NotAsked]
     \/ ask[s].pc = "confirmed" /\ ask[s].clock >= Deadline(s) /\ WaitEnds(s, FALSE)
     \/ ask[s].pc \in {"refused", "late"} /\ WaitEnds(s, FALSE)
  /\ SameNetwork /\ UNCHANGED cast

(* The RPC returns ContractComputeV0.                                      *)
Configured(s) ==
  /\ At(s, "config") /\ up /\ net.config
  /\ WaitEnds(s, TRUE)
  /\ SameNetwork /\ UNCHANGED cast

Exit(s) == At(s, "ready") /\ Goto(s, "ok") /\ SameNetwork /\ UNCHANGED <<ask, cast>>

(* cleanup_unready_sidecar: docker logs may fail.                          *)
\* Bug: with set -e the failure of docker logs ends the clean-up.
BugLogs(s) == {"stop", "failed"}
AfterLogs(s) == {"stop"}

Logs(s) ==
  /\ At(s, "logs")
  /\ \E pc \in AfterLogs(s) : Goto(s, pc)
  /\ SameNetwork /\ UNCHANGED <<ask, cast>>

(* docker stop, by ID; --rm deletes what stops.                            *)
\* Bug: the container is stopped by its name.
BugByName(s) == container # "none"
Stoppable(s) == container = s

Stop(s) ==
  /\ At(s, "stop")
  /\ \/ Stoppable(s) /\ Hold("none") /\ Goto(s, "failed")
     \/ SameNetwork /\ proc' = [proc EXCEPT ![s].pc = "failed", ![s].warned = TRUE]
  /\ UNCHANGED <<ask, cast>>

(* SIGINT or SIGTERM.  The traps are in place from docker run on, wait for *)
(* the command in the foreground, and are reset when the clean-up begins.  *)
\* Bug: the traps are installed after docker run.
BugLateTraps(pc) == pc \in Running \ {"run"}
Trapped(pc) == pc \in Running

Signal(s) ==
  /\ "signals" \in cast.upsets
  /\ s \in cast.members /\ proc[s].pc \notin Ended
  /\ LET pc == proc[s].pc
     IN IF Trapped(pc)
          THEN ~proc[s].signalled /\ proc' = [proc EXCEPT ![s].signalled = TRUE]
          ELSE Goto(s, CASE pc = "ready"     -> "cut"
                         [] pc \in Cleanup   -> "abandoned"
                         [] OTHER             -> "killed")
  /\ SameNetwork /\ UNCHANGED <<ask, cast>>

Script(s) == \/ List(s) \/ Inspect(s) \/ Remove(s) \/ Start(s) \/ Started(s)
             \/ Healthy(s) \/ ProbeAgain(s) \/ AskReady(s) \/ AccountEnds(s)
             \/ Configured(s) \/ WaitCut(s) \/ Exit(s) \/ Logs(s) \/ Stop(s)

-----------------------------------------------------------------------------
(* A measurement: the call of ensureAccountReady in getOrInitAccount        *)

Measure(c) ==
  /\ c \in cast.members \ Starters
  /\ ask[c].pc = "idle"
  /\ \E s \in Starters : proc[s].pc = "ok"
  /\ ask' = [ask EXCEPT ![c] = Asked(0, cast.readiness)]
  /\ SameNetwork /\ UNCHANGED <<cast, proc>>

AskMeasured(c) == c \in cast.members \ Starters /\ Ask(c) /\ UNCHANGED <<cast, container, net, proc>>

AbortMeasured(c) == c \in cast.members /\ Abort(c) /\ UNCHANGED <<cast, container, net, proc>>

-----------------------------------------------------------------------------
(* The network and the others                                               *)

Serve == /\ up
         /\ \E part \in {"healthy", "config"} : ~net[part] /\ net' = [net EXCEPT ![part] = TRUE]
         /\ UNCHANGED <<readinessVars, cast, container, proc>>

Ledger(a) == (Include(a) \/ Show(a)) /\ UNCHANGED <<cast, container, net, proc>>

Appear == "others" \in cast.upsets /\ container = "none" /\ Hold("foreign") /\ UNCHANGED <<ask, cast, proc>>
Vanish == "others" \in cast.upsets /\ container # "none" /\ Hold("none") /\ UNCHANGED <<ask, cast, proc>>

Next == \/ \E s \in Starters : Script(s) \/ Signal(s)
        \/ \E c \in Clients : Measure(c) \/ AskMeasured(c) \/ AbortMeasured(c)
        \/ \E a \in Accounts : Ledger(a)
        \/ Serve \/ Appear \/ Vanish

(* Requests have timeouts and docker commands are taken to return.         *)
Fairness == /\ \A s \in Starters : WF_vars(Script(s))
            /\ \A c \in Clients \ Starters : WF_vars(AskMeasured(c))

Spec == Init /\ [][Next]_vars /\ Fairness

-----------------------------------------------------------------------------
(* The state has its type, and no clock runs past the deadlines: the two   *)
(* phases of a wait take no longer than their times together, as           *)
(* docs/network-readiness.md says of the script.                           *)
TypeOK ==
  /\ cast \in Casts
  /\ up \in BOOLEAN
  /\ account \in [Accounts -> AccountStates]
  /\ ask \in [Clients -> Call]
  /\ container \in Holders
  /\ net \in [healthy : BOOLEAN, config : BOOLEAN]
  /\ proc \in [Starters -> Process]
  /\ \A s \in Starters : /\ proc[s].clock <= cast.health + cast.readiness
                         /\ ask[s].clock <= cast.health + cast.readiness
  /\ \A c \in Clients : ask[c].clock <= ask[c].until

(* A start takes the container of another from its name only when it       *)
(* replaces an owned one, or was authorised.  docker rm goes by the name   *)
(* again: without authorisation an unowned container goes only if it took  *)
(* the name after the inspection of an owned one, which is what            *)
(* UnownedPreserved denies.  The clean-up never touches another container. *)
RemovalsJustified ==
  [][\A s \in Starters :
       (proc'[s] # proc[s] /\ container' # container /\ container \notin {"none", s})
         => /\ proc[s].pc = "remove"
            /\ container \in Owned \/ s \in cast.authorised \/ proc[s].seen # "foreign"]_vars

(* What docs/network-readiness.md and tests/network-startup.test.cjs say:  *)
(* an unowned container of that name is preserved by a start that was not  *)
(* authorised.                                                             *)
UnownedPreserved ==
  [][\A s \in Starters \ cast.authorised :
       (proc'[s] # proc[s] /\ container' # container) => container # "foreign"]_vars

(* A start that ended without success has not left its container behind    *)
(* unless it said so, never learnt its ID, or was signalled again while it *)
(* cleaned up.  A signal before that never leaves one, also when it comes  *)
(* while docker is starting the container.                                 *)
NothingLeftBehind ==
  \A s \in Starters :
    container = s => /\ proc[s].pc # "killed"
                     /\ proc[s].pc = "failed" => proc[s].warned \/ ~proc[s].known

(* A start that succeeded and still has its container left a network that  *)
(* is healthy, serves the configuration and shows the account it funded:   *)
(* no answer of a network that was replaced meanwhile counted for it.      *)
ReadyMeansServed ==
  \A s \in Starters :
    (proc[s].pc \in {"ready", "ok", "cut"} /\ container = s)
      => net.healthy /\ net.config /\ Stands(s) = "visible"

(* Accepted funding is not repeated: friendbot refuses an account because  *)
(* it exists only to a client that lost an answer of its own, or shares    *)
(* its key file with another that had the account funded or lost one.  A   *)
(* refused client fails for good, although its account is there.           *)
RefusedOnlyAfterLoss ==
  \A c \in Clients : ask[c].exists =>
    \E d \in Clients : /\ AccountOf[d] = AccountOf[c]
                       /\ ask[d].lost \/ (d # c /\ ask[d].funded)

(* Every start ends, and every call of ensureAccountReady is answered,     *)
(* whatever the network does, the others do and however answers are lost:  *)
(* sooner or later nothing is under way any more.                          *)
StartEnds == <>[](/\ \A s \in Starters : proc[s].pc \in {"idle"} \cup Ended
                  /\ \A c \in Clients \ Starters : ask[c].pc \notin Asking)
=============================================================================
