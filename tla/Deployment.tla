----------------------------- MODULE Deployment -----------------------------
(***************************************************************************)
(* runMeasurement of src/measurement.ts with planSetupOrder of             *)
(* src/setup-plan.ts and acquireDeployerKey of src/deployer-key.ts: the    *)
(* contracts of a fixture are deployed in the order of their dependencies, *)
(* each by an upload and a creation that must be confirmed unless its      *)
(* instance is there already, and only then is anything measured.          *)
(*                                                                         *)
(* Runs may share a key file and therefore an account, its sequence        *)
(* numbers and the addresses of its contracts; they may overlap, be        *)
(* aborted, be killed, and be started again.  The network closes ledgers,  *)
(* loses transactions and applies them late; RPC nodes lag; every call may *)
(* fail, and the answer to a submission may be lost.                       *)
(*                                                                         *)
(* One action is one await with the synchronous code that follows it.      *)
(* Any RPC call may throw, and a check that refuses its answer ends the    *)
(* run in the same way: both are SetupFails.  What measureInvocation does  *)
(* is the subject of SnapshotCapture, the funding of the account is left   *)
(* out: here an account exists and counts its transactions.                *)
(***************************************************************************)
EXTENDS Integers, FiniteSets, Sequences

CONSTANTS
  Runs,       \* calls of runMeasurement
  Shared,     \* the runs that are given the same keyFile
  Contracts,  \* contracts of a fixture: numbers, in the order of declaration
  Wasms,      \* artifacts, told apart by their hash
  Worlds,     \* what a behaviour may be given: see IsWorld
  Faults,     \* Faults[r]: whether run r may be aborted or killed
  MinTtl,     \* minTtlLedgers, 17 280 by default
  Life        \* ledgers the network lets a new entry live

(* The contracts of a fixture, depends_on and the dependencies that        *)
(* arguments are bound to.                                                 *)
FixtureOf(cs) == [wasm : [cs -> Wasms], deps : [cs -> SUBSET Contracts],
                  binds : [cs -> SUBSET Contracts]]

(* A world: the fixture of each run, how many ledgers an answering RPC     *)
(* node may be behind, the answers awaited for one transaction (30), and   *)
(* the bound on the ledgers of the behaviour.                              *)
IsWorld(w) ==
  /\ DOMAIN w = {"fixture", "lag", "polls", "ledgers"}
  /\ DOMAIN w.fixture = Runs
  /\ \A r \in Runs : \E cs \in (SUBSET Contracts) \ {{}} : w.fixture[r] \in FixtureOf(cs)
  /\ w.lag \in Nat
  /\ w.polls \in Nat \ {0}
  /\ w.ledgers \in Nat \ {0}

ASSUME RunsAssumption == /\ IsFiniteSet(Runs)
                         /\ Shared \subseteq Runs
                         /\ Runs \cap {"shared", "none", "absent", "empty"} = {}
                         /\ Faults \in [Runs -> SUBSET {"abort", "kill"}]
ASSUME WorldsAssumption == /\ Contracts \subseteq Nat \ {0}
                           /\ IsFiniteSet(Contracts)
                           /\ \A w \in Worlds : IsWorld(w)
ASSUME BoundsAssumption == /\ MinTtl \in Nat
                           /\ Life \in Nat \ {0}

VARIABLES
  chain,    \* the closed ledgers
  pool,     \* transactions submitted and not applied, some of them lost
  file,     \* what each key file holds
  world,    \* the world of this behaviour
  run       \* the state of each run

vars == <<chain, pool, file, world, run>>

(* The key a run generates is named for the run, and so is its account.    *)
Accounts == Runs
Files    == Runs \cup {"shared"}
NoFile   == "absent"
Empty    == "empty"     \* created, the key not written yet

(* second: two transactions that agree in everything, down to the second   *)
(* in which they were built, have the same hash and are one transaction.   *)
Tx == [account : Accounts, seq : Nat, kind : {"upload", "create"}, wasm : Wasms,
       second : Runs]
NoTx == [kind |-> "none"]

(* What one ledger holds: until is the last ledger an entry lives in, 0    *)
(* for no entry.  seq counts an account's transactions, ok and bad are the *)
(* transactions that succeeded and failed.                                 *)
Ledger == [seq : [Accounts -> Nat], inst : [Accounts \X Wasms -> Nat],
           code : [Wasms -> Nat], ok : SUBSET Tx, bad : SUBSET Tx]

Setup  == {"probe", "code", "account", "prepare", "send", "poll", "sleep"}
Active == {"plan", "look", "open", "write", "ready", "measure"} \cup Setup
Ended  == {"done", "failed", "killed"}

(* setupResults: how a contract came to be deployed, and for a reused one  *)
(* the older of the ledgers it was probed at.                              *)
Receipt   == [source : {"none", "created", "existing_instance"}, since : Nat]
NoReceipt == [source |-> "none", since |-> 0]
NoFailure == [contract |-> 0, named |-> {}]

-----------------------------------------------------------------------------
(* Helpers                                                                  *)

fixture == world.fixture
head    == Len(chain)
Newest  == chain[head]
Answers == {l \in 1..head : head - l <= world.lag}

At(r, step)  == run[r].pc = step
Goto(r, step) == run' = [run EXCEPT ![r].pc = step]
KeyFile(r)   == IF r \in Shared THEN "shared" ELSE r
Cs(r)        == DOMAIN fixture[r].wasm
Deps(r, c)   == fixture[r].deps[c]
Placed(r)    == {run[r].order[i] : i \in 1..Len(run[r].order)}

(* The contract being deployed, and where: the address is derived from the *)
(* deployer and from the WASM hash alone.                                  *)
Current(r)    == run[r].order[run[r].at]
Wasm(r, c)    == fixture[r].wasm[c]
Address(r, c) == <<run[r].account, Wasm(r, c)>>

Committed(r) == {c \in Cs(r) : run[r].receipts[c] # NoReceipt}

Least(S) == CHOOSE c \in S : \A d \in S : c <= d

(* dependentsOf: one pass over the plan finds whatever needs the contract, *)
(* directly or through others.                                             *)
\* Bug: only the contracts that name it.
BugDirect(r, c) == {d \in Cs(r) : c \in Deps(r, d)}
DependentsOf(r, c) ==
  LET found[i \in 0..Len(run[r].order)] ==
        IF i = 0 THEN {}
        ELSE LET d == run[r].order[i]
             IN found[i-1] \cup
                  (IF Deps(r, d) \cap (found[i-1] \cup {c}) # {} THEN {d} ELSE {})
  IN found[Len(run[r].order)]

(* lease.release(): a key directory of the run's own goes with it.         *)
Release(r, how) == file' = [file EXCEPT ![r] = NoFile]

(* The variables of ensureContractDeployed end with a call of it.          *)
Locals == [since |-> 0, kind |-> "upload", tx |-> NoTx, polls |-> 0]

Leave(r, how) == run' = [run EXCEPT ![r].pc = how, ![r].call = Locals]
End(r, how)   == Leave(r, how) /\ Release(r, how)

(* A failed deployment ends the run; the error names what depended on it,  *)
(* unless the caller aborted.                                              *)
FailSetup(r) ==
  /\ run' = [run EXCEPT ![r].pc = "failed",
                        ![r].call = Locals,
                        ![r].failure = [contract |-> Current(r),
                                        named |-> IF run[r].aborted THEN {}
                                                  ELSE DependentsOf(r, Current(r))]]
  /\ Release(r, "failed")

(* The contract is deployed: the next one in the plan, or the measurements.*)
\* Bug: off by one, the last contract is taken for deployed.
BugSkipsLast(r, source, since) ==
  run' = [run EXCEPT
    ![r].receipts[Current(r)] = [source |-> source, since |-> since],
    ![r].call = Locals,
    ![r].at = IF @ = Len(run[r].order) THEN @ ELSE @ + 1,
    ![r].pc = IF run[r].at + 1 >= Len(run[r].order) THEN "measure" ELSE "probe"]
Deployed(r, source, since) ==
  run' = [run EXCEPT
    ![r].receipts[Current(r)] = [source |-> source, since |-> since],
    ![r].call = Locals,
    ![r].at = @ + 1,
    ![r].pc = IF run[r].at = Len(run[r].order) THEN "measure" ELSE "probe"]

-----------------------------------------------------------------------------
(* Plan and key                                                             *)

Init ==
  /\ chain = <<[seq |-> [a \in Accounts |-> 0], inst |-> [a \in Accounts \X Wasms |-> 0],
                code |-> [w \in Wasms |-> 0], ok |-> {}, bad |-> {}]>>
  /\ pool = {}
  /\ file = [f \in Files |-> NoFile]
  /\ world \in Worlds
  /\ run = [r \in Runs |->
       [pc |-> "idle", after |-> {}, aborted |-> FALSE, order |-> <<>>, account |-> "none",
        at |-> 1, sent |-> {}, call |-> Locals,
        receipts |-> [c \in Contracts |-> NoReceipt], measured |-> {}, failure |-> NoFailure]]

(* after records which runs were over when this one began.                 *)
Begin(r) ==
  /\ At(r, "idle")
  /\ run' = [run EXCEPT ![r].pc = "plan",
                        ![r].after = {q \in Runs : run[q].pc \in Ended}]
  /\ UNCHANGED <<chain, pool, file, world>>

(* planSetupOrder refuses a dependency on itself or on an unknown contract *)
(* and a binding to no dependency; then it takes, again and again, the     *)
(* first contract declared whose dependencies are placed.                  *)
WellFormed(r) == \A c \in Cs(r) : /\ Deps(r, c) \subseteq Cs(r) \ {c}
                                  /\ fixture[r].binds[c] \subseteq Deps(r, c)
\* Bug: the dependencies are not waited for.
BugDeclared(r) == Cs(r) \ Placed(r)
Placeable(r) == {c \in Cs(r) \ Placed(r) : Deps(r, c) \subseteq Placed(r)}

Plan(r) ==
  /\ At(r, "plan")
  /\ WellFormed(r)
  /\ Placeable(r) # {}
  /\ run' = [run EXCEPT ![r].order = Append(@, Least(Placeable(r)))]
  /\ UNCHANGED <<chain, pool, file, world>>

(* All are placed, and every artifact is there.                            *)
Planned(r) ==
  /\ At(r, "plan")
  /\ WellFormed(r)
  /\ Placed(r) = Cs(r)
  /\ Goto(r, "look")
  /\ UNCHANGED <<chain, pool, file, world>>

(* Fixtures that do not parse, an invalid plan, a cycle, a missing WASM.   *)
PlanFails(r) ==
  /\ At(r, "plan")
  /\ End(r, "failed")
  /\ UNCHANGED <<chain, pool, world>>

(* getOrInitAccount: the key in the file, or a new one that is written to  *)
(* it.  Other processes see the file before the key is in it.              *)
\* Bug: the key file is not looked for.
BugAlwaysNew(r) == FALSE
KeyFound(r) == file[KeyFile(r)] # NoFile

LookForKey(r) ==
  /\ At(r, "look")
  /\ \/ ~KeyFound(r) /\ Goto(r, "open") /\ UNCHANGED file
     \/ /\ KeyFound(r)
        /\ file[KeyFile(r)] \in Accounts
        /\ run' = [run EXCEPT ![r].pc = "ready", ![r].account = file[KeyFile(r)]]
        /\ UNCHANGED file
     \/ KeyFound(r) /\ file[KeyFile(r)] = Empty /\ End(r, "failed")
  /\ UNCHANGED <<chain, pool, world>>

OpenKey(r) ==
  /\ At(r, "open")
  /\ Goto(r, "write")
  /\ file' = [file EXCEPT ![KeyFile(r)] = Empty]
  /\ UNCHANGED <<chain, pool, world>>

WriteKey(r) ==
  /\ At(r, "write")
  /\ run' = [run EXCEPT ![r].pc = "ready", ![r].account = r]
  /\ file' = [file EXCEPT ![KeyFile(r)] = r]
  /\ UNCHANGED <<chain, pool, world>>

(* ensureAccountReady, and the check of the invoking account.              *)
EnsureReady(r) ==
  /\ At(r, "ready")
  /\ \/ ~run[r].aborted /\ Goto(r, "probe") /\ UNCHANGED file
     \/ End(r, "failed")
  /\ UNCHANGED <<chain, pool, world>>

-----------------------------------------------------------------------------
(* ensureContractDeployed                                                   *)

(* An instance that is not there is created; one that is has to have the   *)
(* minimum left to live.  An expired one may have been evicted.            *)
\* Bug: off by one ledger.
BugExpiring(until, l) == until # 0 /\ until - l >= MinTtl - 1
Reusable(until, l) == until # 0 /\ until - l >= MinTtl

Probe(r) ==
  /\ At(r, "probe")
  /\ \E l \in Answers :
       LET until == chain[l].inst[Address(r, Current(r))]
       IN \/ /\ until < l
             /\ run' = [run EXCEPT ![r].pc = "account"]
          \/ /\ Reusable(until, l)
             /\ run' = [run EXCEPT ![r].pc = "code", ![r].call.since = l]
  /\ UNCHANGED <<chain, pool, file, world>>

(* probeContractCode: the code of a reused instance, asked for later and   *)
(* perhaps of another node.                                                *)
ProbeCode(r) ==
  /\ At(r, "code")
  /\ \E l \in Answers :
       /\ Reusable(chain[l].code[Wasm(r, Current(r))], l)
       /\ Deployed(r, "existing_instance", Least({run[r].call.since, l}))
  /\ UNCHANGED <<chain, pool, file, world>>

(* getAccount gives the sequence number the transaction is built with, in  *)
(* a second of the run's own or in that of one which is yet to submit.  No *)
(* second outlasts a ledger: what is in a ledger is not built again, and a *)
(* later one with a number that is used up is refused (SetupFails).        *)
Settled(tx)  == tx \in Newest.ok \cup Newest.bad
BuiltWith(r) == {r} \cup {run[q].call.tx.second : q \in {q \in Runs : run[q].pc \in {"prepare", "send"}}}

GetAccount(r) ==
  /\ At(r, "account")
  /\ \E l \in Answers, s \in BuiltWith(r) :
       LET tx == [account |-> run[r].account, seq |-> chain[l].seq[run[r].account] + 1,
                  kind |-> run[r].call.kind, wasm |-> Wasm(r, Current(r)), second |-> s]
       IN /\ ~Settled(tx)
          /\ run' = [run EXCEPT ![r].pc = "prepare", ![r].call.tx = tx]
  /\ UNCHANGED <<chain, pool, file, world>>

(* prepareTransaction simulates it, on one node's ledger.                  *)
Works(tx, l) == \/ tx.kind = "upload"
                \/ /\ tx.kind = "create"
                   /\ chain[l].code[tx.wasm] >= l
                   /\ chain[l].inst[<<tx.account, tx.wasm>>] = 0

(* submitAndConfirm looks at the signal once more before it submits.       *)
Prepare(r) ==
  /\ At(r, "prepare")
  /\ ~run[r].aborted
  /\ \E l \in Answers : Works(run[r].call.tx, l)
  /\ Goto(r, "send")
  /\ UNCHANGED <<chain, pool, file, world>>

Submitted(tx) == pool' = IF Settled(tx) THEN pool ELSE pool \cup {tx}

(* PENDING or DUPLICATE: the transaction is on its way, and awaited.       *)
Send(r) ==
  /\ At(r, "send")
  /\ ~run[r].aborted
  /\ Submitted(run[r].call.tx)
  /\ run' = [run EXCEPT ![r].pc = "poll", ![r].sent = @ \cup {run[r].call.tx}]
  /\ UNCHANGED <<chain, file, world>>

(* The transaction was accepted, but the run does not learn it, or has     *)
(* been aborted meanwhile.                                                 *)
SendLost(r) ==
  /\ At(r, "send")
  /\ Submitted(run[r].call.tx)
  /\ FailSetup(r)
  /\ UNCHANGED <<chain, world>>

(* getTransaction: SUCCESS confirms the upload or the creation, FAILED     *)
(* ends the run (SetupFails), NOT_FOUND waits a second.                    *)
\* Bug: any answer but NOT_FOUND confirms the transaction.
BugAnyStatus(r, l) == run[r].call.tx \in chain[l].ok \cup chain[l].bad
Succeeded(r, l) == run[r].call.tx \in chain[l].ok

Confirm(r) ==
  /\ At(r, "poll")
  /\ \E l \in Answers : Succeeded(r, l)
  /\ IF run[r].call.kind = "upload"
       THEN run' = [run EXCEPT ![r].pc = "account",
                               ![r].call = [Locals EXCEPT !.kind = "create"]]
       ELSE Deployed(r, "created", 0)
  /\ UNCHANGED <<chain, pool, file, world>>

NotFound(r) ==
  /\ At(r, "poll")
  /\ \E l \in Answers : run[r].call.tx \notin chain[l].ok \cup chain[l].bad
  /\ run' = [run EXCEPT ![r].pc = "sleep", ![r].call.polls = @ + 1]
  /\ UNCHANGED <<chain, pool, file, world>>

\* Bug: the polls are not counted against their limit.
BugPollsOn(r) == TRUE
PollsLeft(r) == run[r].call.polls < world.polls

PollAgain(r) ==
  /\ At(r, "sleep")
  /\ ~run[r].aborted
  /\ PollsLeft(r)
  /\ Goto(r, "poll")
  /\ UNCHANGED <<chain, pool, file, world>>

(* "not found after 30 seconds", though it may still be applied.           *)
GiveUp(r) ==
  /\ At(r, "sleep")
  /\ run[r].aborted \/ ~PollsLeft(r)
  /\ FailSetup(r)
  /\ UNCHANGED <<chain, pool, world>>

(* A call throws, its answer is refused, or an abort is noticed.           *)
SetupFails(r) ==
  /\ run[r].pc \in Setup \ {"sleep"}
  /\ FailSetup(r)
  /\ UNCHANGED <<chain, pool, world>>

-----------------------------------------------------------------------------
(* Measurements                                                             *)

(* One contract's invocations, in the order of declaration: bound          *)
(* arguments are resolved, and the call is simulated on some ledger.       *)
Measure(r) ==
  /\ At(r, "measure")
  /\ ~run[r].aborted
  /\ LET c == Least(Cs(r) \ run[r].measured)
         measured == run[r].measured \cup {c}
     IN /\ fixture[r].binds[c] \subseteq Committed(r)
        /\ \E l \in Answers : /\ chain[l].inst[Address(r, c)] >= l
                              /\ chain[l].code[Wasm(r, c)] >= l
        /\ IF measured = Cs(r)
             THEN /\ run' = [run EXCEPT ![r].pc = "done", ![r].measured = measured]
                  /\ Release(r, "done")
             ELSE /\ run' = [run EXCEPT ![r].measured = measured]
                  /\ UNCHANGED file
  /\ UNCHANGED <<chain, pool, world>>

MeasureFails(r) ==
  /\ At(r, "measure")
  /\ End(r, "failed")
  /\ UNCHANGED <<chain, pool, world>>

-----------------------------------------------------------------------------
(* The network and the callers                                              *)

(* A ledger closes, with at most one of the transactions that wait: two in *)
(* one ledger are two ledgers here.  One that never comes to it is lost.   *)
Applied(tx) ==
  LET l     == head + 1
      works == Works(tx, head)
      until == l + Life
  IN [Newest EXCEPT
        !.seq[tx.account] = @ + 1,
        !.code[tx.wasm] = IF tx.kind = "upload" /\ @ < l THEN until ELSE @,
        !.inst[<<tx.account, tx.wasm>>] = IF tx.kind = "create" /\ works THEN until ELSE @,
        !.ok  = IF works THEN @ \cup {tx} ELSE @,
        !.bad = IF works THEN @ ELSE @ \cup {tx}]

CloseLedger ==
  /\ head < world.ledgers
  /\ \/ chain' = Append(chain, Newest) /\ UNCHANGED pool
     \/ \E tx \in pool : /\ tx.seq = Newest.seq[tx.account] + 1
                         /\ chain' = Append(chain, Applied(tx))
                         /\ pool' = pool \ {tx}
  /\ UNCHANGED <<file, world, run>>

Abort(r) ==
  /\ "abort" \in Faults[r]
  /\ run[r].pc \in Active
  /\ ~run[r].aborted
  /\ run' = [run EXCEPT ![r].aborted = TRUE]
  /\ UNCHANGED <<chain, pool, file, world>>

Kill(r) ==
  /\ "kill" \in Faults[r]
  /\ run[r].pc \in Active
  /\ Leave(r, "killed")
  /\ UNCHANGED <<chain, pool, file, world>>

Step(r) == \/ Begin(r) \/ Plan(r) \/ Planned(r) \/ PlanFails(r)
           \/ LookForKey(r) \/ OpenKey(r) \/ WriteKey(r) \/ EnsureReady(r)
           \/ Probe(r) \/ ProbeCode(r) \/ GetAccount(r) \/ Prepare(r)
           \/ Send(r) \/ SendLost(r) \/ Confirm(r) \/ NotFound(r)
           \/ PollAgain(r) \/ GiveUp(r) \/ SetupFails(r)
           \/ Measure(r) \/ MeasureFails(r)

Next == \/ \E r \in Runs : Step(r) \/ Abort(r) \/ Kill(r)
        \/ CloseLedger

Spec == Init /\ [][Next]_vars

-----------------------------------------------------------------------------
(* Properties                                                               *)

State == [pc : Active \cup Ended \cup {"idle"}, after : SUBSET Runs, aborted : BOOLEAN,
          order : Seq(Contracts), account : Accounts \cup {"none"}, at : Nat \ {0},
          sent : SUBSET Tx,
          call : [since : Nat, kind : {"upload", "create"}, tx : Tx \cup {NoTx},
                  polls : 0..world.polls],
          receipts : [Contracts -> Receipt],
          measured : SUBSET Contracts,
          failure : [contract : Contracts \cup {0}, named : SUBSET Contracts]]

(* Every variable holds a value of its kind, and no transaction is asked   *)
(* for more often than waitForTransaction allows.                          *)
TypeOK == /\ chain \in Seq(Ledger)
          /\ pool \subseteq Tx
          /\ file \in [Files -> Accounts \cup {NoFile, Empty}]
          /\ world \in Worlds
          /\ run \in [Runs -> State]

There(r, c) == Newest.inst[Address(r, c)] # 0

(* A contract is deployed only after the contracts it depends on: from its *)
(* probe on, their instances are in the ledger, whatever other runs, the   *)
(* lag of the nodes and lost transactions did.                             *)
DependenciesFirst ==
  \A r \in Runs : run[r].pc \in Setup => \A d \in Deps(r, Current(r)) : There(r, d)

(* Nothing is measured before the whole setup has committed: every         *)
(* contract has its instance and its code in the ledger, and every binding *)
(* a receipt to resolve it with.                                           *)
SetupCommitted ==
  \A r \in Runs : run[r].pc \in {"measure", "done"} =>
    \A c \in Cs(r) : /\ There(r, c)
                     /\ Newest.code[Wasm(r, c)] # 0
                     /\ fixture[r].binds[c] \subseteq Committed(r)

(* A receipt says "created" only if a transaction this run sent did create *)
(* the instance, and of the contracts of a run that share a WASM only for  *)
(* one; two runs that both say so sent the very same transaction.          *)
Creations(r, c) == {tx \in Newest.ok : /\ tx.kind = "create"
                                       /\ <<tx.account, tx.wasm>> = Address(r, c)}
Claimed(r) == {c \in Committed(r) : run[r].receipts[c].source = "created"}
ReceiptsTrue ==
  \A r \in Runs :
    /\ \A c \in Claimed(r) : /\ Creations(r, c) \subseteq run[r].sent
                             /\ Cardinality(Creations(r, c)) = 1
    /\ \A c, d \in Claimed(r) : Wasm(r, c) = Wasm(r, d) => c = d
    /\ \A c \in Committed(r) \ Claimed(r) : There(r, c)

(* A reused deployment outlives the window that was asked for: instance    *)
(* and code are alive for MinTtl ledgers from the older of the two probes, *)
(* though they were probed at different times and of different nodes.      *)
ReusedOutlivesWindow ==
  \A r \in Runs : \A c \in Committed(r) \ Claimed(r) :
    /\ Newest.inst[Address(r, c)] >= run[r].receipts[c].since + MinTtl
    /\ Newest.code[Wasm(r, c)] >= run[r].receipts[c].since + MinTtl

(* When a deployment fails, the error names exactly the contracts that     *)
(* need it, the least set closed under "depends on": each of them still    *)
(* lay ahead in the plan, and nothing was measured.                        *)
Closed(r, c, S) == \A d \in Cs(r) : Deps(r, d) \cap (S \cup {c}) # {} => d \in S
NeedsExactly(r, c, S) == Closed(r, c, S) /\ \A T \in SUBSET S : Closed(r, c, T) => T = S
Named(r) ==
  LET c == run[r].failure.contract
      named == run[r].failure.named
  IN /\ ~run[r].aborted => NeedsExactly(r, c, named)
     /\ named \cap ({c} \cup Committed(r)) = {}
     /\ run[r].measured = {}
FailureNamesDependents == \A r \in Runs : run[r].failure.contract # 0 => Named(r)

(* Runs that share a key file and do not overlap all deploy from one       *)
(* account, also when the first of them failed or was killed, and the file *)
(* still holds that account's key.  The first of them may have found no    *)
(* file and written one: the Action relies on that, giving HEAD and BASE   *)
(* the name of a file in a fresh directory.                                *)
Apart == \A r, q \in Shared : \/ r = q
                              \/ "idle" \in {run[r].pc, run[q].pc}
                              \/ r \in run[q].after \/ q \in run[r].after
OneAccount ==
  Apart => \A r, q \in Shared :
             "none" \notin {run[r].account, run[q].account} =>
               /\ run[r].account = run[q].account
               /\ file["shared"] = run[r].account

(* What docs/native-measurement.md and the comment of acquireDeployerKey   *)
(* say instead: a key file supplied by the caller is used as it is, and    *)
(* never created, modified or deleted.  Of runs that do not overlap this   *)
(* is true once a key is in it: see OneAccount.                            *)
CallerKeyKept == [][file'["shared"] = file["shared"]]_vars

-----------------------------------------------------------------------------
(* The invariant behind the properties                                      *)

Unplanned == {"idle", "plan", "failed", "killed"}
Keyless   == {"idle", "plan", "look", "open", "write"}
Built     == {"prepare", "send", "poll", "sleep"}

(* No ledger takes back what an earlier one held: an instance is created   *)
(* once, by one transaction and from code that is there, and code is only  *)
(* renewed.                                                                *)
Creates(tx, x) == tx.kind = "create" /\ <<tx.account, tx.wasm>> = x
LedgersKeep ==
  /\ head # 0
  /\ \A l \in 1..head :
       /\ \A x \in Accounts \X Wasms :
            chain[l].inst[x] # 0 => Newest.inst[x] = chain[l].inst[x]
       /\ \A w \in Wasms : chain[l].code[w] <= Newest.code[w]
       /\ chain[l].ok \subseteq Newest.ok
  /\ \A x \in Accounts \X Wasms : \A tx \in Newest.ok :
       Creates(tx, x) => /\ Newest.inst[x] # 0
                         /\ Newest.code[x[2]] # 0
                         /\ \A t2 \in Newest.ok : Creates(t2, x) => t2 = tx

(* The order places a contract once and after what it needs; what lies     *)
(* before at in it has a receipt, and nothing else has.                    *)
Before(r, n) == {run[r].order[i] : i \in 1..(n - 1)}
Ordered(r) ==
  /\ \A i \in 1..Len(run[r].order) : /\ run[r].order[i] \in Cs(r) \ Before(r, i)
                                      /\ Deps(r, run[r].order[i]) \subseteq Before(r, i)
  /\ run[r].pc \notin Unplanned => WellFormed(r) /\ Placed(r) = Cs(r)
  /\ run[r].at <= Len(run[r].order) + 1
  /\ run[r].pc \in Setup => run[r].at <= Len(run[r].order)
  /\ run[r].pc \in {"measure", "done"} => run[r].at = Len(run[r].order) + 1
  /\ run[r].pc \in Keyless \cup {"ready"} => run[r].at = 1
  /\ Committed(r) = Before(r, run[r].at)

(* A run has an account once it has a key, and measures nothing before.    *)
Staged(r) ==
  /\ run[r].pc \in Keyless => run[r].account = "none"
  /\ run[r].pc \in {"ready", "measure", "done"} \cup Setup => run[r].account \in Accounts
  /\ Committed(r) # {} => run[r].account \in Accounts
  /\ run[r].pc \in Keyless \cup {"ready"} \cup Setup => run[r].measured = {}
  /\ run[r].pc = "measure" => run[r].measured \subseteq Cs(r) /\ run[r].measured # Cs(r)
  /\ run[r].failure.contract # 0 => run[r].pc = "failed" /\ Named(r)

(* The transaction of a run is for the contract it deploys, and is not the *)
(* one an earlier contract of it was created by; the instance to be reused *)
(* lives long enough.                                                      *)
CallTells(r) ==
  /\ run[r].pc \notin {"poll", "sleep"} => run[r].call.polls = 0
  /\ run[r].pc = "poll" => run[r].call.polls < world.polls
  /\ run[r].pc \in Built =>
       /\ run[r].call.tx \in Tx
       /\ run[r].call.tx.kind = run[r].call.kind
       /\ <<run[r].call.tx.account, run[r].call.tx.wasm>> = Address(r, Current(r))
       /\ \A c \in Claimed(r) : run[r].call.tx \notin Creations(r, c)
  /\ run[r].pc \in {"poll", "sleep"} => run[r].call.tx \in run[r].sent
  /\ run[r].pc = "code" =>
       /\ run[r].call.since # 0
       /\ Newest.inst[Address(r, Current(r))] >= run[r].call.since + MinTtl

(* Every receipt is borne out by the newest ledger.                        *)
ReceiptsHold(r) ==
  /\ \A c \in Claimed(r) : /\ Creations(r, c) # {}
                           /\ Creations(r, c) \subseteq run[r].sent
                           /\ \A d \in Claimed(r) : Wasm(r, c) = Wasm(r, d) => c = d
  /\ \A c \in Committed(r) \ Claimed(r) :
       /\ run[r].receipts[c].since # 0
       /\ Newest.inst[Address(r, c)] >= run[r].receipts[c].since + MinTtl
       /\ Newest.code[Wasm(r, c)] >= run[r].receipts[c].since + MinTtl

RunInv(r) == Ordered(r) /\ Staged(r) /\ CallTells(r) /\ ReceiptsHold(r)

(* The shared key file goes from absent to empty to the one account, as    *)
(* long as the runs that share it do not overlap.                          *)
KeyKept ==
  /\ \A r \in Runs : \A q \in run[r].after : run[q].pc \in Ended
  /\ Apart => \A r \in Shared :
       /\ run[r].account # "none" => file["shared"] = run[r].account
       /\ run[r].pc = "open" => file["shared"] = NoFile
       /\ run[r].pc = "write" => file["shared"] = Empty

IInv == TypeOK /\ LedgersKeep /\ (\A r \in Runs : RunInv(r)) /\ KeyKept
=============================================================================
