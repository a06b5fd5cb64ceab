# WeighIn in TLA+

WeighIn measures what a pull request does to the resource use of Soroban smart
contracts.  A GitHub Action builds and measures HEAD and BASE against a local
Stellar network, compares the two records with a policy, and reports the
result through a file, outputs and a pull request comment.  A measurement
captures every ledger entry an invocation may touch from an RPC server and
re-executes the invocation on this snapshot with a native helper.

This directory holds TLA+ models of the parts of WeighIn whose correctness
depends on order, failure and concurrency, the TLC runs that check them, and
proofs checked by TLAPS.  `PROJECT.json` lists components, runs, the mapping of
each definition to the code, hazards and theorems.

    tlc -workers 2 -config Deployment.cfg MCDeployment   # one run
    tlapm SnapshotCapture_proof.tla                      # the proofs

## 1. Inventory

| Component | State it keeps | Operations | Hard behaviour | What makes it correct |
|---|---|---|---|---|
| Snapshot capture (`simulation.ts`, `native/simulation/src/main.rs`) | attempt, keys, rows of the attempt, ledger of the simulation, restart causes, hash of the helper | `getNetwork`, `simulateTransaction`, batches of `getLedgerEntries`, `getLedgers`, helper process, restarts | ledgers close between calls, RPC nodes lag, reads fail, the helper's file is replaced, the caller aborts | a result is complete and of one closed ledger, by the helper whose hash it carries; every restart is accounted for; the capture ends |
| Deployment and measurement run (`measurement.ts`, `deployer-key.ts`) | deployer key file, setup results, transactions in flight | probe, upload, create, poll, measure | runs with one key overlap, answers are lost, a transaction commits after its poll gave up, nodes lag | dependencies first; nothing measured before all is committed; receipts are true; reused deployments live long enough |
| Setup plan (`setup-plan.ts`) | the order under construction | `planSetupOrder`, `dependentsOf` | cycles, declaration against dependency order | order respects dependencies; a failure names exactly what it blocks |
| Account readiness (`account.ts`) | deadline | funding by friendbot, confirmation | lost funding answer, lagging RPC, callers with one key file | an existing account is refused only after a lost answer or another's funding; every call is answered |
| Action run (`action.ts`, `output-paths.ts`, `git-utils.ts`) | outputs, files of the workspace, FETCH_HEAD, key directory, worktree | `run`, `loadPolicy`, `checkoutRef`, failure handler | any step fails, the runner kills the job, clean-up fails, runs share a workspace | exit code and outputs agree; a passing run delivered; inputs stay intact; left-overs are announced |
| Report delivery (`report.ts`) | temporary file | create, rename, remove | failures between the steps | a report is never there in part |
| Comment consumer (`comment-action.ts`, `comment.ts`) | the report comment of a pull request | freshness check, paging, update or create | pushes, reruns and other jobs between the calls, deletions, lost answers | one report comment, nobody else's touched, nothing newer overwritten |
| Comparison and policy (`diff.ts`, `threshold.ts`, `config.ts`) | violations, status of the policy | pairing, deltas, sums, thresholds, limits | zero and null baselines, boundaries, rules with nothing to apply to | agrees with the documented rules; more never passes where less fails |
| Helper provisioning (`simulation.ts`) | one build attempt of the process | `resolveSimulationHelper` | concurrent callers, a failed attempt | attempts are shared, a failure is not remembered |
| Contract build (`build.ts`, `build-selection.ts`) | inputs' hashes, artifacts | cargo, publication | inputs change under the build | an artifact belongs to the inputs hashed |
| Source-account effects (`source-account.ts`) | runs to compare | runs under several source accounts | ledgers differ between runs | compares only what held still |
| Record schema, identity, SDK versions, endpoints, CLI | none | validation, parsing, printing | - | - |
| Local network start-up (`scripts/`) | holder of the container's name, container ID, deadline | inspect, replace, run, wait, clean up | starts overlap, containers of others, signals at any command, a shared deadline | only what may be replaced is removed; a failed start leaves nothing; success means served; the start ends |

How they interact: `run` of `action.ts` builds, then calls `runMeasurement` for
HEAD and, in a worktree, for BASE, with one deployer key file for both;
`runMeasurement` plans the setup, deploys, and calls `measureInvocation` for
every invocation; `run` compares the records and delivers.  The comment
consumer is a workflow of its own, started when the producer's run has
finished, and takes what it needs from an artifact.  The components share
state only through files (key file, report, metadata, `FETCH_HEAD`), the
ledger, and the comments of the pull request.

The hazards of this code, each at its line, with the properties that would
catch it, are in `PROJECT.json`.

## 2. Modules

| Module | Models | Run by |
|---|---|---|
| `AtomicMeasurement` | what `measureInvocation` promises: the state of one ledger in one step, or nothing | `AtomicSpec` of `SnapshotCapture` |
| `SnapshotCapture` | `measureInvocation` and the helper's view of a snapshot | `MCSnapshotCapture` |
| `SnapshotCapture_proof`, `SnapshotRestarts_proof` | theorems about it: its results, and its restarts | TLAPS |
| `Deployment` | `runMeasurement`, `planSetupOrder`, `dependentsOf`, `acquireDeployerKey` | `MCDeployment` |
| `Deployment_proof` | theorems about it | TLAPS |
| `ActionRun` | `run` of `action.ts`, output path check, report delivery | `MCActionRun` |
| `ActionRun_proof` | theorems about it | TLAPS |
| `CommentConsumer` | `run` of `comment-action.ts` and `comment.ts` | `MCCommentConsumer` |
| `CommentConsumer_proof` | theorems about it | TLAPS |
| `AccountReadiness` | `ensureAccountReady`: the calls of any number of clients | extended by `NetworkStartup` |
| `NetworkStartup` | `start-local-network.sh`, `wait-for-local-network.cjs`, and a measurement's call of `ensureAccountReady` on the network | `MCNetworkStartup` |
| `NetworkStartup_proof` | theorems about both | TLAPS |
| `Comparison` | `diff.ts`, `threshold.ts` and the steps of `run` that call them, with the documented rules as reference | `MCComparison` |
| `Comparison_proof` | theorems about it | TLAPS |

Everywhere one action is one `await` with the synchronous code after it (or,
where files are shared with other processes, one file operation): this is the
grain at which JavaScript interleaves.  `pc` names the await the code is at.

### SnapshotCapture

`pc` runs through `network`, `simulate`, `read`, `header`, `identify`,
`execute`, `settle`, `emit`; `backoff` is the timer after a failed read.  The
variables have the names of the code: `keys` survives a restart, `rows` does
not, `pending` is the rest of the sorted requests.  A *chain* gives what every
ledger holds once closed, and which keys the invocation reads on it (`foot`
from the RPC simulation, `extra` that only the host finds out).

- `mode`, chosen from `Modes` in the initial state, holds the conditions of a
  measurement: `Lag`, `Transport` and `Faults`.  The one run has three of them:
  every fault on a single node; nodes a ledger apart; nothing going wrong.
- `Lag` is how far an answering node of the RPC pool may be behind the newest
  ledger; a single node is `Lag = 0`.
- `Transport` is how the helper names keys it misses: `"stderr"` for helpers
  that print `UNCAPTURED_KEY` lines, which a caller may supply, `"envelope"`
  for the helper of this repository.
- A malformed RPC answer, a transport error and a refused passphrase are all
  `RpcFails`; limits and metrics of the result are not modelled.
- The helper's file never turns back to earlier contents: a swap undone between
  two hashes cannot be seen by any check of the code.
- The signal is heeded where the code awaits something cancellable, not
  between synchronous steps.

### Deployment

`run[r].pc` is where a run is: `plan`, `look`/`open`/`write` for the key file,
`ready`, the steps of `ensureContractDeployed` and `waitForTransaction`, then
`measure`.  The address of a contract is the pair of account and WASM, as its
salt is the hash of the WASM hash.  A ledger closes with at most one of the
waiting transactions (two in one ledger are two ledgers), in the order of
sequence numbers; one that never comes to a ledger is lost.  `second` of a
transaction is the second it was built in: transactions equal in everything
have one hash, and a second submission of it is a DUPLICATE.  No second outlasts
a ledger: a transaction that is in a ledger is not built once more from an
older account state, since the one built then would have another hash, and be
refused for its used number (`SetupFails`).  `since` of a
receipt and `after`, `sent` of a run are history, for the properties only.
A call that throws, an answer that is refused and an abort noticed are one
step, `SetupFails`.  What `measureInvocation` does is in `SnapshotCapture`.
Artifacts are assumed not to change between preflight and upload.
`world`, chosen from `Worlds` in the initial state, holds what does not change:
the fixtures of the runs, how far nodes may lag, and the bounds on polls and
ledgers.

### ActionRun

A run goes through the checks, HEAD, BASE, the comparison and the deliveries
in the order of `run`; `finally` and `catch` are its `finally` block and the
failure handler of `action.ts`.  Paths are abstracted to *places*: two names
of one file are one place.  The two writes to `GITHUB_OUTPUT` that always go
together are one step, a failed write of the temporary report is a failed
creation or rename.  `Faults` says which runs may be killed and which may fail
in their clean-up.

The check of the output paths ends in one of two ways.  `Accept` needs places
that do not collide with one another or with an input (`Collides`), and resets
`outputPathsRejected`.  `Refuse` is open to every run and leaves it set: a
symbolic link, a path inside another and a path that cannot be resolved are
refused as well, whatever the places.  `RefsAssumption` says that the empty
string, which stands for "not fetched yet", is not the name of a ref.

### CommentConsumer

Revisions are numbered in the order they are pushed and the head only grows
(no force-push back).  A comment is its author, whether it has the marker, and
the revision it reports.  Pages are positions in the list of live comments, as
in GitHub's API, so a deletion between two pages moves comments.  An update or
creation may be done and its answer lost.  `serial` is chosen in the initial
state: with it, jobs do not overlap, as under a `concurrency` group.

### AccountReadiness and NetworkStartup

`ask[c]` is one call of `ensureAccountReady`: one action is one HTTP request or
one pause, its `clock` counts ticks to the deadline `until`, and a request
takes any time up to the timeout the code gives it.  A funding answer may be
lost before or after friendbot submitted the account; `lost` and `exists` are
history for the properties.  An account goes from `absent` through `pending`
(submitted) and `included` to `visible` (the RPC shows it).  `AccountOf` says whose
it is: the script asks for that of a new key pair (`OwnAccounts`), while
measurements that are given one key file share one, and may ask at the same
time.  `Stands(c)` is how far the account of client `c` has come.

`proc[s].pc` is where a script is: `idle` to `remove` before the traps are
installed, `run` with them, `health`, `account` and `config` inside the wait,
`logs` and `stop` in the exit trap.  `container` says who holds the fixed name,
by which the script inspects and removes; a container goes with its network, so
accounts and health are lost when the name changes hands.  Bash runs a trap
when the command in the foreground has returned: a signal is first noted
(`signalled`) and takes effect with the command's end, which is how it is known
whether the ID of a container was learnt.  `cast`, chosen from `Casts`, says who
takes part, who is authorised to replace, and whether signals and other
programs interfere.  The Docker daemon and the network are external.

### Comparison

A measurement is a function from benchmark identities to metrics and
environment; a policy has the tables of `weighin.toml`.  `DiffBenchmarks`,
`FunctionViolations`, `AggregateViolated` and `Evaluable` follow the code.
Below them stand the rules as the documentation gives them (`Accepted`), written
without the code's differences, percentages and selection sets: cross-multiplied
and selector by selector.  A percentage is the pair of growth and base; the
double `(growth / base) * 100` decides like the exact quotient, except that
growth by just the cap exceeds it for the pairs in `RoundsUp`, which
`MCComparison` lists for its values.

## 3. Runs

| Run | Asks | Distinct states |
|---|---|---|
| `SnapshotCapture` | five histories; every fault on a single node, an RPC pool one ledger apart, or no fault at all: is a result complete, of one ledger, by the right helper; are restarts counted and paid for; do rows stay within an attempt; is the abstract measurement implemented; does a capture end though answers may swing for ever, and succeed when attempts outnumber ledgers and keys | 408 700 |
| `SnapshotEnvelope` | *violation*: a key the repository's helper misses should start a new capture | stops at the violation |
| `Deployment` | chain of three contracts declared backwards, a cycle, two contracts with one WASM behind nodes one ledger apart, each against a run that deploys one of the same contracts with the same key | 1 599 807 |
| `CallerKey` | *violation*: a key file the caller names should never be created | stops at the violation |
| `ActionRun` | two runs, in turn or overlapping, every step failing, the first killed anywhere | 1 383 304 |
| `ActionFixtures` | *violation*: an aliased fixtures file should be left untouched | stops at the violation |
| `CommentConsumer` | two jobs for two revisions, each run twice | 133 201 |
| `CommentRace` | *violation*: an older job should never overwrite a newer result | stops at the violation |
| `NetworkStartup` | two overlapping starts; a start under signals and other containers; a start, then two measurements with one key file, of which one may be aborted: what is removed, left behind and promised, who is refused funds, and does everything end | 232 736 |
| `UnownedContainer` | *violation*: an unowned container should be preserved by a start that was not authorised | stops at the violation |
| `Comparison` | rules and limits on functions and sums over zero, unavailable, equal and growing values, unmatched and incompatible benchmarks: is the verdict the documented one, does more never fare better | 37 160 |
| `ExactPercentage` | *violation*: growth by exactly the allowed percentage should pass | stops at the violation |

Every property of a passing run has a mutant: the `Bug...` operator beside the
definition it replaces is a plausible mistake in that code, and with it TLC
finds the property violated.

**Bounds, and why they suffice.**  Snapshot: batches of two of four keys make
each capture two calls, so a ledger can close between them; four attempts
allow restarts after restarts and exhaustion, and without faults they outnumber
what three ledgers and a footprint can cost; one tolerated read failure
allows both sides of the limit; with three ledgers one closes in several
attempts, so that restarts follow each other.  The histories make a key move into
the footprint, appear and be archived, upgrade the protocol, lack the
configuration, and change entries only the host reads.
Deployment: with one transaction per ledger, five ledgers are just enough to deploy
two WASMs; two polls let a transaction commit after the last; an entry lives
three ledgers, so that with a minimum of two a deployment may be reused for one
ledger and is refused the next.  An entry that has expired within the
behaviour is in the model but beyond this bound.  Comments: pages of one comment, so any
other comment makes two pages; each job runs twice, so a rerun meets its own
comment and another job's.  Action: a later run meets what a killed one left.
Network: health and configuration share two ticks and a probe takes up to one,
so the first can use up the time of the second; with a readiness of two ticks a
start has the time to succeed while the other overlaps it, and its last request
is cut by the deadline; with three there is room for a second request after a
lost answer, and for two measurements that fund one account.  Signals and other
containers are explored with one start, overlap with two.  Comparison: 0, 50, 100, 107 and 110 lie below, on and above every
boundary of caps of 7 and 10 percent and of the limits 100 to 110 on functions
and 210 and 220 on sums; three benchmarks of
two functions make selectors ambiguous, repeated, overlapping or empty.

**Fairness.**  `SnapshotCapture` assumes weak fairness of the client's `Step`:
every RPC call, the helper and the backoff have time limits in the code, so the
client goes on whatever the network does; nothing is assumed of the ledger.
`CommentConsumer` assumes it of a job's next call, but not that a job is
started.  `NetworkStartup` assumes it of each script and of each measurement's
call of `ensureAccountReady` (not that a measurement calls it): requests and pauses have timeouts in the code, and `docker` commands,
which have none, are taken to return.  Nothing is assumed of the network, of
signals or of other programs.  No liveness is claimed for `ActionRun` (a build
has no time limit), `Deployment` or `Comparison`.

**Deadlock** is checked in the snapshot runs.  The other systems stop when all
runs or jobs are over and the bounds are reached.

## 4. Proofs

`SnapshotCapture_proof` proves, for every set of keys, history, batch size,
lag, transport, set of faults and every number of attempts, from the named
assumptions on the constants alone:

- `Invariance`: `Spec => []IInv`;
- `TypeCorrect`, `Consistency`, `Completeness`, `HelperIdentity`,
  `ProtocolOfLedger`, `AbortHeeded`, `FreshRows`: the invariants of the runs;
- `Refinement`: `Spec => AtomicSpec`, the capture implements
  `AtomicMeasurement`.

Consistency is not inductive: it speaks of the result, and the result is
assembled over many steps.  `IInv` carries it backwards.  `CaptureInv` says
that while a capture is open each row that belongs to its key is the entry
*of the simulated ledger*, which is a closed one no older than the lag permits, and that
the rows are exactly the present keys already asked for.  `CheckedInv` adds
what `GetHeader` has established (protocol, rows under their own keys),
`CompleteInv` what a successful helper has (all keys needed, none archived),
`HelperInv` that the first hash, the version that ran and the file on disk are
ordered, so that equality at the end leaves no room for another file in
between, `CountInv` bounds the counters, `ResultInv` is the goal.  There is one
lemma per action, with one step per conjunct it can disturb; the temporal
theorems combine them.  The refinement maps the result and "the call is over":
only the returning step is a `Measure` of the abstract specification, and it
is allowed because `ResultInv` holds in the state it reaches.

`NetworkStartup_proof` proves, for any number of starts, clients, deadlines and
timeouts: `TypeCorrect` (no clock passes its deadlines), `CleanUp`,
`Readiness`, `FundingNotRepeated` and the action property `Removals`.  The
invariant has a part for each call (`CallOf`: it asks for funds only while no request
was accepted), one for each measurement (`MeasureInv`: its account is there only
if a client *with the same key file* had it funded or lost an answer, and one
that was refused can point at such a client other than itself, or at a loss)
and one for each script (`ScriptOf`: what its place says of ID,
signal and clocks, and that its account, which nobody shares, is there only by
its own doing; `OwnOf`: what it has seen served, *as long as its container
still holds the name*).  The second is what makes overlapping starts provable:
nothing a script learnt is claimed once another has replaced its container, and
a step that leaves the network alone cannot disturb it (`Calm`).

`CommentConsumer_proof` proves, for any jobs, revisions, artifacts, page size
and bounds: `TypeCorrect`, `OneReportKept`, `CurrentReportKept`, and the action
properties `OthersKept`, `SerialOrder` and `StaleSilent`.  `JobInv` says that
a job past its check started at the head; `SerialInv` that without overlap no report is
newer than the job about to write; `UniqueInv` that without
deletions every report lies beyond the pages listed so far, so that a job that
has seen the last page knows there is none.  The lemmas on pages are facts about
cardinalities: a live comment's position is at most their number, and appending
moves none.

`SnapshotRestarts_proof` adds, under the same assumptions, `CausesComplete` and
`NoSpuriousRestart`.  Both speak of sums of counters that grow in four places, and
neither is inductive: that a drift is paid for by a closed ledger is only known
because the capture it interrupted had begun at a ledger which drifts so far had
already paid for.  `RestartInv` says so: without lag an *open* capture has seen no
more drifts than ledgers closed up to its own (`PaidInv`), and attempts and
causes go together, one apart while the client backs off (`CauseInv`).  It is
inductive relative to the `IInv` of the capture.

`ActionRun_proof` proves, for any number of runs, inputs, places and faults:
`TypeCorrect`, `OutputsAgree`, `ReportsWhole`, `LeftoversTold`, `RevisionsKept`,
and the action properties `PassesDeliver`, `InputsUntouched` and `ReportsOwn`:
everything the run of TLC checks.  The properties speak of a run that exits,
many steps after what they speak of was done, in files that other runs write
too.  The invariant has a part for each: `OutcomeOf` (what outputs and failure
flags are at each step, and whose report a shared step writes), `PathsOf` (paths
in use have passed their check), `LeftOf` (what is not put away yet still will
be, or was announced), `RefsOf` (`FETCH_HEAD` is what the next reader fetched)
and `WrittenOf` (what was written is still there).  The last two hold of runs
that do not overlap (`serial`), which `SerialInv` turns into "no two runs are
active".  A step of one run changes only its own record and its part of the
files (`Frame`); one lemma per action shows that, and the parts of its own run.

`Deployment_proof` proves, for any fixtures, number of overlapping runs, shared
keys, lag, polls and ledgers: `TypeCorrect`, `DependenciesDeployedFirst`,
`MeasuredWhenCommitted`, `ReceiptsAreTrue`, `ReusedOutlives`, `FailuresNamed` and
`AccountShared`, again everything the run checks, and `AcyclicIsPlanned`.  What a run relies on was seen
on some node at some earlier ledger, so the first part of `IInv` is about the
ledgers: `LedgersKeep` says that none takes back what an earlier one held, and that
an instance is created once, by one transaction, from code that is there.  Then
each run: `Ordered` (the plan places every contract once and after what it
needs, and exactly what lies before `at` has a receipt), `Staged` (account and
measurements by the step it is at), `CallTells` (the transaction in flight is for
the current contract, and *not the one an earlier contract of the run was created
by*: this is what makes "created" true when two contracts share a WASM) and
`ReceiptsHold`.  `KeyKept` follows the shared key file through absent, empty and
written.  A step of a run disturbs the others only through the key file and what
is in flight (`OthersKept`), and a closing ledger only adds (`LedgerKeeps`).
That `dependentsOf` names exactly the least closed set rests on facts about the
recursive function it computes; they are shown by least counterexample
(`LeastOf`, `UpTo`), as the induction theorems of the library cannot be used.
`AcyclicIsPlanned` adds what no run can ask, since it quantifies over rankings:
while a well-formed fixture whose dependencies can be ranked has contracts left
one of them can be placed, and a run past its plan has such a fixture, so
`planSetupOrder` gets through the acyclic fixtures and no others.

`Comparison_proof` proves `VerdictAsDocumentedAlways` and
`WorseNeverPassesAlways` for every policy and every pair of measurements.  The
arithmetic is `ExceedsAsDocumented`: `100 (h - b) > cap b` against
`100 h > (100 + cap) b`.  For sums the code folds over the set of benchmarks the
selectors matched, the documentation adds up over the selectors.  The two are
equal because the order of summation does not matter (`AnyOrder`) and the
selectors of an aggregate that can be judged stand for one benchmark each, no two
for the same (`Resolved`, by counting; `Reindexed`); that less of each is no more
in all is `LessInAll`.  These are inductions over finite sets, done as least
counterexamples over cardinalities (`SubsetInduction`), and `SumExists` shows
that the recursive function behind a sum exists at all.  The invariant is small:
what is judged can be evaluated, and `violations` are those of the inputs.

The assumptions are those named in the modules, which TLC evaluates in every
run: that constants have their types, that names of one kind are not values of
another, and, of the inputs of `Comparison`, that lists are finite and that a
missing policy (`null`) has no rules.

**Only model-checked:** liveness (`Terminates`, `HealthyMeasured`, `JobsEnd`,
`StartEnds`), which is out of the prover's reach.  Every invariant and every
action property of the passing runs, and the refinement, is a theorem.

## 5. What the runs found

- `SnapshotEnvelope`: `simulateSnapshot` replaces the failure of the helper by
  an error without the envelope, so the keys a helper of this repository
  reports as missing never start a new capture.  The docs describe that recapture.
- `CommentRace`: the head is read once; a job that passed the check before a
  push can overwrite the report of the job for the new head.  `README.md` says
  it never does.  `SerialNeverOverwritesNewer` shows that a concurrency group
  makes the sentence true.
- `UnownedContainer`: the start script inspects and removes by name, in two
  commands.  An unowned container that takes the name in between is removed,
  though `docs/network-readiness.md:41` says that an unowned name collision is
  preserved.  `RemovalsJustified` is what remains true.
- `CallerKey`: `getOrInitAccount` creates a key file that the caller names and
  that does not exist.  `docs/native-measurement.md:134` and the comment of
  `acquireDeployerKey` say that a caller's key file is never created; the Action
  depends on the creation.  `OneAccount` is about the code as it is.
- `ActionFixtures`: a run that fails before the check of the output paths
  writes its failure report to `report-path` even where that is the fixtures file.
- `ExactPercentage`: growth by exactly N percent is rejected by
  `allow_N_percent_increase` where the double computed for it is larger than N:
  from 100 to 107 with N = 7, `(7 / 100) * 100` is 7.000000000000001.
  `VerdictAsDocumentedAlways` proves that no other verdict deviates (for growths
  below 2^45, where rounding changes no other comparison).

What the properties leave out, because the code is so:

- A run whose output paths are refused writes no report and does not warn, so
  the report of an earlier run stays at `report-path`.  `ReportOfThisRun`
  excepts these runs (`Refused`), and only these; their exit code and outputs
  tell (`OutputsTell`).
- Measurements that share a key file can make its account ready at the same time:
  one has it funded, the other is refused for good although the account is there.
  `RefusedOnlyAfterLoss` names this case beside the lost answer.
- A signal between `ready=1` and the script's exit ends the script with an error,
  but the clean-up finds `ready` set and lets the network stay:
  `NothingLeftBehind` counts it as a success.  A
  start whose `docker run` failed without telling an ID is excused although a
  container may have been created: the script's comment says that any exit stops
  the container the attempt started.

Two more disagreements were met while modelling and have no run of their own.
`resolveEffectivePolicy` (`threshold.ts:599`) does not look at aggregates, so a
policy of aggregates alone that fails is reported as "empty"; the last part of
`VerdictAsDocumented` is therefore about rules on functions.  The wait for the
compute configuration shares its deadline with the health check
(`wait-for-local-network.cjs:43`): when funding the account takes longer than
that, the configuration is reported missing without having been asked for.

## 6. Not modelled, and the plan

Not modelled:

- the metering inside `soroban-simulation` and the XDR codecs (third party), and
  the bundles of `src/bundled/`, which are generated from the sources;
- record validation, identities, SDK versions, endpoints, the CLI, rendering and
  parsing: long structural checks and text without state of their own, whose
  models would repeat them line by line;
- helper provisioning: one shared promise, cleared only by its own failure;
- contract builds: planning is path arithmetic over the file system, and what
  counts as an input is a list of file names;
- source-account effects: a field-by-field comparison of finished runs;
- in the comparability of records, the fields of a metric other than its
  availability: they could only refuse more comparisons;
- supply-chain scripts, the example contract and the retained evidence.

The models cover the parts of the code whose state changes over time.  The
bundles alone are some hundred thousand lines, against eleven thousand of the
program itself, so the share of all lines that the map names stays small.

The plan, in this order:

1. `Deployment` composed with `AccountReadiness` in its `ready` step.
2. `ContractBuild` (`build.ts`): which destination holds whose artifact after a
   build that fails half-way.
