------------------------------ MODULE ActionRun ------------------------------
(***************************************************************************)
(* One execution of the GitHub Action (src/action.ts): inputs, checks, the *)
(* measurement of HEAD and of BASE in a worktree, the comparison, and the  *)
(* delivery of its result through outputs, summary, report, metadata and a *)
(* comment; the clean-up in `finally` blocks and the handler of a failure. *)
(*                                                                         *)
(* Runs share a workspace: its files and the FETCH_HEAD of its repository. *)
(* Every step may fail, and the runner may kill a run between two steps.   *)
(* What a measurement does is the subject of other modules.                *)
(***************************************************************************)
EXTENDS FiniteSets

CONSTANTS
  Runs,         \* executions of the Action in one workspace
  Inputs,       \* Inputs[r]: the inputs run r may be given
  BaseRef,      \* BaseRef[r]: the revision base-ref names for run r
  PolicyRef,    \* the revision trusted-policy-ref names
  Faults,       \* Faults[r]: whether run r may be killed, its clean-up may fail
  Serializing   \* whether runs may overlap: a subset of BOOLEAN

Places  == {"fixtures.json", "weighin.toml", "report.md", "metadata.json"}
Sources == {"fixtures.json", "weighin.toml"}

(* report, metadata: the outputs asked for.  config: whether config-path   *)
(* is given, or left empty for the default weighin.toml.  trusted: whether *)
(* the policy is read from origin.  pr: whether the event is a pull        *)
(* request.  token: whether there is a github-token.                       *)
Input == [report : Places \cup {""}, metadata : Places \cup {""},
          config : BOOLEAN, trusted : BOOLEAN, pr : BOOLEAN, token : BOOLEAN]

ASSUME InputsAssumption == Inputs \in [Runs -> (SUBSET Input) \ {{}}]
ASSUME RunsAssumption == /\ IsFiniteSet(Runs)
                         /\ Faults \in [Runs -> SUBSET {"kill", "cleanup"}]
                         /\ Serializing \subseteq BOOLEAN
\* validateBaseRef refuses an empty ref, and no policy is asked of an empty one.
ASSUME RefsAssumption == "" \notin {BaseRef[r] : r \in Runs} \cup {PolicyRef}

VARIABLES
  serial,      \* runs do not overlap
  run,         \* the state of each run
  files,       \* what each file of the workspace holds
  fetchHead,   \* the revision FETCH_HEAD names
  temps,       \* the reports that are in temporary files
  keyDirs,     \* runs whose deployer key directory exists
  worktrees    \* runs whose BASE worktree directory exists

shared == <<serial, files, fetchHead, temps, keyDirs, worktrees>>
vars   == <<shared, run>>

Revisions == {BaseRef[r] : r \in Runs} \cup {PolicyRef}

(* What a file may hold: what the repository put there, nothing, a report  *)
(* of a comparison or of a failure, metadata, or a part of one of these.   *)
Content == [kind : {"source", "absent", "full", "failure", "metadata", "partial"},
            by : Runs \cup {""}]
Of(kind, r) == [kind |-> kind, by |-> r]

Active == {"inputs", "rpc", "paths", "policy", "resolve", "head", "fetch", "worktree",
           "base", "remove", "compare", "summary", "create", "rename", "truncate",
           "metadata", "comment", "status", "finally", "catch", "failureSummary"}
Ended  == {"exited", "killed"}

State == [pc : Active \cup Ended \cup {"idle"},
          input : Input,
          rejected : BOOLEAN,     \* outputPathsRejected
          checked : BOOLEAN,      \* the output paths passed their check
          policy : Revisions \cup {"", "head"},
          base : Revisions \cup {""},
          diff : BOOLEAN,         \* validatedDiffJson is set
          violations : BOOLEAN,
          error : BOOLEAN,        \* an error is on its way to the handler
          warned : BOOLEAN,       \* core.warning was called
          result : {"", "pass", "fail"},
          diffJson : {"", "{}", "diff"},
          failed : BOOLEAN]       \* core.setFailed: the exit code will be 1

Goto(r, step)  == run' = [run EXCEPT ![r].pc = step]
Throw(r, step) == run' = [run EXCEPT ![r].pc = step, ![r].error = TRUE]
Warn(r, step)  == run' = [run EXCEPT ![r].pc = step, ![r].warned = TRUE]
At(r, step)    == run[r].pc = step

Put(place, content) == files' = [files EXCEPT ![place] = content]

-----------------------------------------------------------------------------
(* Checks                                                                   *)

Init == /\ serial \in Serializing
        /\ run = [r \in Runs |->
             [pc |-> "idle", input |-> CHOOSE i \in Inputs[r] : TRUE,
              rejected |-> FALSE, checked |-> FALSE, policy |-> "", base |-> "",
              diff |-> FALSE, violations |-> FALSE, error |-> FALSE, warned |-> FALSE,
              result |-> "", diffJson |-> "", failed |-> FALSE]]
        /\ files = [p \in Places |-> Of(IF p \in Sources THEN "source" ELSE "absent", "")]
        /\ fetchHead = ""
        /\ temps = {} /\ keyDirs = {} /\ worktrees = {}

Invoke(r) ==
  /\ At(r, "idle")
  /\ serial => \A other \in Runs : run[other].pc \notin Active
  /\ \E i \in Inputs[r] : run' = [run EXCEPT ![r].pc = "inputs", ![r].input = i]
  /\ UNCHANGED shared

(* Bad inputs and bad base refs; then the key directory is made.           *)
ReadInputs(r) ==
  /\ At(r, "inputs")
  /\ \/ Goto(r, "rpc") /\ keyDirs' = keyDirs \cup {r}
     \/ Throw(r, "catch") /\ UNCHANGED keyDirs
  /\ UNCHANGED <<serial, files, fetchHead, temps, worktrees>>

(* assertRpcHealthy sets the exit code before it throws.                   *)
CheckRpc(r) ==
  /\ At(r, "rpc")
  /\ \/ Goto(r, "paths")
     \/ run' = [run EXCEPT ![r].pc = "finally", ![r].error = TRUE, ![r].failed = TRUE]
  /\ UNCHANGED shared

(* assertDistinctOutputPaths: an empty path takes no part, and no output   *)
(* may be the same file as another path.                                   *)
NamedSources(input) == {"fixtures.json"} \cup (IF input.config THEN {"weighin.toml"} ELSE {})

\* Bug: only the outputs are compared with each other.
BugOutputsOnly(input) == input.report = input.metadata /\ input.report # ""
Collides(input) == \/ input.report = input.metadata /\ input.report # ""
                   \/ {input.report, input.metadata} \cap NamedSources(input) # {}

\* Bug: outputPathsRejected is not reset when the check has passed.
BugStaysRejected(r) ==
  run' = [run EXCEPT ![r].pc = "policy", ![r].checked = TRUE, ![r].rejected = TRUE]
Accept(r) == run' = [run EXCEPT ![r].pc = "policy", ![r].checked = TRUE]

(* It also refuses an output that is a symbolic link or lies inside        *)
(* another path, and throws when a path cannot be resolved: whichever it   *)
(* is, outputPathsRejected stays set.                                      *)
Refuse(r) ==
  run' = [run EXCEPT ![r].pc = "finally", ![r].error = TRUE, ![r].rejected = TRUE]

CheckPaths(r) ==
  /\ At(r, "paths")
  /\ \/ Throw(r, "finally")    \* fixtures-path leaves the workspace
     \/ Refuse(r)
     \/ ~Collides(run[r].input) /\ Accept(r)
  /\ UNCHANGED shared

(* loadPolicy: HEAD's file, or the file of a revision fetched from origin, *)
(* which is then read off FETCH_HEAD.                                      *)
\* Bug: the policy's revision is not fetched.
BugPolicyNotFetched(r) == UNCHANGED fetchHead
PolicyFetched(r) == fetchHead' = PolicyRef

LoadPolicy(r) ==
  /\ At(r, "policy")
  /\ \/ Throw(r, "finally") /\ UNCHANGED fetchHead
     \/ /\ ~run[r].input.trusted
        /\ run' = [run EXCEPT ![r].pc = "head", ![r].policy = "head"]
        /\ UNCHANGED fetchHead
     \/ /\ run[r].input.trusted
        /\ Goto(r, "resolve")
        /\ PolicyFetched(r)
  /\ UNCHANGED <<serial, files, temps, keyDirs, worktrees>>

ResolvePolicy(r) ==
  /\ At(r, "resolve")
  /\ \/ Throw(r, "finally")
     \/ run' = [run EXCEPT ![r].pc = "head", ![r].policy = fetchHead]
  /\ UNCHANGED shared

-----------------------------------------------------------------------------
(* Measurement                                                              *)

(* The clean workspace, the build and the measurement of HEAD.             *)
MeasureHead(r) ==
  /\ At(r, "head")
  /\ Goto(r, "fetch") \/ Throw(r, "finally")
  /\ UNCHANGED shared

(* checkoutRef: git fetch, mkdtemp.                                        *)
\* Bug: the revision is taken from the last fetch.
BugNoFetch(r) == UNCHANGED fetchHead
Fetched(r) == fetchHead' = BaseRef[r]

Fetch(r) ==
  /\ At(r, "fetch")
  /\ \/ Goto(r, "worktree") /\ Fetched(r) /\ worktrees' = worktrees \cup {r}
     \/ Throw(r, "finally") /\ UNCHANGED <<fetchHead, worktrees>>
  /\ UNCHANGED <<serial, files, temps, keyDirs>>

(* checkoutRef: git worktree add ... FETCH_HEAD.                           *)
AddWorktree(r) ==
  /\ At(r, "worktree")
  /\ \/ run' = [run EXCEPT ![r].pc = "base", ![r].base = fetchHead]
     \/ Throw(r, "remove")
  /\ UNCHANGED shared

MeasureBase(r) ==
  /\ At(r, "base")
  /\ Goto(r, "remove") \/ Throw(r, "remove")
  /\ UNCHANGED shared

(* removeWorktree: a failure is a warning.                                 *)
RemoveWorktree(r) ==
  /\ At(r, "remove")
  /\ LET next == IF run[r].error THEN "finally" ELSE "compare"
     IN \/ Goto(r, next) /\ worktrees' = worktrees \ {r}
        \/ "cleanup" \in Faults[r] /\ Warn(r, next) /\ UNCHANGED worktrees
  /\ UNCHANGED <<serial, files, fetchHead, temps, keyDirs>>

(* diffBenchmarks, enforceThresholds and the outputs.                      *)
Compare(r) ==
  /\ At(r, "compare")
  /\ \/ Throw(r, "finally")
     \/ \E v \in BOOLEAN :
          run' = [run EXCEPT ![r].pc = "summary", ![r].diff = TRUE, ![r].violations = v,
                             ![r].result = IF v THEN "fail" ELSE "pass",
                             ![r].diffJson = "diff"]
  /\ UNCHANGED shared

-----------------------------------------------------------------------------
(* Delivery                                                                 *)

WriteSummary(r) ==
  /\ At(r, "summary")
  /\ Goto(r, "create") \/ Throw(r, "finally")
  /\ UNCHANGED shared

(* writeReportFile serves the comparison and the handler of a failure: an  *)
(* error is thrown in the first and becomes a warning in the second.       *)
Report(r) == Of(IF run[r].error THEN "failure" ELSE "full", r)

AfterReport(r) == IF run[r].error THEN "failureSummary" ELSE "truncate"

\* Bug: a report that cannot be written is only a warning.
BugSwallowed(r) == Warn(r, AfterReport(r))
ReportFails(r) == IF run[r].error THEN Warn(r, "failureSummary") ELSE Throw(r, "finally")

(* createOwnedTemporaryFile and the write; a write that fails leaves the   *)
(* file to Rename's clean-up.                                              *)
\* Bug: the report is written to its place directly.
BugInPlace(r) == Put(run[r].input.report, Of("partial", r)) /\ temps' = temps \cup {Report(r)}
WriteTemp(r) == temps' = temps \cup {Report(r)} /\ UNCHANGED files

CreateTemp(r) ==
  /\ At(r, "create")
  /\ \/ run[r].input.report = "" /\ Goto(r, AfterReport(r)) /\ UNCHANGED <<files, temps>>
     \/ run[r].input.report # "" /\ Goto(r, "rename") /\ WriteTemp(r)
     \/ run[r].input.report # "" /\ ReportFails(r) /\ UNCHANGED <<files, temps>>
  /\ UNCHANGED <<serial, fetchHead, keyDirs, worktrees>>

(* The rename, or the removal of the temporary file, which may fail too.   *)
\* Bug: the temporary file stays when the rename fails.
BugKeepsTemp(r) == ReportFails(r) /\ UNCHANGED temps
Discard(r) ==
  \/ ReportFails(r) /\ temps' = temps \ {Report(r)}
  \/ /\ "cleanup" \in Faults[r]
     /\ run' = [run EXCEPT ![r].pc = IF run[r].error THEN "failureSummary" ELSE "finally",
                           ![r].warned = TRUE, ![r].error = TRUE]
     /\ UNCHANGED temps

Rename(r) ==
  /\ At(r, "rename")
  /\ \/ /\ Put(run[r].input.report, Report(r))
        /\ temps' = temps \ {Report(r)}
        /\ Goto(r, AfterReport(r))
     \/ Discard(r) /\ UNCHANGED files
  /\ UNCHANGED <<serial, fetchHead, keyDirs, worktrees>>

(* The metadata is written in place: opening the file empties it.          *)
Truncate(r) ==
  /\ At(r, "truncate")
  /\ LET wanted == run[r].input.metadata # "" /\ run[r].input.pr
     IN \/ ~wanted /\ Goto(r, "comment") /\ UNCHANGED files
        \/ wanted /\ Goto(r, "metadata") /\ Put(run[r].input.metadata, Of("partial", r))
        \/ wanted /\ Throw(r, "finally") /\ UNCHANGED files
  /\ UNCHANGED <<serial, fetchHead, temps, keyDirs, worktrees>>

WriteMetadata(r) ==
  /\ At(r, "metadata")
  /\ \/ Goto(r, "comment") /\ Put(run[r].input.metadata, Of("metadata", r))
     \/ Throw(r, "finally") /\ UNCHANGED files
  /\ UNCHANGED <<serial, fetchHead, temps, keyDirs, worktrees>>

(* upsertPrComment: a failure is a warning.                                *)
PostComment(r) ==
  /\ At(r, "comment")
  /\ \/ Goto(r, "status")
     \/ run[r].input.token /\ Warn(r, "status")
  /\ UNCHANGED shared

SetStatus(r) ==
  /\ At(r, "status")
  /\ run' = [run EXCEPT ![r].pc = "finally", ![r].failed = run[r].violations]
  /\ UNCHANGED shared

(* The outer finally: a key directory that cannot be removed is a warning. *)
Finally(r) ==
  /\ At(r, "finally")
  /\ LET next == IF run[r].error THEN "catch" ELSE "exited"
     IN \/ Goto(r, next) /\ keyDirs' = keyDirs \ {r}
        \/ "cleanup" \in Faults[r] /\ Warn(r, next) /\ UNCHANGED keyDirs
  /\ UNCHANGED <<serial, files, fetchHead, temps, worktrees>>

(* The handler of a failure.                                               *)
\* Bug: the handler forgets the diff, or leaves the outputs alone.
BugForgetsDiff(r) == "{}"
HandlerDiff(r) == IF run[r].diff THEN "diff" ELSE "{}"

Catch(r) ==
  /\ At(r, "catch")
  /\ run' = [run EXCEPT ![r].pc = IF run[r].rejected THEN "failureSummary" ELSE "create",
                        ![r].result = "fail", ![r].diffJson = HandlerDiff(r),
                        ![r].failed = TRUE]
  /\ UNCHANGED shared

(* A summary that cannot be written is an unhandled rejection: exit code 1.*)
FailureSummary(r) ==
  /\ At(r, "failureSummary")
  /\ Goto(r, "exited")
  /\ UNCHANGED shared

(* The runner cancels the job or its time is up.                           *)
Kill(r) ==
  /\ run[r].pc \in Active
  /\ "kill" \in Faults[r]
  /\ Goto(r, "killed")
  /\ UNCHANGED shared

Step(r) ==
  \/ Invoke(r) \/ ReadInputs(r) \/ CheckRpc(r) \/ CheckPaths(r) \/ LoadPolicy(r)
  \/ ResolvePolicy(r) \/ MeasureHead(r) \/ Fetch(r) \/ AddWorktree(r) \/ MeasureBase(r)
  \/ RemoveWorktree(r) \/ Compare(r) \/ WriteSummary(r) \/ CreateTemp(r) \/ Rename(r)
  \/ Truncate(r) \/ WriteMetadata(r) \/ PostComment(r) \/ SetStatus(r) \/ Finally(r)
  \/ Catch(r) \/ FailureSummary(r) \/ Kill(r)

Next == \E r \in Runs : Step(r)

Spec == Init /\ [][Next]_vars

-----------------------------------------------------------------------------
(* Properties                                                               *)

(* Every variable holds a value of its kind; BASE is measured at a         *)
(* revision, and HEAD with a policy at hand.                               *)
TypeOK ==
  /\ serial \in BOOLEAN
  /\ run \in [Runs -> State]
  /\ \A r \in Runs : /\ At(r, "base") => run[r].base \in Revisions
                     /\ At(r, "head") => run[r].policy # ""
  /\ files \in [Places -> Content]
  /\ fetchHead \in Revisions \cup {""}
  /\ temps \subseteq Content /\ keyDirs \subseteq Runs /\ worktrees \subseteq Runs

Exits(r) == ~At(r, "exited") /\ run'[r].pc = "exited"

(* README.md, "Outputs": a run that was not killed fails exactly when its  *)
(* result says so, and diff-json holds the comparison exactly when one was *)
(* made, however its delivery went.                                        *)
OutputsTell ==
  \A r \in Runs : At(r, "exited") =>
    /\ run[r].failed <=> run[r].result = "fail"
    /\ ~run[r].failed <=> run[r].result = "pass"
    /\ run[r].diff <=> run[r].diffJson = "diff"
    /\ run[r].result = "pass" => run[r].diff /\ ~run[r].violations

(* A run that ends with exit code 0 has delivered: the report and the      *)
(* metadata asked for are in place and both its own.                       *)
PassDelivered ==
  [][\A r \in Runs : serial /\ Exits(r) /\ ~run'[r].failed =>
       LET input == run[r].input
       IN /\ input.report # "" => files'[input.report] = Of("full", r)
          /\ input.metadata # "" /\ input.pr
               => files'[input.metadata] = Of("metadata", r)]_vars

(* action.yml, report-path: a report is never there in part, whatever      *)
(* fails and whenever the run is killed; only metadata can be.             *)
NoPartialReport ==
  \A p \in Places : files[p].kind = "partial" =>
    \E r \in Runs : run[r].input.metadata = p /\ run[r].pc \notin {"idle", "inputs"}

(* The key directory, the worktree and the temporary report are gone when  *)
(* a run exits, or it has warned.                                          *)
LeftoversWarned ==
  \A r \in Runs : At(r, "exited") /\ r \in {t.by : t \in temps} \cup keyDirs \cup worktrees
                     => run[r].warned

(* From the check of its output paths on, whether they were accepted or    *)
(* refused, a run never changes the fixtures or the policy it was given.   *)
CheckedInputsIntact ==
  [][\A r \in Runs : (run[r].checked \/ run[r].rejected) /\ run'[r] # run[r] =>
       \A p \in NamedSources(run[r].input) : files'[p] = files[p]]_vars

(* In runs that do not overlap BASE is the revision base-ref names and the *)
(* trusted policy that of its own ref, although both go through FETCH_HEAD.*)
RevisionsAsAsked ==
  serial => \A r \in Runs :
    /\ run[r].base \in {"", BaseRef[r]}
    /\ run[r].policy \in {"", IF run[r].input.trusted THEN PolicyRef ELSE "head"}

(* A run that exits without a warning leaves its own report, of the        *)
(* comparison or of the failure, never that of an earlier run, unless its  *)
(* output paths were refused.  A run that ends there writes no report and  *)
(* does not warn of the one an earlier run left: it fails, and nothing     *)
(* tells the reader of report-path.                                        *)
Refused(r) == run[r].rejected /\ ~run[r].checked
ReportOfThisRun ==
  [][\A r \in Runs :
       LET input == run[r].input
       IN serial /\ Exits(r) /\ ~run'[r].warned /\ input.report # "" /\ ~Refused(r)
          => files'[input.report].by = r
               /\ (files'[input.report].kind = "full" => run[r].diff)]_vars

(* tests/fail-closed.test.cjs: the Action "rejects a report-path that      *)
(* aliases the fixtures file and leaves it untouched".                     *)
FixturesUntouched == files["fixtures.json"] = Of("source", "")

(* The inductive invariant behind the properties above: what is true of a  *)
(* run at each step, and of what it shares with the others.                *)
Checking   == {"idle", "inputs", "rpc", "paths"}
Measuring  == {"policy", "resolve", "head", "fetch", "worktree", "base", "remove", "compare"}
Delivering == {"summary", "create", "rename", "truncate", "metadata", "comment", "status",
               "finally"}

(* The steps that report the comparison; the handler of a failure shares   *)
(* two of them, and an error tells the two apart.                          *)
Delivers(r) == run[r].pc \in Delivering /\ ~run[r].error
Handles(r)  == \/ run[r].pc = "failureSummary"
               \/ run[r].pc \in {"create", "rename", "exited"} /\ run[r].error

OutcomeOf(r) ==
  LET s == run[r]
  IN /\ s.pc \in Checking \cup Measuring => ~s.diff
     /\ s.pc \in (Checking \cup Measuring) \ {"remove"} => ~s.error
     /\ s.pc \in Delivering \ {"create", "rename", "finally"} => ~s.error
     /\ s.pc \in {"catch", "failureSummary"} => s.error
     /\ Delivers(r) \/ (At(r, "exited") /\ ~s.error) =>
          s.diff /\ s.diffJson = "diff" /\ s.result = (IF s.violations THEN "fail" ELSE "pass")
     /\ s.pc \in {"finally", "exited"} /\ ~s.error => s.failed = s.violations
     /\ Handles(r) => s.failed /\ s.result = "fail" /\ s.diffJson = HandlerDiff(r)

(* The paths in use have passed their check; refused ones are not used.    *)
PathsOf(r) ==
  /\ run[r].pc \in Checking => ~run[r].checked /\ ~run[r].rejected
  /\ run[r].pc \in Measuring \/ Delivers(r) => run[r].checked
  /\ run[r].checked => ~Collides(run[r].input)
  /\ run[r].rejected =>
       /\ ~run[r].checked
       /\ run[r].pc \in {"finally", "catch", "failureSummary", "exited", "killed"}
       /\ run[r].error \/ run[r].pc = "killed"

(* What a run has not put away yet it still will, or it has warned.        *)
LeftOf(r) ==
  /\ r \in keyDirs =>
       /\ run[r].pc \notin {"idle", "inputs"}
       /\ run[r].pc \in {"catch", "exited"} \/ Handles(r) => run[r].warned
  /\ r \in worktrees => run[r].pc \in {"worktree", "base", "remove", "killed"} \/ run[r].warned
  /\ \A t \in temps : t.by = r => \/ At(r, "rename") /\ t = Report(r)
                                  \/ At(r, "killed") \/ run[r].warned

(* FETCH_HEAD holds what the run that is about to read it has fetched.     *)
RefsOf(r) ==
  /\ run[r].pc \in Checking \cup {"policy", "resolve"} => run[r].policy = ""
  /\ At(r, "resolve") => run[r].input.trusted
  /\ At(r, "resolve") \/ At(r, "worktree") => fetchHead \in Revisions
  /\ serial /\ At(r, "resolve") => fetchHead = PolicyRef
  /\ serial /\ At(r, "worktree") => fetchHead = BaseRef[r]
  /\ serial => /\ run[r].base \in {"", BaseRef[r]}
               /\ run[r].policy \in {"", IF run[r].input.trusted THEN PolicyRef ELSE "head"}

(* What a run has written is there until another run may begin.            *)
WrittenOf(r) ==
  LET input   == run[r].input
      reports == Delivers(r) \/ (At(r, "exited") /\ ~run[r].error)
      fails   == At(r, "failureSummary") \/ (At(r, "exited") /\ run[r].error)
  IN /\ reports /\ run[r].pc \notin {"summary", "create", "rename"} /\ input.report # ""
          => files[input.report] = Of("full", r)
     /\ reports /\ run[r].pc \in {"comment", "status", "finally", "exited"}
                /\ input.metadata # "" /\ input.pr
          => files[input.metadata] = Of("metadata", r)
     /\ fails /\ ~run[r].warned /\ input.report # "" /\ ~run[r].rejected
          => files[input.report] = Of("failure", r)

SerialInv ==
  serial => \A r, t \in Runs : run[r].pc \in Active /\ run[t].pc \in Active => r = t

IInv == /\ TypeOK
        /\ NoPartialReport
        /\ SerialInv
        /\ \A r \in Runs : /\ OutcomeOf(r)
                           /\ PathsOf(r)
                           /\ LeftOf(r)
                           /\ RefsOf(r)
                           /\ serial /\ run[r].pc \in Active => WrittenOf(r)
=============================================================================
