--------------------------- MODULE ActionRun_proof ---------------------------
(***************************************************************************)
(* Proofs about ActionRun, for any number of runs in one workspace, any    *)
(* inputs and faults.  A step of run r changes r's own state and its part  *)
(* of the files (Frame), so it is enough to show the invariant of r itself *)
(* (Own): one lemma per action shows both, and Preserved puts the rest of  *)
(* the runs back.  In runs that do not overlap no other run is active.     *)
(***************************************************************************)
EXTENDS ActionRun, TLAPS

(* Run r moves on to `step`, and no other run does anything.               *)
Goes(r, step, error, warned) ==
  /\ run' = [run EXCEPT ![r] = run'[r]]
  /\ step \in Active \cup Ended => run'[r] \in State
  /\ run'[r].pc = step
  /\ run'[r].error <=> error
  /\ run'[r].warned <=> warned

SameInput(r)   == run'[r].input = run[r].input
SamePaths(r)   == run'[r].rejected = run[r].rejected /\ run'[r].checked = run[r].checked
SameRefs(r)    == run'[r].policy = run[r].policy /\ run'[r].base = run[r].base
SameDiff(r)    == run'[r].diff = run[r].diff /\ run'[r].violations = run[r].violations
SameOutputs(r) == run'[r].result = run[r].result /\ run'[r].diffJson = run[r].diffJson
SameCode(r)    == run'[r].failed = run[r].failed

(* ... and nothing else of it changes.                                     *)
Took(r, step, error, warned) ==
  /\ Goes(r, step, error, warned)
  /\ SameInput(r) /\ SamePaths(r) /\ SameRefs(r)
  /\ SameDiff(r) /\ SameOutputs(r) /\ SameCode(r)

(* The three ways most steps end.                                          *)
LEMMA Moves ==
  ASSUME TypeOK, NEW r \in Runs, NEW step
  PROVE  /\ Goto(r, step)  => Took(r, step, run[r].error, run[r].warned)
         /\ Throw(r, step) => Took(r, step, TRUE, run[r].warned)
         /\ Warn(r, step)  => Took(r, step, run[r].error, TRUE)
<1>1. run[r] \in State /\ run \in [Runs -> State]
  BY DEF TypeOK
<1>2. ASSUME Goto(r, step) PROVE Took(r, step, run[r].error, run[r].warned)
  <2>1. run' = [run EXCEPT ![r] = [run[r] EXCEPT !.pc = step]]
    BY <1>2 DEF Goto
  <2>2. run'[r] = [run[r] EXCEPT !.pc = step] /\ run' = [run EXCEPT ![r] = run'[r]]
    BY <1>1, <2>1
  <2> QED
    BY <1>1, <2>2 DEF Took, Goes, SameInput, SamePaths, SameRefs, SameDiff,
       SameOutputs, SameCode, State
<1>3. ASSUME Throw(r, step) PROVE Took(r, step, TRUE, run[r].warned)
  <2>1. run' = [run EXCEPT ![r] = [run[r] EXCEPT !.pc = step, !.error = TRUE]]
    BY <1>3 DEF Throw
  <2>2. /\ run'[r] = [run[r] EXCEPT !.pc = step, !.error = TRUE]
        /\ run' = [run EXCEPT ![r] = run'[r]]
    BY <1>1, <2>1
  <2> QED
    BY <1>1, <2>2 DEF Took, Goes, SameInput, SamePaths, SameRefs, SameDiff,
       SameOutputs, SameCode, State
<1>4. ASSUME Warn(r, step) PROVE Took(r, step, run[r].error, TRUE)
  <2>1. run' = [run EXCEPT ![r] = [run[r] EXCEPT !.pc = step, !.warned = TRUE]]
    BY <1>4 DEF Warn
  <2>2. /\ run'[r] = [run[r] EXCEPT !.pc = step, !.warned = TRUE]
        /\ run' = [run EXCEPT ![r] = run'[r]]
    BY <1>1, <2>1
  <2> QED
    BY <1>1, <2>2 DEF Took, Goes, SameInput, SamePaths, SameRefs, SameDiff,
       SameOutputs, SameCode, State
<1> QED
  BY <1>2, <1>3, <1>4

(* A step may also set other fields of its run.                            *)
LEMMA Becomes ==
  ASSUME TypeOK, NEW r \in Runs, NEW s, run' = [run EXCEPT ![r] = s]
  PROVE  run'[r] = s /\ run' = [run EXCEPT ![r] = run'[r]]
  BY DEF TypeOK

(* What files and temporary files hold stays a Content.                    *)
LEMMA Contents ==
  ASSUME NEW r \in Runs
  PROVE  /\ \A kind \in {"full", "failure", "metadata", "partial"} :
              Of(kind, r) \in Content /\ Of(kind, r).kind = kind /\ Of(kind, r).by = r
         /\ Report(r) \in Content /\ Report(r).kind # "partial" /\ Report(r).by = r
  BY DEF Of, Content, Report

LEMMA PutEffect ==
  ASSUME TypeOK, NEW p, NEW c \in Content, files' = [files EXCEPT ![p] = c]
  PROVE  /\ files' \in [Places -> Content]
         /\ p \in Places => files'[p] = c
         /\ \A q \in Places : q # p => files'[q] = files[q]
  BY DEF TypeOK

LEMMA InputTyped ==
  ASSUME TypeOK, NEW r \in Runs
  PROVE  /\ run[r].input.report \in Places \cup {""}
         /\ run[r].input.metadata \in Places \cup {""}
  BY DEF TypeOK, State, Input

-----------------------------------------------------------------------------
(* What a step of run r may change, and what holds of r after it.          *)
Frame(r) ==
  /\ UNCHANGED serial
  /\ serial => run[r].pc \in Active \/ \A t \in Runs : run[t].pc \notin Active
  /\ run' = [run EXCEPT ![r] = run'[r]] /\ run'[r] \in State
  /\ ~At(r, "idle") => run'[r].input = run[r].input /\ run'[r].pc \notin {"idle", "inputs"}
  /\ At(r, "idle") => run'[r].pc = "inputs"
  /\ run'[r].pc = "exited" => run'[r].diff = run[r].diff /\ SamePaths(r)
  /\ run'[r].pc = "base" => run'[r].base \in Revisions
  /\ run'[r].pc = "head" => run'[r].policy # ""
  /\ files' \in [Places -> Content]
  /\ \A p \in Places : files'[p].kind = "partial" =>
       files[p].kind = "partial" \/ (run[r].input.metadata = p /\ run[r].pc \notin {"idle", "inputs"})
  /\ \A p \in Places : files'[p] = files[p] \/ p \in {run[r].input.report, run[r].input.metadata}
  /\ fetchHead' = fetchHead \/ fetchHead' \in Revisions
  /\ temps' \subseteq Content /\ \A t \in temps' : t \in temps \/ t.by = r
  /\ keyDirs' \subseteq keyDirs \cup {r} /\ worktrees' \subseteq worktrees \cup {r}

Own(r) == /\ OutcomeOf(r)
          /\ PathsOf(r)
          /\ LeftOf(r)
          /\ RefsOf(r)
          /\ serial => WrittenOf(r)

(* A run begins with nothing decided, and alone if runs do not overlap.    *)
LEMMA InvokeStep ==
  ASSUME IInv, NEW r \in Runs, Invoke(r)
  PROVE  Frame(r) /\ Own(r)'
<1>1. TypeOK /\ Own(r) /\ UNCHANGED serial /\ At(r, "idle")
  BY DEF IInv, Own, Invoke, shared, WrittenOf, Delivers, Delivering, At
<1>2. /\ UNCHANGED <<files, fetchHead, temps, keyDirs, worktrees>>
      /\ serial => \A t \in Runs : run[t].pc \notin Active
      /\ /\ Goes(r, "inputs", run[r].error, run[r].warned) /\ SamePaths(r)
         /\ SameRefs(r) /\ SameDiff(r)
  <2>0. PICK i \in Inputs[r] : run' = [run EXCEPT ![r].pc = "inputs", ![r].input = i]
    BY DEF Invoke
  <2> DEFINE s == [run[r] EXCEPT !.pc = "inputs", !.input = i]
  <2>1. run' = [run EXCEPT ![r] = s]
    BY <2>0
  <2>2. run'[r] = s /\ run' = [run EXCEPT ![r] = run'[r]]
    BY <2>1, <1>1, Becomes
  <2>3. run[r] \in State /\ i \in Input
    BY <1>1, InputsAssumption DEF TypeOK
  <2>4. s \in State
    BY <2>3 DEF State, Active
  <2>5. SamePaths(r) /\ SameRefs(r) /\ SameDiff(r)
    BY <2>2, <2>3 DEF SamePaths, SameRefs, SameDiff, State
  <2>6. /\ run'[r].pc = "inputs" /\ run'[r].error = run[r].error
        /\ run'[r].warned = run[r].warned
    BY <2>2, <2>3 DEF State
  <2> QED
    BY <1>1, <2>2, <2>4, <2>5, <2>6 DEF Invoke, shared, Goes
<1>3. OutcomeOf(r)'
  BY <1>1, <1>2 DEF Own, Took, Goes, SameDiff, SameOutputs, SameCode, OutcomeOf,
     Delivers, Handles, HandlerDiff, At, Checking, Measuring, Delivering
<1>4. PathsOf(r)'
  BY <1>1, <1>2 DEF Own, Took, Goes, SameInput, SamePaths, PathsOf, Delivers, At,
     Checking, Measuring, Delivering
<1>5. LeftOf(r)'
  BY <1>1, <1>2 DEF Own, Took, Goes, SamePaths, LeftOf, OutcomeOf, Delivering,
     Handles, At, Report
<1>6. RefsOf(r)'
  BY <1>1, <1>2 DEF Own, Took, Goes, SameInput, SameRefs, RefsOf, At, Checking
<1>7. serial' => WrittenOf(r)'
  BY <1>1, <1>2 DEF Own, Took, Goes, SameInput, WrittenOf, Delivers, Delivering, At,
     Handles
<1>8. Frame(r)
  BY <1>1, <1>2 DEF Took, Goes, SameInput, SamePaths, SameRefs, SameDiff, Frame, TypeOK, At,
     Active, Ended
<1> QED
  BY <1>3, <1>4, <1>5, <1>6, <1>7, <1>8 DEF Own

(* From here on the key directory is the run's to remove.                  *)
LEMMA ReadInputsStep ==
  ASSUME IInv, NEW r \in Runs, ReadInputs(r)
  PROVE  Frame(r) /\ Own(r)'
<1>1. TypeOK /\ Own(r) /\ UNCHANGED serial /\ At(r, "inputs")
  BY DEF IInv, Own, ReadInputs, shared, At, Active
<1>2. /\ UNCHANGED <<files, fetchHead, temps, worktrees>>
      /\ \/ Took(r, "rpc", run[r].error, run[r].warned) /\ keyDirs' = keyDirs \cup {r}
         \/ Took(r, "catch", TRUE, run[r].warned) /\ UNCHANGED keyDirs
  BY <1>1, Moves DEF ReadInputs, shared
<1>3. OutcomeOf(r)'
  BY <1>1, <1>2 DEF Own, Took, Goes, SameDiff, SameOutputs, SameCode, OutcomeOf,
     Delivers, Handles, HandlerDiff, At, Checking, Measuring, Delivering
<1>4. PathsOf(r)'
  BY <1>1, <1>2 DEF Own, Took, Goes, SameInput, SamePaths, PathsOf, Delivers, At,
     Checking, Measuring, Delivering
<1>5. LeftOf(r)'
  BY <1>1, <1>2 DEF Own, Took, Goes, SamePaths, LeftOf, OutcomeOf, Delivering,
     Handles, At, Report
<1>6. RefsOf(r)'
  BY <1>1, <1>2 DEF Own, Took, Goes, SameInput, SameRefs, RefsOf, At, Checking
<1>7. serial' => WrittenOf(r)'
  BY <1>1, <1>2 DEF Own, Took, Goes, SameInput, WrittenOf, Delivers, Delivering, At,
     Handles
<1>8. Frame(r)
  BY <1>1, <1>2 DEF Took, Goes, SameInput, SamePaths, SameRefs, SameDiff, Frame, TypeOK, At,
     Active, Ended
<1> QED
  BY <1>3, <1>4, <1>5, <1>6, <1>7, <1>8 DEF Own

(* The exit code may be set before the error is thrown.                    *)
LEMMA CheckRpcStep ==
  ASSUME IInv, NEW r \in Runs, CheckRpc(r)
  PROVE  Frame(r) /\ Own(r)'
<1>1. TypeOK /\ Own(r) /\ UNCHANGED serial /\ At(r, "rpc")
  BY DEF IInv, Own, CheckRpc, shared, At, Active
<1>2. /\ UNCHANGED <<files, fetchHead, temps, keyDirs, worktrees>>
      /\ \/ Took(r, "paths", run[r].error, run[r].warned)
         \/ /\ Goes(r, "finally", TRUE, run[r].warned) /\ SameInput(r) /\ SamePaths(r)
            /\ SameRefs(r) /\ SameDiff(r)
  <2> DEFINE s1 == [run[r] EXCEPT !.pc = "finally", !.error = TRUE, !.failed = TRUE]
  <2>1. ASSUME run' = [run EXCEPT ![r].pc = "finally", ![r].error = TRUE, ![r].failed = TRUE]
        PROVE  /\ Goes(r, "finally", TRUE, run[r].warned) /\ SameInput(r)
               /\ SamePaths(r) /\ SameRefs(r) /\ SameDiff(r)
    <3>1. run' = [run EXCEPT ![r] = s1]
      BY <2>1
    <3>2. run'[r] = s1 /\ run' = [run EXCEPT ![r] = run'[r]]
      BY <3>1, <1>1, Becomes
    <3>3. run[r] \in State
      BY <1>1 DEF TypeOK
    <3> QED
      BY <1>1, <3>2, <3>3 DEF Goes, SameInput, SamePaths, SameRefs, SameDiff,
         SameOutputs, SameCode, State
  <2> HIDE DEF s1
  <2> QED
    BY <1>1, <2>1, Moves DEF CheckRpc, shared
<1>3. OutcomeOf(r)'
  BY <1>1, <1>2 DEF Own, Took, Goes, SameDiff, SameOutputs, SameCode, OutcomeOf,
     Delivers, Handles, HandlerDiff, At, Checking, Measuring, Delivering
<1>4. PathsOf(r)'
  BY <1>1, <1>2 DEF Own, Took, Goes, SameInput, SamePaths, PathsOf, Delivers, At,
     Checking, Measuring, Delivering
<1>5. LeftOf(r)'
  BY <1>1, <1>2 DEF Own, Took, Goes, SamePaths, LeftOf, OutcomeOf, Delivering,
     Handles, At, Report
<1>6. RefsOf(r)'
  BY <1>1, <1>2 DEF Own, Took, Goes, SameInput, SameRefs, RefsOf, At, Checking
<1>7. serial' => WrittenOf(r)'
  BY <1>1, <1>2 DEF Own, Took, Goes, SameInput, WrittenOf, Delivers, Delivering, At,
     Handles
<1>8. Frame(r)
  BY <1>1, <1>2 DEF Took, Goes, SameInput, SamePaths, SameRefs, SameDiff, Frame, TypeOK, At,
     Active, Ended
<1> QED
  BY <1>3, <1>4, <1>5, <1>6, <1>7, <1>8 DEF Own

(* Only paths that do not collide are accepted.                            *)
LEMMA CheckPathsStep ==
  ASSUME IInv, NEW r \in Runs, CheckPaths(r)
  PROVE  Frame(r) /\ Own(r)'
<1>1. TypeOK /\ Own(r) /\ UNCHANGED serial /\ At(r, "paths")
  BY DEF IInv, Own, CheckPaths, shared, At, Active
<1>2. /\ UNCHANGED <<files, fetchHead, temps, keyDirs, worktrees>>
      /\ \/ Took(r, "finally", TRUE, run[r].warned)
         \/ /\ Goes(r, "finally", TRUE, run[r].warned) /\ SameInput(r)
            /\ SameRefs(r) /\ SameDiff(r) /\ run'[r].rejected
            /\ (run'[r].checked <=> run[r].checked)
         \/ /\ ~Collides(run[r].input)
            /\ Goes(r, "policy", run[r].error, run[r].warned) /\ SameInput(r)
            /\ SameRefs(r) /\ SameDiff(r) /\ run'[r].checked
            /\ (run'[r].rejected <=> run[r].rejected)
  <2> DEFINE s1 == [run[r] EXCEPT !.pc = "finally", !.error = TRUE, !.rejected = TRUE]
  <2>1. ASSUME run' = [run EXCEPT ![r].pc = "finally", ![r].error = TRUE, ![r].rejected = TRUE]
        PROVE  /\ Goes(r, "finally", TRUE, run[r].warned) /\ SameInput(r)
               /\ SameRefs(r) /\ SameDiff(r) /\ run'[r].rejected
               /\ (run'[r].checked <=> run[r].checked)
    <3>1. run' = [run EXCEPT ![r] = s1]
      BY <2>1
    <3>2. run'[r] = s1 /\ run' = [run EXCEPT ![r] = run'[r]]
      BY <3>1, <1>1, Becomes
    <3>3. run[r] \in State
      BY <1>1 DEF TypeOK
    <3> QED
      BY <1>1, <3>2, <3>3 DEF Goes, SameInput, SamePaths, SameRefs, SameDiff,
         SameOutputs, SameCode, State
  <2> DEFINE s2 == [run[r] EXCEPT !.pc = "policy", !.checked = TRUE]
  <2>2. ASSUME run' = [run EXCEPT ![r].pc = "policy", ![r].checked = TRUE]
        PROVE  /\ Goes(r, "policy", run[r].error, run[r].warned) /\ SameInput(r)
               /\ SameRefs(r) /\ SameDiff(r) /\ run'[r].checked
               /\ (run'[r].rejected <=> run[r].rejected)
    <3>1. run' = [run EXCEPT ![r] = s2]
      BY <2>2
    <3>2. run'[r] = s2 /\ run' = [run EXCEPT ![r] = run'[r]]
      BY <3>1, <1>1, Becomes
    <3>3. run[r] \in State
      BY <1>1 DEF TypeOK
    <3> QED
      BY <1>1, <3>2, <3>3 DEF Goes, SameInput, SamePaths, SameRefs, SameDiff,
         SameOutputs, SameCode, State
  <2> HIDE DEF s1, s2
  <2> QED
    BY <1>1, <2>1, <2>2, Moves DEF CheckPaths, shared, Accept, Refuse
<1>3. OutcomeOf(r)'
  BY <1>1, <1>2 DEF Own, Took, Goes, SameDiff, SameOutputs, SameCode, OutcomeOf,
     Delivers, Handles, HandlerDiff, At, Checking, Measuring, Delivering
<1>4. PathsOf(r)'
  BY <1>1, <1>2 DEF Own, Took, Goes, SameInput, SamePaths, PathsOf, Delivers, At,
     Checking, Measuring, Delivering
<1>5. LeftOf(r)'
  BY <1>1, <1>2 DEF Own, Took, Goes, SamePaths, LeftOf, OutcomeOf, Delivering,
     Handles, At, Report
<1>6. RefsOf(r)'
  BY <1>1, <1>2 DEF Own, Took, Goes, SameInput, SameRefs, RefsOf, At, Checking
<1>7. serial' => WrittenOf(r)'
  BY <1>1, <1>2 DEF Own, Took, Goes, SameInput, WrittenOf, Delivers, Delivering, At,
     Handles
<1>8. Frame(r)
  BY <1>1, <1>2 DEF Took, Goes, SameInput, SamePaths, SameRefs, SameDiff, Frame, TypeOK, At,
     Active, Ended
<1> QED
  BY <1>3, <1>4, <1>5, <1>6, <1>7, <1>8 DEF Own

(* A trusted policy is fetched before it is read.                          *)
LEMMA LoadPolicyStep ==
  ASSUME IInv, NEW r \in Runs, LoadPolicy(r)
  PROVE  Frame(r) /\ Own(r)'
<1>1. TypeOK /\ Own(r) /\ UNCHANGED serial /\ At(r, "policy")
  BY DEF IInv, Own, LoadPolicy, shared, At, Active
<1>2. /\ UNCHANGED <<files, temps, keyDirs, worktrees>>
      /\ \/ Took(r, "finally", TRUE, run[r].warned) /\ UNCHANGED fetchHead
         \/ /\ Took(r, "resolve", run[r].error, run[r].warned) /\ run[r].input.trusted
            /\ fetchHead' = PolicyRef
         \/ /\ ~run[r].input.trusted /\ UNCHANGED fetchHead
            /\ Goes(r, "head", run[r].error, run[r].warned) /\ SameInput(r)
            /\ SamePaths(r) /\ SameDiff(r) /\ run'[r].policy = "head"
            /\ run'[r].base = run[r].base
  <2> DEFINE s1 == [run[r] EXCEPT !.pc = "head", !.policy = "head"]
  <2>1. ASSUME run' = [run EXCEPT ![r].pc = "head", ![r].policy = "head"]
        PROVE  /\ Goes(r, "head", run[r].error, run[r].warned) /\ SameInput(r)
               /\ SamePaths(r) /\ SameDiff(r) /\ run'[r].policy = "head"
               /\ run'[r].base = run[r].base
    <3>1. run' = [run EXCEPT ![r] = s1]
      BY <2>1
    <3>2. run'[r] = s1 /\ run' = [run EXCEPT ![r] = run'[r]]
      BY <3>1, <1>1, Becomes
    <3>3. run[r] \in State
      BY <1>1 DEF TypeOK
    <3> QED
      BY <1>1, <3>2, <3>3 DEF Goes, SameInput, SamePaths, SameRefs, SameDiff,
         SameOutputs, SameCode, State
  <2> HIDE DEF s1
  <2> QED
    BY <1>1, <2>1, Moves DEF LoadPolicy, shared, PolicyFetched
<1>3. OutcomeOf(r)'
  BY <1>1, <1>2 DEF Own, Took, Goes, SameDiff, SameOutputs, SameCode, OutcomeOf,
     Delivers, Handles, HandlerDiff, At, Checking, Measuring, Delivering
<1>4. PathsOf(r)'
  BY <1>1, <1>2 DEF Own, Took, Goes, SameInput, SamePaths, PathsOf, Delivers, At,
     Checking, Measuring, Delivering
<1>5. LeftOf(r)'
  BY <1>1, <1>2 DEF Own, Took, Goes, SamePaths, LeftOf, OutcomeOf, Delivering,
     Handles, At, Report
<1>6. RefsOf(r)'
  BY <1>1, <1>2 DEF Own, Took, Goes, SameInput, SameRefs, RefsOf, At, Checking,
     Revisions
<1>7. serial' => WrittenOf(r)'
  BY <1>1, <1>2 DEF Own, Took, Goes, SameInput, WrittenOf, Delivers, Delivering, At,
     Handles
<1>8. Frame(r)
  BY <1>1, <1>2 DEF Took, Goes, SameInput, SamePaths, SameRefs, SameDiff, Frame, TypeOK, At,
     Active, Ended, Revisions
<1> QED
  BY <1>3, <1>4, <1>5, <1>6, <1>7, <1>8 DEF Own

(* FETCH_HEAD is still what LoadPolicy fetched, if runs do not overlap.    *)
LEMMA ResolvePolicyStep ==
  ASSUME IInv, NEW r \in Runs, ResolvePolicy(r)
  PROVE  Frame(r) /\ Own(r)'
<1>1. TypeOK /\ Own(r) /\ UNCHANGED serial /\ At(r, "resolve")
  BY DEF IInv, Own, ResolvePolicy, shared, At, Active
<1>2. /\ UNCHANGED <<files, fetchHead, temps, keyDirs, worktrees>>
      /\ \/ Took(r, "finally", TRUE, run[r].warned)
         \/ /\ Goes(r, "head", run[r].error, run[r].warned) /\ SameInput(r)
            /\ SamePaths(r) /\ SameDiff(r) /\ run'[r].policy = fetchHead
            /\ run'[r].base = run[r].base
  <2> DEFINE s1 == [run[r] EXCEPT !.pc = "head", !.policy = fetchHead]
  <2>1. ASSUME run' = [run EXCEPT ![r].pc = "head", ![r].policy = fetchHead]
        PROVE  /\ Goes(r, "head", run[r].error, run[r].warned) /\ SameInput(r)
               /\ SamePaths(r) /\ SameDiff(r) /\ run'[r].policy = fetchHead
               /\ run'[r].base = run[r].base
    <3>1. run' = [run EXCEPT ![r] = s1]
      BY <2>1
    <3>2. run'[r] = s1 /\ run' = [run EXCEPT ![r] = run'[r]]
      BY <3>1, <1>1, Becomes
    <3>3. run[r] \in State
      BY <1>1 DEF TypeOK
    <3> QED
      BY <1>1, <3>2, <3>3 DEF Goes, SameInput, SamePaths, SameRefs, SameDiff,
         SameOutputs, SameCode, State, Own, RefsOf, At
  <2> HIDE DEF s1
  <2> QED
    BY <1>1, <2>1, Moves DEF ResolvePolicy, shared
<1>3. OutcomeOf(r)'
  BY <1>1, <1>2 DEF Own, Took, Goes, SameDiff, SameOutputs, SameCode, OutcomeOf,
     Delivers, Handles, HandlerDiff, At, Checking, Measuring, Delivering
<1>4. PathsOf(r)'
  BY <1>1, <1>2 DEF Own, Took, Goes, SameInput, SamePaths, PathsOf, Delivers, At,
     Checking, Measuring, Delivering
<1>5. LeftOf(r)'
  BY <1>1, <1>2 DEF Own, Took, Goes, SamePaths, LeftOf, OutcomeOf, Delivering,
     Handles, At, Report
<1>6. RefsOf(r)'
  BY <1>1, <1>2 DEF Own, Took, Goes, SameInput, SameRefs, RefsOf, At, Checking
<1>7. serial' => WrittenOf(r)'
  BY <1>1, <1>2 DEF Own, Took, Goes, SameInput, WrittenOf, Delivers, Delivering, At,
     Handles
<1>8. Frame(r)
  <2>1. fetchHead # "" \/ ~At(r, "resolve")
    BY <1>1, RefsAssumption DEF Own, RefsOf, Revisions
  <2> QED
    BY <1>1, <1>2, <2>1 DEF Took, Goes, SameInput, SamePaths, SameRefs, SameDiff, Frame,
       TypeOK, At, Active, Ended
<1> QED
  BY <1>3, <1>4, <1>5, <1>6, <1>7, <1>8 DEF Own

(* HEAD is measured with checked paths.                                    *)
LEMMA MeasureHeadStep ==
  ASSUME IInv, NEW r \in Runs, MeasureHead(r)
  PROVE  Frame(r) /\ Own(r)'
<1>1. TypeOK /\ Own(r) /\ UNCHANGED serial /\ At(r, "head")
  BY DEF IInv, Own, MeasureHead, shared, At, Active
<1>2. /\ UNCHANGED <<files, fetchHead, temps, keyDirs, worktrees>>
      /\ \/ Took(r, "fetch", run[r].error, run[r].warned)
         \/ Took(r, "finally", TRUE, run[r].warned)
  BY <1>1, Moves DEF MeasureHead, shared
<1>3. OutcomeOf(r)'
  BY <1>1, <1>2 DEF Own, Took, Goes, SameDiff, SameOutputs, SameCode, OutcomeOf,
     Delivers, Handles, HandlerDiff, At, Checking, Measuring, Delivering
<1>4. PathsOf(r)'
  BY <1>1, <1>2 DEF Own, Took, Goes, SameInput, SamePaths, PathsOf, Delivers, At,
     Checking, Measuring, Delivering
<1>5. LeftOf(r)'
  BY <1>1, <1>2 DEF Own, Took, Goes, SamePaths, LeftOf, OutcomeOf, Delivering,
     Handles, At, Report
<1>6. RefsOf(r)'
  BY <1>1, <1>2 DEF Own, Took, Goes, SameInput, SameRefs, RefsOf, At, Checking
<1>7. serial' => WrittenOf(r)'
  BY <1>1, <1>2 DEF Own, Took, Goes, SameInput, WrittenOf, Delivers, Delivering, At,
     Handles
<1>8. Frame(r)
  BY <1>1, <1>2 DEF Took, Goes, SameInput, SamePaths, SameRefs, SameDiff, Frame, TypeOK, At,
     Active, Ended
<1> QED
  BY <1>3, <1>4, <1>5, <1>6, <1>7, <1>8 DEF Own

(* The worktree's directory is the run's to remove.                        *)
LEMMA FetchStep ==
  ASSUME IInv, NEW r \in Runs, Fetch(r)
  PROVE  Frame(r) /\ Own(r)'
<1>1. TypeOK /\ Own(r) /\ UNCHANGED serial /\ At(r, "fetch")
  BY DEF IInv, Own, Fetch, shared, At, Active
<1>2. /\ UNCHANGED <<files, temps, keyDirs>>
      /\ \/ /\ Took(r, "worktree", run[r].error, run[r].warned)
            /\ fetchHead' = BaseRef[r] /\ worktrees' = worktrees \cup {r}
         \/ /\ Took(r, "finally", TRUE, run[r].warned)
            /\ UNCHANGED <<fetchHead, worktrees>>
  BY <1>1, Moves DEF Fetch, shared, Fetched
<1>3. OutcomeOf(r)'
  BY <1>1, <1>2 DEF Own, Took, Goes, SameDiff, SameOutputs, SameCode, OutcomeOf,
     Delivers, Handles, HandlerDiff, At, Checking, Measuring, Delivering
<1>4. PathsOf(r)'
  BY <1>1, <1>2 DEF Own, Took, Goes, SameInput, SamePaths, PathsOf, Delivers, At,
     Checking, Measuring, Delivering
<1>5. LeftOf(r)'
  BY <1>1, <1>2 DEF Own, Took, Goes, SamePaths, LeftOf, OutcomeOf, Delivering,
     Handles, At, Report
<1>6. RefsOf(r)'
  BY <1>1, <1>2 DEF Own, Took, Goes, SameInput, SameRefs, RefsOf, At, Checking,
     Revisions
<1>7. serial' => WrittenOf(r)'
  BY <1>1, <1>2 DEF Own, Took, Goes, SameInput, WrittenOf, Delivers, Delivering, At,
     Handles
<1>8. Frame(r)
  BY <1>1, <1>2 DEF Took, Goes, SameInput, SamePaths, SameRefs, SameDiff, Frame, TypeOK, At,
     Active, Ended, Revisions
<1> QED
  BY <1>3, <1>4, <1>5, <1>6, <1>7, <1>8 DEF Own

(* FETCH_HEAD is still what Fetch fetched, if runs do not overlap.         *)
LEMMA AddWorktreeStep ==
  ASSUME IInv, NEW r \in Runs, AddWorktree(r)
  PROVE  Frame(r) /\ Own(r)'
<1>1. TypeOK /\ Own(r) /\ UNCHANGED serial /\ At(r, "worktree")
  BY DEF IInv, Own, AddWorktree, shared, At, Active
<1>2. /\ UNCHANGED <<files, fetchHead, temps, keyDirs, worktrees>>
      /\ \/ Took(r, "remove", TRUE, run[r].warned)
         \/ /\ Goes(r, "base", run[r].error, run[r].warned) /\ SameInput(r)
            /\ SamePaths(r) /\ SameDiff(r) /\ run'[r].base = fetchHead
            /\ run'[r].policy = run[r].policy
  <2> DEFINE s1 == [run[r] EXCEPT !.pc = "base", !.base = fetchHead]
  <2>1. ASSUME run' = [run EXCEPT ![r].pc = "base", ![r].base = fetchHead]
        PROVE  /\ Goes(r, "base", run[r].error, run[r].warned) /\ SameInput(r)
               /\ SamePaths(r) /\ SameDiff(r) /\ run'[r].base = fetchHead
               /\ run'[r].policy = run[r].policy
    <3>1. run' = [run EXCEPT ![r] = s1]
      BY <2>1
    <3>2. run'[r] = s1 /\ run' = [run EXCEPT ![r] = run'[r]]
      BY <3>1, <1>1, Becomes
    <3>3. run[r] \in State
      BY <1>1 DEF TypeOK
    <3> QED
      BY <1>1, <3>2, <3>3 DEF Goes, SameInput, SamePaths, SameRefs, SameDiff,
         SameOutputs, SameCode, State, Own, RefsOf, At
  <2> HIDE DEF s1
  <2> QED
    BY <1>1, <2>1, Moves DEF AddWorktree, shared
<1>3. OutcomeOf(r)'
  BY <1>1, <1>2 DEF Own, Took, Goes, SameDiff, SameOutputs, SameCode, OutcomeOf,
     Delivers, Handles, HandlerDiff, At, Checking, Measuring, Delivering
<1>4. PathsOf(r)'
  BY <1>1, <1>2 DEF Own, Took, Goes, SameInput, SamePaths, PathsOf, Delivers, At,
     Checking, Measuring, Delivering
<1>5. LeftOf(r)'
  BY <1>1, <1>2 DEF Own, Took, Goes, SamePaths, LeftOf, OutcomeOf, Delivering,
     Handles, At, Report
<1>6. RefsOf(r)'
  BY <1>1, <1>2 DEF Own, Took, Goes, SameInput, SameRefs, RefsOf, At, Checking
<1>7. serial' => WrittenOf(r)'
  BY <1>1, <1>2 DEF Own, Took, Goes, SameInput, WrittenOf, Delivers, Delivering, At,
     Handles
<1>8. Frame(r)
  BY <1>1, <1>2 DEF Took, Goes, SameInput, SamePaths, SameRefs, SameDiff, Frame, TypeOK, At,
     Active, Ended, Own, RefsOf
<1> QED
  BY <1>3, <1>4, <1>5, <1>6, <1>7, <1>8 DEF Own

(* A failed measurement of BASE still removes the worktree.                *)
LEMMA MeasureBaseStep ==
  ASSUME IInv, NEW r \in Runs, MeasureBase(r)
  PROVE  Frame(r) /\ Own(r)'
<1>1. TypeOK /\ Own(r) /\ UNCHANGED serial /\ At(r, "base")
  BY DEF IInv, Own, MeasureBase, shared, At, Active
<1>2. /\ UNCHANGED <<files, fetchHead, temps, keyDirs, worktrees>>
      /\ \/ Took(r, "remove", run[r].error, run[r].warned)
         \/ Took(r, "remove", TRUE, run[r].warned)
  BY <1>1, Moves DEF MeasureBase, shared
<1>3. OutcomeOf(r)'
  BY <1>1, <1>2 DEF Own, Took, Goes, SameDiff, SameOutputs, SameCode, OutcomeOf,
     Delivers, Handles, HandlerDiff, At, Checking, Measuring, Delivering
<1>4. PathsOf(r)'
  BY <1>1, <1>2 DEF Own, Took, Goes, SameInput, SamePaths, PathsOf, Delivers, At,
     Checking, Measuring, Delivering
<1>5. LeftOf(r)'
  BY <1>1, <1>2 DEF Own, Took, Goes, SamePaths, LeftOf, OutcomeOf, Delivering,
     Handles, At, Report
<1>6. RefsOf(r)'
  BY <1>1, <1>2 DEF Own, Took, Goes, SameInput, SameRefs, RefsOf, At, Checking
<1>7. serial' => WrittenOf(r)'
  BY <1>1, <1>2 DEF Own, Took, Goes, SameInput, WrittenOf, Delivers, Delivering, At,
     Handles
<1>8. Frame(r)
  BY <1>1, <1>2 DEF Took, Goes, SameInput, SamePaths, SameRefs, SameDiff, Frame, TypeOK, At,
     Active, Ended
<1> QED
  BY <1>3, <1>4, <1>5, <1>6, <1>7, <1>8 DEF Own

(* The worktree is gone, or the run has warned.                            *)
LEMMA RemoveWorktreeStep ==
  ASSUME IInv, NEW r \in Runs, RemoveWorktree(r)
  PROVE  Frame(r) /\ Own(r)'
<1>1. TypeOK /\ Own(r) /\ UNCHANGED serial /\ At(r, "remove")
  BY DEF IInv, Own, RemoveWorktree, shared, At, Active
<1>2. /\ UNCHANGED <<files, fetchHead, temps, keyDirs>>
      /\ \/ /\ run[r].error /\ Took(r, "finally", run[r].error, run[r].warned)
            /\ worktrees' = worktrees \ {r}
         \/ /\ run[r].error /\ Took(r, "finally", run[r].error, TRUE)
            /\ UNCHANGED worktrees
         \/ /\ ~run[r].error /\ Took(r, "compare", run[r].error, run[r].warned)
            /\ worktrees' = worktrees \ {r}
         \/ /\ ~run[r].error /\ Took(r, "compare", run[r].error, TRUE)
            /\ UNCHANGED worktrees
  BY <1>1, Moves DEF RemoveWorktree, shared
<1>3. OutcomeOf(r)'
  BY <1>1, <1>2 DEF Own, Took, Goes, SameDiff, SameOutputs, SameCode, OutcomeOf,
     Delivers, Handles, HandlerDiff, At, Checking, Measuring, Delivering
<1>4. PathsOf(r)'
  BY <1>1, <1>2 DEF Own, Took, Goes, SameInput, SamePaths, PathsOf, Delivers, At,
     Checking, Measuring, Delivering
<1>5. LeftOf(r)'
  BY <1>1, <1>2 DEF Own, Took, Goes, SamePaths, LeftOf, OutcomeOf, Delivering,
     Handles, At, Report
<1>6. RefsOf(r)'
  BY <1>1, <1>2 DEF Own, Took, Goes, SameInput, SameRefs, RefsOf, At, Checking
<1>7. serial' => WrittenOf(r)'
  BY <1>1, <1>2 DEF Own, Took, Goes, SameInput, WrittenOf, Delivers, Delivering, At,
     Handles
<1>8. Frame(r)
  BY <1>1, <1>2 DEF Took, Goes, SameInput, SamePaths, SameRefs, SameDiff, Frame, TypeOK, At,
     Active, Ended
<1> QED
  BY <1>3, <1>4, <1>5, <1>6, <1>7, <1>8 DEF Own

(* The outputs are set together with the comparison.                       *)
LEMMA CompareStep ==
  ASSUME IInv, NEW r \in Runs, Compare(r)
  PROVE  Frame(r) /\ Own(r)'
<1>1. TypeOK /\ Own(r) /\ UNCHANGED serial /\ At(r, "compare")
  BY DEF IInv, Own, Compare, shared, At, Active
<1>2. /\ UNCHANGED <<files, fetchHead, temps, keyDirs, worktrees>>
      /\ \/ Took(r, "finally", TRUE, run[r].warned)
         \/ /\ Goes(r, "summary", run[r].error, run[r].warned)
            /\ SameInput(r) /\ SamePaths(r) /\ SameRefs(r) /\ SameCode(r)
            /\ run'[r].diff /\ run'[r].diffJson = "diff"
            /\ run'[r].result = (IF run'[r].violations THEN "fail" ELSE "pass")
  <2>1. ASSUME NEW v \in BOOLEAN,
               run' = [run EXCEPT ![r].pc = "summary", ![r].diff = TRUE, ![r].violations = v,
                                  ![r].result = IF v THEN "fail" ELSE "pass",
                                  ![r].diffJson = "diff"]
        PROVE  /\ Goes(r, "summary", run[r].error, run[r].warned)
               /\ SameInput(r) /\ SamePaths(r) /\ SameRefs(r) /\ SameCode(r)
               /\ run'[r].diff /\ run'[r].diffJson = "diff"
               /\ run'[r].result = (IF run'[r].violations THEN "fail" ELSE "pass")
    <3> DEFINE s0 == [run[r] EXCEPT !.pc = "summary", !.diff = TRUE, !.violations = v]
               outcome == IF v THEN "fail" ELSE "pass"
               s == [s0 EXCEPT !.result = outcome, !.diffJson = "diff"]
    <3>0. outcome \in {"pass", "fail"}
      OBVIOUS
    <3>1. run' = [run EXCEPT ![r] = s]
      BY <2>1
    <3>2. run'[r] = s /\ run' = [run EXCEPT ![r] = run'[r]]
      BY <3>1, <1>1, Becomes
    <3>3. run[r] \in State
      BY <1>1 DEF TypeOK
    <3>4. /\ s0 \in State /\ s0.pc = "summary" /\ s0.diff = TRUE /\ s0.violations = v
          /\ s0.error = run[r].error /\ s0.warned = run[r].warned
          /\ s0.input = run[r].input /\ s0.rejected = run[r].rejected
          /\ s0.checked = run[r].checked /\ s0.policy = run[r].policy
          /\ s0.base = run[r].base /\ s0.failed = run[r].failed
      BY <3>3 DEF State, Active
    <3> HIDE DEF s0, outcome
    <3>5. /\ s \in State /\ s.pc = s0.pc /\ s.diff = s0.diff /\ s.violations = s0.violations
          /\ s.error = s0.error /\ s.warned = s0.warned
          /\ s.input = s0.input /\ s.rejected = s0.rejected
          /\ s.checked = s0.checked /\ s.policy = s0.policy
          /\ s.base = s0.base /\ s.failed = s0.failed
          /\ s.result = outcome /\ s.diffJson = "diff"
      BY <3>0, <3>4 DEF State
    <3> HIDE DEF s
    <3> QED
      BY <3>2, <3>4, <3>5 DEF Goes, SameInput, SamePaths, SameRefs, SameCode, outcome
  <2> QED
    BY <1>1, <2>1, Moves DEF Compare, shared
<1>3. OutcomeOf(r)'
  BY <1>1, <1>2 DEF Own, Took, Goes, SameDiff, SameOutputs, SameCode, OutcomeOf,
     Delivers, Handles, HandlerDiff, At, Checking, Measuring, Delivering
<1>4. PathsOf(r)'
  BY <1>1, <1>2 DEF Own, Took, Goes, SameInput, SamePaths, PathsOf, Delivers, At,
     Checking, Measuring, Delivering
<1>5. LeftOf(r)'
  BY <1>1, <1>2 DEF Own, Took, Goes, SamePaths, LeftOf, OutcomeOf, Delivering,
     Handles, At, Report
<1>6. RefsOf(r)'
  BY <1>1, <1>2 DEF Own, Took, Goes, SameInput, SameRefs, RefsOf, At, Checking
<1>7. serial' => WrittenOf(r)'
  BY <1>1, <1>2 DEF Own, Took, Goes, SameInput, WrittenOf, Delivers, Delivering, At,
     Handles
<1>8. Frame(r)
  BY <1>1, <1>2 DEF Took, Goes, SameInput, SamePaths, SameRefs, SameDiff, Frame, TypeOK, At,
     Active, Ended
<1> QED
  BY <1>3, <1>4, <1>5, <1>6, <1>7, <1>8 DEF Own

(* A failed summary is reported like any failure.                          *)
LEMMA WriteSummaryStep ==
  ASSUME IInv, NEW r \in Runs, WriteSummary(r)
  PROVE  Frame(r) /\ Own(r)'
<1>1. TypeOK /\ Own(r) /\ UNCHANGED serial /\ At(r, "summary")
  BY DEF IInv, Own, WriteSummary, shared, At, Active
<1>2. /\ UNCHANGED <<files, fetchHead, temps, keyDirs, worktrees>>
      /\ \/ Took(r, "create", run[r].error, run[r].warned)
         \/ Took(r, "finally", TRUE, run[r].warned)
  BY <1>1, Moves DEF WriteSummary, shared
<1>3. OutcomeOf(r)'
  BY <1>1, <1>2 DEF Own, Took, Goes, SameDiff, SameOutputs, SameCode, OutcomeOf,
     Delivers, Handles, HandlerDiff, At, Checking, Measuring, Delivering
<1>4. PathsOf(r)'
  BY <1>1, <1>2 DEF Own, Took, Goes, SameInput, SamePaths, PathsOf, Delivers, At,
     Checking, Measuring, Delivering
<1>5. LeftOf(r)'
  BY <1>1, <1>2 DEF Own, Took, Goes, SamePaths, LeftOf, OutcomeOf, Delivering,
     Handles, At, Report
<1>6. RefsOf(r)'
  BY <1>1, <1>2 DEF Own, Took, Goes, SameInput, SameRefs, RefsOf, At, Checking
<1>7. serial' => WrittenOf(r)'
  BY <1>1, <1>2 DEF Own, Took, Goes, SameInput, WrittenOf, Delivers, Delivering, At,
     Handles
<1>8. Frame(r)
  BY <1>1, <1>2 DEF Took, Goes, SameInput, SamePaths, SameRefs, SameDiff, Frame, TypeOK, At,
     Active, Ended
<1> QED
  BY <1>3, <1>4, <1>5, <1>6, <1>7, <1>8 DEF Own

(* Only a report in a temporary file is added.                             *)
LEMMA CreateTempStep ==
  ASSUME IInv, NEW r \in Runs, CreateTemp(r)
  PROVE  Frame(r) /\ Own(r)'
<1>1. TypeOK /\ Own(r) /\ UNCHANGED serial /\ At(r, "create")
  BY DEF IInv, Own, CreateTemp, shared, At, Active
<1>2. /\ UNCHANGED <<files, fetchHead, keyDirs, worktrees>>
      /\ \/ /\ ~run[r].error /\ run[r].input.report = ""
            /\ Took(r, "truncate", run[r].error, run[r].warned) /\ UNCHANGED temps
         \/ /\ run[r].error /\ run[r].input.report = ""
            /\ Took(r, "failureSummary", run[r].error, run[r].warned)
            /\ UNCHANGED temps
         \/ /\ Took(r, "rename", run[r].error, run[r].warned)
            /\ temps' = temps \cup {Report(r)}
         \/ /\ run[r].error /\ Took(r, "failureSummary", run[r].error, TRUE)
            /\ UNCHANGED temps
         \/ /\ ~run[r].error /\ Took(r, "finally", TRUE, run[r].warned)
            /\ UNCHANGED temps
  BY <1>1, Moves DEF CreateTemp, shared, WriteTemp, ReportFails, AfterReport
<1>3. OutcomeOf(r)'
  BY <1>1, <1>2 DEF Own, Took, Goes, SameDiff, SameOutputs, SameCode, OutcomeOf,
     Delivers, Handles, HandlerDiff, At, Checking, Measuring, Delivering
<1>4. PathsOf(r)'
  BY <1>1, <1>2 DEF Own, Took, Goes, SameInput, SamePaths, PathsOf, Delivers, At,
     Checking, Measuring, Delivering
<1>5. LeftOf(r)'
  BY <1>1, <1>2 DEF Own, Took, Goes, SamePaths, LeftOf, OutcomeOf, Delivering,
     Handles, At, Report
<1>6. RefsOf(r)'
  BY <1>1, <1>2 DEF Own, Took, Goes, SameInput, SameRefs, RefsOf, At, Checking
<1>7. serial' => WrittenOf(r)'
  BY <1>1, <1>2 DEF Own, Took, Goes, SameInput, WrittenOf, Delivers, Delivering, At,
     Handles
<1>8. Frame(r)
  <2>1. temps' \subseteq Content /\ \A t \in temps' : t \in temps \/ t.by = r
    <3>1. temps \subseteq Content /\ Report(r) \in Content /\ Report(r).by = r
      BY <1>1, Contents DEF TypeOK
    <3>2. temps' = temps \/ temps' = temps \cup {Report(r)}
      BY <1>2
    <3> QED
      BY <3>1, <3>2
  <2> QED
    BY <1>1, <1>2, <2>1 DEF Took, Goes, SameInput, SamePaths, SameRefs, SameDiff, Frame,
       TypeOK, At, Active, Ended
<1> QED
  BY <1>3, <1>4, <1>5, <1>6, <1>7, <1>8 DEF Own

(* The report is in place, or its temporary file is gone, or both warned.  *)
LEMMA RenameStep ==
  ASSUME IInv, NEW r \in Runs, Rename(r)
  PROVE  Frame(r) /\ Own(r)'
<1>1. TypeOK /\ Own(r) /\ UNCHANGED serial /\ At(r, "rename")
  BY DEF IInv, Own, Rename, shared, At, Active
<1>2. /\ UNCHANGED <<fetchHead, keyDirs, worktrees>>
      /\ \/ /\ ~run[r].error /\ Took(r, "truncate", run[r].error, run[r].warned)
            /\ files' = [files EXCEPT ![run[r].input.report] = Report(r)]
            /\ temps' = temps \ {Report(r)}
         \/ /\ run[r].error /\ Took(r, "failureSummary", run[r].error, run[r].warned)
            /\ files' = [files EXCEPT ![run[r].input.report] = Report(r)]
            /\ temps' = temps \ {Report(r)}
         \/ /\ ~run[r].error /\ Took(r, "finally", TRUE, run[r].warned)
            /\ UNCHANGED files /\ temps' = temps \ {Report(r)}
         \/ /\ run[r].error /\ Took(r, "failureSummary", run[r].error, TRUE)
            /\ UNCHANGED files /\ temps' = temps \ {Report(r)}
         \/ /\ ~run[r].error /\ Took(r, "finally", TRUE, TRUE)
            /\ UNCHANGED <<files, temps>>
         \/ /\ run[r].error /\ Took(r, "failureSummary", TRUE, TRUE)
            /\ UNCHANGED <<files, temps>>
  <2>1. ASSUME NEW step, run' = [run EXCEPT ![r].pc = step, ![r].warned = TRUE, ![r].error = TRUE]
        PROVE  Took(r, step, TRUE, TRUE)
    <3> DEFINE s == [run[r] EXCEPT !.pc = step, !.warned = TRUE, !.error = TRUE]
    <3>1. run' = [run EXCEPT ![r] = s]
      BY <2>1
    <3>2. run'[r] = s /\ run' = [run EXCEPT ![r] = run'[r]]
      BY <3>1, <1>1, Becomes
    <3>3. run[r] \in State
      BY <1>1 DEF TypeOK
    <3> QED
      BY <3>2, <3>3 DEF Took, Goes, SameInput, SamePaths, SameRefs, SameDiff,
         SameOutputs, SameCode, State
  <2>2. CASE /\ Put(run[r].input.report, Report(r)) /\ temps' = temps \ {Report(r)}
             /\ Goto(r, AfterReport(r))
    BY <1>1, <2>2, Moves DEF Rename, Put, AfterReport
  <2>3. CASE ReportFails(r) /\ temps' = temps \ {Report(r)} /\ UNCHANGED files
    BY <1>1, <2>3, Moves DEF Rename, ReportFails
  <2>4. CASE /\ Discard(r) /\ UNCHANGED files
             /\ ~(ReportFails(r) /\ temps' = temps \ {Report(r)})
    <3>1. run' = [run EXCEPT ![r].pc = IF run[r].error THEN "failureSummary" ELSE "finally",
                             ![r].warned = TRUE, ![r].error = TRUE] /\ UNCHANGED temps
      BY <2>4 DEF Discard
    <3>2. Took(r, IF run[r].error THEN "failureSummary" ELSE "finally", TRUE, TRUE)
      BY <2>1, <3>1
    <3> QED
      BY <2>4, <3>1, <3>2 DEF Rename
  <2> QED
    BY <2>2, <2>3, <2>4 DEF Rename
<1>3. OutcomeOf(r)'
  BY <1>1, <1>2 DEF Own, Took, Goes, SameDiff, SameOutputs, SameCode, OutcomeOf,
     Delivers, Handles, HandlerDiff, At, Checking, Measuring, Delivering
<1>4. PathsOf(r)'
  BY <1>1, <1>2 DEF Own, Took, Goes, SameInput, SamePaths, PathsOf, Delivers, At,
     Checking, Measuring, Delivering
<1>5. LeftOf(r)'
  BY <1>1, <1>2 DEF Own, Took, Goes, SamePaths, LeftOf, OutcomeOf, Delivering,
     Handles, At, Report, Of
<1>6. RefsOf(r)'
  BY <1>1, <1>2 DEF Own, Took, Goes, SameInput, SameRefs, RefsOf, At, Checking
<1>7. serial' => WrittenOf(r)'
  <2>1. ASSUME files' = [files EXCEPT ![run[r].input.report] = Report(r)],
               run[r].input.report # ""
        PROVE  files'[run[r].input.report] = Report(r)
    <3>1. Report(r) \in Content /\ run[r].input.report \in Places
      BY <1>1, <2>1, Contents, InputTyped
    <3> QED
      BY <1>1, <2>1, <3>1, PutEffect
  <2>2. Report(r) = (IF run[r].error THEN Of("failure", r) ELSE Of("full", r))
    BY DEF Report
  <2> QED
    BY <1>1, <1>2, <2>1, <2>2 DEF Took, Goes, SameInput, WrittenOf, Delivers,
       Delivering, At
<1>8. Frame(r)
  <2>1. ASSUME files' = [files EXCEPT ![run[r].input.report] = Report(r)]
        PROVE  /\ files' \in [Places -> Content]
               /\ \A p \in Places : files'[p].kind = "partial" => files[p].kind = "partial"
               /\ \A p \in Places : files'[p] = files[p] \/ p = run[r].input.report
    <3>1. Report(r) \in Content /\ Report(r).kind # "partial"
      BY Contents
    <3>2. /\ files' \in [Places -> Content]
          /\ \A p \in Places : p = run[r].input.report => files'[p] = Report(r)
          /\ \A p \in Places : p # run[r].input.report => files'[p] = files[p]
      BY <1>1, <2>1, <3>1, PutEffect
    <3> QED
      BY <3>1, <3>2
  <2>2. temps' \subseteq Content /\ temps' \subseteq temps
    BY <1>1, <1>2 DEF TypeOK
  <2> QED
    BY <1>1, <1>2, <2>1, <2>2 DEF Took, Goes, SameInput, SamePaths, SameRefs, SameDiff, Frame,
       TypeOK, At, Active, Ended
<1> QED
  BY <1>3, <1>4, <1>5, <1>6, <1>7, <1>8 DEF Own

(* The metadata never overwrites the report: their paths are distinct.     *)
LEMMA TruncateStep ==
  ASSUME IInv, NEW r \in Runs, Truncate(r)
  PROVE  Frame(r) /\ Own(r)'
<1>1. TypeOK /\ Own(r) /\ UNCHANGED serial /\ At(r, "truncate")
  BY DEF IInv, Own, Truncate, shared, At, Active
<1>2. /\ UNCHANGED <<fetchHead, temps, keyDirs, worktrees>>
      /\ \/ /\ ~(run[r].input.metadata # "" /\ run[r].input.pr)
            /\ Took(r, "comment", run[r].error, run[r].warned) /\ UNCHANGED files
         \/ /\ Took(r, "metadata", run[r].error, run[r].warned)
            /\ files' = [files EXCEPT ![run[r].input.metadata] = Of("partial", r)]
         \/ Took(r, "finally", TRUE, run[r].warned) /\ UNCHANGED files
  BY <1>1, Moves DEF Truncate, shared, Put
<1>3. OutcomeOf(r)'
  BY <1>1, <1>2 DEF Own, Took, Goes, SameDiff, SameOutputs, SameCode, OutcomeOf,
     Delivers, Handles, HandlerDiff, At, Checking, Measuring, Delivering
<1>4. PathsOf(r)'
  BY <1>1, <1>2 DEF Own, Took, Goes, SameInput, SamePaths, PathsOf, Delivers, At,
     Checking, Measuring, Delivering
<1>5. LeftOf(r)'
  BY <1>1, <1>2 DEF Own, Took, Goes, SamePaths, LeftOf, OutcomeOf, Delivering,
     Handles, At, Report
<1>6. RefsOf(r)'
  BY <1>1, <1>2 DEF Own, Took, Goes, SameInput, SameRefs, RefsOf, At, Checking
<1>7. serial' => WrittenOf(r)'
  <2>1. ASSUME files' = [files EXCEPT ![run[r].input.metadata] = Of("partial", r)],
               Delivers(r), serial, run[r].input.report # ""
        PROVE  files'[run[r].input.report] = Of("full", r)
    <3>1. run[r].input.report # run[r].input.metadata
      BY <1>1, <2>1 DEF Own, PathsOf, Collides
    <3>2. files[run[r].input.report] = Of("full", r)
      BY <1>1, <2>1 DEF Own, WrittenOf, At
    <3> QED
      BY <1>1, <2>1, <3>1, <3>2, PutEffect, Contents, InputTyped
  <2> QED
    BY <1>1, <1>2, <2>1 DEF Own, Took, Goes, SameInput, SamePaths, WrittenOf,
       Delivers, Delivering, At, Handles, OutcomeOf
<1>8. Frame(r)
  <2>1. ASSUME files' = [files EXCEPT ![run[r].input.metadata] = Of("partial", r)], At(r, "truncate")
        PROVE  /\ files' \in [Places -> Content]
               /\ \A p \in Places : files'[p].kind = "partial" =>
                    files[p].kind = "partial" \/ run[r].input.metadata = p
               /\ \A p \in Places : files'[p] = files[p] \/ p = run[r].input.metadata
    <3>1. Of("partial", r) \in Content
      BY Contents
    <3> QED
      BY <1>1, <2>1, <3>1, PutEffect
  <2> QED
    BY <1>1, <1>2, <2>1 DEF Took, Goes, SameInput, SamePaths, SameRefs, SameDiff, Frame,
       TypeOK, At, Active, Ended
<1> QED
  BY <1>3, <1>4, <1>5, <1>6, <1>7, <1>8 DEF Own

(* The metadata is complete, and the report as it was.                     *)
LEMMA WriteMetadataStep ==
  ASSUME IInv, NEW r \in Runs, WriteMetadata(r)
  PROVE  Frame(r) /\ Own(r)'
<1>1. TypeOK /\ Own(r) /\ UNCHANGED serial /\ At(r, "metadata")
  BY DEF IInv, Own, WriteMetadata, shared, At, Active
<1>2. /\ UNCHANGED <<fetchHead, temps, keyDirs, worktrees>>
      /\ \/ /\ Took(r, "comment", run[r].error, run[r].warned)
            /\ files' = [files EXCEPT ![run[r].input.metadata] = Of("metadata", r)]
         \/ Took(r, "finally", TRUE, run[r].warned) /\ UNCHANGED files
  BY <1>1, Moves DEF WriteMetadata, shared, Put
<1>3. OutcomeOf(r)'
  BY <1>1, <1>2 DEF Own, Took, Goes, SameDiff, SameOutputs, SameCode, OutcomeOf,
     Delivers, Handles, HandlerDiff, At, Checking, Measuring, Delivering
<1>4. PathsOf(r)'
  BY <1>1, <1>2 DEF Own, Took, Goes, SameInput, SamePaths, PathsOf, Delivers, At,
     Checking, Measuring, Delivering
<1>5. LeftOf(r)'
  BY <1>1, <1>2 DEF Own, Took, Goes, SamePaths, LeftOf, OutcomeOf, Delivering,
     Handles, At, Report
<1>6. RefsOf(r)'
  BY <1>1, <1>2 DEF Own, Took, Goes, SameInput, SameRefs, RefsOf, At, Checking
<1>7. serial' => WrittenOf(r)'
  <2>1. ASSUME files' = [files EXCEPT ![run[r].input.metadata] = Of("metadata", r)],
               Delivers(r), serial, run[r].input.report # ""
        PROVE  files'[run[r].input.report] = Of("full", r)
    <3>1. run[r].input.report # run[r].input.metadata
      BY <1>1, <2>1 DEF Own, PathsOf, Collides
    <3>2. files[run[r].input.report] = Of("full", r)
      BY <1>1, <2>1 DEF Own, WrittenOf, At
    <3> QED
      BY <1>1, <2>1, <3>1, <3>2, PutEffect, Contents, InputTyped
  <2>2. ASSUME files' = [files EXCEPT ![run[r].input.metadata] = Of("metadata", r)],
               run[r].input.metadata # ""
        PROVE  files'[run[r].input.metadata] = Of("metadata", r)
    <3>1. Of("metadata", r) \in Content /\ run[r].input.metadata \in Places
      BY <1>1, <2>2, Contents, InputTyped
    <3> QED
      BY <1>1, <2>2, <3>1, PutEffect
  <2> QED
    BY <1>1, <1>2, <2>1, <2>2 DEF Own, Took, Goes, SameInput, SamePaths, WrittenOf,
       Delivers, Delivering, At, Handles, OutcomeOf
<1>8. Frame(r)
  <2>1. ASSUME files' = [files EXCEPT ![run[r].input.metadata] = Of("metadata", r)], At(r, "metadata")
        PROVE  /\ files' \in [Places -> Content]
               /\ \A p \in Places : files'[p].kind = "partial" =>
                    files[p].kind = "partial" \/ run[r].input.metadata = p
               /\ \A p \in Places : files'[p] = files[p] \/ p = run[r].input.metadata
    <3>1. Of("metadata", r) \in Content
      BY Contents
    <3>2. /\ files' \in [Places -> Content]
          /\ \A p \in Places : p # run[r].input.metadata => files'[p] = files[p]
      BY <1>1, <2>1, <3>1, PutEffect
    <3> QED
      BY <3>2
  <2> QED
    BY <1>1, <1>2, <2>1 DEF Took, Goes, SameInput, SamePaths, SameRefs, SameDiff, Frame,
       TypeOK, At, Active, Ended
<1> QED
  BY <1>3, <1>4, <1>5, <1>6, <1>7, <1>8 DEF Own

(* A comment that cannot be posted is a warning.                           *)
LEMMA PostCommentStep ==
  ASSUME IInv, NEW r \in Runs, PostComment(r)
  PROVE  Frame(r) /\ Own(r)'
<1>1. TypeOK /\ Own(r) /\ UNCHANGED serial /\ At(r, "comment")
  BY DEF IInv, Own, PostComment, shared, At, Active
<1>2. /\ UNCHANGED <<files, fetchHead, temps, keyDirs, worktrees>>
      /\ \/ Took(r, "status", run[r].error, run[r].warned)
         \/ Took(r, "status", run[r].error, TRUE)
  BY <1>1, Moves DEF PostComment, shared
<1>3. OutcomeOf(r)'
  BY <1>1, <1>2 DEF Own, Took, Goes, SameDiff, SameOutputs, SameCode, OutcomeOf,
     Delivers, Handles, HandlerDiff, At, Checking, Measuring, Delivering
<1>4. PathsOf(r)'
  BY <1>1, <1>2 DEF Own, Took, Goes, SameInput, SamePaths, PathsOf, Delivers, At,
     Checking, Measuring, Delivering
<1>5. LeftOf(r)'
  BY <1>1, <1>2 DEF Own, Took, Goes, SamePaths, LeftOf, OutcomeOf, Delivering,
     Handles, At, Report
<1>6. RefsOf(r)'
  BY <1>1, <1>2 DEF Own, Took, Goes, SameInput, SameRefs, RefsOf, At, Checking
<1>7. serial' => WrittenOf(r)'
  BY <1>1, <1>2 DEF Own, Took, Goes, SameInput, WrittenOf, Delivers, Delivering, At,
     Handles
<1>8. Frame(r)
  BY <1>1, <1>2 DEF Took, Goes, SameInput, SamePaths, SameRefs, SameDiff, Frame, TypeOK, At,
     Active, Ended
<1> QED
  BY <1>3, <1>4, <1>5, <1>6, <1>7, <1>8 DEF Own

(* The exit code follows the violations.                                   *)
LEMMA SetStatusStep ==
  ASSUME IInv, NEW r \in Runs, SetStatus(r)
  PROVE  Frame(r) /\ Own(r)'
<1>1. TypeOK /\ Own(r) /\ UNCHANGED serial /\ At(r, "status")
  BY DEF IInv, Own, SetStatus, shared, At, Active
<1>2. /\ UNCHANGED <<files, fetchHead, temps, keyDirs, worktrees>>
      /\ /\ Goes(r, "finally", run[r].error, run[r].warned) /\ SameInput(r)
         /\ SamePaths(r) /\ SameRefs(r) /\ SameDiff(r) /\ SameOutputs(r)
         /\ run'[r].failed = run[r].violations
  <2> DEFINE s1 == [run[r] EXCEPT !.pc = "finally", !.failed = run[r].violations]
  <2>1. ASSUME run' = [run EXCEPT ![r].pc = "finally", ![r].failed = run[r].violations]
        PROVE  /\ Goes(r, "finally", run[r].error, run[r].warned) /\ SameInput(r)
               /\ SamePaths(r) /\ SameRefs(r) /\ SameDiff(r) /\ SameOutputs(r)
               /\ run'[r].failed = run[r].violations
    <3>1. run' = [run EXCEPT ![r] = s1]
      BY <2>1
    <3>2. run'[r] = s1 /\ run' = [run EXCEPT ![r] = run'[r]]
      BY <3>1, <1>1, Becomes
    <3>3. run[r] \in State
      BY <1>1 DEF TypeOK
    <3> QED
      BY <1>1, <3>2, <3>3 DEF Goes, SameInput, SamePaths, SameRefs, SameDiff,
         SameOutputs, SameCode, State
  <2> HIDE DEF s1
  <2> QED
    BY <1>1, <2>1, Moves DEF SetStatus, shared
<1>3. OutcomeOf(r)'
  BY <1>1, <1>2 DEF Own, Took, Goes, SameDiff, SameOutputs, SameCode, OutcomeOf,
     Delivers, Handles, HandlerDiff, At, Checking, Measuring, Delivering
<1>4. PathsOf(r)'
  BY <1>1, <1>2 DEF Own, Took, Goes, SameInput, SamePaths, PathsOf, Delivers, At,
     Checking, Measuring, Delivering
<1>5. LeftOf(r)'
  BY <1>1, <1>2 DEF Own, Took, Goes, SamePaths, LeftOf, OutcomeOf, Delivering,
     Handles, At, Report
<1>6. RefsOf(r)'
  BY <1>1, <1>2 DEF Own, Took, Goes, SameInput, SameRefs, RefsOf, At, Checking
<1>7. serial' => WrittenOf(r)'
  BY <1>1, <1>2 DEF Own, Took, Goes, SameInput, WrittenOf, Delivers, Delivering, At,
     Handles
<1>8. Frame(r)
  BY <1>1, <1>2 DEF Took, Goes, SameInput, SamePaths, SameRefs, SameDiff, Frame, TypeOK, At,
     Active, Ended
<1> QED
  BY <1>3, <1>4, <1>5, <1>6, <1>7, <1>8 DEF Own

(* The key directory is gone, or the run has warned.                       *)
LEMMA FinallyStep ==
  ASSUME IInv, NEW r \in Runs, Finally(r)
  PROVE  Frame(r) /\ Own(r)'
<1>1. TypeOK /\ Own(r) /\ UNCHANGED serial /\ At(r, "finally")
  BY DEF IInv, Own, Finally, shared, At, Active
<1>2. /\ UNCHANGED <<files, fetchHead, temps, worktrees>>
      /\ \/ /\ run[r].error /\ Took(r, "catch", run[r].error, run[r].warned)
            /\ keyDirs' = keyDirs \ {r}
         \/ run[r].error /\ Took(r, "catch", run[r].error, TRUE) /\ UNCHANGED keyDirs
         \/ /\ ~run[r].error /\ Took(r, "exited", run[r].error, run[r].warned)
            /\ keyDirs' = keyDirs \ {r}
         \/ /\ ~run[r].error /\ Took(r, "exited", run[r].error, TRUE)
            /\ UNCHANGED keyDirs
  BY <1>1, Moves DEF Finally, shared
<1>3. OutcomeOf(r)'
  BY <1>1, <1>2 DEF Own, Took, Goes, SameDiff, SameOutputs, SameCode, OutcomeOf,
     Delivers, Handles, HandlerDiff, At, Checking, Measuring, Delivering
<1>4. PathsOf(r)'
  BY <1>1, <1>2 DEF Own, Took, Goes, SameInput, SamePaths, PathsOf, Delivers, At,
     Checking, Measuring, Delivering
<1>5. LeftOf(r)'
  BY <1>1, <1>2 DEF Own, Took, Goes, SamePaths, LeftOf, OutcomeOf, Delivering,
     Handles, At, Report
<1>6. RefsOf(r)'
  BY <1>1, <1>2 DEF Own, Took, Goes, SameInput, SameRefs, RefsOf, At, Checking
<1>7. serial' => WrittenOf(r)'
  BY <1>1, <1>2 DEF Own, Took, Goes, SameInput, WrittenOf, Delivers, Delivering, At,
     Handles
<1>8. Frame(r)
  BY <1>1, <1>2 DEF Took, Goes, SameInput, SamePaths, SameRefs, SameDiff, Frame, TypeOK, At,
     Active, Ended
<1> QED
  BY <1>3, <1>4, <1>5, <1>6, <1>7, <1>8 DEF Own

(* The outputs tell of a failure, whatever was set before.                 *)
LEMMA CatchStep ==
  ASSUME IInv, NEW r \in Runs, Catch(r)
  PROVE  Frame(r) /\ Own(r)'
<1>1. TypeOK /\ Own(r) /\ UNCHANGED serial /\ At(r, "catch")
  BY DEF IInv, Own, Catch, shared, At, Active
<1>2. /\ UNCHANGED <<files, fetchHead, temps, keyDirs, worktrees>>
      /\ \/ ~run[r].rejected /\ Goes(r, "create", run[r].error, run[r].warned)
         \/ run[r].rejected /\ Goes(r, "failureSummary", run[r].error, run[r].warned)
      /\ SameInput(r) /\ SamePaths(r) /\ SameRefs(r) /\ SameDiff(r)
      /\ /\ run'[r].result = "fail" /\ run'[r].diffJson = HandlerDiff(r)
         /\ run'[r].failed
  <2> DEFINE step == IF run[r].rejected THEN "failureSummary" ELSE "create"
             s == [run[r] EXCEPT !.pc = step, !.result = "fail", !.diffJson = HandlerDiff(r),
                                 !.failed = TRUE]
  <2>1. run' = [run EXCEPT ![r] = s]
    BY DEF Catch
  <2>2. run'[r] = s /\ run' = [run EXCEPT ![r] = run'[r]]
    BY <2>1, <1>1, Becomes
  <2>3. run[r] \in State /\ HandlerDiff(r) \in {"", "{}", "diff"}
    BY <1>1 DEF TypeOK, HandlerDiff
  <2>4. /\ Goes(r, step, run[r].error, run[r].warned)
        /\ SameInput(r) /\ SamePaths(r) /\ SameRefs(r) /\ SameDiff(r)
        /\ /\ run'[r].result = "fail" /\ run'[r].diffJson = HandlerDiff(r)
           /\ run'[r].failed
    BY <2>2, <2>3 DEF Goes, SameInput, SamePaths, SameRefs, SameDiff, State
  <2> QED
    BY <2>4 DEF Catch, shared
<1>3. OutcomeOf(r)'
  BY <1>1, <1>2 DEF Own, Took, Goes, SameDiff, SameOutputs, SameCode, OutcomeOf,
     Delivers, Handles, HandlerDiff, At, Checking, Measuring, Delivering
<1>4. PathsOf(r)'
  BY <1>1, <1>2 DEF Own, Took, Goes, SameInput, SamePaths, PathsOf, OutcomeOf,
     Delivers, At, Checking,
     Measuring, Delivering
<1>5. LeftOf(r)'
  BY <1>1, <1>2 DEF Own, Took, Goes, SamePaths, LeftOf, OutcomeOf, Delivering,
     Handles, At, Report
<1>6. RefsOf(r)'
  BY <1>1, <1>2 DEF Own, Took, Goes, SameInput, SameRefs, RefsOf, At, Checking
<1>7. serial' => WrittenOf(r)'
  BY <1>1, <1>2 DEF Own, Took, Goes, SameInput, SamePaths, WrittenOf, OutcomeOf,
     PathsOf, Delivers,
     Delivering, At, Handles
<1>8. Frame(r)
  BY <1>1, <1>2 DEF Took, Goes, SameInput, SamePaths, SameRefs, SameDiff, Frame, TypeOK, At,
     Active, Ended
<1> QED
  BY <1>3, <1>4, <1>5, <1>6, <1>7, <1>8 DEF Own

(* The handler's last step leaves the exit code at 1.                      *)
LEMMA FailureSummaryStep ==
  ASSUME IInv, NEW r \in Runs, FailureSummary(r)
  PROVE  Frame(r) /\ Own(r)'
<1>1. TypeOK /\ Own(r) /\ UNCHANGED serial /\ At(r, "failureSummary")
  BY DEF IInv, Own, FailureSummary, shared, At, Active
<1>2. /\ UNCHANGED <<files, fetchHead, temps, keyDirs, worktrees>>
      /\ Took(r, "exited", run[r].error, run[r].warned)
  BY <1>1, Moves DEF FailureSummary, shared
<1>3. OutcomeOf(r)'
  BY <1>1, <1>2 DEF Own, Took, Goes, SameDiff, SameOutputs, SameCode, OutcomeOf,
     Delivers, Handles, HandlerDiff, At, Checking, Measuring, Delivering
<1>4. PathsOf(r)'
  BY <1>1, <1>2 DEF Own, Took, Goes, SameInput, SamePaths, PathsOf, Delivers, At,
     Checking, Measuring, Delivering
<1>5. LeftOf(r)'
  BY <1>1, <1>2 DEF Own, Took, Goes, SamePaths, LeftOf, OutcomeOf, Delivering,
     Handles, At, Report
<1>6. RefsOf(r)'
  BY <1>1, <1>2 DEF Own, Took, Goes, SameInput, SameRefs, RefsOf, At, Checking
<1>7. serial' => WrittenOf(r)'
  BY <1>1, <1>2 DEF Own, Took, Goes, SameInput, SamePaths, WrittenOf, OutcomeOf,
     Delivers, Delivering, At
<1>8. Frame(r)
  BY <1>1, <1>2 DEF Took, Goes, SameInput, SamePaths, SameRefs, SameDiff, Frame, TypeOK, At,
     Active, Ended
<1> QED
  BY <1>3, <1>4, <1>5, <1>6, <1>7, <1>8 DEF Own

(* A killed run leaves everything as it is.                                *)
LEMMA KillStep ==
  ASSUME IInv, NEW r \in Runs, Kill(r)
  PROVE  Frame(r) /\ Own(r)'
<1>1. TypeOK /\ Own(r) /\ UNCHANGED serial /\ run[r].pc \in Active
  BY DEF IInv, Own, Kill, shared, At, Active
<1>2. /\ UNCHANGED <<files, fetchHead, temps, keyDirs, worktrees>>
      /\ Took(r, "killed", run[r].error, run[r].warned)
  BY <1>1, Moves DEF Kill, shared
<1>3. OutcomeOf(r)'
  BY <1>1, <1>2 DEF Own, Took, Goes, SameDiff, SameOutputs, SameCode, OutcomeOf,
     Delivers, Handles, HandlerDiff, At, Checking, Measuring, Delivering
<1>4. PathsOf(r)'
  BY <1>1, <1>2 DEF Own, Took, Goes, SameInput, SamePaths, PathsOf, Delivers, At,
     Checking, Measuring, Delivering
<1>5. LeftOf(r)'
  BY <1>1, <1>2 DEF Own, Took, Goes, SamePaths, LeftOf, OutcomeOf, Delivering,
     Handles, At, Report
<1>6. RefsOf(r)'
  BY <1>1, <1>2 DEF Own, Took, Goes, SameInput, SameRefs, RefsOf, At, Checking
<1>7. serial' => WrittenOf(r)'
  BY <1>1, <1>2 DEF Own, Took, Goes, SameInput, WrittenOf, Delivers, Delivering, At,
     Handles
<1>8. Frame(r)
  BY <1>1, <1>2 DEF Took, Goes, SameInput, SamePaths, SameRefs, SameDiff, Frame, TypeOK, At,
     Active, Ended
<1> QED
  BY <1>3, <1>4, <1>5, <1>6, <1>7, <1>8 DEF Own

-----------------------------------------------------------------------------
(* Every step of a run keeps what holds of that run.                       *)
LEMMA StepOwn ==
  ASSUME IInv, NEW r \in Runs, Step(r)
  PROVE  Frame(r) /\ Own(r)'
<1>1. CASE Invoke(r) \/ ReadInputs(r) \/ CheckRpc(r) \/ CheckPaths(r) \/ LoadPolicy(r)
  BY <1>1, InvokeStep, ReadInputsStep, CheckRpcStep, CheckPathsStep, LoadPolicyStep
<1>2. CASE ResolvePolicy(r) \/ MeasureHead(r) \/ Fetch(r) \/ AddWorktree(r) \/ MeasureBase(r)
  BY <1>2, ResolvePolicyStep, MeasureHeadStep, FetchStep, AddWorktreeStep,
     MeasureBaseStep
<1>3. CASE RemoveWorktree(r) \/ Compare(r) \/ WriteSummary(r) \/ CreateTemp(r) \/ Rename(r)
  BY <1>3, RemoveWorktreeStep, CompareStep, WriteSummaryStep, CreateTempStep,
     RenameStep
<1>4. CASE Truncate(r) \/ WriteMetadata(r) \/ PostComment(r) \/ SetStatus(r) \/ Finally(r)
  BY <1>4, TruncateStep, WriteMetadataStep, PostCommentStep, SetStatusStep,
     FinallyStep
<1>5. CASE Catch(r) \/ FailureSummary(r) \/ Kill(r)
  BY <1>5, CatchStep, FailureSummaryStep, KillStep
<1> QED
  BY <1>1, <1>2, <1>3, <1>4, <1>5 DEF Step

(* Another run's state stays, and what is said of it too: without overlap  *)
(* it is not active, with overlap nothing is said of shared state.         *)
LEMMA OthersKept ==
  ASSUME IInv, NEW r \in Runs, Frame(r), NEW t \in Runs \ {r}
  PROVE  /\ run'[t] = run[t]
         /\ OutcomeOf(t)' /\ PathsOf(t)' /\ LeftOf(t)' /\ RefsOf(t)'
         /\ serial' /\ run'[t].pc \in Active => WrittenOf(t)'
<1>1. run'[t] = run[t] /\ UNCHANGED serial
  BY DEF Frame, IInv, TypeOK
<1>2. serial => run[t].pc \notin Active
  BY DEF Frame, IInv, SerialInv
<1>3. OutcomeOf(t)' /\ PathsOf(t)'
  BY <1>1 DEF IInv, OutcomeOf, PathsOf, Delivers, Handles, HandlerDiff, At
<1>4. LeftOf(t)'
  <2>1. /\ t \in keyDirs' => t \in keyDirs
        /\ t \in worktrees' => t \in worktrees
        /\ \A u \in temps' : u.by = t => u \in temps
    BY DEF Frame
  <2> QED
    BY <1>1, <2>1 DEF IInv, LeftOf, Handles, At, Report
<1>5. RefsOf(t)'
  <2>1. RefsOf(t) /\ (fetchHead' = fetchHead \/ fetchHead' \in Revisions)
    BY DEF Frame, IInv
  <2>2. serial => run[t].pc \notin {"resolve", "worktree"}
    BY <1>2 DEF Active
  <2> QED
    BY <1>1, <2>1, <2>2 DEF RefsOf, At, Checking
<1> QED
  BY <1>1, <1>2, <1>3, <1>4, <1>5

(* A metadata file in part is that of a run which has begun.               *)
LEMMA PartialKept ==
  ASSUME IInv, NEW r \in Runs, Frame(r)
  PROVE  NoPartialReport'
<1> SUFFICES ASSUME NEW p \in Places, files'[p].kind = "partial"
             PROVE  \E t \in Runs : /\ run'[t].input.metadata = p
                                    /\ run'[t].pc \notin {"idle", "inputs"}
  BY DEF NoPartialReport
<1>1. PICK t \in Runs : run[t].input.metadata = p /\ run[t].pc \notin {"idle", "inputs"}
  BY DEF Frame, IInv, NoPartialReport
<1>2. run'[t].input = run[t].input /\ run'[t].pc \notin {"idle", "inputs"}
  BY <1>1, OthersKept DEF Frame, At
<1> QED
  BY <1>1, <1>2

LEMMA Preserved == IInv /\ [Next]_vars => IInv'
<1> SUFFICES ASSUME IInv, [Next]_vars PROVE IInv'
  OBVIOUS
<1>1. CASE UNCHANGED vars
  <2>1. UNCHANGED <<serial, files, fetchHead, temps, keyDirs, worktrees, run>>
    BY <1>1 DEF vars, shared
  <2>2. TypeOK' /\ NoPartialReport' /\ SerialInv'
    BY <2>1 DEF IInv, TypeOK, At, NoPartialReport, SerialInv
  <2>3. ASSUME NEW t \in Runs
        PROVE  /\ OutcomeOf(t)' /\ PathsOf(t)' /\ LeftOf(t)' /\ RefsOf(t)'
               /\ serial' /\ run'[t].pc \in Active => WrittenOf(t)'
    <3>1. OutcomeOf(t)' /\ PathsOf(t)'
      BY <2>1 DEF IInv, OutcomeOf, PathsOf, Delivers, Handles, HandlerDiff, At
    <3>2. LeftOf(t)' /\ RefsOf(t)'
      BY <2>1 DEF IInv, LeftOf, RefsOf, Handles, At, Report
    <3>3. serial' /\ run'[t].pc \in Active => WrittenOf(t)'
      BY <2>1 DEF IInv, WrittenOf, Delivers, At
    <3> QED
      BY <3>1, <3>2, <3>3
  <2> QED
    BY <2>2, <2>3 DEF IInv
<1>2. ASSUME NEW r \in Runs, Step(r) PROVE IInv'
  <2>1. Frame(r) /\ Own(r)'
    BY <1>2, StepOwn
  <2>2. \A t \in Runs : /\ OutcomeOf(t)' /\ PathsOf(t)' /\ LeftOf(t)' /\ RefsOf(t)'
                        /\ serial' /\ run'[t].pc \in Active => WrittenOf(t)'
    BY <2>1, OthersKept DEF Own
  <2>3. TypeOK'
    <3>1. run' \in [Runs -> State]
      BY <2>1 DEF Frame, IInv, TypeOK
    <3>2. \A t \in Runs : run'[t].pc = "base" => run'[t].base \in Revisions
      BY <2>1, OthersKept DEF Frame, IInv, TypeOK, At
    <3>3. \A t \in Runs : run'[t].pc = "head" => run'[t].policy # ""
      BY <2>1, OthersKept DEF Frame, IInv, TypeOK, At
    <3> QED
      BY <2>1, <3>1, <3>2, <3>3 DEF Frame, IInv, TypeOK, At
  <2>4. NoPartialReport'
    BY <2>1, PartialKept
  <2>5. SerialInv'
    <3>1. serial => \A t \in Runs \ {r} : run'[t].pc \notin Active
      BY <2>1, OthersKept DEF Frame, IInv, SerialInv
    <3> QED
      BY <2>1, <3>1 DEF Frame, SerialInv
  <2> QED
    BY <2>2, <2>3, <2>4, <2>5 DEF IInv
<1> QED
  BY <1>1, <1>2 DEF Next

LEMMA InitInv == Init => IInv
<1> SUFFICES ASSUME Init PROVE IInv
  OBVIOUS
<1> DEFINE s(r) == [pc |-> "idle", input |-> CHOOSE i \in Inputs[r] : TRUE,
              rejected |-> FALSE, checked |-> FALSE, policy |-> "", base |-> "",
              diff |-> FALSE, violations |-> FALSE, error |-> FALSE, warned |-> FALSE,
              result |-> "", diffJson |-> "", failed |-> FALSE]
<1>1. run = [r \in Runs |-> s(r)]
  BY DEF Init
<1>2. \A r \in Runs : s(r) \in State
  <2> SUFFICES ASSUME NEW r \in Runs PROVE s(r) \in State
    OBVIOUS
  <2>1. (CHOOSE i \in Inputs[r] : TRUE) \in Input
    BY InputsAssumption
  <2> QED
    BY <2>1 DEF State
<1>3. \A r \in Runs : /\ run[r].pc = "idle" /\ ~run[r].rejected /\ ~run[r].checked /\ ~run[r].diff
                      /\ ~run[r].error /\ run[r].policy = "" /\ run[r].base = ""
  BY <1>1
<1> HIDE DEF s
<1>4. TypeOK
  <2>1. files \in [Places -> Content]
    BY DEF Init, Of, Content
  <2>2. serial \in BOOLEAN
    BY RunsAssumption DEF Init
  <2>3. run \in [Runs -> State] /\ \A r \in Runs : ~At(r, "base") /\ ~At(r, "head")
    BY <1>1, <1>2, <1>3 DEF At
  <2>4. fetchHead \in Revisions \cup {""} /\ temps \subseteq Content
        /\ keyDirs \subseteq Runs /\ worktrees \subseteq Runs
    BY DEF Init
  <2> QED
    BY <2>1, <2>2, <2>3, <2>4 DEF TypeOK
<1>5. NoPartialReport /\ SerialInv
  BY <1>3 DEF Init, NoPartialReport, SerialInv, Active, Of
<1>6. ASSUME NEW r \in Runs PROVE OutcomeOf(r) /\ PathsOf(r) /\ LeftOf(r) /\ RefsOf(r)
  BY <1>3 DEF Init, OutcomeOf, PathsOf, LeftOf, RefsOf, Delivers, Handles, At,
     Checking, Measuring,
     Delivering
<1>7. \A r \in Runs : run[r].pc \notin Active
  BY <1>3 DEF Active
<1> QED
  BY <1>4, <1>5, <1>6, <1>7 DEF IInv

(* Every reachable state satisfies the inductive invariant.                *)
THEOREM Invariance == Spec => []IInv
  BY InitInv, Preserved, PTL DEF Spec

-----------------------------------------------------------------------------
(* Every variable keeps its type, and BASE is measured at a revision that  *)
(* some run or the policy names.                                           *)
THEOREM TypeCorrect == Spec => []TypeOK
<1>1. IInv => TypeOK
  BY DEF IInv
<1> QED
  BY Invariance, <1>1, PTL

(* README.md, "Outputs": the exit code, the result and diff-json agree,    *)
(* however the delivery of the comparison went.                            *)
THEOREM OutputsAgree == Spec => []OutputsTell
<1>1. IInv => OutputsTell
  <2> SUFFICES ASSUME IInv, NEW r \in Runs, At(r, "exited")
               PROVE  /\ run[r].failed <=> run[r].result = "fail"
                      /\ ~run[r].failed <=> run[r].result = "pass"
                      /\ run[r].diff <=> run[r].diffJson = "diff"
                      /\ run[r].result = "pass" => run[r].diff /\ ~run[r].violations
    BY DEF OutputsTell
  <2>1. OutcomeOf(r)
    BY DEF IInv
  <2>2. CASE run[r].error
    BY <2>1, <2>2 DEF OutcomeOf, Handles, HandlerDiff, At
  <2>3. CASE ~run[r].error
    BY <2>1, <2>3 DEF OutcomeOf, At
  <2> QED
    BY <2>2, <2>3
<1> QED
  BY Invariance, <1>1, PTL

(* No report is ever there in part, though the runner may kill any run.    *)
THEOREM ReportsWhole == Spec => []NoPartialReport
<1>1. IInv => NoPartialReport
  BY DEF IInv
<1> QED
  BY Invariance, <1>1, PTL

(* What a run leaves behind when it exits it has warned of.                *)
THEOREM LeftoversTold == Spec => []LeftoversWarned
<1>1. IInv => LeftoversWarned
  BY DEF IInv, LeftoversWarned, LeftOf, At
<1> QED
  BY Invariance, <1>1, PTL

(* Runs that do not overlap measure and judge by the revisions they name.  *)
THEOREM RevisionsKept == Spec => []RevisionsAsAsked
<1>1. IInv => RevisionsAsAsked
  BY DEF IInv, RevisionsAsAsked, RefsOf
<1> QED
  BY Invariance, <1>1, PTL

-----------------------------------------------------------------------------
(* A step that changes run r is a step of r.                               *)
LEMMA ActsItself ==
  ASSUME IInv, [Next]_vars, NEW r \in Runs, run'[r] # run[r]
  PROVE  Step(r) /\ Frame(r) /\ Own(r)'
<1>1. PICK t \in Runs : Step(t)
  BY DEF Next, vars
<1>2. t = r
  BY <1>1, StepOwn, OthersKept
<1> QED
  BY <1>1, <1>2, StepOwn

(* An exit code of 0 means that everything asked for is in place.          *)
THEOREM PassesDeliver == Spec => PassDelivered
<1> DEFINE Delivered ==
      \A r \in Runs : serial /\ Exits(r) /\ ~run'[r].failed =>
       LET input == run[r].input
       IN /\ input.report # "" => files'[input.report] = Of("full", r)
          /\ input.metadata # "" /\ input.pr
               => files'[input.metadata] = Of("metadata", r)
<1>1. IInv /\ [Next]_vars => Delivered
  <2> SUFFICES ASSUME IInv, [Next]_vars, NEW r \in Runs, serial, Exits(r), ~run'[r].failed
               PROVE  /\ run[r].input.report # "" => files'[run[r].input.report] = Of("full", r)
                      /\ run[r].input.metadata # "" /\ run[r].input.pr
                           => files'[run[r].input.metadata] = Of("metadata", r)
    BY DEF Delivered
  <2>1. Frame(r) /\ Own(r)'
    BY ActsItself DEF Exits, At
  <2>2. run'[r].input = run[r].input /\ run'[r].pc = "exited" /\ serial'
    BY <2>1 DEF Frame, Exits, At
  <2>3. ~run'[r].error
    BY <2>1, <2>2 DEF Own, OutcomeOf, Handles
  <2> QED
    BY <2>1, <2>2, <2>3 DEF Own, WrittenOf, At
<1>2. IInv /\ [Next]_vars => [Delivered]_vars
  BY <1>1
<1> QED
  BY Invariance, <1>2, PTL DEF Spec, PassDelivered

(* Files change only where reports and metadata are written.               *)
LEMMA FilesKept ==
  ASSUME NEW r \in Runs, Step(r), run[r].pc \notin {"rename", "truncate", "metadata", "create"}
  PROVE  files' = files
<1>1. CASE Invoke(r) \/ ReadInputs(r) \/ CheckRpc(r) \/ CheckPaths(r) \/ LoadPolicy(r)
  BY <1>1 DEF Invoke, ReadInputs, CheckRpc, CheckPaths, LoadPolicy, shared
<1>2. CASE ResolvePolicy(r) \/ MeasureHead(r) \/ Fetch(r) \/ AddWorktree(r) \/ MeasureBase(r)
  BY <1>2 DEF ResolvePolicy, MeasureHead, Fetch, AddWorktree, MeasureBase, shared
<1>3. CASE RemoveWorktree(r) \/ Compare(r) \/ WriteSummary(r) \/ PostComment(r)
           \/ SetStatus(r) \/ Finally(r) \/ Catch(r) \/ FailureSummary(r) \/ Kill(r)
  BY <1>3 DEF RemoveWorktree, Compare, WriteSummary, PostComment, SetStatus, Finally,
     Catch, FailureSummary, Kill, shared
<1>4. CASE CreateTemp(r) \/ Rename(r) \/ Truncate(r) \/ WriteMetadata(r)
  BY <1>4 DEF CreateTemp, Rename, Truncate, WriteMetadata, At
<1> QED
  BY <1>1, <1>2, <1>3, <1>4 DEF Step

(* A run whose paths were refused uses none of them.                       *)
LEMMA RefusedAt ==
  ASSUME IInv, NEW r \in Runs, run[r].rejected
  PROVE  /\ ~run[r].checked
         /\ run[r].pc \in {"finally", "catch", "failureSummary", "exited", "killed"}
<1>1. PathsOf(r)
  BY DEF IInv
<1> QED
  BY <1>1, Zenon DEF PathsOf

(* Neither a run whose paths were accepted nor one whose paths were        *)
(* refused writes on its own inputs.                                       *)
THEOREM InputsUntouched == Spec => CheckedInputsIntact
<1> DEFINE Intact ==
      \A r \in Runs : (run[r].checked \/ run[r].rejected) /\ run'[r] # run[r] =>
       \A p \in NamedSources(run[r].input) : files'[p] = files[p]
<1>1. IInv /\ [Next]_vars => Intact
  <2> SUFFICES ASSUME IInv, [Next]_vars, NEW r \in Runs, run'[r] # run[r],
                      run[r].checked \/ run[r].rejected,
                      NEW p \in NamedSources(run[r].input)
               PROVE  files'[p] = files[p]
    BY DEF Intact
  <2>1. Step(r) /\ Frame(r) /\ p \in Places
    BY ActsItself DEF NamedSources, Places
  <2>2. CASE run[r].checked
    <3>1. p \notin {run[r].input.report, run[r].input.metadata}
      BY <2>2 DEF IInv, PathsOf, Collides
    <3> QED
      BY <2>1, <3>1 DEF Frame
  <2>3. CASE run[r].rejected
    <3>1. run[r].pc \in {"finally", "catch", "failureSummary", "exited", "killed"}
      BY <2>3, RefusedAt
    <3> QED
      BY <2>1, <3>1, FilesKept
  <2> QED
    BY <2>2, <2>3
<1>2. IInv /\ [Next]_vars => [Intact]_vars
  BY <1>1
<1> QED
  BY Invariance, <1>2, PTL DEF Spec, CheckedInputsIntact

(* The report a run leaves is its own, and full only after a comparison.   *)
THEOREM ReportsOwn == Spec => ReportOfThisRun
<1> DEFINE Owned ==
      \A r \in Runs :
       LET input == run[r].input
       IN serial /\ Exits(r) /\ ~run'[r].warned /\ input.report # "" /\ ~Refused(r)
          => files'[input.report].by = r
               /\ (files'[input.report].kind = "full" => run[r].diff)
<1>1. IInv /\ [Next]_vars => Owned
  <2> SUFFICES ASSUME IInv, [Next]_vars, NEW r \in Runs, serial, Exits(r), ~run'[r].warned,
                      run[r].input.report # "", ~Refused(r)
               PROVE  /\ files'[run[r].input.report].by = r
                      /\ files'[run[r].input.report].kind = "full" => run[r].diff
    BY DEF Owned
  <2>1. Frame(r) /\ Own(r)'
    BY ActsItself DEF Exits, At
  <2>2. /\ run'[r].input = run[r].input /\ run'[r].pc = "exited" /\ serial'
        /\ run'[r].diff = run[r].diff
    BY <2>1 DEF Frame, Exits, At
  <2>3. CASE run'[r].error
    <3>1. ~run[r].rejected
      BY RefusedAt DEF Refused
    <3>4. ~run'[r].rejected
      BY <2>1, <2>2, <3>1 DEF Frame, SamePaths
    <3>3. files'[run[r].input.report] = Of("failure", r)
      BY <2>1, <2>2, <2>3, <3>4 DEF Own, WrittenOf, At
    <3>2. Of("failure", r).by = r /\ Of("failure", r).kind # "full"
      BY DEF Of
    <3> QED
      BY <3>2, <3>3
  <2>4. CASE ~run'[r].error
    <3>1. files'[run[r].input.report] = Of("full", r) /\ run'[r].diff
      BY <2>1, <2>2, <2>4 DEF Own, WrittenOf, OutcomeOf, Delivers, Delivering, At
    <3>2. Of("full", r).by = r
      BY DEF Of
    <3> QED
      BY <2>2, <3>1, <3>2
  <2> QED
    BY <2>3, <2>4
<1>2. IInv /\ [Next]_vars => [Owned]_vars
  BY <1>1
<1> QED
  BY Invariance, <1>2, PTL DEF Spec, ReportOfThisRun

=============================================================================
