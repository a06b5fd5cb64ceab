------------------------ MODULE SnapshotRestarts_proof ------------------------
(***************************************************************************)
(* Proofs about the restarts of SnapshotCapture: every restart has one     *)
(* recorded cause, and without lag something outside the client paid for   *)
(* it.  RestartInv is inductive relative to IInv, which SnapshotCapture_-  *)
(* proof shows invariant: RestartInit, one lemma for all the steps that    *)
(* start no capture and count no cause, and one for each step that does.   *)
(***************************************************************************)
EXTENDS SnapshotCapture_proof, FiniteSetTheorems

USE DEF Lag

(* The counters are natural numbers.                                       *)
LEMMA CausesTyped ==
  ASSUME TypeOK
  PROVE  /\ causes["ledger_drift"] \in Nat
         /\ causes["batch_ledger_disagreement"] \in Nat
         /\ causes["newly_discovered_keys"] \in Nat
         /\ causes["transient_read"] \in Nat
         /\ Drifts \in Nat /\ Restarts \in Nat
<1>1. \A c \in Causes : causes[c] \in Nat
  BY DEF TypeOK
<1> QED
  BY <1>1 DEF Causes, Drifts, Restarts

(* What counting one cause does to the counters.                           *)
LEMMA CountOne ==
  ASSUME TypeOK, NEW cause \in Causes, Count(cause)
  PROVE  /\ causes'[cause] = causes[cause] + 1
         /\ \A c \in Causes \ {cause} : causes'[c] = causes[c]
         /\ Restarts' = Restarts + 1
<1>1. DOMAIN causes = Causes
  BY DEF TypeOK
<1>2. /\ causes'[cause] = causes[cause] + 1
      /\ \A c \in Causes \ {cause} : causes'[c] = causes[c]
  BY <1>1 DEF Count
<1>3. CASE cause = "ledger_drift"
  BY <1>2, <1>3, CausesTyped DEF Causes, Restarts, Drifts
<1>4. CASE cause = "batch_ledger_disagreement"
  BY <1>2, <1>4, CausesTyped DEF Causes, Restarts, Drifts
<1>5. CASE cause = "newly_discovered_keys"
  BY <1>2, <1>5, CausesTyped DEF Causes, Restarts, Drifts
<1>6. CASE cause = "transient_read"
  BY <1>2, <1>6, CausesTyped DEF Causes, Restarts, Drifts
<1> QED
  BY <1>2, <1>3, <1>4, <1>5, <1>6 DEF Causes

(* Keys are finitely many, so knowing more of them never lowers their      *)
(* number, and a new one raises it.                                        *)
LEMMA KnownKeys ==
  ASSUME TypeOK, NEW new \in SUBSET Keys
  PROVE  /\ Cardinality(keys \ ConfigKeys) \in Nat
         /\ Cardinality((keys \cup new) \ ConfigKeys) \in Nat
         /\ Cardinality(keys \ ConfigKeys) <= Cardinality((keys \cup new) \ ConfigKeys)
         /\ KeysInv /\ ~(new \subseteq keys) =>
              Cardinality(keys \ ConfigKeys) + 1 <= Cardinality((keys \cup new) \ ConfigKeys)
<1> DEFINE old == keys \ ConfigKeys
           all == (keys \cup new) \ ConfigKeys
<1>1. IsFiniteSet(Keys) /\ all \subseteq Keys
  BY KeysAssumption DEF TypeOK
<1>2. IsFiniteSet(all)
  BY <1>1, FS_Subset
<1>3. old \subseteq all
  OBVIOUS
<1>4. IsFiniteSet(old) /\ Cardinality(old) <= Cardinality(all)
      /\ (Cardinality(old) = Cardinality(all) => all = old)
  BY <1>2, <1>3, FS_Subset
<1>5. Cardinality(old) \in Nat /\ Cardinality(all) \in Nat
  BY <1>2, <1>4, FS_CardinalityType
<1>6. KeysInv /\ ~(new \subseteq keys) => all # old
  BY DEF KeysInv
<1> HIDE DEF old, all
<1>7. KeysInv /\ ~(new \subseteq keys) => Cardinality(old) + 1 <= Cardinality(all)
  BY <1>4, <1>5, <1>6
<1> QED
  BY <1>4, <1>5, <1>7 DEF old, all

-----------------------------------------------------------------------------
(* RestartInv is inductive.                                                *)

LEMMA RestartInit == Init => RestartInv
<1> SUFFICES ASSUME Init PROVE RestartInv
  OBVIOUS
<1>1. Drifts = 0 /\ Restarts = 0 /\ \A c \in Causes : causes[c] = 0
  BY DEF Init, Drifts, Restarts, Causes
<1>2. keys \ ConfigKeys = {} /\ Cardinality(keys \ ConfigKeys) = 0
  BY FS_EmptySet DEF Init
<1>3. CauseInv
  BY <1>1 DEF Init, CauseInv, Causes
<1>4. PaidInv
  BY <1>1, <1>2, Constants DEF Init, PaidInv, Open, Causes, Ledgers
<1> QED
  BY <1>3, <1>4 DEF RestartInv

(* A step that counts nothing and begins no capture: the read, the header, *)
(* the helper, the environment, and every failure but exhaustion.          *)
LEMMA QuietStep ==
  ASSUME IInv, RestartInv, UNCHANGED <<mode, counts, keys, simLedger>>,
         head' = head \/ head' = head + 1,
         pc' \in Open => pc \in Open,
         pc' = pc \/ pc \notin {"backoff", "failed"} \/ pc' = "failed",
         pc' = "backoff" => pc = "backoff",
         pc = "failed" => pc' = "failed",
         pc' # "failed" => UNCHANGED failure,
         failure' \in {failure} \/ failure' # "exhausted"
  PROVE  RestartInv'
<1>1. Drifts' = Drifts /\ Restarts' = Restarts /\ causes' = causes
      /\ transient' = transient /\ attempt' = attempt
  BY DEF counts, Drifts, Restarts
<1>2. CauseInv'
  BY <1>1 DEF RestartInv, CauseInv
<1>3. PaidInv'
  <2>1. head \in Int /\ Start \in Int /\ Drifts \in Nat
    BY Constants, CausesTyped DEF IInv, TypeOK, Ledgers
  <2>2. Lag = 0 => Drifts' <= head' - Start
    <3>1. Lag = 0 => Drifts <= head - Start
      BY DEF RestartInv, PaidInv
    <3> QED
      BY <1>1, <2>1, <3>1
  <2>3. Lag = 0 /\ pc' \in Open => Drifts' <= simLedger' - Start
    BY <1>1 DEF RestartInv, PaidInv
  <2> QED
    BY <1>1, <2>2, <2>3 DEF RestartInv, PaidInv
<1> QED
  BY <1>2, <1>3 DEF RestartInv

LEMMA QuietSteps ==
  ASSUME IInv, RestartInv,
         \/ GetNetwork \/ ReadBatch \/ GetHeader \/ Identify \/ Execute \/ Emit
         \/ RpcFails \/ Cancel \/ CloseLedger \/ ReplaceHelper \/ Abort
         \/ Settle /\ UNCHANGED <<keys, counts>>
         \/ Done \/ UNCHANGED vars
  PROVE  RestartInv'
<1> USE DEF Fail, world, capture, counts, native, answer, Open
<1>1. CASE GetNetwork
  BY <1>1, QuietStep DEF GetNetwork
<1>2. CASE ReadBatch
  BY <1>2, QuietStep DEF ReadBatch
<1>3. CASE GetHeader
  BY <1>3, QuietStep DEF GetHeader
<1>4. CASE Identify
  BY <1>4, QuietStep DEF Identify
<1>5. CASE Execute
  BY <1>5, QuietStep DEF Execute, RunHelper
<1>6. CASE Emit
  BY <1>6, QuietStep DEF Emit, Return
<1>7. CASE RpcFails
  BY <1>7, QuietStep DEF RpcFails
<1>8. CASE Cancel
  BY <1>8, QuietStep DEF Cancel, Awaiting
<1>9. CASE CloseLedger \/ ReplaceHelper \/ Abort
  BY <1>9, QuietStep DEF CloseLedger, ReplaceHelper, Abort
<1>10. CASE Settle /\ UNCHANGED <<keys, counts>>
  <2>1. ~NextAttempt
    BY <1>10 DEF NextAttempt, IInv, TypeOK
  <2> QED
    BY <1>10, <2>1, QuietStep DEF Settle
<1>11. CASE Done \/ UNCHANGED vars
  BY <1>11, QuietStep DEF Done, vars
<1> QED
  BY <1>1, <1>2, <1>3, <1>4, <1>5, <1>6, <1>7, <1>8, <1>9, <1>10, <1>11

(* A capture begins at the head when the pool does not lag.                *)
LEMMA SimulateRestart ==
  ASSUME IInv, RestartInv, Simulate
  PROVE  RestartInv'
<1>1. PICK l \in Answers : Simulated(l, keys)
  BY DEF Simulate
<1> USE DEF Simulated, world, counts, native, answer
<1>2. Drifts' = Drifts /\ Restarts' = Restarts /\ UNCHANGED <<causes, transient, attempt, head, failure>>
  BY <1>1 DEF Drifts, Restarts
<1>3. CauseInv'
  BY <1>1, <1>2 DEF RestartInv, CauseInv
<1>4. Lag = 0 => l = head
  BY Constants DEF Answers, IInv, TypeOK, Ledgers
<1>5. chain[l].foot \subseteq Keys
  BY ChainTyped, Constants DEF Answers, IInv, TypeOK, World, Ledgers
<1>6. Cardinality(keys \ ConfigKeys) <= Cardinality(keys' \ ConfigKeys)
      /\ Cardinality(keys \ ConfigKeys) \in Nat /\ Cardinality(keys' \ ConfigKeys) \in Nat
  BY <1>1, <1>5, KnownKeys DEF IInv
<1>7. causes'["newly_discovered_keys"] <= Cardinality(keys' \ ConfigKeys)
  BY <1>2, <1>6, CausesTyped DEF IInv, RestartInv, PaidInv
<1>8. PaidInv'
  BY <1>1, <1>2, <1>4, <1>7 DEF RestartInv, PaidInv
<1> QED
  BY <1>3, <1>8 DEF RestartInv

(* The loop is left with every attempt accounted for.                      *)
LEMMA ExhaustRestart ==
  ASSUME IInv, RestartInv, Exhaust
  PROVE  RestartInv'
<1> USE DEF Exhaust, Fail, world, capture, counts, native
<1>1. Drifts' = Drifts /\ Restarts' = Restarts
  BY DEF Drifts, Restarts
<1>2. transient <= MaxTransient /\ Restarts = MaxAttempts
  BY DEF IInv, CountInv, RestartInv, CauseInv
<1>3. CauseInv'
  BY <1>1, <1>2 DEF RestartInv, CauseInv
<1>4. PaidInv'
  BY <1>1 DEF RestartInv, PaidInv, Open
<1> QED
  BY <1>3, <1>4 DEF RestartInv

(* Without lag an answer that is not the simulated ledger's is newer.      *)
LEMMA ReadDriftsRestart ==
  ASSUME IInv, RestartInv, ReadDrifts
  PROVE  RestartInv'
<1> USE DEF ReadDrifts, NextAttempt, world, capture, native, answer
<1>1. PICK cause \in {"ledger_drift", "batch_ledger_disagreement"} : Count(cause)
  OBVIOUS
<1>2. /\ causes'[cause] = causes[cause] + 1
      /\ \A c \in Causes \ {cause} : causes'[c] = causes[c]
      /\ Restarts' = Restarts + 1
  BY <1>1, CountOne DEF IInv, Causes
<1>3. Drifts' = Drifts + 1
  BY <1>2, CausesTyped DEF IInv, Causes, Drifts
<1>4. /\ causes'["newly_discovered_keys"] = causes["newly_discovered_keys"]
      /\ causes'["transient_read"] = causes["transient_read"]
  BY <1>2 DEF Causes
<1>5. CauseInv'
  <2>1. pc' = "simulate" /\ attempt' = attempt + 1 /\ failure' = failure /\ transient' = transient
    OBVIOUS
  <2>2. pc = "read"
    OBVIOUS
  <2> QED
    BY <1>2, <1>4, <2>1, <2>2 DEF RestartInv, CauseInv
<1>6. Lag = 0 => Drifts' <= head' - Start
  <2>1. PICK l \in Answers : l # simLedger
    BY DEF SameLedger
  <2>2. simLedger \in 1..head /\ head \in Int /\ Start \in Int /\ Drifts \in Nat
    <3>1. simLedger \in 1..head
      BY DEF IInv, CaptureInv, Open
    <3>2. head \in Int /\ Start \in Int
      BY Constants DEF IInv, TypeOK, Ledgers
    <3> QED
      BY <3>1, <3>2, CausesTyped DEF IInv
  <2>3. Lag = 0 => l = head
    BY <2>2 DEF Answers
  <2>4. Lag = 0 => Drifts <= simLedger - Start
    BY DEF RestartInv, PaidInv, Open
  <2> QED
    BY <1>3, <2>1, <2>2, <2>3, <2>4
<1>7. PaidInv'
  BY <1>4, <1>6 DEF RestartInv, PaidInv, Open
<1> QED
  BY <1>5, <1>7 DEF RestartInv

(* A failed read uses up its attempt when it is retried.                   *)
LEMMA ReadFailsRestart ==
  ASSUME IInv, RestartInv, ReadFails
  PROVE  RestartInv'
<1> USE DEF ReadFails, Fail, world, capture, native, answer
<1>1. /\ causes'["transient_read"] = causes["transient_read"] + 1
      /\ \A c \in Causes \ {"transient_read"} : causes'[c] = causes[c]
      /\ Restarts' = Restarts + 1
  BY CountOne DEF IInv, Causes
<1>2. Drifts' = Drifts /\ causes'["newly_discovered_keys"] = causes["newly_discovered_keys"]
  BY <1>1 DEF Causes, Drifts
<1>3. CauseInv'
  <2>1. pc = "read" /\ attempt' = attempt /\ transient' = transient + 1
    OBVIOUS
  <2>2. \/ pc' = "failed" /\ failure' = "read_retries"
        \/ pc' = "backoff" /\ failure' = failure
    <3>1. CASE RetriesSpent
      BY <3>1
    <3>2. CASE ~RetriesSpent
      BY <3>2
    <3> QED
      BY <3>1, <3>2
  <2> QED
    BY <1>1, <2>1, <2>2 DEF RestartInv, CauseInv
<1>4. PaidInv'
  BY <1>2 DEF RestartInv, PaidInv, Open
<1> QED
  BY <1>3, <1>4 DEF RestartInv

LEMMA WakeRestart ==
  ASSUME IInv, RestartInv, Wake
  PROVE  RestartInv'
<1> USE DEF Wake, NextAttempt, world, capture, native, answer
<1>1. Drifts' = Drifts /\ Restarts' = Restarts
  BY DEF Drifts, Restarts
<1>2. CauseInv'
  BY <1>1 DEF RestartInv, CauseInv
<1>3. PaidInv'
  BY <1>1 DEF RestartInv, PaidInv, Open
<1> QED
  BY <1>2, <1>3 DEF RestartInv

(* A discovery is counted for a key that was not known.                    *)
LEMMA SettleRestart ==
  ASSUME IInv, RestartInv, Settle, ~UNCHANGED <<keys, counts>>
  PROVE  RestartInv'
<1> USE DEF Settle, NextAttempt, world, native, answer
<1>1. /\ Discovered # {} /\ keys' = keys \cup Discovered
      /\ Count("newly_discovered_keys") /\ pc' = "simulate" /\ attempt' = attempt + 1
      /\ pc = "settle" /\ UNCHANGED <<transient, failure, head>>
  OBVIOUS
<1>2. /\ causes'["newly_discovered_keys"] = causes["newly_discovered_keys"] + 1
      /\ \A c \in Causes \ {"newly_discovered_keys"} : causes'[c] = causes[c]
      /\ Restarts' = Restarts + 1
  BY <1>1, CountOne DEF IInv, Causes
<1>3. Drifts' = Drifts /\ causes'["transient_read"] = causes["transient_read"]
  BY <1>2 DEF Causes, Drifts
<1>4. CauseInv'
  BY <1>1, <1>2, <1>3 DEF RestartInv, CauseInv
<1>5. Discovered \subseteq Keys /\ ~(Discovered \subseteq keys)
  BY <1>1 DEF Discovered, IInv, TypeOK, Outcome
<1>6. /\ Cardinality(keys \ ConfigKeys) \in Nat
      /\ Cardinality(keys' \ ConfigKeys) \in Nat
      /\ Cardinality(keys \ ConfigKeys) + 1 <= Cardinality(keys' \ ConfigKeys)
  BY <1>1, <1>5, KnownKeys DEF IInv
<1>7. causes'["newly_discovered_keys"] <= Cardinality(keys' \ ConfigKeys)
  BY <1>2, <1>6, CausesTyped DEF IInv, RestartInv, PaidInv
<1>8. PaidInv'
  BY <1>1, <1>3, <1>7 DEF RestartInv, PaidInv, Open
<1> QED
  BY <1>4, <1>8 DEF RestartInv

LEMMA RestartStep == IInv /\ RestartInv /\ [Next]_vars => RestartInv'
<1> SUFFICES ASSUME IInv, RestartInv, [Next]_vars PROVE RestartInv'
  OBVIOUS
<1>1. CASE Simulate \/ Exhaust \/ ReadDrifts \/ ReadFails \/ Wake
  BY <1>1, SimulateRestart, ExhaustRestart, ReadDriftsRestart, ReadFailsRestart, WakeRestart
<1>2. CASE Settle
  BY <1>2, SettleRestart, QuietSteps
<1>3. CASE GetNetwork \/ ReadBatch \/ GetHeader \/ Identify \/ Execute \/ Emit \/ RpcFails \/ Cancel
  BY <1>3, QuietSteps
<1>4. CASE CloseLedger \/ ReplaceHelper \/ Abort \/ Done \/ UNCHANGED vars
  BY <1>4, QuietSteps
<1> QED
  BY <1>1, <1>2, <1>3, <1>4 DEF Next, Step

(* Every reachable state satisfies it.                                     *)
THEOREM RestartsInvariant == Spec => [](IInv /\ RestartInv)
<1> QED
  BY Invariance, RestartInit, RestartStep, PTL DEF Spec

-----------------------------------------------------------------------------
(* The counters the error of an exhausted capture reports add up to its    *)
(* attempts, whatever interrupted them.                                    *)
THEOREM CausesComplete == Spec => []CausesAccounted
<1>1. RestartInv => CausesAccounted
  BY DEF RestartInv, CauseInv, CausesAccounted, Restarts, Drifts
<1> QED
  BY RestartsInvariant, <1>1, PTL

(* Without lag a capture restarts only for a ledger that closed, a key     *)
(* newly known or a failed read, so one that is exhausted was outrun.      *)
THEOREM NoSpuriousRestart == Spec => []RestartsPaid
<1>1. IInv /\ RestartInv => RestartsPaid
  <2> SUFFICES ASSUME IInv, RestartInv, Lag = 0 PROVE RestartsPaid
    BY DEF RestartsPaid
  <2>1. Drifts <= head - Start
    BY DEF RestartInv, PaidInv
  <2>2. causes["newly_discovered_keys"] <= Cardinality(keys \ ConfigKeys)
    BY DEF RestartInv, PaidInv
  <2>3. failure = "exhausted" =>
          MaxAttempts = Drifts + causes["newly_discovered_keys"] + transient
          /\ transient <= MaxTransient
    BY DEF RestartInv, CauseInv, Restarts
  <2>4. /\ Cardinality(keys \ ConfigKeys) \in Nat /\ Drifts \in Nat
        /\ causes["newly_discovered_keys"] \in Nat /\ transient \in Nat
        /\ MaxTransient \in Nat /\ MaxAttempts \in Nat /\ head \in Int /\ Start \in Int
    BY KnownKeys, CausesTyped, Constants DEF IInv, TypeOK, Ledgers
  <2>5. failure = "exhausted" =>
          MaxAttempts <= (head - Start) + Cardinality(keys \ ConfigKeys) + MaxTransient
    BY <2>1, <2>2, <2>3, <2>4
  <2> QED
    BY <2>1, <2>2, <2>5 DEF RestartsPaid, Drifts
<1> QED
  BY RestartsInvariant, <1>1, PTL

=============================================================================
