----------------------- MODULE SnapshotCapture_proof -----------------------
(***************************************************************************)
(* Proofs about SnapshotCapture.  IInv is inductive: InitInv and one lemma *)
(* per action, each with one step per conjunct.  The theorems follow from  *)
(* it, for every history, batch size, lag and number of attempts.          *)
(***************************************************************************)
EXTENDS SnapshotCapture, TLAPS

(* What the named assumptions say of the constants.                        *)
LEMMA Constants ==
  /\ MaxAttempts \in Nat \ {0} /\ MaxTransient \in Nat
  /\ MaxLedger \in Nat \ {0} /\ MaxHelper \in Nat \ {0}
  /\ Start \in Ledgers
  /\ Ledgers = 1..MaxLedger
  /\ ConfigKeys \subseteq Keys
  BY BoundsAssumption, KeysAssumption DEF Ledgers

USE DEF Lag

LEMMA LagTyped == TypeOK => Lag \in Nat
  BY ModesAssumption DEF TypeOK, Mode

(* Every ledger of the chain is a World.                                   *)
LEMMA ChainTyped ==
  ASSUME TypeOK, NEW l \in Ledgers
  PROVE  chain[l] \in World
  BY ChainsAssumption DEF TypeOK

(* Counting a restart keeps the counters within the attempts made.         *)
LEMMA CountTyped ==
  ASSUME TypeOK, CountInv, pc \in Open, NEW cause \in Causes, Count(cause)
  PROVE  /\ causes' \in [Causes -> 0..MaxAttempts]
         /\ lastCause' \in Causes
         /\ \A c \in Causes : causes'[c] <= attempt + 1
<1>1. \A c \in Causes : causes[c] <= attempt /\ attempt < MaxAttempts
  BY Constants DEF CountInv, Open, TypeOK
<1> QED
  BY <1>1, Constants DEF Count, TypeOK

(* Each captured key has an entry, or none.                                *)
LEMMA EntriesTyped == ASSUME TypeOK, NEW k \in keys PROVE Entries[k] \in Entry
  BY DEF TypeOK, Entries, Entry, NoEntry

(* Once a capture has passed its checks its entries are the ledger's.      *)
LEMMA EntriesOfLedger ==
  ASSUME TypeOK, CaptureInv, CheckedInv, pc \in {"identify", "execute", "settle", "emit"}
  PROVE  \A k \in keys : Entries[k] = chain[simLedger].data[k]
  BY DEF CaptureInv, CheckedInv, CapturePlausible, Entries, Open, Present

(* A batch at the simulated ledger leaves exactly that ledger's rows.      *)
LEMMA ReadBatchRows ==
  ASSUME TypeOK, CaptureInv, ReadBatch
  PROVE  /\ DOMAIN rows' \subseteq Keys
         /\ \A k \in DOMAIN rows' : rows'[k] \in [of : Keys, entry : Entry]
         /\ DOMAIN rows' = Present(keys \ pending', simLedger)
         /\ \A k \in DOMAIN rows' : rows'[k].of = k => rows'[k].entry = chain[simLedger].data[k]
<1> DEFINE got == Present(Batch, simLedger)
<1>1. PICK swap \in [got -> Present(Keys, simLedger)] :
        rows' = [k \in DOMAIN rows \cup got |->
                   IF k \in got THEN Row(swap[k], simLedger) ELSE rows[k]]
  BY DEF ReadBatch, SameLedger
<1>2. pc = "read" /\ pending' = pending \ Batch
  BY DEF ReadBatch
<1>3. Batch \subseteq pending /\ pending \subseteq keys /\ keys \subseteq Keys
  BY <1>2 DEF Batch, CaptureInv, Open, TypeOK
<1>4. got \subseteq Batch /\ \A k \in got : swap[k] \in Keys
  BY DEF Present
<1>5. \A k \in got : Row(swap[k], simLedger) \in [of : Keys, entry : Entry]
  <2>1. simLedger \in Ledgers
    BY <1>2, Constants DEF CaptureInv, Open, TypeOK
  <2>2. chain[simLedger] \in World
    BY <2>1, ChainTyped
  <2> QED
    BY <1>4, <2>2 DEF Row, World
<1>6. DOMAIN rows = Present(keys \ pending, simLedger)
  BY <1>2 DEF CaptureInv, Open
<1>7. \A k \in DOMAIN rows : /\ rows[k].of = k => rows[k].entry = chain[simLedger].data[k]
                             /\ k \in Keys /\ rows[k] \in [of : Keys, entry : Entry]
  BY <1>2 DEF CaptureInv, Open, TypeOK
<1>8. DOMAIN rows' = DOMAIN rows \cup got
  BY <1>1
<1>9. DOMAIN rows' = Present(keys \ pending', simLedger)
  BY <1>2, <1>3, <1>6, <1>8 DEF Present
<1> QED
  BY <1>1, <1>3, <1>4, <1>5, <1>7, <1>8, <1>9 DEF Row

-----------------------------------------------------------------------------
(* IInv is inductive: one lemma for each action.                           *)

(* GetNetwork preserves IInv.                                             *)
LEMMA GetNetworkStep == IInv /\ GetNetwork => IInv'
<1> SUFFICES ASSUME IInv, GetNetwork PROVE IInv'
  OBVIOUS
<1> USE DEF GetNetwork, Fail, NextAttempt, Count, world, capture, counts, native, answer, vars
<1>1. TypeOK'
  BY Constants DEF IInv, TypeOK, CountInv, Pcs, Open
<1>2. KeysInv'
  BY Constants DEF IInv, KeysInv
<1>3. CaptureInv'
  BY Constants DEF IInv, TypeOK, CaptureInv, Open, Present
<1>4. CheckedInv'
  BY Constants DEF IInv, TypeOK, CaptureInv, CheckedInv, CapturePlausible, Open
<1>5. CompleteInv'
  BY Constants DEF IInv, TypeOK, CompleteInv, Entries, Archived, Needed
<1>6. HelperInv'
  BY Constants DEF IInv, TypeOK, HelperInv
<1>7. CountInv'
  BY Constants DEF IInv, TypeOK, CountInv, Open
<1>8. ResultInv'
  BY Constants DEF IInv, TypeOK, ResultInv, Measured, NoResult, Open, SnapshotConsistent, SnapshotComplete, HelperIdentified, ProtocolSupported, Needed
<1> QED
  BY <1>1, <1>2, <1>3, <1>4, <1>5, <1>6, <1>7, <1>8 DEF IInv

(* Simulate preserves IInv.                                               *)
LEMMA SimulateStep == IInv /\ Simulate => IInv'
<1> SUFFICES ASSUME IInv, Simulate PROVE IInv'
  OBVIOUS
<1> USE DEF Simulate, Simulated, Fail, NextAttempt, Count, world, capture, counts, native, answer, vars
<1>1. TypeOK'
  <2> PICK l \in Answers : Simulated(l, keys) /\ rows' = [k \in {} |-> Row(k, l)]
    OBVIOUS
  <2>1. l \in Ledgers /\ chain[l] \in World
    BY Constants, ChainTyped DEF IInv, TypeOK, Answers
  <2>2. keys' \in SUBSET Keys
    BY <2>1 DEF IInv, TypeOK, World
  <2> QED
    BY <2>1, <2>2, Constants DEF IInv, TypeOK, Pcs
<1>2. KeysInv'
  BY Constants DEF IInv, KeysInv
<1>3. CaptureInv'
  <2> PICK l \in Answers : Simulated(l, keys) /\ rows' = [k \in {} |-> Row(k, l)]
    OBVIOUS
  <2>1. l \in 1..head /\ Start - l <= Lag
    BY Constants, LagTyped DEF IInv, TypeOK, Answers
  <2>2. chain[l].foot \subseteq keys'
    OBVIOUS
  <2>3. DOMAIN rows' = {} /\ keys' \ pending' = {}
    OBVIOUS
  <2> QED
    BY <2>1, <2>2, <2>3 DEF CaptureInv, Present
<1>4. CheckedInv'
  BY Constants DEF IInv, TypeOK, CaptureInv, CheckedInv, CapturePlausible, Open
<1>5. CompleteInv'
  BY Constants DEF IInv, TypeOK, CompleteInv, Entries, Archived, Needed
<1>6. HelperInv'
  BY Constants DEF IInv, TypeOK, HelperInv
<1>7. CountInv'
  BY Constants DEF IInv, TypeOK, CountInv, Open
<1>8. ResultInv'
  BY Constants DEF IInv, TypeOK, ResultInv, Measured, NoResult, Open, SnapshotConsistent, SnapshotComplete, HelperIdentified, ProtocolSupported, Needed
<1> QED
  BY <1>1, <1>2, <1>3, <1>4, <1>5, <1>6, <1>7, <1>8 DEF IInv

(* Exhaust preserves IInv.                                                *)
LEMMA ExhaustStep == IInv /\ Exhaust => IInv'
<1> SUFFICES ASSUME IInv, Exhaust PROVE IInv'
  OBVIOUS
<1> USE DEF Exhaust, Fail, NextAttempt, Count, world, capture, counts, native, answer, vars
<1>1. TypeOK'
  BY Constants DEF IInv, TypeOK, CountInv, Pcs, Open
<1>2. KeysInv'
  BY Constants DEF IInv, KeysInv
<1>3. CaptureInv'
  BY Constants DEF IInv, TypeOK, CaptureInv, Open, Present
<1>4. CheckedInv'
  BY Constants DEF IInv, TypeOK, CaptureInv, CheckedInv, CapturePlausible, Open
<1>5. CompleteInv'
  BY Constants DEF IInv, TypeOK, CompleteInv, Entries, Archived, Needed
<1>6. HelperInv'
  BY Constants DEF IInv, TypeOK, HelperInv
<1>7. CountInv'
  BY Constants DEF IInv, TypeOK, CountInv, Open
<1>8. ResultInv'
  BY Constants DEF IInv, TypeOK, ResultInv, Measured, NoResult, Open, SnapshotConsistent, SnapshotComplete, HelperIdentified, ProtocolSupported, Needed
<1> QED
  BY <1>1, <1>2, <1>3, <1>4, <1>5, <1>6, <1>7, <1>8 DEF IInv

(* ReadBatch preserves IInv.                                              *)
LEMMA ReadBatchStep == IInv /\ ReadBatch => IInv'
<1> SUFFICES ASSUME IInv, ReadBatch PROVE IInv'
  OBVIOUS
<1> USE DEF ReadBatch, Fail, NextAttempt, Count, world, capture, counts, native, answer, vars
<1>1. TypeOK'
  <2>1. /\ DOMAIN rows' \subseteq Keys
         /\ \A k \in DOMAIN rows' : rows'[k] \in [of : Keys, entry : Entry]
    BY ReadBatchRows DEF IInv, TypeOK
  <2> QED
    BY <2>1, Constants DEF IInv, TypeOK, Pcs
<1>2. KeysInv'
  BY Constants DEF IInv, KeysInv
<1>3. CaptureInv'
  <2>1. /\ DOMAIN rows' = Present(keys \ pending', simLedger)
         /\ \A k \in DOMAIN rows' : rows'[k].of = k => rows'[k].entry = chain[simLedger].data[k]
    BY ReadBatchRows DEF IInv
  <2> QED
    BY <2>1 DEF IInv, CaptureInv, Open, Present
<1>4. CheckedInv'
  BY Constants DEF IInv, TypeOK, CaptureInv, CheckedInv, CapturePlausible, Open
<1>5. CompleteInv'
  BY Constants DEF IInv, TypeOK, CompleteInv, Entries, Archived, Needed
<1>6. HelperInv'
  BY Constants DEF IInv, TypeOK, HelperInv
<1>7. CountInv'
  BY Constants DEF IInv, TypeOK, CountInv, Open
<1>8. ResultInv'
  BY Constants DEF IInv, TypeOK, ResultInv, Measured, NoResult, Open, SnapshotConsistent, SnapshotComplete, HelperIdentified, ProtocolSupported, Needed
<1> QED
  BY <1>1, <1>2, <1>3, <1>4, <1>5, <1>6, <1>7, <1>8 DEF IInv

(* ReadDrifts preserves IInv.                                             *)
LEMMA ReadDriftsStep == IInv /\ ReadDrifts => IInv'
<1> SUFFICES ASSUME IInv, ReadDrifts PROVE IInv'
  OBVIOUS
<1> USE DEF ReadDrifts, Fail, NextAttempt, Count, world, capture, counts, native, answer, vars
<1>1. TypeOK'
  <2>1. PICK cause \in Causes : Count(cause)
    BY DEF Causes
  <2>2. causes' \in [Causes -> 0..MaxAttempts] /\ lastCause' \in Causes
    BY <2>1, CountTyped DEF IInv, Open
  <2>3. attempt' \in 0..MaxAttempts
    BY Constants DEF IInv, TypeOK, CountInv, Open
  <2> QED
    BY <2>2, <2>3 DEF IInv, TypeOK, Pcs
<1>2. KeysInv'
  BY Constants DEF IInv, KeysInv
<1>3. CaptureInv'
  BY Constants DEF IInv, TypeOK, CaptureInv, Open, Present
<1>4. CheckedInv'
  BY Constants DEF IInv, TypeOK, CaptureInv, CheckedInv, CapturePlausible, Open
<1>5. CompleteInv'
  BY Constants DEF IInv, TypeOK, CompleteInv, Entries, Archived, Needed
<1>6. HelperInv'
  BY Constants DEF IInv, TypeOK, HelperInv
<1>7. CountInv'
  <2>1. PICK cause \in Causes : Count(cause)
    BY DEF Causes
  <2>2. \A c \in Causes : causes'[c] <= attempt + 1
    BY <2>1, CountTyped DEF IInv, Open
  <2> QED
    BY <2>2, Constants DEF IInv, TypeOK, CountInv, Open
<1>8. ResultInv'
  BY Constants DEF IInv, TypeOK, ResultInv, Measured, NoResult, Open, SnapshotConsistent, SnapshotComplete, HelperIdentified, ProtocolSupported, Needed
<1> QED
  BY <1>1, <1>2, <1>3, <1>4, <1>5, <1>6, <1>7, <1>8 DEF IInv

(* ReadFails preserves IInv.                                              *)
LEMMA ReadFailsStep == IInv /\ ReadFails => IInv'
<1> SUFFICES ASSUME IInv, ReadFails PROVE IInv'
  OBVIOUS
<1> USE DEF ReadFails, RetriesSpent, Fail, NextAttempt, Count, world, capture, counts, native, answer, vars
<1>1. TypeOK'
  <2>1. causes' \in [Causes -> 0..MaxAttempts] /\ lastCause' \in Causes
    BY CountTyped DEF IInv, Open, Causes
  <2>2. transient' \in 0..(MaxTransient + 1)
    BY Constants DEF IInv, TypeOK, CountInv
  <2> QED
    BY <2>1, <2>2 DEF IInv, TypeOK, Pcs
<1>2. KeysInv'
  BY Constants DEF IInv, KeysInv
<1>3. CaptureInv'
  BY Constants DEF IInv, TypeOK, CaptureInv, Open, Present
<1>4. CheckedInv'
  BY Constants DEF IInv, TypeOK, CaptureInv, CheckedInv, CapturePlausible, Open
<1>5. CompleteInv'
  BY Constants DEF IInv, TypeOK, CompleteInv, Entries, Archived, Needed
<1>6. HelperInv'
  BY Constants DEF IInv, TypeOK, HelperInv
<1>7. CountInv'
  <2>1. \A c \in Causes : causes'[c] <= attempt + 1
    BY CountTyped DEF IInv, Open, Causes
  <2> QED
    BY <2>1, Constants DEF IInv, TypeOK, CountInv, Open
<1>8. ResultInv'
  BY Constants DEF IInv, TypeOK, ResultInv, Measured, NoResult, Open, SnapshotConsistent, SnapshotComplete, HelperIdentified, ProtocolSupported, Needed
<1> QED
  BY <1>1, <1>2, <1>3, <1>4, <1>5, <1>6, <1>7, <1>8 DEF IInv

(* Wake preserves IInv.                                                   *)
LEMMA WakeStep == IInv /\ Wake => IInv'
<1> SUFFICES ASSUME IInv, Wake PROVE IInv'
  OBVIOUS
<1> USE DEF Wake, Fail, NextAttempt, Count, world, capture, counts, native, answer, vars
<1>1. TypeOK'
  BY Constants DEF IInv, TypeOK, CountInv, Pcs, Open
<1>2. KeysInv'
  BY Constants DEF IInv, KeysInv
<1>3. CaptureInv'
  BY Constants DEF IInv, TypeOK, CaptureInv, Open, Present
<1>4. CheckedInv'
  BY Constants DEF IInv, TypeOK, CaptureInv, CheckedInv, CapturePlausible, Open
<1>5. CompleteInv'
  BY Constants DEF IInv, TypeOK, CompleteInv, Entries, Archived, Needed
<1>6. HelperInv'
  BY Constants DEF IInv, TypeOK, HelperInv
<1>7. CountInv'
  BY Constants DEF IInv, TypeOK, CountInv, Open
<1>8. ResultInv'
  BY Constants DEF IInv, TypeOK, ResultInv, Measured, NoResult, Open, SnapshotConsistent, SnapshotComplete, HelperIdentified, ProtocolSupported, Needed
<1> QED
  BY <1>1, <1>2, <1>3, <1>4, <1>5, <1>6, <1>7, <1>8 DEF IInv

(* GetHeader preserves IInv.                                              *)
LEMMA GetHeaderStep == IInv /\ GetHeader => IInv'
<1> SUFFICES ASSUME IInv, GetHeader PROVE IInv'
  OBVIOUS
<1> USE DEF GetHeader, HeaderAccepted, Fail, NextAttempt, Count, world, capture, counts, native, answer, vars
<1>1. TypeOK'
  BY Constants DEF IInv, TypeOK, CountInv, Pcs, Open
<1>2. KeysInv'
  BY Constants DEF IInv, KeysInv
<1>3. CaptureInv'
  BY Constants DEF IInv, TypeOK, CaptureInv, Open, Present
<1>4. CheckedInv'
  BY Constants DEF IInv, TypeOK, CaptureInv, CheckedInv, CapturePlausible, Open
<1>5. CompleteInv'
  BY Constants DEF IInv, TypeOK, CompleteInv, Entries, Archived, Needed
<1>6. HelperInv'
  BY Constants DEF IInv, TypeOK, HelperInv
<1>7. CountInv'
  BY Constants DEF IInv, TypeOK, CountInv, Open
<1>8. ResultInv'
  BY Constants DEF IInv, TypeOK, ResultInv, Measured, NoResult, Open, SnapshotConsistent, SnapshotComplete, HelperIdentified, ProtocolSupported, Needed
<1> QED
  BY <1>1, <1>2, <1>3, <1>4, <1>5, <1>6, <1>7, <1>8 DEF IInv

(* Identify preserves IInv.                                               *)
LEMMA IdentifyStep == IInv /\ Identify => IInv'
<1> SUFFICES ASSUME IInv, Identify PROVE IInv'
  OBVIOUS
<1> USE DEF Identify, Fail, NextAttempt, Count, world, capture, counts, native, answer, vars
<1>1. TypeOK'
  BY Constants DEF IInv, TypeOK, CountInv, Pcs, Open
<1>2. KeysInv'
  BY Constants DEF IInv, KeysInv
<1>3. CaptureInv'
  BY Constants DEF IInv, TypeOK, CaptureInv, Open, Present
<1>4. CheckedInv'
  BY Constants DEF IInv, TypeOK, CaptureInv, CheckedInv, CapturePlausible, Open
<1>5. CompleteInv'
  BY Constants DEF IInv, TypeOK, CompleteInv, Entries, Archived, Needed
<1>6. HelperInv'
  BY Constants DEF IInv, TypeOK, HelperInv
<1>7. CountInv'
  BY Constants DEF IInv, TypeOK, CountInv, Open
<1>8. ResultInv'
  BY Constants DEF IInv, TypeOK, ResultInv, Measured, NoResult, Open, SnapshotConsistent, SnapshotComplete, HelperIdentified, ProtocolSupported, Needed
<1> QED
  BY <1>1, <1>2, <1>3, <1>4, <1>5, <1>6, <1>7, <1>8 DEF IInv

(* Execute preserves IInv.                                                *)
LEMMA ExecuteStep == IInv /\ Execute => IInv'
<1> SUFFICES ASSUME IInv, Execute PROVE IInv'
  OBVIOUS
<1> USE DEF Execute, RunHelper, Fail, NextAttempt, Count, world, capture, counts, native, answer, vars
<1>1. TypeOK'
  <2>1. outcome' \in Outcome
    <3>0. simLedger \in Ledgers
      BY Constants DEF IInv, TypeOK, CaptureInv, Open
    <3>1. chain[simLedger] \in World
      BY <3>0, ChainTyped DEF IInv
    <3>2. Needed(simLedger) \subseteq Keys
      BY <3>1, Constants DEF Needed, World
    <3> QED
      BY <3>2 DEF Outcome
  <2> QED
    BY <2>1 DEF IInv, TypeOK, Pcs
<1>2. KeysInv'
  BY Constants DEF IInv, KeysInv
<1>3. CaptureInv'
  BY Constants DEF IInv, TypeOK, CaptureInv, Open, Present
<1>4. CheckedInv'
  BY Constants DEF IInv, TypeOK, CaptureInv, CheckedInv, CapturePlausible, Open
<1>5. CompleteInv'
  <2>1. Needed(simLedger)' = Needed(simLedger)
    BY DEF Needed
  <2>2. \A k \in keys' : Archived(Entries[k], simLedger)' = Archived(Entries[k], simLedger)
    BY DEF Archived, Entries
  <2>3. outcome'.kind = "ok" => /\ Needed(simLedger) \subseteq keys
                                /\ \A k \in keys : ~Archived(Entries[k], simLedger)
    OBVIOUS
  <2> QED
    BY <2>1, <2>2, <2>3 DEF CompleteInv
<1>6. HelperInv'
  BY Constants DEF IInv, TypeOK, HelperInv
<1>7. CountInv'
  BY Constants DEF IInv, TypeOK, CountInv, Open
<1>8. ResultInv'
  BY Constants DEF IInv, TypeOK, ResultInv, Measured, NoResult, Open, SnapshotConsistent, SnapshotComplete, HelperIdentified, ProtocolSupported, Needed
<1> QED
  BY <1>1, <1>2, <1>3, <1>4, <1>5, <1>6, <1>7, <1>8 DEF IInv

(* Settle preserves IInv.                                                 *)
LEMMA SettleStep == IInv /\ Settle => IInv'
<1> SUFFICES ASSUME IInv, Settle PROVE IInv'
  OBVIOUS
<1> USE DEF Settle, Fail, NextAttempt, Count, world, capture, counts, native, answer, vars
<1>1. TypeOK'
  <2>1. counts' = counts \/ (Count("newly_discovered_keys") /\ NextAttempt /\ transient' = transient)
    OBVIOUS
  <2>2. causes' \in [Causes -> 0..MaxAttempts] /\ lastCause' \in Causes \cup {"none"}
    BY <2>1, CountTyped DEF IInv, TypeOK, Open, Causes
  <2>3. attempt' \in 0..MaxAttempts /\ transient' \in 0..(MaxTransient + 1)
    BY <2>1, Constants DEF IInv, TypeOK, CountInv, Open
  <2>4. keys' \in SUBSET Keys /\ pc' \in Pcs
    BY DEF IInv, TypeOK, Outcome, Discovered, Pcs
  <2> QED
    BY <2>2, <2>3, <2>4 DEF IInv, TypeOK
<1>2. KeysInv'
  BY Constants DEF IInv, KeysInv
<1>3. CaptureInv'
  BY Constants DEF IInv, TypeOK, CaptureInv, Open, Present
<1>4. CheckedInv'
  BY Constants DEF IInv, TypeOK, CaptureInv, CheckedInv, CapturePlausible, Open
<1>5. CompleteInv'
  BY Constants DEF IInv, TypeOK, CompleteInv, Entries, Archived, Needed
<1>6. HelperInv'
  BY Constants DEF IInv, TypeOK, HelperInv
<1>7. CountInv'
  <2>1. CASE counts' = counts /\ pc' \in {"failed", "emit"}
    BY <2>1, Constants DEF IInv, TypeOK, CountInv, Open
  <2>2. CASE Count("newly_discovered_keys") /\ NextAttempt /\ transient' = transient
    <3>1. \A c \in Causes : causes'[c] <= attempt + 1
      BY <2>2, CountTyped DEF IInv, Open, Causes
    <3> QED
      BY <2>2, <3>1, Constants DEF IInv, TypeOK, CountInv, Open
  <2> QED
    BY <2>1, <2>2
<1>8. ResultInv'
  BY Constants DEF IInv, TypeOK, ResultInv, Measured, NoResult, Open, SnapshotConsistent, SnapshotComplete, HelperIdentified, ProtocolSupported, Needed
<1> QED
  BY <1>1, <1>2, <1>3, <1>4, <1>5, <1>6, <1>7, <1>8 DEF IInv

(* Emit preserves IInv.                                                   *)
LEMMA EmitStep == IInv /\ Emit => IInv'
<1> SUFFICES ASSUME IInv, Emit PROVE IInv'
  OBVIOUS
<1> USE DEF Emit, Return, Fail, NextAttempt, Count, world, capture, counts, native, answer, vars
<1>1. TypeOK'
  BY Constants DEF IInv, TypeOK, CountInv, Pcs, Open
<1>2. KeysInv'
  BY Constants DEF IInv, KeysInv
<1>3. CaptureInv'
  BY Constants DEF IInv, TypeOK, CaptureInv, Open, Present
<1>4. CheckedInv'
  BY Constants DEF IInv, TypeOK, CaptureInv, CheckedInv, CapturePlausible, Open
<1>5. CompleteInv'
  BY Constants DEF IInv, TypeOK, CompleteInv, Entries, Archived, Needed
<1>6. HelperInv'
  BY Constants DEF IInv, TypeOK, HelperInv
<1>7. CountInv'
  BY Constants DEF IInv, TypeOK, CountInv, Open
<1>8. ResultInv'
  <2>1. CASE ~Return(first)
    BY <2>1 DEF IInv, ResultInv, NoResult, Measured
  <2>2. CASE Return(first)
    <3> DEFINE res == [ledger |-> simLedger, entries |-> Entries, helper |-> first]
    <3>1. result' = res /\ pc' = "measured" /\ DOMAIN res.entries = keys /\ res.ledger = simLedger
      BY <2>2 DEF Entries
    <3>2. \A k \in keys : Entries[k] = chain[simLedger].data[k]
      BY EntriesOfLedger DEF IInv
    <3>3. SnapshotConsistent'
      BY <2>2, <3>1, <3>2 DEF IInv, CaptureInv, Open, SnapshotConsistent
    <3>4. Needed(simLedger) \subseteq keys /\ ConfigKeys \subseteq keys
      BY DEF IInv, CompleteInv, KeysInv
    <3>5. \A k \in keys : Entries[k].until = 0 \/ Entries[k].until >= simLedger
      <4> SUFFICES ASSUME NEW k \in keys PROVE Entries[k].until = 0 \/ Entries[k].until >= simLedger
        OBVIOUS
      <4>1. ~Archived(Entries[k], simLedger)
        BY DEF IInv, CompleteInv
      <4>2. Entries[k].until \in Nat /\ simLedger \in Nat
        BY EntriesTyped DEF IInv, TypeOK, Entry
      <4> QED
        BY <4>1, <4>2 DEF Archived
    <3>6. \A c \in ConfigKeys : Entries[c] # NoEntry
      <4> SUFFICES ASSUME NEW c \in ConfigKeys PROVE Entries[c] # NoEntry
        OBVIOUS
      <4>1. c \in DOMAIN rows /\ c \in keys \ pending
        BY <3>4 DEF IInv, CheckedInv, CapturePlausible, CaptureInv, Open
      <4> QED
        BY <4>1, <3>2 DEF IInv, CaptureInv, Open, Present
    <3>7. SnapshotComplete'
      BY <2>2, <3>1, <3>4, <3>5, <3>6 DEF SnapshotComplete, Needed
    <3>8. HelperIdentified' /\ ProtocolSupported'
      BY <2>2, <3>1 DEF IInv, HelperInv, CheckedInv, HelperIdentified, ProtocolSupported
    <3>9. /\ Start - res.ledger <= Lag
          /\ DOMAIN res.entries \subseteq Keys
          /\ ~aborted
      BY <3>1 DEF IInv, CaptureInv, Open, ResultInv, TypeOK
    <3> QED
      BY <2>2, <3>1, <3>3, <3>7, <3>8, <3>9 DEF ResultInv, Measured
  <2> QED
    BY <2>1, <2>2
<1> QED
  BY <1>1, <1>2, <1>3, <1>4, <1>5, <1>6, <1>7, <1>8 DEF IInv

(* RpcFails preserves IInv.                                               *)
LEMMA RpcFailsStep == IInv /\ RpcFails => IInv'
<1> SUFFICES ASSUME IInv, RpcFails PROVE IInv'
  OBVIOUS
<1> USE DEF RpcFails, Fail, NextAttempt, Count, world, capture, counts, native, answer, vars
<1>1. TypeOK'
  BY Constants DEF IInv, TypeOK, CountInv, Pcs, Open
<1>2. KeysInv'
  BY Constants DEF IInv, KeysInv
<1>3. CaptureInv'
  BY Constants DEF IInv, TypeOK, CaptureInv, Open, Present
<1>4. CheckedInv'
  BY Constants DEF IInv, TypeOK, CaptureInv, CheckedInv, CapturePlausible, Open
<1>5. CompleteInv'
  BY Constants DEF IInv, TypeOK, CompleteInv, Entries, Archived, Needed
<1>6. HelperInv'
  BY Constants DEF IInv, TypeOK, HelperInv
<1>7. CountInv'
  BY Constants DEF IInv, TypeOK, CountInv, Open
<1>8. ResultInv'
  BY Constants DEF IInv, TypeOK, ResultInv, Measured, NoResult, Open, SnapshotConsistent, SnapshotComplete, HelperIdentified, ProtocolSupported, Needed
<1> QED
  BY <1>1, <1>2, <1>3, <1>4, <1>5, <1>6, <1>7, <1>8 DEF IInv

(* Cancel preserves IInv.                                                 *)
LEMMA CancelStep == IInv /\ Cancel => IInv'
<1> SUFFICES ASSUME IInv, Cancel PROVE IInv'
  OBVIOUS
<1> USE DEF Cancel, Fail, NextAttempt, Count, world, capture, counts, native, answer, vars
<1>1. TypeOK'
  BY Constants DEF IInv, TypeOK, CountInv, Pcs, Open
<1>2. KeysInv'
  BY Constants DEF IInv, KeysInv
<1>3. CaptureInv'
  BY Constants DEF IInv, TypeOK, CaptureInv, Open, Present
<1>4. CheckedInv'
  BY Constants DEF IInv, TypeOK, CaptureInv, CheckedInv, CapturePlausible, Open
<1>5. CompleteInv'
  BY Constants DEF IInv, TypeOK, CompleteInv, Entries, Archived, Needed
<1>6. HelperInv'
  BY Constants DEF IInv, TypeOK, HelperInv
<1>7. CountInv'
  BY Constants DEF IInv, TypeOK, CountInv, Open
<1>8. ResultInv'
  BY Constants DEF IInv, TypeOK, ResultInv, Measured, NoResult, Open, SnapshotConsistent, SnapshotComplete, HelperIdentified, ProtocolSupported, Needed
<1> QED
  BY <1>1, <1>2, <1>3, <1>4, <1>5, <1>6, <1>7, <1>8 DEF IInv

(* CloseLedger preserves IInv.                                            *)
LEMMA CloseLedgerStep == IInv /\ CloseLedger => IInv'
<1> SUFFICES ASSUME IInv, CloseLedger PROVE IInv'
  OBVIOUS
<1> USE DEF CloseLedger, Fail, NextAttempt, Count, world, capture, counts, native, answer, vars
<1>1. TypeOK'
  BY Constants DEF IInv, TypeOK, CountInv, Pcs, Open
<1>2. KeysInv'
  BY Constants DEF IInv, KeysInv
<1>3. CaptureInv'
  BY Constants DEF IInv, TypeOK, CaptureInv, Open, Present
<1>4. CheckedInv'
  BY Constants DEF IInv, TypeOK, CaptureInv, CheckedInv, CapturePlausible, Open
<1>5. CompleteInv'
  BY Constants DEF IInv, TypeOK, CompleteInv, Entries, Archived, Needed
<1>6. HelperInv'
  BY Constants DEF IInv, TypeOK, HelperInv
<1>7. CountInv'
  BY Constants DEF IInv, TypeOK, CountInv, Open
<1>8. ResultInv'
  BY Constants DEF IInv, TypeOK, ResultInv, Measured, NoResult, Open, SnapshotConsistent, SnapshotComplete, HelperIdentified, ProtocolSupported, Needed
<1> QED
  BY <1>1, <1>2, <1>3, <1>4, <1>5, <1>6, <1>7, <1>8 DEF IInv

(* ReplaceHelper preserves IInv.                                          *)
LEMMA ReplaceHelperStep == IInv /\ ReplaceHelper => IInv'
<1> SUFFICES ASSUME IInv, ReplaceHelper PROVE IInv'
  OBVIOUS
<1> USE DEF ReplaceHelper, Fail, NextAttempt, Count, world, capture, counts, native, answer, vars
<1>1. TypeOK'
  BY Constants DEF IInv, TypeOK, CountInv, Pcs, Open
<1>2. KeysInv'
  BY Constants DEF IInv, KeysInv
<1>3. CaptureInv'
  BY Constants DEF IInv, TypeOK, CaptureInv, Open, Present
<1>4. CheckedInv'
  BY Constants DEF IInv, TypeOK, CaptureInv, CheckedInv, CapturePlausible, Open
<1>5. CompleteInv'
  BY Constants DEF IInv, TypeOK, CompleteInv, Entries, Archived, Needed
<1>6. HelperInv'
  BY Constants DEF IInv, TypeOK, HelperInv
<1>7. CountInv'
  BY Constants DEF IInv, TypeOK, CountInv, Open
<1>8. ResultInv'
  BY Constants DEF IInv, TypeOK, ResultInv, Measured, NoResult, Open, SnapshotConsistent, SnapshotComplete, HelperIdentified, ProtocolSupported, Needed
<1> QED
  BY <1>1, <1>2, <1>3, <1>4, <1>5, <1>6, <1>7, <1>8 DEF IInv

(* Abort preserves IInv.                                                  *)
LEMMA AbortStep == IInv /\ Abort => IInv'
<1> SUFFICES ASSUME IInv, Abort PROVE IInv'
  OBVIOUS
<1> USE DEF Abort, Awaiting, Fail, NextAttempt, Count, world, capture, counts, native, answer, vars
<1>1. TypeOK'
  BY Constants DEF IInv, TypeOK, CountInv, Pcs, Open
<1>2. KeysInv'
  BY Constants DEF IInv, KeysInv
<1>3. CaptureInv'
  BY Constants DEF IInv, TypeOK, CaptureInv, Open, Present
<1>4. CheckedInv'
  BY Constants DEF IInv, TypeOK, CaptureInv, CheckedInv, CapturePlausible, Open
<1>5. CompleteInv'
  BY Constants DEF IInv, TypeOK, CompleteInv, Entries, Archived, Needed
<1>6. HelperInv'
  BY Constants DEF IInv, TypeOK, HelperInv
<1>7. CountInv'
  BY Constants DEF IInv, TypeOK, CountInv, Open
<1>8. ResultInv'
  BY Constants DEF IInv, TypeOK, ResultInv, Measured, NoResult, Open, SnapshotConsistent, SnapshotComplete, HelperIdentified, ProtocolSupported, Needed
<1> QED
  BY <1>1, <1>2, <1>3, <1>4, <1>5, <1>6, <1>7, <1>8 DEF IInv

(* Stutter preserves IInv.                                                *)
LEMMA StutterStep == IInv /\ UNCHANGED vars => IInv'
  BY DEF IInv, TypeOK, KeysInv, CaptureInv, CheckedInv, CapturePlausible, CompleteInv,
         HelperInv, CountInv, ResultInv, Measured, SnapshotConsistent, SnapshotComplete,
         HelperIdentified, ProtocolSupported, Entries, Needed, Archived, Present,
         vars, world, capture, counts, native, answer

(* IInv holds at first.                                                    *)
LEMMA InitInv == Init => IInv
<1> SUFFICES ASSUME Init PROVE IInv
  OBVIOUS
<1>1. rows = [k \in {} |-> Row(k, 1)] /\ DOMAIN rows = {}
  BY DEF Init
<1>2. TypeOK
  <2>1. head \in Start..MaxLedger /\ helper \in 1..MaxHelper /\ attempt \in 0..MaxAttempts
    BY Constants DEF Init
  <2>2. causes \in [Causes -> 0..MaxAttempts] /\ transient \in 0..(MaxTransient + 1)
    BY Constants DEF Init
  <2>3. outcome \in Outcome /\ pc \in Pcs /\ keys \in SUBSET Keys /\ pending \in SUBSET Keys
    BY Constants DEF Init, Pcs, Outcome, NoOutcome
  <2>4. simLedger \in 0..MaxLedger /\ first \in 0..MaxHelper /\ ran \in 0..MaxHelper
    BY Constants DEF Init
  <2> QED
    BY <1>1, <2>1, <2>2, <2>3, <2>4 DEF Init, TypeOK
<1>3. KeysInv /\ CaptureInv /\ CheckedInv /\ CompleteInv
  BY DEF Init, KeysInv, CaptureInv, CheckedInv, CompleteInv, Open
<1>4. HelperInv /\ CountInv
  BY Constants DEF Init, HelperInv, CountInv, Open
<1>5. ResultInv
  BY DEF Init, ResultInv
<1> QED
  BY <1>2, <1>3, <1>4, <1>5 DEF IInv

(* Every reachable state satisfies the inductive invariant.                *)
THEOREM Invariance == Spec => []IInv
<1>1. IInv /\ [Next]_vars => IInv'
  <2> SUFFICES ASSUME IInv, [Next]_vars PROVE IInv'
    OBVIOUS
  <2>1. CASE GetNetwork \/ Simulate \/ Exhaust \/ ReadBatch \/ ReadDrifts \/ ReadFails \/ Wake
    BY <2>1, GetNetworkStep, SimulateStep, ExhaustStep, ReadBatchStep, ReadDriftsStep,
       ReadFailsStep, WakeStep
  <2>2. CASE GetHeader \/ Identify \/ Execute \/ Settle \/ Emit
    BY <2>2, GetHeaderStep, IdentifyStep, ExecuteStep, SettleStep, EmitStep
  <2>3. CASE RpcFails \/ Cancel \/ CloseLedger \/ ReplaceHelper \/ Abort
    BY <2>3, RpcFailsStep, CancelStep, CloseLedgerStep, ReplaceHelperStep, AbortStep
  <2>4. CASE Done \/ UNCHANGED vars
    BY <2>4, StutterStep DEF Done
  <2> QED
    BY <2>1, <2>2, <2>3, <2>4 DEF Next, Step
<1> QED
  BY InitInv, <1>1, PTL DEF Spec

(* Every variable keeps its type, the attempts and the retries stay within *)
(* their limits.                                                           *)
THEOREM TypeCorrect == Spec => []TypeOK
<1>1. IInv => TypeOK
  BY DEF IInv
<1> QED
  BY Invariance, <1>1, PTL

(* A returned measurement is the state of one closed ledger, whatever the  *)
(* histories, the batches, the lag of the RPC pool and the faults.         *)
THEOREM Consistency == Spec => []SnapshotConsistent
<1>1. IInv => SnapshotConsistent
  BY DEF IInv, ResultInv, SnapshotConsistent, Measured
<1> QED
  BY Invariance, <1>1, PTL

(* It holds every key the invocation reads, none of them archived, and all *)
(* of the configuration.                                                   *)
THEOREM Completeness == Spec => []SnapshotComplete
<1>1. IInv => SnapshotComplete
  BY DEF IInv, ResultInv, SnapshotComplete, Measured
<1> QED
  BY Invariance, <1>1, PTL

(* The helper named by the provenance is the one that ran.                 *)
THEOREM HelperIdentity == Spec => []HelperIdentified
<1>1. IInv => HelperIdentified
  BY DEF IInv, ResultInv, HelperIdentified, Measured
<1> QED
  BY Invariance, <1>1, PTL

(* No upgrade between getNetwork and the capture slips into a measurement. *)
THEOREM ProtocolOfLedger == Spec => []ProtocolSupported
<1>1. IInv => ProtocolSupported
  BY DEF IInv, ResultInv, ProtocolSupported, Measured
<1> QED
  BY Invariance, <1>1, PTL

(* An aborted call returns no measurement.                                 *)
THEOREM AbortHeeded == Spec => []NoResultAfterAbort
<1>1. IInv => NoResultAfterAbort
  BY DEF IInv, ResultInv, NoResultAfterAbort, Measured
<1> QED
  BY Invariance, <1>1, PTL

(* Rows never survive the attempt they were read in.                       *)
THEOREM FreshRows == Spec => []RowsOfThisAttempt
<1>1. IInv => RowsOfThisAttempt
  BY DEF IInv, CaptureInv, Open, RowsOfThisAttempt, Present
<1> QED
  BY Invariance, <1>1, PTL

-----------------------------------------------------------------------------
(* The refinement of AtomicMeasurement.                                    *)

(* Returning a measurement is the atomic Measure step.                     *)
LEMMA RefinesEmit ==
  ASSUME IInv, Emit PROVE [Atomic!Next]_Atomic!vars
<1> USE DEF Emit, Fail, Return, world, capture, counts, native, Measured, NoResult
<1>1. pc = "emit" /\ result = NoResult
  BY DEF IInv, ResultInv
<1>2. CASE Return(first)
  <2>1. simLedger \in 1..head /\ Start - simLedger <= Lag
    BY <1>1 DEF IInv, CaptureInv, Open
  <2>2. chain[simLedger].protocol = Supported /\ Needed(simLedger) \subseteq keys
    BY <1>1 DEF IInv, CheckedInv, CompleteInv
  <2>3. Entries = [k \in keys |-> chain[simLedger].data[k]]
    <3>1. \A k \in keys : Entries[k] = chain[simLedger].data[k]
      BY <1>1, EntriesOfLedger DEF IInv
    <3> QED
      BY <3>1 DEF Entries
  <2>4. /\ result' = [ledger |-> simLedger, entries |-> Entries, helper |-> first]
        /\ pc' = "measured" /\ chain' = chain /\ head' = head
    BY <1>2
  <2>5. keys \in SUBSET Keys
    BY DEF IInv, TypeOK
  <2>6. Atomic!Measure
    BY <1>1, <2>1, <2>2, <2>3, <2>4, <2>5 DEF Atomic!Measure, Atomic!Needed, Needed
  <2> QED
    BY <2>6 DEF Atomic!Next
<1>3. CASE ~Return(first)
  BY <1>1, <1>3 DEF Atomic!Next, Atomic!GiveUp, Atomic!vars
<1> QED
  BY <1>2, <1>3

(* Every other step is a stutter, a ledger closing or a call given up.     *)
LEMMA RefinesStep ==
  ASSUME IInv, [Next]_vars PROVE [Atomic!Next]_Atomic!vars
<1> USE DEF Fail, NextAttempt, Count, Measured, world, capture, counts, native, answer
<1>1. pc \notin {"measured", "failed"} /\ mode' = mode /\ chain' = chain /\ head' = head
      /\ pc' \notin {"measured", "failed"} => [Atomic!Next]_Atomic!vars
  BY DEF Atomic!vars
<1>2. pc \notin {"measured", "failed"} /\ mode' = mode /\ chain' = chain /\ head' = head
      /\ pc' = "failed" => [Atomic!Next]_Atomic!vars
  BY DEF Atomic!Next, Atomic!GiveUp
<1>3. CASE GetNetwork \/ Simulate \/ Exhaust
  BY <1>1, <1>2, <1>3 DEF GetNetwork, Simulate, Simulated, Exhaust
<1>4. CASE ReadBatch \/ ReadDrifts
  BY <1>1, <1>2, <1>4 DEF ReadBatch, ReadDrifts
<1>5. CASE ReadFails \/ Wake
  BY <1>1, <1>2, <1>5 DEF ReadFails, Wake
<1>6. CASE GetHeader \/ Identify \/ Execute
  BY <1>1, <1>2, <1>6 DEF GetHeader, Identify, Execute, RunHelper
<1>7. CASE Settle
  BY <1>1, <1>2, <1>7 DEF Settle
<1>8. CASE Emit
  BY <1>8, RefinesEmit
<1>9. CASE RpcFails \/ Cancel
  BY <1>1, <1>2, <1>9 DEF RpcFails, Cancel, Awaiting
<1>10. CASE CloseLedger
  BY <1>10 DEF CloseLedger, Atomic!Next, Atomic!CloseLedger
<1>11. CASE ReplaceHelper \/ Abort
  BY <1>11 DEF ReplaceHelper, Abort, Atomic!vars
<1>12. CASE Done \/ UNCHANGED vars
  BY <1>12 DEF Done, vars, Atomic!vars
<1> QED
  BY <1>3, <1>4, <1>5, <1>6, <1>7, <1>8, <1>9, <1>10, <1>11, <1>12 DEF Next, Step

(* measureInvocation implements the atomic measurement: seen from outside, *)
(* a call either takes the state of one ledger in a single step or fails.  *)
THEOREM Refinement == Spec => AtomicSpec
<1>1. Init => Atomic!Init
  BY ModesAssumption DEF Init, Mode, Atomic!Init, NoResult, Atomic!NoResult, Measured
<1>2. IInv /\ [Next]_vars => [Atomic!Next]_Atomic!vars
  BY RefinesStep
<1> QED
  BY Invariance, <1>1, <1>2, PTL DEF Spec, AtomicSpec, Atomic!Spec

=============================================================================
