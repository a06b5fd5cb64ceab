--------------------------- MODULE SnapshotCapture ---------------------------
(***************************************************************************)
(* measureInvocation of src/simulation.ts: one contract invocation is      *)
(* simulated by the RPC node, every ledger key it may touch is read in     *)
(* batches, and the native helper re-executes it on the captured rows.     *)
(* Ledgers close, the RPC pool answers from nodes that may lag, reads fail *)
(* and the helper's file is replaced while the capture runs; the client    *)
(* restarts the whole capture until every answer names the same ledger.    *)
(*                                                                         *)
(* One action is one await (an RPC call, the helper process, the backoff   *)
(* timer) with the synchronous code that follows it.  The reads of the     *)
(* helper's file are steps of their own: another process may replace the   *)
(* file between two of them.                                               *)
(***************************************************************************)
EXTENDS Integers, FiniteSets

CONSTANTS
  Keys,          \* ledger keys: numbers, ordered as their base64 forms sort
  ConfigKeys,    \* configKeys, the network settings every snapshot holds
  BatchSize,     \* 200, keys per getLedgerEntries call
  MaxAttempts,   \* 30, captures tried before giving up
  MaxTransient,  \* 3, tolerated captive-core read failures
  Supported,     \* SUPPORTED_PROTOCOL_VERSION
  MaxLedger,     \* bound: the newest ledger of a behaviour
  Start,         \* the newest ledger when the measurement begins
  Chains,        \* the ledger histories considered, see World
  MaxHelper,     \* bound: the last version of the helper's file
  Modes          \* under which conditions a measurement may run, see Mode

Ledgers == 1..MaxLedger

(* A ledger entry: a version that tells its states apart, and liveUntil,   *)
(* 0 when the row has none.  NoEntry is a key the ledger does not hold.    *)
Entry   == [version : Nat, until : Nat]
NoEntry == [version |-> 0, until |-> 0]

(* One closed ledger: its entries, the footprint the RPC reports for the   *)
(* invocation on it, the keys the host reads beside the footprint, and the *)
(* protocol of its header.                                                 *)
World == [data : [Keys -> Entry], foot : SUBSET Keys, extra : SUBSET Keys,
          protocol : Nat]

FaultKinds == {"rpc", "transient", "substitute", "host", "abort", "replace"}

(* lag: how many ledgers an answering RPC node may be behind; transport:   *)
(* how the helper reports a key it misses, see Discovered; faults: what    *)
(* may go wrong beside ledgers that close.                                 *)
Mode == [lag : Nat, transport : {"envelope", "stderr"}, faults : SUBSET FaultKinds]

Causes     == {"ledger_drift", "batch_ledger_disagreement",
               "newly_discovered_keys", "transient_read"}

ASSUME KeysAssumption == /\ Keys \subseteq Nat
                         /\ IsFiniteSet(Keys)
                         /\ ConfigKeys \subseteq Keys
                         /\ ConfigKeys # {}
ASSUME BoundsAssumption == /\ BatchSize \in Nat \ {0}
                           /\ MaxAttempts \in Nat \ {0}
                           /\ MaxTransient \in Nat
                           /\ Supported \in Nat
                           /\ MaxLedger \in Nat \ {0}
                           /\ Start \in Ledgers
                           /\ MaxHelper \in Nat \ {0}
ASSUME ChainsAssumption == Chains \subseteq [Ledgers -> World]
ASSUME ModesAssumption  == Modes \subseteq Mode

VARIABLES
  mode,       \* the conditions of this measurement
  chain,      \* what every ledger holds once it has closed
  head,       \* the newest closed ledger
  helper,     \* version of the helper's file on disk
  aborted,    \* options.signal.aborted
  pc,         \* where measureInvocation is
  attempt,    \* the loop's attempt
  keys,       \* keys: every key found so far, kept over the attempts
  pending,    \* requested.slice(offset): the keys not read in this attempt
  rows,       \* rows: the rows of this attempt, by key
  simLedger,  \* simulation.latestLedger
  transient,  \* transientReadFailures
  causes,     \* causes: restarts by cause
  lastCause,  \* lastCause
  first,      \* initialHelperSha256, 0 for null
  ran,        \* the version of the helper that executed last
  outcome,    \* what that execution came to
  result,     \* the measurement returned, or NoResult
  failure     \* why measureInvocation threw, or "none"

world   == <<mode, chain, head, helper, aborted>>
capture == <<keys, pending, rows, simLedger>>
counts  == <<attempt, transient, causes, lastCause>>
native  == <<first, ran, outcome>>
answer  == <<result, failure>>
vars    == <<world, pc, capture, counts, native, answer>>

NoResult  == [ledger |-> 0]
NoOutcome == [kind |-> "none", keys |-> {}]
Outcome   == [kind : {"none", "ok", "uncaptured", "failed"}, keys : SUBSET Keys]

-----------------------------------------------------------------------------
(* Helpers                                                                  *)

Lag       == mode.lag
Transport == mode.transport
Faults    == mode.faults

(* The row getLedgerEntries returns under a key: the entry itself names    *)
(* the key it belongs to.                                                  *)
Row(j, l) == [of |-> j, entry |-> chain[l].data[j]]

Present(ks, l) == {k \in ks : chain[l].data[k] # NoEntry}

(* requested is sorted: the next batch is the BatchSize least keys left.   *)
Batch == {k \in pending : Cardinality({j \in pending : j < k}) < BatchSize}

(* entries: each requested key with its row, or with no entry.             *)
Entries == [k \in keys |-> IF k \in DOMAIN rows THEN rows[k].entry ELSE NoEntry]

(* What the host reads when it runs the invocation on ledger l.            *)
Needed(l) == ConfigKeys \cup chain[l].foot \cup chain[l].extra

(* An RPC node may answer from any ledger at most Lag behind the head.     *)
Answers == {l \in 1..head : head - l <= Lag}

\* Bug: off by one, an entry may be used one ledger too long.
BugArchivedLate(e, l) == e.until # 0 /\ e.until + 1 < l
Archived(e, l) == e.until # 0 /\ e.until < l

Fail(why) == /\ pc' = "failed"
             /\ failure' = why
             /\ UNCHANGED result

(* `continue`: the next iteration of the loop begins a new capture.        *)
NextAttempt == /\ attempt' = attempt + 1
               /\ pc' = "simulate"

Count(cause) == /\ lastCause' = cause
                /\ causes' = [causes EXCEPT ![cause] = @ + 1]

-----------------------------------------------------------------------------
(* The client                                                               *)

Init == /\ mode \in Modes
        /\ chain \in Chains
        /\ head = Start
        /\ helper = 1
        /\ aborted = FALSE
        /\ pc = "network"
        /\ attempt = 0
        /\ keys = ConfigKeys
        /\ pending = {}
        /\ rows = [k \in {} |-> Row(k, 1)]
        /\ simLedger = 0
        /\ transient = 0
        /\ causes = [c \in Causes |-> 0]
        /\ lastCause = "none"
        /\ first = 0
        /\ ran = 0
        /\ outcome = NoOutcome
        /\ result = NoResult
        /\ failure = "none"

(* getNetwork, once per measurement: an unsupported protocol is refused.   *)
GetNetwork ==
  /\ pc = "network"
  /\ ~aborted
  /\ \E l \in Answers :
       IF chain[l].protocol = Supported
         THEN pc' = "simulate" /\ UNCHANGED answer
         ELSE Fail("protocol")
  /\ UNCHANGED <<world, capture, counts, native>>

(* simulateTransaction: the footprint joins the keys to capture, and the   *)
(* rows of any earlier attempt are forgotten.                              *)
Simulated(l, ks) ==
  /\ pc = "simulate"
  /\ attempt < MaxAttempts
  /\ ~aborted
  /\ simLedger' = l
  /\ keys' = ks \cup chain[l].foot
  /\ pending' = keys'
  /\ pc' = "read"
  /\ UNCHANGED <<world, counts, native, answer>>

\* Bugs: the first simulation's ledger is kept; keys found by earlier
\* attempts are dropped; `rows` is declared outside the loop.
BugStaleLedger == \E l \in Answers : /\ Simulated(IF attempt = 0 THEN l ELSE simLedger, keys)
                                     /\ rows' = [k \in {} |-> Row(k, l)]
BugForgetsKeys == \E l \in Answers : /\ Simulated(l, ConfigKeys)
                                     /\ rows' = [k \in {} |-> Row(k, l)]
BugKeepsRows   == \E l \in Answers : Simulated(l, keys) /\ UNCHANGED rows

Simulate == \E l \in Answers : /\ Simulated(l, keys)
                               /\ rows' = [k \in {} |-> Row(k, l)]

(* The loop ends without a return.                                         *)
Exhaust ==
  /\ pc = "simulate"
  /\ attempt = MaxAttempts
  /\ Fail("exhausted")
  /\ UNCHANGED <<world, capture, counts, native>>

(* A batch belongs to the capture only if its ledger is the simulation's.  *)
\* Bug: an answer from a newer ledger passes.
BugNotOlder(l) == l >= simLedger
SameLedger(l) == l = simLedger

(* getLedgerEntries for one batch, answered at the ledger of the           *)
(* simulation: its rows are kept.                                          *)
ReadBatch ==
  /\ pc = "read"
  /\ ~aborted
  /\ \E l \in Answers :
       /\ SameLedger(l)
       /\ LET got == Present(Batch, l)
          IN \E swap \in [got -> Present(Keys, l)] :
               /\ "substitute" \notin Faults => \A k \in got : swap[k] = k
               /\ rows' = [k \in DOMAIN rows \cup got |->
                             IF k \in got THEN Row(swap[k], l) ELSE rows[k]]
  /\ pending' = pending \ Batch
  /\ pc' = IF pending' = {} THEN "header" ELSE "read"
  /\ UNCHANGED <<world, keys, simLedger, counts, native, answer>>

(* A batch answered at any other ledger, older or newer: drift, and the    *)
(* capture restarts.                                                       *)
\* Bug: drift restarts the capture within the same attempt.
BugFreeRestart ==
  /\ pc = "read"
  /\ ~aborted
  /\ \E l \in Answers : ~SameLedger(l)
  /\ pc' = "simulate"
  /\ UNCHANGED <<world, capture, counts, native, answer>>

ReadDrifts ==
  /\ pc = "read"
  /\ ~aborted
  /\ \E l \in Answers : ~SameLedger(l)
  /\ Count(IF pending = keys THEN "ledger_drift" ELSE "batch_ledger_disagreement")
  /\ NextAttempt
  /\ UNCHANGED <<world, capture, transient, native, answer>>

(* The one read failure that is retried: it backs off, unless the budget   *)
(* or the attempts are used up.                                            *)
\* Bug: only the attempts bound the retries.
BugNoRetryLimit == attempt = MaxAttempts - 1
RetriesSpent == transient' > MaxTransient \/ attempt = MaxAttempts - 1

ReadFails ==
  /\ pc = "read"
  /\ ~aborted
  /\ "transient" \in Faults
  /\ transient' = transient + 1
  /\ Count("transient_read")
  /\ IF RetriesSpent
       THEN Fail("read_retries")
       ELSE pc' = "backoff" /\ UNCHANGED answer
  /\ UNCHANGED <<world, capture, attempt, native>>

(* The backoff timer fires.                                                *)
\* Bug: a retried read does not use up its attempt.
BugSameAttempt ==
  /\ pc = "backoff"
  /\ ~aborted
  /\ pc' = "simulate"
  /\ UNCHANGED <<world, capture, counts, native, answer>>

Wake ==
  /\ pc = "backoff"
  /\ ~aborted
  /\ NextAttempt
  /\ UNCHANGED <<world, capture, transient, causes, lastCause, native, answer>>

(* getLedgers for the simulated ledger, then the checks of the header, of  *)
(* the configuration rows and of each row against its key.                 *)
CapturePlausible == /\ ConfigKeys \subseteq DOMAIN rows
                    /\ \A k \in DOMAIN rows : rows[k].of = k
\* Bug: the header's version is not compared with the network's.
BugAnyVersion(l) == l >= simLedger
HeaderAccepted(l) == l >= simLedger /\ chain[simLedger].protocol = Supported

GetHeader ==
  /\ pc = "header"
  /\ ~aborted
  /\ \E l \in Answers :
       IF ~HeaderAccepted(l) THEN Fail("header")
       ELSE IF ~CapturePlausible THEN Fail("rows")
       ELSE pc' = "identify" /\ UNCHANGED answer
  /\ UNCHANGED <<world, capture, counts, native>>

(* captureHelperIdentity before the helper starts: the first attempt pins  *)
(* the identity, later ones must find the same file.                       *)
Identify ==
  /\ pc = "identify"
  /\ IF first = 0
       THEN first' = helper /\ pc' = "execute" /\ UNCHANGED answer
       ELSE /\ UNCHANGED first
            /\ IF helper = first THEN pc' = "execute" /\ UNCHANGED answer
                                 ELSE Fail("helper_changed")
  /\ UNCHANGED <<world, capture, counts, ran, outcome>>

(* The helper runs on header and rows.  It refuses a row whose time to     *)
(* live ended before the ledger, and reports keys it needs and has no row  *)
(* for: the run ends at the first such reads.                              *)
RunHelper ==
  /\ pc = "execute"
  /\ ran' = helper
  /\ LET missing == Needed(simLedger) \ keys
     IN \/ /\ \/ \E k \in keys : Archived(Entries[k], simLedger)
              \/ "host" \in Faults
           /\ outcome' = [kind |-> "failed", keys |-> {}]
        \/ /\ \A k \in keys : ~Archived(Entries[k], simLedger)
           /\ IF missing = {}
                THEN outcome' = [kind |-> "ok", keys |-> {}]
                ELSE \E ks \in (SUBSET missing) \ {{}} :
                       outcome' = [kind |-> "uncaptured", keys |-> ks]
  /\ pc' = "settle"
  /\ UNCHANGED <<world, capture, counts, first, answer>>

\* Bug: the signal is not passed on to the helper process.
BugUncancellable == RunHelper
Execute == ~aborted /\ RunHelper

(* The keys measureInvocation can read from the failure of a helper that   *)
(* misses some.  "stderr" is a helper that prints UNCAPTURED_KEY lines.    *)
(* The native helper of this repository prints an envelope on stdout; but  *)
(* simulateSnapshot replaces that failure by an Error of status and        *)
(* message alone, so neither parseHelperFailure nor the search for         *)
(* UNCAPTURED_KEY finds a key.                                             *)
Discovered == IF Transport = "stderr" THEN outcome.keys \ keys ELSE {}

(* What the RPC simulation and the helper report of the invocation: what   *)
(* it makes of the entries of its footprint.                               *)
RpcOutput    == [k \in chain[simLedger].foot |-> chain[simLedger].data[k]]
NativeOutput == [k \in chain[simLedger].foot |-> Entries[k]]

(* After the helper: its file is hashed again, whether it failed or not,   *)
(* then a failure is settled or the outputs are compared.                  *)
Settle ==
  /\ pc = "settle"
  /\ \/ /\ helper # first
        /\ Fail("helper_changed")
        /\ UNCHANGED <<keys, counts>>
     \/ /\ helper = first
        /\ outcome.kind = "failed"
        /\ Fail("helper")
        /\ UNCHANGED <<keys, counts>>
     \/ /\ helper = first
        /\ outcome.kind = "uncaptured"
        /\ Discovered = {}
        /\ Fail("uncaptured")
        /\ UNCHANGED <<keys, counts>>
     \/ /\ helper = first
        /\ outcome.kind = "uncaptured"
        /\ Discovered # {}
        /\ keys' = keys \cup Discovered
        /\ Count("newly_discovered_keys")
        /\ NextAttempt
        /\ UNCHANGED <<transient, answer>>
     \/ /\ helper = first
        /\ outcome.kind = "ok"
        /\ IF NativeOutput = RpcOutput THEN pc' = "emit" /\ UNCHANGED answer
                                       ELSE Fail("parity")
        /\ UNCHANGED <<keys, counts>>
  /\ UNCHANGED <<world, pending, rows, simLedger, native>>

(* The last look at the helper's file, then the provenance is returned.    *)
Return(hash) ==
  /\ result' = [ledger |-> simLedger, entries |-> Entries, helper |-> hash]
  /\ pc' = "measured"
  /\ UNCHANGED <<world, capture, counts, native, failure>>

\* Bug: the hash is taken when the provenance is written.
BugHashAtEnd == pc = "emit" /\ Return(helper)
Emit ==
  /\ pc = "emit"
  /\ \/ helper = first /\ Return(first)
     \/ /\ helper # first
        /\ Fail("helper_changed")
        /\ UNCHANGED <<world, capture, counts, native>>

(* An RPC call fails in any other way: transport, HTTP, JSON-RPC error, an *)
(* answer of another shape, a simulation that reports an error.            *)
RpcFails ==
  /\ "rpc" \in Faults
  /\ \/ pc \in {"network", "read", "header"}
     \/ pc = "simulate" /\ attempt < MaxAttempts
  /\ ~aborted
  /\ Fail("rpc")
  /\ UNCHANGED <<world, capture, counts, native>>

(* The points at which the event loop turns and the signal is heeded.      *)
Awaiting == \/ pc \in {"network", "read", "backoff", "header", "execute"}
            \/ (pc = "simulate" /\ attempt < MaxAttempts)

Cancel ==
  /\ aborted
  /\ Awaiting
  /\ Fail("aborted")
  /\ UNCHANGED <<world, capture, counts, native>>

-----------------------------------------------------------------------------
(* The environment                                                          *)

CloseLedger ==
  /\ head < MaxLedger
  /\ head' = head + 1
  /\ UNCHANGED <<mode, chain, helper, aborted, pc, capture, counts, native, answer>>

(* Another process writes a new helper.  It never puts an old one back: a  *)
(* swap and its undoing between two hashes cannot be seen by them.         *)
ReplaceHelper ==
  /\ "replace" \in Faults
  /\ helper < MaxHelper
  /\ helper' = helper + 1
  /\ UNCHANGED <<mode, chain, head, aborted, pc, capture, counts, native, answer>>

Abort ==
  /\ "abort" \in Faults
  /\ ~aborted
  /\ Awaiting
  /\ aborted' = TRUE
  /\ UNCHANGED <<mode, chain, head, helper, pc, capture, counts, native, answer>>

Step == \/ GetNetwork \/ Simulate \/ Exhaust \/ ReadBatch \/ ReadDrifts
        \/ ReadFails \/ Wake \/ GetHeader \/ Identify \/ Execute \/ Settle
        \/ Emit \/ RpcFails \/ Cancel

Done == pc \in {"measured", "failed"} /\ UNCHANGED vars

Next == Step \/ CloseLedger \/ ReplaceHelper \/ Abort \/ Done

Spec == Init /\ [][Next]_vars

(* Every RPC call and every run of the helper has a time limit, so the     *)
(* client always takes its next step; nothing is assumed of the ledger.    *)
FairSpec == Spec /\ WF_vars(Step)

-----------------------------------------------------------------------------
(* Properties                                                               *)

Pcs == {"network", "simulate", "read", "backoff", "header", "identify",
        "execute", "settle", "emit", "measured", "failed"}

(* Every variable holds a value of its kind, and the counters stay within  *)
(* the limits measureInvocation gives them.                                *)
TypeOK ==
  /\ mode \in Modes
  /\ chain \in Chains
  /\ head \in Start..MaxLedger
  /\ helper \in 1..MaxHelper
  /\ aborted \in BOOLEAN
  /\ pc \in Pcs
  /\ attempt \in 0..MaxAttempts
  /\ keys \in SUBSET Keys
  /\ pending \in SUBSET Keys
  /\ DOMAIN rows \subseteq Keys
  /\ \A k \in DOMAIN rows : rows[k] \in [of : Keys, entry : Entry]
  /\ simLedger \in 0..MaxLedger
  /\ transient \in 0..(MaxTransient + 1)
  /\ causes \in [Causes -> 0..MaxAttempts]
  /\ lastCause \in Causes \cup {"none"}
  /\ first \in 0..MaxHelper
  /\ ran \in 0..MaxHelper
  /\ outcome \in Outcome

Measured == pc = "measured"

(* A returned measurement describes one closed ledger: each captured key   *)
(* holds what that very ledger held, present or absent, though the batches *)
(* were read over time and ledgers closed in between.                      *)
SnapshotConsistent ==
  Measured => /\ result.ledger \in 1..head
              /\ \A k \in DOMAIN result.entries :
                   result.entries[k] = chain[result.ledger].data[k]

(* It is complete: every key the invocation reads on that ledger, and all  *)
(* of the configuration, was captured, and none of it was archived.        *)
SnapshotComplete ==
  Measured => /\ Needed(result.ledger) \subseteq DOMAIN result.entries
              /\ \A k \in DOMAIN result.entries :
                   \/ result.entries[k].until = 0
                   \/ result.entries[k].until >= result.ledger
              /\ \A c \in ConfigKeys : result.entries[c] # NoEntry

(* The helper hash of the provenance is the hash of the file that produced *)
(* the output, though the file may be replaced at any moment.              *)
HelperIdentified == Measured => result.helper = ran

(* The protocol was looked up once, before the ledger of the measurement   *)
(* was known: an upgrade in between never yields a measurement.            *)
ProtocolSupported == Measured => chain[result.ledger].protocol = Supported

(* Once the caller's signal is aborted no measurement is returned.         *)
NoResultAfterAbort == aborted => ~Measured

(* Every restart has exactly one recorded cause: the counters the error of *)
(* an exhausted capture reports add up to its attempts.                    *)
CausesAccounted ==
  LET total == causes["ledger_drift"] + causes["batch_ledger_disagreement"]
               + causes["newly_discovered_keys"] + causes["transient_read"]
  IN /\ pc \notin {"backoff", "failed"} => total = attempt
     /\ pc = "backoff" => total = attempt + 1
     /\ failure = "exhausted" => total = MaxAttempts
     /\ transient = causes["transient_read"]

(* No restart is spurious: a drift restart is paid for by a ledger that    *)
(* closed meanwhile, a discovery by a key not known before, a failed read  *)
(* by the retry budget.  So a capture is exhausted only when ledgers       *)
(* outran it.  Holds when the RPC pool does not lag.                       *)
RestartsPaid ==
  Lag = 0 =>
    /\ causes["ledger_drift"] + causes["batch_ledger_disagreement"] <= head - Start
    /\ causes["newly_discovered_keys"] <= Cardinality(keys \ ConfigKeys)
    /\ failure = "exhausted" =>
         MaxAttempts <= (head - Start) + Cardinality(keys \ ConfigKeys) + MaxTransient

(* A restart begins from nothing: no row read in an earlier attempt is     *)
(* among the rows of this one, and the rows always cover what was asked.   *)
RowsOfThisAttempt ==
  pc \in {"read", "header"} =>
    /\ DOMAIN rows \cap pending = {}
    /\ DOMAIN rows = Present(keys \ pending, simLedger)

(* Discovered keys make the client capture again, as long as attempts are  *)
(* left: a key the helper misses is never by itself the end of it.         *)
MissingKeysRecaptured == failure # "uncaptured"

(* The capture ends, with a measurement or an error, whatever the network  *)
(* does.                                                                   *)
Terminates == <>(pc \in {"measured", "failed"})

(* On a network without lag or faults, with a helper whose missing keys    *)
(* reach the client, the measurement succeeds: nothing it needs is         *)
(* archived or missing, the protocol stays, and the attempts outnumber the *)
(* ledgers that close and the keys there are to discover.                  *)
Unimpeded ==
  /\ Lag = 0 /\ Faults = {} /\ Transport = "stderr"
  /\ \A l \in Ledgers :
       /\ chain[l].protocol = Supported
       /\ \A k \in ConfigKeys : chain[l].data[k] # NoEntry
       /\ \A k \in Keys : ~Archived(chain[l].data[k], l)
  /\ MaxAttempts > (MaxLedger - Start) + Cardinality(UNION {chain[l].extra : l \in Ledgers})
HealthyMeasured == Unimpeded => <>Measured

(* The inductive invariant behind the properties above.  While a capture   *)
(* is open its rows are those of the simulated ledger, and every check     *)
(* passed so far still holds of them.                                      *)
Open == {"read", "header", "identify", "execute", "settle", "emit"}

KeysInv == ConfigKeys \subseteq keys

CaptureInv ==
  pc \in Open =>
    /\ simLedger \in 1..head
    /\ Start - simLedger <= Lag
    /\ chain[simLedger].foot \subseteq keys
    /\ pending \subseteq keys
    /\ pc # "read" => pending = {}
    /\ DOMAIN rows = Present(keys \ pending, simLedger)
    /\ \A k \in DOMAIN rows : rows[k].of = k => rows[k].entry = chain[simLedger].data[k]

CheckedInv ==
  pc \in {"identify", "execute", "settle", "emit"} =>
    /\ chain[simLedger].protocol = Supported
    /\ CapturePlausible

CompleteInv ==
  pc = "emit" \/ (pc = "settle" /\ outcome.kind = "ok") =>
    /\ Needed(simLedger) \subseteq keys
    /\ \A k \in keys : ~Archived(Entries[k], simLedger)

HelperInv ==
  /\ first <= helper
  /\ ran <= helper
  /\ pc \in {"execute", "settle", "emit"} => first # 0
  /\ pc \in {"settle", "emit"} => first <= ran
  /\ pc = "emit" => first = ran

CountInv ==
  /\ pc = "network" => attempt = 0
  /\ pc \in Open => attempt < MaxAttempts
  /\ pc = "backoff" => attempt < MaxAttempts - 1
  /\ pc # "failed" => transient <= MaxTransient
  /\ \A c \in Causes : causes[c] <= attempt + (IF pc \in {"backoff", "failed"} THEN 1 ELSE 0)

ResultInv ==
  /\ pc = "measured" => /\ SnapshotConsistent
                        /\ SnapshotComplete
                        /\ HelperIdentified
                        /\ ProtocolSupported
                        /\ Start - result.ledger <= Lag
                        /\ DOMAIN result.entries \subseteq Keys
  /\ pc # "measured" => result = NoResult
  /\ pc = "measured" => ~aborted
  /\ pc \in {"identify", "settle", "emit"} => ~aborted

IInv == /\ TypeOK
        /\ KeysInv
        /\ CaptureInv
        /\ CheckedInv
        /\ CompleteInv
        /\ HelperInv
        /\ CountInv
        /\ ResultInv

(* Where the restarts stand: in a capture that is open, and in one about   *)
(* to begin, every attempt used up has its cause, and without lag no open  *)
(* capture has drifted more often than ledgers closed up to its own.       *)
Drifts   == causes["ledger_drift"] + causes["batch_ledger_disagreement"]
Restarts == Drifts + causes["newly_discovered_keys"] + causes["transient_read"]

CauseInv ==
  /\ pc \notin {"backoff", "failed"} => Restarts = attempt
  /\ pc = "backoff" => Restarts = attempt + 1
  /\ pc # "failed" => failure = "none"
  /\ failure = "exhausted" => Restarts = MaxAttempts /\ transient <= MaxTransient
  /\ transient = causes["transient_read"]

PaidInv ==
  /\ Lag = 0 => Drifts <= head - Start
  /\ Lag = 0 /\ pc \in Open => Drifts <= simLedger - Start
  /\ causes["newly_discovered_keys"] <= Cardinality(keys \ ConfigKeys)

RestartInv == CauseInv /\ PaidInv

(* Refinement: measureInvocation promises the measurement of one ledger,   *)
(* as if it had been taken in a single step during the call.               *)
Atomic == INSTANCE AtomicMeasurement WITH
            lag    <- Lag,
            result <- IF Measured
                        THEN [ledger |-> result.ledger, entries |-> result.entries]
                        ELSE NoResult,
            over   <- pc \in {"measured", "failed"}

AtomicSpec == Atomic!Spec
=============================================================================
