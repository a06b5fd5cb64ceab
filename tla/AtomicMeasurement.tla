------------------------- MODULE AtomicMeasurement -------------------------
(***************************************************************************)
(* What measureInvocation promises its caller: a measurement is the state  *)
(* of one closed ledger, taken in a single step while the call is open, or *)
(* no measurement at all.  SnapshotCapture implements it.                  *)
(***************************************************************************)
EXTENDS Integers

CONSTANTS Keys, ConfigKeys, Supported, MaxLedger, Start, Chains

VARIABLES lag,     \* how many ledgers an answering RPC node may be behind
          chain,   \* what every ledger holds once it has closed
          head,    \* the newest closed ledger
          result,  \* the measurement, or NoResult
          over     \* the call has returned or thrown

vars == <<lag, chain, head, result, over>>

NoResult == [ledger |-> 0]

(* The keys a measurement of ledger l must hold.                           *)
Needed(l) == ConfigKeys \cup chain[l].foot \cup chain[l].extra

Init == /\ lag \in Nat
        /\ chain \in Chains
        /\ head = Start
        /\ result = NoResult
        /\ over = FALSE

CloseLedger == /\ head < MaxLedger
               /\ head' = head + 1
               /\ UNCHANGED <<lag, chain, result, over>>

(* The ledger measured is no older than the call, up to the lag of the RPC *)
(* pool, and its protocol is the supported one.                            *)
Measure ==
  /\ ~over
  /\ over' = TRUE
  /\ \E l \in 1..head, ks \in SUBSET Keys :
       /\ Start - l <= lag
       /\ chain[l].protocol = Supported
       /\ Needed(l) \subseteq ks
       /\ result' = [ledger |-> l, entries |-> [k \in ks |-> chain[l].data[k]]]
  /\ UNCHANGED <<lag, chain, head>>

GiveUp == /\ ~over
          /\ over' = TRUE
          /\ UNCHANGED <<lag, chain, head, result>>

Next == CloseLedger \/ Measure \/ GiveUp

Spec == Init /\ [][Next]_vars
=============================================================================
