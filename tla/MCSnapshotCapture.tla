------------------------- MODULE MCSnapshotCapture -------------------------
(***************************************************************************)
(* Ledger histories for TLC.  Key 1 is the configuration, 2 and 3 enter    *)
(* the footprint, 4 is read by the host alone.  With batches of two every  *)
(* capture takes two calls, so a ledger can close between them.            *)
(***************************************************************************)
EXTENDS SnapshotCapture

MCKeys == 1..4

E(v, u) == [version |-> v, until |-> u]
W(data, foot, extra, protocol) ==
  [data |-> data, foot |-> foot, extra |-> extra, protocol |-> protocol]

(* Every ledger rewrites key 2, and the footprint moves from 2 to 3.       *)
Moving(l) == W(<<E(1, 0), E(l, 0), E(1, 9), NoEntry>>,
               IF l = 1 THEN {2} ELSE {2, 3}, {4}, 28)

(* Key 3 appears only once ledger 2 has closed, then is archived.          *)
Expiring(l) == W(<<E(1, 0), E(1, 0), IF l = 1 THEN NoEntry ELSE E(2, 2), E(1, 0)>>,
                 {3}, {4}, 28)

(* An upgrade with the second ledger.                                      *)
Upgraded(l) == W(<<E(l, 0), E(1, 0), NoEntry, NoEntry>>, {2}, {},
                 IF l = 1 THEN 28 ELSE 29)

(* The node has no configuration row at first.                             *)
Unconfigured(l) == W(<<IF l = 1 THEN NoEntry ELSE E(1, 0), E(1, 0), E(l, 0), E(l, 9)>>,
                     {2, 3}, {4}, 28)

(* The footprint is all the host reads.  Every ledger rewrites key 4 and   *)
(* the configuration, which the outputs do not show.                       *)
Plain(l) == W(<<E(l, 0), E(1, 0), E(1, 9), E(l, l + 1)>>, {2, 3, 4}, {}, 28)

MCChains == {[l \in Ledgers |-> Moving(l)],
             [l \in Ledgers |-> Expiring(l)],
             [l \in Ledgers |-> Upgraded(l)],
             [l \in Ledgers |-> Unconfigured(l)],
             [l \in Ledgers |-> Plain(l)]}

(* Everything goes wrong on a single node, whose helper's words reach the  *)
(* client; nodes one ledger apart, with the helper of the repository; and  *)
(* nothing goes wrong.                                                     *)
Faulty  == [lag |-> 0, transport |-> "stderr", faults |-> FaultKinds]
Lagging == [lag |-> 1, transport |-> "envelope", faults |-> {"transient"}]
Smooth  == [lag |-> 0, transport |-> "stderr", faults |-> {}]

MCModes       == {Faulty, Lagging, Smooth}
EnvelopeModes == {[Smooth EXCEPT !.transport = "envelope"]}
=============================================================================
