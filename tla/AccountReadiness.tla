-------------------------- MODULE AccountReadiness --------------------------
(***************************************************************************)
(* ensureAccountReady of src/account.ts: a client asks the RPC for its     *)
(* account, has it funded by friendbot if it is not there, and asks again  *)
(* until it is or the deadline is reached.  A funding answer may be lost   *)
(* although the account is created, at once or a ledger later, and the RPC *)
(* shows an account some time after the ledger has it.  Clients may share  *)
(* an account: runs that are given one key file do.                        *)
(*                                                                         *)
(* One action is one HTTP request or one pause.  A client's clock counts   *)
(* ticks since it started; a request takes any time up to its timeout, a   *)
(* pause one tick, and both stop at the deadline.                          *)
(***************************************************************************)
EXTENDS Integers

CONSTANTS
  Clients,      \* callers of ensureAccountReady
  Accounts,     \* what they may have funded
  AccountOf,    \* AccountOf[c]: the account of client c
  Aborting,     \* those that pass an AbortSignal
  RequestTime   \* REQUEST_MS, in ticks

ASSUME ClientsAssumption == /\ Aborting \subseteq Clients
                            /\ AccountOf \in [Clients -> Accounts]
ASSUME RequestAssumption == RequestTime \in Nat \ {0}

VARIABLES
  up,       \* a network answers at the URL the clients use
  account,  \* how far each account has come on that network
  ask       \* the call of each client

readinessVars == <<up, account, ask>>

(* pending: the creation is submitted; included: it is in the ledger;      *)
(* visible: the RPC shows it.                                              *)
AccountStates == {"absent", "pending", "included", "visible"}

Asking   == {"read", "fund", "pause"}
Answered == {"confirmed", "refused", "late", "cancelled"}

(* lost: a funding request got no final answer, though it may have worked. *)
(* exists: friendbot refused because the account is there already.         *)
Call == [pc : {"idle"} \cup Asking \cup Answered, clock : Nat, until : Nat,
         funded : BOOLEAN, aborted : BOOLEAN, lost : BOOLEAN, exists : BOOLEAN]

(* How far the account of client c has come.                               *)
Stands(c) == account[AccountOf[c]]
Becomes(c, standing) == account' = [account EXCEPT ![AccountOf[c]] = standing]

NotAsked == [pc |-> "idle", clock |-> 0, until |-> 0, funded |-> FALSE,
             aborted |-> FALSE, lost |-> FALSE, exists |-> FALSE]

Smaller(a, b) == IF a < b THEN a ELSE b

(* AbortSignal.timeout: what is left of the time to the deadline, at most. *)
Timeout(limit, left) == Smaller(limit, left)

-----------------------------------------------------------------------------
InitReadiness == /\ account = [a \in Accounts |-> "absent"]
                 /\ ask = [c \in Clients |-> NotAsked]

(* A call at some time, with DEADLINE_MS in ticks.                         *)
Asked(at, time) == [NotAsked EXCEPT !.pc = "read", !.clock = at, !.until = at + time]

\* Bug: nothing looks at the deadline.
BugNoDeadline(c, t) == TRUE
InTime(c, t) == t < ask[c].until

(* After an answer at time t: an abort ends the call, and past the         *)
(* deadline there is neither a request nor a pause any more.               *)
Proceed(c, t, step) == IF ask[c].aborted THEN "cancelled"
                       ELSE IF InTime(c, t) THEN step ELSE "late"

Instants(c) == LET k == ask[c] IN {k.clock + d : d \in 0..Timeout(RequestTime, k.until - k.clock)}

(* getLedgerEntries returns the account: it is ready, aborted or not.      *)
ReadPresent(c) ==
  /\ ask[c].pc = "read"
  /\ up /\ Stands(c) = "visible"
  /\ \E t \in Instants(c) :
       ask' = [ask EXCEPT ![c].pc = "confirmed", ![c].clock = t]
  /\ UNCHANGED <<up, account>>

(* It returns no entry: unless friendbot has answered before, it is asked. *)
ReadAbsent(c) ==
  /\ ask[c].pc = "read"
  /\ up /\ Stands(c) # "visible"
  /\ \E t \in Instants(c) :
       ask' = [ask EXCEPT ![c].pc = Proceed(c, t, IF ask[c].funded THEN "pause" ELSE "fund"),
                          ![c].clock = t]
  /\ UNCHANGED <<up, account>>

(* friendbot creates the account and says so.                              *)
\* Bugs: an accepted request is forgotten; it counts as readiness.
BugForgotten(c, t) == [ask[c] EXCEPT !.pc = Proceed(c, t, "pause"), !.clock = t]
BugAccepted(c, t)  == [ask[c] EXCEPT !.pc = "confirmed", !.clock = t, !.funded = TRUE]
Accepted(c, t)     == [ask[c] EXCEPT !.pc = Proceed(c, t, "pause"), !.clock = t, !.funded = TRUE]

FundAccepted(c) ==
  /\ ask[c].pc = "fund"
  /\ up /\ Stands(c) \in {"absent", "pending"}
  /\ \E t \in Instants(c) : ask' = [ask EXCEPT ![c] = Accepted(c, t)]
  /\ Becomes(c, "included")
  /\ UNCHANGED up

(* An account that exists, or is created while the request waits, is       *)
(* refused with HTTP 400, which no retry follows.                          *)
FundRefused(c) ==
  /\ ask[c].pc = "fund"
  /\ up /\ Stands(c) # "absent"
  /\ \E t \in Instants(c) :
       ask' = [ask EXCEPT ![c].pc = IF ask[c].aborted THEN "cancelled" ELSE "refused",
                          ![c].clock = t, ![c].exists = TRUE]
  /\ Becomes(c, IF Stands(c) = "pending" THEN "included" ELSE Stands(c))
  /\ UNCHANGED up

(* Timeouts, broken connections, HTTP 429 and 5xx: the next round repeats  *)
(* the read.  A funding request may have had its effect.                   *)
Effects(c) == IF ask[c].pc = "fund" /\ up /\ Stands(c) = "absent"
                THEN {"absent", "pending", "included"} ELSE {Stands(c)}

RequestLost(c) ==
  /\ ask[c].pc \in {"read", "fund"}
  /\ \E t \in Instants(c) :
       ask' = [ask EXCEPT ![c].pc = Proceed(c, t, "pause"), ![c].clock = t,
                          ![c].lost = @ \/ ask[c].pc = "fund"]
  /\ \E effect \in Effects(c) : Becomes(c, effect)
  /\ UNCHANGED up

(* Any other HTTP status, an RPC error, an invalid or unrelated answer.    *)
RequestRefused(c) ==
  /\ ask[c].pc \in {"read", "fund"}
  /\ up
  /\ \E t \in Instants(c) :
       ask' = [ask EXCEPT ![c].pc = IF ask[c].aborted THEN "cancelled" ELSE "refused",
                          ![c].clock = t]
  /\ UNCHANGED <<up, account>>

(* setTimeout between two rounds, then the condition of the loop.          *)
Pause(c) ==
  /\ ask[c].pc = "pause"
  /\ ~ask[c].aborted
  /\ LET t == ask[c].clock + Timeout(1, ask[c].until - ask[c].clock)
     IN ask' = [ask EXCEPT ![c].pc = Proceed(c, t, "read"), ![c].clock = t]
  /\ UNCHANGED <<up, account>>

(* The signal cancels a request under way and a pause.                     *)
Cancel(c) ==
  /\ ask[c].pc \in Asking
  /\ ask[c].aborted
  /\ ask' = [ask EXCEPT ![c].pc = "cancelled"]
  /\ UNCHANGED <<up, account>>

Ask(c) == \/ ReadPresent(c) \/ ReadAbsent(c) \/ FundAccepted(c) \/ FundRefused(c)
          \/ RequestLost(c) \/ RequestRefused(c) \/ Pause(c) \/ Cancel(c)

-----------------------------------------------------------------------------
(* The caller and the network                                               *)

Abort(c) ==
  /\ c \in Aborting
  /\ ask[c].pc \in Asking
  /\ ~ask[c].aborted
  /\ ask' = [ask EXCEPT ![c].aborted = TRUE]
  /\ UNCHANGED <<up, account>>

Include(a) ==
  /\ up /\ account[a] = "pending"
  /\ account' = [account EXCEPT ![a] = "included"]
  /\ UNCHANGED <<up, ask>>

Show(a) ==
  /\ up /\ account[a] = "included"
  /\ account' = [account EXCEPT ![a] = "visible"]
  /\ UNCHANGED <<up, ask>>
=============================================================================
