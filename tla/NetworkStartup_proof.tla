------------------------ MODULE NetworkStartup_proof ------------------------
(***************************************************************************)
(* The safety of a start, for any number of starts and measurements and    *)
(* any deadlines and timeouts.  The invariant follows each client's call   *)
(* of ensureAccountReady (Calls) and each script (Scripts).                *)
(***************************************************************************)
EXTENDS NetworkStartup, TLAPS

-----------------------------------------------------------------------------
(* ensureAccountReady                                                       *)

ReadyTyped == /\ up \in BOOLEAN
              /\ account \in [Accounts -> AccountStates]
              /\ ask \in [Clients -> Call]

(* A call asks for funds only while no request has been accepted, and      *)
(* nothing has happened to one that has not begun.                         *)
CallOf(k) ==
  /\ k.clock <= k.until
  /\ k.pc = "fund" => ~k.funded
  /\ k.pc = "idle" => ~k.lost /\ ~k.funded

CallInv(c) == CallOf(ask[c])

(* No request outlasts the deadline.                                       *)
LEMMA TimeoutBounded ==
  ASSUME NEW limit \in Nat, NEW clock \in Nat, NEW until \in Nat, clock <= until,
         NEW d \in 0..Timeout(limit, until - clock)
  PROVE  clock + d \in Nat /\ clock + d <= until
BY DEF Timeout, Smaller

LEMMA InstantsBounded ==
  ASSUME NEW c \in Clients, ReadyTyped, CallInv(c), NEW t \in Instants(c)
  PROVE  t \in Nat /\ t <= ask[c].until
<1>1. ask[c].clock \in Nat /\ ask[c].until \in Nat /\ ask[c].clock <= ask[c].until
  BY DEF ReadyTyped, Call, CallInv, CallOf
<1>2. PICK d \in 0..Timeout(RequestTime, ask[c].until - ask[c].clock) : t = ask[c].clock + d
  BY DEF Instants
<1> QED
  BY <1>1, <1>2, TimeoutBounded, RequestAssumption

LEMMA ProceedChoice ==
  ASSUME NEW c, NEW t, NEW step
  PROVE  Proceed(c, t, step) \in {"cancelled", "late", step}
BY DEF Proceed

LEMMA BecomesEffect ==
  ASSUME NEW c \in Clients, NEW standing \in AccountStates,
         account \in [Accounts -> AccountStates], Becomes(c, standing)
  PROVE  /\ account' \in [Accounts -> AccountStates]
         /\ Stands(c)' = standing
         /\ \A a \in Accounts \ {AccountOf[c]} : account'[a] = account[a]
BY ClientsAssumption DEF Becomes, Stands

(* A step of a call keeps its invariant, its type and its deadline, and    *)
(* touches nothing of the other calls and accounts.  It forgets neither    *)
(* funding nor a loss; if it makes the account appear, it is one of these. *)
AskStep(c) ==
  /\ ReadyTyped'
  /\ CallInv(c)'
  /\ ask[c].pc \in Asking
  /\ ask'[c].until = ask[c].until
  /\ ask'[c].pc # "idle"
  /\ ask'[c].pc = "confirmed" => Stands(c)' = "visible"
  /\ up' = up
  /\ Stands(c) = "visible" => Stands(c)' = "visible"
  /\ ask[c].lost => ask'[c].lost
  /\ ask[c].funded => ask'[c].funded
  /\ ask'[c].exists => ask[c].exists \/ (Stands(c) # "absent" /\ ~ask[c].funded)
  /\ Stands(c)' # "absent" => Stands(c) # "absent" \/ ask'[c].lost \/ ask'[c].funded
  /\ \A d \in Clients \ {c} : ask'[d] = ask[d]
  /\ \A a \in Accounts \ {AccountOf[c]} : account'[a] = account[a]

(* The call of c goes on with other values of its fields.                  *)
Onward(c, pc, t, funded, lost, exists) ==
  [ask[c] EXCEPT !.pc = pc, !.clock = t, !.funded = funded, !.lost = lost, !.exists = exists]

LEMMA CallGoesOn ==
  ASSUME NEW c \in Clients, ReadyTyped, CallInv(c), NEW t \in Instants(c),
         NEW pc \in Asking \cup Answered,
         NEW funded \in BOOLEAN, NEW lost \in BOOLEAN, NEW exists \in BOOLEAN,
         ask' = [ask EXCEPT ![c] = Onward(c, pc, t, funded, lost, exists)],
         account' \in [Accounts -> AccountStates], up' = up,
         \A a \in Accounts \ {AccountOf[c]} : account'[a] = account[a],
         Stands(c) = "visible" => Stands(c)' = "visible",
         ask[c].pc \in Asking, pc = "fund" => ~funded,
         ask[c].lost => lost, ask[c].funded => funded,
         exists => ask[c].exists \/ (Stands(c) # "absent" /\ ~ask[c].funded),
         Stands(c)' # "absent" => Stands(c) # "absent" \/ lost \/ funded,
         pc = "confirmed" => Stands(c)' = "visible"
  PROVE  AskStep(c)
<1> DEFINE n == Onward(c, pc, t, funded, lost, exists)
<1>1. ask[c] \in Call
  BY DEF ReadyTyped
<1>2. t \in Nat /\ t <= ask[c].until
  BY InstantsBounded
<1>3. n \in Call
  BY <1>1, <1>2 DEF Onward, Call
<1>4. /\ n.pc = pc /\ n.clock = t /\ n.until = ask[c].until
      /\ n.funded = funded /\ n.lost = lost /\ n.exists = exists
  BY <1>1 DEF Onward, Call
<1> HIDE DEF n
<1>5. ask' \in [Clients -> Call] /\ ask'[c] = n /\ \A d \in Clients \ {c} : ask'[d] = ask[d]
  BY <1>3 DEF ReadyTyped, n
<1>6. ReadyTyped'
  BY <1>5 DEF ReadyTyped
<1>7. CallInv(c)'
  BY <1>2, <1>4, <1>5 DEF CallInv, CallOf, Asking, Answered
<1>8. ask'[c].pc # "idle"
  BY <1>4, <1>5 DEF Asking, Answered
<1> QED
  BY <1>4, <1>5, <1>6, <1>7, <1>8 DEF AskStep

LEMMA AskSteps ==
  ASSUME NEW c \in Clients, ReadyTyped, CallInv(c), Ask(c)
  PROVE  AskStep(c)
<1>0. /\ ask[c] \in Call /\ Stands(c) \in AccountStates
      /\ account \in [Accounts -> AccountStates]
      /\ {ask[c].funded, ask[c].lost, ask[c].exists} \subseteq BOOLEAN
  BY ClientsAssumption DEF ReadyTyped, Call, Stands
<1>a. ask[c].pc = "fund" => ~ask[c].funded
  BY DEF CallInv, CallOf
<1>b. ask[c].pc \in Asking
  BY DEF Ask, ReadPresent, ReadAbsent, FundAccepted, FundRefused, RequestLost, RequestRefused,
         Pause, Cancel, Asking
<1>c. account' = account => Stands(c)' = Stands(c)
  BY DEF Stands
<1>1. CASE ReadPresent(c)
  <2>1. PICK t \in Instants(c) : ask' = [ask EXCEPT ![c].pc = "confirmed", ![c].clock = t]
    BY <1>1 DEF ReadPresent
  <2>2. ask' = [ask EXCEPT ![c] = Onward(c, "confirmed", t, ask[c].funded, ask[c].lost, ask[c].exists)]
    BY <1>0, <2>1 DEF ReadyTyped, Call, Onward
  <2> QED
    BY <1>0, <1>1, <1>b, <1>c, <2>2, CallGoesOn DEF ReadPresent, Asking, Answered
<1>2. CASE ReadAbsent(c)
  <2> DEFINE step == IF ask[c].funded THEN "pause" ELSE "fund"
  <2>1. PICK t \in Instants(c) :
          ask' = [ask EXCEPT ![c].pc = Proceed(c, t, step), ![c].clock = t]
    BY <1>2 DEF ReadAbsent
  <2>2. PICK pc \in {"cancelled", "late", step} : pc = Proceed(c, t, step)
    BY ProceedChoice
  <2>3. ask' = [ask EXCEPT ![c] = Onward(c, pc, t, ask[c].funded, ask[c].lost, ask[c].exists)]
    BY <1>0, <2>1, <2>2 DEF ReadyTyped, Call, Onward
  <2> QED
    BY <1>0, <1>2, <1>b, <1>c, <2>2, <2>3, CallGoesOn DEF ReadAbsent, Asking, Answered
<1>3. CASE FundAccepted(c)
  <2>1. PICK t \in Instants(c) : ask' = [ask EXCEPT ![c] = Accepted(c, t)]
    BY <1>3 DEF FundAccepted
  <2>2. PICK pc \in {"cancelled", "late", "pause"} : pc = Proceed(c, t, "pause")
    BY ProceedChoice
  <2>3. ask' = [ask EXCEPT ![c] = Onward(c, pc, t, TRUE, ask[c].lost, ask[c].exists)]
    BY <1>0, <2>1, <2>2 DEF ReadyTyped, Call, Onward, Accepted
  <2>4. /\ account' \in [Accounts -> AccountStates] /\ Stands(c) # "visible" /\ up' = up
        /\ \A a \in Accounts \ {AccountOf[c]} : account'[a] = account[a]
    BY <1>0, <1>3, BecomesEffect DEF FundAccepted, AccountStates
  <2> QED
    BY <1>0, <1>a, <1>b, <1>c, <2>2, <2>3, <2>4, CallGoesOn DEF Asking, Answered
<1>4. CASE FundRefused(c)
  <2>1. PICK t \in Instants(c), pc \in {"cancelled", "refused"} :
          ask' = [ask EXCEPT ![c].pc = pc, ![c].clock = t, ![c].exists = TRUE]
    BY <1>4 DEF FundRefused
  <2>2. ask' = [ask EXCEPT ![c] = Onward(c, pc, t, ask[c].funded, ask[c].lost, TRUE)]
    BY <1>0, <2>1 DEF ReadyTyped, Call, Onward
  <2>3. /\ account' \in [Accounts -> AccountStates] /\ (Stands(c) = "visible" => Stands(c)' = "visible")
        /\ up' = up /\ \A a \in Accounts \ {AccountOf[c]} : account'[a] = account[a]
    <3> DEFINE standing == IF Stands(c) = "pending" THEN "included" ELSE Stands(c)
    <3>1. standing \in AccountStates /\ (Stands(c) = "visible" => standing = "visible")
      BY <1>0 DEF AccountStates
    <3>2. Becomes(c, standing) /\ up' = up
      BY <1>4 DEF FundRefused
    <3> HIDE DEF standing
    <3> QED
      BY <1>0, <3>1, <3>2, BecomesEffect
  <2>4. Stands(c) # "absent" /\ ~ask[c].funded
    BY <1>4, <1>a DEF FundRefused
  <2>5. pc \in Asking \cup Answered /\ pc \notin Asking /\ pc \notin {"fund", "confirmed"}
    BY DEF Asking, Answered
  <2> QED
    BY <1>0, <1>b, <2>2, <2>3, <2>4, <2>5, CallGoesOn
<1>5. CASE RequestLost(c)
  <2> DEFINE lost == ask[c].lost \/ ask[c].pc = "fund"
  <2>1. PICK t \in Instants(c) :
          ask' = [ask EXCEPT ![c].pc = Proceed(c, t, "pause"), ![c].clock = t,
                             ![c].lost = @ \/ ask[c].pc = "fund"]
    BY <1>5 DEF RequestLost
  <2>2. PICK pc \in {"cancelled", "late", "pause"} : pc = Proceed(c, t, "pause")
    BY ProceedChoice
  <2>3. ask' = [ask EXCEPT ![c] = Onward(c, pc, t, ask[c].funded, lost, ask[c].exists)]
    BY <1>0, <2>1, <2>2 DEF ReadyTyped, Call, Onward
  <2>4. PICK effect \in Effects(c) : Becomes(c, effect)
    BY <1>5 DEF RequestLost
  <2>5. /\ effect \in AccountStates
        /\ Stands(c) # "absent" \/ ask[c].pc # "fund" => effect = Stands(c)
    BY <1>0 DEF Effects, AccountStates
  <2>6. /\ account' \in [Accounts -> AccountStates] /\ Stands(c)' = effect /\ up' = up
        /\ \A a \in Accounts \ {AccountOf[c]} : account'[a] = account[a]
    BY <1>0, <1>5, <2>4, <2>5, BecomesEffect DEF RequestLost
  <2>7. pc \in Asking \cup Answered /\ pc # "fund" /\ pc # "confirmed" /\ lost \in BOOLEAN
    BY <1>0, <2>2 DEF Asking, Answered
  <2>8. /\ ask[c].lost => lost
        /\ Stands(c)' # "absent" => Stands(c) # "absent" \/ lost
        /\ Stands(c) = "visible" => Stands(c)' = "visible"
    BY <2>5, <2>6
  <2> HIDE DEF lost
  <2> QED
    BY <1>0, <1>b, <2>3, <2>6, <2>7, <2>8, CallGoesOn
<1>6. CASE RequestRefused(c)
  <2>1. PICK t \in Instants(c), pc \in {"cancelled", "refused"} :
          ask' = [ask EXCEPT ![c].pc = pc, ![c].clock = t]
    BY <1>6 DEF RequestRefused
  <2>2. ask' = [ask EXCEPT ![c] = Onward(c, pc, t, ask[c].funded, ask[c].lost, ask[c].exists)]
    BY <1>0, <2>1 DEF ReadyTyped, Call, Onward
  <2>3. pc \in Asking \cup Answered /\ pc \notin Asking /\ pc \notin {"fund", "confirmed"}
    BY DEF Asking, Answered
  <2>4. up' = up /\ account' = account
    BY <1>6 DEF RequestRefused
  <2> QED
    BY <1>0, <1>a, <1>b, <1>c, <2>2, <2>3, <2>4, CallGoesOn
<1>7. CASE Pause(c)
  <2> DEFINE t == ask[c].clock + Timeout(1, ask[c].until - ask[c].clock)
  <2>1. PICK pc \in {"cancelled", "late", "read"} : pc = Proceed(c, t, "read")
    BY ProceedChoice
  <2>2. ask' = [ask EXCEPT ![c] = Onward(c, pc, t, ask[c].funded, ask[c].lost, ask[c].exists)]
    BY <1>0, <1>7, <2>1 DEF Pause, ReadyTyped, Call, Onward
  <2>3. t \in Instants(c)
    BY <1>0, RequestAssumption DEF CallInv, CallOf, Call, Instants, Timeout, Smaller
  <2>4. pc \in Asking \cup Answered /\ pc \notin {"fund", "confirmed"}
    BY <2>1 DEF Asking, Answered
  <2>5. up' = up /\ account' = account
    BY <1>7 DEF Pause
  <2> HIDE DEF t
  <2> QED
    BY <1>0, <1>a, <1>b, <1>c, <2>2, <2>3, <2>4, <2>5, CallGoesOn
<1>8. CASE Cancel(c)
  <2>1. ask' = [ask EXCEPT ![c] = Onward(c, "cancelled", ask[c].clock, ask[c].funded, ask[c].lost, ask[c].exists)]
    BY <1>0, <1>8 DEF Cancel, ReadyTyped, Call, Onward
  <2>2. ask[c].clock \in Instants(c)
    BY <1>0, RequestAssumption DEF CallInv, CallOf, Call, Instants, Timeout, Smaller
  <2>3. "cancelled" \in Asking \cup Answered /\ "cancelled" \notin Asking
    BY DEF Asking, Answered
  <2>4. up' = up /\ account' = account
    BY <1>8 DEF Cancel
  <2> QED
    BY <1>0, <1>a, <1>b, <1>c, <2>1, <2>2, <2>3, <2>4, CallGoesOn
<1> QED
  BY <1>1, <1>2, <1>3, <1>4, <1>5, <1>6, <1>7, <1>8 DEF Ask

-----------------------------------------------------------------------------
(* The scripts                                                              *)

Early   == Unowned \cup {"run", "health"}
Served  == {"account", "config", "ready", "ok", "cut"}
Shown   == {"config", "ready", "ok", "cut"}
Success == {"ready", "ok", "cut"}

(* What a script that still has its container has seen of its network.     *)
OwnOf(s, p, k) ==
  /\ p.pc \notin Unowned \cup {"killed"}
  /\ p.pc = "run" => p.started
  /\ p.pc = "failed" => p.warned \/ ~p.known
  /\ p.pc \in Served => net.healthy
  /\ p.pc \in Shown => Stands(s) = "visible"
  /\ p.pc \in Success => net.config
  /\ k.pc = "confirmed" => Stands(s) = "visible"

(* An execution p of the script s, whose call of ensureAccountReady is k.  *)
ScriptOf(s, p, k) ==
  /\ p.clock <= cast.health
  /\ k.until <= cast.health + cast.readiness
  /\ p.pc \in Early => Stands(s) = "absent"
  /\ p.pc \in Unowned \cup {"run"} => ~p.known
  /\ p.pc # "account" => k.pc = "idle"
  /\ p.pc = "remove" => MayReplace(s, p.seen)
  /\ k.exists => k.lost
  /\ k.pc \in Asking /\ Stands(s) # "absent" => k.lost \/ k.funded
  /\ container = s => OwnOf(s, p, k)

ScriptInv(s) == ScriptOf(s, proc[s], ask[s])

Typed == /\ ReadyTyped
         /\ cast \in Casts
         /\ container \in Holders
         /\ net \in [healthy : BOOLEAN, config : BOOLEAN]
         /\ proc \in [Starters -> Process]

(* A measurement's account is there only after one of its clients had it   *)
(* funded or lost an answer, and who was refused because of it was not the *)
(* one that had it funded.                                                 *)
Touched(c) == \E d \in Clients : /\ AccountOf[d] = AccountOf[c]
                                 /\ ask[d].lost \/ ask[d].funded
Blamed(c) == \E d \in Clients : /\ AccountOf[d] = AccountOf[c]
                                /\ ask[d].lost \/ (d # c /\ ask[d].funded)

MeasureInv(c) == /\ Stands(c) # "absent" => Touched(c)
                 /\ ask[c].exists => Blamed(c)

(* The inductive invariant.                                                *)
IInv == /\ Typed
        /\ \A c \in Clients : CallInv(c)
        /\ \A c \in Clients \ Starters : MeasureInv(c)
        /\ \A s \in Starters : ScriptInv(s)

LEMMA CastNumbers ==
  ASSUME Typed
  PROVE  cast.health \in Nat /\ cast.readiness \in Nat
BY StartersAssumption DEF Typed, IsCast

LEMMA StarterNames ==
  ASSUME NEW s \in Starters
  PROVE  s \in Clients /\ s \notin Aborting /\ s \notin {"none", "foreign", "earlier"} /\ s \in Owned
BY StartersAssumption DEF Owned

(* How a step of somebody else may change the network under a client: it   *)
(* goes on as it is, or the client has lost it.                            *)
Calm(c) ==
  \/ /\ container' = container
     /\ net.healthy => net'.healthy
     /\ net.config => net'.config
     /\ Stands(c) = "visible" => Stands(c)' = "visible"
     /\ (Stands(c) = "absent") = (Stands(c)' = "absent")
  \/ (c \in Starters => container' # c) /\ Stands(c)' = "absent"

(* What every step keeps of a measurement.                                 *)
Counts(c) ==
  /\ ask[c].lost => ask'[c].lost
  /\ ask[c].funded => ask'[c].funded
  /\ ask'[c].exists => ask[c].exists \/ (Stands(c) # "absent" /\ ~ask[c].funded)
  /\ Stands(c)' # "absent" => Stands(c) # "absent" \/ Touched(c)'

LEMMA CalmCounts ==
  ASSUME NEW c \in Clients, Calm(c), ask'[c] = ask[c]
  PROVE  Counts(c)
BY DEF Calm, Counts

LEMMA MeasuresKept ==
  ASSUME IInv, NEW c \in Clients \ Starters, \A d \in Clients \ Starters : Counts(d)
  PROVE  MeasureInv(c)'
<1>1. \A d \in Clients : AccountOf[d] = AccountOf[c] => d \notin Starters
  BY OwnAccounts
<1>2. MeasureInv(c) /\ Counts(c)
  BY DEF IInv
<1>3. Touched(c) => Touched(c)'
  BY <1>1 DEF Touched, Counts
<1>4. Blamed(c) => Blamed(c)'
  BY <1>1 DEF Blamed, Counts
<1>5. Touched(c) /\ ~ask[c].funded => Blamed(c)
  BY DEF Touched, Blamed
<1> QED
  BY <1>2, <1>3, <1>4, <1>5 DEF MeasureInv, Counts

LEMMA Bystanders ==
  ASSUME IInv, NEW s \in Starters, Calm(s), ask'[s] = ask[s], cast' = cast, proc'[s] = proc[s]
  PROVE  ScriptInv(s)'
BY DEF IInv, ScriptInv, ScriptOf, OwnOf, MayReplace, Calm

(* A step of x that leaves everybody else calm, or a measurement with the  *)
(* account of x better off.                                                *)
LEMMA OneActs ==
  ASSUME IInv, NEW x \in Clients, Typed', cast' = cast,
         \A c \in Clients \ {x} : /\ ask'[c] = ask[c]
                                  /\ Calm(c) \/ (c \notin Starters /\ Counts(c)),
         \A s \in Starters \ {x} : proc'[s] = proc[s],
         CallInv(x)',
         x \notin Starters => Counts(x),
         x \in Starters => ScriptInv(x)'
  PROVE  IInv'
<1>1. \A c \in Clients \ Starters : Counts(c)
  BY CalmCounts
<1>2. \A c \in Clients \ Starters : MeasureInv(c)'
  BY <1>1, MeasuresKept
<1>3. \A s \in Starters : ScriptInv(s)'
  BY Bystanders, StarterNames
<1>4. \A c \in Clients : CallInv(c)'
  BY DEF IInv, CallInv, CallOf
<1> QED
  BY <1>2, <1>3, <1>4 DEF IInv

(* A step of nobody.                                                       *)
LEMMA NobodyActs ==
  ASSUME IInv, Typed', cast' = cast, ask' = ask, proc' = proc, \A c \in Clients : Calm(c)
  PROVE  IInv'
<1>1. \A c \in Clients \ Starters : Counts(c)
  BY CalmCounts
<1>2. \A c \in Clients \ Starters : MeasureInv(c)'
  BY <1>1, MeasuresKept
<1>3. \A s \in Starters : ScriptInv(s)'
  BY Bystanders, StarterNames
<1>4. \A c \in Clients : CallInv(c)'
  BY DEF IInv, CallInv, CallOf
<1> QED
  BY <1>2, <1>3, <1>4 DEF IInv

LEMMA SameIsCalm ==
  ASSUME SameNetwork, NEW c
  PROVE  Calm(c)
BY DEF SameNetwork, Calm, Stands

LEMMA HoldIsCalm ==
  ASSUME NEW h, Hold(h), NEW c \in Clients, h # c \/ c \notin Starters
  PROVE  Calm(c)
BY ClientsAssumption DEF Hold, Calm, Stands

LEMMA HoldTyped ==
  ASSUME Typed, NEW h \in Holders, Hold(h), ask' = ask, cast' = cast, proc' \in [Starters -> Process]
  PROVE  Typed'
BY DEF Typed, Hold, ReadyTyped, Fresh, AccountStates

(* The script s goes on as p, its call as k, on the same network.          *)
LEMMA ScriptMoves ==
  ASSUME IInv, NEW s \in Starters, NEW p \in Process, NEW k \in Call,
         proc' = [proc EXCEPT ![s] = p], ask' = [ask EXCEPT ![s] = k],
         SameNetwork, cast' = cast, CallOf(k), ScriptOf(s, p, k)
  PROVE  IInv'
<1>1. /\ ask' \in [Clients -> Call] /\ ask'[s] = k /\ \A c \in Clients \ {s} : ask'[c] = ask[c]
      /\ proc' \in [Starters -> Process] /\ proc'[s] = p /\ \A r \in Starters \ {s} : proc'[r] = proc[r]
  BY StarterNames DEF IInv, Typed, ReadyTyped
<1>2. Typed'
  BY <1>1 DEF IInv, Typed, ReadyTyped, SameNetwork
<1>3. CallInv(s)'
  BY <1>1 DEF CallInv, CallOf, SameNetwork
<1>4. ScriptInv(s)'
  BY <1>1 DEF ScriptInv, ScriptOf, OwnOf, MayReplace, SameNetwork, Stands
<1> QED
  BY <1>1, <1>2, <1>3, <1>4, OneActs, SameIsCalm, StarterNames

(* The same, for a step that leaves the call alone.                        *)
LEMMA ScriptGoesOn ==
  ASSUME IInv, NEW s \in Starters, NEW p \in Process, proc' = [proc EXCEPT ![s] = p],
         UNCHANGED <<ask, cast>>, SameNetwork, ScriptOf(s, p, ask[s])
  PROVE  IInv'
<1>1. ask[s] \in Call /\ ask' = [ask EXCEPT ![s] = ask[s]]
  BY StarterNames DEF IInv, Typed, ReadyTyped
<1>2. CallOf(ask[s])
  BY StarterNames DEF IInv, CallInv
<1> QED
  BY <1>1, <1>2, ScriptMoves

(* The container changes hands with it.                                    *)
LEMMA ScriptHolds ==
  ASSUME IInv, NEW s \in Starters, NEW p \in Process, NEW h \in {"none", s},
         proc' = [proc EXCEPT ![s] = p], UNCHANGED <<ask, cast>>, Hold(h),
         p.clock <= cast.health, p.pc \in {"run", "failed"},
         p.pc = "run" => ~p.known, ask[s].pc = "idle",
         h = s => p.pc = "run" /\ p.started
  PROVE  IInv'
<1>1. proc' \in [Starters -> Process] /\ proc'[s] = p /\ \A r \in Starters \ {s} : proc'[r] = proc[r]
  BY DEF IInv, Typed
<1>2. Typed'
  BY <1>1, HoldTyped DEF IInv, Holders
<1>3. CallInv(s)' /\ Stands(s)' = "absent"
  BY StarterNames, ClientsAssumption DEF IInv, CallInv, CallOf, Hold, Stands
<1>4. ScriptInv(s)'
  BY <1>1, <1>3, StarterNames
  DEF IInv, ScriptInv, ScriptOf, OwnOf, Hold, Early, Unowned, Served, Shown, Success
<1>5. ASSUME NEW c \in Clients \ {s} PROVE Calm(c)
  <2>1. h # c \/ c \notin Starters
    BY StarterNames
  <2> QED
    BY <2>1, HoldIsCalm
<1> QED
  BY <1>1, <1>2, <1>3, <1>4, <1>5, OneActs, StarterNames

-----------------------------------------------------------------------------
(* One lemma per kind of step                                               *)

(* Steps that only move the program counter, before the wait and after it. *)
LEMMA Moved ==
  ASSUME IInv, NEW s \in Starters, NEW pc \in Unowned \cup Running \cup {"ready"} \cup Cleanup \cup Ended,
         Goto(s, pc)
  PROVE  /\ proc[s] \in Process
         /\ [proc[s] EXCEPT !.pc = pc] \in Process
         /\ [proc[s] EXCEPT !.pc = pc].pc = pc
         /\ [proc[s] EXCEPT !.pc = pc].clock = proc[s].clock
         /\ [proc[s] EXCEPT !.pc = pc].seen = proc[s].seen
         /\ [proc[s] EXCEPT !.pc = pc].started = proc[s].started
         /\ [proc[s] EXCEPT !.pc = pc].known = proc[s].known
         /\ [proc[s] EXCEPT !.pc = pc].warned = proc[s].warned
         /\ proc' = [proc EXCEPT ![s] = [proc[s] EXCEPT !.pc = pc]]
<1>1. proc[s] \in Process
  BY DEF IInv, Typed
<1> QED
  BY <1>1 DEF Process, Goto

LEMMA PcMoves ==
  ASSUME IInv, NEW s \in Starters, NEW pc \in Unowned \cup Running \cup {"ready"} \cup Cleanup \cup Ended,
         Goto(s, pc), UNCHANGED <<ask, cast>>, SameNetwork, pc # "remove",
         proc[s].pc # "account", pc \in Early => proc[s].pc \in Early,
         pc \in Unowned \cup {"run"} => ~proc[s].known,
         container = s => OwnOf(s, [proc[s] EXCEPT !.pc = pc], ask[s])
  PROVE  IInv'
<1> DEFINE p == [proc[s] EXCEPT !.pc = pc]
<1>1. /\ p \in Process /\ proc' = [proc EXCEPT ![s] = p]
      /\ p.pc = pc /\ p.clock = proc[s].clock /\ p.known = proc[s].known
  BY Moved
<1>2. ScriptInv(s)
  BY DEF IInv
<1>3. container = s => OwnOf(s, p, ask[s])
  OBVIOUS
<1> HIDE DEF p
<1>4. ScriptOf(s, p, ask[s])
  BY <1>1, <1>2, <1>3 DEF ScriptInv, ScriptOf
<1> QED
  BY <1>1, <1>4, ScriptGoesOn

(* Before docker run a script does not have the container.                 *)
LEMMA NotYet ==
  ASSUME IInv, NEW s \in Starters, proc[s].pc \in Unowned
  PROVE  container # s /\ ~proc[s].known /\ ask[s].pc = "idle"
BY DEF IInv, ScriptInv, ScriptOf, OwnOf, Unowned

LEMMA ListStep ==
  ASSUME IInv, NEW s \in Starters, List(s)
  PROVE  IInv'
<1>1. proc[s].pc = "idle" /\ SameNetwork /\ UNCHANGED <<ask, cast>>
  BY DEF List, At
<1>2. PICK pc \in {"run", "inspect", "failed"} : Goto(s, pc)
  BY DEF List
<1>3. pc \in Unowned \cup Running \cup {"ready"} \cup Cleanup \cup Ended
  BY DEF Unowned, Running, Ended
<1>4. proc[s].pc \in Unowned
  BY <1>1 DEF Unowned
<1> QED
  BY <1>1, <1>2, <1>3, <1>4, NotYet, PcMoves DEF Early

LEMMA InspectStep ==
  ASSUME IInv, NEW s \in Starters, Inspect(s)
  PROVE  IInv'
<1>1. proc[s].pc = "inspect" /\ SameNetwork /\ UNCHANGED <<ask, cast>>
  BY DEF Inspect, At
<1>2. proc[s].pc \in Unowned
  BY <1>1 DEF Unowned
<1>3. CASE Goto(s, "failed")
  <2>1. "failed" \in Unowned \cup Running \cup {"ready"} \cup Cleanup \cup Ended /\ "failed" \notin Early
        /\ "failed" \notin Unowned \cup {"run"}
    BY DEF Unowned, Running, Cleanup, Ended, Early
  <2> QED
    BY <1>1, <1>2, <1>3, <2>1, NotYet, PcMoves
<1>4. CASE /\ container # "none" /\ MayReplace(s, container)
           /\ proc' = [proc EXCEPT ![s].pc = "remove", ![s].seen = container]
  <2> DEFINE p == [proc[s] EXCEPT !.pc = "remove", !.seen = container]
  <2>1. proc[s] \in Process /\ container \in Holders
    BY DEF IInv, Typed
  <2>2. p \in Process /\ p.pc = "remove" /\ p.seen = container /\ p.clock = proc[s].clock /\ p.known = proc[s].known
    BY <2>1 DEF Process, Unowned
  <2>3. proc' = [proc EXCEPT ![s] = p]
    BY <1>4, <2>1 DEF IInv, Typed, Process
  <2>4. ScriptInv(s)
    BY DEF IInv
  <2> HIDE DEF p
  <2>5. ScriptOf(s, p, ask[s])
    BY <1>1, <1>2, <1>4, <2>2, <2>4, NotYet DEF ScriptInv, ScriptOf, Early, Unowned
  <2> QED
    BY <1>1, <2>2, <2>3, <2>5, ScriptGoesOn
<1> QED
  BY <1>3, <1>4 DEF Inspect

LEMMA RemoveStep ==
  ASSUME IInv, NEW s \in Starters, Remove(s)
  PROVE  IInv'
<1>1. proc[s].pc = "remove" /\ UNCHANGED <<ask, cast>> /\ proc[s].pc \in Unowned
  BY DEF Remove, At, Unowned
<1>2. CASE SameNetwork /\ Goto(s, "failed")
  <2>1. "failed" \in Unowned \cup Running \cup {"ready"} \cup Cleanup \cup Ended /\ "failed" \notin Early
        /\ "failed" \notin Unowned \cup {"run"}
    BY DEF Unowned, Running, Cleanup, Ended, Early
  <2> QED
    BY <1>1, <1>2, <2>1, NotYet, PcMoves
<1>3. CASE Hold("none") /\ proc' = [proc EXCEPT ![s].pc = "run", ![s].seen = "none"]
  <2>1. proc[s] \in Process
    BY DEF IInv, Typed
  <2>2. ScriptInv(s)
    BY DEF IInv
  <2> DEFINE p == [proc[s] EXCEPT !.pc = "run", !.seen = "none"]
  <2>3. /\ p \in Process /\ proc' = [proc EXCEPT ![s] = p]
        /\ p.pc = "run" /\ p.clock = proc[s].clock /\ p.known = proc[s].known
    BY <1>3, <2>1 DEF Process, Running, Holders
  <2> HIDE DEF p
  <2>4. p.clock <= cast.health /\ ~p.known /\ ask[s].pc = "idle"
    BY <1>1, <2>2, <2>3, NotYet DEF ScriptInv, ScriptOf
  <2> QED
    BY <1>1, <1>3, <2>3, <2>4, ScriptHolds, StarterNames
<1> QED
  BY <1>2, <1>3 DEF Remove

LEMMA StartStep ==
  ASSUME IInv, NEW s \in Starters, Start(s)
  PROVE  IInv'
<1>1. /\ proc[s].pc = "run" /\ Hold(s) /\ UNCHANGED <<ask, cast>>
      /\ proc' = [proc EXCEPT ![s].started = TRUE]
  BY DEF Start, At
<1>2. ScriptInv(s) /\ proc[s] \in Process
  BY DEF IInv, Typed
<1> DEFINE p == [proc[s] EXCEPT !.started = TRUE]
<1>3. /\ p \in Process /\ p.pc = "run" /\ p.started
      /\ p.clock = proc[s].clock /\ p.known = proc[s].known
  BY <1>1, <1>2 DEF Process
<1>4. proc' = [proc EXCEPT ![s] = p]
  BY <1>1, <1>2 DEF Process
<1> HIDE DEF p
<1>5. p.clock <= cast.health /\ ~p.known /\ ask[s].pc = "idle"
  BY <1>1, <1>2, <1>3 DEF ScriptInv, ScriptOf
<1> QED
  BY <1>1, <1>3, <1>4, <1>5, ScriptHolds

LEMMA StartedStep ==
  ASSUME IInv, NEW s \in Starters, Started(s)
  PROVE  IInv'
<1>1. proc[s].pc = "run" /\ SameNetwork /\ UNCHANGED <<ask, cast>>
  BY DEF Started, At
<1>2. ScriptInv(s) /\ proc[s] \in Process
  BY DEF IInv, Typed
<1>3. ~proc[s].known /\ ask[s].pc = "idle" /\ Stands(s) = "absent" /\ proc[s].clock <= cast.health
  BY <1>1, <1>2 DEF ScriptInv, ScriptOf, Early
<1>4. CASE Goto(s, "failed")
  <2>1. "failed" \in Unowned \cup Running \cup {"ready"} \cup Cleanup \cup Ended /\ "failed" \notin Early
        /\ "failed" \notin Unowned \cup {"run", "killed"} \cup Served \cup Shown \cup Success
    BY DEF Unowned, Running, Cleanup, Ended, Early, Served, Shown, Success
  <2>2. OwnOf(s, [proc[s] EXCEPT !.pc = "failed"], ask[s])
    BY <1>3, <1>4, <2>1, Moved DEF OwnOf
  <2> QED
    BY <1>1, <1>3, <1>4, <2>1, <2>2, PcMoves
<1>5. CASE /\ proc[s].started
           /\ proc' = [proc EXCEPT ![s].known = TRUE,
                         ![s].pc = IF proc[s].signalled THEN "logs" ELSE "health"]
  <2> DEFINE pc == IF proc[s].signalled THEN "logs" ELSE "health"
             p == [proc[s] EXCEPT !.known = TRUE, !.pc = pc]
  <2>1. pc \in {"logs", "health"}
    OBVIOUS
  <2> HIDE DEF pc
  <2>2. p \in Process /\ p.pc = pc /\ p.clock = proc[s].clock /\ p.known
    BY <1>2, <2>1 DEF Process, Running, Cleanup
  <2>3. proc' = [proc EXCEPT ![s] = p]
    BY <1>2, <1>5 DEF Process, pc
  <2> HIDE DEF p
  <2>4. OwnOf(s, p, ask[s])
    BY <1>3, <2>1, <2>2 DEF OwnOf, Unowned, Served, Shown, Success
  <2>5. ScriptOf(s, p, ask[s])
    BY <1>2, <1>3, <2>1, <2>2, <2>4 DEF ScriptInv, ScriptOf, Unowned
  <2> QED
    BY <1>1, <2>2, <2>3, <2>5, ScriptGoesOn
<1> QED
  BY <1>4, <1>5 DEF Started

(* The end of a wait: what is good is only what was seen.                  *)
LEMMA WaitEnded ==
  ASSUME IInv, NEW s \in Starters, NEW good \in BOOLEAN, WaitEnds(s, good),
         SameNetwork, cast' = cast, proc[s].pc \in Running,
         good => proc[s].pc = "config" /\ net.config
  PROVE  IInv'
<1>1. ScriptInv(s)
  BY DEF IInv
<1>2. cast.health \in Nat /\ cast.readiness \in Nat
  BY CastNumbers DEF IInv
<1> DEFINE p == [NotStarted EXCEPT !.pc = Outcome(s, good), !.known = TRUE]
<1>3. /\ p.pc \in {"ready", "logs"} /\ (p.pc = "ready" => good)
      /\ p.clock = 0 /\ p.known /\ p \in Process
  BY DEF NotStarted, Outcome, Process, Holders, Cleanup
<1>4. proc' = [proc EXCEPT ![s] = p] /\ ask' = [ask EXCEPT ![s] = NotAsked]
  BY DEF WaitEnds
<1> HIDE DEF p
<1>5. /\ NotAsked \in Call /\ CallOf(NotAsked) /\ NotAsked.until = 0
      /\ NotAsked.pc = "idle" /\ NotAsked.pc \notin Asking /\ ~NotAsked.exists
  BY DEF NotAsked, Call, CallOf, Asking
<1>6. ASSUME container = s PROVE OwnOf(s, p, NotAsked)
  <2>1. OwnOf(s, proc[s], ask[s])
    BY <1>1, <1>6 DEF ScriptInv, ScriptOf
  <2>2. good => net.healthy /\ Stands(s) = "visible"
    BY <2>1 DEF OwnOf, Served, Shown
  <2> QED
    BY <1>3, <1>5, <2>2 DEF OwnOf, Unowned, Served, Shown, Success
<1>7. ScriptOf(s, p, NotAsked)
  BY <1>2, <1>3, <1>5, <1>6 DEF ScriptOf, Early, Unowned
<1> QED
  BY <1>3, <1>4, <1>5, <1>7, ScriptMoves

LEMMA TimesBounded ==
  ASSUME IInv, NEW s \in Starters, NEW t \in Times(s)
  PROVE  t \in Nat /\ t <= cast.health
<1>1. proc[s].clock \in Nat /\ proc[s].clock <= cast.health /\ cast.health \in Nat
  BY CastNumbers DEF IInv, Typed, Process, ScriptInv, ScriptOf
<1>2. PICK d \in 0..Timeout(ProbeTime, cast.health - proc[s].clock) : t = proc[s].clock + d
  BY DEF Times, Deadline
<1> QED
  BY <1>1, <1>2, TimeoutBounded, ProbeAssumption

(* What a call starts with.                                                *)
LEMMA AskedFields ==
  ASSUME NEW at \in Nat, NEW time \in Nat
  PROVE  /\ Asked(at, time) \in Call
         /\ Asked(at, time).pc = "read"
         /\ Asked(at, time).clock = at
         /\ Asked(at, time).until = at + time
         /\ ~Asked(at, time).exists
<1> DEFINE until == at + time
<1>1. until \in Nat
  OBVIOUS
<1> HIDE DEF until
<1>2. Asked(at, time) = [NotAsked EXCEPT !.pc = "read", !.clock = at, !.until = until]
  BY DEF Asked, until
<1>3. Asked(at, time) \in Call /\ Asked(at, time).pc = "read" /\ Asked(at, time).clock = at
      /\ Asked(at, time).until = until /\ ~Asked(at, time).exists
  BY <1>1, <1>2 DEF NotAsked, Call, Asking
<1> QED
  BY <1>3 DEF until

LEMMA HealthyStep ==
  ASSUME IInv, NEW s \in Starters, Healthy(s)
  PROVE  IInv'
<1>1. proc[s].pc = "health" /\ net.healthy /\ SameNetwork /\ cast' = cast
  BY DEF Healthy, At
<1>2. PICK t \in Times(s) : /\ ask' = [ask EXCEPT ![s] = Asked(t, cast.readiness)]
                            /\ proc' = [proc EXCEPT ![s].pc = "account", ![s].clock = t]
  BY DEF Healthy
<1>3. t \in Nat /\ t <= cast.health /\ cast.health \in Nat /\ cast.readiness \in Nat
  BY TimesBounded, CastNumbers DEF IInv
<1> DEFINE p == [proc[s] EXCEPT !.pc = "account", !.clock = t]
           k == Asked(t, cast.readiness)
<1>4. proc[s] \in Process
  BY DEF IInv, Typed
<1>5. p \in Process /\ p.pc = "account" /\ p.clock = t /\ proc' = [proc EXCEPT ![s] = p]
  BY <1>2, <1>3, <1>4 DEF Process, Running
<1>6. /\ k \in Call /\ k.pc = "read" /\ k.clock = t /\ k.until = t + cast.readiness
      /\ ~k.exists
  BY <1>3, AskedFields
<1> HIDE DEF p, k
<1>7. ScriptInv(s)
  BY DEF IInv
<1>8. Stands(s) = "absent"
  BY <1>1, <1>7 DEF ScriptInv, ScriptOf, Early
<1>9. CallOf(k)
  BY <1>3, <1>6 DEF CallOf
<1>10. p.clock <= cast.health /\ k.until <= cast.health + cast.readiness
  BY <1>3, <1>5, <1>6
<1>11. OwnOf(s, p, k)
  BY <1>1, <1>5, <1>6 DEF OwnOf, Unowned, Shown, Success
<1>12. ScriptOf(s, p, k)
  BY <1>5, <1>6, <1>8, <1>10, <1>11 DEF ScriptOf, Early, Unowned
<1> QED
  BY <1>1, <1>2, <1>5, <1>6, <1>9, <1>12, ScriptMoves DEF k

LEMMA ProbeAgainStep ==
  ASSUME IInv, NEW s \in Starters, ProbeAgain(s)
  PROVE  IInv'
<1>1. proc[s].pc \in {"health", "config"} /\ SameNetwork /\ cast' = cast
  BY DEF ProbeAgain
<1>2. CASE WaitEnds(s, FALSE)
  BY <1>1, <1>2, WaitEnded DEF Running
<1>3. ASSUME ~WaitEnds(s, FALSE) PROVE IInv'
  <2>1. PICK t \in Times(s) : LET next == t + Timeout(1, cast.health - t)
                               IN next < cast.health /\ proc' = [proc EXCEPT ![s].clock = next] /\ UNCHANGED ask
    BY <1>3 DEF ProbeAgain, Deadline
  <2> DEFINE next == t + Timeout(1, cast.health - t)
  <2>2. t \in Nat /\ t <= cast.health /\ cast.health \in Nat
    BY TimesBounded, CastNumbers DEF IInv
  <2>3. next \in Nat /\ next < cast.health
    BY <2>1, <2>2 DEF Timeout, Smaller
  <2>4. proc' = [proc EXCEPT ![s].clock = next] /\ ask' = ask
    BY <2>1
  <2> HIDE DEF next
  <2> DEFINE p == [proc[s] EXCEPT !.clock = next]
  <2>5. proc[s] \in Process /\ ScriptInv(s)
    BY DEF IInv, Typed
  <2>6. /\ p \in Process /\ p.clock = next /\ p.pc = proc[s].pc /\ p.known = proc[s].known
        /\ p.seen = proc[s].seen /\ p.started = proc[s].started /\ p.warned = proc[s].warned
    BY <2>3, <2>5 DEF Process
  <2>7. proc' = [proc EXCEPT ![s] = p]
    BY <2>4, <2>5 DEF Process
  <2> HIDE DEF p
  <2>8. ScriptOf(s, p, ask[s])
    BY <2>2, <2>3, <2>5, <2>6 DEF ScriptInv, ScriptOf, OwnOf
  <2> QED
    BY <1>1, <2>4, <2>6, <2>7, <2>8, ScriptGoesOn
<1> QED
  BY <1>2, <1>3

LEMMA AskReadyStep ==
  ASSUME IInv, NEW s \in Starters, AskReady(s)
  PROVE  IInv'
<1>1. proc[s].pc = "account" /\ Ask(s) /\ UNCHANGED <<cast, container, net, proc>> /\ s \in Clients
  BY StarterNames DEF AskReady, At
<1>2. AskStep(s)
  BY <1>1, AskSteps DEF IInv, Typed
<1>3. Typed' /\ CallInv(s)'
  BY <1>1, <1>2 DEF IInv, Typed, AskStep
<1>4. ScriptInv(s)
  BY DEF IInv
<1>5. ScriptInv(s)'
  BY <1>1, <1>2, <1>4 DEF AskStep, ScriptInv, ScriptOf, OwnOf, Early, Unowned, Shown, Success
<1>6. \A c \in Clients \ {s} : AccountOf[c] \in Accounts \ {AccountOf[s]}
  BY ClientsAssumption, OwnAccounts
<1>7. \A c \in Clients \ {s} : Calm(c) /\ ask'[c] = ask[c]
  BY <1>1, <1>2, <1>6 DEF AskStep, Calm, Stands
<1> QED
  BY <1>1, <1>3, <1>5, <1>7, OneActs, StarterNames

LEMMA AccountEndsStep ==
  ASSUME IInv, NEW s \in Starters, AccountEnds(s)
  PROVE  IInv'
<1>1. proc[s].pc = "account" /\ SameNetwork /\ cast' = cast
  BY DEF AccountEnds, At
<1>2. CASE WaitEnds(s, FALSE)
  BY <1>1, <1>2, WaitEnded DEF Running
<1>3. CASE /\ ask[s].pc = "confirmed" /\ ask[s].clock < cast.health
           /\ proc' = [proc EXCEPT ![s].pc = "config", ![s].clock = ask[s].clock]
           /\ ask' = [ask EXCEPT ![s] = NotAsked]
  <2>1. proc[s] \in Process /\ ask[s] \in Call /\ ScriptInv(s)
    BY StarterNames DEF IInv, Typed, ReadyTyped
  <2>2. ask[s].clock \in Nat
    BY <2>1 DEF Call
  <2> DEFINE p == [proc[s] EXCEPT !.pc = "config", !.clock = ask[s].clock]
  <2>3. p \in Process /\ p.pc = "config" /\ p.clock = ask[s].clock
    BY <2>1, <2>2 DEF Process, Running
  <2>4. proc' = [proc EXCEPT ![s] = p]
    BY <1>3, <2>1 DEF Process
  <2> HIDE DEF p
  <2>5. /\ NotAsked \in Call /\ CallOf(NotAsked) /\ NotAsked.until = 0
        /\ NotAsked.pc = "idle" /\ NotAsked.pc \notin Asking /\ ~NotAsked.exists
    BY DEF NotAsked, Call, CallOf, Asking
  <2>6. cast.health \in Nat /\ cast.readiness \in Nat
    BY CastNumbers DEF IInv
  <2>7. container = s => net.healthy /\ Stands(s) = "visible"
    BY <1>1, <1>3, <2>1 DEF ScriptInv, ScriptOf, OwnOf, Served
  <2>8. ScriptOf(s, p, NotAsked)
    BY <1>3, <2>2, <2>3, <2>5, <2>6, <2>7 DEF ScriptOf, OwnOf, Early, Unowned, Served, Shown, Success
  <2> QED
    BY <1>1, <1>3, <2>3, <2>4, <2>5, <2>8, ScriptMoves
<1> QED
  BY <1>2, <1>3 DEF AccountEnds, Deadline

LEMMA WaitOverStep ==
  ASSUME IInv, NEW s \in Starters, Configured(s) \/ WaitCut(s)
  PROVE  IInv'
<1>1. CASE Configured(s)
  BY <1>1, WaitEnded DEF Configured, At, Running
<1>2. CASE WaitCut(s)
  BY <1>2, WaitEnded DEF WaitCut, Running
<1> QED
  BY <1>1, <1>2

LEMMA AllPcs ==
  /\ {"ok", "cut", "killed", "abandoned", "stop", "failed"}
       \subseteq Unowned \cup Running \cup {"ready"} \cup Cleanup \cup Ended
  /\ \A pc \in {"ok", "cut", "killed", "abandoned", "stop", "failed"} :
       pc \notin Early /\ pc \notin Unowned
BY DEF Unowned, Running, Cleanup, Ended, Early

(* After a success and during the clean-up.                                *)
LEMMA OverStep ==
  ASSUME IInv, NEW s \in Starters, UNCHANGED <<ask, cast>>, SameNetwork,
         NEW pc \in {"ok", "cut", "abandoned", "stop"}, Goto(s, pc),
         pc \in {"ok", "cut"} => proc[s].pc = "ready",
         pc \in {"abandoned", "stop"} => proc[s].pc \in Cleanup
  PROVE  IInv'
<1>1. ScriptInv(s) /\ proc[s].pc # "account"
  BY DEF IInv, Cleanup
<1> DEFINE p == [proc[s] EXCEPT !.pc = pc]
<1>2. p.pc = pc
  BY Moved, AllPcs
<1> HIDE DEF p
<1>3. ASSUME container = s PROVE OwnOf(s, p, ask[s])
  <2>1. OwnOf(s, proc[s], ask[s])
    BY <1>1, <1>3 DEF ScriptInv, ScriptOf
  <2> QED
    BY <1>2, <2>1, AllPcs DEF OwnOf, Served, Shown, Success
<1> QED
  BY <1>1, <1>3, AllPcs, PcMoves DEF p

LEMMA ExitLogsStep ==
  ASSUME IInv, NEW s \in Starters, Exit(s) \/ Logs(s)
  PROVE  IInv'
<1>1. CASE Exit(s)
  BY <1>1, OverStep DEF Exit, At
<1>2. CASE Logs(s)
  BY <1>2, OverStep DEF Logs, At, AfterLogs, Cleanup
<1> QED
  BY <1>1, <1>2

LEMMA StopStep ==
  ASSUME IInv, NEW s \in Starters, Stop(s)
  PROVE  IInv'
<1>1. proc[s].pc = "stop" /\ UNCHANGED <<ask, cast>>
  BY DEF Stop, At
<1>2. ScriptInv(s) /\ proc[s] \in Process
  BY DEF IInv, Typed
<1>3. ask[s].pc = "idle" /\ proc[s].clock <= cast.health
  BY <1>1, <1>2 DEF ScriptInv, ScriptOf
<1>4. CASE Hold("none") /\ Goto(s, "failed")
  <2> DEFINE p == [proc[s] EXCEPT !.pc = "failed"]
  <2>1. p \in Process /\ p.pc = "failed" /\ p.clock = proc[s].clock /\ proc' = [proc EXCEPT ![s] = p]
    BY <1>4, AllPcs, Moved
  <2> HIDE DEF p
  <2> QED
    BY <1>1, <1>3, <1>4, <2>1, ScriptHolds, StarterNames
<1>5. CASE SameNetwork /\ proc' = [proc EXCEPT ![s].pc = "failed", ![s].warned = TRUE]
  <2> DEFINE p == [proc[s] EXCEPT !.pc = "failed", !.warned = TRUE]
  <2>1. p \in Process /\ p.pc = "failed" /\ p.clock = proc[s].clock /\ p.warned
    BY <1>2 DEF Process, Ended
  <2>2. proc' = [proc EXCEPT ![s] = p]
    BY <1>2, <1>5 DEF Process
  <2> HIDE DEF p
  <2>3. OwnOf(s, p, ask[s])
    BY <1>3, <2>1, AllPcs DEF OwnOf, Served, Shown, Success
  <2>4. ScriptOf(s, p, ask[s])
    BY <1>2, <1>3, <2>1, <2>3, AllPcs DEF ScriptInv, ScriptOf
  <2> QED
    BY <1>1, <1>5, <2>1, <2>2, <2>4, ScriptGoesOn
<1> QED
  BY <1>4, <1>5 DEF Stop

LEMMA SignalStep ==
  ASSUME IInv, NEW s \in Starters, Signal(s)
  PROVE  IInv'
<1>1. SameNetwork /\ UNCHANGED <<ask, cast>> /\ proc[s].pc \notin Ended
  BY DEF Signal
<1>2. ScriptInv(s) /\ proc[s] \in Process
  BY DEF IInv, Typed
<1>3. CASE Trapped(proc[s].pc)
  <2> DEFINE p == [proc[s] EXCEPT !.signalled = TRUE]
  <2>1. /\ p \in Process /\ p.clock = proc[s].clock /\ p.pc = proc[s].pc /\ p.known = proc[s].known
        /\ p.seen = proc[s].seen /\ p.started = proc[s].started /\ p.warned = proc[s].warned
    BY <1>2 DEF Process
  <2>2. proc' = [proc EXCEPT ![s] = p]
    BY <1>2, <1>3 DEF Process, Signal
  <2> HIDE DEF p
  <2>3. ScriptOf(s, p, ask[s])
    BY <1>2, <2>1 DEF ScriptInv, ScriptOf, OwnOf
  <2> QED
    BY <1>1, <2>1, <2>2, <2>3, ScriptGoesOn
<1>4. CASE ~Trapped(proc[s].pc) /\ proc[s].pc = "ready"
  BY <1>1, <1>4, OverStep DEF Signal
<1>5. CASE ~Trapped(proc[s].pc) /\ proc[s].pc \in Cleanup
  <2>1. Goto(s, "abandoned")
    BY <1>5 DEF Signal, Cleanup
  <2> QED
    BY <1>1, <1>5, <2>1, OverStep
<1>6. CASE ~Trapped(proc[s].pc) /\ proc[s].pc # "ready" /\ proc[s].pc \notin Cleanup
  <2>1. Goto(s, "killed")
    BY <1>6 DEF Signal
  <2>2. proc[s].pc \in Unowned
    BY <1>1, <1>2, <1>6 DEF Process, Trapped
  <2>3. container # s /\ proc[s].pc # "account"
    BY <2>2, NotYet DEF Unowned
  <2> QED
    BY <1>1, <2>1, <2>3, AllPcs, PcMoves
<1> QED
  BY <1>3, <1>4, <1>5, <1>6

-----------------------------------------------------------------------------
(* Measurements, the network and the others                                 *)

LEMMA MeasurementStep ==
  ASSUME IInv, NEW c \in Clients, Measure(c) \/ AskMeasured(c) \/ AbortMeasured(c)
  PROVE  IInv'
<1>0. ask[c] \in Call /\ CallInv(c)
  BY DEF IInv, Typed, ReadyTyped
<1>1. CASE Measure(c)
  <2> DEFINE k == Asked(0, cast.readiness)
  <2>1. c \notin Starters /\ ask[c].pc = "idle" /\ ask' = [ask EXCEPT ![c] = k] /\ SameNetwork
        /\ UNCHANGED <<cast, proc>>
    BY <1>1 DEF Measure
  <2>2. k \in Call /\ k.pc = "read" /\ k.clock <= k.until /\ ~k.exists
    <3>1. 0 \in Nat /\ cast.readiness \in Nat
      BY CastNumbers DEF IInv
    <3>2. /\ k \in Call /\ k.pc = "read" /\ ~k.exists
          /\ k.clock = 0 /\ k.until = 0 + cast.readiness
      BY <3>1, AskedFields
    <3> HIDE DEF k
    <3> QED
      BY <3>1, <3>2
  <2> HIDE DEF k
  <2>3. ask' \in [Clients -> Call] /\ ask'[c] = k /\ \A d \in Clients \ {c} : ask'[d] = ask[d]
    BY <2>1, <2>2 DEF IInv, Typed, ReadyTyped
  <2>4. ~ask[c].lost /\ ~ask[c].funded
    BY <1>0, <2>1 DEF CallInv, CallOf
  <2>5. CallInv(c)' /\ Counts(c)
    BY <2>1, <2>2, <2>3, <2>4 DEF CallInv, CallOf, Counts, SameNetwork, Stands
  <2>6. Typed'
    BY <2>1, <2>3 DEF IInv, Typed, ReadyTyped, SameNetwork
  <2> QED
    BY <2>1, <2>3, <2>5, <2>6, OneActs, SameIsCalm
<1>2. CASE AskMeasured(c)
  <2>1. c \notin Starters /\ Ask(c) /\ UNCHANGED <<cast, container, net, proc>>
    BY <1>2 DEF AskMeasured
  <2>2. AskStep(c)
    BY <1>0, <2>1, AskSteps DEF IInv, Typed
  <2>3. Typed' /\ CallInv(c)' /\ \A d \in Clients \ {c} : ask'[d] = ask[d]
    BY <2>1, <2>2 DEF IInv, Typed, AskStep
  <2>4. ASSUME NEW d \in Clients \ Starters, AccountOf[d] = AccountOf[c]
        PROVE  Stands(d)' # "absent" => Stands(d) # "absent" \/ Touched(d)'
    <3>1. Stands(d)' = Stands(c)' /\ Stands(d) = Stands(c)
      BY <2>4 DEF Stands
    <3>2. ask'[c].lost \/ ask'[c].funded => Touched(d)'
      BY <2>4 DEF Touched
    <3> QED
      BY <2>2, <3>1, <3>2 DEF AskStep
  <2>5. Counts(c)
    BY <2>1, <2>2, <2>4 DEF AskStep, Counts
  <2>6. ASSUME NEW d \in Clients \ {c}
        PROVE  Calm(d) \/ (d \notin Starters /\ Counts(d))
    <3>1. CASE AccountOf[d] = AccountOf[c]
      <4>1. d \notin Starters
        BY <2>1, <3>1, OwnAccounts
      <4> QED
        BY <2>3, <2>4, <3>1, <4>1 DEF Counts
    <3>2. CASE AccountOf[d] # AccountOf[c]
      <4>1. account'[AccountOf[d]] = account[AccountOf[d]]
        BY <2>2, <3>2, ClientsAssumption DEF AskStep
      <4> QED
        BY <2>1, <4>1 DEF Calm, Stands
    <3> QED
      BY <3>1, <3>2
  <2> QED
    BY <2>1, <2>3, <2>5, <2>6, OneActs
<1>3. CASE AbortMeasured(c)
  <2> DEFINE k == [ask[c] EXCEPT !.aborted = TRUE]
  <2>1. c \notin Starters /\ ask[c].pc \in Asking /\ ask' = [ask EXCEPT ![c].aborted = TRUE]
        /\ SameNetwork /\ UNCHANGED <<cast, proc>>
    BY <1>3, StarterNames DEF AbortMeasured, Abort, SameNetwork
  <2>2. k \in Call /\ k.pc = ask[c].pc /\ k.clock = ask[c].clock /\ k.until = ask[c].until
        /\ k.exists = ask[c].exists /\ k.lost = ask[c].lost /\ k.funded = ask[c].funded
    BY <1>0 DEF Call
  <2>3. ask' = [ask EXCEPT ![c] = k]
    BY <1>0, <2>1 DEF Call
  <2> HIDE DEF k
  <2>4. ask' \in [Clients -> Call] /\ ask'[c] = k /\ \A d \in Clients \ {c} : ask'[d] = ask[d]
    BY <2>2, <2>3 DEF IInv, Typed, ReadyTyped
  <2>5. CallInv(c)' /\ Counts(c)
    BY <1>0, <2>1, <2>2, <2>4 DEF CallInv, CallOf, Counts, SameNetwork, Stands, Asking
  <2>6. Typed'
    BY <2>1, <2>4 DEF IInv, Typed, ReadyTyped, SameNetwork
  <2> QED
    BY <2>1, <2>4, <2>5, <2>6, OneActs, SameIsCalm
<1> QED
  BY <1>1, <1>2, <1>3

LEMMA NetworkStep ==
  ASSUME IInv, Serve \/ Appear \/ Vanish \/ \E a \in Accounts : Ledger(a)
  PROVE  IInv'
<1>1. CASE Serve
  <2>1. PICK part \in {"healthy", "config"} : net' = [net EXCEPT ![part] = TRUE]
    BY <1>1 DEF Serve
  <2>2. net' \in [healthy : BOOLEAN, config : BOOLEAN] /\ (net.healthy => net'.healthy) /\ (net.config => net'.config)
    BY <2>1 DEF IInv, Typed
  <2>3. UNCHANGED <<up, account, ask, cast, container, proc>>
    BY <1>1 DEF Serve, readinessVars
  <2>4. Typed' /\ \A c \in Clients : Calm(c)
    BY <2>2, <2>3 DEF IInv, Typed, ReadyTyped, Calm, Stands
  <2> QED
    BY <2>3, <2>4, NobodyActs
<1>2. ASSUME NEW h \in {"none", "foreign"}, Hold(h), UNCHANGED <<ask, cast, proc>>
      PROVE  IInv'
  <2>1. Typed'
    BY <1>2, HoldTyped DEF IInv, Typed, Holders
  <2>2. ASSUME NEW c \in Clients PROVE Calm(c)
    <3>1. h # c \/ c \notin Starters
      BY StarterNames
    <3> QED
      BY <1>2, <3>1, HoldIsCalm
  <2> QED
    BY <1>2, <2>1, <2>2, NobodyActs
<1>3. CASE Appear \/ Vanish
  BY <1>2, <1>3 DEF Appear, Vanish
<1>4. ASSUME NEW a \in Accounts, Ledger(a) PROVE IInv'
  <2>1. UNCHANGED <<up, ask, cast, container, net, proc>>
    BY <1>4 DEF Ledger, Include, Show
  <2>2. /\ account' \in [Accounts -> AccountStates]
        /\ \A b \in Accounts : /\ account[b] = "visible" => account'[b] = "visible"
                               /\ (account[b] = "absent") = (account'[b] = "absent")
    BY <1>4 DEF Ledger, Include, Show, IInv, Typed, ReadyTyped, AccountStates
  <2>3. Typed' /\ \A c \in Clients : Calm(c)
    BY <2>1, <2>2, ClientsAssumption DEF IInv, Typed, ReadyTyped, Calm, Stands
  <2> QED
    BY <2>1, <2>3, NobodyActs
<1> QED
  BY <1>1, <1>3, <1>4

-----------------------------------------------------------------------------
LEMMA NextStep ==
  ASSUME IInv, [Next]_vars
  PROVE  IInv'
<1>1. ASSUME NEW s \in Starters, Script(s) PROVE IInv'
  BY <1>1, ListStep, InspectStep, RemoveStep, StartStep, StartedStep, HealthyStep, ProbeAgainStep,
     AskReadyStep, AccountEndsStep, WaitOverStep, ExitLogsStep, StopStep DEF Script
<1>2. CASE UNCHANGED vars
  <2>1. UNCHANGED <<up, account, ask, cast, container, net, proc>>
    BY <1>2 DEF vars, readinessVars
  <2>2. Typed' /\ \A c \in Clients : Calm(c)
    BY <2>1 DEF IInv, Typed, ReadyTyped, Calm, Stands
  <2> QED
    BY <2>1, <2>2, NobodyActs
<1> QED
  BY <1>1, <1>2, SignalStep, MeasurementStep, NetworkStep DEF Next

(* The invariant holds throughout, for every number of starts and          *)
(* measurements, every deadline and timeout.                               *)
THEOREM Invariance == Spec => []IInv
<1>1. Init => IInv
  <2> SUFFICES ASSUME Init PROVE IInv
    OBVIOUS
  <2>1. /\ \A c \in Clients : ask[c] = NotAsked /\ Stands(c) = "absent"
        /\ \A s \in Starters : proc[s] = NotStarted
    BY StarterNames, ClientsAssumption DEF Init, InitReadiness, Stands
  <2>2. /\ NotAsked \in Call /\ NotAsked.pc = "idle" /\ NotAsked.clock = 0 /\ NotAsked.until = 0
        /\ ~NotAsked.exists /\ ~NotAsked.lost /\ ~NotAsked.funded
    BY DEF NotAsked, Call
  <2>3. NotStarted \in Process /\ NotStarted.pc = "idle" /\ NotStarted.clock = 0 /\ ~NotStarted.known
    BY DEF NotStarted, Process, Unowned, Holders
  <2>4. Typed
    BY <2>2, <2>3 DEF Init, InitReadiness, Typed, ReadyTyped, Fresh, Holders, AccountStates
  <2>5. ASSUME NEW c \in Clients PROVE CallInv(c) /\ MeasureInv(c)
    <3>1. ask[c] = NotAsked /\ Stands(c) = "absent"
      BY <2>1
    <3>2. CallOf(NotAsked)
      BY <2>2 DEF CallOf
    <3> QED
      BY <2>2, <3>1, <3>2 DEF CallInv, MeasureInv
  <2>6. ASSUME NEW s \in Starters PROVE ScriptInv(s)
    <3>1. container # s
      BY StarterNames DEF Init
    <3> QED
      BY <2>1, <2>2, <2>3, <2>4, <3>1, CastNumbers, StarterNames DEF ScriptInv, ScriptOf, Asking
  <2> QED
    BY <2>4, <2>5, <2>6 DEF IInv
<1> QED
  BY <1>1, NextStep, PTL DEF Spec

(* TypeOK: no clock runs past the deadlines of the start.                  *)
THEOREM TypeCorrect == Spec => []TypeOK
<1>1. ASSUME IInv PROVE TypeOK
  <2>1. cast.health \in Nat /\ cast.readiness \in Nat
    BY <1>1, CastNumbers DEF IInv
  <2>2. ASSUME NEW s \in Starters
        PROVE  proc[s].clock <= cast.health + cast.readiness /\ ask[s].clock <= cast.health + cast.readiness
    <3>1. proc[s].clock \in Nat /\ ask[s].clock \in Nat /\ ask[s].until \in Nat
      BY <1>1, StarterNames DEF IInv, Typed, ReadyTyped, Process, Call
    <3>2. proc[s].clock <= cast.health /\ ask[s].until <= cast.health + cast.readiness
          /\ ask[s].clock <= ask[s].until
      BY <1>1, StarterNames DEF IInv, ScriptInv, ScriptOf, CallInv, CallOf
    <3> QED
      BY <2>1, <3>1, <3>2
  <2>3. \A c \in Clients : ask[c].clock <= ask[c].until
    BY <1>1 DEF IInv, CallInv, CallOf
  <2> QED
    BY <1>1, <2>2, <2>3 DEF TypeOK, IInv, Typed, ReadyTyped
<1> QED
  BY <1>1, Invariance, PTL

(* NothingLeftBehind: a failed start has stopped its container, or warned, *)
(* or never learnt its ID; no signal before the clean-up leaves one.       *)
THEOREM CleanUp == Spec => []NothingLeftBehind
<1>1. IInv => NothingLeftBehind
  BY DEF IInv, ScriptInv, ScriptOf, OwnOf, NothingLeftBehind
<1> QED
  BY <1>1, Invariance, PTL

(* ReadyMeansServed: success tells of the network of the start's own       *)
(* container, whatever was replaced while it waited.                       *)
THEOREM Readiness == Spec => []ReadyMeansServed
<1>1. IInv => ReadyMeansServed
  BY DEF IInv, ScriptInv, ScriptOf, OwnOf, ReadyMeansServed, Served, Shown, Success
<1> QED
  BY <1>1, Invariance, PTL

(* RefusedOnlyAfterLoss: friendbot's refusal of an existing account ends a *)
(* call of ensureAccountReady only after an answer was lost, or another    *)
(* client with its key file had the account funded, however many share it. *)
THEOREM FundingNotRepeated == Spec => []RefusedOnlyAfterLoss
<1>1. ASSUME IInv, NEW c \in Clients, ask[c].exists
      PROVE  Blamed(c)
  <2>1. CASE c \in Starters
    BY <1>1, <2>1 DEF IInv, ScriptInv, ScriptOf, Blamed
  <2>2. CASE c \notin Starters
    BY <1>1, <2>2 DEF IInv, MeasureInv
  <2> QED
    BY <2>1, <2>2
<1>2. IInv => RefusedOnlyAfterLoss
  BY <1>1 DEF RefusedOnlyAfterLoss, Blamed
<1> QED
  BY <1>2, Invariance, PTL

(* RemovalsJustified: a start removes a container that is not its own only *)
(* by replacement, after it has inspected one it may replace.              *)
Justified ==
  \A s \in Starters :
    (proc'[s] # proc[s] /\ container' # container /\ container \notin {"none", s})
      => /\ proc[s].pc = "remove"
         /\ container \in Owned \/ s \in cast.authorised \/ proc[s].seen # "foreign"

LEMMA RemovalJustified ==
  ASSUME IInv, [Next]_vars
  PROVE  Justified
<1> SUFFICES ASSUME NEW s \in Starters, proc'[s] # proc[s], container' # container,
                    container \notin {"none", s}
             PROVE  /\ proc[s].pc = "remove"
                    /\ container \in Owned \/ s \in cast.authorised \/ proc[s].seen # "foreign"
  BY DEF Justified
<1>1. \E r \in Starters : Script(r) \/ Signal(r)
  BY DEF Next, vars, readinessVars, Measure, AskMeasured, AbortMeasured, Ledger, Serve, Appear, Vanish, SameNetwork
<1>2. PICK r \in Starters : Script(r) \/ Signal(r)
  BY <1>1
<1>3. Remove(r) \/ Start(r) \/ Stop(r)
  BY <1>2 DEF Script, Signal, List, Inspect, Started, Healthy, ProbeAgain, AskReady, AccountEnds, Configured,
                WaitCut, Exit, Logs, SameNetwork
<1>4. r = s
  BY <1>3 DEF Remove, Start, Stop, Goto, IInv, Typed
<1>5. Remove(s)
  BY <1>3, <1>4 DEF Start, Stop, Stoppable, SameNetwork
<1>6. proc[s].pc = "remove"
  BY <1>5 DEF Remove, At
<1>7. MayReplace(s, proc[s].seen)
  BY <1>6 DEF IInv, ScriptInv, ScriptOf
<1> QED
  BY <1>6, <1>7, StarterNames DEF MayReplace, Owned

THEOREM Removals == Spec => RemovalsJustified
<1>1. IInv /\ [Next]_vars => [Justified]_vars
  BY RemovalJustified
<1> QED
  BY <1>1, Invariance, PTL DEF Spec, RemovalsJustified, Justified
=============================================================================
