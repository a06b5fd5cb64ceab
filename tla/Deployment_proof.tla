-------------------------- MODULE Deployment_proof --------------------------
(***************************************************************************)
(* Proofs about Deployment, for any number of runs, any of which share a   *)
(* key file, any fixtures, lag, polls, ledgers and faults.  A step of run  *)
(* r changes r's own state and what is asked of the network (Frame), so it *)
(* is enough to show the invariant of r itself; a closing ledger takes     *)
(* nothing back that a run relies on.                                      *)
(***************************************************************************)
EXTENDS Deployment, TLAPS, FiniteSetTheorems, WellFoundedInduction

-----------------------------------------------------------------------------
(* Numbers                                                                  *)

(* Least is the least.                                                     *)
LEMMA LeastOf ==
  ASSUME NEW S \in SUBSET Nat, S # {}
  PROVE  Least(S) \in S /\ \A d \in S : Least(S) <= d
<1> DEFINE R == {p \in Nat \X Nat : p[1] < p[2]}
<1>1. IsWellFoundedOn(R, Nat)
  BY NatLessThanWellFounded DEF OpToRel
<1> HIDE DEF R
<1>2. PICK c \in S : \A d \in S : ~(<<d, c>> \in R)
  BY <1>1, WFMin
<1>3. \A d \in S : ~(d < c)
  BY <1>2 DEF R
<1>4. \E least \in S : \A d \in S : least <= d
  BY <1>3
<1> QED
  BY <1>4 DEF Least

(* What holds at 0 and is handed on holds up to n.                         *)
LEMMA UpTo ==
  ASSUME NEW n \in Nat, NEW S, 0 \in S, \A i \in 1..n : i - 1 \in S => i \in S
  PROVE  \A i \in 0..n : i \in S
<1> SUFFICES ASSUME (0..n) \ S # {} PROVE FALSE
  OBVIOUS
<1> DEFINE m == Least((0..n) \ S)
<1>1. m \in (0..n) \ S /\ \A d \in (0..n) \ S : m <= d
  <2>1. (0..n) \ S \in SUBSET Nat
    OBVIOUS
  <2> QED
    BY <2>1, LeastOf
<1> HIDE DEF m
<1>2. m \in 1..n /\ m - 1 \in 0..n
  BY <1>1
<1> QED
  BY <1>1, <1>2

-----------------------------------------------------------------------------
(* dependentsOf                                                             *)

(* The pass over the plan exists, and takes a contract when it comes to it *)
(* if that needs c or one that was taken.                                  *)
Taken(r, c, d, S) == IF Deps(r, d) \cap (S \cup {c}) # {} THEN {d} ELSE {}
LEMMA PassOver ==
  ASSUME NEW r \in Runs, NEW c, run[r].order \in Seq(Contracts)
  PROVE  \E f : /\ f[0] = {}
                /\ \A i \in 1..Len(run[r].order) :
                     f[i] = f[i-1] \cup Taken(r, c, run[r].order[i], f[i-1])
                /\ DependentsOf(r, c) = f[Len(run[r].order)]
<1> DEFINE n == Len(run[r].order)
           D == SUBSET Contracts
           step == [p \in (1..n) \X D |-> p[2] \cup Taken(r, c, run[r].order[p[1]], p[2])]
           Pass(f) == [i \in 0..n |-> IF i = 0 THEN {}
                                      ELSE f[i-1] \cup Taken(r, c, run[r].order[i], f[i-1])]
<1>1. n \in Nat /\ \A i \in 1..n : run[r].order[i] \in Contracts
  OBVIOUS
<1>2. \A i \in 1..n, S \in D : step[<<i, S>>] \in D
  BY <1>1 DEF Taken
<1>3. \A i \in 1..n, S \in D : step[<<i, S>>] = S \cup Taken(r, c, run[r].order[i], S)
  OBVIOUS
<1> HIDE DEF step, n, D
<1>4. {} \in D
  BY DEF D
<1> DEFINE z == {}
<1> HIDE DEF z
<1>z. z \in D
  BY <1>4 DEF z
<1>E. \E f \in [0..n -> D] : f[0] = z /\ \A i \in 1..n : f[i] = step[<<i, f[i-1]>>]
  <2> DEFINE Exists(m) == \E f \in [0..m -> D] :
                            f[0] = z /\ \A i \in 1..m : f[i] = step[<<i, f[i-1]>>]
             S == {m \in 0..n : Exists(m)}
  <2>1. 0 \in S
    <3> DEFINE f == [i \in 0..0 |-> z]
    <3>1. f \in [0..0 -> D] /\ f[0] = z /\ \A i \in 1..0 : FALSE
      BY <1>z
    <3> HIDE DEF f
    <3>2. Exists(0)
      BY <3>1
    <3> HIDE DEF Exists
    <3> QED
      BY <1>1, <3>2
  <2>2. ASSUME NEW m \in 1..n, m - 1 \in S PROVE m \in S
    <3>1. PICK f \in [0..(m - 1) -> D] :
             f[0] = z /\ \A i \in 1..(m - 1) : f[i] = step[<<i, f[i-1]>>]
      BY <2>2
    <3> DEFINE g == [i \in 0..m |-> IF i = m THEN step[<<m, f[m-1]>>] ELSE f[i]]
    <3>2. m - 1 \in 0..(m - 1) /\ 0 \in 0..(m - 1) /\ 0 # m /\ m \in 0..m
      BY <1>1
    <3>3. step[<<m, f[m-1]>>] \in D
      BY <1>2, <3>2
    <3>4. g \in [0..m -> D]
      BY <3>3
    <3>5. \A i \in 0..(m - 1) : g[i] = f[i]
      BY <1>1
    <3>6. g[m] = step[<<m, f[m-1]>>]
      BY <3>2
    <3> HIDE DEF g
    <3>7. \A i \in 1..m : g[i] = step[<<i, g[i-1]>>]
      <4>1. \A i \in 1..m : i - 1 \in 0..(m - 1) /\ (i = m \/ i \in 1..(m - 1))
        BY <1>1
      <4>2. \A i \in 1..(m - 1) : g[i] = step[<<i, g[i-1]>>]
        BY <3>1, <3>5, <4>1
      <4>3. g[m] = step[<<m, g[m-1]>>]
        BY <3>2, <3>5, <3>6
      <4> QED
        BY <4>1, <4>2, <4>3
    <3>8. g[0] = z
      BY <3>1, <3>2, <3>5
    <3> QED
      BY <3>4, <3>7, <3>8
  <2> HIDE DEF Exists
  <2>3. \A m \in 0..n : m \in S
    BY <1>1, <2>1, <2>2, UpTo
  <2>4. n \in S
    BY <1>1, <2>3
  <2>5. Exists(n)
    BY <2>4
  <2> QED
    BY <2>5 DEF Exists
<1>5. PICK f \in [0..n -> D] : f[0] = {} /\ \A i \in 1..n : f[i] = step[<<i, f[i-1]>>]
  BY <1>E DEF z
<1>6. f = Pass(f)
  <2>1. \A i \in 1..n : i - 1 \in 0..n
    BY <1>1
  <2>2. \A i \in 1..n : f[i] = f[i-1] \cup Taken(r, c, run[r].order[i], f[i-1])
    BY <1>3, <1>5, <2>1
  <2>3. \A i \in 0..n : i = 0 \/ i \in 1..n
    BY <1>1
  <2> QED
    BY <1>5, <2>2, <2>3
<1> DEFINE found == CHOOSE g : g = Pass(g)
<1>7. found = Pass(found)
  <2> HIDE DEF Pass
  <2> QED
    BY <1>6
<1>8. DependentsOf(r, c) = found[n]
  BY DEF DependentsOf, Taken, n
<1> HIDE DEF found
<1>9. /\ found[0] = {}
      /\ \A i \in 1..n :
           found[i] = found[i-1] \cup Taken(r, c, run[r].order[i], found[i-1])
  <2>1. 0 \in 0..n /\ \A i \in 1..n : i \in 0..n /\ i # 0
    BY <1>1
  <2> QED
    BY <1>7, <2>1
<1> QED
  BY <1>8, <1>9 DEF n

(* In an order that places a contract after what it needs, the one pass    *)
(* finds exactly what needs the contract at hand, and all of it lies ahead.*)
LEMMA DependentsExact ==
  ASSUME NEW r \in Runs, run[r].order \in Seq(Contracts),
         run[r].at \in 1..Len(run[r].order),
         \A i \in 1..Len(run[r].order) : /\ run[r].order[i] \in Cs(r) \ Before(r, i)
                                         /\ Deps(r, run[r].order[i]) \subseteq Before(r, i),
         Placed(r) = Cs(r)
  PROVE  /\ NeedsExactly(r, Current(r), DependentsOf(r, Current(r)))
         /\ DependentsOf(r, Current(r)) \subseteq Contracts
         /\ DependentsOf(r, Current(r)) \cap ({Current(r)} \cup Before(r, run[r].at)) = {}
<1> DEFINE o == run[r].order
           n == Len(o)
           at == run[r].at
           c == Current(r)
           N == DependentsOf(r, c)
<1>1. /\ n \in Nat /\ at \in 1..n /\ c = o[at]
      /\ \A i \in 1..n : o[i] \in Contracts
  BY DEF Current
<1>2. \A i, j \in 1..n : j < i => o[i] # o[j]
  <2>1. \A i, j \in 1..n : j < i => o[j] \in Before(r, i)
    BY DEF Before
  <2> QED
    BY <2>1
<1>3. \A i \in 1..n : \A x \in Deps(r, o[i]) : \E k \in 1..n : k < i /\ x = o[k]
  <2>1. \A i \in 1..n : Deps(r, o[i]) \subseteq {o[j] : j \in 1..(i - 1)}
    BY DEF Before
  <2> SUFFICES ASSUME NEW i \in 1..n, NEW x \in Deps(r, o[i])
               PROVE  \E k \in 1..n : k < i /\ x = o[k]
    OBVIOUS
  <2> HIDE DEF o, n
  <2>2. PICK k \in 1..(i - 1) : x = o[k]
    BY <2>1
  <2>3. k \in 1..n /\ k < i
    BY <1>1
  <2> QED
    BY <2>2, <2>3
<1>4. \A d \in Cs(r) : \E i \in 1..n : d = o[i]
  BY DEF Placed
<1>5. PICK f : /\ f[0] = {}
               /\ \A i \in 1..n : f[i] = f[i-1] \cup Taken(r, c, o[i], f[i-1])
               /\ N = f[n]
  BY PassOver
<1>6. \A d \in Before(r, at) : \E k \in 1..n : k < at /\ d = o[k]
  BY <1>1 DEF Before
<1> HIDE DEF o, n, at, c, N
<1>7. \A i \in 0..n : \A x \in f[i] : \E j \in 1..n : at < j /\ j <= i /\ x = o[j]
  <2> DEFINE S == {i \in 0..n : \A x \in f[i] : \E j \in 1..n : at < j /\ j <= i /\ x = o[j]}
  <2>1. 0 \in S
    BY <1>1, <1>5
  <2>2. ASSUME NEW i \in 1..n, i - 1 \in S PROVE i \in S
    <3>1. \A x \in f[i-1] : \E j \in 1..n : at < j /\ j <= i - 1 /\ x = o[j]
      BY <2>2
    <3>2. ASSUME NEW x \in Deps(r, o[i]), x \in f[i-1] \cup {c} PROVE at < i
      <4>1. PICK k \in 1..n : k < i /\ x = o[k]
        BY <1>3
      <4>2. CASE x = c
        <5>1. k = at
          <6>1. k < at \/ k = at \/ at < k
            BY <1>1
          <6> QED
            BY <1>1, <1>2, <4>1, <4>2, <6>1
        <5> QED
          BY <4>1, <5>1
      <4>3. CASE x \in f[i-1]
        BY <1>1, <3>1, <4>3
      <4> QED
        BY <3>2, <4>2, <4>3
    <3>3. \A x \in f[i] : \E j \in 1..n : at < j /\ j <= i /\ x = o[j]
      <4>1. ASSUME NEW x \in f[i-1] PROVE \E j \in 1..n : at < j /\ j <= i /\ x = o[j]
        BY <1>1, <3>1
      <4>2. ASSUME NEW x \in Taken(r, c, o[i], f[i-1])
            PROVE  \E j \in 1..n : at < j /\ j <= i /\ x = o[j]
        BY <1>1, <3>2 DEF Taken
      <4> QED
        BY <1>5, <4>1, <4>2
    <3> QED
      BY <1>1, <3>3
  <2> HIDE DEF S
  <2>3. \A i \in 0..n : i \in S
    BY <1>1, <2>1, <2>2, UpTo
  <2> QED
    BY <2>3 DEF S
<1>8. \A i \in 0..n : \A j \in 0..n : j <= i =>
        f[j] \subseteq f[i] /\ (o[j] \in f[i] => o[j] \in f[j] \/ j = 0)
  <2> DEFINE S == {i \in 0..n : \A j \in 0..n : j <= i =>
                     f[j] \subseteq f[i] /\ (o[j] \in f[i] => o[j] \in f[j] \/ j = 0)}
  <2>1. 0 \in S
    BY <1>1
  <2>2. ASSUME NEW i \in 1..n, i - 1 \in S PROVE i \in S
    <3>1. \A j \in 0..n : j <= i - 1 =>
            f[j] \subseteq f[i-1] /\ (o[j] \in f[i-1] => o[j] \in f[j] \/ j = 0)
      BY <2>2
    <3>2. f[i-1] \subseteq f[i] /\ f[i] \subseteq f[i-1] \cup {o[i]}
      BY <1>5 DEF Taken
    <3>3. ASSUME NEW j \in 0..n, j <= i
          PROVE  f[j] \subseteq f[i] /\ (o[j] \in f[i] => o[j] \in f[j] \/ j = 0)
      <4>1. j = i \/ j <= i - 1
        BY <1>1, <3>3
      <4>2. CASE j <= i - 1
        <5>1. f[j] \subseteq f[i-1] /\ (o[j] \in f[i-1] => o[j] \in f[j] \/ j = 0)
          BY <3>1, <4>2
        <5>2. j # 0 => o[i] # o[j]
          BY <1>1, <1>2, <4>2
        <5> QED
          BY <3>2, <5>1, <5>2
      <4> QED
        BY <4>1, <4>2
    <3> QED
      BY <1>1, <3>3
  <2> HIDE DEF S
  <2>3. \A i \in 0..n : i \in S
    BY <1>1, <2>1, <2>2, UpTo
  <2> QED
    BY <2>3 DEF S
<1>9. Closed(r, c, N)
  <2> SUFFICES ASSUME NEW d \in Cs(r), NEW x \in Deps(r, d), x \in N \cup {c} PROVE d \in N
    BY DEF Closed
  <2>1. PICK i \in 1..n : d = o[i]
    BY <1>4
  <2>2. PICK k \in 1..n : k < i /\ x = o[k]
    BY <1>3, <2>1
  <2>3. i - 1 \in 0..n /\ k <= i - 1 /\ k <= n /\ i <= n /\ n \in 0..n
    BY <1>1, <2>2
  <2>4. x \in N => x \in f[i-1]
    <3>1. x \in N => x \in f[k]
      BY <1>1, <1>5, <1>8, <2>2, <2>3
    <3> QED
      BY <1>1, <1>8, <2>2, <2>3, <3>1
  <2>5. d \in f[i]
    <3>1. Deps(r, o[i]) \cap (f[i-1] \cup {c}) # {}
      BY <2>1, <2>4
    <3>2. Taken(r, c, o[i], f[i-1]) = {o[i]}
      BY <3>1 DEF Taken
    <3> QED
      BY <1>5, <2>1, <3>2
  <2> QED
    BY <1>1, <1>5, <1>8, <2>3, <2>5
<1>10. ASSUME NEW T \in SUBSET N, Closed(r, c, T) PROVE T = N
  <2> DEFINE S == {i \in 0..n : f[i] \subseteq T}
  <2>1. 0 \in S
    BY <1>1, <1>5
  <2>2. ASSUME NEW i \in 1..n, i - 1 \in S PROVE i \in S
    <3>1. f[i-1] \subseteq T
      BY <2>2
    <3>2. o[i] \in Cs(r)
      BY DEF o, n
    <3>3. Deps(r, o[i]) \cap (f[i-1] \cup {c}) # {} => o[i] \in T
      BY <1>10, <3>1, <3>2 DEF Closed
    <3>4. f[i] \subseteq T
      BY <1>5, <3>1, <3>3 DEF Taken
    <3> QED
      BY <1>1, <3>4
  <2> HIDE DEF S
  <2>3. \A i \in 0..n : i \in S
    BY <1>1, <2>1, <2>2, UpTo
  <2>4. n \in S
    BY <1>1, <2>3
  <2> QED
    BY <1>5, <2>4 DEF S
<1>11. N \subseteq Contracts
  BY <1>1, <1>5, <1>7
<1>12. N \cap ({c} \cup Before(r, at)) = {}
  <2> SUFFICES ASSUME NEW x \in N, x = c \/ x \in Before(r, at) PROVE FALSE
    OBVIOUS
  <2>1. PICK j \in 1..n : at < j /\ x = o[j]
    BY <1>1, <1>5, <1>7
  <2>2. \E k \in 1..n : k <= at /\ x = o[k]
    BY <1>1, <1>6
  <2>3. PICK k \in 1..n : k <= at /\ x = o[k]
    BY <2>2
  <2>4. k < j
    BY <1>1, <2>1, <2>3
  <2> QED
    BY <1>2, <2>1, <2>3, <2>4
<1> QED
  BY <1>9, <1>10, <1>11, <1>12 DEF NeedsExactly, N, c, at
-----------------------------------------------------------------------------
(* What the variables hold                                                  *)

LEMMA WorldTyped ==
  ASSUME TypeOK, NEW r \in Runs
  PROVE  /\ Cs(r) \subseteq Contracts /\ Cs(r) # {}
         /\ \A c \in Cs(r) : /\ Wasm(r, c) \in Wasms
                             /\ Deps(r, c) \subseteq Contracts
         /\ world.lag \in Nat /\ world.polls \in Nat \ {0}
<1>1. IsWorld(world)
  BY WorldsAssumption DEF TypeOK
<1>2. PICK cs \in (SUBSET Contracts) \ {{}} : world.fixture[r] \in FixtureOf(cs)
  BY <1>1 DEF IsWorld
<1>3. Cs(r) = cs
  BY <1>2 DEF Cs, fixture, FixtureOf
<1> QED
  BY <1>1, <1>2, <1>3 DEF IsWorld, FixtureOf, Wasm, Deps, fixture

LEMMA LedgersTyped ==
  ASSUME TypeOK, LedgersKeep
  PROVE  /\ head \in Nat \ {0} /\ Newest \in Ledger
         /\ \A l \in 1..head : chain[l] \in Ledger
         /\ \A l \in Answers : l \in 1..head
  BY DEF TypeOK, LedgersKeep, head, Newest, Answers

LEMMA NumbersTyped ==
  ASSUME NEW a \in Accounts, NEW w \in Wasms, NEW g \in Ledger
  PROVE  g.inst[<<a, w>>] \in Nat /\ g.code[w] \in Nat /\ g.seq[a] \in Nat
  BY DEF Ledger

LEMMA RunTyped ==
  ASSUME TypeOK, NEW r \in Runs
  PROVE  run[r] \in State /\ run \in [Runs -> State]
  BY DEF TypeOK

(* The contract being deployed is one of the run's, and comes next.        *)
LEMMA CurrentOf ==
  ASSUME TypeOK, NEW r \in Runs, Ordered(r), run[r].pc \in Setup
  PROVE  /\ run[r].at \in 1..Len(run[r].order)
         /\ Current(r) \in Cs(r) /\ Current(r) \in Contracts /\ Current(r) # 0
         /\ Wasm(r, Current(r)) \in Wasms
         /\ Current(r) \notin Committed(r)
<1>1. run[r].order \in Seq(Contracts) /\ run[r].at \in Nat \ {0}
  BY RunTyped DEF State
<1>2. run[r].at \in 1..Len(run[r].order)
  BY <1>1 DEF Ordered
<1>3. Current(r) \in Cs(r) \ Before(r, run[r].at)
  BY <1>2 DEF Ordered, Current
<1>4. Current(r) \in Contracts /\ Wasm(r, Current(r)) \in Wasms
  BY <1>3, WorldTyped
<1> QED
  BY <1>2, <1>3, <1>4, WorldsAssumption DEF Ordered

-----------------------------------------------------------------------------
(* What a step of run r may change, and how it treats the shared key file. *)
KeyStep(r) ==
  LET held  == file["shared"]
      held2 == file'["shared"]
  IN \/ /\ held2 = held /\ run'[r].account = run[r].account
        /\ run'[r].pc \in {"open", "write"} => run'[r].pc = run[r].pc
     \/ /\ held2 = held /\ run'[r].account = run[r].account /\ run'[r].pc = "open"
        /\ r \in Shared => held = NoFile
     \/ /\ run'[r].account = run[r].account /\ run'[r].pc = "write" /\ At(r, "open")
        /\ held2 = IF r \in Shared THEN Empty ELSE held
     \/ /\ run'[r].account = r /\ run'[r].pc = "ready" /\ At(r, "write")
        /\ held2 = IF r \in Shared THEN r ELSE held
     \/ /\ held2 = held /\ run'[r].pc = "ready"
        /\ r \in Shared => held \in Accounts /\ run'[r].account = held

Frame(r) ==
  /\ UNCHANGED <<chain, world>> /\ pool' \subseteq Tx
  /\ run' = [run EXCEPT ![r] = run'[r]] /\ run'[r] \in State
  /\ run[r].pc \notin Ended /\ run'[r].pc # "idle"
  /\ IF At(r, "idle") THEN run'[r].after = {q \in Runs : run[q].pc \in Ended}
     ELSE run'[r].after = run[r].after
  /\ file' \in [Files -> Accounts \cup {NoFile, Empty}]
  /\ KeyStep(r)

Done(r) == Frame(r) /\ RunInv(r)'

(* A step sets fields of its run alone.                                    *)
LEMMA Becomes ==
  ASSUME TypeOK, NEW r \in Runs, NEW s, run' = [run EXCEPT ![r] = s]
  PROVE  run'[r] = s /\ run' = [run EXCEPT ![r] = run'[r]]
  BY DEF TypeOK

(* Another run's state, and what it relies on, stay as they were.          *)
LEMMA OthersKept ==
  ASSUME NEW r \in Runs, RunInv(r), run'[r] = run[r], UNCHANGED <<chain, world>>
  PROVE  RunInv(r)'
<1>1. Ordered(r)'
  BY DEF RunInv, Ordered, WellFormed, Placed, Before, Committed, Cs, Deps, fixture
<1>2. Staged(r)'
  BY DEF RunInv, Staged, Named, NeedsExactly, Closed, Committed, Cs, Deps, fixture
<1>3. CallTells(r)'
  <2>1. /\ Claimed(r)' = Claimed(r) /\ Newest' = Newest
        /\ \A c : Creations(r, c)' = Creations(r, c)
        /\ Address(r, Current(r))' = Address(r, Current(r))
    BY DEF Claimed, Committed, Creations, Address, Wasm, Current, Cs, fixture, Newest, head
  <2> QED
    BY <2>1 DEF RunInv, CallTells
<1>4. ReceiptsHold(r)'
  BY DEF RunInv, ReceiptsHold, Claimed, Committed, Creations, Address, Wasm, Cs,
     fixture, Newest, head
<1> QED
  BY <1>1, <1>2, <1>3, <1>4 DEF RunInv

-----------------------------------------------------------------------------
(* The parts of the invariant that a step of the run itself leaves alone    *)

SamePlan(r) == run'[r].order = run[r].order /\ run'[r].at = run[r].at
SameHeld(r) == run'[r].receipts = run[r].receipts /\ run'[r].account = run[r].account
SameEnd(r)  == run'[r].measured = run[r].measured /\ run'[r].failure = run[r].failure

OnPlan(r) ==
  /\ run'[r].pc \notin Unplanned => run[r].pc \notin Unplanned
  /\ run'[r].pc \in Setup => run[r].pc \in Setup
  /\ run'[r].pc \in {"measure", "done"} => run[r].pc \in {"measure", "done"}
  /\ run'[r].pc \in Keyless \cup {"ready"} => run[r].pc \in Keyless \cup {"ready"}
Keyed == {"ready", "measure", "done"} \cup Setup
OnKey(r) ==
  /\ run'[r].pc \in Keyless => run[r].pc \in Keyless
  /\ run'[r].pc \in Keyed => run[r].pc \in Keyed
  /\ run'[r].pc \in Keyless \cup {"ready"} \cup Setup =>
       run[r].pc \in Keyless \cup {"ready"} \cup Setup
  /\ run'[r].pc = "measure" => run[r].pc = "measure"

LEMMA OrderedKept ==
  ASSUME NEW r \in Runs, Ordered(r), UNCHANGED world, SamePlan(r), OnPlan(r),
         run'[r].receipts = run[r].receipts
  PROVE  Ordered(r)'
<1>1. /\ \A n : Before(r, n)' = Before(r, n)
      /\ Placed(r)' = Placed(r) /\ Cs(r)' = Cs(r) /\ Committed(r)' = Committed(r)
      /\ \A c : Deps(r, c)' = Deps(r, c)
      /\ WellFormed(r)' = WellFormed(r)
  BY DEF SamePlan, WellFormed, Placed, Before, Committed, Cs, Deps, fixture
<1>2. \A i \in 1..Len(run'[r].order) :
         /\ run'[r].order[i] \in Cs(r)' \ Before(r, i)'
         /\ Deps(r, run[r].order[i])' \subseteq Before(r, i)'
  BY <1>1 DEF Ordered, SamePlan
<1> QED
  BY <1>1, <1>2 DEF Ordered, OnPlan, SamePlan

LEMMA StagedKept ==
  ASSUME NEW r \in Runs, Staged(r), UNCHANGED world, SameHeld(r), SameEnd(r), OnKey(r),
         run[r].pc # "failed"
  PROVE  Staged(r)'
<1>1. Committed(r)' = Committed(r) /\ Cs(r)' = Cs(r) /\ run[r].failure.contract = 0
  BY DEF Staged, Committed, SameHeld, Cs, fixture
<1> QED
  BY <1>1 DEF Staged, SameHeld, SameEnd, OnKey, Keyed

LEMMA ReceiptsKept ==
  ASSUME NEW r \in Runs, ReceiptsHold(r), UNCHANGED <<chain, world>>, SameHeld(r),
         run[r].sent \subseteq run'[r].sent
  PROVE  ReceiptsHold(r)'
<1>1. /\ Committed(r)' = Committed(r) /\ Claimed(r)' = Claimed(r)
      /\ \A c : Creations(r, c)' = Creations(r, c) /\ Wasm(r, c)' = Wasm(r, c)
                /\ Address(r, c)' = Address(r, c)
      /\ Newest' = Newest
  BY DEF Committed, Claimed, Creations, Address, Wasm, SameHeld, Cs, fixture, Newest, head
<1> QED
  BY <1>1 DEF ReceiptsHold, SameHeld

LEMMA CallQuiet ==
  ASSUME NEW r \in Runs, run'[r].pc \notin Built \cup {"code"}, run'[r].call.polls = 0
  PROVE  CallTells(r)'
  BY DEF CallTells, Built
(* Most steps leave the plan, the receipts and the account alone.          *)
LEMMA Continues ==
  ASSUME NEW r \in Runs, RunInv(r), UNCHANGED <<chain, world>>,
         SamePlan(r), SameHeld(r), SameEnd(r), OnPlan(r), OnKey(r),
         run[r].pc # "failed", run[r].sent \subseteq run'[r].sent, CallTells(r)'
  PROVE  RunInv(r)'
<1>1. Ordered(r)' /\ Staged(r)' /\ ReceiptsHold(r)'
  BY OrderedKept, StagedKept, ReceiptsKept DEF RunInv, SameHeld
<1> QED
  BY <1>1 DEF RunInv

(* Before the deployments there are no receipts.                           *)
LEMMA NoneCommitted ==
  ASSUME NEW r \in Runs, RunInv(r), run[r].pc \in Keyless \cup {"ready"}
  PROVE  Committed(r) = {} /\ run[r].at = 1 /\ run[r].call.polls = 0
<1>1. run[r].at = 1 /\ Committed(r) = Before(r, 1) /\ run[r].pc \notin {"poll", "sleep"}
  BY DEF RunInv, Ordered, Keyless
<1> QED
  BY <1>1 DEF Before, RunInv, CallTells

LEMMA GotoEffect ==
  ASSUME TypeOK, NEW r \in Runs, NEW step, Goto(r, step)
  PROVE  run'[r] = [run[r] EXCEPT !.pc = step] /\ run' = [run EXCEPT ![r] = run'[r]]
<1>1. run' = [run EXCEPT ![r] = [run[r] EXCEPT !.pc = step]]
  BY RunTyped DEF Goto
<1> QED
  BY <1>1, Becomes

LEMMA LeaveEffect ==
  ASSUME TypeOK, NEW r \in Runs, NEW how, Leave(r, how)
  PROVE  /\ run'[r] = [run[r] EXCEPT !.pc = how, !.call = Locals]
         /\ run' = [run EXCEPT ![r] = run'[r]]
<1>1. run' = [run EXCEPT ![r] = [run[r] EXCEPT !.pc = how, !.call = Locals]]
  BY RunTyped DEF Leave
<1> QED
  BY <1>1, Becomes

(* A key directory of the run's own is not the shared key file.            *)
LEMMA Releases ==
  ASSUME TypeOK, NEW r \in Runs, NEW how, Release(r, how)
  PROVE  file' \in [Files -> Accounts \cup {NoFile, Empty}] /\ file'["shared"] = file["shared"]
  BY RunsAssumption DEF TypeOK, Release, Files

LEMMA LocalsTyped ==
  ASSUME TypeOK
  PROVE  Locals \in [since : Nat, kind : {"upload", "create"}, tx : Tx \cup {NoTx},
                     polls : 0..world.polls]
         /\ Locals.polls = 0
<1>1. world.polls \in Nat \ {0}
  BY WorldsAssumption DEF TypeOK, IsWorld
<1> QED
  BY <1>1 DEF Locals

(* Ending in any way but a failed deployment.                              *)
LEMMA Leaves ==
  ASSUME IInv, NEW r \in Runs, run[r].pc \in Active, NEW how \in {"failed", "killed"},
         Leave(r, how), UNCHANGED <<chain, world, pool>>,
         file' \in [Files -> Accounts \cup {NoFile, Empty}], file'["shared"] = file["shared"]
  PROVE  Done(r)
<1>1. TypeOK /\ RunInv(r) /\ run[r] \in State
  BY RunTyped DEF IInv
<1>2. /\ run'[r] = [run[r] EXCEPT !.pc = how, !.call = Locals]
      /\ run' = [run EXCEPT ![r] = run'[r]]
  BY <1>1, LeaveEffect
<1>3. /\ run'[r] \in State /\ run'[r].pc = how /\ run'[r].call.polls = 0
      /\ SamePlan(r) /\ SameHeld(r) /\ SameEnd(r) /\ run'[r].sent = run[r].sent
      /\ run'[r].after = run[r].after
  BY <1>1, <1>2, LocalsTyped DEF State, SamePlan, SameHeld, SameEnd, Ended
<1>4. run[r].pc \notin Ended \cup {"idle"} /\ how \notin Active \cup {"idle", "done"}
  BY DEF Active, Ended, Setup
<1>5. Frame(r)
  BY <1>1, <1>2, <1>3, <1>4 DEF Frame, KeyStep, SameHeld, At, TypeOK
<1>6. OnPlan(r) /\ OnKey(r) /\ how \notin Built \cup {"code"}
  BY <1>3 DEF OnPlan, OnKey, Unplanned, Keyless, Keyed, Setup, Built
<1>7. CallTells(r)'
  BY <1>3, <1>6, CallQuiet
<1>8. RunInv(r)'
  BY <1>1, <1>3, <1>4, <1>6, <1>7, Continues DEF Ended
<1> QED
  BY <1>5, <1>8 DEF Done
-----------------------------------------------------------------------------
(* Plan and key                                                             *)

LEMMA BeginDone ==
  ASSUME IInv, NEW r \in Runs, Begin(r)
  PROVE  Done(r)
<1>1. TypeOK /\ RunInv(r) /\ run[r] \in State /\ run[r].pc = "idle"
  BY RunTyped DEF IInv, Begin, At
<1> DEFINE over == {q \in Runs : run[q].pc \in Ended}
<1>2. run' = [run EXCEPT ![r] = [run[r] EXCEPT !.pc = "plan", !.after = over]]
  BY <1>1 DEF Begin
<1> HIDE DEF over
<1>3. /\ run'[r] = [run[r] EXCEPT !.pc = "plan", !.after = over]
      /\ run' = [run EXCEPT ![r] = run'[r]]
  BY <1>1, <1>2, Becomes
<1>4. over \subseteq Runs
  BY DEF over
<1>5. /\ run'[r] \in State /\ run'[r].pc = "plan" /\ run'[r].call = run[r].call
      /\ SamePlan(r) /\ SameHeld(r) /\ SameEnd(r) /\ run'[r].sent = run[r].sent
      /\ run'[r].after = over
  BY <1>1, <1>3, <1>4 DEF State, SamePlan, SameHeld, SameEnd, Active
<1>6. Frame(r)
  BY <1>1, <1>3, <1>5 DEF Frame, KeyStep, SameHeld, At, TypeOK, Begin, Ended, over
<1>7. OnPlan(r) /\ OnKey(r)
  BY <1>1, <1>5 DEF OnPlan, OnKey, Unplanned, Keyless, Keyed, Setup
<1>8. CallTells(r)'
  BY <1>1, <1>5, CallQuiet, NoneCommitted DEF Keyless, Built
<1>9. RunInv(r)'
  BY <1>1, <1>5, <1>7, <1>8, Continues DEF Begin
<1> QED
  BY <1>6, <1>9 DEF Done

(* The next contract in the plan is one whose dependencies are placed.     *)
LEMMA PlanDone ==
  ASSUME IInv, NEW r \in Runs, Plan(r)
  PROVE  Done(r)
<1>1. TypeOK /\ RunInv(r) /\ run[r] \in State /\ run[r].pc = "plan"
  BY RunTyped DEF IInv, Plan, At
<1> DEFINE d == Least(Placeable(r))
           o == run[r].order
<1>2. d \in Placeable(r)
  <2>1. Placeable(r) \in SUBSET Nat
    BY <1>1, WorldTyped, WorldsAssumption DEF Placeable
  <2> QED
    BY <2>1, LeastOf DEF Plan
<1>3. d \in Cs(r) \ Placed(r) /\ Deps(r, d) \subseteq Placed(r) /\ d \in Contracts
  BY <1>1, <1>2, WorldTyped DEF Placeable
<1>4. run' = [run EXCEPT ![r] = [run[r] EXCEPT !.order = Append(o, d)]]
  BY <1>1 DEF Plan
<1> HIDE DEF d
<1>5. /\ run'[r] = [run[r] EXCEPT !.order = Append(o, d)]
      /\ run' = [run EXCEPT ![r] = run'[r]]
  BY <1>1, <1>4, Becomes
<1>6. o \in Seq(Contracts) /\ Append(o, d) \in Seq(Contracts)
  BY <1>1, <1>3 DEF State
<1>7. /\ run'[r] \in State /\ run'[r].pc = "plan" /\ run'[r].call = run[r].call
      /\ SameHeld(r) /\ SameEnd(r) /\ run'[r].sent = run[r].sent
      /\ run'[r].after = run[r].after /\ run'[r].at = run[r].at
      /\ run'[r].order = Append(o, d)
  BY <1>1, <1>5, <1>6 DEF State, SameHeld, SameEnd
<1>8. Frame(r)
  BY <1>1, <1>5, <1>7 DEF Frame, KeyStep, SameHeld, At, TypeOK, Plan, Ended
<1>9. OnKey(r)
  BY <1>1, <1>7 DEF OnKey, Keyless, Keyed, Setup
<1>10. CallTells(r)'
  BY <1>1, <1>7, CallQuiet, NoneCommitted DEF Keyless, Built
<1>11. Staged(r)' /\ ReceiptsHold(r)'
  BY <1>1, <1>7, <1>9, StagedKept, ReceiptsKept DEF Plan, RunInv
<1>12. Ordered(r)'
  <2>1. /\ Cs(r)' = Cs(r) /\ \A c : Deps(r, c)' = Deps(r, c)
        /\ Committed(r) = {} /\ Committed(r)' = Committed(r) /\ run[r].at = 1
    BY <1>1, <1>7, NoneCommitted DEF Plan, Cs, Deps, fixture, Committed, SameHeld, Keyless
  <2>2. Before(r, 1)' = {}
    BY DEF Before
  <2> DEFINE n == Len(o)
  <2>3. n \in Nat /\ Len(Append(o, d)) = n + 1
    BY <1>6
  <2>4. \A i \in 1..n : Append(o, d)[i] = o[i]
    BY <1>6
  <2>5. Append(o, d)[n + 1] = d
    BY <1>6
  <2> HIDE DEF o, n
  <2> DEFINE B(i) == {Append(o, d)[j] : j \in 1..(i - 1)}
  <2>12. \A i : Before(r, i)' = B(i)
    BY <1>7 DEF Before
  <2>6. \A i \in 1..n : B(i) = Before(r, i)
    <3>1. \A i \in 1..n : \A j \in 1..(i - 1) : j \in 1..n
      BY <2>3
    <3>2. \A i \in 1..n : \A j \in 1..(i - 1) : Append(o, d)[j] = o[j]
      BY <2>4, <3>1
    <3>3. \A i : Before(r, i) = {o[j] : j \in 1..(i - 1)}
      BY DEF Before, o
    <3> SUFFICES ASSUME NEW i \in 1..n
                 PROVE  {Append(o, d)[j] : j \in 1..(i - 1)} = {o[j] : j \in 1..(i - 1)}
      BY <3>3
    <3> QED
      BY <3>2
  <2>7. B(n + 1) = Placed(r)
    <3>1. (n + 1) - 1 = n
      BY <2>3
    <3>2. Placed(r) = {o[j] : j \in 1..n}
      BY DEF Placed, o, n
    <3> QED
      BY <2>4, <3>1, <3>2
  <2>8. \A i \in 1..(n + 1) : i \in 1..n \/ i = n + 1
    BY <2>3
  <2> HIDE DEF B
  <2>9. ASSUME NEW i \in 1..(n + 1)
        PROVE  Append(o, d)[i] \in Cs(r) \ B(i) /\ Deps(r, Append(o, d)[i]) \subseteq B(i)
    <3>1. CASE i \in 1..n
      <4>1. o[i] \in Cs(r) \ Before(r, i) /\ Deps(r, o[i]) \subseteq Before(r, i)
        BY <1>1, <3>1 DEF RunInv, Ordered, o, n
      <4>2. Append(o, d)[i] = o[i] /\ B(i) = Before(r, i)
        BY <2>4, <2>6, <3>1
      <4> QED
        BY <4>1, <4>2
    <3>2. CASE i = n + 1
      <4>1. Append(o, d)[i] = d /\ B(i) = Placed(r)
        BY <2>5, <2>7, <3>2
      <4> QED
        BY <1>3, <4>1
    <3> QED
      BY <2>8, <3>1, <3>2
  <2>10. \A i \in 1..Len(run'[r].order) : /\ run'[r].order[i] \in Cs(r)' \ Before(r, i)'
                                          /\ Deps(r, run[r].order[i])' \subseteq Before(r, i)'
    <3>1. run'[r].order = Append(o, d) /\ Len(run'[r].order) = n + 1
      BY <1>7, <2>3
    <3>2. \A i : Deps(r, run[r].order[i])' = Deps(r, Append(o, d)[i])
      BY <2>1, <3>1 DEF Deps, fixture, Plan
    <3> QED
      BY <2>12, <2>1, <2>9, <3>1, <3>2
  <2>11. run'[r].at <= Len(run'[r].order) + 1
    BY <1>7, <2>1, <2>3
  <2> QED
    BY <1>1, <1>7, <2>1, <2>2, <2>10, <2>11 DEF Ordered, Unplanned, Setup
<1> QED
  BY <1>8, <1>10, <1>11, <1>12 DEF Done, RunInv
(* A step on the way to the account.                                       *)
LEMMA Approaches ==
  ASSUME IInv, NEW r \in Runs, run[r].pc \in {"plan", "look", "open", "write", "ready"},
         NEW step \in {"look", "open", "write", "ready", "probe"},
         Goto(r, step), UNCHANGED <<chain, world, pool>>
  PROVE  /\ run'[r] = [run[r] EXCEPT !.pc = step] /\ run' = [run EXCEPT ![r] = run'[r]]
         /\ run'[r] \in State /\ run'[r].pc = step /\ run'[r].call = run[r].call
         /\ SamePlan(r) /\ SameHeld(r) /\ SameEnd(r) /\ run'[r].sent = run[r].sent
         /\ run'[r].after = run[r].after
         /\ CallTells(r)' /\ ReceiptsHold(r)'
<1>1. TypeOK /\ RunInv(r) /\ run[r] \in State
  BY RunTyped DEF IInv
<1>2. run'[r] = [run[r] EXCEPT !.pc = step] /\ run' = [run EXCEPT ![r] = run'[r]]
  BY <1>1, GotoEffect
<1>3. /\ run'[r] \in State /\ run'[r].pc = step /\ run'[r].call = run[r].call
      /\ SamePlan(r) /\ SameHeld(r) /\ SameEnd(r) /\ run'[r].sent = run[r].sent
      /\ run'[r].after = run[r].after
  BY <1>1, <1>2 DEF State, SamePlan, SameHeld, SameEnd, Active, Setup
<1>4. CallTells(r)'
  BY <1>1, <1>3, CallQuiet, NoneCommitted DEF Keyless, Built
<1>5. ReceiptsHold(r)'
  BY <1>1, <1>3, ReceiptsKept DEF RunInv
<1> QED
  BY <1>2, <1>3, <1>4, <1>5

LEMMA PlannedDone ==
  ASSUME IInv, NEW r \in Runs, Planned(r)
  PROVE  Done(r)
<1>1. TypeOK /\ RunInv(r) /\ run[r] \in State /\ run[r].pc = "plan"
  BY RunTyped DEF IInv, Planned, At
<1>2. /\ run' = [run EXCEPT ![r] = run'[r]]
      /\ run'[r] \in State /\ run'[r].pc = "look"
      /\ SamePlan(r) /\ SameHeld(r) /\ SameEnd(r) /\ run'[r].sent = run[r].sent
      /\ run'[r].after = run[r].after
      /\ CallTells(r)' /\ ReceiptsHold(r)'
  BY <1>1, Approaches DEF Planned
<1>3. Frame(r)
  BY <1>1, <1>2 DEF Frame, KeyStep, SameHeld, At, TypeOK, Planned, Ended
<1>4. OnKey(r)
  BY <1>1, <1>2 DEF OnKey, Keyless, Keyed, Setup
<1>5. Staged(r)'
  BY <1>1, <1>2, <1>4, StagedKept DEF Planned, RunInv
<1>6. Ordered(r)'
  <2>1. /\ \A n : Before(r, n)' = Before(r, n)
        /\ Placed(r)' = Placed(r) /\ Cs(r)' = Cs(r) /\ Committed(r)' = Committed(r)
        /\ \A c : Deps(r, c)' = Deps(r, c)
        /\ WellFormed(r)' = WellFormed(r)
    BY <1>2 DEF SamePlan, SameHeld, Planned, WellFormed, Placed, Before, Committed, Cs, Deps,
       fixture
  <2>2. \A i \in 1..Len(run'[r].order) :
           /\ run'[r].order[i] \in Cs(r)' \ Before(r, i)'
           /\ Deps(r, run[r].order[i])' \subseteq Before(r, i)'
    BY <1>1, <1>2, <2>1 DEF RunInv, Ordered, SamePlan
  <2>3. run[r].at = 1
    BY <1>1, NoneCommitted DEF Keyless
  <2> QED
    BY <1>1, <1>2, <2>1, <2>2, <2>3 DEF RunInv, Ordered, SamePlan, Planned, Setup
<1> QED
  BY <1>2, <1>3, <1>5, <1>6 DEF Done, RunInv

(* A run that ends without a failed deployment, as PlanFails and others.   *)
LEMMA EndDone ==
  ASSUME IInv, NEW r \in Runs, run[r].pc \in Active, End(r, "failed"),
         UNCHANGED <<chain, world, pool>>
  PROVE  Done(r)
<1>1. file' \in [Files -> Accounts \cup {NoFile, Empty}] /\ file'["shared"] = file["shared"]
  BY Releases DEF IInv, End
<1> QED
  BY <1>1, Leaves DEF End

LEMMA LookDone ==
  ASSUME IInv, NEW r \in Runs, LookForKey(r)
  PROVE  Done(r)
<1>1. TypeOK /\ RunInv(r) /\ run[r] \in State /\ run[r].pc = "look"
  BY RunTyped DEF IInv, LookForKey, At
<1>2. UNCHANGED <<chain, world, pool>> /\ file \in [Files -> Accounts \cup {NoFile, Empty}]
  BY <1>1 DEF LookForKey, TypeOK
<1>3. CASE ~KeyFound(r) /\ Goto(r, "open") /\ UNCHANGED file
  <2>1. /\ run' = [run EXCEPT ![r] = run'[r]]
        /\ run'[r] \in State /\ run'[r].pc = "open"
        /\ SamePlan(r) /\ SameHeld(r) /\ SameEnd(r) /\ run'[r].sent = run[r].sent
        /\ run'[r].after = run[r].after /\ CallTells(r)'
    BY <1>1, <1>2, <1>3, Approaches
  <2>2. r \in Shared => file["shared"] = NoFile
    BY <1>3 DEF KeyFound, KeyFile
  <2>3. Frame(r)
    BY <1>1, <1>2, <1>3, <2>1, <2>2 DEF Frame, KeyStep, SameHeld, At, TypeOK, Ended
  <2>4. OnPlan(r) /\ OnKey(r)
    BY <1>1, <2>1 DEF OnPlan, OnKey, Unplanned, Keyless, Keyed, Setup
  <2>5. RunInv(r)'
    BY <1>1, <1>2, <2>1, <2>4, Continues
  <2> QED
    BY <2>3, <2>5 DEF Done
<1>4. CASE /\ KeyFound(r)
           /\ file[KeyFile(r)] \in Accounts
           /\ run' = [run EXCEPT ![r].pc = "ready", ![r].account = file[KeyFile(r)]]
           /\ UNCHANGED file
  <2> DEFINE a == file[KeyFile(r)]
  <2>1. run' = [run EXCEPT ![r] = [run[r] EXCEPT !.pc = "ready", !.account = a]]
    BY <1>1, <1>4
  <2>2. a \in Accounts /\ (r \in Shared => a = file["shared"])
    BY <1>4 DEF KeyFile
  <2> HIDE DEF a
  <2>3. /\ run'[r] = [run[r] EXCEPT !.pc = "ready", !.account = a]
        /\ run' = [run EXCEPT ![r] = run'[r]]
    BY <1>1, <2>1, Becomes
  <2>4. /\ run'[r] \in State /\ run'[r].pc = "ready" /\ run'[r].call = run[r].call
        /\ SamePlan(r) /\ SameEnd(r) /\ run'[r].sent = run[r].sent
        /\ run'[r].after = run[r].after /\ run'[r].account = a
        /\ run'[r].receipts = run[r].receipts
    BY <1>1, <2>2, <2>3 DEF State, SamePlan, SameEnd, Active
  <2>5. Frame(r)
    BY <1>1, <1>2, <1>4, <2>2, <2>3, <2>4 DEF Frame, KeyStep, At, TypeOK, Ended
  <2>6. RunInv(r)'
    <3>1. OnPlan(r)
      BY <1>1, <2>4 DEF OnPlan, Unplanned, Keyless, Setup
    <3>2. Ordered(r)'
      BY <1>1, <1>2, <2>4, <3>1, OrderedKept DEF RunInv
    <3>3. Committed(r)' = {} /\ CallTells(r)'
      <4>1. Committed(r) = {} /\ run'[r].call.polls = 0
        BY <1>1, <2>4, NoneCommitted DEF Keyless
      <4>2. Committed(r)' = {}
        BY <1>2, <2>4, <4>1 DEF Committed, Cs, fixture
      <4> QED
        BY <2>4, <4>1, <4>2, CallQuiet DEF Built
    <3>4. ReceiptsHold(r)'
      BY <3>3 DEF ReceiptsHold, Claimed
    <3>5. Staged(r)'
      BY <1>1, <2>2, <2>4, <3>3 DEF RunInv, Staged, SameEnd, Keyless, Setup
    <3> QED
      BY <3>2, <3>3, <3>4, <3>5 DEF RunInv
  <2> QED
    BY <2>5, <2>6 DEF Done
<1>5. CASE KeyFound(r) /\ file[KeyFile(r)] = Empty /\ End(r, "failed")
  BY <1>1, <1>2, <1>5, EndDone DEF Active
<1> QED
  BY <1>3, <1>4, <1>5 DEF LookForKey
LEMMA OpenDone ==
  ASSUME IInv, NEW r \in Runs, OpenKey(r)
  PROVE  Done(r)
<1>1. TypeOK /\ RunInv(r) /\ run[r] \in State /\ run[r].pc = "open"
  BY RunTyped DEF IInv, OpenKey, At
<1>2. UNCHANGED <<chain, world, pool>>
  BY DEF OpenKey
<1>3. /\ file' \in [Files -> Accounts \cup {NoFile, Empty}]
      /\ file'["shared"] = IF r \in Shared THEN Empty ELSE file["shared"]
  BY <1>1, RunsAssumption DEF OpenKey, TypeOK, Files, KeyFile
<1>4. /\ run' = [run EXCEPT ![r] = run'[r]]
      /\ run'[r] \in State /\ run'[r].pc = "write"
      /\ SamePlan(r) /\ SameHeld(r) /\ SameEnd(r) /\ run'[r].sent = run[r].sent
      /\ run'[r].after = run[r].after /\ CallTells(r)'
  BY <1>1, <1>2, Approaches DEF OpenKey
<1>5. Frame(r)
  BY <1>1, <1>2, <1>3, <1>4 DEF Frame, KeyStep, SameHeld, At, TypeOK, Ended
<1>6. OnPlan(r) /\ OnKey(r)
  BY <1>1, <1>4 DEF OnPlan, OnKey, Unplanned, Keyless, Keyed, Setup
<1>7. RunInv(r)'
  BY <1>1, <1>2, <1>4, <1>6, Continues
<1> QED
  BY <1>5, <1>7 DEF Done

LEMMA WriteDone ==
  ASSUME IInv, NEW r \in Runs, WriteKey(r)
  PROVE  Done(r)
<1>1. TypeOK /\ RunInv(r) /\ run[r] \in State /\ run[r].pc = "write"
  BY RunTyped DEF IInv, WriteKey, At
<1>2. UNCHANGED <<chain, world, pool>>
  BY DEF WriteKey
<1>3. /\ file' \in [Files -> Accounts \cup {NoFile, Empty}]
      /\ file'["shared"] = IF r \in Shared THEN r ELSE file["shared"]
  BY <1>1, RunsAssumption DEF WriteKey, TypeOK, Files, KeyFile, Accounts
<1>4. run' = [run EXCEPT ![r] = [run[r] EXCEPT !.pc = "ready", !.account = r]]
  BY <1>1 DEF WriteKey
<1>5. /\ run'[r] = [run[r] EXCEPT !.pc = "ready", !.account = r]
      /\ run' = [run EXCEPT ![r] = run'[r]]
  BY <1>1, <1>4, Becomes
<1>6. /\ run'[r] \in State /\ run'[r].pc = "ready" /\ run'[r].call = run[r].call
      /\ SamePlan(r) /\ SameEnd(r) /\ run'[r].sent = run[r].sent
      /\ run'[r].after = run[r].after /\ run'[r].account = r
      /\ run'[r].receipts = run[r].receipts
  BY <1>1, <1>5 DEF State, SamePlan, SameEnd, Active, Accounts
<1>7. Frame(r)
  BY <1>1, <1>2, <1>3, <1>5, <1>6 DEF Frame, KeyStep, At, TypeOK, Ended
<1>8. RunInv(r)'
  <2>1. OnPlan(r)
    BY <1>1, <1>6 DEF OnPlan, Unplanned, Keyless, Setup
  <2>2. Ordered(r)'
    BY <1>1, <1>2, <1>6, <2>1, OrderedKept DEF RunInv
  <2>3. Committed(r)' = {} /\ CallTells(r)'
    <3>1. Committed(r) = {} /\ run'[r].call.polls = 0
      BY <1>1, <1>6, NoneCommitted DEF Keyless
    <3>2. Committed(r)' = {}
      BY <1>2, <1>6, <3>1 DEF Committed, Cs, fixture
    <3> QED
      BY <1>6, <3>1, <3>2, CallQuiet DEF Built
  <2>4. ReceiptsHold(r)'
    BY <2>3 DEF ReceiptsHold, Claimed
  <2>5. Staged(r)'
    BY <1>1, <1>6, <2>3 DEF RunInv, Staged, SameEnd, Keyless, Setup, Accounts
  <2> QED
    BY <2>2, <2>3, <2>4, <2>5 DEF RunInv
<1> QED
  BY <1>7, <1>8 DEF Done

LEMMA ReadyDone ==
  ASSUME IInv, NEW r \in Runs, EnsureReady(r)
  PROVE  Done(r)
<1>1. TypeOK /\ RunInv(r) /\ run[r] \in State /\ run[r].pc = "ready"
  BY RunTyped DEF IInv, EnsureReady, At
<1>2. UNCHANGED <<chain, world, pool>>
  BY DEF EnsureReady
<1>3. CASE Goto(r, "probe") /\ UNCHANGED file
  <2>1. /\ run' = [run EXCEPT ![r] = run'[r]]
        /\ run'[r] \in State /\ run'[r].pc = "probe"
        /\ SamePlan(r) /\ SameHeld(r) /\ SameEnd(r) /\ run'[r].sent = run[r].sent
        /\ run'[r].after = run[r].after /\ CallTells(r)' /\ ReceiptsHold(r)'
    BY <1>1, <1>2, <1>3, Approaches
  <2>2. Frame(r)
    BY <1>1, <1>2, <1>3, <2>1 DEF Frame, KeyStep, SameHeld, At, TypeOK, Ended
  <2>3. OnKey(r)
    BY <1>1, <2>1 DEF OnKey, Keyless, Keyed, Setup
  <2>4. Staged(r)'
    BY <1>1, <1>2, <2>1, <2>3, StagedKept DEF RunInv
  <2>5. Ordered(r)'
    <3>1. /\ \A n : Before(r, n)' = Before(r, n)
          /\ Placed(r)' = Placed(r) /\ Cs(r)' = Cs(r) /\ Committed(r)' = Committed(r)
          /\ \A c : Deps(r, c)' = Deps(r, c)
          /\ WellFormed(r)' = WellFormed(r)
      BY <1>2, <2>1 DEF SamePlan, SameHeld, WellFormed, Placed, Before, Committed, Cs, Deps,
         fixture
    <3>2. \A i \in 1..Len(run'[r].order) :
             /\ run'[r].order[i] \in Cs(r)' \ Before(r, i)'
             /\ Deps(r, run[r].order[i])' \subseteq Before(r, i)'
      BY <1>1, <2>1, <3>1 DEF RunInv, Ordered, SamePlan
    <3>3. run[r].at = 1 /\ Len(run[r].order) \in Nat /\ Cs(r) # {}
      BY <1>1, NoneCommitted, WorldTyped DEF State
    <3>4. Placed(r) = Cs(r) /\ WellFormed(r)
      BY <1>1 DEF RunInv, Ordered, Unplanned
    <3>5. 1 <= Len(run[r].order)
      BY <3>3, <3>4 DEF Placed
    <3> QED
      BY <1>1, <2>1, <3>1, <3>2, <3>3, <3>4, <3>5 DEF RunInv, Ordered, SamePlan, Setup, Keyless
  <2> QED
    BY <2>1, <2>2, <2>4, <2>5 DEF Done, RunInv
<1>4. CASE End(r, "failed")
  BY <1>1, <1>2, <1>4, EndDone DEF Active
<1> QED
  BY <1>3, <1>4 DEF EnsureReady

LEMMA KillDone ==
  ASSUME IInv, NEW r \in Runs, Kill(r)
  PROVE  Done(r)
<1>1. file' \in [Files -> Accounts \cup {NoFile, Empty}] /\ file'["shared"] = file["shared"]
  BY DEF IInv, TypeOK, Kill
<1> QED
  BY <1>1, Leaves DEF Kill

-----------------------------------------------------------------------------
(* ensureContractDeployed                                                   *)

(* What the call of a run may say in a state that is like this one.        *)
Told(r, step, k) ==
  /\ step \notin {"poll", "sleep"} => k.polls = 0
  /\ step = "poll" => k.polls < world.polls
  /\ step \in Built =>
       /\ k.tx \in Tx
       /\ k.tx.kind = k.kind
       /\ <<k.tx.account, k.tx.wasm>> = Address(r, Current(r))
       /\ \A c \in Claimed(r) : k.tx \notin Creations(r, c)
  /\ step = "code" =>
       /\ k.since # 0
       /\ Newest.inst[Address(r, Current(r))] >= k.since + MinTtl

Call == [since : Nat, kind : {"upload", "create"}, tx : Tx \cup {NoTx}, polls : 0..world.polls]

LEMMA CallFields ==
  ASSUME NEW s \in State, NEW step, NEW k, NEW sent
  PROVE  /\ [s EXCEPT !.pc = step, !.call = k, !.sent = sent].pc = step
         /\ [s EXCEPT !.pc = step, !.call = k, !.sent = sent].call = k
         /\ [s EXCEPT !.pc = step, !.call = k, !.sent = sent].sent = sent
         /\ [s EXCEPT !.pc = step, !.call = k, !.sent = sent].after = s.after
  BY DEF State

LEMMA Calls ==
  ASSUME IInv, NEW r \in Runs, run[r].pc \in Setup, NEW step \in Setup, NEW k \in Call,
         NEW sent \in SUBSET Tx, run[r].sent \subseteq sent,
         Told(r, step, k), step \in {"poll", "sleep"} => k.tx \in sent,
         run' = [run EXCEPT ![r] = [run[r] EXCEPT !.pc = step, !.call = k, !.sent = sent]],
         UNCHANGED <<chain, file, world>>, pool' \subseteq Tx
  PROVE  Done(r)
<1>1. TypeOK /\ RunInv(r) /\ run[r] \in State
  BY RunTyped DEF IInv
<1>2. /\ run'[r] = [run[r] EXCEPT !.pc = step, !.call = k, !.sent = sent]
      /\ run' = [run EXCEPT ![r] = run'[r]]
  BY <1>1, Becomes
<1>3. /\ run'[r] \in State /\ run'[r].pc = step /\ run'[r].call = k /\ run'[r].sent = sent
      /\ SamePlan(r) /\ SameHeld(r) /\ SameEnd(r) /\ run'[r].after = run[r].after
  <2>1. step \in Active \cup Ended \cup {"idle"}
    BY DEF Active
  <2>2. [run[r] EXCEPT !.pc = step, !.call = k, !.sent = sent] \in State
    BY <1>1, <2>1 DEF State, Call
  <2>3. run'[r] \in State
    BY <1>2, <2>2
  <2>4. /\ run'[r].pc = step /\ run'[r].call = k /\ run'[r].sent = sent
        /\ run'[r].after = run[r].after
    <3> DEFINE s == [run[r] EXCEPT !.pc = step, !.call = k, !.sent = sent]
    <3>1. run[r] \in State
      BY <1>1
    <3>2. s.pc = step /\ s.call = k /\ s.sent = sent /\ s.after = run[r].after
      BY ONLY <3>1, CallFields
    <3>3. run'[r] = s
      BY <1>2
    <3> HIDE DEF s
    <3> QED
      BY <3>2, <3>3
  <2>5. SamePlan(r) /\ SameHeld(r) /\ SameEnd(r)
    BY <1>1, <1>2 DEF State, SamePlan, SameHeld, SameEnd
  <2> QED
    BY <2>3, <2>4, <2>5
<1>4. run[r].pc \notin Ended \cup {"idle"} /\ step \notin {"open", "write", "idle"}
  BY DEF Setup, Ended
<1>5. Frame(r)
  BY <1>1, <1>2, <1>3, <1>4 DEF Frame, KeyStep, SameHeld, At, TypeOK
<1>6. OnPlan(r) /\ OnKey(r)
  BY <1>3 DEF OnPlan, OnKey, Unplanned, Keyless, Keyed, Setup
<1>7. CallTells(r)'
  <2>1. /\ Claimed(r)' = Claimed(r) /\ Newest' = Newest
        /\ \A c : Creations(r, c)' = Creations(r, c)
        /\ Address(r, Current(r))' = Address(r, Current(r))
    BY <1>3 DEF SamePlan, SameHeld, Claimed, Committed, Creations, Address, Wasm, Current, Cs,
       fixture, Newest, head
  <2> QED
    BY <1>3, <2>1 DEF CallTells, Told
<1>8. RunInv(r)'
  BY <1>1, <1>3, <1>4, <1>6, <1>7, Continues DEF Ended
<1> QED
  BY <1>5, <1>8 DEF Done
(* What an answering node holds of an entry, the newest ledger holds still.*)
LEMMA AnswersOld ==
  ASSUME IInv, NEW l \in Answers, NEW a \in Accounts, NEW w \in Wasms
  PROVE  /\ l \in Nat \ {0} /\ chain[l].ok \subseteq Newest.ok
         /\ chain[l].inst[<<a, w>>] \in Nat /\ chain[l].code[w] \in Nat
         /\ Newest.inst[<<a, w>>] \in Nat /\ Newest.code[w] \in Nat
         /\ chain[l].inst[<<a, w>>] <= Newest.inst[<<a, w>>]
         /\ chain[l].code[w] <= Newest.code[w]
<1>1. l \in 1..head /\ head \in Nat \ {0} /\ chain[l] \in Ledger /\ Newest \in Ledger
  BY LedgersTyped DEF IInv
<1>2. /\ chain[l].inst[<<a, w>>] \in Nat /\ chain[l].code[w] \in Nat
      /\ Newest.inst[<<a, w>>] \in Nat /\ Newest.code[w] \in Nat
  BY <1>1, NumbersTyped
<1>3. /\ chain[l].inst[<<a, w>>] # 0 => Newest.inst[<<a, w>>] = chain[l].inst[<<a, w>>]
      /\ chain[l].code[w] <= Newest.code[w]
      /\ chain[l].ok \subseteq Newest.ok
  <2>1. <<a, w>> \in Accounts \X Wasms
    OBVIOUS
  <2> QED
    BY <1>1, <2>1 DEF IInv, LedgersKeep
<1> QED
  BY <1>1, <1>2, <1>3

LEMMA SetupState ==
  ASSUME IInv, NEW r \in Runs, run[r].pc \in Setup
  PROVE  /\ TypeOK /\ RunInv(r) /\ run[r] \in State
         /\ run[r].call \in Call /\ run[r].sent \in SUBSET Tx
         /\ run[r].at \in 1..Len(run[r].order)
         /\ Current(r) \in Cs(r) /\ Current(r) \in Contracts /\ Current(r) # 0
         /\ Wasm(r, Current(r)) \in Wasms /\ run[r].account \in Accounts
         /\ Current(r) \notin Committed(r)
<1>1. TypeOK /\ RunInv(r) /\ run[r] \in State
  BY RunTyped DEF IInv
<1>2. run[r].call \in Call /\ run[r].sent \in SUBSET Tx
  BY <1>1 DEF State, Call
<1>3. run[r].account \in Accounts
  BY <1>1 DEF RunInv, Staged
<1> QED
  BY <1>1, <1>2, <1>3, CurrentOf DEF RunInv

LEMMA ProbeDone ==
  ASSUME IInv, NEW r \in Runs, Probe(r)
  PROVE  Done(r)
<1>1. run[r].pc = "probe" /\ run[r].pc \in Setup
  BY DEF Probe, At, Setup
<1>2. /\ TypeOK /\ RunInv(r) /\ run[r] \in State /\ run[r].call \in Call
      /\ run[r].sent \in SUBSET Tx
      /\ Wasm(r, Current(r)) \in Wasms /\ run[r].account \in Accounts
  BY <1>1, SetupState
<1>3. UNCHANGED <<chain, file, world>> /\ pool' \subseteq Tx
  BY <1>2 DEF Probe, TypeOK
<1>4. run[r].call.polls = 0
  BY <1>1, <1>2 DEF RunInv, CallTells
<1>5. PICK l \in Answers :
        \/ run' = [run EXCEPT ![r].pc = "account"]
        \/ /\ Reusable(chain[l].inst[Address(r, Current(r))], l)
           /\ run' = [run EXCEPT ![r].pc = "code", ![r].call.since = l]
  BY DEF Probe
<1>6. CASE run' = [run EXCEPT ![r].pc = "account"]
  <2>1. run' = [run EXCEPT ![r] = [run[r] EXCEPT !.pc = "account", !.call = run[r].call,
                                                 !.sent = run[r].sent]]
    BY <1>2, <1>6 DEF State
  <2>2. Told(r, "account", run[r].call)
    BY <1>4 DEF Told, Built
  <2>3. "account" \in Setup
    BY DEF Setup
  <2> QED
    BY <1>1, <1>2, <1>3, <2>1, <2>2, <2>3, Calls
<1>7. CASE /\ Reusable(chain[l].inst[Address(r, Current(r))], l)
           /\ run' = [run EXCEPT ![r].pc = "code", ![r].call.since = l]
  <2> DEFINE k == [run[r].call EXCEPT !.since = l]
  <2>1. /\ l \in Nat \ {0}
        /\ chain[l].inst[Address(r, Current(r))] \in Nat
        /\ Newest.inst[Address(r, Current(r))] \in Nat
        /\ chain[l].inst[Address(r, Current(r))] <= Newest.inst[Address(r, Current(r))]
    BY <1>2, AnswersOld DEF Address
  <2>2. k \in Call /\ k.polls = 0 /\ k.since = l
    BY <1>2, <1>4, <2>1 DEF Call
  <2>3. run' = [run EXCEPT ![r] = [run[r] EXCEPT !.pc = "code", !.call = k,
                                                 !.sent = run[r].sent]]
    BY <1>2, <1>7 DEF State
  <2> HIDE DEF k
  <2>4. Newest.inst[Address(r, Current(r))] >= l + MinTtl
    BY <1>7, <2>1, BoundsAssumption DEF Reusable
  <2>5. Told(r, "code", k)
    BY <2>1, <2>2, <2>4 DEF Told, Built
  <2>6. "code" \in Setup
    BY DEF Setup
  <2> QED
    BY <1>1, <1>2, <1>3, <2>2, <2>3, <2>5, <2>6, Calls
<1> QED
  BY <1>5, <1>6, <1>7

LEMMA BuiltSeconds ==
  ASSUME IInv, NEW r \in Runs
  PROVE  BuiltWith(r) \subseteq Runs
<1> SUFFICES ASSUME NEW q \in Runs, run[q].pc \in {"prepare", "send"}
             PROVE  run[q].call.tx.second \in Runs
  BY DEF BuiltWith
<1>1. run[q].call.tx \in Tx
  BY DEF IInv, RunInv, CallTells, Built
<1> QED
  BY <1>1 DEF Tx

LEMMA GetAccountDone ==
  ASSUME IInv, NEW r \in Runs, GetAccount(r)
  PROVE  Done(r)
<1>1. run[r].pc = "account" /\ run[r].pc \in Setup
  BY DEF GetAccount, At, Setup
<1>2. /\ TypeOK /\ RunInv(r) /\ run[r] \in State /\ run[r].call \in Call
      /\ run[r].sent \in SUBSET Tx
      /\ Wasm(r, Current(r)) \in Wasms /\ run[r].account \in Accounts
  BY <1>1, SetupState
<1>3. UNCHANGED <<chain, file, world>> /\ pool' \subseteq Tx
  BY <1>2 DEF GetAccount, TypeOK
<1>4. run[r].call.polls = 0
  BY <1>1, <1>2 DEF RunInv, CallTells
<1>5. PICK l \in Answers, second \in BuiltWith(r) :
        LET tx == [account |-> run[r].account, seq |-> chain[l].seq[run[r].account] + 1,
                   kind |-> run[r].call.kind, wasm |-> Wasm(r, Current(r)), second |-> second]
        IN ~Settled(tx) /\ run' = [run EXCEPT ![r].pc = "prepare", ![r].call.tx = tx]
  BY DEF GetAccount
<1> DEFINE tx == [account |-> run[r].account, seq |-> chain[l].seq[run[r].account] + 1,
                  kind |-> run[r].call.kind, wasm |-> Wasm(r, Current(r)), second |-> second]
           k == [run[r].call EXCEPT !.tx = tx]
<1>6. ~Settled(tx) /\ run' = [run EXCEPT ![r].pc = "prepare", ![r].call.tx = tx]
  BY <1>5
<1>7. second \in Runs
  BY BuiltSeconds
<1>8. chain[l].seq[run[r].account] \in Nat
  <2>1. chain[l] \in Ledger
    BY LedgersTyped DEF IInv
  <2> QED
    BY <1>2, <2>1, NumbersTyped
<1>9. tx \in Tx /\ tx.kind = run[r].call.kind /\ <<tx.account, tx.wasm>> = Address(r, Current(r))
  BY <1>2, <1>7, <1>8 DEF Tx, Call, Address
<1> HIDE DEF tx
<1>10. k \in Call /\ k.polls = 0 /\ k.tx = tx /\ k.kind = run[r].call.kind
  BY <1>2, <1>4, <1>9 DEF Call
<1>11. run' = [run EXCEPT ![r] = [run[r] EXCEPT !.pc = "prepare", !.call = k,
                                                !.sent = run[r].sent]]
  BY <1>2, <1>6 DEF State
<1> HIDE DEF k
<1>12. \A c \in Claimed(r) : tx \notin Creations(r, c)
  BY <1>6 DEF Settled, Creations
<1>13. Told(r, "prepare", k)
  BY <1>9, <1>10, <1>12 DEF Told
<1>14. "prepare" \in Setup
  BY DEF Setup
<1> QED
  BY <1>1, <1>2, <1>3, <1>10, <1>11, <1>13, <1>14, Calls
(* A failed deployment ends the run and names what needed the contract.    *)
LEMMA Fails ==
  ASSUME IInv, NEW r \in Runs, run[r].pc \in Setup, FailSetup(r),
         UNCHANGED <<chain, world>>, pool' \subseteq Tx
  PROVE  Done(r)
<1>1. /\ TypeOK /\ RunInv(r) /\ run[r] \in State
      /\ run[r].at \in 1..Len(run[r].order)
      /\ Current(r) \in Contracts /\ Current(r) # 0
  BY SetupState
<1>2. /\ Ordered(r) /\ Placed(r) = Cs(r) /\ Committed(r) = Before(r, run[r].at)
      /\ run[r].measured = {} /\ run[r].account \in Accounts
  BY <1>1 DEF RunInv, Ordered, Staged, Unplanned, Setup
<1> DEFINE N == DependentsOf(r, Current(r))
<1>3. /\ NeedsExactly(r, Current(r), N) /\ N \subseteq Contracts
      /\ N \cap ({Current(r)} \cup Committed(r)) = {}
  BY <1>1, <1>2, DependentsExact DEF Ordered, State
<1> DEFINE f == [contract |-> Current(r), named |-> IF run[r].aborted THEN {} ELSE N]
<1>4. f \in [contract : Contracts \cup {0}, named : SUBSET Contracts]
  BY <1>1, <1>3
<1>5. run' = [run EXCEPT ![r] = [run[r] EXCEPT !.pc = "failed", !.call = Locals, !.failure = f]]
  BY <1>1 DEF FailSetup
<1>6. /\ f.contract = Current(r)
      /\ ~run[r].aborted => NeedsExactly(r, Current(r), f.named)
      /\ f.named \cap ({Current(r)} \cup Committed(r)) = {}
  BY <1>3
<1> HIDE DEF N, f
<1>7. /\ run'[r] = [run[r] EXCEPT !.pc = "failed", !.call = Locals, !.failure = f]
      /\ run' = [run EXCEPT ![r] = run'[r]]
  BY <1>1, <1>5, Becomes
<1>8. /\ run'[r] \in State /\ run'[r].pc = "failed" /\ run'[r].call = Locals
      /\ run'[r].sent = run[r].sent /\ run'[r].failure = f
      /\ run'[r].aborted = run[r].aborted /\ run'[r].measured = run[r].measured
      /\ SamePlan(r) /\ SameHeld(r) /\ run'[r].after = run[r].after
  BY <1>1, <1>4, <1>7, LocalsTyped DEF State, SamePlan, SameHeld, Ended
<1>9. /\ file' \in [Files -> Accounts \cup {NoFile, Empty}] /\ file'["shared"] = file["shared"]
  BY <1>1, Releases DEF FailSetup
<1>10. Frame(r)
  <2>1. run[r].pc \notin Ended \cup {"idle"}
    BY DEF Setup, Ended
  <2> QED
    BY <1>1, <1>7, <1>8, <1>9, <2>1 DEF Frame, KeyStep, SameHeld, At
<1>11. Ordered(r)'
  <2>1. OnPlan(r)
    BY <1>8 DEF OnPlan, Unplanned, Setup, Keyless
  <2> QED
    BY <1>1, <1>8, <2>1, OrderedKept DEF RunInv, SameHeld
<1>12. CallTells(r)' /\ ReceiptsHold(r)'
  BY <1>1, <1>8, CallQuiet, LocalsTyped, ReceiptsKept DEF RunInv, Built
<1>13. Staged(r)'
  <2>1. Committed(r)' = Committed(r) /\ \A c, S : NeedsExactly(r, c, S)' <=> NeedsExactly(r, c, S)
    BY <1>8 DEF Committed, SameHeld, NeedsExactly, Closed, Cs, Deps, fixture
  <2>2. Named(r)'
    BY <1>2, <1>6, <1>8, <2>1 DEF Named
  <2>3. run'[r].account \in Accounts
    BY <1>2, <1>8 DEF SameHeld
  <2> QED
    BY <1>8, <2>1, <2>2, <2>3 DEF Staged, Keyless, Setup
<1> QED
  BY <1>10, <1>11, <1>12, <1>13 DEF Done, RunInv

(* A contract is deployed: its receipt is put down, the next one comes.    *)
LEMMA Deploys ==
  ASSUME IInv, NEW r \in Runs, run[r].pc \in Setup,
         NEW source \in {"created", "existing_instance"}, NEW since \in Nat,
         Deployed(r, source, since), UNCHANGED <<chain, pool, file, world>>,
         source = "created" =>
           /\ Creations(r, Current(r)) # {} /\ Creations(r, Current(r)) \subseteq run[r].sent
           /\ \A d \in Claimed(r) : Wasm(r, d) # Wasm(r, Current(r)),
         source # "created" =>
           /\ since # 0
           /\ Newest.inst[Address(r, Current(r))] >= since + MinTtl
           /\ Newest.code[Wasm(r, Current(r))] >= since + MinTtl
  PROVE  Done(r)
<1>1. /\ TypeOK /\ RunInv(r) /\ run[r] \in State
      /\ run[r].at \in 1..Len(run[r].order)
      /\ Current(r) \in Cs(r) /\ Current(r) \in Contracts /\ Current(r) \notin Committed(r)
      /\ run[r].account \in Accounts
  BY SetupState
<1> DEFINE c == Current(r)
           receipt == [source |-> source, since |-> since]
           receipts == [run[r].receipts EXCEPT ![c] = receipt]
           step == IF run[r].at = Len(run[r].order) THEN "measure" ELSE "probe"
<1>2. run' = [run EXCEPT ![r] = [run[r] EXCEPT !.receipts = receipts, !.call = Locals,
                                               !.at = run[r].at + 1, !.pc = step]]
  BY <1>1 DEF Deployed
<1>3. receipt \in Receipt /\ receipt # NoReceipt /\ receipt.source = source /\ receipt.since = since
  BY DEF Receipt, NoReceipt
<1>4. run[r].receipts \in [Contracts -> Receipt]
  BY <1>1 DEF State
<1>5. /\ receipts \in [Contracts -> Receipt] /\ receipts[c] = receipt
      /\ \A d \in Contracts : d # c => receipts[d] = run[r].receipts[d]
  BY <1>1, <1>3, <1>4
<1>6. Cs(r) \subseteq Contracts /\ Cs(r) # {}
  BY <1>1, WorldTyped
<1> HIDE DEF receipt, receipts
<1>7. /\ run'[r] = [run[r] EXCEPT !.receipts = receipts, !.call = Locals,
                                  !.at = run[r].at + 1, !.pc = step]
      /\ run' = [run EXCEPT ![r] = run'[r]]
  BY <1>1, <1>2, Becomes
<1>8. step \in {"measure", "probe"} /\ step \in Active /\ run[r].at + 1 \in Nat \ {0}
  BY <1>1 DEF Active, Setup
<1>9. /\ run'[r] \in State /\ run'[r].pc = step /\ run'[r].call = Locals
      /\ run'[r].sent = run[r].sent /\ SameEnd(r) /\ run'[r].aborted = run[r].aborted
      /\ run'[r].receipts = receipts /\ run'[r].at = run[r].at + 1
      /\ run'[r].order = run[r].order /\ run'[r].account = run[r].account
      /\ run'[r].after = run[r].after
  <2> HIDE DEF step, c
  <2>4. [run[r] EXCEPT !.receipts = receipts, !.call = Locals,
                       !.at = run[r].at + 1, !.pc = step] \in State
    <3>1. Locals \in [since : Nat, kind : {"upload", "create"}, tx : Tx \cup {NoTx},
                      polls : 0..world.polls]
      BY <1>1, LocalsTyped
    <3>2. step \in Active \cup Ended \cup {"idle"}
      BY <1>8
    <3> QED
      BY <1>1, <1>5, <1>8, <3>1, <3>2 DEF State
  <2>1. run'[r] \in State
    BY <1>7, <2>4
  <2>2. /\ run'[r].pc = step /\ run'[r].call = Locals /\ run'[r].receipts = receipts
        /\ run'[r].at = run[r].at + 1
    BY <1>1, <1>7 DEF State
  <2>3. /\ run'[r].sent = run[r].sent /\ SameEnd(r) /\ run'[r].aborted = run[r].aborted
        /\ run'[r].order = run[r].order /\ run'[r].account = run[r].account
        /\ run'[r].after = run[r].after
    BY <1>1, <1>7 DEF State, SameEnd
  <2> QED
    BY <2>1, <2>2, <2>3
<1>10. Frame(r)
  <2>1. run[r].pc \notin Ended \cup {"idle"}
    BY DEF Setup, Ended
  <2> QED
    BY <1>1, <1>7, <1>8, <1>9, <2>1 DEF Frame, KeyStep, At, TypeOK
<1>11. /\ Cs(r)' = Cs(r) /\ \A d : Deps(r, d)' = Deps(r, d) /\ Wasm(r, d)' = Wasm(r, d)
       /\ \A n : Before(r, n)' = Before(r, n) /\ Placed(r)' = Placed(r)
       /\ WellFormed(r)' = WellFormed(r)
       /\ \A d : Address(r, d)' = Address(r, d) /\ Creations(r, d)' = Creations(r, d)
       /\ Newest' = Newest
  BY <1>9 DEF Cs, Deps, Wasm, Before, Placed, WellFormed, Address, Creations, Newest, head, fixture
<1>12. Committed(r)' = Committed(r) \cup {c}
  BY <1>1, <1>3, <1>5, <1>6, <1>9, <1>11 DEF Committed
<1>13. Claimed(r)' = Claimed(r) \cup (IF source = "created" THEN {c} ELSE {})
  <2>1. c \notin Committed(r)
    BY <1>1
  <2>2. \A d \in Committed(r) : d # c /\ d \in Contracts
    BY <1>6, <2>1 DEF Committed
  <2>3. \A d \in Committed(r) : receipts[d].source = run[r].receipts[d].source
    BY <1>5, <2>2
  <2> HIDE DEF c
  <2> QED
    BY <1>3, <1>5, <1>9, <1>12, <2>3 DEF Claimed
<1>14. Ordered(r)'
  <2>1. Committed(r) = Before(r, run[r].at)
    BY <1>1 DEF RunInv, Ordered
  <2>2. Before(r, run[r].at + 1) = Before(r, run[r].at) \cup {c}
    <3>1. \A i : i \in 1..((run[r].at + 1) - 1) <=> i \in 1..(run[r].at - 1) \/ i = run[r].at
      BY <1>1
    <3> QED
      BY <3>1 DEF Before, Current
  <2>3. Committed(r)' = Before(r, run[r].at + 1)
    BY <1>12, <2>1, <2>2
  <2>4. run[r].pc \notin Unplanned
    BY DEF Setup, Unplanned
  <2>5. \A i \in 1..Len(run'[r].order) :
           /\ run'[r].order[i] \in Cs(r)' \ Before(r, i)'
           /\ Deps(r, run[r].order[i])' \subseteq Before(r, i)'
    BY <1>1, <1>9, <1>11 DEF RunInv, Ordered
  <2>6. step \notin Keyless \cup {"ready", "done"} /\ (step \in Setup => step = "probe")
    BY <1>8 DEF Keyless, Setup
  <2>7. Len(run[r].order) \in Nat
    BY <1>1 DEF State
  <2> QED
    BY <1>1, <1>9, <1>11, <2>3, <2>4, <2>5, <2>6, <2>7 DEF RunInv, Ordered
<1>15. CallTells(r)'
  BY <1>8, <1>9, LocalsTyped, <1>1, CallQuiet DEF Built
<1>16. Staged(r)'
  <2>1. run[r].measured = {} /\ run[r].failure.contract = 0
    BY <1>1 DEF RunInv, Staged, Setup
  <2>2. step \notin Keyless
    BY <1>8 DEF Keyless
  <2> QED
    BY <1>1, <1>6, <1>8, <1>9, <1>11, <2>1, <2>2 DEF Staged, SameEnd
<1>17. ReceiptsHold(r)'
  <2>1. \A d \in Claimed(r) : d # c /\ d \in Cs(r)
    BY <1>1 DEF Claimed, Committed
  <2>2. \A d \in Claimed(r)' : /\ Creations(r, d) # {} /\ Creations(r, d) \subseteq run[r].sent
                               /\ \A e \in Claimed(r)' : Wasm(r, d) = Wasm(r, e) => d = e
    <3>1. CASE source = "created"
      BY <1>1, <1>13, <3>1 DEF RunInv, ReceiptsHold
    <3>2. CASE source # "created"
      BY <1>1, <1>13, <3>2 DEF RunInv, ReceiptsHold
    <3> QED
      BY <3>1, <3>2
  <2>3. ASSUME NEW d \in Committed(r)', d \notin Claimed(r)'
        PROVE  /\ receipts[d].since # 0
               /\ Newest.inst[Address(r, d)] >= receipts[d].since + MinTtl
               /\ Newest.code[Wasm(r, d)] >= receipts[d].since + MinTtl
    <3>1. CASE d = c
      <4>1. source # "created"
        BY <1>13, <2>3, <3>1
      <4> QED
        BY <1>3, <1>5, <3>1, <4>1
    <3>2. CASE d # c
      <4>1. d \in Committed(r) \ Claimed(r) /\ d \in Contracts
        BY <1>6, <1>12, <1>13, <2>3, <3>2 DEF Committed
      <4>2. receipts[d] = run[r].receipts[d]
        BY <1>5, <3>2, <4>1
      <4> QED
        BY <1>1, <4>1, <4>2 DEF RunInv, ReceiptsHold
    <3> QED
      BY <3>1, <3>2
  <2> QED
    BY <1>9, <1>11, <2>2, <2>3 DEF ReceiptsHold
<1> QED
  BY <1>10, <1>14, <1>15, <1>16, <1>17 DEF Done, RunInv
LEMMA ProbeCodeDone ==
  ASSUME IInv, NEW r \in Runs, ProbeCode(r)
  PROVE  Done(r)
<1>1. run[r].pc = "code" /\ run[r].pc \in Setup
  BY DEF ProbeCode, At, Setup
<1>2. /\ RunInv(r) /\ run[r].call \in Call
      /\ Wasm(r, Current(r)) \in Wasms /\ run[r].account \in Accounts
  BY <1>1, SetupState
<1>3. UNCHANGED <<chain, pool, file, world>>
  BY DEF ProbeCode
<1>4. PICK l \in Answers :
        /\ Reusable(chain[l].code[Wasm(r, Current(r))], l)
        /\ Deployed(r, "existing_instance", Least({run[r].call.since, l}))
  BY DEF ProbeCode
<1> DEFINE w == Wasm(r, Current(r))
           since == Least({run[r].call.since, l})
<1>5. /\ l \in Nat \ {0} /\ chain[l].code[w] \in Nat
      /\ chain[l].code[w] <= Newest.code[w] /\ Newest.code[w] \in Nat
      /\ Newest.inst[Address(r, Current(r))] \in Nat
  BY <1>2, AnswersOld DEF Address
<1>6. /\ run[r].call.since \in Nat \ {0}
      /\ Newest.inst[Address(r, Current(r))] >= run[r].call.since + MinTtl
  BY <1>1, <1>2 DEF RunInv, CallTells, Call
<1>7. since \in {run[r].call.since, l} /\ since <= run[r].call.since /\ since <= l
  <2>1. {run[r].call.since, l} \in SUBSET Nat
    BY <1>5, <1>6
  <2> QED
    BY <2>1, LeastOf
<1> HIDE DEF since
<1>8. since \in Nat /\ since # 0
  BY <1>5, <1>6, <1>7
<1>9. chain[l].code[w] >= l + MinTtl
  BY <1>4, <1>5, BoundsAssumption DEF Reusable
<1>10. /\ Newest.inst[Address(r, Current(r))] >= since + MinTtl
       /\ Newest.code[w] >= since + MinTtl
  BY <1>5, <1>6, <1>7, <1>8, <1>9, BoundsAssumption
<1>11. Deployed(r, "existing_instance", since)
  BY <1>4 DEF since
<1> QED
  BY <1>1, <1>3, <1>8, <1>10, <1>11, Deploys

LEMMA PrepareDone ==
  ASSUME IInv, NEW r \in Runs, Prepare(r)
  PROVE  Done(r)
<1>1. run[r].pc = "prepare" /\ run[r].pc \in Setup /\ "send" \in Setup
  BY DEF Prepare, At, Setup
<1>2. /\ TypeOK /\ RunInv(r) /\ run[r] \in State /\ run[r].call \in Call
      /\ run[r].sent \in SUBSET Tx
  BY <1>1, SetupState
<1>3. UNCHANGED <<chain, file, world>> /\ pool' \subseteq Tx
  BY <1>2 DEF Prepare, TypeOK
<1>4. run' = [run EXCEPT ![r] = [run[r] EXCEPT !.pc = "send", !.call = run[r].call,
                                               !.sent = run[r].sent]]
  BY <1>2 DEF Prepare, Goto, State
<1>5. Told(r, "send", run[r].call)
  BY <1>1, <1>2 DEF RunInv, CallTells, Told, Built
<1> QED
  BY <1>1, <1>2, <1>3, <1>4, <1>5, Calls

(* What a run submits is a transaction of its own making.                  *)
LEMMA Submits ==
  ASSUME IInv, NEW r \in Runs, run[r].pc = "send", Submitted(run[r].call.tx)
  PROVE  run[r].call.tx \in Tx /\ pool' \subseteq Tx
<1>1. run[r].call.tx \in Tx
  BY DEF IInv, RunInv, CallTells, Built
<1> QED
  BY <1>1 DEF Submitted, IInv, TypeOK

LEMMA SendDone ==
  ASSUME IInv, NEW r \in Runs, Send(r)
  PROVE  Done(r)
<1>1. run[r].pc = "send" /\ run[r].pc \in Setup /\ "poll" \in Setup
  BY DEF Send, At, Setup
<1>2. /\ TypeOK /\ RunInv(r) /\ run[r] \in State /\ run[r].call \in Call
      /\ run[r].sent \in SUBSET Tx
  BY <1>1, SetupState
<1>3. UNCHANGED <<chain, file, world>> /\ pool' \subseteq Tx /\ run[r].call.tx \in Tx
  BY <1>1, Submits DEF Send
<1> DEFINE sent == run[r].sent \cup {run[r].call.tx}
<1>4. sent \in SUBSET Tx /\ run[r].sent \subseteq sent /\ run[r].call.tx \in sent
  BY <1>2, <1>3
<1>5. run' = [run EXCEPT ![r] = [run[r] EXCEPT !.pc = "poll", !.call = run[r].call,
                                               !.sent = sent]]
  BY <1>2 DEF Send, State
<1> HIDE DEF sent
<1>6. Told(r, "poll", run[r].call)
  <2>1. run[r].call.polls = 0 /\ world.polls \in Nat \ {0}
    BY <1>1, <1>2, WorldTyped DEF RunInv, CallTells
  <2> QED
    BY <1>1, <1>2, <2>1 DEF RunInv, CallTells, Told, Built
<1> QED
  BY <1>1, <1>2, <1>3, <1>4, <1>5, <1>6, Calls

LEMMA SendLostDone ==
  ASSUME IInv, NEW r \in Runs, SendLost(r)
  PROVE  Done(r)
  BY Submits, Fails DEF SendLost, At, Setup

(* A creation confirmed is the only one at its address, and no contract    *)
(* with the same WASM was created by it before.                            *)
LEMMA ConfirmDone ==
  ASSUME IInv, NEW r \in Runs, Confirm(r)
  PROVE  Done(r)
<1>1. run[r].pc = "poll" /\ run[r].pc \in Setup /\ "account" \in Setup
  BY DEF Confirm, At, Setup
<1>2. /\ TypeOK /\ RunInv(r) /\ run[r] \in State /\ run[r].call \in Call
      /\ run[r].sent \in SUBSET Tx
      /\ Wasm(r, Current(r)) \in Wasms /\ run[r].account \in Accounts
      /\ Current(r) \in Cs(r)
  BY <1>1, SetupState
<1>3. UNCHANGED <<chain, file, pool, world>> /\ pool' \subseteq Tx
  BY <1>2 DEF Confirm, TypeOK
<1>4. CASE run[r].call.kind = "upload"
  <2> DEFINE k == [Locals EXCEPT !.kind = "create"]
  <2>1. run' = [run EXCEPT ![r] = [run[r] EXCEPT !.pc = "account", !.call = k,
                                                 !.sent = run[r].sent]]
    BY <1>2, <1>4 DEF Confirm, State
  <2>2. k \in Call /\ k.polls = 0
    <3>1. world.polls \in Nat \ {0}
      BY <1>2, WorldTyped
    <3> QED
      BY <3>1 DEF Locals, Call
  <2> HIDE DEF k
  <2>3. Told(r, "account", k)
    BY <2>2 DEF Told, Built
  <2> QED
    BY <1>1, <1>2, <1>3, <2>1, <2>2, <2>3, Calls
<1>5. CASE run[r].call.kind # "upload"
  <2>1. Deployed(r, "created", 0) /\ \E l \in Answers : Succeeded(r, l)
    BY <1>5 DEF Confirm
  <2> DEFINE tx == run[r].call.tx
             x == Address(r, Current(r))
  <2>2. tx \in Newest.ok
    BY <1>2, <2>1, AnswersOld DEF Succeeded
  <2>3. /\ tx.kind = "create" /\ <<tx.account, tx.wasm>> = x
        /\ tx \in run[r].sent /\ \A d \in Claimed(r) : tx \notin Creations(r, d)
    BY <1>1, <1>2, <1>5 DEF RunInv, CallTells, Built, Call
  <2>4. x \in Accounts \X Wasms
    BY <1>2 DEF Address
  <2> HIDE DEF tx
  <2>5. Creates(tx, x)
    BY <2>3 DEF Creates
  <2>6. \A t2 \in Newest.ok : Creates(t2, x) => t2 = tx
    BY <2>2, <2>4, <2>5 DEF IInv, LedgersKeep
  <2>7. Creations(r, Current(r)) = {tx}
    BY <2>2, <2>3, <2>6 DEF Creations, Creates
  <2>8. \A d \in Claimed(r) : Wasm(r, d) # Wasm(r, Current(r))
    BY <2>3, <2>7 DEF Creations, Address
  <2> QED
    BY <1>1, <1>3, <2>1, <2>3, <2>7, <2>8, Deploys
<1> QED
  BY <1>4, <1>5

LEMMA NotFoundDone ==
  ASSUME IInv, NEW r \in Runs, NotFound(r)
  PROVE  Done(r)
<1>1. run[r].pc = "poll" /\ run[r].pc \in Setup /\ "sleep" \in Setup
  BY DEF NotFound, At, Setup
<1>2. /\ TypeOK /\ RunInv(r) /\ run[r] \in State /\ run[r].call \in Call
      /\ run[r].sent \in SUBSET Tx
  BY <1>1, SetupState
<1>3. UNCHANGED <<chain, file, world>> /\ pool' \subseteq Tx
  BY <1>2 DEF NotFound, TypeOK
<1> DEFINE k == [run[r].call EXCEPT !.polls = @ + 1]
<1>4. run' = [run EXCEPT ![r] = [run[r] EXCEPT !.pc = "sleep", !.call = k,
                                               !.sent = run[r].sent]]
  BY <1>2 DEF NotFound, State
<1>5. k \in Call /\ k.tx = run[r].call.tx /\ k.kind = run[r].call.kind
  <2>1. run[r].call.polls < world.polls /\ world.polls \in Nat
    BY <1>1, <1>2, WorldTyped DEF RunInv, CallTells
  <2> QED
    BY <1>2, <2>1 DEF Call
<1> HIDE DEF k
<1>6. Told(r, "sleep", k) /\ k.tx \in run[r].sent
  BY <1>1, <1>2, <1>5 DEF RunInv, CallTells, Told, Built
<1> QED
  BY <1>1, <1>2, <1>3, <1>4, <1>5, <1>6, Calls

LEMMA PollAgainDone ==
  ASSUME IInv, NEW r \in Runs, PollAgain(r)
  PROVE  Done(r)
<1>1. run[r].pc = "sleep" /\ run[r].pc \in Setup /\ "poll" \in Setup
  BY DEF PollAgain, At, Setup
<1>2. /\ TypeOK /\ RunInv(r) /\ run[r] \in State /\ run[r].call \in Call
      /\ run[r].sent \in SUBSET Tx
  BY <1>1, SetupState
<1>3. UNCHANGED <<chain, file, world>> /\ pool' \subseteq Tx
  BY <1>2 DEF PollAgain, TypeOK
<1>4. run' = [run EXCEPT ![r] = [run[r] EXCEPT !.pc = "poll", !.call = run[r].call,
                                               !.sent = run[r].sent]]
  BY <1>2 DEF PollAgain, Goto, State
<1>5. Told(r, "poll", run[r].call) /\ run[r].call.tx \in run[r].sent
  BY <1>1, <1>2 DEF RunInv, CallTells, Told, Built, PollAgain, PollsLeft
<1> QED
  BY <1>1, <1>2, <1>3, <1>4, <1>5, Calls

LEMMA FailuresDone ==
  ASSUME IInv, NEW r \in Runs, GiveUp(r) \/ SetupFails(r)
  PROVE  Done(r)
<1>1. pool \subseteq Tx
  BY DEF IInv, TypeOK
<1> QED
  BY <1>1, Fails DEF GiveUp, SetupFails, At, Setup

-----------------------------------------------------------------------------
(* Measurements and aborts                                                  *)

LEMMA MeasureDone ==
  ASSUME IInv, NEW r \in Runs, Measure(r)
  PROVE  Done(r)
<1>1. TypeOK /\ RunInv(r) /\ run[r] \in State /\ run[r].pc = "measure"
  BY RunTyped DEF IInv, Measure, At
<1> DEFINE c == Least(Cs(r) \ run[r].measured)
           measured == run[r].measured \cup {c}
           step == IF measured = Cs(r) THEN "done" ELSE "measure"
<1>2. c \in Cs(r) \ run[r].measured /\ c \in Contracts
  <2>1. Cs(r) \ run[r].measured # {}
    BY <1>1 DEF RunInv, Staged
  <2>2. Cs(r) \ run[r].measured \in SUBSET Nat
    BY <1>1, WorldTyped, WorldsAssumption
  <2> QED
    BY <1>1, <2>1, <2>2, LeastOf, WorldTyped
<1>3. /\ IF measured = Cs(r)
           THEN /\ run' = [run EXCEPT ![r].pc = "done", ![r].measured = measured]
                /\ Release(r, "done")
           ELSE /\ run' = [run EXCEPT ![r].measured = measured]
                /\ UNCHANGED file
      /\ UNCHANGED <<chain, pool, world>>
  BY DEF Measure
<1>4. file' \in [Files -> Accounts \cup {NoFile, Empty}] /\ file'["shared"] = file["shared"]
  BY <1>1, <1>3, Releases DEF TypeOK
<1>5. measured \in SUBSET Contracts /\ step \in {"done", "measure"}
  BY <1>1, <1>2 DEF State
<1> HIDE DEF c, measured
<1>6. run' = [run EXCEPT ![r] = [run[r] EXCEPT !.pc = step, !.measured = measured]]
  <2>1. CASE measured = Cs(r)
    BY <1>1, <1>3, <2>1
  <2>2. CASE measured # Cs(r)
    <3>1. [run[r] EXCEPT !.pc = "measure", !.measured = measured]
             = [run[r] EXCEPT !.measured = measured]
      BY <1>1 DEF State
    <3>2. run' = [run EXCEPT ![r] = [run[r] EXCEPT !.measured = measured]]
      BY <1>3, <2>2
    <3> QED
      BY <2>2, <3>1, <3>2
  <2> QED
    BY <2>1, <2>2
<1>7. /\ run'[r] = [run[r] EXCEPT !.pc = step, !.measured = measured]
      /\ run' = [run EXCEPT ![r] = run'[r]]
  BY <1>1, <1>6, Becomes
<1>8. step = "measure" => measured # Cs(r)
  OBVIOUS
<1> HIDE DEF step
<1>9. /\ run'[r] \in State /\ run'[r].pc = step /\ run'[r].call = run[r].call
      /\ SamePlan(r) /\ SameHeld(r) /\ run'[r].sent = run[r].sent
      /\ run'[r].measured = measured /\ run'[r].failure = run[r].failure
      /\ run'[r].after = run[r].after
  BY <1>1, <1>5, <1>7 DEF State, SamePlan, SameHeld, Active, Ended
<1>10. Frame(r)
  BY <1>1, <1>3, <1>4, <1>5, <1>7, <1>9 DEF Frame, KeyStep, SameHeld, At, TypeOK, Ended
<1>11. OnPlan(r)
  BY <1>1, <1>5, <1>9 DEF OnPlan, Unplanned, Keyless, Setup
<1>12. Ordered(r)' /\ ReceiptsHold(r)'
  BY <1>1, <1>3, <1>9, <1>11, OrderedKept, ReceiptsKept DEF RunInv, SameHeld
<1>13. CallTells(r)'
  <2>1. run[r].call.polls = 0
    BY <1>1 DEF RunInv, CallTells
  <2> QED
    BY <1>5, <1>9, <2>1, CallQuiet DEF Built
<1>14. Staged(r)'
  <2>1. run[r].failure.contract = 0 /\ run[r].account \in Accounts
    BY <1>1 DEF RunInv, Staged
  <2>2. Cs(r)' = Cs(r)
    BY <1>3 DEF Cs, fixture
  <2>3. measured \subseteq Cs(r)
    BY <1>1, <1>2 DEF RunInv, Staged, measured
  <2>4. step \notin Keyless \cup {"ready"} \cup Setup
    BY <1>5 DEF Keyless, Setup
  <2> QED
    BY <1>8, <1>9, <2>1, <2>2, <2>3, <2>4 DEF Staged, SameHeld
<1> QED
  BY <1>10, <1>12, <1>13, <1>14 DEF Done, RunInv

LEMMA AbortDone ==
  ASSUME IInv, NEW r \in Runs, Abort(r)
  PROVE  Done(r)
<1>1. TypeOK /\ RunInv(r) /\ run[r] \in State /\ run[r].pc \in Active
  BY RunTyped DEF IInv, Abort
<1>2. UNCHANGED <<chain, pool, file, world>>
  BY DEF Abort
<1>3. run' = [run EXCEPT ![r] = [run[r] EXCEPT !.aborted = TRUE]]
  BY <1>1 DEF Abort
<1>4. run'[r] = [run[r] EXCEPT !.aborted = TRUE] /\ run' = [run EXCEPT ![r] = run'[r]]
  BY <1>1, <1>3, Becomes
<1>5. /\ run'[r] \in State /\ run'[r].pc = run[r].pc /\ run'[r].call = run[r].call
      /\ SamePlan(r) /\ SameHeld(r) /\ SameEnd(r) /\ run'[r].sent = run[r].sent
      /\ run'[r].after = run[r].after
  BY <1>1, <1>4 DEF State, SamePlan, SameHeld, SameEnd
<1>6. run[r].pc \notin Ended \cup {"idle"}
  BY <1>1 DEF Active, Setup, Ended
<1>7. Frame(r)
  BY <1>1, <1>2, <1>4, <1>5, <1>6 DEF Frame, KeyStep, SameHeld, At, TypeOK
<1>8. OnPlan(r) /\ OnKey(r)
  BY <1>5 DEF OnPlan, OnKey
<1>9. CallTells(r)'
  <2>1. /\ Claimed(r)' = Claimed(r) /\ Newest' = Newest
        /\ \A c : Creations(r, c)' = Creations(r, c)
        /\ Address(r, Current(r))' = Address(r, Current(r))
    BY <1>2, <1>5 DEF SamePlan, SameHeld, Claimed, Committed, Creations, Address, Wasm, Current,
       Cs, fixture, Newest, head
  <2> QED
    BY <1>1, <1>2, <1>5, <2>1 DEF RunInv, CallTells
<1>10. RunInv(r)'
  BY <1>1, <1>2, <1>5, <1>6, <1>8, <1>9, Continues DEF Ended
<1> QED
  BY <1>7, <1>10 DEF Done

LEMMA StepDone ==
  ASSUME IInv, NEW r \in Runs, Step(r) \/ Abort(r) \/ Kill(r)
  PROVE  Done(r)
<1>1. CASE PlanFails(r) \/ MeasureFails(r)
  BY <1>1, EndDone DEF PlanFails, MeasureFails, At, Active
<1>2. CASE Begin(r) \/ Plan(r) \/ Planned(r) \/ LookForKey(r) \/ OpenKey(r) \/ WriteKey(r)
           \/ EnsureReady(r)
  BY <1>2, BeginDone, PlanDone, PlannedDone, LookDone, OpenDone, WriteDone, ReadyDone
<1>3. CASE Probe(r) \/ ProbeCode(r) \/ GetAccount(r) \/ Prepare(r) \/ Send(r) \/ SendLost(r)
  BY <1>3, ProbeDone, ProbeCodeDone, GetAccountDone, PrepareDone, SendDone, SendLostDone
<1>4. CASE Confirm(r) \/ NotFound(r) \/ PollAgain(r) \/ GiveUp(r) \/ SetupFails(r)
  BY <1>4, ConfirmDone, NotFoundDone, PollAgainDone, FailuresDone
<1>5. CASE Measure(r) \/ Abort(r) \/ Kill(r)
  BY <1>5, MeasureDone, AbortDone, KillDone
<1> QED
  BY <1>1, <1>2, <1>3, <1>4, <1>5 DEF Step
-----------------------------------------------------------------------------
(* The shared key file                                                      *)

(* Of the runs that share the file and do not overlap, only the one that   *)
(* takes a step is neither idle nor over.                                  *)
LEMMA KeyKeptByStep ==
  ASSUME IInv, NEW r \in Runs, Frame(r)
  PROVE  KeyKept'
<1>1. TypeOK /\ KeyKept /\ run \in [Runs -> State]
  BY DEF IInv, TypeOK
<1>2. /\ run[r].pc \notin Ended /\ run'[r].pc # "idle" /\ KeyStep(r)
      /\ \A q \in Runs : q # r => run'[q] = run[q]
      /\ run'[r].after = IF At(r, "idle") THEN {q \in Runs : run[q].pc \in Ended}
                         ELSE run[r].after
  BY <1>1 DEF Frame
<1>3. \A t \in Runs : \A q \in run'[t].after : q \in Runs /\ q # r /\ run[q].pc \in Ended
  <2>1. \A t \in Runs : \A q \in run[t].after : q \in Runs /\ run[q].pc \in Ended
    BY <1>1 DEF KeyKept, State
  <2>2. ASSUME NEW t \in Runs, NEW q \in run'[t].after
        PROVE  q \in Runs /\ run[q].pc \in Ended
    <3>1. CASE t # r
      BY <1>2, <2>1, <2>2, <3>1
    <3>2. CASE t = r
      BY <1>2, <2>1, <2>2, <3>2
    <3> QED
      BY <3>1, <3>2
  <2> QED
    BY <1>2, <2>2
<1>4. \A t \in Runs : \A q \in run'[t].after : run'[q].pc \in Ended
  BY <1>2, <1>3
<1>5. ASSUME Apart' PROVE Apart
  <2> SUFFICES ASSUME NEW a \in Shared, NEW b \in Shared, a # b,
                      run[a].pc # "idle", run[b].pc # "idle"
               PROVE  a \in run[b].after \/ b \in run[a].after
    BY DEF Apart
  <2>1. a \in Runs /\ b \in Runs
    BY RunsAssumption
  <2>2. run'[a].pc # "idle" /\ run'[b].pc # "idle"
    BY <1>2, <2>1
  <2>3. a \in run'[b].after \/ b \in run'[a].after
    BY <1>5, <2>2 DEF Apart
  <2>4. run'[a].after = run[a].after /\ run'[b].after = run[b].after
    BY <1>2, <2>1 DEF At
  <2> QED
    BY <2>3, <2>4
<1>6. ASSUME Apart', r \in Shared, NEW q \in Shared, q # r
      PROVE  run[q].pc \in Ended \cup {"idle"}
  <2>1. q \in Runs /\ run'[q] = run[q]
    BY <1>2, <1>6, RunsAssumption
  <2>2. \/ run'[q].pc = "idle" \/ r \in run'[q].after \/ q \in run'[r].after
    BY <1>2, <1>6 DEF Apart
  <2> QED
    BY <1>3, <2>1, <2>2
<1>7. ASSUME Apart', NEW q \in Shared
      PROVE  /\ run'[q].account # "none" => file'["shared"] = run'[q].account
             /\ run'[q].pc = "open" => file'["shared"] = NoFile
             /\ run'[q].pc = "write" => file'["shared"] = Empty
  <2>1. q \in Runs
    BY RunsAssumption
  <2>2. \A t \in Shared :
          /\ run[t].account # "none" => file["shared"] = run[t].account
          /\ run[t].pc = "open" => file["shared"] = NoFile
          /\ run[t].pc = "write" => file["shared"] = Empty
    BY <1>1, <1>5, <1>7 DEF KeyKept
  <2>3. \A t \in Runs : run[t].account \notin {NoFile, Empty}
    <3>1. \A t \in Runs : run[t].account \in Runs \cup {"none"}
      BY <1>1 DEF State, Accounts
    <3> QED
      BY <3>1, RunsAssumption DEF NoFile, Empty
  <2>4. r \notin {NoFile, Empty, "none"}
    BY RunsAssumption DEF NoFile, Empty
  <2>5. At(r, "open") \/ At(r, "write") => run[r].account = "none"
    BY DEF At, IInv, RunInv, Staged, Keyless
  <2>6. CASE q = r
    BY <1>2, <2>2, <2>4, <2>5, <2>6 DEF KeyStep, At
  <2>7. CASE q # r
    <3>1. run'[q] = run[q]
      BY <1>2, <2>1, <2>7
    <3>2. CASE r \notin Shared
      <4>1. file'["shared"] = file["shared"]
        BY <1>2, <3>2 DEF KeyStep
      <4> QED
        BY <2>2, <3>1, <4>1
    <3>3. CASE r \in Shared
      <4>1. run[q].pc \notin {"open", "write"}
        BY <1>6, <1>7, <2>7, <3>3 DEF Ended
      <4>2. \/ file'["shared"] = file["shared"]
            \/ file["shared"] \in {NoFile, Empty}
        BY <1>2, <2>2, <3>3 DEF KeyStep, At
      <4> QED
        BY <2>1, <2>2, <2>3, <3>1, <4>1, <4>2
    <3> QED
      BY <3>2, <3>3
  <2> QED
    BY <2>6, <2>7
<1> QED
  BY <1>4, <1>7 DEF KeyKept

LEMMA StepKeeps ==
  ASSUME IInv, NEW r \in Runs, Done(r)
  PROVE  IInv'
<1>1. /\ UNCHANGED <<chain, world>> /\ TypeOK
      /\ run' = [run EXCEPT ![r] = run'[r]] /\ run'[r] \in State
      /\ pool' \subseteq Tx /\ file' \in [Files -> Accounts \cup {NoFile, Empty}]
  BY DEF IInv, Done, Frame
<1>2. \A q \in Runs : q # r => run'[q] = run[q]
  BY <1>1 DEF TypeOK
<1>3. TypeOK'
  <2>1. State' = State
    BY <1>1 DEF State
  <2> QED
    BY <1>1, <2>1 DEF TypeOK
<1>4. LedgersKeep'
  BY <1>1 DEF IInv, LedgersKeep, head, Newest
<1>5. \A q \in Runs : RunInv(q)'
  <2>1. \A q \in Runs : q # r => RunInv(q)'
    BY <1>1, <1>2, OthersKept DEF IInv
  <2>2. RunInv(r)'
    BY DEF Done
  <2> QED
    BY <2>1, <2>2
<1>6. KeyKept'
  BY KeyKeptByStep DEF Done
<1> QED
  BY <1>3, <1>4, <1>5, <1>6 DEF IInv
-----------------------------------------------------------------------------
(* A ledger closes                                                          *)

(* What a ledger takes over from the one before.                           *)
Follows(g) ==
  /\ g \in Ledger
  /\ \A x \in Accounts \X Wasms : Newest.inst[x] # 0 => g.inst[x] = Newest.inst[x]
  /\ \A w \in Wasms : Newest.code[w] <= g.code[w]
  /\ Newest.ok \subseteq g.ok
  /\ \A x \in Accounts \X Wasms : \A tx \in g.ok :
       Creates(tx, x) => /\ g.inst[x] # 0
                         /\ g.code[x[2]] # 0
                         /\ \A t2 \in g.ok : Creates(t2, x) => t2 = tx

LEMMA AppliedFollows ==
  ASSUME IInv, NEW tx \in pool
  PROVE  Follows(Applied(tx))
<1> DEFINE g == Applied(tx)
           works == Works(tx, head)
           until == head + 1 + Life
           at == <<tx.account, tx.wasm>>
           made == tx.kind = "create" /\ works
           renewed == tx.kind = "upload" /\ Newest.code[tx.wasm] < head + 1
<1>1. tx \in Tx /\ tx.account \in Accounts /\ tx.wasm \in Wasms /\ tx.kind \in {"upload", "create"}
  BY DEF IInv, TypeOK, Tx
<1>2. /\ head \in Nat \ {0} /\ Newest \in Ledger
      /\ Newest.inst \in [Accounts \X Wasms -> Nat] /\ Newest.code \in [Wasms -> Nat]
      /\ Newest.seq \in [Accounts -> Nat] /\ Newest.ok \subseteq Tx /\ Newest.bad \subseteq Tx
  BY LedgersTyped DEF IInv, Ledger
<1>3. until \in Nat /\ until # 0 /\ until >= head + 1
  BY <1>2, BoundsAssumption
<1>4. at \in Accounts \X Wasms
  BY <1>1
<1> DEFINE seq == [Newest.seq EXCEPT ![tx.account] = @ + 1]
           code == [Newest.code EXCEPT ![tx.wasm] = IF renewed THEN until ELSE @]
           inst == [Newest.inst EXCEPT ![at] = IF made THEN until ELSE @]
           ok == IF works THEN Newest.ok \cup {tx} ELSE Newest.ok
           bad == IF works THEN Newest.bad ELSE Newest.bad \cup {tx}
<1>5. g = [Newest EXCEPT !.seq = seq, !.code = code, !.inst = inst, !.ok = ok, !.bad = bad]
  BY <1>2 DEF Applied, Ledger
<1>6. made => Newest.inst[at] = 0 /\ Newest.code[tx.wasm] >= head
  BY DEF Works, Newest
<1>7. seq \in [Accounts -> Nat] /\ code \in [Wasms -> Nat] /\ inst \in [Accounts \X Wasms -> Nat]
  BY <1>1, <1>2, <1>3, <1>4
<1>8. ok \subseteq Tx /\ bad \subseteq Tx /\ Newest.ok \subseteq ok
  BY <1>1, <1>2
<1>9. /\ \A x \in Accounts \X Wasms : x # at => inst[x] = Newest.inst[x]
      /\ inst[at] = IF made THEN until ELSE Newest.inst[at]
  BY <1>2, <1>4
<1>10. \A w \in Wasms : Newest.code[w] <= code[w]
  <2>1. \A w \in Wasms : w # tx.wasm => code[w] = Newest.code[w]
    BY <1>2
  <2>2. Newest.code[tx.wasm] <= code[tx.wasm]
    <3>1. /\ Newest.code[tx.wasm] \in Nat
          /\ code[tx.wasm] = IF renewed THEN until ELSE Newest.code[tx.wasm]
      BY <1>1, <1>2
    <3> HIDE DEF code, until
    <3> QED
      BY <1>2, <1>3, <3>1
  <2>3. \A w \in Wasms : Newest.code[w] \in Nat
    BY <1>2
  <2> HIDE DEF code
  <2> QED
    BY <2>1, <2>2, <2>3
<1>11. \A t \in ok : t \in Newest.ok \/ (t = tx /\ works)
  OBVIOUS
<1> HIDE DEF g, until, seq, code, inst, ok, bad, at
<1>12. /\ g \in Ledger
       /\ g.inst = inst /\ g.code = code /\ g.ok = ok
  BY <1>2, <1>5, <1>7, <1>8 DEF Ledger
<1>13. \A x \in Accounts \X Wasms : Newest.inst[x] # 0 => inst[x] = Newest.inst[x]
  BY <1>6, <1>9
<1>14. ASSUME NEW x \in Accounts \X Wasms, NEW t \in ok, Creates(t, x)
       PROVE  /\ inst[x] # 0
              /\ code[x[2]] # 0
              /\ \A t2 \in ok : Creates(t2, x) => t2 = t
  <2>1. \A y \in Newest.ok : Creates(y, x) =>
          /\ Newest.inst[x] # 0 /\ Newest.code[x[2]] # 0
          /\ \A t2 \in Newest.ok : Creates(t2, x) => t2 = y
    BY DEF IInv, LedgersKeep
  <2>2. Creates(tx, x) /\ works => made /\ x = at
    BY DEF Creates, at
  <2>3. made => tx.wasm = at[2] /\ Newest.code[at[2]] # 0
    <3>1. Newest.code[tx.wasm] \in Nat
      BY <1>1, <1>2
    <3> QED
      BY <1>2, <1>6, <3>1 DEF at
  <2>4. x[2] \in Wasms
    OBVIOUS
  <2>5. Newest.code[x[2]] # 0 => code[x[2]] # 0
    <3>1. Newest.code[x[2]] \in Nat /\ code[x[2]] \in Nat
      BY <1>2, <1>7, <2>4
    <3> QED
      BY <1>10, <2>4, <3>1
  <2> HIDE DEF made, works
  <2>6. CASE t \in Newest.ok
    <3>1. Newest.inst[x] # 0 /\ Newest.code[x[2]] # 0
      BY <1>14, <2>1, <2>6
    <3>2. ~(Creates(tx, x) /\ works)
      BY <1>6, <2>2, <3>1
    <3> QED
      BY <1>11, <1>13, <1>14, <2>1, <2>5, <2>6, <3>1, <3>2
  <2>7. CASE t = tx /\ works
    <3>1. made /\ x = at /\ Newest.inst[x] = 0
      BY <1>6, <1>14, <2>2, <2>7
    <3>2. inst[x] # 0 /\ code[x[2]] # 0
      BY <1>3, <1>9, <2>3, <2>5, <3>1
    <3> QED
      BY <1>11, <2>1, <2>7, <3>1, <3>2
  <2> QED
    BY <1>11, <2>6, <2>7
<1>15. Follows(g)
  BY <1>8, <1>10, <1>12, <1>13, <1>14 DEF Follows
<1> QED
  BY <1>15 DEF g

LEMMA NewestFollows ==
  ASSUME IInv
  PROVE  Follows(Newest)
<1>1. Newest \in Ledger
  BY LedgersTyped DEF IInv
<1>2. \A w \in Wasms : Newest.code[w] \in Nat
  BY <1>1 DEF Ledger
<1> QED
  BY <1>1, <1>2 DEF Follows, IInv, LedgersKeep

(* What a run relies on outlives the next ledger.                          *)
LEMMA LedgerKeeps ==
  ASSUME IInv, NEW g, Follows(g), chain' = Append(chain, g), pool' \subseteq pool,
         UNCHANGED <<file, world, run>>
  PROVE  IInv'
<1>1. /\ TypeOK /\ LedgersKeep /\ head \in Nat \ {0} /\ Newest \in Ledger
      /\ chain \in Seq(Ledger) /\ g \in Ledger
  BY LedgersTyped DEF IInv, TypeOK, Follows
<1>2. head' = head + 1 /\ Newest' = g /\ \A l \in 1..head : chain'[l] = chain[l]
  BY <1>1 DEF head, Newest
<1>3. TypeOK'
  <2>1. State' = State /\ chain' \in Seq(Ledger)
    BY <1>1 DEF State
  <2> QED
    BY <1>1, <2>1 DEF TypeOK
<1>4. LedgersKeep'
  <2>1. ASSUME NEW l \in 1..head'
        PROVE  /\ \A x \in Accounts \X Wasms : chain'[l].inst[x] # 0 => g.inst[x] = chain'[l].inst[x]
               /\ \A w \in Wasms : chain'[l].code[w] <= g.code[w]
               /\ chain'[l].ok \subseteq g.ok
    <3>1. CASE l \in 1..head
      <4>1. chain'[l] = chain[l] /\ chain[l] \in Ledger
        BY <1>1, <1>2, <3>1, LedgersTyped
      <4>2. \A w \in Wasms : chain[l].code[w] \in Nat /\ Newest.code[w] \in Nat /\ g.code[w] \in Nat
        BY <1>1, <4>1 DEF Ledger
      <4>3. \A w \in Wasms : chain[l].code[w] <= Newest.code[w] /\ Newest.code[w] <= g.code[w]
        BY <1>1, <3>1 DEF LedgersKeep, Follows
      <4>4. \A w \in Wasms : chain[l].code[w] <= g.code[w]
        BY <4>2, <4>3
      <4>5. \A x \in Accounts \X Wasms : chain[l].inst[x] # 0 => g.inst[x] = chain[l].inst[x]
        BY <1>1, <3>1 DEF LedgersKeep, Follows
      <4>6. chain[l].ok \subseteq g.ok
        BY <1>1, <3>1 DEF LedgersKeep, Follows
      <4> QED
        BY <4>1, <4>4, <4>5, <4>6
    <3>2. CASE l = head + 1
      <4>1. chain'[l] = g
        BY <1>2, <3>2 DEF Newest
      <4>2. \A w \in Wasms : g.code[w] \in Nat
        BY <1>1 DEF Ledger
      <4> QED
        BY <4>1, <4>2
    <3>3. l \in 1..(head + 1)
      BY <1>2, <2>1
    <3>4. l \in 1..head \/ l = head + 1
      BY <1>1, <3>3
    <3> QED
      BY <3>1, <3>2, <3>4
  <2>2. head' # 0
    BY <1>1, <1>2
  <2> QED
    BY <1>2, <2>1, <2>2 DEF LedgersKeep, Follows
<1>5. ASSUME NEW r \in Runs PROVE RunInv(r)'
  <2>1. RunInv(r) /\ run[r] \in State
    BY <1>1, RunTyped DEF IInv
  <2>2. /\ Claimed(r)' = Claimed(r) /\ Committed(r)' = Committed(r) /\ Cs(r)' = Cs(r)
        /\ \A c : Address(r, c)' = Address(r, c) /\ Wasm(r, c)' = Wasm(r, c)
        /\ Address(r, Current(r))' = Address(r, Current(r))
    BY DEF Claimed, Committed, Cs, Address, Wasm, Current, fixture
  <2>3. Ordered(r)' /\ Staged(r)'
    <3>1. Ordered(r)'
      <4>1. SamePlan(r) /\ OnPlan(r)
        BY DEF SamePlan, OnPlan
      <4> QED
        BY <2>1, <4>1, OrderedKept DEF RunInv
    <3>2. Staged(r)'
      BY <2>1 DEF RunInv, Staged, Named, NeedsExactly, Closed, Committed, Cs, Deps, fixture
    <3> QED
      BY <3>1, <3>2
  <2>4. \A c \in Committed(r) :
          c \in Cs(r) /\ Wasm(r, c) \in Wasms /\ Address(r, c) \in Accounts \X Wasms
    <3>1. \A c \in Committed(r) : c \in Cs(r) /\ Wasm(r, c) \in Wasms
      BY <1>1, WorldTyped DEF Committed
    <3>2. Committed(r) # {} => run[r].account \in Accounts
      BY <2>1 DEF RunInv, Staged
    <3> QED
      BY <3>1, <3>2 DEF Address
  <2>5. \A c \in Claimed(r) : Creations(r, c)' = Creations(r, c)
    <3> SUFFICES ASSUME NEW c \in Claimed(r)
                 PROVE  Creations(r, c)' = Creations(r, c)
      OBVIOUS
    <3> DEFINE x == Address(r, c)
    <3>1. x \in Accounts \X Wasms
      BY <2>4 DEF Claimed
    <3>2. PICK tx \in Creations(r, c) : TRUE
      BY <2>1 DEF RunInv, ReceiptsHold
    <3> HIDE DEF x
    <3>3. Creations(r, c) = {t \in Newest.ok : Creates(t, x)}
      BY DEF Creations, Creates, x
    <3>4. Creations(r, c)' = {t \in g.ok : Creates(t, x)}
      BY <1>2, <2>2 DEF Creations, Creates, x
    <3>5. Newest.ok \subseteq g.ok /\ \A t \in g.ok : Creates(t, x) => t = tx
      BY <3>1, <3>2, <3>3 DEF Follows
    <3> QED
      BY <3>2, <3>3, <3>4, <3>5
  <2>6. \A x \in Accounts \X Wasms, n \in Nat \ {0} : Newest.inst[x] >= n => g.inst[x] >= n
    <3>1. \A x \in Accounts \X Wasms : Newest.inst[x] \in Nat
      BY <1>1 DEF Ledger
    <3> QED
      BY <3>1 DEF Follows
  <2>7. \A w \in Wasms, n \in Nat : Newest.code[w] >= n => g.code[w] >= n
    <3>1. \A w \in Wasms :
            Newest.code[w] \in Nat /\ g.code[w] \in Nat /\ Newest.code[w] <= g.code[w]
      BY <1>1 DEF Ledger, Follows
    <3> QED
      BY <3>1
  <2>8. CallTells(r)'
    <3>1. run[r].pc = "code" =>
            /\ run[r].call.since # 0
            /\ g.inst[Address(r, Current(r))] >= run[r].call.since + MinTtl
      <4> SUFFICES ASSUME run[r].pc = "code"
                   PROVE  /\ run[r].call.since # 0
                          /\ g.inst[Address(r, Current(r))] >= run[r].call.since + MinTtl
        OBVIOUS
      <4>1. run[r].pc \in Setup
        BY DEF Setup
      <4>2. Address(r, Current(r)) \in Accounts \X Wasms
        BY <4>1, SetupState DEF Address
      <4>3. run[r].call.since \in Nat
        BY <2>1 DEF State
      <4>4. run[r].call.since # 0
        BY <2>1 DEF RunInv, CallTells
      <4>5. run[r].call.since + MinTtl \in Nat \ {0}
        <5> DEFINE n == run[r].call.since
        <5>1. n \in Nat /\ n # 0
          BY <4>3, <4>4
        <5> HIDE DEF n
        <5>2. n + MinTtl \in Nat \ {0}
          BY <5>1, BoundsAssumption
        <5> QED
          BY <5>2 DEF n
      <4> QED
        BY <2>1, <2>6, <4>2, <4>4, <4>5 DEF RunInv, CallTells
    <3> QED
      BY <1>2, <2>1, <2>2, <2>5, <3>1 DEF RunInv, CallTells
  <2>9. ReceiptsHold(r)'
    <3>1. \A c \in Committed(r) \ Claimed(r) :
            /\ run[r].receipts[c].since # 0
            /\ g.inst[Address(r, c)] >= run[r].receipts[c].since + MinTtl
            /\ g.code[Wasm(r, c)] >= run[r].receipts[c].since + MinTtl
      <4> SUFFICES ASSUME NEW c \in Committed(r) \ Claimed(r)
                   PROVE  /\ run[r].receipts[c].since # 0
                          /\ g.inst[Address(r, c)] >= run[r].receipts[c].since + MinTtl
                          /\ g.code[Wasm(r, c)] >= run[r].receipts[c].since + MinTtl
        OBVIOUS
      <4>1. c \in Contracts
        BY <1>1, <2>4, WorldTyped
      <4>2. run[r].receipts[c].since \in Nat
        BY <2>1, <4>1 DEF State, Receipt
      <4>3. run[r].receipts[c].since # 0
        BY <2>1 DEF RunInv, ReceiptsHold
      <4>4. run[r].receipts[c].since + MinTtl \in Nat \ {0}
        BY <4>2, <4>3, BoundsAssumption
      <4> QED
        BY <2>1, <2>4, <2>6, <2>7, <4>3, <4>4 DEF RunInv, ReceiptsHold
    <3>2. \A c \in Claimed(r) : /\ Creations(r, c)' # {} /\ Creations(r, c)' \subseteq run[r].sent
                                /\ \A d \in Claimed(r) : Wasm(r, c) = Wasm(r, d) => c = d
      BY <2>1, <2>5 DEF RunInv, ReceiptsHold
    <3> QED
      BY <1>2, <2>2, <3>1, <3>2 DEF ReceiptsHold
  <2> QED
    BY <2>3, <2>8, <2>9 DEF RunInv
<1>6. KeyKept'
  BY DEF IInv, KeyKept, Apart
<1> QED
  BY <1>3, <1>4, <1>5, <1>6 DEF IInv
LEMMA CloseKeeps ==
  ASSUME IInv, CloseLedger
  PROVE  IInv'
<1>1. UNCHANGED <<file, world, run>>
  BY DEF CloseLedger
<1>2. CASE chain' = Append(chain, Newest) /\ UNCHANGED pool
  BY <1>1, <1>2, NewestFollows, LedgerKeeps
<1>3. CASE \E tx \in pool : chain' = Append(chain, Applied(tx)) /\ pool' = pool \ {tx}
  <2>1. PICK tx \in pool : chain' = Append(chain, Applied(tx)) /\ pool' = pool \ {tx}
    BY <1>3
  <2>2. Follows(Applied(tx)) /\ pool' \subseteq pool
    BY <2>1, AppliedFollows
  <2> QED
    BY <1>1, <2>1, <2>2, LedgerKeeps
<1> QED
  BY <1>2, <1>3 DEF CloseLedger

-----------------------------------------------------------------------------
(* The invariant and what follows from it                                   *)

LEMMA InitHolds ==
  ASSUME Init
  PROVE  IInv
<1> DEFINE g == [seq |-> [a \in Accounts |-> 0], inst |-> [a \in Accounts \X Wasms |-> 0],
                 code |-> [w \in Wasms |-> 0], ok |-> {}, bad |-> {}]
           start == [pc |-> "idle", after |-> {}, aborted |-> FALSE, order |-> <<>>,
                     account |-> "none", at |-> 1, sent |-> {}, call |-> Locals,
                     receipts |-> [c \in Contracts |-> NoReceipt], measured |-> {},
                     failure |-> NoFailure]
<1>1. /\ chain = <<g>> /\ pool = {} /\ file = [f \in Files |-> NoFile] /\ world \in Worlds
      /\ run = [r \in Runs |-> start]
  BY DEF Init
<1>2. g \in Ledger /\ g.ok = {}
  BY DEF Ledger
<1>3. start \in State
  <2>1. world.polls \in Nat \ {0}
    BY <1>1, WorldsAssumption DEF IsWorld
  <2>2. Locals \in [since : Nat, kind : {"upload", "create"}, tx : Tx \cup {NoTx},
                    polls : 0..world.polls]
    BY <2>1 DEF Locals
  <2>3. [c \in Contracts |-> NoReceipt] \in [Contracts -> Receipt]
    BY DEF NoReceipt, Receipt
  <2>4. NoFailure \in [contract : Contracts \cup {0}, named : SUBSET Contracts]
    BY DEF NoFailure
  <2> HIDE DEF Locals, NoReceipt, NoFailure
  <2> QED
    BY <2>2, <2>3, <2>4 DEF State
<1>4. TypeOK
  <2> HIDE DEF g, start
  <2> QED
    BY <1>1, <1>2, <1>3 DEF TypeOK
<1>5. LedgersKeep
  <2>1. head = 1 /\ Newest = g /\ \A l \in 1..1 : chain[l] = g
    BY <1>1 DEF head, Newest
  <2>2. \A w \in Wasms : g.code[w] <= g.code[w]
    OBVIOUS
  <2> HIDE DEF g
  <2> QED
    BY <1>2, <2>1, <2>2 DEF LedgersKeep
<1>6. \A r \in Runs : run[r] = start
  BY <1>1
<1>7. ASSUME NEW r \in Runs PROVE RunInv(r)
  <2>1. /\ run[r].pc = "idle" /\ run[r].at = 1 /\ run[r].order = <<>> /\ run[r].account = "none"
        /\ run[r].call.polls = 0 /\ run[r].measured = {} /\ run[r].failure.contract = 0
        /\ run[r].receipts = [c \in Contracts |-> NoReceipt]
    BY <1>6 DEF Locals, NoFailure
  <2>2. Committed(r) = {}
    BY <1>4, <2>1, WorldTyped DEF Committed
  <2>3. Ordered(r)
    <3>1. Before(r, 1) = {}
      BY DEF Before
    <3> QED
      BY <2>1, <2>2, <3>1 DEF Ordered, Unplanned, Setup
  <2>4. Staged(r)
    BY <2>1, <2>2 DEF Staged, Setup
  <2>5. CallTells(r)
    BY <2>1 DEF CallTells, Built
  <2>6. ReceiptsHold(r)
    BY <2>2 DEF ReceiptsHold, Claimed
  <2> QED
    BY <2>3, <2>4, <2>5, <2>6 DEF RunInv
<1>8. KeyKept
  BY <1>6, RunsAssumption DEF KeyKept
<1> QED
  BY <1>4, <1>5, <1>7, <1>8 DEF IInv

(* The inductive invariant: what the ledgers keep, how far each run is in  *)
(* its plan, what its call stands for, and what its receipts are borne out *)
(* by.                                                                     *)
THEOREM Invariance == Spec => []IInv
<1>1. Init => IInv
  BY InitHolds
<1>2. IInv /\ [Next]_vars => IInv'
  <2> SUFFICES ASSUME IInv, [Next]_vars PROVE IInv'
    OBVIOUS
  <2>1. ASSUME NEW r \in Runs, Step(r) \/ Abort(r) \/ Kill(r) PROVE IInv'
    BY <2>1, StepDone, StepKeeps
  <2>2. CASE CloseLedger
    BY <2>2, CloseKeeps
  <2>3. CASE UNCHANGED vars
    <3>1. TypeOK'
      BY <2>3 DEF vars, IInv, TypeOK, State
    <3>2. LedgersKeep'
      BY <2>3 DEF vars, IInv, LedgersKeep, head, Newest
    <3>3. \A r \in Runs : RunInv(r)'
      BY <2>3, OthersKept DEF vars, IInv
    <3>4. KeyKept'
      BY <2>3 DEF vars, IInv, KeyKept, Apart
    <3> QED
      BY <3>1, <3>2, <3>3, <3>4 DEF IInv
  <2> QED
    BY <2>1, <2>2, <2>3 DEF Next
<1> QED
  BY <1>1, <1>2, PTL DEF Spec

(* Every variable holds a value of its kind, and waitForTransaction asks   *)
(* no more often than it may.                                              *)
THEOREM TypeCorrect == Spec => []TypeOK
<1>1. IInv => TypeOK
  BY DEF IInv
<1> QED
  BY <1>1, Invariance, PTL

(* What has a receipt is in the newest ledger.                             *)
LEMMA CommittedThere ==
  ASSUME IInv, NEW r \in Runs, NEW c \in Committed(r)
  PROVE  /\ There(r, c) /\ Newest.code[Wasm(r, c)] # 0
         /\ c \in Claimed(r) => Cardinality(Creations(r, c)) = 1
<1>1. /\ RunInv(r) /\ Newest \in Ledger /\ run[r] \in State
      /\ Wasm(r, c) \in Wasms /\ run[r].account \in Accounts
  BY RunTyped, LedgersTyped, WorldTyped DEF IInv, RunInv, Staged, Committed
<1> DEFINE x == Address(r, c)
           w == Wasm(r, c)
<1>2. x \in Accounts \X Wasms /\ x[2] = w
  BY <1>1 DEF Address
<1>3. Newest.inst[x] \in Nat /\ Newest.code[w] \in Nat
  BY <1>1, NumbersTyped DEF Address
<1>4. CASE c \in Claimed(r)
  <2>1. PICK tx \in Creations(r, c) : TRUE
    BY <1>1, <1>4 DEF RunInv, ReceiptsHold
  <2> HIDE DEF x, w
  <2>2. Creations(r, c) = {t \in Newest.ok : Creates(t, x)}
    BY DEF Creations, Creates, x
  <2>3. /\ Newest.inst[x] # 0 /\ Newest.code[x[2]] # 0
        /\ \A t \in Newest.ok : Creates(t, x) => t = tx
    BY <1>2, <2>1, <2>2 DEF IInv, LedgersKeep
  <2>4. Creations(r, c) = {tx}
    BY <2>1, <2>2, <2>3
  <2>5. Cardinality({tx}) = 1
    BY FS_Singleton
  <2> QED
    BY <1>2, <2>3, <2>4, <2>5 DEF There, x, w
<1>5. CASE c \notin Claimed(r)
  <2>1. run[r].receipts[c].since \in Nat
    <3>1. c \in Contracts
      BY WorldTyped DEF IInv, Committed
    <3> QED
      BY <1>1, <3>1 DEF State, Receipt
  <2>2. /\ run[r].receipts[c].since # 0
        /\ Newest.inst[x] >= run[r].receipts[c].since + MinTtl
        /\ Newest.code[w] >= run[r].receipts[c].since + MinTtl
    BY <1>1, <1>5 DEF RunInv, ReceiptsHold
  <2> DEFINE n == run[r].receipts[c].since
  <2> HIDE DEF n, x, w
  <2>3. n \in Nat /\ n # 0 /\ Newest.inst[x] >= n + MinTtl /\ Newest.code[w] >= n + MinTtl
    BY <2>1, <2>2 DEF n
  <2>4. Newest.inst[x] # 0 /\ Newest.code[w] # 0
    BY <1>3, <2>3, BoundsAssumption
  <2> QED
    BY <1>5, <2>4 DEF There, x, w
<1> QED
  BY <1>4, <1>5

(* The plan has a contract deployed only after the contracts it needs,     *)
(* whatever other runs, lagging nodes and lost transactions do meanwhile.  *)
THEOREM DependenciesDeployedFirst == Spec => []DependenciesFirst
<1>1. IInv => DependenciesFirst
  <2> SUFFICES ASSUME IInv, NEW r \in Runs, run[r].pc \in Setup,
                      NEW d \in Deps(r, Current(r))
               PROVE  There(r, d)
    BY DEF DependenciesFirst
  <2>1. RunInv(r) /\ run[r].at \in 1..Len(run[r].order)
    BY SetupState
  <2>2. d \in Before(r, run[r].at)
    BY <2>1 DEF RunInv, Ordered, Current
  <2>3. d \in Committed(r)
    BY <2>1, <2>2 DEF RunInv, Ordered
  <2> QED
    BY <2>3, CommittedThere
<1> QED
  BY <1>1, Invariance, PTL

(* Once the plan is through, every contract has a receipt.                 *)
LEMMA AllCommitted ==
  ASSUME IInv, NEW r \in Runs, run[r].pc \in {"measure", "done"}
  PROVE  Committed(r) = Cs(r) /\ WellFormed(r)
<1>1. RunInv(r) /\ Len(run[r].order) \in Nat
  BY RunTyped DEF IInv, State
<1>2. /\ Placed(r) = Cs(r) /\ WellFormed(r) /\ run[r].at = Len(run[r].order) + 1
      /\ Committed(r) = Before(r, run[r].at)
  BY <1>1 DEF RunInv, Ordered, Unplanned
<1>3. (Len(run[r].order) + 1) - 1 = Len(run[r].order)
  BY <1>1
<1> QED
  BY <1>2, <1>3 DEF Before, Placed

(* Nothing is measured before every contract is deployed with its code and *)
(* every binding has a receipt.                                            *)
THEOREM MeasuredWhenCommitted == Spec => []SetupCommitted
<1>1. IInv => SetupCommitted
  <2> SUFFICES ASSUME IInv, NEW r \in Runs, run[r].pc \in {"measure", "done"}, NEW c \in Cs(r)
               PROVE  /\ There(r, c) /\ Newest.code[Wasm(r, c)] # 0
                      /\ fixture[r].binds[c] \subseteq Committed(r)
    BY DEF SetupCommitted
  <2>1. Committed(r) = Cs(r) /\ WellFormed(r)
    BY AllCommitted
  <2>2. fixture[r].binds[c] \subseteq Cs(r)
    BY <2>1 DEF WellFormed
  <2> QED
    BY <2>1, <2>2, CommittedThere
<1> QED
  BY <1>1, Invariance, PTL

(* "created" is said of an instance only by runs that sent the transaction *)
(* which created it, and by each for one contract.                         *)
THEOREM ReceiptsAreTrue == Spec => []ReceiptsTrue
<1>1. IInv => ReceiptsTrue
  <2> SUFFICES ASSUME IInv, NEW r \in Runs
               PROVE  /\ \A c \in Claimed(r) : /\ Creations(r, c) \subseteq run[r].sent
                                               /\ Cardinality(Creations(r, c)) = 1
                      /\ \A c, d \in Claimed(r) : Wasm(r, c) = Wasm(r, d) => c = d
                      /\ \A c \in Committed(r) \ Claimed(r) : There(r, c)
    BY DEF ReceiptsTrue
  <2>1. RunInv(r) /\ Claimed(r) \subseteq Committed(r)
    BY DEF IInv, Claimed
  <2>2. \A c \in Claimed(r) : /\ Creations(r, c) \subseteq run[r].sent
                              /\ \A d \in Claimed(r) : Wasm(r, c) = Wasm(r, d) => c = d
    BY <2>1 DEF RunInv, ReceiptsHold
  <2> QED
    BY <2>1, <2>2, CommittedThere
<1> QED
  BY <1>1, Invariance, PTL

(* What is reused was, and stays, alive for MinTtl ledgers from the older  *)
(* of its two probes.                                                      *)
THEOREM ReusedOutlives == Spec => []ReusedOutlivesWindow
<1>1. IInv => ReusedOutlivesWindow
  BY DEF IInv, RunInv, ReceiptsHold, ReusedOutlivesWindow
<1> QED
  BY <1>1, Invariance, PTL

(* The error of a failed deployment names exactly the contracts that need  *)
(* the failed one, by one pass over the plan.                              *)
THEOREM FailuresNamed == Spec => []FailureNamesDependents
<1>1. IInv => FailureNamesDependents
  BY DEF IInv, RunInv, Staged, FailureNamesDependents
<1> QED
  BY <1>1, Invariance, PTL

(* Runs that share a key file one after the other deploy from one account. *)
THEOREM AccountShared == Spec => []OneAccount
<1>1. IInv => OneAccount
  BY RunsAssumption DEF IInv, KeyKept, OneAccount
<1> QED
  BY <1>1, Invariance, PTL

-----------------------------------------------------------------------------
(* planSetupOrder gets through every acyclic fixture and through no other: *)
(* as long as contracts are left one of them can be placed, and a run that *)
(* is past its plan has dependencies that can be ranked.                   *)
Ranked(r) == \E rank \in [Cs(r) -> Nat] :
                \A c \in Cs(r) : \A d \in Deps(r, c) : rank[d] < rank[c]
AcyclicPlanned ==
  \A r \in Runs :
    /\ At(r, "plan") /\ WellFormed(r) /\ Ranked(r) => Placed(r) = Cs(r) \/ Placeable(r) # {}
    /\ run[r].pc \notin Unplanned => Ranked(r)

THEOREM AcyclicIsPlanned == Spec => []AcyclicPlanned
<1>1. ASSUME IInv, NEW r \in Runs, At(r, "plan"), WellFormed(r), Ranked(r), Placed(r) # Cs(r)
      PROVE  Placeable(r) # {}
  <2>1. PICK rank \in [Cs(r) -> Nat] : \A c \in Cs(r) : \A d \in Deps(r, c) : rank[d] < rank[c]
    BY <1>1 DEF Ranked
  <2> DEFINE left == Cs(r) \ Placed(r)
             ranks == {rank[c] : c \in left}
  <2>2. Placed(r) \subseteq Cs(r)
    BY <1>1 DEF IInv, RunInv, Ordered, Placed
  <2>3. ranks \in SUBSET Nat /\ ranks # {}
    BY <1>1, <2>2
  <2>4. PICK c \in left : rank[c] = Least(ranks)
    BY <2>3, LeastOf
  <2>5. \A d \in left : rank[c] <= rank[d]
    BY <2>3, <2>4, LeastOf
  <2>6. ASSUME NEW d \in Deps(r, c) PROVE d \in Placed(r)
    <3>1. d \in Cs(r) /\ rank[d] < rank[c] /\ rank[c] \in Nat /\ rank[d] \in Nat
      BY <1>1, <2>1, <2>4, <2>6 DEF WellFormed
    <3> QED
      BY <2>5, <3>1
  <2>7. c \in Placeable(r)
    BY <2>4, <2>6 DEF Placeable
  <2> QED
    BY <2>7
<1>2. ASSUME IInv, NEW r \in Runs, run[r].pc \notin Unplanned
      PROVE  Ranked(r)
  <2> DEFINE o == run[r].order
             at(c) == CHOOSE i \in 1..Len(o) : o[i] = c
             rank == [c \in Cs(r) |-> at(c)]
  <2>1. /\ Placed(r) = Cs(r)
        /\ \A i \in 1..Len(o) : /\ o[i] \notin {o[j] : j \in 1..(i - 1)}
                                /\ Deps(r, o[i]) \subseteq {o[j] : j \in 1..(i - 1)}
    BY <1>2 DEF IInv, RunInv, Ordered, Before
  <2>2. Len(o) \in Nat
    BY <1>2 DEF IInv, TypeOK, State
  <2> HIDE DEF o
  <2>3. ASSUME NEW c \in Cs(r)
        PROVE  rank[c] \in 1..Len(o) /\ o[rank[c]] = c
    <3>1. \E i \in 1..Len(o) : o[i] = c
      BY <2>1, <2>3 DEF Placed, o
    <3> QED
      BY <2>3, <3>1
  <2> HIDE DEF rank
  <2>4. rank \in [Cs(r) -> Nat]
    BY <2>2, <2>3 DEF rank
  <2>5. ASSUME NEW c \in Cs(r), NEW d \in Deps(r, c)
        PROVE  rank[d] < rank[c]
    <3>1. PICK j \in 1..(rank[c] - 1) : d = o[j]
      <4>1. rank[c] \in 1..Len(o) /\ o[rank[c]] = c
        BY <2>3, <2>5
      <4>2. Deps(r, o[rank[c]]) \subseteq {o[j] : j \in 1..(rank[c] - 1)}
        BY <2>1, <4>1
      <4> QED
        BY <2>5, <4>1, <4>2
    <3>2. j \in 1..Len(o) /\ rank[c] \in 1..Len(o)
      BY <2>2, <2>3, <3>1
    <3>3. d \in Cs(r)
      BY <2>1, <3>1, <3>2 DEF Placed, o
    <3>4. rank[d] \in 1..Len(o) /\ o[rank[d]] = o[j]
      BY <2>3, <3>1, <3>3
    <3>5. ~(j < rank[d])
      <4>1. SUFFICES ASSUME j < rank[d] PROVE FALSE
        OBVIOUS
      <4>2. j \in 1..(rank[d] - 1)
        BY <2>2, <3>2, <3>4, <4>1
      <4> QED
        BY <2>1, <3>4, <4>2
    <3> QED
      BY <2>2, <3>1, <3>2, <3>4, <3>5
  <2> QED
    BY <2>4, <2>5 DEF Ranked
<1>3. IInv => AcyclicPlanned
  BY <1>1, <1>2 DEF AcyclicPlanned
<1> QED
  BY <1>3, Invariance, PTL
=============================================================================
