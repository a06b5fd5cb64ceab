----------------------- MODULE CommentConsumer_proof -----------------------
(***************************************************************************)
(* The safety of the comment consumer, for any jobs, revisions, artifacts, *)
(* page size and bounds.  The invariant says what a job has learnt at each *)
(* of its calls, alone (JobInv), when jobs do not overlap (SerialInv) and  *)
(* when in addition no comment is deleted (UniqueInv).                     *)
(***************************************************************************)
EXTENDS CommentConsumer, FiniteSetTheorems, WellFoundedInduction, TLAPS

(* After the head has been found to be the revision of the job.            *)
Checked == {"author", "list", "update", "create"}

(* A job starts at its revision or later, and passes the check only if     *)
(* that was the head all along; what it will update is a report.           *)
JobInv(j) ==
  /\ pc[j] # "idle" => Rev[j] <= startHead[j] /\ startHead[j] <= head
  /\ pc[j] \in Checked => startHead[j] = Rev[j]
  /\ pc[j] = "update" /\ found[j] \in DOMAIN comments => Owned(comments[found[j]])

BodyInv == \A id \in Reports : comments[id].body <= head

(* One job at a time: no report is newer than the job that will write.     *)
SerialInv ==
  serial => /\ \A i, j \in Jobs : pc[i] \in Active /\ pc[j] \in Active => i = j
            /\ \A j \in Jobs : pc[j] \in Checked => \A id \in Reports : comments[id].body <= Rev[j]
            /\ \A i, j \in Jobs : pc[i] \in Checked /\ pc[j] = "posted" /\ Rev[j] = head => Rev[i] = head

(* Without deletions the pages stand still: what has been listed holds no  *)
(* report, and after the last page there is none.                          *)
UniqueInv ==
  serial /\ ~deleted =>
    /\ \A a, b \in Reports : a = b
    /\ \A j \in Jobs : pc[j] = "list" => \A id \in Reports : (page[j] - 1) * PageSize < Position(id)
    /\ \A j \in Jobs : pc[j] = "create" => Reports = {}
    /\ \A j \in Jobs : pc[j] = "posted" /\ Rev[j] = head => \A id \in Reports : comments[id].body = head

IInv == TypeOK /\ (\A j \in Jobs : JobInv(j)) /\ BodyInv /\ SerialInv /\ UniqueInv

-----------------------------------------------------------------------------
(* Pages                                                                    *)

(* There are fewer comments than ids, and no position beyond the last.     *)
LEMMA Pages ==
  ASSUME TypeOK
  PROVE  /\ IsFiniteSet(DOMAIN comments)
         /\ Cardinality(DOMAIN comments) \in Nat
         /\ Cardinality(DOMAIN comments) <= nextId - 1
         /\ \A id : Position(id) \in Nat /\ Position(id) <= Cardinality(DOMAIN comments)
<1>1. nextId - 1 \in Nat /\ DOMAIN comments \in SUBSET (1..(nextId - 1))
  BY DEF TypeOK
<1>2. IsFiniteSet(1..(nextId - 1)) /\ Cardinality(1..(nextId - 1)) = nextId - 1
  BY <1>1, FS_Interval
<1>3. IsFiniteSet(DOMAIN comments) /\ Cardinality(DOMAIN comments) <= nextId - 1
  BY <1>1, <1>2, FS_Subset
<1>4. Cardinality(DOMAIN comments) \in Nat
  BY <1>3, FS_CardinalityType
<1>5. ASSUME NEW id PROVE Position(id) \in Nat /\ Position(id) <= Cardinality(DOMAIN comments)
  <2> DEFINE S == {i \in DOMAIN comments : i <= id}
  <2>1. S \in SUBSET DOMAIN comments
    OBVIOUS
  <2>2. IsFiniteSet(S) /\ Cardinality(S) <= Cardinality(DOMAIN comments)
    BY <1>3, <2>1, FS_Subset
  <2>3. Cardinality(S) \in Nat
    BY <2>2, FS_CardinalityType
  <2> QED
    BY <2>2, <2>3 DEF Position
<1> QED
  BY <1>3, <1>4, <1>5

(* Of some comments there is a first one.                                  *)
LEMMA SmallestId ==
  ASSUME NEW n \in Nat, NEW S \in SUBSET (1..n), S # {}
  PROVE  \E id \in S : \A other \in S : id <= other
<1>1. PICK id \in S : TRUE
  OBVIOUS
<1> DEFINE R == {p \in Nat \X Nat : p[1] < p[2]}
<1>2. IsWellFoundedOn(R, Nat)
  BY NatLessThanWellFounded DEF OpToRel
<1>3. S \subseteq Nat
  OBVIOUS
<1> HIDE DEF R
<1>4. PICK least \in S : \A other \in S : ~(<<other, least>> \in R)
  BY <1>1, <1>2, <1>3, WFMin
<1>5. \A other \in S : ~(other < least)
  BY <1>3, <1>4 DEF R
<1> QED
  BY <1>3, <1>5

(* A page that is not the last has a successor that is not beyond nextId.  *)
LEMMA NextPageExists ==
  ASSUME TypeOK, NEW n \in Nat \ {0}, ~LastPage(n)
  PROVE  n + 1 \in 1..nextId
<1>1. n <= n * PageSize
  BY LimitsAssumption
<1> QED
  BY <1>1, Pages, LimitsAssumption DEF LastPage, TypeOK

-----------------------------------------------------------------------------
(* Steps that leave the pull request alone                                  *)

LEMMA ThreadKept ==
  ASSUME UNCHANGED thread
  PROVE  /\ UNCHANGED <<serial, head, comments, nextId, deleted>>
         /\ Reports' = Reports
         /\ \A id : Position(id)' = Position(id)
BY DEF thread, Reports, Position

LEMMA StartStep ==
  ASSUME IInv, NEW j \in Jobs, Start(j)
  PROVE  IInv'
<1>1. /\ UNCHANGED <<serial, head, comments, nextId, deleted, page, found>>
      /\ Reports' = Reports /\ \A id : Position(id)' = Position(id)
  BY ThreadKept DEF Start
<1>2. PICK state \in {"head", "metadata"} : pc' = [pc EXCEPT ![j] = state]
  BY DEF Start, Become
<1>3. /\ runs' = [runs EXCEPT ![j] = @ + 1] /\ runs[j] < MaxRuns
      /\ startHead' = [startHead EXCEPT ![j] = head] /\ Rev[j] <= head
      /\ serial => \A i \in Jobs : pc[i] \notin Active
  BY DEF Start
<1>4. TypeOK'
  BY <1>1, <1>2, <1>3, LimitsAssumption DEF IInv, TypeOK, Active
<1>5. \A i \in Jobs : JobInv(i)'
  BY <1>1, <1>2, <1>3, JobsAssumption DEF IInv, JobInv, TypeOK, Checked
<1>6. BodyInv'
  BY <1>1 DEF IInv, BodyInv
<1>7. SerialInv'
  BY <1>1, <1>2, <1>3 DEF IInv, SerialInv, TypeOK, Checked, Active
<1>8. UniqueInv'
  BY <1>1, <1>2 DEF IInv, UniqueInv, TypeOK
<1> QED
  BY <1>4, <1>5, <1>6, <1>7, <1>8 DEF IInv

(* A job that goes on without posting, knowing no more than before.        *)
LEMMA JobMoves ==
  ASSUME IInv, NEW j \in Jobs, pc[j] \in Active,
         UNCHANGED <<thread, locals>>,
         NEW state \in {"head", "author", "skipped", "failed"}, Become(j, state),
         state = "author" => pc[j] = "head" /\ Rev[j] = head
  PROVE  IInv'
<1>1. /\ UNCHANGED <<serial, head, comments, nextId, deleted, runs, page, found, startHead>>
      /\ Reports' = Reports /\ \A id : Position(id)' = Position(id)
  BY ThreadKept DEF locals
<1>2. pc' = [pc EXCEPT ![j] = state]
  BY DEF Become
<1>3. TypeOK'
  BY <1>1, <1>2 DEF IInv, TypeOK, Active, Terminal
<1>4. \A i \in Jobs : JobInv(i)'
  <2>1. pc[j] # "idle"
    BY DEF Active
  <2>2. ASSUME NEW i \in Jobs PROVE JobInv(i)'
    <3>1. JobInv(i)
      BY DEF IInv
    <3>2. Rev[i] \in Int /\ startHead[i] \in Int /\ head \in Int
      BY JobsAssumption DEF IInv, TypeOK
    <3> QED
      BY <1>1, <1>2, <2>1, <3>1, <3>2 DEF IInv, JobInv, TypeOK, Checked
  <2> QED
    BY <2>2
<1>5. BodyInv'
  BY <1>1 DEF IInv, BodyInv
<1>6. SerialInv'
  <2>1. state \in {"head", "author"} => state \in Active
    BY DEF Active
  <2>2. state \in {"skipped", "failed"} => state \notin Active
    BY DEF Active
  <2> QED
    BY <1>1, <1>2, <2>1, <2>2 DEF IInv, SerialInv, BodyInv, TypeOK, Checked
<1>7. UniqueInv'
  BY <1>1, <1>2 DEF IInv, UniqueInv, TypeOK
<1> QED
  BY <1>3, <1>4, <1>5, <1>6, <1>7 DEF IInv

LEMMA MovingSteps ==
  ASSUME IInv, NEW j \in Jobs, CheckMetadata(j) \/ CheckHead(j) \/ ApiFails(j)
  PROVE  IInv'
<1>1. CASE CheckMetadata(j)
  BY <1>1, JobMoves DEF CheckMetadata, Active
<1>2. CASE CheckHead(j)
  BY <1>2, JobMoves DEF CheckHead, Fresh, Active
<1>3. CASE ApiFails(j)
  BY <1>3, JobMoves DEF ApiFails
<1> QED
  BY <1>1, <1>2, <1>3

LEMMA ResolveAuthorStep ==
  ASSUME IInv, NEW j \in Jobs, ResolveAuthor(j)
  PROVE  IInv'
<1>1. /\ UNCHANGED <<serial, head, comments, nextId, deleted, runs, found, startHead>>
      /\ Reports' = Reports /\ \A id : Position(id)' = Position(id)
      /\ pc[j] = "author" /\ pc' = [pc EXCEPT ![j] = "list"] /\ page' = [page EXCEPT ![j] = 1]
  BY ThreadKept DEF ResolveAuthor, Become
<1>2. TypeOK'
  BY <1>1 DEF IInv, TypeOK, Active
<1>3. \A i \in Jobs : JobInv(i)'
  BY <1>1 DEF IInv, JobInv, TypeOK, Checked
<1>4. BodyInv'
  BY <1>1 DEF IInv, BodyInv
<1>5. SerialInv'
  BY <1>1 DEF IInv, SerialInv, TypeOK, Checked, Active
<1>6. UniqueInv'
  <2>1. \A id \in Reports : 0 < Position(id)
    <3> SUFFICES ASSUME NEW id \in Reports PROVE 0 < Position(id)
      OBVIOUS
    <3> DEFINE S == {i \in DOMAIN comments : i <= id}
    <3>1. id \in S
      BY DEF IInv, TypeOK, Reports
    <3>2. IsFiniteSet(S)
      BY Pages, FS_Subset DEF IInv
    <3>3. Cardinality(S) # 0
      BY <3>1, <3>2, FS_EmptySet
    <3> QED
      BY <3>3, Pages DEF Position, IInv
  <2>2. (1 - 1) * PageSize = 0
    BY LimitsAssumption
  <2> QED
    BY <1>1, <2>1, <2>2 DEF IInv, UniqueInv, TypeOK
<1> QED
  BY <1>2, <1>3, <1>4, <1>5, <1>6 DEF IInv

(* The listing goes on: the page that was listed holds no report.          *)
LEMMA ListGoesOn ==
  ASSUME IInv, NEW j \in Jobs, pc[j] = "list", NextPage(j),
         UNCHANGED <<thread, runs, found, startHead>>,
         {id \in Page(page[j]) : Matches(comments[id])} = {}
  PROVE  IInv'
<1>1. /\ UNCHANGED <<serial, head, comments, nextId, deleted, runs, found, startHead>>
      /\ Reports' = Reports /\ \A id : Position(id)' = Position(id)
  BY ThreadKept
<1>2. TypeOK /\ page[j] \in Nat \ {0}
  BY DEF IInv, TypeOK
<1>3. ASSUME NEW id \in Reports, (page[j] - 1) * PageSize < Position(id)
      PROVE  page[j] * PageSize < Position(id)
  <2>1. id \in DOMAIN comments /\ Matches(comments[id])
    BY DEF Reports, Owned, Matches
  <2>2. id \notin Page(page[j])
    BY <2>1
  <2>3. ~(Position(id) <= page[j] * PageSize)
    BY <1>3, <2>1, <2>2 DEF Page
  <2>4. Position(id) \in Nat /\ page[j] * PageSize \in Nat
    BY <1>2, Pages, LimitsAssumption
  <2> QED
    BY <2>3, <2>4
<1>4. CASE LastPage(page[j]) /\ Become(j, "create") /\ UNCHANGED page
  <2>1. pc' = [pc EXCEPT ![j] = "create"]
    BY <1>4 DEF Become
  <2>2. TypeOK'
    BY <1>1, <1>4, <2>1 DEF IInv, TypeOK, Active
  <2>3. \A i \in Jobs : JobInv(i)'
    BY <1>1, <2>1 DEF IInv, JobInv, TypeOK, Checked
  <2>4. BodyInv'
    BY <1>1 DEF IInv, BodyInv
  <2>5. SerialInv'
    BY <1>1, <2>1 DEF IInv, SerialInv, TypeOK, Checked, Active
  <2>6. ASSUME serial, ~deleted, NEW id \in Reports PROVE FALSE
    <3>1. page[j] * PageSize < Position(id)
      BY <1>3, <2>6 DEF IInv, UniqueInv
    <3>2. Position(id) <= Cardinality(DOMAIN comments) /\ Cardinality(DOMAIN comments) <= page[j] * PageSize
      BY <1>2, <1>4, Pages DEF LastPage
    <3>3. Position(id) \in Nat /\ page[j] * PageSize \in Nat /\ Cardinality(DOMAIN comments) \in Nat
      BY <1>2, Pages, LimitsAssumption
    <3> QED
      BY <3>1, <3>2, <3>3
  <2>7. UniqueInv'
    BY <1>1, <1>4, <2>1, <2>6 DEF IInv, UniqueInv, TypeOK
  <2> QED
    BY <2>2, <2>3, <2>4, <2>5, <2>7 DEF IInv
<1>5. CASE ~LastPage(page[j]) /\ page' = [page EXCEPT ![j] = @ + 1] /\ UNCHANGED pc
  <2>1. page[j] + 1 \in 1..nextId
    BY <1>2, <1>5, NextPageExists
  <2>2. TypeOK'
    BY <1>1, <1>5, <2>1 DEF IInv, TypeOK
  <2>3. (\A i \in Jobs : JobInv(i)') /\ BodyInv' /\ SerialInv'
    BY <1>1, <1>5 DEF IInv, JobInv, BodyInv, SerialInv
  <2>4. page'[j] - 1 = page[j]
    BY <1>2, <1>5 DEF TypeOK
  <2>5. ASSUME serial, ~deleted, NEW id \in Reports
        PROVE  (page'[j] - 1) * PageSize < Position(id)
    BY <1>3, <2>4, <2>5 DEF IInv, UniqueInv
  <2>6. UniqueInv'
    BY <1>1, <1>5, <2>5 DEF IInv, UniqueInv, TypeOK
  <2> QED
    BY <2>2, <2>3, <2>6 DEF IInv
<1> QED
  BY <1>4, <1>5 DEF NextPage

LEMMA ListPageStep ==
  ASSUME IInv, NEW j \in Jobs, ListPage(j)
  PROVE  IInv'
<1> DEFINE hits == {id \in Page(page[j]) : Matches(comments[id])}
<1>1. pc[j] = "list" /\ UNCHANGED <<thread, runs, startHead>>
  BY DEF ListPage
<1>2. CASE hits = {} /\ NextPage(j) /\ UNCHANGED found
  BY <1>1, <1>2, ListGoesOn
<1>3. CASE /\ hits # {}
           /\ found' = [found EXCEPT ![j] = CHOOSE id \in hits : \A other \in hits : id <= other]
           /\ Become(j, "update")
           /\ UNCHANGED page
  <2> DEFINE first == CHOOSE id \in hits : \A other \in hits : id <= other
  <2>1. hits \subseteq DOMAIN comments /\ DOMAIN comments \subseteq 1..(nextId - 1)
    BY DEF Page, IInv, TypeOK
  <2>2. \E id \in hits : \A other \in hits : id <= other
    <3>1. nextId - 1 \in Nat
      BY DEF IInv, TypeOK
    <3>2. hits \in SUBSET (1..(nextId - 1)) /\ hits # {}
      BY <1>3, <2>1
    <3> HIDE DEF hits
    <3> QED
      BY <3>1, <3>2, SmallestId
  <2>3. first \in hits
    BY <2>2
  <2>4. first \in DOMAIN comments /\ Owned(comments[first]) /\ first \in 0..(nextId - 1)
    BY <2>1, <2>3 DEF Matches, Owned, IInv, TypeOK
  <2>5. found' = [found EXCEPT ![j] = first] /\ pc' = [pc EXCEPT ![j] = "update"] /\ UNCHANGED page
    BY <1>3 DEF Become
  <2> HIDE DEF first, hits
  <2>6. /\ UNCHANGED <<serial, head, comments, nextId, deleted, runs, startHead>>
        /\ Reports' = Reports /\ \A id : Position(id)' = Position(id)
    BY <1>1, ThreadKept
  <2>7. TypeOK'
    BY <2>4, <2>5, <2>6 DEF IInv, TypeOK, Active
  <2>8. \A i \in Jobs : JobInv(i)'
    BY <1>1, <2>4, <2>5, <2>6 DEF IInv, JobInv, TypeOK, Checked
  <2>9. BodyInv'
    BY <2>6 DEF IInv, BodyInv
  <2>10. SerialInv'
    BY <1>1, <2>5, <2>6 DEF IInv, SerialInv, TypeOK, Checked, Active
  <2>11. UniqueInv'
    BY <2>5, <2>6 DEF IInv, UniqueInv, TypeOK
  <2> QED
    BY <2>7, <2>8, <2>9, <2>10, <2>11 DEF IInv
<1> QED
  BY <1>2, <1>3 DEF ListPage

(* updateComment: the report found before is still one, and now tells of   *)
(* the revision of the job.                                                *)
LEMMA UpdateStep ==
  ASSUME IInv, NEW j \in Jobs, Update(j)
  PROVE  IInv'
<1>1. pc[j] = "update" /\ UNCHANGED <<serial, head, nextId, deleted, runs, page, found, startHead>>
  BY DEF Update, locals
<1>2. CASE Become(j, "failed") /\ UNCHANGED comments
  BY <1>1, <1>2, JobMoves DEF thread, locals, Active
<1>3. CASE /\ found[j] \in DOMAIN comments
           /\ Write(found[j], [comments[found[j]] EXCEPT !.body = Rev[j], !.marker = TRUE])
           /\ Become(j, "posted") \/ Become(j, "failed")
  <2> DEFINE new == [comments[found[j]] EXCEPT !.body = Rev[j], !.marker = TRUE]
  <2>1. PICK state \in {"posted", "failed"} : pc' = [pc EXCEPT ![j] = state]
    BY <1>3 DEF Become
  <2>2. /\ comments[found[j]] \in Comment /\ Owned(comments[found[j]])
        /\ Rev[j] \in 1..MaxHead /\ Rev[j] <= head /\ startHead[j] = Rev[j] /\ head \in Int
    BY <1>1, <1>3, JobsAssumption DEF IInv, JobInv, TypeOK, Checked
  <2>3. new \in Comment /\ Owned(new) /\ new.body = Rev[j]
    <3>1. Rev[j] \in 0..MaxHead
      BY <2>2, LimitsAssumption
    <3> QED
      BY <2>2, <3>1 DEF Comment, Owned
  <2>4. /\ DOMAIN comments' = DOMAIN comments
        /\ comments'[found[j]] = new
        /\ \A id \in DOMAIN comments \ {found[j]} : comments'[id] = comments[id]
    BY <1>3 DEF Write
  <2> HIDE DEF new
  <2>5. Reports' = Reports /\ found[j] \in Reports
    BY <1>3, <2>2, <2>3, <2>4 DEF Reports
  <2>6. \A id : Position(id)' = Position(id)
    BY <2>4 DEF Position
  <2>7. TypeOK'
    BY <1>1, <2>1, <2>3, <2>4 DEF IInv, TypeOK, Terminal
  <2>8. ASSUME NEW i \in Jobs PROVE JobInv(i)'
    <3>1. JobInv(i)
      BY DEF IInv
    <3> QED
      BY <1>1, <2>1, <2>3, <2>4, <3>1 DEF IInv, JobInv, TypeOK, Checked
  <2>9. BodyInv'
    BY <1>1, <2>2, <2>3, <2>4, <2>5 DEF IInv, BodyInv, Reports
  <2>10. SerialInv'
    <3> SUFFICES ASSUME serial PROVE SerialInv'
      BY <1>1 DEF SerialInv
    <3>1. \A i \in Jobs \ {j} : pc[i] \notin Active /\ pc'[i] = pc[i]
      BY <1>1, <2>1 DEF IInv, SerialInv, TypeOK, Active
    <3>2. pc'[j] = state /\ state \notin Active
      BY <2>1 DEF IInv, TypeOK, Active
    <3> QED
      BY <3>1, <3>2 DEF SerialInv, Checked, Active
  <2>11. UniqueInv'
    <3> SUFFICES ASSUME serial, ~deleted PROVE UniqueInv'
      BY <1>1 DEF UniqueInv
    <3>1. \A id \in Reports : id = found[j]
      BY <2>5 DEF IInv, UniqueInv
    <3>2. \A i \in Jobs \ {j} : pc[i] \notin Active /\ pc'[i] = pc[i]
      BY <1>1, <2>1 DEF IInv, SerialInv, TypeOK, Active
    <3>3. pc'[j] = state
      BY <2>1 DEF IInv, TypeOK
    <3>4. ASSUME NEW i \in Jobs, pc'[i] = "posted", Rev[i] = head PROVE Rev[j] = head
      BY <1>1, <3>2, <3>4 DEF IInv, SerialInv, Checked
    <3>5. \A i \in Jobs : pc'[i] \notin {"list", "create"}
      BY <3>2, <3>3 DEF Active
    <3> QED
      BY <1>1, <2>3, <2>4, <2>5, <3>1, <3>4, <3>5 DEF UniqueInv
  <2> QED
    BY <2>7, <2>8, <2>9, <2>10, <2>11 DEF IInv
<1> QED
  BY <1>2, <1>3 DEF Update

(* A new comment takes the next id and moves no other.                     *)
LEMMA Appended ==
  ASSUME TypeOK, NEW c, Write(nextId, c)
  PROVE  /\ DOMAIN comments' = DOMAIN comments \cup {nextId} /\ nextId \notin DOMAIN comments
         /\ comments'[nextId] = c
         /\ \A id \in DOMAIN comments : comments'[id] = comments[id]
         /\ Reports' = IF Owned(c) THEN Reports \cup {nextId} ELSE Reports
         /\ \A id \in DOMAIN comments : Position(id)' = Position(id)
<1>1. DOMAIN comments \subseteq 1..(nextId - 1) /\ nextId \in Nat
  BY DEF TypeOK
<1>2. /\ DOMAIN comments' = DOMAIN comments \cup {nextId} /\ nextId \notin DOMAIN comments
      /\ comments'[nextId] = c
      /\ \A id \in DOMAIN comments : comments'[id] = comments[id]
  BY <1>1 DEF Write
<1>3. Reports' = IF Owned(c) THEN Reports \cup {nextId} ELSE Reports
  BY <1>2 DEF Reports
<1>4. ASSUME NEW id \in DOMAIN comments PROVE Position(id)' = Position(id)
  <2>1. {i \in DOMAIN comments' : i <= id} = {i \in DOMAIN comments : i <= id}
    BY <1>1, <1>2
  <2> QED
    BY <2>1 DEF Position
<1> QED
  BY <1>2, <1>3, <1>4

LEMMA CreateStep ==
  ASSUME IInv, NEW j \in Jobs, Create(j)
  PROVE  IInv'
<1>1. /\ pc[j] = "create" /\ nextId' = nextId + 1
      /\ UNCHANGED <<serial, head, deleted, runs, page, found, startHead>>
  BY DEF Create, locals
<1>2. PICK state \in {"posted", "failed"} : pc' = [pc EXCEPT ![j] = state]
  BY DEF Create, Become
<1>3. /\ Report(j) \in Comment /\ Owned(Report(j)) /\ Report(j).body = Rev[j]
      /\ Rev[j] <= head /\ startHead[j] = Rev[j] /\ Rev[j] \in Int /\ head \in Int
  BY <1>1, JobsAssumption, LimitsAssumption DEF IInv, JobInv, TypeOK, Checked, Report, Comment, Owned
<1>4. /\ DOMAIN comments' = DOMAIN comments \cup {nextId} /\ nextId \notin DOMAIN comments
      /\ comments'[nextId] = Report(j)
      /\ \A id \in DOMAIN comments : comments'[id] = comments[id]
      /\ Reports' = Reports \cup {nextId}
  BY <1>3, Appended DEF Create, IInv
<1>5. TypeOK'
  BY <1>1, <1>2, <1>3, <1>4 DEF IInv, TypeOK, Terminal
<1>6. ASSUME NEW i \in Jobs PROVE JobInv(i)'
  <2>1. JobInv(i) /\ found[i] # nextId
    BY DEF IInv, TypeOK
  <2> QED
    BY <1>1, <1>2, <1>4, <2>1 DEF IInv, JobInv, TypeOK, Checked
<1>7. BodyInv'
  BY <1>1, <1>3, <1>4 DEF IInv, BodyInv, Reports
<1>8. ASSUME serial PROVE \A i \in Jobs : pc'[i] \notin Active
  <2>1. \A i \in Jobs \ {j} : pc[i] \notin Active /\ pc'[i] = pc[i]
    BY <1>1, <1>2, <1>8 DEF IInv, SerialInv, TypeOK, Active
  <2>2. pc'[j] = state /\ state \notin Active
    BY <1>2 DEF IInv, TypeOK, Active
  <2> QED
    BY <2>1, <2>2
<1>9. SerialInv'
  BY <1>1, <1>8 DEF SerialInv, Checked, Active
<1>10. UniqueInv'
  <2> SUFFICES ASSUME serial, ~deleted PROVE UniqueInv'
    BY <1>1 DEF UniqueInv
  <2>1. Reports' = {nextId}
    BY <1>1, <1>4 DEF IInv, UniqueInv
  <2>2. ASSUME NEW i \in Jobs, pc'[i] = "posted", Rev[i] = head PROVE Rev[j] = head
    BY <1>1, <1>2, <2>2 DEF IInv, SerialInv, Checked, TypeOK
  <2> QED
    BY <1>1, <1>3, <1>4, <1>8, <2>1, <2>2 DEF UniqueInv, Active
<1> QED
  BY <1>5, <1>6, <1>7, <1>9, <1>10 DEF IInv

-----------------------------------------------------------------------------
(* The pull request                                                         *)

LEMMA PushStep ==
  ASSUME IInv, Push
  PROVE  IInv'
<1>1. /\ head < MaxHead /\ head' = head + 1
      /\ UNCHANGED <<serial, comments, nextId, deleted, pc, runs, page, found, startHead>>
      /\ Reports' = Reports /\ \A id : Position(id)' = Position(id)
  BY DEF Push, locals, Reports, Position
<1>2. TypeOK'
  BY <1>1, LimitsAssumption DEF IInv, TypeOK
<1>3. \A i \in Jobs : JobInv(i)'
  BY <1>1, JobsAssumption DEF IInv, JobInv, TypeOK
<1>4. BodyInv'
  BY <1>1 DEF IInv, BodyInv, TypeOK, Reports, Comment
<1>5. ASSUME NEW i \in Jobs, pc[i] = "posted" PROVE Rev[i] # head'
  BY <1>1, <1>5, JobsAssumption DEF IInv, JobInv, TypeOK
<1>6. SerialInv'
  BY <1>1, <1>5 DEF IInv, SerialInv
<1>7. UniqueInv'
  BY <1>1, <1>5 DEF IInv, UniqueInv
<1> QED
  BY <1>2, <1>3, <1>4, <1>6, <1>7 DEF IInv

LEMMA OtherCommentsStep ==
  ASSUME IInv, OtherComments
  PROVE  IInv'
<1>1. nextId' = nextId + 1 /\ UNCHANGED <<serial, head, deleted, pc, runs, page, found, startHead>>
  BY DEF OtherComments, locals
<1>2. PICK m \in BOOLEAN : Write(nextId, [author |-> "user", marker |-> m, body |-> 0])
  BY DEF OtherComments
<1> DEFINE c == [author |-> "user", marker |-> m, body |-> 0]
<1>3. c \in Comment /\ ~Owned(c)
  BY LimitsAssumption DEF Comment, Owned
<1>4. /\ DOMAIN comments' = DOMAIN comments \cup {nextId} /\ nextId \notin DOMAIN comments
      /\ comments'[nextId] = c
      /\ \A id \in DOMAIN comments : comments'[id] = comments[id]
      /\ Reports' = Reports
      /\ \A id \in DOMAIN comments : Position(id)' = Position(id)
  BY <1>2, <1>3, Appended DEF IInv
<1> HIDE DEF c
<1>5. TypeOK'
  BY <1>1, <1>3, <1>4 DEF IInv, TypeOK
<1>6. ASSUME NEW i \in Jobs PROVE JobInv(i)'
  <2>1. JobInv(i) /\ found[i] # nextId
    BY DEF IInv, TypeOK
  <2> QED
    BY <1>1, <1>4, <2>1 DEF JobInv
<1>7. \A id \in Reports : id \in DOMAIN comments
  BY DEF Reports
<1>8. BodyInv' /\ SerialInv'
  BY <1>1, <1>4, <1>7 DEF IInv, BodyInv, SerialInv
<1>9. UniqueInv'
  BY <1>1, <1>4, <1>7 DEF IInv, UniqueInv
<1> QED
  BY <1>5, <1>6, <1>8, <1>9 DEF IInv

LEMMA DeleteStep ==
  ASSUME IInv, Delete
  PROVE  IInv'
<1>1. deleted' = TRUE /\ UNCHANGED <<serial, head, nextId, pc, runs, page, found, startHead>>
  BY DEF Delete, locals
<1>2. PICK gone \in DOMAIN comments : comments' = [i \in DOMAIN comments \ {gone} |-> comments[i]]
  BY DEF Delete
<1>3. /\ DOMAIN comments' = DOMAIN comments \ {gone}
      /\ \A id \in DOMAIN comments' : comments'[id] = comments[id]
  BY <1>2
<1>4. Reports' \subseteq Reports /\ \A id \in Reports' : comments'[id] = comments[id]
  BY <1>3 DEF Reports
<1>5. TypeOK'
  BY <1>1, <1>3 DEF IInv, TypeOK
<1>6. \A i \in Jobs : JobInv(i)'
  BY <1>1, <1>3 DEF IInv, JobInv
<1>7. BodyInv' /\ SerialInv'
  BY <1>1, <1>4 DEF IInv, BodyInv, SerialInv
<1>8. UniqueInv'
  BY <1>1 DEF UniqueInv
<1> QED
  BY <1>5, <1>6, <1>7, <1>8 DEF IInv

-----------------------------------------------------------------------------
LEMMA NextStep ==
  ASSUME IInv, [Next]_vars
  PROVE  IInv'
<1>1. ASSUME NEW j \in Jobs, Job(j) PROVE IInv'
  BY <1>1, MovingSteps, ResolveAuthorStep, ListPageStep, UpdateStep, CreateStep DEF Job
<1>2. CASE UNCHANGED vars
  <2>1. /\ UNCHANGED <<serial, head, comments, nextId, deleted, pc, runs, page, found, startHead>>
        /\ Reports' = Reports /\ \A id : Position(id)' = Position(id)
    BY <1>2, ThreadKept DEF vars, locals
  <2> QED
    BY <2>1 DEF IInv, TypeOK, JobInv, BodyInv, SerialInv, UniqueInv
<1> QED
  BY <1>1, <1>2, StartStep, MovingSteps, PushStep, OtherCommentsStep, DeleteStep DEF Next

(* The invariant holds throughout, for any jobs, revisions and page size.  *)
THEOREM Invariance == Spec => []IInv
<1>1. Init => IInv
  <2> SUFFICES ASSUME Init PROVE IInv
    OBVIOUS
  <2>1. DOMAIN comments = {} /\ Reports = {} /\ \A j \in Jobs : pc[j] = "idle"
    BY DEF Init, Reports
  <2>2. TypeOK
    <3>1. serial \in BOOLEAN /\ deleted \in BOOLEAN
      <4>1. serial \in Serializing /\ Serializing \subseteq BOOLEAN /\ deleted = FALSE
        BY LimitsAssumption DEF Init
      <4> QED
        BY <4>1, Zenon
    <3>2. /\ head \in 1..MaxHead /\ nextId = 1
          /\ startHead \in [Jobs -> 0..MaxHead] /\ runs \in [Jobs -> 0..MaxRuns]
      BY LimitsAssumption DEF Init
    <3>3. /\ page \in [Jobs -> 1..nextId] /\ found \in [Jobs -> 0..(nextId - 1)]
          /\ pc \in [Jobs -> Active \cup Terminal \cup {"idle"}]
      BY DEF Init
    <3> QED
      BY <2>1, <3>1, <3>2, <3>3 DEF TypeOK
  <2>3. (\A j \in Jobs : JobInv(j)) /\ BodyInv /\ SerialInv /\ UniqueInv
    BY <2>1 DEF JobInv, BodyInv, SerialInv, UniqueInv, Checked, Active
  <2> QED
    BY <2>2, <2>3 DEF IInv
<1> QED
  BY <1>1, NextStep, PTL DEF Spec

(* TypeOK: no job asks for a page that cannot be there or remembers a      *)
(* comment that never was.                                                 *)
THEOREM TypeCorrect == Spec => []TypeOK
<1>1. IInv => TypeOK
  BY DEF IInv
<1> QED
  BY <1>1, Invariance, PTL

(* OneReport: jobs that do not overlap keep one report comment, if none is *)
(* deleted, on whatever page it is.                                        *)
THEOREM OneReportKept == Spec => []OneReport
<1>1. ASSUME IInv, serial, ~deleted PROVE Cardinality(Reports) <= 1
  <2>1. \A a, b \in Reports : a = b
    BY <1>1 DEF IInv, UniqueInv
  <2>2. CASE Reports = {}
    BY <2>2, FS_EmptySet
  <2>3. CASE Reports # {}
    <3>1. PICK a : Reports = {a}
      BY <2>1, <2>3
    <3>2. Cardinality({a}) = 1
      BY FS_Singleton
    <3> QED
      BY <3>1, <3>2
  <2> QED
    BY <2>2, <2>3
<1>2. IInv => OneReport
  BY <1>1 DEF OneReport
<1> QED
  BY <1>2, Invariance, PTL

(* CurrentReportStays: after the job of the head has posted, the report    *)
(* shown is that of the head.                                              *)
THEOREM CurrentReportKept == Spec => []CurrentReportStays
<1>1. IInv => CurrentReportStays
  BY DEF IInv, UniqueInv, CurrentReportStays
<1> QED
  BY <1>1, Invariance, PTL

(* What a step does to comments.                                           *)
LEMMA WhoWrites ==
  ASSUME IInv, [Next]_vars, comments' # comments
  PROVE  \/ \E j \in Jobs : Update(j) \/ Create(j)
         \/ OtherComments \/ Delete
BY DEF Next, Job, vars, thread, Start, CheckMetadata, CheckHead, ResolveAuthor, ListPage, ApiFails, Push

LEMMA CommentsKept ==
  ASSUME IInv, [Next]_vars, NEW id \in DOMAIN comments, id \in DOMAIN comments'
  PROVE  \/ comments'[id] = comments[id]
         \/ \E j \in Jobs : /\ pc[j] = "update" /\ id = found[j] /\ Owned(comments[id])
                            /\ comments'[id].body = Rev[j]
<1>1. CASE comments' = comments
  BY <1>1
<1>2. ASSUME NEW j \in Jobs, Update(j), comments' # comments
      PROVE  \/ comments'[id] = comments[id]
             \/ pc[j] = "update" /\ id = found[j] /\ Owned(comments[id]) /\ comments'[id].body = Rev[j]
  <2>1. /\ pc[j] = "update" /\ found[j] \in DOMAIN comments
        /\ Write(found[j], [comments[found[j]] EXCEPT !.body = Rev[j], !.marker = TRUE])
    BY <1>2 DEF Update
  <2>2. Owned(comments[found[j]]) /\ comments[found[j]] \in Comment
    BY <2>1 DEF IInv, JobInv, TypeOK
  <2> QED
    BY <2>1, <2>2 DEF Write, Comment
<1>3. ASSUME NEW c, Write(nextId, c) PROVE comments'[id] = comments[id]
  BY <1>3, Appended DEF IInv
<1>4. ASSUME Delete PROVE comments'[id] = comments[id]
  BY <1>4 DEF Delete
<1>5. CASE comments' # comments
  BY <1>2, <1>3, <1>4, <1>5, WhoWrites DEF Create, OtherComments
<1> QED
  BY <1>1, <1>5

(* OthersUntouched: a comment that is not the bot's report stays as it is, *)
(* whether or not it quotes the marker.                                    *)
Untouched == \A id \in DOMAIN comments \cap DOMAIN comments' :
               ~Owned(comments[id]) => comments'[id] = comments[id]

THEOREM OthersKept == Spec => OthersUntouched
<1>1. ASSUME IInv, [Next]_vars PROVE Untouched
  BY <1>1, CommentsKept DEF Untouched
<1>2. IInv /\ [Next]_vars => [Untouched]_vars
  BY <1>1
<1> QED
  BY <1>2, Invariance, PTL DEF Spec, OthersUntouched, Untouched

(* SerialNeverOverwritesNewer: with a concurrency group no report is       *)
(* replaced by that of an older revision.                                  *)
Newer == serial => \A id \in Reports \cap Reports' : comments[id].body <= comments'[id].body

THEOREM SerialOrder == Spec => SerialNeverOverwritesNewer
<1>1. ASSUME IInv, [Next]_vars PROVE Newer
  <2> SUFFICES ASSUME serial, NEW id \in Reports \cap Reports'
               PROVE  comments[id].body <= comments'[id].body
    BY DEF Newer
  <2>1. id \in DOMAIN comments /\ id \in DOMAIN comments' /\ comments[id].body \in Int
    BY <1>1, LimitsAssumption DEF Reports, IInv, TypeOK, Comment
  <2>2. CASE comments'[id] = comments[id]
    BY <2>1, <2>2
  <2>3. ASSUME NEW j \in Jobs, pc[j] = "update", comments'[id].body = Rev[j]
        PROVE  comments[id].body <= comments'[id].body
    BY <1>1, <2>3 DEF IInv, SerialInv, Checked
  <2> QED
    BY <1>1, <2>1, <2>2, <2>3, CommentsKept
<1>2. IInv /\ [Next]_vars => [Newer]_vars
  BY <1>1
<1> QED
  BY <1>2, Invariance, PTL DEF Spec, SerialNeverOverwritesNewer, Newer

(* StartedStaleIsSilent: a job that starts when its revision is no longer  *)
(* the head posts nothing, and writes nothing either when it fails.        *)
Silent ==
  \A j \in Jobs : (pc[j] \in Active /\ startHead[j] # Rev[j] /\ pc'[j] # pc[j])
    => pc'[j] # "posted" /\ comments' = comments

THEOREM StaleSilent == Spec => StartedStaleIsSilent
<1>1. ASSUME IInv, [Next]_vars PROVE Silent
  <2> SUFFICES ASSUME NEW j \in Jobs, pc[j] \in Active, startHead[j] # Rev[j], pc'[j] # pc[j]
               PROVE  pc'[j] # "posted" /\ comments' = comments
    BY DEF Silent
  <2>1. pc[j] \notin Checked
    BY <1>1 DEF IInv, JobInv
  <2>2. pc \in [Jobs -> Active \cup Terminal \cup {"idle"}]
    BY <1>1 DEF IInv, TypeOK
  <2>3. ASSUME NEW i \in Jobs, Start(i) \/ Job(i) \/ ApiFails(i)
        PROVE  pc'[j] # "posted" /\ comments' = comments
    <3>1. CASE Update(i) \/ Create(i)
      <4>1. i # j
        BY <2>1, <3>1 DEF Update, Create, Checked
      <4>2. PICK state \in {"posted", "failed"} : pc' = [pc EXCEPT ![i] = state]
        BY <3>1 DEF Update, Create, Become
      <4>3. pc'[j] = pc[j]
        BY <2>2, <4>1, <4>2
      <4> QED
        BY <4>3
    <3>2. CASE ~(Update(i) \/ Create(i))
      <4>1. pc' = pc \/ \E state \in Active \cup {"skipped", "failed"} : pc' = [pc EXCEPT ![i] = state]
        BY <2>3, <3>2 DEF Start, Job, ApiFails, CheckMetadata, CheckHead, ResolveAuthor, ListPage, NextPage, Become, Active
      <4>2. comments' = comments
        BY <2>3, <3>2 DEF Start, Job, ApiFails, CheckMetadata, CheckHead, ResolveAuthor, ListPage, thread
      <4> QED
        BY <2>2, <4>1, <4>2 DEF Active
    <3> QED
      BY <3>1, <3>2
  <2>4. CASE Push \/ OtherComments \/ Delete \/ UNCHANGED vars
    <3>1. pc' = pc
      BY <2>4 DEF Push, OtherComments, Delete, vars
    <3> QED
      BY <3>1
  <2> QED
    BY <1>1, <2>3, <2>4 DEF Next
<1>2. IInv /\ [Next]_vars => [Silent]_vars
  BY <1>1
<1> QED
  BY <1>2, Invariance, PTL DEF Spec, StartedStaleIsSilent, Silent
=============================================================================
