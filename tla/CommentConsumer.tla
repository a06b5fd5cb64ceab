--------------------------- MODULE CommentConsumer ---------------------------
(***************************************************************************)
(* The comment consumer (src/comment-action.ts): jobs that each deliver    *)
(* the report of one revision of a pull request.  A job checks that its    *)
(* revision is still the head, pages through the comments for the report   *)
(* comment its author owns, and updates that comment or creates one.       *)
(* Meanwhile the pull request is pushed to, people comment and delete, the *)
(* API fails, answers are lost, jobs are rerun and run side by side.       *)
(*                                                                         *)
(* One action is one API call with the synchronous code that follows it.   *)
(* Revisions are numbered in the order they are pushed.                    *)
(***************************************************************************)
EXTENDS Integers, FiniteSets

CONSTANTS
  Jobs,         \* the consumer jobs
  Rev,          \* Rev[j] is the producer revision, workflow_run.head_sha
  Metadata,     \* Metadata[j] relates the artifact's headSha to Rev[j]
  MaxHead,      \* bound: revisions pushed
  MaxRuns,      \* bound: times a job is run
  PageSize,     \* comments on a page of listComments
  MaxOthers,    \* bound: comments by other people
  Serializing   \* whether jobs may overlap: a subset of BOOLEAN

MetadataKinds == {"same", "merge", "forged"}

ASSUME JobsAssumption == /\ IsFiniteSet(Jobs)
                         /\ Rev \in [Jobs -> 1..MaxHead]
                         /\ Metadata \in [Jobs -> MetadataKinds]
ASSUME LimitsAssumption == /\ MaxHead \in Nat \ {0}
                           /\ MaxRuns \in Nat
                           /\ PageSize \in Nat \ {0}
                           /\ MaxOthers \in Nat
                           /\ Serializing \subseteq BOOLEAN

VARIABLES
  serial,     \* jobs run one at a time: a `concurrency` group in the workflow
  head,       \* the current head revision of the pull request
  comments,   \* the comments of the pull request, by id
  nextId,     \* ids are given out in order and never reused
  deleted,    \* whether any comment has ever been deleted
  pc,         \* where each job is
  runs,       \* how often each job has been started
  page,       \* the page each job lists next
  found,      \* the id of the comment each job found
  startHead   \* the head when each job started

thread  == <<serial, head, comments, nextId, deleted>>
locals  == <<runs, page, found, startHead>>
vars    == <<thread, pc, locals>>

Active   == {"metadata", "head", "author", "list", "update", "create"}
Terminal == {"posted", "skipped", "failed"}

(* body is the revision a report is about, 0 for any other text; marker    *)
(* says that COMMENT_MARKER is in the text.                                *)
Comment == [author : {"bot", "user"}, marker : BOOLEAN, body : 0..MaxHead]

Owned(c) == c.author = "bot" /\ c.marker

Become(j, state) == pc' = [pc EXCEPT ![j] = state]

-----------------------------------------------------------------------------
(* Helpers                                                                  *)

(* The position of a comment in the list of those that are live.           *)
Position(id) == Cardinality({i \in DOMAIN comments : i <= id})

Page(n) == {id \in DOMAIN comments :
              /\ (n - 1) * PageSize < Position(id)
              /\ Position(id) <= n * PageSize}

LastPage(n) == Cardinality(DOMAIN comments) <= n * PageSize

(* findReportComment wants the marker and the expected author.             *)
\* Bug: the marker alone identifies the report comment.
BugAnyAuthor(c) == c.marker
Matches(c) == c.marker /\ c.author = "bot"

Report(j) == [author |-> "bot", marker |-> TRUE, body |-> Rev[j]]

Write(id, c) == comments' = [i \in DOMAIN comments \cup {id} |->
                               IF i = id THEN c ELSE comments[i]]

-----------------------------------------------------------------------------
(* The jobs                                                                 *)

Init == /\ serial \in Serializing
        /\ head = 1
        /\ comments = [id \in {} |-> 0]
        /\ nextId = 1
        /\ deleted = FALSE
        /\ pc = [j \in Jobs |-> "idle"]
        /\ runs = [j \in Jobs |-> 0]
        /\ page = [j \in Jobs |-> 1]
        /\ found = [j \in Jobs |-> 0]
        /\ startHead = [j \in Jobs |-> 0]

(* The benchmark of a pushed revision has finished, or a job is rerun; the *)
(* artifact is read.                                                       *)
Start(j) ==
  /\ pc[j] \in {"idle"} \cup Terminal
  /\ runs[j] < MaxRuns
  /\ Rev[j] <= head
  /\ serial => \A i \in Jobs : pc[i] \notin Active
  /\ runs' = [runs EXCEPT ![j] = @ + 1]
  /\ startHead' = [startHead EXCEPT ![j] = head]
  /\ Become(j, IF Metadata[j] = "same" THEN "head" ELSE "metadata")
  /\ UNCHANGED <<thread, page, found>>

(* getCommitParents: the metadata must name a merge of the producer.       *)
CheckMetadata(j) ==
  /\ pc[j] = "metadata"
  /\ Become(j, IF Metadata[j] = "merge" THEN "head" ELSE "failed")
  /\ UNCHANGED <<thread, locals>>

(* getCurrentHeadSha and assessFreshness.                                  *)
\* Bug: the producer is compared with the head the job was started for.
BugAlwaysFresh(j) == Rev[j] <= head
\* Bug: the comparison is inverted.
BugInverted(j) == Rev[j] # head
Fresh(j) == Rev[j] = head

CheckHead(j) ==
  /\ pc[j] = "head"
  /\ Become(j, IF Fresh(j) THEN "author" ELSE "skipped")
  /\ UNCHANGED <<thread, locals>>

(* resolveExpectedAuthor, then the listing starts at its first page.       *)
ResolveAuthor(j) ==
  /\ pc[j] = "author"
  /\ Become(j, "list")
  /\ page' = [page EXCEPT ![j] = 1]
  /\ UNCHANGED <<thread, runs, found, startHead>>

(* One page of listComments: the first match ends the search, so does the  *)
(* last page.                                                              *)
\* Bugs: only the first page is searched; the same page is fetched again;
\* the listing does not stop at the last page.
BugOnePage(j) == Become(j, "create") /\ UNCHANGED page
BugSamePage(j) == UNCHANGED <<pc, page>>
BugNoLastPage(j) == page' = [page EXCEPT ![j] = @ + 1] /\ UNCHANGED pc
NextPage(j) == IF LastPage(page[j])
                 THEN Become(j, "create") /\ UNCHANGED page
                 ELSE page' = [page EXCEPT ![j] = @ + 1] /\ UNCHANGED pc

ListPage(j) ==
  /\ pc[j] = "list"
  /\ LET hits == {id \in Page(page[j]) : Matches(comments[id])}
     IN \/ /\ hits # {}
           /\ found' = [found EXCEPT ![j] =
                          CHOOSE id \in hits : \A other \in hits : id <= other]
           /\ Become(j, "update")
           /\ UNCHANGED page
        \/ /\ hits = {}
           /\ NextPage(j)
           /\ UNCHANGED found
  /\ UNCHANGED <<thread, runs, startHead>>

(* updateComment: a comment deleted since it was found is an error.  The   *)
(* answer of the API may be lost after the change was made.                *)
Update(j) ==
  /\ pc[j] = "update"
  /\ \/ /\ found[j] \in DOMAIN comments
        /\ Write(found[j], [comments[found[j]] EXCEPT !.body = Rev[j], !.marker = TRUE])
        /\ Become(j, "posted") \/ Become(j, "failed")
     \/ /\ found[j] \notin DOMAIN comments
        /\ Become(j, "failed")
        /\ UNCHANGED comments
  /\ UNCHANGED <<serial, head, nextId, deleted, locals>>

Create(j) ==
  /\ pc[j] = "create"
  /\ Write(nextId, Report(j))
  /\ nextId' = nextId + 1
  /\ Become(j, "posted") \/ Become(j, "failed")
  /\ UNCHANGED <<serial, head, deleted, locals>>

(* Any call fails before it has an effect: core.setFailed.                 *)
ApiFails(j) ==
  /\ pc[j] \in Active
  /\ Become(j, "failed")
  /\ UNCHANGED <<thread, locals>>

Job(j) == \/ CheckMetadata(j) \/ CheckHead(j) \/ ResolveAuthor(j) \/ ListPage(j)
          \/ Update(j) \/ Create(j)

-----------------------------------------------------------------------------
(* The pull request                                                         *)

Push == /\ head < MaxHead
        /\ head' = head + 1
        /\ UNCHANGED <<serial, comments, nextId, deleted, pc, locals>>

(* Somebody comments, perhaps quoting a report with its marker.            *)
OtherComments ==
  /\ Cardinality({i \in DOMAIN comments : comments[i].author = "user"}) < MaxOthers
  /\ nextId <= MaxOthers + Cardinality(Jobs)
  /\ \E m \in BOOLEAN : Write(nextId, [author |-> "user", marker |-> m, body |-> 0])
  /\ nextId' = nextId + 1
  /\ UNCHANGED <<serial, head, deleted, pc, locals>>

Delete ==
  /\ \E id \in DOMAIN comments :
       comments' = [i \in DOMAIN comments \ {id} |-> comments[i]]
  /\ deleted' = TRUE
  /\ UNCHANGED <<serial, head, nextId, pc, locals>>

Next == (\E j \in Jobs : Start(j) \/ Job(j) \/ ApiFails(j)) \/ Push \/ OtherComments \/ Delete

Spec == Init /\ [][Next]_vars

(* A started job makes its next call, whether or not calls fail.  No job   *)
(* has to be started, and nobody has to push or comment.                   *)
FairSpec == Spec /\ \A j \in Jobs : WF_vars(Job(j))

-----------------------------------------------------------------------------
(* Properties                                                               *)

(* Every variable holds a value of its kind; no job asks for a page beyond *)
(* those there can be, or remembers a comment that never existed.          *)
TypeOK ==
  /\ serial \in BOOLEAN
  /\ head \in 1..MaxHead
  /\ nextId \in Nat \ {0}
  /\ DOMAIN comments \subseteq 1..(nextId - 1)
  /\ \A id \in DOMAIN comments : comments[id] \in Comment
  /\ deleted \in BOOLEAN
  /\ pc \in [Jobs -> Active \cup Terminal \cup {"idle"}]
  /\ runs \in [Jobs -> 0..MaxRuns]
  /\ page \in [Jobs -> 1..nextId]
  /\ found \in [Jobs -> 0..(nextId - 1)]
  /\ startHead \in [Jobs -> 0..MaxHead]

Reports == {id \in DOMAIN comments : Owned(comments[id])}

(* A comment somebody else wrote is never changed by a job, even one that  *)
(* quotes a report with its marker.                                        *)
OthersUntouched ==
  [][\A id \in DOMAIN comments \cap DOMAIN comments' :
       ~Owned(comments[id]) => comments'[id] = comments[id]]_vars

(* A job that starts when its revision is no longer the head leaves every  *)
(* comment as it is, however its calls interleave with those of others: it *)
(* neither posts, nor writes and fails because the answer was lost.        *)
StartedStaleIsSilent ==
  [][\A j \in Jobs : (pc[j] \in Active /\ startHead[j] # Rev[j] /\ pc'[j] # pc[j])
       => pc'[j] # "posted" /\ comments' = comments]_vars

(* README.md: "an older job that finishes late never overwrites a newer    *)
(* result": no step replaces a report by that of an older revision.        *)
NeverOverwritesNewer ==
  [][\A id \in Reports \cap Reports' : comments[id].body <= comments'[id].body]_vars

(* The same, for jobs that do not overlap.                                 *)
SerialNeverOverwritesNewer ==
  [][serial => \A id \in Reports \cap Reports' :
                 comments[id].body <= comments'[id].body]_vars

(* Jobs that do not overlap keep one report comment, reruns and lost       *)
(* answers included, unless comments are deleted: a deletion moves the     *)
(* pages under the listing.                                                *)
OneReport == serial /\ ~deleted => Cardinality(Reports) <= 1

(* Once the job of the head has posted and no job is active, the report    *)
(* shown is that of the head.                                              *)
CurrentReportStays ==
  (/\ serial /\ ~deleted
   /\ \A j \in Jobs : pc[j] \notin Active
   /\ \E j \in Jobs : Rev[j] = head /\ pc[j] = "posted")
  => \A id \in Reports : comments[id].body = head

(* Every started job ends.                                                 *)
JobsEnd == \A j \in Jobs : pc[j] \in Active ~> pc[j] \notin Active
=============================================================================
