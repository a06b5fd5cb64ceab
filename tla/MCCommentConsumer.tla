-------------------------- MODULE MCCommentConsumer --------------------------
(***************************************************************************)
(* Two revisions, a job for each; the second job's artifact names a merge  *)
(* commit.  A page holds one comment, so any other comment makes two.      *)
(***************************************************************************)
EXTENDS CommentConsumer

MCJobs     == {"old", "new"}
MCRev      == [j \in MCJobs |-> IF j = "old" THEN 1 ELSE 2]
MCMetadata == [j \in MCJobs |-> IF j = "old" THEN "same" ELSE "merge"]
=============================================================================
