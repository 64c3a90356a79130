------------------------------ MODULE BestBranch ------------------------------
(***************************************************************************)
(* ForkContextBase::findBestBranch as the loop the code runs.  The module  *)
(* ForkContextBase defines its result by an ordering of the answers; the   *)
(* two are compared on the reachable forks of MCForkBasic.                 *)
(***************************************************************************)
EXTENDS ForkContextBase, Sequences, SequencesExt

(* mWaitingBranches after each push_back and sort: by decreasing priority, *)
(* equal ones in the order of their creation.                              *)
WaitingBranches(f) == SetToSortSeq(f.waiting, LAMBDA b, c : BranchBefore(f, b, c))

(* Mutation: the cases that prefer a 6xx are missing.                      *)
MutBetter(bestStatus, brStatus) ==
    LET bestClass == CodeClass(bestStatus)
        brClass == CodeClass(brStatus)
    IN IF brClass = 2 THEN brStatus < bestStatus
       ELSE IF bestClass = 2 THEN FALSE
       ELSE IF brClass = 4 /\ bestClass = 4 THEN bestStatus \notin Useful4xx /\ brStatus \in Useful4xx
       ELSE brClass < bestClass

(* The body of the loop: does br replace best?                             *)
Better(bestStatus, brStatus) ==
    LET bestClass == CodeClass(bestStatus)
        brClass == CodeClass(brStatus)
    IN IF brClass = 2 THEN brStatus < bestStatus
       ELSE IF bestClass = 2 THEN FALSE
       ELSE IF brClass = 6 THEN bestClass # 6 \/ brStatus < bestStatus
       ELSE IF bestClass = 6 THEN FALSE
       ELSE IF brClass = 4 /\ bestClass = 4 THEN bestStatus \notin Useful4xx /\ brStatus \in Useful4xx
       ELSE brClass < bestClass

LoopStep(f, ignore503And408, best, b) ==
    IF f.br[b].status < 200 \/ ~IsConsidered(f.br[b].status, ignore503And408) THEN best
    ELSE IF best = NoBranch THEN b
    ELSE IF Better(f.br[best].status, f.br[b].status) THEN b ELSE best

LoopBest(f, ignore503And408) ==
    FoldLeft(LAMBDA best, b : LoopStep(f, ignore503And408, best, b), NoBranch, WaitingBranches(f))
=============================================================================
