------------------------------- MODULE Handoffs -------------------------------
(***************************************************************************)
(* The one commit a child hands off (orchestrator.ts, commitHandoff,       *)
(* submitHandoff and the handoff part of reconcile; git-operations.ts,     *)
(* prepareHandoff, commitHandoff and reconcileHandoff).  The user approves *)
(* exact contents of exact paths; the commit is then made in five Git      *)
(* commands, in a worktree others can edit, with a crash, a refusal or a   *)
(* time-out possible at every one of them.                                 *)
(***************************************************************************)
EXTENDS Integers, Sequences, FiniteSets

CONSTANTS Paths,          \* the paths of the child's worktree
          MaxHandoffs     \* bound on the rows of handoff_operations

ASSUME HandoffsAssumption == MaxHandoffs \in Nat

VARIABLES childHead,      \* HEAD of the child's branch
          staged,         \* the tree in the index
          work,           \* the files of the worktree
          handoffs,       \* table handoff_operations; `compared' is its `executing' after the index was
                      \* compared, `moved' its `committed' after the branch moved
          handoffCall,    \* the row the child's call works on, 0 when there is none
          submitted,      \* the row whose commit became the result, 0 before
          childCancelled  \* the run was fenced

hoVars == <<childHead, staged, work, handoffs, handoffCall, submitted, childCancelled>>

\* "link" stands for all a handoff may not hold: a path out of scope, a symbolic
\* link or submodule, .gitattributes, a filter, a collision by case.
Trees == [Paths -> {"base", "edit", "link"}]
Base == [p \in Paths |-> "base"]
BaseHead == [by |-> 0, tree |-> Base, ahead |-> 0]   \* ahead: commits above the base, 2 for more
Rows == 1..Len(handoffs)

Changed(tree) == {p \in Paths : tree[p] # "base"}

HandoffsTypeOK ==
  /\ childHead \in [by: 0..MaxHandoffs, tree: Trees, ahead: 0..2]
  /\ staged \in Trees /\ work \in Trees
  /\ Len(handoffs) \in 0..MaxHandoffs
  /\ \A h \in Rows : handoffs[h] \in
       [tree: Trees, decided: {"no", "approved"}, made: Trees, commit: BOOLEAN,
        state: {"awaiting-approval", "executing", "compared", "staged", "committed", "moved", "complete",
                "rejected", "revoked", "failed", "unknown"}]
  /\ handoffCall \in 0..Len(handoffs) /\ submitted \in 0..Len(handoffs)
  /\ childCancelled \in BOOLEAN

HandoffsInit ==
  /\ childHead = BaseHead /\ staged = Base /\ work = Base
  /\ handoffs = << >> /\ handoffCall = 0 /\ submitted = 0
  /\ childCancelled = FALSE

-----------------------------------------------------------------------------
\* What prepareHandoff accepts: changes on the base, nothing staged, every path
\* allowed.  What it finds is the content the user is shown.
Preparable == /\ childHead = BaseHead /\ staged = Base /\ work # Base
              /\ \A p \in Paths : work[p] # "link"

\* Mutant: only the names are compared with what was approved.
SamePaths(tree, approved) == Changed(tree) = Changed(approved)

\* The manifest of a tree against the approved one
SameEffect(tree, approved) == tree = approved

CleanAt(commit) == childHead = commit /\ staged = commit.tree /\ work = commit.tree
Made(h) == [by |-> h, tree |-> handoffs[h].made, ahead |-> 1]

Row(h, state) == handoffs' = [handoffs EXCEPT ![h].state = state]
LeaveHandoff == handoffCall' = 0
Working(state) == handoffCall # 0 /\ handoffs[handoffCall].state = state
requireChild == ~childCancelled /\ submitted = 0

\* commit_handoff: no completed or unknown handoff of the child, its declared
\* paths are those that changed, nothing looks like a secret.
PrepareHandoff ==
  /\ requireChild /\ handoffCall = 0 /\ Preparable /\ Len(handoffs) < MaxHandoffs
  /\ \A h \in Rows : handoffs[h].state \notin {"complete", "unknown"}
  /\ handoffs' = Append(handoffs, [tree |-> work, decided |-> "no", made |-> Base, commit |-> FALSE,
                                   state |-> "awaiting-approval"])
  /\ handoffCall' = Len(handoffs) + 1
  /\ UNCHANGED <<childHead, staged, work, submitted, childCancelled>>

DeclineHandoff ==
  /\ Working("awaiting-approval")
  /\ \E state \in {"rejected", "revoked"} : Row(handoffCall, state)
  /\ LeaveHandoff
  /\ UNCHANGED <<childHead, staged, work, submitted, childCancelled>>

\* Approved: a run cancelled meanwhile executes nothing.
ExecuteHandoff ==
  /\ Working("awaiting-approval")
  /\ IF childCancelled THEN Row(handoffCall, "revoked") /\ LeaveHandoff
     ELSE /\ handoffs' = [handoffs EXCEPT ![handoffCall].state = "executing", ![handoffCall].decided = "approved"]
          /\ UNCHANGED handoffCall
  /\ UNCHANGED <<childHead, staged, work, submitted, childCancelled>>

\* The approved content is still there; git add, and the index holds exactly it.
\* The content may change between the two.
StageHandoff ==
  LET h == handoffCall
      new == [p \in Paths |-> IF p \in Changed(handoffs[h].tree) THEN work[p] ELSE staged[p]] IN
  /\ Working("executing") /\ childHead = BaseHead
  /\ staged' = new
  /\ IF SameEffect(new, handoffs[h].tree)
     THEN Row(h, "compared") /\ UNCHANGED handoffCall
     ELSE Row(h, "unknown") /\ LeaveHandoff
  /\ UNCHANGED <<childHead, work, submitted, childCancelled>>

\* git write-tree, of what the index holds by now (hooks.staged).
WriteTree ==
  /\ Working("compared")
  /\ handoffs' = [handoffs EXCEPT ![handoffCall].state = "staged", ![handoffCall].made = staged]
  /\ UNCHANGED <<childHead, staged, work, handoffCall, submitted, childCancelled>>

\* The manifest of the tree once more, then git commit-tree (hooks.committed).
CommitTree ==
  /\ Working("staged")
  /\ IF SameEffect(handoffs[handoffCall].made, handoffs[handoffCall].tree)
     THEN handoffs' = [handoffs EXCEPT ![handoffCall].state = "committed", ![handoffCall].commit = TRUE] /\ UNCHANGED handoffCall
     ELSE Row(handoffCall, "unknown") /\ LeaveHandoff
  /\ UNCHANGED <<childHead, staged, work, submitted, childCancelled>>

\* git update-ref moves the branch only from the expected head.
UpdateRef ==
  /\ Working("committed")
  /\ IF childHead = BaseHead
     THEN childHead' = Made(handoffCall) /\ Row(handoffCall, "moved") /\ UNCHANGED handoffCall
     ELSE Row(handoffCall, "unknown") /\ LeaveHandoff /\ UNCHANGED childHead
  /\ UNCHANGED <<staged, work, submitted, childCancelled>>

\* HEAD is the commit and the worktree is clean: complete.
Complete ==
  /\ Working("moved")
  /\ Row(handoffCall, IF CleanAt(Made(handoffCall)) THEN "complete" ELSE "unknown")
  /\ LeaveHandoff
  /\ UNCHANGED <<childHead, staged, work, submitted, childCancelled>>

\* A Git command fails: before the first mutation, or in a read of the state, the
\* manifest or the commit, the row becomes `failed', otherwise `unknown'; add and
\* update-ref may have had their effect.
GitFails ==
  LET h == handoffCall IN
  /\ h # 0 /\ handoffs[h].state \in {"executing", "compared", "staged", "committed", "moved"}
  /\ \/ handoffs[h].state \in {"executing", "staged", "moved"} /\ Row(h, "failed") /\ UNCHANGED <<childHead, staged>>
     \/ handoffs[h].state = "executing" /\ Row(h, "unknown") /\ staged' \in {staged, work} /\ UNCHANGED childHead
     \/ handoffs[h].state \in {"compared", "staged"} /\ Row(h, "unknown") /\ UNCHANGED <<childHead, staged>>
     \/ /\ handoffs[h].state = "committed" /\ Row(h, "unknown") /\ UNCHANGED staged
        /\ childHead' \in {childHead} \cup (IF childHead = BaseHead THEN {Made(h)} ELSE {})
  /\ LeaveHandoff
  /\ UNCHANGED <<work, submitted, childCancelled>>

-----------------------------------------------------------------------------
\* reconcileHandoff: what HEAD and the index show.
ReconcileHandoff(h) ==
  /\ handoffs[h].state = "unknown" /\ handoffCall # h
  /\ \/ childHead = BaseHead /\ staged = Base /\ Row(h, "failed")
     \/ /\ childHead.ahead = 1 /\ SameEffect(childHead.tree, handoffs[h].tree) /\ CleanAt(childHead)
        /\ handoffs' = [handoffs EXCEPT ![h].state = "complete", ![h].made = childHead.tree, ![h].commit = TRUE]
  /\ UNCHANGED <<childHead, staged, work, handoffCall, submitted, childCancelled>>

\* submit_handoff: the worktree is clean at the completed commit, which has the
\* base as its only parent and the approved effect, with evidence on its tree.
SubmitHandoff(h) ==
  /\ requireChild /\ handoffCall = 0 /\ handoffs[h].state = "complete"
  /\ \A g \in Rows : handoffs[g].state # "unknown"
  /\ childHead.ahead = 1 /\ childHead.tree = handoffs[h].made /\ CleanAt(childHead)
  /\ SameEffect(childHead.tree, handoffs[h].tree)
  /\ submitted' = h
  /\ UNCHANGED <<childHead, staged, work, handoffs, handoffCall, childCancelled>>

CancelChild ==
  /\ ~childCancelled /\ childCancelled' = TRUE
  /\ UNCHANGED <<childHead, staged, work, handoffs, handoffCall, submitted>>

\* recoverOrchestration, of a row
RecoveredHandoff(state) ==
  CASE state = "awaiting-approval" -> "revoked"
    [] state \in {"executing", "compared", "staged", "committed", "moved"} -> "unknown"
    [] OTHER -> state

CrashHandoff ==
  /\ handoffs' = [h \in Rows |-> [handoffs[h] EXCEPT !.state = RecoveredHandoff(@)]]
  /\ LeaveHandoff
  /\ UNCHANGED <<childHead, staged, work, submitted, childCancelled>>

\* The child's edits and the user's: a file, the index, a commit, a reset.
EditChild ==
  /\ \/ \E p \in Paths, v \in {"base", "edit", "link"} : work' = [work EXCEPT ![p] = v] /\ UNCHANGED <<childHead, staged>>
     \/ staged' \in {work, childHead.tree} \ {staged} /\ UNCHANGED <<childHead, work>>
     \/ /\ staged # childHead.tree /\ UNCHANGED <<staged, work>>
        /\ childHead' = [by |-> 0, tree |-> staged, ahead |-> IF childHead.ahead = 0 THEN 1 ELSE 2]
     \/ childHead # BaseHead /\ childHead' = BaseHead /\ staged' = Base /\ work' = Base
  /\ UNCHANGED <<handoffs, handoffCall, submitted, childCancelled>>

HandoffsNext ==
  \/ PrepareHandoff \/ DeclineHandoff \/ ExecuteHandoff \/ StageHandoff \/ WriteTree \/ CommitTree \/ UpdateRef \/ Complete
  \/ GitFails \/ CancelChild \/ CrashHandoff \/ EditChild
  \/ \E h \in Rows : ReconcileHandoff(h) \/ SubmitHandoff(h)

HandoffsSpec == HandoffsInit /\ [][HandoffsNext]_hoVars

-----------------------------------------------------------------------------
\* The result of a child is exactly what its user approved, and the only handoff
\* of it: every completed row was approved and its commit has the approved
\* content, whatever was edited or crashed while it was made; at most one is
\* complete, and a row that was rejected or revoked left no commit
\* (orchestrator.ts:418, git-operations.ts:412-503, schema.ts:295).
HandoffIsAsApproved ==
  /\ \A h \in Rows : handoffs[h].state = "complete" =>
       /\ handoffs[h].decided = "approved" /\ handoffs[h].commit /\ handoffs[h].made = handoffs[h].tree
       /\ \A g \in Rows \ {h} : handoffs[g].state # "complete"
  /\ \A h \in Rows : handoffs[h].state \in {"rejected", "revoked"} => ~handoffs[h].commit /\ childHead.by # h
  /\ submitted # 0 => handoffs[submitted].state = "complete"

\* "Mutation begins here: staging, tree/commit creation, and the ref update that
\* follows are recovery cases (outcome 'unknown') rather than plain rejections if
\* anything fails" (git-operations.ts:428-429): a handoff recorded as failed, which
\* tells the child that its commit did not run, is not the commit at its head.
FailedHadNoEffect == \A h \in Rows : handoffs[h].state = "failed" => childHead.by # h
=============================================================================
