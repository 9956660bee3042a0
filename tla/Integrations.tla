----------------------------- MODULE Integrations -----------------------------
(***************************************************************************)
(* How a child's result reaches the worktree of the coordinated task       *)
(* (orchestrator.ts, integrate, prepareContinue, decideContinue and        *)
(* reconcile; git-operations.ts, the cherry-pick family).  The operation   *)
(* is a row of integration_operations, the effect is in Git, and the user  *)
(* works in the same worktree: whatever happens between the approval and   *)
(* the last row, the row must not claim a commit that is not there.        *)
(*                                                                         *)
(* The work on one root waits in the order of its root lock.  Several      *)
(* callers read a row before the lock and act on it behind it; the partial *)
(* unique indexes and the terminal trigger of schema.ts then undo the      *)
(* whole transaction.                                                      *)
(***************************************************************************)
EXTENDS Integers, Sequences, FiniteSets

CONSTANTS Results,          \* submitted results, one to an assignment
          MaxIntegrations,  \* bound on the rows of integration_operations
          MaxLine,          \* bound on the commits on top of the first head
          MaxJobs           \* bound on the work that waits for the root lock

ASSUME IntegrationsAssumption == /\ {MaxIntegrations, MaxLine, MaxJobs} \subseteq Nat
                                 /\ "no result" \notin Results

VARIABLES line,        \* the commits of the root branch since its first head
          picking,     \* the result of the cherry-pick in progress, or NoResult
          index,       \* the index and the worktree against HEAD
          integrations,   \* table integration_operations
          integrated,  \* the results whose assignment is `integrated'
          asking,      \* the integrate call between its reads and its row
          jobs,        \* the work waiting for the root lock, the first one in it
          rootCancelled

igVars == <<line, picking, index, integrations, integrated, asking, jobs, rootCancelled>>
inGit == <<line, picking, index>>

NoResult == "no result"
Resolutions == {"a", "b"}       \* the trees the user may resolve a conflict to
Commits == [by: 0..MaxIntegrations, of: Results \cup {NoResult}, effect: {"exact", "merged"} \cup Resolutions]
Ids == 1..Len(integrations)

States == {"awaiting-approval", "executing", "succeeded", "conflict", "continued", "empty",
           "mismatch", "unknown", "rejected", "revoked", "failed"}
Final == {"succeeded", "rejected", "revoked", "failed"}     \* trigger integration_terminal
Active == {"awaiting-approval", "executing", "conflict", "empty", "mismatch", "unknown"}

IntegrationsTypeOK ==
  /\ Len(line) \in 0..MaxLine /\ \A n \in DOMAIN line : line[n] \in Commits
  /\ picking \in Results \cup {NoResult}
  /\ index \in {"clean", "dirty", "unmerged", "same"} \cup Resolutions
  /\ Len(integrations) \in 0..MaxIntegrations
  /\ \A o \in Ids : integrations[o] \in
       [parent: 0..MaxIntegrations, result: Results, head: 0..MaxLine, tree: {"exact"} \cup Resolutions,
        state: States, marked: BOOLEAN]
  /\ integrated \subseteq Results
  /\ asking \in [result: Results \cup {NoResult}, head: 0..MaxLine]
  /\ \A n \in DOMAIN jobs : jobs[n] \in
       [do: {"integrate", "prepare", "continue", "check", "validate", "complete"}, op: {0} \cup Ids,
        was: {"none"} \cup States, step: {"waiting", "executing", "checked", "ran"}]
  /\ rootCancelled \in BOOLEAN

IntegrationsInit ==
  /\ line = << >> /\ picking = NoResult /\ index = "clean"
  /\ integrations = << >> /\ integrated = {} /\ jobs = << >>
  /\ asking = [result |-> NoResult, head |-> 0]
  /\ rootCancelled = FALSE

-----------------------------------------------------------------------------
\* The rows

IsContinuation(o) == integrations[o].parent # 0
ActiveOperation == \E o \in Ids : integrations[o].state \in Active

\* A row written alone: the trigger refuses to leave a final state, the index a
\* second active one.  A refused transaction changes nothing.
Writable(o, state) ==
  /\ integrations[o].state \in Final => state = integrations[o].state
  /\ state \in Active => \A p \in Ids \ {o} : integrations[p].state \notin Active

\* applyIntegrationOutcome: the row and the assignment in one transaction.
Apply(o, state) ==
  IF ~Writable(o, state) THEN UNCHANGED <<integrations, integrated>>
  ELSE /\ integrations' = [integrations EXCEPT ![o].state = state,
                             ![o].marked = @ \/ state \in {"conflict", "empty"}]
       /\ integrated' = IF state = "succeeded" THEN integrated \cup {integrations[o].result} ELSE integrated

SetState(o, state) == integrations' = [integrations EXCEPT ![o].state = state] /\ UNCHANGED integrated

Job(do, o) == [do |-> do, op |-> o, was |-> integrations[o].state, step |-> "waiting"]
Queue(job) == Len(jobs) < MaxJobs /\ jobs' = Append(jobs, job)
Lock(do, step) == jobs # << >> /\ Head(jobs).do = do /\ Head(jobs).step = step
Unlock == jobs' = Tail(jobs)
Queued(o) == \E n \in DOMAIN jobs : jobs[n].op = o /\ jobs[n].do \in {"integrate", "continue"}

-----------------------------------------------------------------------------
\* The worktree as git-operations.ts reads it

CleanTree == picking = NoResult /\ index = "clean"

\* Mutant: any commit with the expected parent counts.
MatchesParent(o) == Len(line) = integrations[o].head + 1 /\ CleanTree

\* The commit on top of the expected head, alone and with the approved effect;
\* for a continuation with the tree that was approved.
Matches(o) ==
  LET op == integrations[o] IN
  /\ Len(line) = op.head + 1 /\ CleanTree
  /\ line[Len(line)].of = op.result /\ line[Len(line)].effect = op.tree

\* What the worktree shows of an operation, after its own command or at a check.
Observed(o) ==
  IF Len(line) # integrations[o].head THEN IF Matches(o) THEN "succeeded" ELSE "mismatch"
  ELSE IF picking # NoResult THEN IF index = "unmerged" THEN "conflict" ELSE "empty"
  ELSE IF CleanTree THEN "failed" ELSE "unknown"

\* The states in which a cherry-pick or its continuation may still run.
MayRun(o) ==
  /\ Len(line) = integrations[o].head
  /\ IF IsContinuation(o) THEN picking = integrations[o].result /\ index = integrations[o].tree ELSE CleanTree

\* A commit of operation o (0: of the user), which ends what was in progress; it
\* leaves edits that are not its own.
Commit(o, of, effect) ==
  /\ Len(line) < MaxLine
  /\ line' = Append(line, [by |-> o, of |-> of, effect |-> effect])
  /\ picking' = NoResult /\ index' = IF index = "dirty" THEN "dirty" ELSE "clean"

-----------------------------------------------------------------------------
\* integrate_result

\* The coordinator makes one call after the other, and none once it is cancelled.
CoordinatorFree ==
  /\ ~rootCancelled /\ asking.result = NoResult
  /\ \A o \in Ids : integrations[o].state = "awaiting-approval" => IsContinuation(o)
  /\ \A n \in DOMAIN jobs : jobs[n].do \notin {"integrate", "validate", "complete"}

\* The checks and the reads of the worktree, outside the root lock.
Ask(r) ==
  /\ CoordinatorFree /\ r \notin integrated /\ ~ActiveOperation /\ CleanTree
  /\ asking' = [result |-> r, head |-> Len(line)]
  /\ UNCHANGED <<inGit, integrations, integrated, jobs, rootCancelled>>

\* prepareCherryPick finds the worktree as it was read, and the row is inserted
\* unless another operation became active.
Propose ==
  /\ asking.result # NoResult
  /\ asking' = [result |-> NoResult, head |-> 0]
  /\ IF CleanTree /\ Len(line) = asking.head /\ ~ActiveOperation /\ Len(integrations) < MaxIntegrations
     THEN integrations' = Append(integrations,
            [parent |-> 0, result |-> asking.result, head |-> asking.head, tree |-> "exact",
             state |-> "awaiting-approval", marked |-> FALSE])
     ELSE UNCHANGED integrations
  /\ UNCHANGED <<inGit, integrated, jobs, rootCancelled>>

\* The decision: the row stays as it is until the root lock is held.
Approve(o) ==
  /\ integrations[o].state = "awaiting-approval" /\ ~Queued(o) /\ ~rootCancelled
  /\ Queue(Job(IF IsContinuation(o) THEN "continue" ELSE "integrate", o))
  /\ UNCHANGED <<inGit, integrations, integrated, asking, rootCancelled>>

\* Rejected by the user, or revoked because the coordinator was stopped.
Decline(o) ==
  /\ integrations[o].state = "awaiting-approval" /\ ~Queued(o) /\ ~rootCancelled
  /\ \E state \in {"rejected"} \cup (IF IsContinuation(o) THEN {} ELSE {"revoked"}) : SetState(o, state)
  /\ UNCHANGED <<inGit, asking, jobs, rootCancelled>>

\* integrate, in the lock: a cancelled root executes nothing.
Integrate ==
  LET o == Head(jobs).op IN
  /\ Lock("integrate", "waiting")
  /\ IF rootCancelled
     THEN SetState(o, "revoked") /\ Unlock
     ELSE SetState(o, "executing") /\ jobs' = [jobs EXCEPT ![1].step = "executing"]
  /\ UNCHANGED <<inGit, asking, rootCancelled>>

\* What was approved is still what there is (prepareCherryPick or prepareContinue,
\* once more).  Git commands later the worktree may have changed again.
CheckAgain ==
  /\ Lock("integrate", "executing") \/ Lock("continue", "executing")
  /\ MayRun(Head(jobs).op)
  /\ jobs' = [jobs EXCEPT ![1].step = "checked"]
  /\ UNCHANGED <<inGit, integrations, integrated, asking, rootCancelled>>

\* The cherry-pick runs, on whatever is there: it commits the effect as approved
\* or merged with what is there, stops in a conflict or with nothing to commit,
\* or is refused, as it is in the middle of another.
CherryPick ==
  LET o == Head(jobs).op r == integrations[o].result IN
  /\ Lock("integrate", "checked")
  /\ \/ picking = NoResult /\ \E effect \in {"exact", "merged"} : Commit(o, r, effect)
     \/ picking = NoResult /\ \E left \in {"unmerged", "same"} : picking' = r /\ index' = left /\ UNCHANGED line
     \/ UNCHANGED inGit
  /\ jobs' = [jobs EXCEPT ![1].step = "ran"]
  /\ UNCHANGED <<integrations, integrated, asking, rootCancelled>>

\* What is recorded afterwards.  Before the mutation every failure is `no effect';
\* after it the worktree is read, a command that was killed leaves the outcome
\* unknown, and a read that fails reports `none' like any read
\* (guardedMutation passes the error of guardedNone on).
Record ==
  LET o == Head(jobs).op IN
  /\ Lock("integrate", "executing") \/ Lock("integrate", "ran") \/ Lock("continue", "executing") \/ Lock("continue", "ran")
  /\ IF Head(jobs).step = "executing" THEN Apply(o, "failed")
     ELSE \E outcome \in {Observed(o), "unknown", "failed"} :
            Apply(o, IF outcome = "conflict" /\ IsContinuation(o) THEN "unknown" ELSE outcome)
  /\ Unlock
  /\ UNCHANGED <<inGit, asking, rootCancelled>>

-----------------------------------------------------------------------------
\* The continuation of a conflict

\* prepareContinue: the checks, before the lock.
AskContinue(o) ==
  /\ ~rootCancelled /\ ~IsContinuation(o) /\ integrations[o].marked
  /\ \/ integrations[o].state = "conflict"
     \/ /\ integrations[o].state = "continued"
        /\ \A p \in Ids : integrations[p].parent = o => integrations[p].state \in {"rejected", "revoked", "failed"}
  /\ Queue(Job("prepare", o))
  /\ UNCHANGED <<inGit, integrations, integrated, asking, rootCancelled>>

\* In the lock: the conflict is still there, resolved with an effect; its row and
\* the new one change together or not at all.
PrepareContinue ==
  LET o == Head(jobs).op
      op == integrations[o]
      released == [integrations EXCEPT ![o].state = IF Head(jobs).was = "conflict" THEN "continued" ELSE @] IN
  /\ Lock("prepare", "waiting")
  /\ IF /\ Len(line) = op.head /\ picking = op.result /\ index \in Resolutions
        /\ op.state \in Final => Head(jobs).was # "conflict"
        /\ \A p \in Ids : released[p].state \notin Active
        /\ Len(integrations) < MaxIntegrations
     THEN integrations' = Append(released,
            [parent |-> o, result |-> op.result, head |-> op.head, tree |-> index, state |-> "awaiting-approval", marked |-> FALSE])
     ELSE UNCHANGED integrations
  /\ Unlock
  /\ UNCHANGED <<inGit, integrated, asking, rootCancelled>>

\* decideContinue, in the lock: nothing asks whether the root was cancelled.
ContinueIntegration ==
  /\ Lock("continue", "waiting")
  /\ SetState(Head(jobs).op, "executing")
  /\ jobs' = [jobs EXCEPT ![1].step = "executing"]
  /\ UNCHANGED <<inGit, asking, rootCancelled>>

\* git cherry-pick --continue commits the tree that is in the index or is refused.
ContinuePick ==
  /\ Lock("continue", "checked")
  /\ \/ picking # NoResult /\ index \in Resolutions /\ Commit(Head(jobs).op, picking, index)
     \/ UNCHANGED inGit
  /\ jobs' = [jobs EXCEPT ![1].step = "ran"]
  /\ UNCHANGED <<integrations, integrated, asking, rootCancelled>>

-----------------------------------------------------------------------------
\* Reconciliation, restart, cancellation and the user

AskCheck(o) ==
  /\ integrations[o].state \in {"unknown", "conflict", "empty", "mismatch"}
  /\ Queue(Job("check", o))
  /\ UNCHANGED <<inGit, integrations, integrated, asking, rootCancelled>>

\* reconcile compares what Git shows with the state it read before the lock.
CheckIntegration ==
  LET o == Head(jobs).op outcome == Observed(o) IN
  /\ Lock("check", "waiting")
  /\ IF \/ outcome = "conflict" /\ IsContinuation(o)
        \/ outcome = Head(jobs).was /\ outcome # "unknown"
     THEN UNCHANGED <<integrations, integrated>>
     ELSE Apply(o, outcome)
  /\ Unlock
  /\ UNCHANGED <<inGit, asking, rootCancelled>>

\* cancelRoot: what still waits for a decision is revoked; what was approved is
\* left to the call that holds it.
CancelRoot ==
  /\ ~rootCancelled /\ rootCancelled' = TRUE
  /\ integrations' = [o \in Ids |-> IF integrations[o].state = "awaiting-approval" /\ ~Queued(o)
                                    THEN [integrations[o] EXCEPT !.state = "revoked"] ELSE integrations[o]]
  /\ asking' = [result |-> NoResult, head |-> 0]
  /\ UNCHANGED <<inGit, integrated, jobs>>

\* recoverOrchestration, of a row
RecoveredIntegration(state) ==
  CASE state = "awaiting-approval" -> "revoked" [] state = "executing" -> "unknown" [] OTHER -> state

CrashIntegrations ==
  /\ jobs' = << >> /\ asking' = [result |-> NoResult, head |-> 0]
  /\ integrations' = [o \in Ids |-> [integrations[o] EXCEPT !.state = RecoveredIntegration(@)]]
  /\ UNCHANGED <<inGit, integrated, rootCancelled>>

\* The user, in the worktree of the task: resolves a conflict, gives the
\* cherry-pick up, continues it, commits something else, edits and discards edits.
\* Commits are only added: the branch is not moved back.
ByHand ==
  /\ \/ picking # NoResult /\ index' \in Resolutions \cup {"same"} /\ UNCHANGED <<line, picking>>
     \/ picking # NoResult /\ picking' = NoResult /\ index' = "clean" /\ UNCHANGED line
     \/ picking # NoResult /\ index \in Resolutions /\ Commit(0, picking, index)
     \/ CleanTree /\ Commit(0, NoResult, "merged")
     \/ picking = NoResult /\ index' \in {"clean", "dirty"} \ {index} /\ UNCHANGED <<line, picking>>
  /\ UNCHANGED <<integrations, integrated, asking, jobs, rootCancelled>>

IntegrationsNext ==
  \/ Propose \/ Integrate \/ CheckAgain \/ CherryPick \/ Record \/ PrepareContinue \/ ContinueIntegration \/ ContinuePick
  \/ CheckIntegration \/ CancelRoot \/ CrashIntegrations \/ ByHand
  \/ \E r \in Results : Ask(r)
  \/ \E o \in Ids : Approve(o) \/ Decline(o) \/ AskContinue(o) \/ AskCheck(o)

-----------------------------------------------------------------------------
\* An assignment is `integrated' exactly when one operation of its result
\* succeeded, and the effect that was approved is the commit on top of the head
\* it was approved for; a rejected or revoked operation made no commit.
\* Whatever the user did in between, whatever crashed (orchestrator.ts:344,
\* git-operations.ts:565-702, store.ts:428-429).
RowsTellWhatGitHolds ==
  /\ \A r \in Results : r \in integrated <=>
       Cardinality({o \in Ids : integrations[o].result = r /\ integrations[o].state = "succeeded"}) = 1
  /\ \A o \in Ids : integrations[o].state = "succeeded" =>
       /\ Len(line) > integrations[o].head
       /\ line[integrations[o].head + 1].of = integrations[o].result
       /\ line[integrations[o].head + 1].effect = integrations[o].tree
  /\ \A o \in Ids : integrations[o].state \in {"rejected", "revoked"} => \A n \in DOMAIN line : line[n].by # o
=============================================================================
