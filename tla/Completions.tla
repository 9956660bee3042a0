------------------------------ MODULE Completions ------------------------------
(***************************************************************************)
(* The end of a coordinated task (orchestrator.ts, commandFinished and     *)
(* complete): the coordinator runs the required validation on the          *)
(* integrated tree and then asks for completion, which counts only for     *)
(* the tree that was validated.  Both hold the root lock, which keeps the  *)
(* runtime's own Git work out but neither the user's nor a cancellation.   *)
(***************************************************************************)
EXTENDS Integrations

VARIABLES validated,   \* the head the latest combined evidence passed on, or None
          seen,        \* the clean head the command in the lock found when it started, or None
          completion   \* table task_completions: the head recorded and that of its evidence

coVars == <<validated, seen, completion>>

None == -1
Heads == {None} \cup 0..MaxLine
CleanHead == IF CleanTree THEN Len(line) ELSE None

CompletionsTypeOK ==
  /\ validated \in Heads /\ seen \in Heads
  /\ completion \in [head: Heads, evidence: Heads]

CompletionsInit ==
  /\ validated = None /\ seen = None
  /\ completion = [head |-> None, evidence |-> None]

\* The approved command, or complete_task, waits for the root lock.
AskWork(do) ==
  /\ CoordinatorFree
  /\ Queue([do |-> do, op |-> 0, was |-> "none", step |-> "waiting"])
  /\ UNCHANGED <<inGit, integrations, integrated, asking, rootCancelled, coVars>>

\* In the lock: what happens there touches neither Git nor the operations.
InLock(do, step, next) ==
  /\ Lock(do, step)
  /\ IF next = "unlocked" THEN Unlock ELSE jobs' = [jobs EXCEPT ![1].step = next]
  /\ UNCHANGED <<inGit, integrations, integrated, asking, rootCancelled>>

StartValidation ==
  /\ InLock("validate", "waiting", "executing")
  /\ seen' = CleanHead
  /\ UNCHANGED <<validated, completion>>

\* Evidence passes when the command did and the tree was clean and the same at
\* both ends of it; it is for the tree it started on.
FinishValidation ==
  /\ InLock("validate", "executing", "unlocked")
  /\ \E ok \in BOOLEAN : validated' = IF ok /\ CleanHead = seen THEN seen ELSE None
  /\ seen' = None
  /\ UNCHANGED completion

\* completionState reads the records: everything integrated, nothing open.
Resolved == ~rootCancelled /\ integrated = Results /\ ~ActiveOperation /\ completion.head = None

CheckRecords ==
  /\ \E next \in {IF Resolved THEN "executing" ELSE "unlocked"} : InLock("complete", "waiting", next)
  /\ UNCHANGED coVars

\* It then waits for git.state and compares the tree with the latest evidence.
CheckTree ==
  /\ \E next \in {IF CleanTree /\ validated = Len(line) THEN "ran" ELSE "unlocked"} :
       InLock("complete", "executing", next)
  /\ UNCHANGED coVars

\* complete reads the tree once more and records what it finds then.
RecordCompletion ==
  /\ InLock("complete", "ran", "unlocked")
  /\ completion' = [head |-> Len(line), evidence |-> validated]
  /\ UNCHANGED <<validated, seen>>

CompletionSteps ==
  \/ \E do \in {"validate", "complete"} : AskWork(do)
  \/ StartValidation \/ FinishValidation \/ CheckRecords \/ CheckTree \/ RecordCompletion

CrashCompletions == CrashIntegrations /\ seen' = None /\ UNCHANGED <<validated, completion>>

CompletionsNext ==
  \/ CompletionSteps
  \/ CrashCompletions
  \/ IntegrationsNext /\ UNCHANGED coVars

-----------------------------------------------------------------------------
\* What complete_task promises (orchestration-tools.ts:35): the tree recorded as
\* completed is the one the combined validation passed on.
CompletedTreeIsValidated == completion.head = completion.evidence
=============================================================================
