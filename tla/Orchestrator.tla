---- MODULE Orchestrator ----
(***************************************************************************)
(* One coordinated task (orchestrator.ts): a coordinator delegates         *)
(* assignments, a scheduler admits at most MaxAdmitted of them as child    *)
(* runs with a worktree each, the coordinator parks until children settle  *)
(* and integrates their results; the user cancels, revises, resumes; the   *)
(* process restarts.                                                       *)
(* JavaScript runs a step to its next await: one action is one such step.  *)
(* The scheduler's steps that await nothing go first (`Synchronous').      *)
(* Assignments are numbered by revision, in the order they were created.   *)
(***************************************************************************)
EXTENDS Integers, FiniteSetsExt

CONSTANTS MaxRevisions,    \* ORCHESTRATION_LIMITS.maxAssignmentRevisions
          MaxAdmitted,     \* ORCHESTRATION_LIMITS.maxAdmittedChildren
          Funds,           \* allocations the account can hold or has spent
          Scope, Needs,    \* what the coordinator plans for each revision
          MaxUserRevises,  \* bound: revisions the user makes
          Obstacles,       \* what may keep the scheduler from admitting anything:
                           \* the `worktree' is not clean or not on its branch,
                           \* the `profile' is not ready or cools down
          MayCrash         \* whether the process may stop at any time

Ids == 1..MaxRevisions

ASSUME OrchestratorAssumption ==
  /\ MaxRevisions \in Nat /\ MaxAdmitted \in Nat /\ Funds \in Nat
  /\ MaxUserRevises \in Nat
  /\ Needs \in [Ids -> SUBSET Ids]
  /\ \A a \in Ids : \A p \in Needs[a] : p < a
  /\ Ids \subseteq DOMAIN Scope
  /\ Obstacles \subseteq {"worktree", "profile"}
  /\ MayCrash \in BOOLEAN

VARIABLES
  state,       \* assignments: state of each revision
  supersedes,  \* assignments: the revision it replaces, 0 for none
  waits,       \* assignments: waitReason, `other' for dependencies and admission
  run,         \* agent_runs: lifecycle of each child, or why it waits
  fenced,      \* agent_runs: children with cancel_requested
  base,        \* tasks: baseCommit of each child, as a HEAD
  started,     \* children whose first message is saved
  hold,        \* budget_holds, and whether a returned one was used up
  root,        \* the coordinator's run: open, cancelling or ended
  turn,        \* its turn: the tool call it is in
  awaited,     \* wait_operations: the assignments of a wait that is not over
  waitRow,     \* wait_operations: state of that wait, or of one the turn got
  integration, \* integration_operations: the one that blocks others
  head,        \* HEAD of the task worktree: the assignments it contains
  evidence,    \* HEAD of the latest combined evidence, if it passed
  sched        \* the scheduler

records ==
  <<state, supersedes, waits, run, fenced, base, started, hold>>
repository == <<integration, head, evidence>>
vars == <<records, root, turn, awaited, waitRow, repository, sched>>

NotPassed == {0}
\* `failed' stands for `incomplete' too: no step tells them apart.
Failed == {"failed", "cancelled", "revoked", "superseded"}
Open == {"proposed", "admitted", "result-submitted"}
\* A run that waits shows why: outcome unknown, or interrupted by a restart.
Waiting == {"reconciliation", "user-continuation"}
Live == {"preparing", "queued", "running"} \union Waiting
\* Nobody tells the scheduler when what these wait for is there.
Untold == {"reconciliation", "profile-quota"}

(* Records, HEAD and scheduler hold what the tables and the code allow; a  *)
(* child has a base commit, and evidence that failed is no HEAD.           *)
TypeOK ==
  /\ state \in [Ids -> {"absent", "integrated"} \union Open \union Failed]
  /\ supersedes \in [Ids -> 0..MaxRevisions]
  /\ waits \in [Ids -> {"other", "task-budget"} \union Untold]
  /\ run \in [Ids -> {"none", "terminal"} \union Live]
  /\ fenced \in SUBSET Ids /\ started \in SUBSET Ids
  /\ base \in [Ids -> SUBSET Ids]
  /\ hold \in [Ids -> {"none", "held", "returned", "spent"}]
  /\ root \in {"open", "cancelling", "ended"}
  /\ turn \in {"idle", "running", "delegating", "integrating", "parked", "woken"}
  /\ awaited \in SUBSET Ids
  /\ waitRow \in {"none", "waiting", "delivered"}
  /\ integration \in
       [state : {"none", "awaiting-approval", "executing", "unknown"},
        of : 0..MaxRevisions, picked : BOOLEAN]
  /\ head \in SUBSET Ids /\ evidence \in {NotPassed} \union SUBSET Ids
  /\ sched \in
       [at : {"idle", "reading", "read", "scanning", "provisioning", "starting"},
        queued : BOOLEAN, todo : SUBSET Ids, target : SUBSET Ids,
        clean : BOOLEAN, child : 0..MaxRevisions]

NoIntegration == [state |-> "none", of |-> 0, picked |-> FALSE]
IdleScheduler ==
  [at |-> "idle", queued |-> FALSE, todo |-> {}, target |-> {}, clean |-> TRUE,
   child |-> 0]

\* createRoot.
Init ==
  /\ state = [a \in Ids |-> "absent"]
  /\ supersedes = [a \in Ids |-> 0]
  /\ run = [a \in Ids |-> "none"]
  /\ base = [a \in Ids |-> {}]
  /\ hold = [a \in Ids |-> "none"]
  /\ waits = [a \in Ids |-> "other"]
  /\ fenced = {} /\ started = {}
  /\ root = "open" /\ turn = "idle"
  /\ awaited = {} /\ waitRow = "none"
  /\ integration = NoIntegration
  /\ head = {} /\ evidence = NotPassed
  /\ sched = IdleScheduler

----
(* Reading the records. *)

Created == {a \in Ids : state[a] # "absent"}
Proposed == {a \in Ids : state[a] = "proposed"}
Active == {a \in Ids : run[a] \in Live}
Committed == {a \in Ids : hold[a] \in {"held", "spent"}}

\* A revision keeps the scope and the dependencies of what it replaces.
Origin[a \in Ids] == IF supersedes[a] = 0 THEN a ELSE Origin[supersedes[a]]
Deps(a) == Needs[Origin[a]]
Writes(a) == Scope[Origin[a]]

\* effectiveAssignment: the latest revision of the latest revision.
Effective[a \in Ids] ==
  LET next == {b \in Ids : supersedes[b] = a}
  IN  IF next = {} THEN a ELSE Effective[Max(next)]
Predecessors(a) == {Effective[p] : p \in Deps(a)}

Ancestors[a \in Ids] == Deps(a) \union UNION {Ancestors[p] : p \in Deps(a)}
Ordered(a, b) == a \in Ancestors[b] \/ b \in Ancestors[a]
Overlap(a, b) == Writes(a) \intersect Writes(b) # {}

Settled(a) ==
  /\ state[a] \in {"result-submitted", "integrated"} \union Failed
  /\ run[a] \in {"none", "terminal"}
AllSettled == \A a \in awaited : Settled(a)

\* notifyWaits.
Notify ==
  /\ UNCHANGED awaited
  /\ turn' = IF turn = "parked" /\ AllSettled' THEN "woken" ELSE turn
\* schedule; the scheduler's fields are `s' before it is queued.
Schedule(s) == sched' = [s EXCEPT !.queued = TRUE]

----
(* The coordinator's tools. *)

MayCall == turn = "running" /\ root = "open"

\* Mutant: delegate does not compare write scopes.
DelegateOverlapping(new) ==
  /\ MayCall
  /\ \A a \in new, p \in Ids :
       p \in Needs[a] => p \in new \/ state[p] \notin {"absent", "superseded"}
  /\ state' = [a \in Ids |-> IF a \in new THEN "proposed" ELSE state[a]]
  /\ Schedule(sched)
  /\ turn' = "delegating"
  /\ UNCHANGED <<supersedes, waits, run, fenced, base, started, hold, root,
                 awaited, waitRow, repository>>

Delegate(new) ==
  /\ MayCall
  /\ \A a \in new, p \in Ids :
       p \in Needs[a] => p \in new \/ state[p] \notin {"absent", "superseded"}
  /\ \A a \in new, b \in new \union {c \in Ids : state[c] \in Open} :
       a # b /\ Overlap(a, b) => Ordered(a, b)
  /\ state' = [a \in Ids |-> IF a \in new THEN "proposed" ELSE state[a]]
  /\ Schedule(sched)
  /\ turn' = "delegating"
  /\ UNCHANGED <<supersedes, waits, run, fenced, base, started, hold, root,
                 awaited, waitRow, repository>>

\* drained: the tool answers when the scheduler has nothing left to do.
Delegated ==
  /\ turn = "delegating" /\ sched.at = "idle" /\ ~sched.queued
  /\ turn' = "running"
  /\ UNCHANGED <<records, root, awaited, waitRow, repository, sched>>

Await(ids) ==
  /\ MayCall
  /\ \A a \in ids \intersect Proposed :
       /\ \A p \in Predecessors(a) : state[p] = "integrated"
       /\ waits[a] \in {"task-budget", "profile-quota"} => Active # {}
  /\ awaited' = ids
  /\ waitRow' = "waiting"
  /\ turn' = IF \A a \in ids : Settled(a) THEN "woken" ELSE "parked"
  /\ Schedule(sched)
  /\ UNCHANGED <<records, root, repository>>

Deliver ==
  /\ turn = "woken"
  /\ waitRow' = IF root = "open" THEN "delivered" ELSE "none"
  /\ awaited' = {}
  /\ turn' = "running"
  /\ UNCHANGED <<records, root, repository, sched>>

\* The coordinator learns the id of a result from a wait, hence `Settled'.
\* Nobody reschedules when the proposed cherry-pick is rejected or revoked.
Integrate(a) ==
  /\ MayCall
  /\ state[a] = "result-submitted" /\ Settled(a)
  /\ integration = NoIntegration
  /\ integration' = [state |-> "awaiting-approval", of |-> a, picked |-> FALSE]
  /\ turn' = "integrating"
  /\ UNCHANGED <<records, root, awaited, waitRow, head, evidence, sched>>

NotIntegrated ==
  /\ integration.state = "awaiting-approval"
  /\ integration' = NoIntegration
  /\ turn' = "running"
  /\ UNCHANGED <<records, root, awaited, waitRow, head, evidence, sched>>

\* Under the lock of the root.
Execute ==
  /\ integration.state = "awaiting-approval" /\ root = "open"
  /\ integration' = [integration EXCEPT !.state = "executing"]
  /\ UNCHANGED <<records, root, turn, awaited, waitRow, head, evidence,
                 sched>>

Pick ==
  /\ integration.state = "executing" /\ ~integration.picked
  /\ integration' = [integration EXCEPT !.picked = TRUE]
  /\ head' = head \union {integration.of}
  /\ UNCHANGED <<records, root, turn, awaited, waitRow, evidence, sched>>

\* applyIntegrationOutcome, for a commit that Git shows or does not show.
Applied ==
  /\ integration' = NoIntegration
  /\ IF integration.picked
     THEN state' = [state EXCEPT ![integration.of] = "integrated"]
     ELSE UNCHANGED state
  /\ Schedule(sched)
  /\ UNCHANGED <<supersedes, waits, run, fenced, base, started, hold, root,
                 awaited, waitRow, head, evidence>>

Executed ==
  /\ integration.state = "executing"
  /\ Applied
  /\ turn' = "running"

\* A run of the required validation command on the current HEAD.
Validate(passed) ==
  /\ MayCall
  /\ evidence' = IF passed THEN head ELSE NotPassed
  /\ Schedule(sched)
  /\ UNCHANGED <<records, root, turn, awaited, waitRow, integration, head>>

\* turnEnded, for the coordinator.
EndTurn ==
  /\ turn = "running"
  /\ turn' = "idle"
  /\ waitRow' = "none"
  /\ IF root = "open"
     THEN root' = root /\ Schedule(sched)
     ELSE root' = "ended" /\ sched' = sched
  /\ UNCHANGED <<records, awaited, repository>>

----
(* The children. *)

unchangedByChildren ==
  <<supersedes, waits, fenced, base, started, root, awaited, waitRow,
    repository>>

\* Mutant: the wait of the coordinator is not told.
FinishChildQuietly(a, outcome) ==
  /\ run' = [run EXCEPT ![a] = "terminal"]
  /\ state' = [state EXCEPT ![a] = IF @ = "admitted" THEN outcome ELSE @]
  /\ hold' = [hold EXCEPT ![a] = "returned"]
  /\ UNCHANGED <<awaited, turn>>

\* finishChild and releaseHold: an admitted assignment ends the way its run
\* did; the hold comes back as far as no request used it.
FinishChild(a, outcome) ==
  /\ run' = [run EXCEPT ![a] = "terminal"]
  /\ state' = [state EXCEPT ![a] = IF @ = "admitted" THEN outcome ELSE @]
  /\ \E rest \in {"returned"} \union IF a \in started THEN {"spent"} ELSE {} :
       hold' = [hold EXCEPT ![a] = rest]
  /\ Notify

\* submitHandoff looks at the fence, waits for Git three times and does not look
\* again: a call under way outlives a fence.
SubmitResult(a) ==
  /\ run[a] = "running" /\ state[a] = "admitted"
  /\ state' = [state EXCEPT ![a] = "result-submitted"]
  /\ UNCHANGED <<run, hold, turn, sched, unchangedByChildren>>

\* Mutant: a slot and a hold come free and the scheduler is not told.
EndChildTurnQuietly(a) ==
  /\ run[a] = "running"
  /\ FinishChild(a, IF a \in fenced THEN "cancelled" ELSE "failed")
  /\ UNCHANGED <<sched, unchangedByChildren>>

\* turnEnded, for a child; without a result its work failed.
EndChildTurn(a) ==
  /\ run[a] = "running"
  /\ FinishChild(a, IF a \in fenced THEN "cancelled" ELSE "failed")
  /\ Schedule(sched)
  /\ UNCHANGED unchangedByChildren

\* startTurn succeeds only for a run that BudgetLedger lets reserve.
MayStart(a) == run[a] \in Live /\ a \notin fenced /\ root = "open"
Start(a) ==
  /\ MayStart(a)
  /\ run' = [run EXCEPT ![a] = "running"]
  /\ started' = started \union {a}

----
(* The scheduler: drain, admitOne and provision. *)

unchangedByScheduler == <<supersedes, fenced, root, awaited, waitRow, repository>>
To(at) == sched' = [sched EXCEPT !.at = at]

\* admitOne up to its first await.
Drain ==
  /\ sched.at = "idle" /\ sched.queued
  /\ LET admits == /\ root = "open" /\ Proposed # {}
                   /\ Cardinality(Active) < MaxAdmitted
     IN  /\ sched' = [sched EXCEPT !.queued = FALSE,
                        !.at = IF admits THEN "reading" ELSE "idle",
                        !.todo = IF admits THEN Proposed ELSE {}]
         /\ waits' = IF admits \/ root # "open" THEN waits ELSE [a \in Ids |-> "other"]
  /\ UNCHANGED <<state, run, base, started, hold, turn, unchangedByScheduler>>

\* git.state reads HEAD ...
ReadHead ==
  /\ sched.at = "reading"
  /\ sched' = [sched EXCEPT !.at = "read", !.target = head]
  /\ UNCHANGED <<records, turn, root, awaited, waitRow, repository>>

\* ... and answers some commands later, also whether the worktree is clean, on
\* its branch and in no operation, which is anybody's doing.
StateRead ==
  /\ sched.at = "read"
  /\ \E clean \in {TRUE} \union {o # "worktree" : o \in Obstacles} :
       sched' = [sched EXCEPT !.at = "scanning", !.clean = clean]
  /\ UNCHANGED <<records, turn, root, awaited, waitRow, repository>>

\* One pass of the loop, for the oldest assignment left in its snapshot.
Oldest == Min(sched.todo)
Skip(reason) ==
  /\ sched' = [sched EXCEPT !.todo = @ \ {Oldest}]
  /\ waits' = [waits EXCEPT ![Oldest] = reason]
  /\ UNCHANGED <<state, run, base, started, hold, turn, unchangedByScheduler>>

Hopeless(a) == \E p \in Predecessors(a) : state[p] \in Failed
\* Mutant: evidence for the HEAD is taken for the integration of the work.
UnreadyWithoutEvidence(a, target) == Predecessors(a) # {} /\ evidence # target

Unready(a, target) ==
  /\ Predecessors(a) # {}
  /\ \/ \E p \in Predecessors(a) : state[p] # "integrated"
     \/ evidence # target
Scanning == sched.at = "scanning" /\ sched.todo # {}

\* assignments_terminal raises when the snapshot is stale: see Abandon.
RevokeDependent ==
  /\ Scanning /\ Hopeless(Oldest)
  /\ state[Oldest] \in {"proposed", "revoked"}
  /\ state' = [state EXCEPT ![Oldest] = "revoked"]
  /\ sched' = [sched EXCEPT !.todo = @ \ {Oldest}]
  /\ UNCHANGED <<waits, run, base, started, hold, unchangedByScheduler>>
  /\ Notify

\* What the records let start on that HEAD, ...
Fit(a, target) ==
  ~Hopeless(a) /\ ~Unready(a, target) /\ integration = NoIntegration

\* ... and the worktree too, as it was read.
Admissible(a) == Fit(a, sched.target) /\ sched.clean

KeepWaiting ==
  /\ Scanning /\ ~Hopeless(Oldest)
  /\ \/ Unready(Oldest, sched.target) /\ Skip("other")
     \/ /\ ~Unready(Oldest, sched.target)
        /\ integration # NoIntegration \/ ~sched.clean
        /\ Skip("reconciliation")
     \/ Admissible(Oldest) /\ "profile" \in Obstacles /\ Skip("profile-quota")

LackFunds ==
  /\ Scanning /\ Admissible(Oldest) /\ state[Oldest] = "proposed"
  /\ Cardinality(Committed) >= Funds
  /\ Skip("task-budget")

\* The admission transaction, with the triggers on agent_runs.
Admit ==
  /\ Scanning /\ Admissible(Oldest) /\ state[Oldest] = "proposed"
  /\ Cardinality(Committed) < Funds
  /\ root = "open" /\ Cardinality(Active) < MaxAdmitted
  /\ state' = [state EXCEPT ![Oldest] = "admitted"]
  /\ run' = [run EXCEPT ![Oldest] = "preparing"]
  /\ hold' = [hold EXCEPT ![Oldest] = "held"]
  /\ base' = [base EXCEPT ![Oldest] = sched.target]
  /\ waits' = [waits EXCEPT ![Oldest] = "other"]
  /\ sched' = [sched EXCEPT !.at = "provisioning", !.todo = {}, !.child = Oldest]
  /\ UNCHANGED <<started, turn, unchangedByScheduler>>

\* The assignment was cancelled or superseded while HEAD was read: the
\* transaction aborts, and with it the whole pass.
Abandon ==
  /\ Scanning
  /\ IF Hopeless(Oldest) THEN state[Oldest] \notin {"proposed", "revoked"}
     ELSE Admissible(Oldest) /\ state[Oldest] # "proposed"
  /\ sched' = [IdleScheduler EXCEPT !.queued = sched.queued]
  /\ UNCHANGED <<records, turn, root, awaited, waitRow, repository>>

Scanned ==
  /\ sched.at = "scanning" /\ sched.todo = {}
  /\ sched' = [IdleScheduler EXCEPT !.queued = sched.queued]
  /\ UNCHANGED <<records, turn, root, awaited, waitRow, repository>>

Child == sched.child
\* admitOne returned TRUE.
Again == Schedule(IdleScheduler)

Provisioned ==
  /\ sched.at = "provisioning"
  /\ run' = [run EXCEPT ![Child] = IF @ = "terminal" THEN @ ELSE "queued"]
  /\ To("starting")
  /\ UNCHANGED <<state, waits, base, started, hold, turn, unchangedByScheduler>>

\* Mutant: provision does not look whether the child still has to start.
StartWhatever ==
  /\ sched.at = "starting"
  /\ run' = [run EXCEPT ![Child] = "running"]
  /\ started' = started \union {Child}
  /\ Again
  /\ UNCHANGED <<state, waits, base, hold, turn, unchangedByScheduler>>

\* A cancelled child is terminal by now.
StartProvisioned ==
  /\ sched.at = "starting"
  /\ IF run[Child] = "terminal" THEN UNCHANGED <<run, started>> ELSE Start(Child)
  /\ Again
  /\ UNCHANGED <<state, waits, base, hold, turn, unchangedByScheduler>>

StartRefused ==
  /\ sched.at = "starting" /\ run[Child] # "terminal"
  /\ FinishChild(Child, "failed")
  /\ Again
  /\ UNCHANGED unchangedByChildren

\* Git proves that no worktree was created.
NotProvisioned ==
  /\ sched.at = "provisioning" /\ state[Child] = "admitted"
  /\ FinishChild(Child, "failed")
  /\ Again
  /\ UNCHANGED unchangedByChildren

ProvisionUnknown ==
  /\ sched.at = "provisioning"
  /\ run' = [run EXCEPT ![Child] = IF @ = "terminal" THEN @ ELSE "reconciliation"]
  /\ Again
  /\ UNCHANGED <<state, waits, base, started, hold, unchangedByScheduler>>
  /\ Notify

----
(* The user. *)

CancelChild(a) ==
  /\ run[a] \in Live /\ a \notin fenced
  /\ fenced' = fenced \union {a}
  /\ IF run[a] = "running" THEN UNCHANGED <<state, run, hold, turn, sched>>
     ELSE FinishChild(a, "cancelled") /\ Schedule(sched)
  /\ UNCHANGED <<supersedes, waits, base, started, root, awaited, waitRow,
                 repository>>

\* The fence comes first; running turns are aborted, every other child ends
\* here.  An aborted wait returns without a delivery.
CancelRoot ==
  /\ root # "ended"
  /\ fenced' = fenced \union Active
  /\ LET stopped == {a \in Active : run[a] # "running"}
     IN  /\ run' = [a \in Ids |-> IF a \in stopped THEN "terminal" ELSE run[a]]
         /\ state' = [a \in Ids |->
              IF a \in Proposed \/ (a \in stopped /\ state[a] = "admitted")
              THEN "cancelled" ELSE state[a]]
         /\ \E used \in SUBSET (stopped \intersect started) :
              hold' = [a \in Ids |-> IF a \in used THEN "spent"
                                    ELSE IF a \in stopped THEN "returned" ELSE hold[a]]
         /\ sched' = [sched EXCEPT !.queued = @ \/ stopped # {}]
  /\ waitRow' = "none"
  /\ awaited' = {}
  /\ turn' = IF turn = "parked" THEN "running" ELSE turn
  /\ root' = IF turn = "idle" THEN "ended" ELSE "cancelling"
  /\ UNCHANGED <<supersedes, waits, base, started, repository>>

\* reviseAssignment looks neither at overlaps nor at an earlier revision.
Revise(a) ==
  LET new == Cardinality(Created) + 1
  IN  /\ root = "open" /\ new <= MaxRevisions
      /\ Cardinality({b \in Ids : supersedes[b] # 0}) < MaxUserRevises
      /\ state[a] \in {"proposed", "failed", "cancelled", "revoked"}
      /\ state' = [state EXCEPT
           ![a] = IF @ = "proposed" THEN "superseded" ELSE @, ![new] = "proposed"]
      /\ supersedes' = [supersedes EXCEPT ![new] = a]
      /\ Schedule(sched)
      /\ UNCHANGED <<waits, run, fenced, base, started, hold, root,
                     waitRow, repository>>
      /\ Notify

\* reconcileProvisioning, when Git can tell.  A worktree that exists is
\* recorded and its child starts; one that does not, or a start that is
\* refused, ends the child.
ReconciledPresent(a) ==
  /\ run[a] = "reconciliation"
  /\ Start(a)
  /\ UNCHANGED <<state, supersedes, waits, fenced, base, hold, root, turn, awaited,
                 waitRow, repository, sched>>

ReconciledAbsent(a) ==
  /\ run[a] = "reconciliation"
  /\ FinishChild(a, "failed")
  /\ Schedule(sched)
  /\ UNCHANGED unchangedByChildren

ReconciledIntegration ==
  /\ integration.state = "unknown"
  /\ Applied
  /\ UNCHANGED turn

\* Resume first goes through the children that have no turn; what a restart
\* interrupted is not continued.  A later step of it may still fail.
Resuming == turn = "idle" /\ root = "open"
Idle == {a \in Active : run[a] \notin {"running", "reconciliation"}}
\* Mutant: a child that was interrupted is started anew.
NeverFinished(a) == run[a] # "preparing"

\* A child has its base commit recorded unless it is still being provisioned.
NeverStarted(a) == run[a] # "preparing" /\ a \notin started

ResumeStarts(a) ==
  /\ Resuming /\ a \in Idle /\ NeverStarted(a)
  /\ Start(a)
  /\ UNCHANGED <<state, supersedes, waits, fenced, base, hold, root, turn,
                 awaited, waitRow, repository, sched>>

ResumeEnds(a) ==
  /\ Resuming /\ a \in Idle
  /\ FinishChild(a, "failed")
  /\ Schedule(sched)
  /\ UNCHANGED unchangedByChildren

\* Mutant: resuming delivers whatever there is.
ResumeDelivers ==
  /\ Resuming /\ Idle = {}
  /\ turn' = "running"
  /\ waitRow' = IF waitRow # "waiting" THEN waitRow ELSE "delivered"
  /\ awaited' = {}
  /\ Schedule(sched)
  /\ UNCHANGED <<records, root, repository>>

\* The wait of the interrupted turn is delivered if it can be; otherwise the
\* new turn answers that call as interrupted.
Resume ==
  /\ Resuming /\ Idle = {}
  /\ turn' = "running"
  /\ waitRow' = IF waitRow # "waiting" THEN waitRow
                ELSE IF AllSettled THEN "delivered" ELSE "none"
  /\ awaited' = {}
  /\ Schedule(sched)
  /\ UNCHANGED <<records, root, repository>>

----
(* The process. *)

\* Steps that await nothing are not interrupted, except by a crash.
Synchronous ==
  \/ sched.at \in {"scanning", "starting"}
  \/ sched.at = "idle" /\ sched.queued

\* recoverOrchestration, on the rows that the last transaction left: the runs
\* in `ended' were ended before.
RecoveredRuns(ended) == [a \in Ids |->
  IF a \in ended THEN "terminal"
  ELSE IF run[a] = "preparing" THEN "reconciliation"
  ELSE IF run[a] \in {"queued", "running"} THEN "user-continuation"
  ELSE run[a]]
ProcessEnds(ended) ==
  /\ run' = RecoveredRuns(ended)
  /\ integration' =
       IF integration.state = "awaiting-approval" THEN NoIntegration
       ELSE IF integration.state = "executing"
            THEN [integration EXCEPT !.state = "unknown"] ELSE integration
  /\ turn' = "idle"
  /\ sched' = IdleScheduler
  /\ UNCHANGED <<supersedes, waits, base, started, head, evidence>>
WaitRecovered ==
  /\ waitRow' = IF waitRow = "delivered" THEN "none" ELSE waitRow
  /\ UNCHANGED awaited

Recovered ==
  /\ ProcessEnds({})
  /\ WaitRecovered
  /\ UNCHANGED <<state, fenced, hold, root>>

Restart == MayCrash /\ Recovered

\* The process stops between two transactions of one step.  In finishChild
\* the run has ended and its hold is not released: it is as good as spent.
EndedStates(ended, outcome) ==
  [a \in Ids |-> IF a \in ended /\ state[a] = "admitted" THEN outcome ELSE state[a]]
EndedHolds(ended, back) ==
  [a \in Ids |-> IF a \in back THEN "returned" ELSE IF a \in ended THEN "spent" ELSE hold[a]]
StopsInFinish(a) ==
  /\ MayCrash /\ run[a] \in Live
  /\ \/ run[a] \in {"running", "reconciliation"} /\ ~Synchronous
     \/ sched.at \in {"provisioning", "starting"} /\ a = Child
     \/ Resuming /\ a \in Idle /\ ~Synchronous
  /\ ProcessEnds({a})
  /\ state' = EndedStates({a}, IF run[a] = "running" /\ a \in fenced THEN "cancelled" ELSE "failed")
  /\ hold' = EndedHolds({a}, {})
  /\ WaitRecovered
  /\ UNCHANGED <<fenced, root>>

\* In cancelChild the fence is there, the child may have ended.
StopsInCancelChild(a) ==
  /\ MayCrash /\ run[a] \in Live \ {"running"} /\ a \notin fenced
  /\ fenced' = fenced \union {a}
  /\ \E ended \in SUBSET {a} :
       /\ ProcessEnds(ended) /\ state' = EndedStates(ended, "cancelled")
       /\ hold' = EndedHolds(ended, {})
  /\ WaitRecovered
  /\ UNCHANGED root

\* In cancelRoot the fences are there and some of the children have ended; one of
\* them has not returned its hold, or has used it up.
StopsInCancelRoot ==
  /\ MayCrash /\ root # "ended"
  /\ fenced' = fenced \union Active
  /\ \E ended \in SUBSET {a \in Active : run[a] # "running"} :
       /\ ProcessEnds(ended)
       /\ state' = [a \in Ids |-> IF a \in Proposed THEN "cancelled"
                                  ELSE EndedStates(ended, "cancelled")[a]]
       /\ \E back \in SUBSET ended :
            Cardinality(ended \ (back \union started)) <= 1 /\ hold' = EndedHolds(ended, back)
  /\ waitRow' = "none" /\ awaited' = {}
  /\ root' = "cancelling"

\* Git proves that no worktree was created for a child that was cancelled or
\* resumed meanwhile: assignments_terminal raises, provision rejects, and
\* the uncaughtException handler exits (entry.ts).
ProvisionRaises ==
  /\ sched.at = "provisioning" /\ state[Child] # "admitted"
  /\ Recovered

----
SchedulerStep ==
  \/ Drain \/ RevokeDependent \/ KeepWaiting \/ LackFunds \/ Admit \/ Abandon
  \/ Scanned \/ StartProvisioned \/ StartRefused

GitAnswers ==
  \/ ReadHead \/ StateRead \/ Provisioned \/ NotProvisioned \/ ProvisionUnknown
  \/ ProvisionRaises

CoordinatorStep ==
  \/ \E n \in 1..(MaxRevisions - Cardinality(Created)) :
       Delegate((Cardinality(Created) + 1)..(Cardinality(Created) + n))
  \/ Delegated
  \/ \E ids \in (SUBSET Created) \ {{}} : Await(ids)
  \/ Deliver
  \/ \E a \in Ids : Integrate(a)
  \/ NotIntegrated \/ Execute \/ Pick \/ Executed
  \/ \E passed \in BOOLEAN : Validate(passed)
  \/ EndTurn

ChildStep(a) == SubmitResult(a) \/ EndChildTurn(a)

UserStep ==
  \/ CancelRoot \/ ReconciledIntegration \/ Resume
  \/ \E a \in Ids :
       \/ CancelChild(a) \/ Revise(a) \/ ReconciledPresent(a) \/ ReconciledAbsent(a)
       \/ ResumeStarts(a) \/ ResumeEnds(a)

HalfStep ==
  \/ \E a \in Ids : StopsInFinish(a)
  \/ ~Synchronous /\ \/ \E a \in Ids : StopsInCancelChild(a)
                     \/ StopsInCancelRoot

Next ==
  \/ Synchronous /\ SchedulerStep
  \/ ~Synchronous /\ \/ GitAnswers \/ CoordinatorStep \/ UserStep
                     \/ \E a \in Ids : ChildStep(a)
  \/ Restart
  \/ HalfStep

\* What the runtime does by itself happens; a child's turn ends, which takes
\* a user who answers its approvals.
Fairness ==
  /\ WF_vars(Synchronous /\ SchedulerStep)
  /\ WF_vars(~Synchronous /\ GitAnswers)
  /\ WF_vars(~Synchronous /\ Deliver)
  /\ \A a \in Ids : WF_vars(~Synchronous /\ EndChildTurn(a))

Spec == Init /\ [][Next]_vars
FairSpec == Spec /\ Fairness

----
(* Properties. *)

(* No wake-up is lost: a coordinator that is parked waits for a child that *)
(* has not settled.                                                        *)
NoWaitIsForgotten == turn = "parked" => ~AllSettled

(* What a wait delivers is final: every awaited assignment has settled and *)
(* its child's run has ended, also when the wait crossed a restart.        *)
WaitDeliversSettled ==
  [][waitRow' = "delivered" /\ waitRow # "delivered" => AllSettled]_vars

(* Behind a fence nothing starts: a cancelled child gets no turn, and a    *)
(* cancelled task no child, proposal or turn, whatever was under way.      *)
FencedStaysDown ==
  [][/\ \A a \in Ids :
          /\ run[a] # "running" /\ run'[a] = "running" =>
               a \notin fenced /\ root = "open"
          /\ root # "open" =>
               /\ state'[a] \in {"proposed", "admitted"} => state'[a] = state[a]
               /\ run[a] = "none" => run'[a] = "none"
     /\ root # "open" /\ turn = "idle" => turn' = "idle"]_vars

(* A child's turn starts at most once, with an allocation, for an          *)
(* assignment that waits for exactly that.                                 *)
StartedOnce ==
  [][\A a \in Ids : run[a] # "running" /\ run'[a] = "running" =>
       a \notin started /\ state[a] = "admitted" /\ hold[a] = "held"]_vars

(* A dependent assignment runs only after everything it depends on,        *)
(* directly or not, was integrated in one of its revisions.  (Not in its   *)
(* latest: the user may revise a failed assignment once more after a       *)
(* revision of it was integrated.)                                         *)
DependentsRunAfterIntegration ==
  \A a \in Ids : run[a] # "none" =>
    \A p \in Ancestors[a] :
      \E b \in Ids : Origin[b] = Origin[p] /\ state[b] = "integrated"

(* Children with overlapping write scopes never run at the same time ...   *)
OverlapsRunSerially ==
  \A a, b \in Active : a # b => ~Overlap(a, b)

(* ... as long as the coordinator delegated them: delegate looks at what is *)
(* open then, and dependencies keep the rest apart, whatever fails, is      *)
(* revised or integrated meanwhile.                                         *)
DelegatedRunSerially ==
  \A a, b \in Active :
    a # b /\ supersedes[a] = 0 /\ supersedes[b] = 0 => ~Overlap(a, b)

(* While the coordinator is parked, the scheduler has not stopped short of *)
(* an assignment that the records let start, except where it found the     *)
(* worktree unclean or the profile not ready: nobody tells it when that    *)
(* has changed.                                                            *)
NothingAdmissibleIsForgotten ==
  turn = "parked" /\ sched.at = "idle" /\ ~sched.queued =>
    \A a \in Proposed :
      /\ Fit(a, head)
      /\ Cardinality(Active) < MaxAdmitted /\ Cardinality(Committed) < Funds
      => waits[a] \in Untold

(* What await_children says when it refuses: a wait for an assignment      *)
(* whose predecessors are not integrated and validated, or that nothing    *)
(* could admit, would never finish.  So a wait it accepts does.            *)
AcceptedWaitEnds == turn = "parked" ~> turn # "parked"

(* A child works in a worktree that contains what it depends on.           *)
DependentsBuildOnPredecessors ==
  \A a \in Ids : run[a] # "none" => Predecessors(a) \subseteq base[a]

(* The cancellation of one child does not stop another.                    *)
SiblingsContinue ==
  [][\A a \in Ids : run[a] = "running" => run'[a] \in {"running", "terminal"}]_vars
====
