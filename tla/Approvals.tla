---- MODULE Approvals ----
(***************************************************************************)
(* One-shot approvals (tool-runtime.ts) in the turns that ask for them     *)
(* (agent-loop.ts): a tool call saves its proposal and waits for the       *)
(* user; the saved state is `executing' before anything is touched; what   *)
(* a crash cuts off is revoked or unknown, never run again; an unknown     *)
(* outcome stops its task until a check of the file clears it.             *)
(* `row' is the saved record.  The copy the waiting call holds still says  *)
(* awaiting-approval after the user decided, so that the call decides by   *)
(* what it was told and by its signal: `step' stands for that copy.        *)
(***************************************************************************)
EXTENDS Integers

CONSTANTS Proposals,   \* approval ids
          Tasks,       \* tasks whose turns make the calls
          TaskOf,      \* the task of each proposal
          Edits,       \* the proposals that edit a file
          Externals,   \* those that call an MCP tool; the others are commands
          MaxChecks    \* bound: outcome checks of one approval in flight

ASSUME ApprovalsAssumption ==
  /\ TaskOf \in [Proposals -> Tasks]
  /\ Edits \subseteq Proposals
  /\ Externals \subseteq Proposals \ Edits
  /\ MaxChecks \in Nat

VARIABLES row,      \* the saved state of each approval
          step,     \* where the call that made the proposal is
          turn,     \* whether each task has a turn
          turnAborted,  \* the turn's abort signal
          checks,   \* outcome checks that wait for the file
          granted,  \* the proposals the user approved
          cleared,  \* history: the edits whose outcome some check found
          effect,   \* what each proposal did to the world
          file      \* content of the file each edit is about
approvalVars == <<row, step, turn, turnAborted, checks, granted, cleared, effect, file>>

Undecided == {"awaiting-approval", "approved"}
States == Undecided \union
  {"absent", "rejected", "revoked", "executing", "complete", "failed", "unknown"}
Steps == {"none", "waiting", "answered", "queued", "executing", "applying",
          "verifying", "done"}
Contents == {"original", "approved", "other"}

(* An approval only ever is in a state of its life cycle, and so is the   *)
(* call that asked for it, after a restart as well.                        *)
ApprovalsTypeOK ==
  /\ row \in [Proposals -> States]
  /\ step \in [Proposals -> Steps]
  /\ turn \in [Tasks -> {"idle", "running"}]
  /\ turnAborted \in [Tasks -> BOOLEAN]
  /\ checks \in [Edits -> 0..MaxChecks]
  /\ granted \in SUBSET Proposals /\ cleared \in SUBSET Edits
  /\ effect \in [Proposals -> {"none", "begun", "whole"}]
  /\ file \in [Edits -> Contents]

ApprovalsInit ==
  /\ row = [p \in Proposals |-> "absent"]
  /\ step = [p \in Proposals |-> "none"]
  /\ turn = [t \in Tasks |-> "idle"]
  /\ turnAborted = [t \in Tasks |-> FALSE]
  /\ checks = [p \in Edits |-> 0]
  /\ granted = {} /\ cleared = {}
  /\ effect = [p \in Proposals |-> "none"]
  /\ file = [p \in Edits |-> "original"]

Of(t) == {p \in Proposals : TaskOf[p] = t}
Aborted(p) == turnAborted[TaskOf[p]]
\* hasBlockingUnknown, for the tools modelled here.
Blocked(t) == \E p \in Of(t) : row[p] = "unknown"
Idle(t) == \A p \in Of(t) : step[p] \in {"none", "done"}

world == <<effect, file>>

----
(* The turn. *)

StartTurn(t) ==
  /\ turn[t] = "idle" /\ ~Blocked(t)
  /\ turn' = [turn EXCEPT ![t] = "running"]
  /\ turnAborted' = [turnAborted EXCEPT ![t] = FALSE]
  /\ UNCHANGED <<row, step, checks, granted, cleared, world>>

EndTurn(t) ==
  /\ turn[t] = "running" /\ Idle(t)
  /\ turn' = [turn EXCEPT ![t] = "idle"]
  /\ UNCHANGED <<row, step, turnAborted, checks, granted, cleared, world>>

\* Calls run one after the other; an edit is prepared from the file it read.
Propose(p) ==
  /\ turn[TaskOf[p]] = "running" /\ ~Aborted(p) /\ Idle(TaskOf[p])
  /\ row[p] = "absent"
  /\ p \in Edits => file[p] = "original"
  /\ row' = [row EXCEPT ![p] = "awaiting-approval"]
  /\ step' = [step EXCEPT ![p] = "waiting"]
  /\ UNCHANGED <<turn, turnAborted, checks, granted, cleared, world>>

\* Only a proposal whose call still waits in this process can be decided.
Answer(p, state) ==
  /\ row[p] = "awaiting-approval" /\ step[p] = "waiting"
  /\ row' = [row EXCEPT ![p] = state]
  /\ step' = [step EXCEPT ![p] = "answered"]

Decide(p, approve) ==
  /\ Answer(p, IF approve THEN "approved" ELSE "rejected")
  /\ granted' = IF approve THEN granted \union {p} ELSE granted
  /\ UNCHANGED <<turn, turnAborted, checks, cleared, world>>

\* revokeWaiting, and invalidateBrowser for one tab.
Revoke(p) ==
  /\ Answer(p, "revoked")
  /\ UNCHANGED <<turn, turnAborted, checks, granted, cleared, world>>

\* The abort listener of a waiting call revokes it before anything else runs.
AbortTurn(t) ==
  /\ turn[t] = "running" /\ ~turnAborted[t]
  /\ turnAborted' = [turnAborted EXCEPT ![t] = TRUE]
  /\ row' = [p \in Proposals |->
       IF p \in Of(t) /\ step[p] = "waiting" THEN "revoked" ELSE row[p]]
  /\ step' = [p \in Proposals |->
       IF p \in Of(t) /\ step[p] = "waiting" THEN "answered" ELSE step[p]]
  /\ UNCHANGED <<turn, checks, granted, cleared, world>>

----
(* The call, after its answer. *)

\* Mutant: the loop goes on after an unknown outcome.
ReturnToLoop(p, state) ==
  /\ row' = [row EXCEPT ![p] = state]
  /\ step' = [step EXCEPT ![p] = "done"]
  /\ UNCHANGED <<turn, turnAborted, checks, granted, cleared>>

\* The call returns with its approval saved as `state'; the loop goes on
\* unless some outcome of the task is unknown.
CallReturns(p, state) ==
  /\ row' = [row EXCEPT ![p] = state]
  /\ step' = [step EXCEPT ![p] = "done"]
  /\ turn' = IF \E q \in Of(TaskOf[p]) : row'[q] = "unknown"
             THEN [turn EXCEPT ![TaskOf[p]] = "idle"] ELSE turn
  /\ UNCHANGED <<turnAborted, checks, granted, cleared>>

Refused(p) ==
  /\ step[p] = "answered" /\ row[p] # "approved"
  /\ CallReturns(p, row[p])
  /\ UNCHANGED world

\* Mutant: the call goes on whatever the answer was.
QueueAnyAnswer(p) ==
  /\ step[p] = "answered" /\ ~Aborted(p)
  /\ step' = [step EXCEPT ![p] = "queued"]
  /\ UNCHANGED <<row, turn, turnAborted, checks, granted, cleared, world>>

\* Approved: the call queues for a slot, a coordinator's command first for
\* the lock of its root.
Queue(p) ==
  /\ step[p] = "answered" /\ row[p] = "approved" /\ ~Aborted(p)
  /\ step' = [step EXCEPT ![p] = "queued"]
  /\ UNCHANGED <<row, turn, turnAborted, checks, granted, cleared, world>>

\* Mutant: nobody looks at the signal of a call that queues.
TooLateToQueue(p) ==
  /\ step[p] = "answered" /\ row[p] = "approved" /\ Aborted(p)
  /\ CallReturns(p, "revoked")
  /\ UNCHANGED world

\* Aborted after the approval, before or while it queues.
TooLate(p) ==
  /\ step[p] \in {"answered", "queued"} /\ row[p] = "approved" /\ Aborted(p)
  /\ CallReturns(p, "revoked")
  /\ UNCHANGED world

\* The intent is durable before any mutation.
Begin(p) ==
  /\ step[p] = "queued" /\ ~Aborted(p)
  /\ row' = [row EXCEPT ![p] = "executing"]
  /\ step' = [step EXCEPT ![p] = "executing"]
  /\ UNCHANGED <<turn, turnAborted, checks, granted, cleared, world>>

\* Stopped before the first mutation: a stale file or fingerprint, a failed
\* preflight, a signal.
Unstarted(p) ==
  /\ step[p] = "executing"
  /\ CallReturns(p, IF Aborted(p) /\ p \notin Externals THEN "revoked" ELSE "failed")
  /\ UNCHANGED world

\* The first mutation; an edit re-reads the file first.  The last look at
\* the signal was before that.
Mutate(p) ==
  /\ step[p] = "executing"
  /\ p \in Edits => file[p] = "original"
  /\ step' = [step EXCEPT ![p] = "applying"]
  /\ effect' = [effect EXCEPT ![p] = "begun"]
  /\ file' = [q \in Edits |-> IF q = p THEN "other" ELSE file[q]]
  /\ UNCHANGED <<row, turn, turnAborted, checks, granted, cleared>>

\* An error after the first mutation, or a cleanup nobody could verify.
Lost(p) ==
  /\ step[p] \in {"applying", "verifying"}
  /\ CallReturns(p, "unknown")
  /\ UNCHANGED world

Written(p) ==
  /\ p \in Edits /\ step[p] = "applying"
  /\ step' = [step EXCEPT ![p] = "verifying"]
  /\ effect' = [effect EXCEPT ![p] = "whole"]
  /\ file' = [file EXCEPT ![p] = "approved"]
  /\ UNCHANGED <<row, turn, turnAborted, checks, granted, cleared>>

\* The file is read back.
Verified(p) ==
  /\ p \in Edits /\ step[p] = "verifying" /\ file[p] = "approved"
  /\ CallReturns(p, "complete")
  /\ UNCHANGED world

\* A command whose cleanup was verified, or an MCP tool's answer.
Ended(p, state) ==
  /\ p \notin Edits /\ step[p] = "applying"
  /\ CallReturns(p, state)
  /\ effect' = [effect EXCEPT ![p] = "whole"]
  /\ UNCHANGED file

----
(* Restart, checks of an unknown outcome, and the rest of the world. *)

\* Mutant: what was executing is offered again.
AfterRestartAgain(state) ==
  IF state = "executing" THEN "awaiting-approval" ELSE state

AfterRestart(state) ==
  IF state \in Undecided THEN "revoked"
  ELSE IF state = "executing" THEN "unknown" ELSE state

Restart ==
  /\ row' = [p \in Proposals |-> AfterRestart(row[p])]
  /\ step' = [p \in Proposals |-> IF step[p] = "none" THEN "none" ELSE "done"]
  /\ turn' = [t \in Tasks |-> "idle"]
  /\ turnAborted' = [t \in Tasks |-> FALSE]
  /\ checks' = [p \in Edits |-> 0]
  /\ UNCHANGED <<granted, cleared, world>>

\* reconcile reads the record, then waits for the file.  For a command or
\* an MCP call it saves the record as it was.
CheckOutcome(p) ==
  /\ row[p] = "unknown" /\ checks[p] < MaxChecks
  /\ checks' = [checks EXCEPT ![p] = @ + 1]
  /\ UNCHANGED <<row, step, turn, turnAborted, granted, cleared, world>>

Found(content) ==
  IF content = "approved" THEN "complete"
  ELSE IF content = "original" THEN "failed" ELSE "unknown"

\* It saves what it found over the record, which it does not read again: also
\* over what another check found meanwhile.  A file that cannot be read leaves
\* the outcome unknown.
Checked(p, readable) ==
  /\ checks[p] > 0
  /\ checks' = [checks EXCEPT ![p] = @ - 1]
  /\ row' = [row EXCEPT ![p] = IF readable THEN Found(file[p]) ELSE "unknown"]
  /\ cleared' = IF row'[p] = "unknown" THEN cleared ELSE cleared \union {p}
  /\ UNCHANGED <<step, turn, turnAborted, granted, world>>

\* The user's editor, or any other process.
OtherWrite(p, content) ==
  /\ file' = [file EXCEPT ![p] = content]
  /\ UNCHANGED <<row, step, turn, turnAborted, checks, granted, cleared, effect>>

CallStep(p) ==
  \/ Refused(p) \/ Queue(p) \/ TooLate(p) \/ Begin(p) \/ Unstarted(p)
  \/ Mutate(p) \/ Lost(p) \/ Written(p) \/ Verified(p)
  \/ \E state \in {"complete", "failed"} : Ended(p, state)

ApprovalsNext ==
  \/ \E t \in Tasks : StartTurn(t) \/ EndTurn(t) \/ AbortTurn(t)
  \/ \E p \in Proposals : Propose(p) \/ Revoke(p) \/ CallStep(p)
  \/ \E p \in Proposals, approve \in BOOLEAN : Decide(p, approve)
  \/ \E p \in Edits : CheckOutcome(p)
  \/ \E p \in Edits, readable \in BOOLEAN : Checked(p, readable)
  \/ \E p \in Edits, content \in Contents : OtherWrite(p, content)
  \/ Restart

\* The runtime's own steps happen: slots are handed on (ExecutionSlots), a
\* command and an MCP call have timeouts.  The user need not do anything.
ApprovalsFairness == \A p \in Proposals : WF_approvalVars(CallStep(p))

ApprovalsSpec == ApprovalsInit /\ [][ApprovalsNext]_approvalVars
ApprovalsFairSpec == ApprovalsSpec /\ ApprovalsFairness

----
(* Properties. *)

(* The world is touched only for a proposal the user approved, and from    *)
(* the first mutation on its record says so: none that is open, rejected   *)
(* or revoked has had an effect, whatever aborts, crashes or is decided    *)
(* late.                                                                   *)
EffectIsGrantedAndRecorded ==
  \A p \in Proposals :
    effect[p] # "none" =>
      /\ p \in granted
      /\ row[p] \in {"executing", "complete", "failed", "unknown"}

(* An approval is executed at most once, and only from a decision taken    *)
(* in this process: no restart, late answer or check runs it again.        *)
ExecutedOnce ==
  [][\A p \in Proposals :
       /\ row'[p] = "executing" /\ row[p] # "executing" =>
            row[p] = "approved" /\ effect[p] = "none"
       /\ row[p] \notin Undecided \union {"absent"} =>
            row'[p] \notin Undecided \union {"absent"}]_approvalVars

(* An outcome that is unknown, and was not cleared by a check before, has  *)
(* its task without a turn and without a call: nothing further is proposed,*)
(* approved or begun.  For a command or an MCP call that is for ever; an   *)
(* edit is out of it once a check found its outcome, since another check   *)
(* that began before may save `unknown' over that while a turn runs.       *)
UnknownBlocksTheTask ==
  \A p \in Proposals :
    row[p] = "unknown" /\ p \notin cleared =>
      turn[TaskOf[p]] = "idle" /\ Idle(TaskOf[p])

(* An approval the user gave comes to an outcome.                          *)
ApprovedIsConcluded ==
  \A p \in Proposals :
    row[p] \in {"approved", "executing"} ~>
      row[p] \in {"complete", "failed", "revoked", "unknown"}
====
