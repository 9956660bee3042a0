------------------------------ MODULE Workspaces ------------------------------
(***************************************************************************)
(* Who may use a task's worktree: turns, the user's commit, push, check    *)
(* and retirement (workspace-operations.ts), continuations (continuity.ts),*)
(* MCP configuration, the database upgrade and shutdown (service.ts).      *)
(* Each looks at the flags of the others in one synchronous block and then *)
(* waits for Git, a server or the file system with its own flag set.       *)
(***************************************************************************)
EXTENDS Integers, FiniteSets

CONSTANTS GitTasks,   \* tasks with a worktree
          TreeOf,     \* TreeOf[t]: the root task of t's grouping, t itself unless t is a child
          MaxTurns    \* service.ts:674, 16

ASSUME WorkspacesAssumption == /\ TreeOf \in [GitTasks -> GitTasks]
                               /\ \A t \in GitTasks : TreeOf[TreeOf[t]] = TreeOf[t]
                               /\ MaxTurns \in Nat

VARIABLES status,     \* tasks.status
          tree,       \* is the worktree on disk
          intent,     \* the state of the task's last intent of each kind
          turns,      \* RuntimeService.running
          gitOp,      \* the step of the task's commit, push or check (`publishing')
          retire,     \* the step of the grouping's retirement (`retiring')
          source,     \* the step of a continuation from the grouping (`continuityLocks')
          runs,       \* coordinated groupings: non-terminal runs, and work the orchestrator has in hand
          runtime     \* the flags of the service itself

wsVars == <<status, tree, intent, turns, gitOp, retire, source, runs, runtime>>

Roots == {TreeOf[t] : t \in GitTasks}
Members(r) == {t \in GitTasks : TreeOf[t] = r}
Coordinated(t) == Members(TreeOf[t]) # {t}
Kinds == {"commit", "push", "retire"}
Up == [closing |-> FALSE, closed |-> FALSE, upgrade |-> "no", mcp |-> FALSE, drafts |-> {}]

WorkspacesTypeOK ==
  /\ status \in [GitTasks -> {"idle", "running", "retired"}]
  /\ tree \in [GitTasks -> BOOLEAN]
  /\ intent \in [GitTasks -> [Kinds -> {"none", "pending", "unknown"}]]
  /\ turns \subseteq GitTasks
  /\ gitOp \in [GitTasks -> [op: {"none", "commit", "push", "check"}, step: {"idle", "head", "effect", "check"}]]
  /\ retire \in [Roots -> {"idle", "looking", "removing", "removed"}]
  /\ source \in [Roots -> {"free", "looking", "creating"}]
  /\ runs \in [active: SUBSET Roots, busy: SUBSET Roots]
  /\ runtime \in [closing: BOOLEAN, closed: BOOLEAN, upgrade: {"no", "draining", "copying"},
                  mcp: BOOLEAN, drafts: SUBSET GitTasks]

NoOp == [op |-> "none", step |-> "idle"]

WorkspacesInit ==
  /\ status = [t \in GitTasks |-> "idle"]
  /\ tree = [t \in GitTasks |-> TRUE]
  /\ intent = [t \in GitTasks |-> [k \in Kinds |-> "none"]]
  /\ turns = {}
  /\ gitOp = [t \in GitTasks |-> NoOp]
  /\ retire = [r \in Roots |-> "idle"]
  /\ source = [r \in Roots |-> "free"]
  /\ runs = [active |-> {}, busy |-> {}]
  /\ runtime = Up

\* dispatch refuses everything once the service closes or an upgrade begins.
Accepting == ~runtime.closing /\ runtime.upgrade = "no"

Publishing(t) == gitOp[t].step # "idle"
Retiring(t) == retire[TreeOf[t]] # "idle"
Locked(t) == source[TreeOf[t]] # "free"
Unknown(t, kinds) == \E k \in kinds : intent[t][k] = "unknown"

\* startTurn, its checks and the transaction, one synchronous block.
MayTurn(t) ==
  /\ ~Locked(t) /\ ~runtime.closing /\ ~runtime.mcp
  /\ t \notin turns /\ Cardinality(turns) < MaxTurns
  /\ status[t] # "retired" /\ ~Retiring(t) /\ ~Publishing(t)
  /\ ~Unknown(t, Kinds) /\ ~Unknown(TreeOf[t], {"retire"})

\* task.send, which resumes the coordinator of a coordinated task; a child's
\* turn is started by the orchestrator, at any time it has work in hand.
StartWorkspaceTurn(t) ==
  /\ MayTurn(t)
  /\ IF TreeOf[t] = t THEN Accepting ELSE TreeOf[t] \in runs.busy
  /\ turns' = turns \cup {t}
  /\ status' = [status EXCEPT ![t] = "running"]
  /\ runs' = IF TreeOf[t] = t /\ Coordinated(t)
             THEN [active |-> runs.active \cup {t}, busy |-> runs.busy \cup {t}] ELSE runs
  /\ UNCHANGED <<tree, intent, gitOp, retire, source, runtime>>

EndWorkspaceTurn(t) ==
  /\ t \in turns
  /\ turns' = turns \ {t}
  /\ status' = [status EXCEPT ![t] = "idle"]
  /\ runs' = IF Coordinated(t) /\ ~runtime.closing THEN [runs EXCEPT !.busy = @ \cup {TreeOf[t]}] ELSE runs
  /\ UNCHANGED <<tree, intent, gitOp, retire, source, runtime>>

\* The orchestrator has nothing left to do for a root; its runs may have ended.
Settle(r) ==
  /\ r \in runs.busy
  /\ runs' \in {[runs EXCEPT !.busy = @ \ {r}]} \cup
               (IF Members(r) \cap turns = {} THEN {[active |-> runs.active \ {r}, busy |-> runs.busy \ {r}]} ELSE {})
  /\ UNCHANGED <<status, tree, intent, turns, gitOp, retire, source, runtime>>

\* A reviewed draft prepares its action (prepareDraftAction): it waits for the
\* credential repairs and then holds the task like a turn, without its status.
AskDraft(t) ==
  /\ Accepting /\ ~Coordinated(t) /\ t \notin runtime.drafts
  /\ runtime' = [runtime EXCEPT !.drafts = @ \cup {t}]
  /\ UNCHANGED <<status, tree, intent, turns, gitOp, retire, source, runs>>

PrepareDraft(t) ==
  /\ t \in runtime.drafts
  /\ runtime' = [runtime EXCEPT !.drafts = @ \ {t}]
  /\ turns' \in {turns} \cup
       (IF /\ ~Locked(t) /\ status[t] = "idle" /\ t \notin turns
           /\ ~Retiring(t) /\ ~Publishing(t) /\ ~runtime.mcp
           /\ \A k \in Kinds : intent[t][k] = "none"
        THEN {turns \cup {t}} ELSE {})
  /\ UNCHANGED <<status, tree, intent, gitOp, retire, source, runs>>

-----------------------------------------------------------------------------
\* commit and push: `publishable' and the flag in one block, then HEAD is read,
\* then the intent is written and the effect runs.  Neither looks at `retiring'.
Publish(t, op) ==
  /\ Accepting /\ ~Locked(t)
  /\ ~Coordinated(t) /\ t \notin turns /\ status[t] = "idle"
  /\ ~Unknown(t, Kinds) /\ ~Publishing(t)
  /\ gitOp' = [gitOp EXCEPT ![t] = [op |-> op, step |-> "head"]]
  /\ UNCHANGED <<status, tree, intent, turns, retire, source, runs, runtime>>

HeadRead(t) ==
  /\ gitOp[t].step = "head"
  /\ \/ /\ tree[t]
        /\ intent' = [intent EXCEPT ![t][gitOp[t].op] = "pending"]
        /\ gitOp' = [gitOp EXCEPT ![t].step = "effect"]
     \/ gitOp' = [gitOp EXCEPT ![t] = NoOp] /\ UNCHANGED intent
  /\ UNCHANGED <<status, tree, turns, retire, source, runs, runtime>>

\* commitAll and push: refused before the effect, done, or nobody knows; a
\* worktree that is gone cannot be committed or pushed from.
Published(t) ==
  /\ gitOp[t].step = "effect"
  /\ \E known \in BOOLEAN : intent' = [intent EXCEPT ![t][gitOp[t].op] = IF known THEN "none" ELSE "unknown"]
  /\ gitOp' = [gitOp EXCEPT ![t] = NoOp]
  /\ UNCHANGED <<status, tree, turns, retire, source, runs, runtime>>

Check(t) ==
  /\ Accepting /\ ~Locked(t) /\ ~Publishing(t)
  /\ \E k \in Kinds : intent[t][k] = "unknown"
  /\ gitOp' = [gitOp EXCEPT ![t] = [op |-> "check", step |-> "check"]]
  /\ UNCHANGED <<status, tree, intent, turns, retire, source, runs, runtime>>

\* reconcilePublication: what Git cannot prove stays unknown - always so for a
\* commit whose worktree is gone - and a retirement is concluded either way.
Checked(t) ==
  /\ gitOp[t].step = "check"
  /\ \E proved \in SUBSET {k \in {"commit", "push"} : intent[t][k] = "unknown" /\ (tree[t] \/ k = "push")} :
       intent' = [intent EXCEPT ![t] = [k \in Kinds |->
                    IF k \in proved \/ (k = "retire" /\ @[k] = "unknown") THEN "none" ELSE @[k]]]
  /\ gitOp' = [gitOp EXCEPT ![t] = NoOp]
  /\ UNCHANGED <<status, tree, turns, retire, source, runs, runtime>>

-----------------------------------------------------------------------------
\* Mutant: the members' unknown outcomes and turns are not looked at.
RetireUnchecked(r) ==
  /\ Accepting /\ ~Locked(r) /\ retire[r] = "idle" /\ status[r] = "idle"
  /\ retire' = [retire EXCEPT ![r] = "looking"]
  /\ UNCHANGED <<status, tree, intent, turns, gitOp, source, runs, runtime>>

\* retire: the checks of every member and the flag in one block.
Retire(r) ==
  /\ Accepting /\ ~Locked(r) /\ retire[r] = "idle"
  /\ r \notin turns /\ status[r] = "idle" /\ r \notin runs.active
  /\ \A t \in Members(r) : t \notin turns /\ status[t] # "running" /\ ~Unknown(t, Kinds)
  /\ retire' = [retire EXCEPT ![r] = "looking"]
  /\ UNCHANGED <<status, tree, intent, turns, gitOp, source, runs, runtime>>

\* Every worktree was looked at: one with changes refuses the whole.
CleanWorktrees(r) ==
  /\ retire[r] = "looking"
  /\ \/ /\ retire' = [retire EXCEPT ![r] = "removing"]
        /\ intent' = [intent EXCEPT ![r].retire = "pending"]
     \/ retire' = [retire EXCEPT ![r] = "idle"] /\ UNCHANGED intent
  /\ UNCHANGED <<status, tree, turns, gitOp, source, runs, runtime>>

Remove(r, t) ==
  /\ retire[r] \in {"removing", "removed"} /\ t \in Members(r) /\ tree[t]
  /\ tree' = [tree EXCEPT ![t] = FALSE]
  /\ retire' = [retire EXCEPT ![r] = "removed"]
  /\ UNCHANGED <<status, intent, turns, gitOp, source, runs, runtime>>

Retired(r) ==
  /\ retire[r] \in {"removing", "removed"} /\ \A t \in Members(r) : ~tree[t]
  /\ status' = [t \in GitTasks |-> IF t \in Members(r) THEN "retired" ELSE status[t]]
  /\ intent' = [intent EXCEPT ![r].retire = "none"]
  /\ retire' = [retire EXCEPT ![r] = "idle"]
  /\ UNCHANGED <<tree, turns, gitOp, source, runs, runtime>>

\* A removal fails: unknown when one was removed before or Git left it open.
RetireFails(r) ==
  /\ retire[r] \in {"removing", "removed"}
  /\ \E known \in {FALSE, retire[r] = "removing"} :
       intent' = [intent EXCEPT ![r].retire = IF known THEN "none" ELSE "unknown"]
  /\ retire' = [retire EXCEPT ![r] = "idle"]
  /\ UNCHANGED <<status, tree, turns, gitOp, source, runs, runtime>>

-----------------------------------------------------------------------------
\* task.continue: the source is locked (acquireSource), found settled, read
\* from Git, compared with the preview, and a new task made from it.
ContinueTask(r) ==
  /\ Accepting /\ source[r] = "free" /\ Members(r) \cap turns = {}
  /\ \A t \in Members(r) : status[t] # "running" /\ \A k \in Kinds : intent[t][k] = "none"
  /\ source' = [source EXCEPT ![r] = "looking"]
  /\ UNCHANGED <<status, tree, intent, turns, gitOp, retire, runs, runtime>>

SourceRead(r) ==
  /\ source[r] = "looking"
  /\ \E step \in {"free", "creating"} : source' = [source EXCEPT ![r] = step]
  /\ UNCHANGED <<status, tree, intent, turns, gitOp, retire, runs, runtime>>

Continued(r) ==
  /\ source[r] = "creating"
  /\ source' = [source EXCEPT ![r] = "free"]
  /\ UNCHANGED <<status, tree, intent, turns, gitOp, retire, runs, runtime>>

\* mcp.save and mcp.remove stop and start a server with `mcpBusy' set.
ChangeMcp ==
  /\ Accepting /\ turns = {} /\ ~runtime.mcp
  /\ runtime' = [runtime EXCEPT !.mcp = TRUE]
  /\ UNCHANGED <<status, tree, intent, turns, gitOp, retire, source, runs>>

McpChanged ==
  /\ runtime.mcp
  /\ runtime' = [runtime EXCEPT !.mcp = FALSE]
  /\ UNCHANGED <<status, tree, intent, turns, gitOp, retire, source, runs>>

-----------------------------------------------------------------------------
\* The calls under way that `dispatches' holds.
Dispatched ==
  \/ \E t \in GitTasks : Publishing(t)
  \/ \E r \in Roots : retire[r] # "idle" \/ source[r] # "free"
  \/ runtime.mcp \/ runtime.drafts # {}

Busy == turns # {} \/ runtime.mcp \/ runs.busy # {}

\* workspace.upgrade closes admission, waits for the calls that were there
\* before it and looks again before it copies and migrates the database.
Upgrade ==
  /\ Accepting /\ ~Busy
  /\ runtime' = [runtime EXCEPT !.upgrade = "draining"]
  /\ UNCHANGED <<status, tree, intent, turns, gitOp, retire, source, runs>>

Copy ==
  /\ runtime.upgrade = "draining" /\ ~Dispatched
  /\ runtime' = [runtime EXCEPT !.upgrade = IF runtime.closing \/ Busy THEN "no" ELSE "copying"]
  /\ UNCHANGED <<status, tree, intent, turns, gitOp, retire, source, runs>>

Upgraded ==
  /\ runtime.upgrade = "copying"
  /\ runtime' = [runtime EXCEPT !.upgrade = "no"]
  /\ UNCHANGED <<status, tree, intent, turns, gitOp, retire, source, runs>>

\* shutdown: nothing is admitted any more; what is under way reaches its end
\* before the database is closed.
Shutdown ==
  /\ ~runtime.closing
  /\ runtime' = [runtime EXCEPT !.closing = TRUE]
  /\ UNCHANGED <<status, tree, intent, turns, gitOp, retire, source, runs>>

Close ==
  /\ runtime.closing /\ ~runtime.closed
  /\ turns = {} /\ ~Dispatched /\ runs.busy = {} /\ runtime.upgrade = "no"
  /\ runtime' = [runtime EXCEPT !.closed = TRUE]
  /\ UNCHANGED <<status, tree, intent, turns, gitOp, retire, source, runs>>

\* The runtime dies, or is started again after it closed.
CrashWorkspaces ==
  /\ status' = [t \in GitTasks |-> IF status[t] = "running" THEN "idle" ELSE status[t]]
  /\ intent' = [t \in GitTasks |-> [k \in Kinds |-> IF intent[t][k] = "pending" THEN "unknown" ELSE intent[t][k]]]
  /\ turns' = {}
  /\ gitOp' = [t \in GitTasks |-> NoOp]
  /\ retire' = [r \in Roots |-> "idle"]
  /\ source' = [r \in Roots |-> "free"]
  /\ runs' = [runs EXCEPT !.busy = {}]
  /\ runtime' = Up
  /\ UNCHANGED tree

WorkspacesNext ==
  \/ \E t \in GitTasks : \/ StartWorkspaceTurn(t) \/ EndWorkspaceTurn(t) \/ AskDraft(t) \/ PrepareDraft(t)
                         \/ \E op \in {"commit", "push"} : Publish(t, op)
                         \/ HeadRead(t) \/ Published(t) \/ Check(t) \/ Checked(t)
  \/ \E r \in Roots : \/ Settle(r) \/ Retire(r) \/ CleanWorktrees(r) \/ Retired(r) \/ RetireFails(r)
                      \/ \E t \in Members(r) : Remove(r, t)
                      \/ ContinueTask(r) \/ SourceRead(r) \/ Continued(r)
  \/ ChangeMcp \/ McpChanged \/ Upgrade \/ Copy \/ Upgraded \/ Shutdown \/ Close
  \/ CrashWorkspaces

\* No turn runs in a task whose worktree the user's Git actions, a retirement or
\* a continuation are using, nor while MCP servers change, whatever each of them
\* waited for in between.
TurnsExcludeSwitches ==
  \A t \in turns : ~Publishing(t) /\ ~Retiring(t) /\ ~Locked(t) /\ ~runtime.mcp

\* While the database is copied and migrated, and once it is closed, no turn
\* and no call is under way and the orchestrator has nothing in hand.
QuietWhenSwitched ==
  runtime.upgrade = "copying" \/ runtime.closed => turns = {} /\ ~Dispatched /\ runs.busy = {}

\* What works in a task's worktree, changes the servers or switches the database
\* keeps turns out, and a switch of the database everything else.  Among
\* themselves the user's Git actions, a retirement and a continuation are not
\* exclusive: a commit or push does not look at `retiring' nor a retirement at
\* `publishing' (workspace-operations.ts:132-144 and 250-264), so that a worktree
\* can be removed under a commit.
TurnsAreKeptOut == TurnsExcludeSwitches /\ QuietWhenSwitched
=============================================================================
