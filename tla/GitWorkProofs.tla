---- MODULE GitWorkProofs ----
(***************************************************************************)
(* Proofs about what the runtime does in the worktrees of tasks: which     *)
(* operations a switch keeps apart, handoffs, the starts that make the     *)
(* tasks, and the operations on the repository with the completion of the  *)
(* task.  For any requests, tasks, worktrees, paths and results and any    *)
(* number of operations.                                                   *)
(***************************************************************************)
EXTENDS MCGitWork, SequenceTheorems, FiniteSetTheorems, TLAPS

----
(***************************************************************************)
(* Switches and other operations stay out of each other's way.             *)
(***************************************************************************)

\* The specification without the fairness, which safety does not need.
WorkspacesSpec == WorkspacesInit /\ [][WorkspacesNext]_wsVars

\* A turn begins only where no operation's outcome is unknown, and a runtime that
\* closed had begun to close.
TurnsLookedAt == \A t \in turns : ~Unknown(t, Kinds)
ClosedIsClosing == runtime.closed => runtime.closing
\* The inductive invariant of the repository's operations.
WorkspacesInv == WorkspacesTypeOK /\ TurnsAreKeptOut /\ TurnsLookedAt /\ ClosedIsClosing

\* A task's worktree belongs to a root task, a root's to itself.
LEMMA TreesAreTasks == /\ Roots \subseteq GitTasks
                       /\ \A t \in GitTasks : TreeOf[t] \in Roots
                       /\ \A r \in Roots : TreeOf[r] = r
BY WorkspacesAssumption DEF Roots

\* The types of the flags, the operation of a task and its intents.
Flags == [closing: BOOLEAN, closed: BOOLEAN, upgrade: {"no", "draining", "copying"}, mcp: BOOLEAN, drafts: SUBSET GitTasks]
Operations == [op: {"none", "commit", "push", "check"}, step: {"idle", "head", "effect", "check"}]
Intents == [GitTasks -> [Kinds -> {"none", "pending", "unknown"}]]

\* One lemma per variable: no step takes it out of its type.
LEMMA FlagsTyped ==
  ASSUME runtime \in Flags, WorkspacesNext
  PROVE  runtime' \in Flags
<1>1. ASSUME NEW t \in GitTasks, StartWorkspaceTurn(t) \/ EndWorkspaceTurn(t) PROVE runtime' \in Flags
  BY <1>1 DEF StartWorkspaceTurn, EndWorkspaceTurn
<1>2. ASSUME NEW t \in GitTasks, AskDraft(t) \/ PrepareDraft(t) PROVE runtime' \in Flags
  BY <1>2 DEF AskDraft, PrepareDraft, Flags
<1>3. ASSUME NEW t \in GitTasks, \/ \E op \in {"commit", "push"} : Publish(t, op)
                                \/ HeadRead(t) \/ Published(t) \/ Check(t) \/ Checked(t) PROVE runtime' \in Flags
  BY <1>3 DEF Publish, HeadRead, Published, Check, Checked
<1>4. ASSUME NEW r \in Roots, \/ Settle(r) \/ Retire(r) \/ CleanWorktrees(r) \/ Retired(r) \/ RetireFails(r)
                              \/ \E t \in Members(r) : Remove(r, t) PROVE runtime' \in Flags
  BY <1>4 DEF Settle, Retire, CleanWorktrees, Retired, RetireFails, Remove
<1>5. ASSUME NEW r \in Roots, ContinueTask(r) \/ SourceRead(r) \/ Continued(r) PROVE runtime' \in Flags
  BY <1>5 DEF ContinueTask, SourceRead, Continued
<1>6. CASE ChangeMcp \/ McpChanged \/ Upgrade \/ Copy \/ Upgraded \/ Shutdown \/ Close
  BY <1>6 DEF ChangeMcp, McpChanged, Upgrade, Copy, Upgraded, Shutdown, Close, Flags
<1>7. CASE CrashWorkspaces
  BY <1>7 DEF CrashWorkspaces, Up, Flags
<1> QED BY <1>1, <1>2, <1>3, <1>4, <1>5, <1>6, <1>7 DEF WorkspacesNext

\* The operation of a task.
LEMMA OperationsTyped ==
  ASSUME gitOp \in [GitTasks -> Operations], WorkspacesNext
  PROVE  gitOp' \in [GitTasks -> Operations]
<1>1. NoOp \in Operations /\ [op |-> "check", step |-> "check"] \in Operations
  BY DEF NoOp, Operations
<1>2. \A o \in {"commit", "push"} : [op |-> o, step |-> "head"] \in Operations
  BY DEF Operations
<1>3. \A o \in Operations : [o EXCEPT !.step = "effect"] \in Operations
  BY DEF Operations
<1>4. ASSUME NEW t \in GitTasks, NEW op \in {"commit", "push"}, Publish(t, op) PROVE gitOp' \in [GitTasks -> Operations]
  BY <1>2, <1>4 DEF Publish
<1>5. ASSUME NEW t \in GitTasks, HeadRead(t) PROVE gitOp' \in [GitTasks -> Operations]
  BY <1>1, <1>3, <1>5 DEF HeadRead
<1>6. ASSUME NEW t \in GitTasks, Published(t) \/ Check(t) \/ Checked(t) PROVE gitOp' \in [GitTasks -> Operations]
  BY <1>1, <1>6 DEF Published, Check, Checked
<1>7. CASE CrashWorkspaces
  BY <1>1, <1>7 DEF CrashWorkspaces
<1>8. ASSUME NEW t \in GitTasks, StartWorkspaceTurn(t) \/ EndWorkspaceTurn(t) \/ AskDraft(t) \/ PrepareDraft(t)
      PROVE UNCHANGED gitOp
  BY <1>8 DEF StartWorkspaceTurn, EndWorkspaceTurn, AskDraft, PrepareDraft
<1>9. ASSUME NEW r \in Roots, \/ Settle(r) \/ Retire(r) \/ CleanWorktrees(r) \/ Retired(r) \/ RetireFails(r)
                              \/ \E t \in Members(r) : Remove(r, t) PROVE UNCHANGED gitOp
  BY <1>9 DEF Settle, Retire, CleanWorktrees, Retired, RetireFails, Remove
<1>10. ASSUME NEW r \in Roots, ContinueTask(r) \/ SourceRead(r) \/ Continued(r) PROVE UNCHANGED gitOp
  BY <1>10 DEF ContinueTask, SourceRead, Continued
<1>11. CASE ChangeMcp \/ McpChanged \/ Upgrade \/ Copy \/ Upgraded \/ Shutdown \/ Close
  BY <1>11 DEF ChangeMcp, McpChanged, Upgrade, Copy, Upgraded, Shutdown, Close
<1> QED BY <1>4, <1>5, <1>6, <1>7, <1>8, <1>9, <1>10, <1>11 DEF WorkspacesNext

\* The intents in the database.
LEMMA IntentsTyped ==
  ASSUME intent \in Intents, gitOp \in [GitTasks -> Operations], WorkspacesNext
  PROVE  intent' \in Intents
<1> USE TreesAreTasks
<1>1. ASSUME NEW t \in GitTasks, HeadRead(t) PROVE intent' \in Intents
  <2>1. gitOp[t].op \in Kinds \/ gitOp[t].op \in {"none", "check"}
    BY DEF Kinds, Operations
  <2>2. ASSUME NEW k \in Kinds PROVE [intent EXCEPT ![t][k] = "pending"] \in Intents
    BY DEF Intents
  <2>3. ASSUME NEW k \in {"none", "check"} PROVE [intent EXCEPT ![t][k] = "pending"] \in Intents
    BY DEF Intents, Kinds
  <2> QED BY <1>1, <2>1, <2>2, <2>3 DEF HeadRead
<1>2. ASSUME NEW t \in GitTasks, Published(t) PROVE intent' \in Intents
  <2>1. gitOp[t].op \in Kinds \/ gitOp[t].op \in {"none", "check"}
    BY DEF Kinds, Operations
  <2>2. ASSUME NEW k \in Kinds, NEW v \in {"none", "unknown"} PROVE [intent EXCEPT ![t][k] = v] \in Intents
    BY DEF Intents
  <2>3. ASSUME NEW k \in {"none", "check"}, NEW v \in {"none", "unknown"} PROVE [intent EXCEPT ![t][k] = v] \in Intents
    BY DEF Intents, Kinds
  <2> QED BY <1>2, <2>1, <2>2, <2>3 DEF Published
<1>3. ASSUME NEW t \in GitTasks, Checked(t) PROVE intent' \in Intents
  BY <1>3 DEF Checked, Intents
<1>4. ASSUME NEW r \in Roots, CleanWorktrees(r) PROVE intent' \in Intents
  BY <1>4 DEF CleanWorktrees, Intents, Kinds
<1>5. ASSUME NEW r \in Roots, Retired(r) \/ RetireFails(r) PROVE intent' \in Intents
  <2>1. ASSUME NEW v \in {"none", "unknown"} PROVE [intent EXCEPT ![r].retire = v] \in Intents
    BY DEF Intents, Kinds
  <2> QED BY <1>5, <2>1 DEF Retired, RetireFails
<1>6. CASE CrashWorkspaces
  BY <1>6 DEF CrashWorkspaces, Intents
<1>7. ASSUME NEW t \in GitTasks, \/ StartWorkspaceTurn(t) \/ EndWorkspaceTurn(t) \/ AskDraft(t) \/ PrepareDraft(t)
                                \/ \E op \in {"commit", "push"} : Publish(t, op)
                                \/ Check(t)
      PROVE UNCHANGED intent
  BY <1>7 DEF StartWorkspaceTurn, EndWorkspaceTurn, AskDraft, PrepareDraft, Publish, Check
<1>8. ASSUME NEW r \in Roots, Settle(r) \/ Retire(r) \/ \E t \in Members(r) : Remove(r, t) PROVE UNCHANGED intent
  BY <1>8 DEF Settle, Retire, Remove
<1>9. ASSUME NEW r \in Roots, ContinueTask(r) \/ SourceRead(r) \/ Continued(r) PROVE UNCHANGED intent
  BY <1>9 DEF ContinueTask, SourceRead, Continued
<1>10. CASE ChangeMcp \/ McpChanged \/ Upgrade \/ Copy \/ Upgraded \/ Shutdown \/ Close
  BY <1>10 DEF ChangeMcp, McpChanged, Upgrade, Copy, Upgraded, Shutdown, Close
<1> QED BY <1>1, <1>2, <1>3, <1>4, <1>5, <1>6, <1>7, <1>8, <1>9, <1>10 DEF WorkspacesNext

\* The tasks, their worktrees and turns.
LEMMA TasksTyped ==
  ASSUME status \in [GitTasks -> {"idle", "running", "retired"}], tree \in [GitTasks -> BOOLEAN], turns \subseteq GitTasks,
         WorkspacesNext
  PROVE  status' \in [GitTasks -> {"idle", "running", "retired"}] /\ tree' \in [GitTasks -> BOOLEAN] /\ turns' \subseteq GitTasks
<1> DEFINE Typed == status' \in [GitTasks -> {"idle", "running", "retired"}] /\ tree' \in [GitTasks -> BOOLEAN]
                    /\ turns' \subseteq GitTasks
<1>1. ASSUME NEW t \in GitTasks, StartWorkspaceTurn(t) \/ EndWorkspaceTurn(t) PROVE Typed
  BY <1>1 DEF StartWorkspaceTurn, EndWorkspaceTurn
<1>2. ASSUME NEW t \in GitTasks, AskDraft(t) \/ PrepareDraft(t) PROVE Typed
  BY <1>2 DEF AskDraft, PrepareDraft
<1>3. ASSUME NEW t \in GitTasks, \/ \E op \in {"commit", "push"} : Publish(t, op)
                                \/ HeadRead(t) \/ Published(t) \/ Check(t) \/ Checked(t) PROVE Typed
  BY <1>3 DEF Publish, HeadRead, Published, Check, Checked
<1>4. ASSUME NEW r \in Roots, Settle(r) \/ Retire(r) \/ CleanWorktrees(r) \/ RetireFails(r) PROVE Typed
  BY <1>4 DEF Settle, Retire, CleanWorktrees, RetireFails
<1>5. ASSUME NEW r \in Roots, Retired(r) \/ \E t \in Members(r) : Remove(r, t) PROVE Typed
  BY <1>5 DEF Retired, Remove
<1>6. ASSUME NEW r \in Roots, ContinueTask(r) \/ SourceRead(r) \/ Continued(r) PROVE Typed
  BY <1>6 DEF ContinueTask, SourceRead, Continued
<1>7. CASE ChangeMcp \/ McpChanged \/ Upgrade \/ Copy \/ Upgraded \/ Shutdown \/ Close
  BY <1>7 DEF ChangeMcp, McpChanged, Upgrade, Copy, Upgraded, Shutdown, Close
<1>8. CASE CrashWorkspaces
  BY <1>8 DEF CrashWorkspaces
<1> QED BY <1>1, <1>2, <1>3, <1>4, <1>5, <1>6, <1>7, <1>8 DEF WorkspacesNext

\* What is kept per root task.
LEMMA RootsTyped ==
  ASSUME retire \in [Roots -> {"idle", "looking", "removing", "removed"}], source \in [Roots -> {"free", "looking", "creating"}],
         runs \in [active: SUBSET Roots, busy: SUBSET Roots], WorkspacesNext
  PROVE  /\ retire' \in [Roots -> {"idle", "looking", "removing", "removed"}] /\ source' \in [Roots -> {"free", "looking", "creating"}]
         /\ runs' \in [active: SUBSET Roots, busy: SUBSET Roots]
<1> USE TreesAreTasks
<1> DEFINE Typed == /\ retire' \in [Roots -> {"idle", "looking", "removing", "removed"}]
                    /\ source' \in [Roots -> {"free", "looking", "creating"}]
                    /\ runs' \in [active: SUBSET Roots, busy: SUBSET Roots]
<1>1. ASSUME NEW t \in GitTasks, StartWorkspaceTurn(t) \/ EndWorkspaceTurn(t) PROVE Typed
  BY <1>1 DEF StartWorkspaceTurn, EndWorkspaceTurn
<1>2. ASSUME NEW t \in GitTasks, AskDraft(t) \/ PrepareDraft(t) PROVE Typed
  BY <1>2 DEF AskDraft, PrepareDraft
<1>3. ASSUME NEW t \in GitTasks, \/ \E op \in {"commit", "push"} : Publish(t, op)
                                \/ HeadRead(t) \/ Published(t) \/ Check(t) \/ Checked(t) PROVE Typed
  BY <1>3 DEF Publish, HeadRead, Published, Check, Checked
<1>4. ASSUME NEW r \in Roots, Settle(r) \/ Retire(r) PROVE Typed
  BY <1>4 DEF Settle, Retire
<1>5. ASSUME NEW r \in Roots, \/ CleanWorktrees(r) \/ RetireFails(r) \/ Retired(r)
                              \/ \E t \in Members(r) : Remove(r, t) PROVE Typed
  BY <1>5 DEF CleanWorktrees, RetireFails, Retired, Remove
<1>6. ASSUME NEW r \in Roots, ContinueTask(r) \/ SourceRead(r) \/ Continued(r) PROVE Typed
  BY <1>6 DEF ContinueTask, SourceRead, Continued
<1>7. CASE ChangeMcp \/ McpChanged \/ Upgrade \/ Copy \/ Upgraded \/ Shutdown \/ Close
  BY <1>7 DEF ChangeMcp, McpChanged, Upgrade, Copy, Upgraded, Shutdown, Close
<1>8. CASE CrashWorkspaces
  BY <1>8 DEF CrashWorkspaces
<1> QED BY <1>1, <1>2, <1>3, <1>4, <1>5, <1>6, <1>7, <1>8 DEF WorkspacesNext

\* All of them.
LEMMA WorkspacesTyped ==
  ASSUME WorkspacesTypeOK, [WorkspacesNext]_wsVars
  PROVE  WorkspacesTypeOK'
<1>1. CASE WorkspacesNext
  BY <1>1, FlagsTyped, OperationsTyped, IntentsTyped, TasksTyped, RootsTyped DEF WorkspacesTypeOK, Flags, Operations, Intents
<1>2. CASE UNCHANGED wsVars
  BY <1>2 DEF WorkspacesTypeOK, wsVars
<1> QED BY <1>1, <1>2

\* Writing an intent as pending makes no outcome unknown.
LEMMA PendingIsKnown ==
  ASSUME NEW f \in Intents, NEW r \in GitTasks, NEW u \in GitTasks, NEW k \in Kinds,
         [f EXCEPT ![r].retire = "pending"][u][k] = "unknown"
  PROVE  f[u][k] = "unknown"
BY DEF Intents

\* Where a turn runs no switch of the worktree begins, nor the other way round.
LEMMA TurnsStayApart ==
  ASSUME WorkspacesInv, [WorkspacesNext]_wsVars
  PROVE  TurnsExcludeSwitches' /\ TurnsLookedAt'
<1> USE TreesAreTasks
<1> USE DEF WorkspacesInv, WorkspacesTypeOK, TurnsAreKeptOut, TurnsExcludeSwitches, TurnsLookedAt,
            Publishing, Retiring, Locked, Unknown
<1> DEFINE Good == TurnsExcludeSwitches' /\ TurnsLookedAt'
<1>1. ASSUME NEW t \in GitTasks, StartWorkspaceTurn(t) PROVE Good
  BY <1>1 DEF StartWorkspaceTurn, MayTurn
<1>2. ASSUME NEW t \in GitTasks, EndWorkspaceTurn(t) PROVE Good
  BY <1>2 DEF EndWorkspaceTurn
<1>3. ASSUME NEW t \in GitTasks, AskDraft(t) PROVE Good
  BY <1>3 DEF AskDraft
<1>4. ASSUME NEW t \in GitTasks, PrepareDraft(t) PROVE Good
  BY <1>4 DEF PrepareDraft
<1>5. ASSUME NEW t \in GitTasks, NEW op \in {"commit", "push"}, Publish(t, op) PROVE Good
  BY <1>5 DEF Publish
<1>6. ASSUME NEW t \in GitTasks, HeadRead(t) PROVE Good
  <2>1. Publishing(t) /\ t \notin turns
    BY <1>6 DEF HeadRead
  <2>2. \A u \in GitTasks : Publishing(u)' => u = t \/ Publishing(u)
    BY <1>6 DEF HeadRead
  <2>3. \A u \in turns, k \in Kinds : (intent[u][k])' = intent[u][k]
    BY <1>6, <2>1 DEF HeadRead
  <2>4. UNCHANGED <<turns, retire, source, runtime>>
    BY <1>6 DEF HeadRead
  <2> QED BY <2>1, <2>2, <2>3, <2>4
<1>7. ASSUME NEW t \in GitTasks, Published(t) PROVE Good
  BY <1>7 DEF Published, NoOp
<1>8. ASSUME NEW t \in GitTasks, Check(t) PROVE Good
  BY <1>8 DEF Check
<1>9. ASSUME NEW t \in GitTasks, Checked(t) PROVE Good
  BY <1>9 DEF Checked, NoOp
<1>10. ASSUME NEW r \in Roots, Settle(r) PROVE Good
  BY <1>10 DEF Settle
<1>11. ASSUME NEW r \in Roots, Retire(r) PROVE Good
  BY <1>11 DEF Retire, Members
<1>12. ASSUME NEW r \in Roots, CleanWorktrees(r) PROVE Good
  <2>1. \A u \in GitTasks : (retire[TreeOf[u]])' # "idle" => retire[TreeOf[u]] # "idle"
    BY <1>12 DEF CleanWorktrees
  <2>2. \A u \in GitTasks, k \in Kinds : (intent[u][k])' = "unknown" => intent[u][k] = "unknown"
    BY <1>12, PendingIsKnown DEF CleanWorktrees, Intents
  <2>3. UNCHANGED <<turns, gitOp, source, runtime>>
    BY <1>12 DEF CleanWorktrees
  <2> QED BY <2>1, <2>2, <2>3
<1>13. ASSUME NEW r \in Roots, Retired(r) PROVE Good
  BY <1>13 DEF Retired, Kinds
<1>14. ASSUME NEW r \in Roots, RetireFails(r) PROVE Good
  BY <1>14 DEF RetireFails, Kinds
<1>15. ASSUME NEW r \in Roots, NEW t \in Members(r), Remove(r, t) PROVE Good
  BY <1>15 DEF Remove, Members
<1>16. ASSUME NEW r \in Roots, ContinueTask(r) \/ SourceRead(r) \/ Continued(r) PROVE Good
  BY <1>16 DEF ContinueTask, SourceRead, Continued, Members
<1>17. ASSUME ChangeMcp \/ McpChanged \/ Upgrade \/ Copy \/ Upgraded \/ Shutdown \/ Close PROVE Good
  <2>1. UNCHANGED <<turns, gitOp, retire, source, intent>>
    BY <1>17 DEF ChangeMcp, McpChanged, Upgrade, Copy, Upgraded, Shutdown, Close
  <2>2. turns # {} => ~runtime.mcp'
    <3>1. CASE ChangeMcp \/ McpChanged
      BY <3>1 DEF ChangeMcp, McpChanged
    <3>2. CASE Upgrade \/ Copy \/ Upgraded
      BY <3>2 DEF Upgrade, Copy, Upgraded
    <3>3. CASE Shutdown \/ Close
      BY <3>3 DEF Shutdown, Close
    <3> QED BY <1>17, <3>1, <3>2, <3>3
  <2> QED BY <2>1, <2>2
<1>18. ASSUME CrashWorkspaces PROVE Good
  BY <1>18 DEF CrashWorkspaces
<1>19. CASE UNCHANGED wsVars
  BY <1>19 DEF wsVars
<1> QED BY <1>1, <1>2, <1>3, <1>4, <1>5, <1>6, <1>7, <1>8, <1>9, <1>10, <1>11, <1>12, <1>13, <1>14, <1>15, <1>16, <1>17, <1>18, <1>19 DEF WorkspacesNext

\* While the runtime is being replaced nothing is in progress.
LEMMA SwitchStaysQuiet ==
  ASSUME WorkspacesInv, [WorkspacesNext]_wsVars
  PROVE  QuietWhenSwitched' /\ ClosedIsClosing'
<1> USE TreesAreTasks
<1> USE DEF WorkspacesInv, WorkspacesTypeOK, TurnsAreKeptOut, QuietWhenSwitched, ClosedIsClosing,
            Dispatched, Publishing, Accepting
<1> DEFINE Good == QuietWhenSwitched' /\ ClosedIsClosing'
<1>1. ASSUME NEW t \in GitTasks, StartWorkspaceTurn(t) PROVE Good
  BY <1>1 DEF StartWorkspaceTurn, MayTurn
<1>2. ASSUME NEW t \in GitTasks, EndWorkspaceTurn(t) PROVE Good
  BY <1>2 DEF EndWorkspaceTurn
<1>3. ASSUME NEW t \in GitTasks, AskDraft(t) \/ PrepareDraft(t) PROVE Good
  <2>1. CASE AskDraft(t)
    BY <2>1 DEF AskDraft
  <2>2. CASE PrepareDraft(t)
    <3>1. ~(runtime.upgrade = "copying" \/ runtime.closed)
      BY <2>2 DEF PrepareDraft
    <3>2. runtime'.upgrade = runtime.upgrade /\ runtime'.closed = runtime.closed
      BY <2>2 DEF PrepareDraft
    <3> QED BY <3>1, <3>2
  <2> QED BY <1>3, <2>1, <2>2
<1>4. ASSUME NEW t \in GitTasks, NEW op \in {"commit", "push"}, Publish(t, op) PROVE Good
  BY <1>4 DEF Publish
<1>5. ASSUME NEW t \in GitTasks, HeadRead(t) \/ Published(t) PROVE Good
  BY <1>5 DEF HeadRead, Published, NoOp
<1>6. ASSUME NEW t \in GitTasks, Check(t) \/ Checked(t) PROVE Good
  BY <1>6 DEF Check, Checked, NoOp
<1>7. ASSUME NEW r \in Roots, Settle(r) PROVE Good
  BY <1>7 DEF Settle
<1>8. ASSUME NEW r \in Roots, Retire(r) \/ CleanWorktrees(r) PROVE Good
  BY <1>8 DEF Retire, CleanWorktrees
<1>9. ASSUME NEW r \in Roots, Retired(r) \/ RetireFails(r) PROVE Good
  BY <1>9 DEF Retired, RetireFails
<1>10. ASSUME NEW r \in Roots, NEW t \in Members(r), Remove(r, t) PROVE Good
  BY <1>10 DEF Remove, Members
<1>11. ASSUME NEW r \in Roots, ContinueTask(r) \/ SourceRead(r) \/ Continued(r) PROVE Good
  BY <1>11 DEF ContinueTask, SourceRead, Continued, Members
<1>12. ASSUME ChangeMcp \/ McpChanged \/ Upgrade PROVE Good
  BY <1>12 DEF ChangeMcp, McpChanged, Upgrade
<1>13. CASE Copy
  BY <1>13 DEF Copy, Busy
<1>14. ASSUME Upgraded \/ Shutdown \/ Close PROVE Good
  <2>1. CASE Upgraded
    <3>1. /\ runtime.upgrade = "copying" /\ runtime'.closed = runtime.closed /\ runtime'.closing = runtime.closing
          /\ runtime'.mcp = runtime.mcp /\ runtime'.drafts = runtime.drafts
      BY <2>1 DEF Upgraded
    <3>2. UNCHANGED <<turns, gitOp, retire, source, runs>>
      BY <2>1 DEF Upgraded
    <3> QED BY <3>1, <3>2
  <2>2. CASE Shutdown
    BY <2>2 DEF Shutdown
  <2>3. CASE Close
    <3>1. /\ runtime.closing /\ runtime'.closing = runtime.closing
          /\ runtime'.mcp = runtime.mcp /\ runtime'.drafts = runtime.drafts
      BY <2>3 DEF Close
    <3>2. turns = {} /\ ~Dispatched /\ runs.busy = {} /\ UNCHANGED <<turns, gitOp, retire, source, runs>>
      BY <2>3 DEF Close
    <3> QED BY <3>1, <3>2
  <2> QED BY <1>14, <2>1, <2>2, <2>3
<1>15. CASE CrashWorkspaces
  BY <1>15 DEF CrashWorkspaces, Up, NoOp
<1>16. CASE UNCHANGED wsVars
  BY <1>16 DEF wsVars
<1> QED BY <1>1, <1>2, <1>3, <1>4, <1>5, <1>6, <1>7, <1>8, <1>9, <1>10, <1>11, <1>12, <1>13, <1>14, <1>15, <1>16 DEF WorkspacesNext

\* So it is in every reachable state.
LEMMA WorkspacesInvariant == WorkspacesSpec => []WorkspacesInv
<1>1. WorkspacesInit => WorkspacesInv
  BY TreesAreTasks DEF WorkspacesInit, WorkspacesInv, WorkspacesTypeOK, TurnsAreKeptOut, TurnsExcludeSwitches,
    QuietWhenSwitched, TurnsLookedAt, ClosedIsClosing, Dispatched, Publishing, NoOp, Up
<1>2. WorkspacesInv /\ [WorkspacesNext]_wsVars => WorkspacesInv'
  BY WorkspacesTyped, TurnsStayApart, SwitchStaysQuiet DEF WorkspacesInv, TurnsAreKeptOut
<1> QED BY <1>1, <1>2, PTL DEF WorkspacesSpec

(* Every reachable state of the repository's operations is well typed.     *)
THEOREM WorkspacesTypeCorrect == WorkspacesSpec => []WorkspacesTypeOK
BY WorkspacesInvariant, PTL DEF WorkspacesInv

(* No turn runs where a commit, a push, a retirement or a continuation has *)
(* the worktree, nor while MCP servers change, and nothing is in hand while*)
(* the database is copied or closed, over every await between a guard of   *)
(* workspace-operations.ts or service.ts and what follows it.              *)
THEOREM SwitchesKeepTurnsOut == WorkspacesSpec => []TurnsAreKeptOut
BY WorkspacesInvariant, PTL DEF WorkspacesInv

----
(***************************************************************************)
(* The handoff a user approved is the handoff that is made.                *)
(***************************************************************************)

\* A row under way, and one that came to nothing.
Alive == {"awaiting-approval", "executing", "compared", "staged", "committed", "moved"}
Dead == {"rejected", "revoked", "failed"}
HandoffRow ==
  [tree: Trees, decided: {"no", "approved"}, made: Trees, commit: BOOLEAN,
   state: Alive \cup Dead \cup {"complete", "unknown"}]
HandoffHeads == [by: 0..MaxHandoffs, tree: Trees, ahead: 0..2]

\* What a row's own fields owe to its state.
SoundHandoff(row) ==
  /\ row.state \notin Dead \cup {"awaiting-approval"} => row.decided = "approved"
  /\ row.state \in {"committed", "moved", "complete"} => row.commit /\ row.made = row.tree
  /\ row.state \in {"awaiting-approval", "executing", "compared", "staged", "rejected", "revoked"} => ~row.commit

WorktreeAgrees ==
  /\ childHead \in HandoffHeads /\ staged \in Trees /\ work \in Trees /\ childCancelled \in BOOLEAN

\* Only the last row can still become or be the handoff of the child, only the
\* call holds a row that is under way, and a commit at the head is of a row that
\* says a commit was made.
HandoffsInv ==
  /\ WorktreeAgrees
  /\ handoffs \in Seq(HandoffRow) /\ Len(handoffs) <= MaxHandoffs
  /\ \A h \in Rows : SoundHandoff(handoffs[h])
  /\ \A h \in Rows : h < Len(handoffs) => handoffs[h].state \in Dead
  /\ handoffCall # 0 => handoffCall = Len(handoffs) /\ handoffs[handoffCall].state \in Alive
  /\ \A h \in Rows : handoffs[h].state \in Alive => handoffCall = h
  /\ childHead.by <= Len(handoffs)
  /\ childHead.by # 0 => handoffs[childHead.by].commit
  /\ submitted \in 0..Len(handoffs)
  /\ submitted # 0 => handoffs[submitted].state = "complete"
  /\ handoffCall \in 0..Len(handoffs)

\* At first there is no handoff.
LEMMA InitialRows == HandoffsInit => HandoffsInv
<1> SUFFICES ASSUME HandoffsInit PROVE HandoffsInv
  OBVIOUS
<1>1. Base \in Trees
  BY DEF Base, Trees
<1>2. BaseHead \in HandoffHeads /\ BaseHead.by = 0
  BY <1>1, HandoffsAssumption DEF BaseHead, HandoffHeads
<1>3. handoffs \in Seq(HandoffRow) /\ Len(handoffs) = 0
  BY EmptySeq DEF HandoffsInit
<1>4. Rows = {}
  BY <1>3 DEF Rows
<1>5. WorktreeAgrees /\ handoffCall = 0 /\ submitted = 0 /\ childHead.by = 0
  BY <1>1, <1>2 DEF HandoffsInit, WorktreeAgrees
<1> QED
  BY <1>3, <1>4, <1>5, HandoffsAssumption DEF HandoffsInv

\* One row, the last, is rewritten, and the call goes on with it or leaves it.
LEMMA RowStep ==
  ASSUME HandoffsInv, WorktreeAgrees', NEW h \in Rows, h = Len(handoffs), handoffs[h].state # "complete",
         NEW row \in HandoffRow, SoundHandoff(row),
         handoffs' = [handoffs EXCEPT ![h] = row],
         handoffs[h].commit => row.commit,
         \/ handoffCall' = h /\ row.state \in Alive
         \/ handoffCall' = 0 /\ row.state \notin Alive,
         childHead'.by \in {0, childHead.by} \/ (childHead'.by = h /\ row.commit),
         UNCHANGED submitted
  PROVE  HandoffsInv'
<1>1. /\ handoffs' \in Seq(HandoffRow) /\ Len(handoffs') = Len(handoffs)
      /\ \A g \in Rows : handoffs'[g] = IF g = h THEN row ELSE handoffs[g]
  <2>1. handoffs \in Seq(HandoffRow) /\ h \in 1..Len(handoffs)
    BY DEF HandoffsInv, Rows
  <2> QED BY <2>1, ExceptSeq DEF Rows
<1>2. Rows' = Rows /\ Len(handoffs) \in Nat
  BY <1>1, LenProperties DEF Rows, HandoffsInv
<1>3. \A g \in Rows : SoundHandoff(handoffs'[g])
  BY <1>1 DEF HandoffsInv
<1>4. \A g \in Rows : g < Len(handoffs) => handoffs'[g].state \in Dead
  BY <1>1, <1>2 DEF HandoffsInv, Rows
<1>5. \A g \in Rows : handoffs'[g].state \in Alive => handoffCall' = g
  <2> SUFFICES ASSUME NEW g \in Rows, handoffs'[g].state \in Alive PROVE handoffCall' = g
    OBVIOUS
  <2>1. CASE g = h
    BY <1>1, <2>1
  <2>2. CASE g # h
    BY <1>1, <1>2, <1>4, <2>2 DEF Rows, Alive, Dead
  <2> QED BY <2>1, <2>2
<1>6. childHead'.by <= Len(handoffs) /\ (childHead'.by # 0 => handoffs'[childHead'.by].commit)
  BY <1>1, <1>2 DEF HandoffsInv, Rows, WorktreeAgrees, HandoffHeads
<1>7. submitted # 0 => submitted # h /\ handoffs'[submitted].state = "complete"
  BY <1>1, <1>2 DEF HandoffsInv, Rows
<1> QED
  BY <1>1, <1>2, <1>3, <1>4, <1>5, <1>6, <1>7 DEF HandoffsInv, Rows

\* The rows stay as they are, and what is at the head is still accounted for.
LEMMA SameRows ==
  ASSUME HandoffsInv, WorktreeAgrees', UNCHANGED <<handoffs, handoffCall, submitted>>, childHead'.by \in {0, childHead.by}
  PROVE  HandoffsInv'
BY LenProperties DEF HandoffsInv, Rows

\* The fields of a row that a state change leaves alone.
LEMMA NewState ==
  ASSUME HandoffsInv, NEW h \in Rows, NEW state \in Alive \cup Dead \cup {"complete", "unknown"}
  PROVE  /\ handoffs[h] \in HandoffRow
         /\ [handoffs[h] EXCEPT !.state = state] \in HandoffRow
         /\ [handoffs EXCEPT ![h].state = state] = [handoffs EXCEPT ![h] = [handoffs[h] EXCEPT !.state = state]]
<1>1. handoffs[h] \in HandoffRow
  BY ElementOfSeq DEF HandoffsInv, Rows
<1> QED BY <1>1 DEF HandoffRow

\* The call works on the last row.
LEMMA AtWork == ASSUME HandoffsInv, handoffCall # 0
                PROVE  /\ handoffCall \in Rows /\ handoffCall = Len(handoffs)
                       /\ handoffs[handoffCall] \in HandoffRow /\ SoundHandoff(handoffs[handoffCall])
                       /\ childHead.by \in 0..Len(handoffs)
BY LenProperties, ElementOfSeq DEF HandoffsInv, Rows, WorktreeAgrees, HandoffHeads

\* A new row is prepared only when none is under way or complete.
LEMMA Prepared == HandoffsInv /\ PrepareHandoff => HandoffsInv'
<1> SUFFICES ASSUME HandoffsInv, PrepareHandoff PROVE HandoffsInv'
  OBVIOUS
<1> DEFINE row == [tree |-> work, decided |-> "no", made |-> Base, commit |-> FALSE, state |-> "awaiting-approval"]
           n == Len(handoffs) + 1
<1>1. row \in HandoffRow /\ SoundHandoff(row)
  BY DEF HandoffsInv, WorktreeAgrees, HandoffRow, Base, Trees, Alive, Dead, SoundHandoff
<1>2. /\ handoffs' = Append(handoffs, row) /\ handoffCall' = n /\ handoffCall = 0
      /\ UNCHANGED <<childHead, staged, work, submitted, childCancelled>>
  BY DEF PrepareHandoff
<1> HIDE DEF row
<1>0. handoffs \in Seq(HandoffRow) /\ Len(handoffs) \in Nat /\ Len(handoffs) < MaxHandoffs
  BY LenProperties DEF HandoffsInv, PrepareHandoff
<1>3. /\ handoffs' \in Seq(HandoffRow) /\ Len(handoffs') = n
      /\ \A g \in 1..n : handoffs'[g] = IF g = n THEN row ELSE handoffs[g]
  BY <1>0, <1>1, <1>2, AppendProperties
<1>4. \A h \in Rows : handoffs[h].state \in Dead
  <2> SUFFICES ASSUME NEW h \in Rows PROVE handoffs[h].state \in Dead
    OBVIOUS
  <2>1. handoffs[h].state \notin {"complete", "unknown"}
    BY DEF PrepareHandoff
  <2>2. handoffs[h].state \notin Alive
    BY <1>2 DEF HandoffsInv, Rows
  <2>3. handoffs[h] \in HandoffRow
    BY ElementOfSeq DEF HandoffsInv, Rows
  <2> QED BY <2>1, <2>2, <2>3 DEF HandoffRow
<1>5. \A g \in 1..n : SoundHandoff(handoffs'[g]) /\ (g < n => handoffs'[g].state \in Dead)
  <2> SUFFICES ASSUME NEW g \in 1..n PROVE SoundHandoff(handoffs'[g]) /\ (g < n => handoffs'[g].state \in Dead)
    OBVIOUS
  <2>1. CASE g = n
    BY <1>0, <1>1, <1>3, <2>1
  <2>2. CASE g # n
    <3>1. g \in Rows /\ handoffs'[g] = handoffs[g]
      BY <1>0, <1>3, <2>2 DEF Rows
    <3> QED BY <1>4, <3>1 DEF HandoffsInv
  <2> QED BY <2>1, <2>2
<1>6. \A g \in 1..n : handoffs'[g].state \in Alive => g = n
  BY <1>0, <1>5 DEF Alive, Dead
<1>7. handoffs'[n].state \in Alive
  BY <1>0, <1>3 DEF Alive, row
<1>8. childHead.by \in 0..Len(handoffs) /\ (childHead.by # 0 => handoffs'[childHead.by].commit)
  BY <1>0, <1>3 DEF HandoffsInv, WorktreeAgrees, HandoffHeads
<1>9. submitted \in 0..Len(handoffs) /\ (submitted # 0 => handoffs'[submitted].state = "complete")
  BY <1>0, <1>3 DEF HandoffsInv
<1>10. WorktreeAgrees'
  BY <1>2 DEF WorktreeAgrees, HandoffsInv
<1>11. Rows' = 1..n
  BY <1>3 DEF Rows
<1>12. n <= MaxHandoffs /\ n \in Nat \ {0}
  BY <1>0, HandoffsAssumption
<1> QED
  BY <1>0, <1>2, <1>3, <1>5, <1>6, <1>7, <1>8, <1>9, <1>10, <1>11, <1>12 DEF HandoffsInv

\* The call's row changes its state and nothing else.
LEMMA StateStep ==
  ASSUME HandoffsInv, WorktreeAgrees', handoffCall # 0, NEW state \in Alive \cup Dead \cup {"complete", "unknown"},
         Row(handoffCall, state), UNCHANGED submitted,
         SoundHandoff([handoffs[handoffCall] EXCEPT !.state = state]),
         \/ UNCHANGED handoffCall /\ state \in Alive
         \/ LeaveHandoff /\ state \notin Alive,
         \/ childHead'.by \in {0, childHead.by}
         \/ childHead'.by = handoffCall /\ handoffs[handoffCall].commit
  PROVE  HandoffsInv'
<1> DEFINE row == [handoffs[handoffCall] EXCEPT !.state = state]
<1>1. handoffCall \in Rows /\ handoffCall = Len(handoffs)
  BY AtWork
<1>2. row \in HandoffRow /\ handoffs' = [handoffs EXCEPT ![handoffCall] = row]
  BY <1>1, NewState DEF Row
<1>3. row.commit = handoffs[handoffCall].commit /\ row.state = state /\ handoffs[handoffCall].state # "complete"
  BY <1>1, AtWork DEF HandoffsInv, Alive, HandoffRow
<1> HIDE DEF row
<1>4. SoundHandoff(row)
  BY DEF row
<1> QED
  BY <1>1, <1>2, <1>3, <1>4, RowStep DEF LeaveHandoff

\* The steps of the call, from the decision to the record.
LEMMA CallSteps ==
  HandoffsInv /\ (DeclineHandoff \/ ExecuteHandoff \/ StageHandoff \/ WriteTree \/ CommitTree \/ UpdateRef \/ Complete) => HandoffsInv'
<1> SUFFICES ASSUME HandoffsInv PROVE DeclineHandoff \/ ExecuteHandoff \/ StageHandoff \/ WriteTree \/ CommitTree \/ UpdateRef \/ Complete => HandoffsInv'
  OBVIOUS
<1> DEFINE h == handoffCall
           New(state) == [handoffs[h] EXCEPT !.state = state]
<1>0. WorktreeAgrees
  BY DEF HandoffsInv
<1>1. ASSUME DeclineHandoff PROVE HandoffsInv'
  <2>1. WorktreeAgrees' /\ childHead'.by = childHead.by /\ handoffCall # 0
    BY <1>0, <1>1 DEF DeclineHandoff, WorktreeAgrees, Working
  <2>2. PICK state \in {"rejected", "revoked"} : Row(h, state)
    BY <1>1 DEF DeclineHandoff
  <2>3. SoundHandoff(New(state))
    BY <1>1, <2>1, AtWork DEF DeclineHandoff, Working, SoundHandoff, HandoffRow, Dead
  <2> QED BY <1>1, <2>1, <2>2, <2>3, StateStep DEF DeclineHandoff, Dead, Alive
<1>2. ASSUME ExecuteHandoff PROVE HandoffsInv'
  <2>1. WorktreeAgrees' /\ childHead'.by = childHead.by /\ handoffCall # 0 /\ handoffs[h].state = "awaiting-approval"
    BY <1>0, <1>2 DEF ExecuteHandoff, WorktreeAgrees, Working
  <2>2. CASE childCancelled
    <3>1. SoundHandoff(New("revoked"))
      BY <2>1, AtWork DEF SoundHandoff, HandoffRow, Dead
    <3> QED BY <1>2, <2>1, <2>2, <3>1, StateStep DEF ExecuteHandoff, Dead, Alive
  <2>3. CASE ~childCancelled
    <3> DEFINE row == [handoffs[h] EXCEPT !.state = "executing", !.decided = "approved"]
    <3>1. row \in HandoffRow /\ SoundHandoff(row) /\ handoffs' = [handoffs EXCEPT ![h] = row] /\ row.state \in Alive
      BY <1>2, <2>1, <2>3, AtWork DEF ExecuteHandoff, SoundHandoff, HandoffRow, Dead, Alive
    <3>2. row.commit = handoffs[h].commit
      BY <2>1, AtWork DEF HandoffRow
    <3> HIDE DEF row
    <3> QED BY <1>2, <2>1, <2>3, <3>1, <3>2, AtWork, RowStep DEF ExecuteHandoff
  <2> QED BY <2>2, <2>3
<1>3. ASSUME StageHandoff PROVE HandoffsInv'
  <2> DEFINE new == [p \in Paths |-> IF p \in Changed(handoffs[h].tree) THEN work[p] ELSE staged[p]]
  <2>1. new \in Trees
    BY <1>0 DEF WorktreeAgrees, Trees
  <2>2. /\ WorktreeAgrees' /\ childHead'.by = childHead.by /\ handoffCall # 0 /\ handoffs[h].state = "executing"
        /\ staged' = new
    BY <1>0, <1>3, <2>1 DEF StageHandoff, WorktreeAgrees, Working
  <2> HIDE DEF new
  <2>3. CASE SameEffect(new, handoffs[h].tree)
    <3>1. SoundHandoff(New("compared"))
      BY <2>2, AtWork DEF SoundHandoff, HandoffRow, Dead
    <3>2. Row(h, "compared") /\ UNCHANGED <<handoffCall, submitted>>
      BY <1>3, <2>3 DEF StageHandoff, new
    <3> QED BY <2>2, <3>1, <3>2, StateStep DEF Dead, Alive
  <2>4. CASE ~SameEffect(new, handoffs[h].tree)
    <3>1. SoundHandoff(New("unknown"))
      BY <2>2, AtWork DEF SoundHandoff, HandoffRow, Dead
    <3>2. Row(h, "unknown") /\ LeaveHandoff /\ UNCHANGED submitted
      BY <1>3, <2>4 DEF StageHandoff, new
    <3> QED BY <2>2, <3>1, <3>2, StateStep DEF Dead, Alive
  <2> QED BY <2>3, <2>4
<1>7. ASSUME WriteTree PROVE HandoffsInv'
  <2> DEFINE row == [handoffs[h] EXCEPT !.state = "staged", !.made = staged]
  <2>1. WorktreeAgrees' /\ childHead'.by = childHead.by /\ handoffCall # 0 /\ handoffs[h].state = "compared"
    BY <1>0, <1>7 DEF WriteTree, WorktreeAgrees, Working
  <2>2. handoffs' = [handoffs EXCEPT ![h] = row] /\ UNCHANGED <<handoffCall, submitted>>
    BY <1>7, <2>1, AtWork DEF WriteTree, HandoffRow
  <2>3. row \in HandoffRow /\ SoundHandoff(row) /\ row.state \in Alive /\ row.commit = handoffs[h].commit
    BY <1>0, <2>1, AtWork DEF WorktreeAgrees, SoundHandoff, HandoffRow, Dead, Alive
  <2> HIDE DEF row
  <2> QED BY <2>1, <2>2, <2>3, AtWork, RowStep
<1>4. ASSUME CommitTree PROVE HandoffsInv'
  <2>1. WorktreeAgrees' /\ childHead'.by = childHead.by /\ handoffCall # 0 /\ handoffs[h].state = "staged"
    BY <1>0, <1>4 DEF CommitTree, WorktreeAgrees, Working
  <2>2. CASE SameEffect(handoffs[h].made, handoffs[h].tree)
    <3> DEFINE row == [handoffs[h] EXCEPT !.state = "committed", !.commit = TRUE]
    <3>1. row \in HandoffRow /\ SoundHandoff(row) /\ row.state \in Alive /\ row.commit
      BY <2>1, <2>2, AtWork DEF SoundHandoff, HandoffRow, Dead, Alive, SameEffect
    <3>2. handoffs' = [handoffs EXCEPT ![h] = row] /\ UNCHANGED <<handoffCall, submitted>>
      BY <1>4, <2>1, <2>2, AtWork DEF CommitTree, HandoffRow
    <3> HIDE DEF row
    <3> QED BY <2>1, <3>1, <3>2, AtWork, RowStep
  <2>3. CASE ~SameEffect(handoffs[h].made, handoffs[h].tree)
    <3>1. SoundHandoff(New("unknown"))
      BY <2>1, AtWork DEF SoundHandoff, HandoffRow, Dead
    <3> QED BY <1>4, <2>1, <2>3, <3>1, StateStep DEF CommitTree, Dead, Alive
  <2> QED BY <2>2, <2>3
<1>5. ASSUME UpdateRef PROVE HandoffsInv'
  <2>1. handoffCall # 0 /\ handoffs[h].state = "committed" /\ handoffs[h].commit
    BY <1>5, AtWork DEF UpdateRef, Working, SoundHandoff
  <2>2. SoundHandoff(New("unknown")) /\ SoundHandoff(New("moved"))
    BY <2>1, AtWork DEF SoundHandoff, HandoffRow, Dead
  <2>3. Made(h) \in HandoffHeads /\ Made(h).by = h
    BY <2>1, AtWork DEF Made, HandoffHeads, HandoffRow, HandoffsInv
  <2>4. CASE childHead = BaseHead
    BY <1>0, <1>5, <2>1, <2>2, <2>3, <2>4, StateStep DEF UpdateRef, WorktreeAgrees, Dead, Alive
  <2>5. CASE childHead # BaseHead
    BY <1>0, <1>5, <2>1, <2>2, <2>5, StateStep DEF UpdateRef, WorktreeAgrees, Dead, Alive
  <2> QED BY <2>4, <2>5
<1>6. ASSUME Complete PROVE HandoffsInv'
  <2>1. WorktreeAgrees' /\ childHead'.by = childHead.by /\ handoffCall # 0 /\ handoffs[h].state = "moved"
    BY <1>0, <1>6 DEF Complete, WorktreeAgrees, Working
  <2>2. SoundHandoff(New("unknown")) /\ SoundHandoff(New("complete"))
    BY <2>1, AtWork DEF SoundHandoff, HandoffRow, Dead
  <2>3. PICK state \in {"complete", "unknown"} : Row(h, state)
    BY <1>6 DEF Complete
  <2> QED BY <1>6, <2>1, <2>2, <2>3, StateStep DEF Complete, Dead, Alive
<1> QED BY <1>1, <1>2, <1>3, <1>4, <1>5, <1>6, <1>7

\* Git fails.
LEMMA FailureStep == HandoffsInv /\ GitFails => HandoffsInv'
<1> SUFFICES ASSUME HandoffsInv, GitFails PROVE HandoffsInv'
  OBVIOUS
<1> DEFINE New(state) == [handoffs[handoffCall] EXCEPT !.state = state]
<1>1. handoffCall # 0 /\ LeaveHandoff /\ UNCHANGED submitted
  BY DEF GitFails
<1>2. handoffs[handoffCall].state \in {"executing", "compared", "staged", "committed", "moved"}
  BY DEF GitFails
<1>3. SoundHandoff(New("failed")) /\ SoundHandoff(New("unknown"))
  BY <1>1, <1>2, AtWork DEF SoundHandoff, HandoffRow, Dead
<1>4. Made(handoffCall) \in HandoffHeads /\ Made(handoffCall).by = handoffCall
  BY <1>1, AtWork DEF Made, HandoffHeads, HandoffRow, HandoffsInv
<1>5. WorktreeAgrees'
  BY <1>4 DEF GitFails, HandoffsInv, WorktreeAgrees
<1>6. PICK state \in {"failed", "unknown"} : Row(handoffCall, state)
  BY DEF GitFails
<1>7. \/ childHead'.by = childHead.by
      \/ childHead'.by = handoffCall /\ handoffs[handoffCall].commit
  <2>1. CASE childHead' = childHead
    BY <2>1
  <2>2. CASE childHead' # childHead
    <3>1. handoffs[handoffCall].state = "committed" /\ childHead' = Made(handoffCall)
      BY <2>2 DEF GitFails
    <3> QED BY <1>1, <1>4, <3>1, AtWork DEF SoundHandoff
  <2> QED BY <2>1, <2>2
<1> QED
  BY <1>1, <1>3, <1>5, <1>6, <1>7, StateStep DEF Dead, Alive

\* An outcome is looked up after a restart.
LEMMA Reconciled == ASSUME HandoffsInv, NEW h \in Rows, ReconcileHandoff(h) PROVE HandoffsInv'
<1>1. handoffs[h].state = "unknown" /\ WorktreeAgrees' /\ childHead'.by = childHead.by /\ UNCHANGED <<handoffCall, submitted>>
  BY DEF ReconcileHandoff, HandoffsInv, WorktreeAgrees
<1>2. h = Len(handoffs) /\ handoffCall = 0
  BY <1>1, LenProperties DEF HandoffsInv, Rows, Dead, Alive
<1>3. handoffs[h] \in HandoffRow /\ SoundHandoff(handoffs[h])
  BY ElementOfSeq DEF HandoffsInv, Rows
<1>4. CASE Row(h, "failed")
  <2> DEFINE row == [handoffs[h] EXCEPT !.state = "failed"]
  <2>1. row \in HandoffRow /\ handoffs' = [handoffs EXCEPT ![h] = row]
    BY <1>4, NewState DEF Row, Dead
  <2>2. SoundHandoff(row) /\ row.commit = handoffs[h].commit /\ row.state = "failed"
    BY <1>1, <1>3 DEF SoundHandoff, HandoffRow, Dead
  <2> HIDE DEF row
  <2> QED BY <1>1, <1>2, <2>1, <2>2, RowStep DEF Alive
<1>5. CASE ~Row(h, "failed")
  <2> DEFINE row == [handoffs[h] EXCEPT !.state = "complete", !.made = childHead.tree, !.commit = TRUE]
  <2>1. handoffs' = [handoffs EXCEPT ![h] = row] /\ SameEffect(childHead.tree, handoffs[h].tree)
    BY <1>3, <1>5 DEF ReconcileHandoff, HandoffRow
  <2>2. row \in HandoffRow /\ SoundHandoff(row) /\ row.commit /\ row.state = "complete"
    BY <1>1, <1>3, <2>1 DEF SoundHandoff, HandoffRow, Dead, SameEffect
  <2> HIDE DEF row
  <2> QED BY <1>1, <1>2, <2>1, <2>2, RowStep DEF Alive
<1> QED BY <1>4, <1>5

\* The process dies.
LEMMA Crashed == HandoffsInv /\ CrashHandoff => HandoffsInv'
<1> SUFFICES ASSUME HandoffsInv, CrashHandoff PROVE HandoffsInv'
  OBVIOUS
<1> DEFINE New(h) == [handoffs[h] EXCEPT !.state = RecoveredHandoff(@)]
<1>1. Len(handoffs) \in Nat /\ \A h \in Rows : handoffs[h] \in HandoffRow
  BY LenProperties, ElementOfSeq DEF HandoffsInv, Rows
<1>2. \A h \in Rows : New(h) \in HandoffRow
  BY <1>1 DEF HandoffRow, RecoveredHandoff, Alive, Dead
<1>3. \A h \in Rows : /\ SoundHandoff(New(h)) /\ New(h).state \notin Alive /\ New(h).commit = handoffs[h].commit
                      /\ handoffs[h].state \in Dead => New(h).state \in Dead
                      /\ handoffs[h].state = "complete" => New(h).state = "complete"
  BY <1>1 DEF HandoffsInv, HandoffRow, RecoveredHandoff, Alive, Dead, SoundHandoff
<1>4. handoffs' = [h \in 1..Len(handoffs) |-> New(h)]
  BY DEF CrashHandoff, Rows
<1> HIDE DEF New
<1>5. handoffs' \in [1..Len(handoffs) -> HandoffRow]
  BY <1>2, <1>4 DEF Rows
<1>6. handoffs' \in Seq(HandoffRow) /\ Len(handoffs') = Len(handoffs)
  BY <1>1, <1>5, SeqDef
<1>7. Rows' = Rows /\ \A h \in Rows : handoffs'[h] = New(h)
  BY <1>4, <1>6 DEF Rows
<1>8. handoffCall' = 0 /\ UNCHANGED <<childHead, staged, work, submitted, childCancelled>>
  BY DEF CrashHandoff, LeaveHandoff
<1>9. WorktreeAgrees' /\ childHead.by \in Nat
  BY <1>8, HandoffsAssumption DEF HandoffsInv, WorktreeAgrees, HandoffHeads
<1>10. /\ childHead.by # 0 => handoffs'[childHead.by].commit
       /\ submitted # 0 => handoffs'[submitted].state = "complete"
  BY <1>1, <1>3, <1>7, <1>9 DEF HandoffsInv, Rows
<1> QED
  BY <1>1, <1>3, <1>6, <1>7, <1>8, <1>9, <1>10 DEF HandoffsInv

\* The steps that leave the rows alone.
LEMMA OtherSteps ==
  ASSUME HandoffsInv, EditChild \/ CancelChild \/ (\E h \in Rows : SubmitHandoff(h)) \/ UNCHANGED hoVars
  PROVE  HandoffsInv'
<1>1. CASE EditChild
  <2>1. WorktreeAgrees'
    BY <1>1, HandoffsAssumption DEF EditChild, HandoffsInv, WorktreeAgrees, HandoffHeads, Trees, BaseHead, Base
  <2>2. childHead'.by \in {0, childHead.by} /\ UNCHANGED <<handoffs, handoffCall, submitted>>
    BY <1>1 DEF EditChild, BaseHead
  <2> QED BY <2>1, <2>2, SameRows
<1>2. CASE CancelChild
  BY <1>2, SameRows DEF CancelChild, HandoffsInv, WorktreeAgrees
<1>3. ASSUME NEW h \in Rows, SubmitHandoff(h) PROVE HandoffsInv'
  <2>1. submitted' = h /\ handoffs[h].state = "complete" /\ h \in 0..Len(handoffs)
    BY <1>3 DEF SubmitHandoff, Rows
  <2> QED BY <1>3, <2>1 DEF SubmitHandoff, HandoffsInv, WorktreeAgrees, Rows
<1>4. CASE UNCHANGED hoVars
  BY <1>4, SameRows DEF hoVars, HandoffsInv, WorktreeAgrees
<1> QED BY <1>1, <1>2, <1>3, <1>4

\* So every step keeps it.
LEMMA HandoffsStep == HandoffsInv /\ [HandoffsNext]_hoVars => HandoffsInv'
BY Prepared, CallSteps, FailureStep, Reconciled, Crashed, OtherSteps DEF HandoffsNext

\* What was made is then what was approved.
LEMMA RowsAsApproved == HandoffsInv => HandoffIsAsApproved
<1> SUFFICES ASSUME HandoffsInv PROVE HandoffIsAsApproved
  OBVIOUS
<1>1. Len(handoffs) \in Nat
  BY LenProperties DEF HandoffsInv
<1>2. \A g, h \in Rows : handoffs[h].state = "complete" /\ g # h => handoffs[g].state # "complete"
  BY <1>1 DEF HandoffsInv, Rows, Dead
<1>3. \A h \in Rows : handoffs[h].state = "complete" =>
        handoffs[h].decided = "approved" /\ handoffs[h].commit /\ handoffs[h].made = handoffs[h].tree
  BY DEF HandoffsInv, SoundHandoff, Dead
<1>4. \A h \in Rows : handoffs[h].state \in {"rejected", "revoked"} => ~handoffs[h].commit /\ childHead.by # h
  BY <1>1 DEF HandoffsInv, SoundHandoff, Rows
<1> QED BY <1>2, <1>3, <1>4 DEF HandoffsInv, HandoffIsAsApproved

(* Whatever is edited, cancelled, lost or checked again, the handoff of a  *)
(* child is exactly what its user approved, and there is one of it.        *)
THEOREM HandoffsAreAsApproved == HandoffsSpec => []HandoffIsAsApproved
<1>1. HandoffsInit => HandoffsInv
  BY InitialRows
<1>2. HandoffsInv /\ [HandoffsNext]_hoVars => HandoffsInv'
  BY HandoffsStep
<1>3. HandoffsInv => HandoffIsAsApproved
  BY RowsAsApproved
<1> QED BY <1>1, <1>2, <1>3, PTL DEF HandoffsSpec

----
(***************************************************************************)
(* Starts of tasks: each makes one task, and says what became of it.       *)
(***************************************************************************)

\* The specification of the starts.
StartsSpec == StartsInit /\ [][StartsNext]_tsVars

\* The types of a start, of a task that was given an id, and of a call.
StartStates == {"none", "pending", "failed", "complete", "unknown"}
StartRows == [state: StartStates, settings: Settings \cup {"none"}, task: 0..MaxStartedTasks]
TaskRows == [owner: Callers, mode: {"chat", "coding", "coordinated"}, saved: BOOLEAN, worktree: BOOLEAN,
             intent: {"none", "pending", "complete", "unknown"}, sent: 0..2, other: BOOLEAN]
CallRows == [step: {"idle"} \cup Waiting \cup Synchronous, settings: Settings \cup {"none"}, task: Nat]
StartsTyped ==
  /\ starts \in [Requests -> StartRows] /\ calls \in [Callers -> CallRows]
  /\ made \in Seq(TaskRows) /\ Len(made) <= MaxStartedTasks

\* A task's worktree that nobody owns is under an intent that says so.
WorktreesAccounted == \A t \in 1..Len(made) : made[t].worktree /\ ~made[t].saved => made[t].intent \in {"pending", "unknown"}

\* What a call works on: its task, as far as the call has come, under a start that
\* is pending until the call ends.
CallWorks == {"creating", "created", "saving", "sending", "resending", "resuming"}
CallAccounted(c) ==
  /\ calls[c].task \in 0..Len(made)
  /\ calls[c].step = "admitting" => c \in Requests /\ starts[c].state = "none" /\ calls[c].settings \in Settings
  /\ calls[c].step \in CallWorks =>
       /\ calls[c].task \in 1..Len(made) /\ made[calls[c].task].owner = c /\ made[calls[c].task].sent = 0
       /\ c \in Requests => starts[c].state = "pending" /\ starts[c].task = calls[c].task
       /\ calls[c].step \in {"creating", "created"} =>
            ~made[calls[c].task].saved /\ made[calls[c].task].intent = "pending"
       /\ calls[c].step = "creating" => ~made[calls[c].task].worktree
       /\ calls[c].step = "saving" => ~made[calls[c].task].saved /\ ~made[calls[c].task].worktree
       /\ calls[c].step \in {"sending", "resending", "resuming"} => made[calls[c].task].saved
       /\ calls[c].step \in {"saving", "sending", "resending", "resuming"} => c \in Requests

\* What a start says of the one task it may have made.
StartAccounted(r) ==
  /\ starts[r].state # "none" => starts[r].task \in 1..Len(made) /\ made[starts[r].task].owner = r
  /\ starts[r].state = "pending" => calls[r].step \in CallWorks
  /\ \A t \in 1..Len(made) : made[t].owner = r =>
       /\ made[t].sent <= 1
       /\ t # starts[r].task \/ starts[r].state = "none" => ~made[t].saved /\ made[t].sent = 0
  /\ starts[r].state \in {"failed", "complete"} => made[starts[r].task].saved
  /\ starts[r].state = "complete" => made[starts[r].task].sent = 1 \/ made[starts[r].task].other

\* The inductive invariant of the starts.
StartsInv ==
  /\ StartsTyped /\ WorktreesAccounted
  /\ \A c \in Callers : CallAccounted(c)
  /\ \A r \in Requests : StartAccounted(r)

\* StartsInv holds when the runtime first opens its store.
LEMMA StartsBegin == StartsInit => StartsInv
<1> SUFFICES ASSUME StartsInit PROVE StartsInv
  OBVIOUS
<1>1. StartsTyped
  BY StartsAssumption DEF StartsInit, StartsTyped, StartRows, CallRows, NoStart, Idle, StartStates
<1>2. Len(made) = 0
  BY DEF StartsInit
<1> QED BY <1>1, <1>2 DEF StartsInit, StartsInv, WorktreesAccounted, CallAccounted, StartAccounted, NoStart, Idle, CallWorks

\* What StartsInv says of one caller.
LEMMA CallerFacts ==
  ASSUME StartsInv, NEW c \in Callers
  PROVE  /\ calls[c] \in CallRows /\ CallAccounted(c)
         /\ c \in Requests => StartAccounted(c) /\ starts[c] \in StartRows
         /\ c \notin Requests => c = TaskCreate
         /\ calls[c].step \in CallWorks => made[calls[c].task] \in TaskRows /\ calls[c].task \in 1..Len(made)
BY DEF StartsInv, StartsTyped, CallAccounted, Callers

\* A step of one caller leaves the accounts of the others alone.
LEMMA OthersKept ==
  ASSUME StartsInv, NEW d \in Callers, calls'[d] = calls[d], d \in Requests => starts'[d] = starts[d],
         made' \in Seq(TaskRows), Len(made) <= Len(made'),
         \A t \in 1..Len(made) : made[t].owner = d => made'[t] = made[t],
         \A t \in 1..Len(made') : made'[t].owner = d => t \in 1..Len(made) /\ made[t].owner = d
  PROVE  CallAccounted(d)' /\ (d \in Requests => StartAccounted(d)')
<1>1. CallAccounted(d) /\ (d \in Requests => StartAccounted(d))
  BY CallerFacts
<1>2. Len(made) \in Nat /\ Len(made') \in Nat
  BY DEF StartsInv, StartsTyped
<1>3. \A t \in 1..Len(made) : t \in 1..Len(made')
  BY <1>2
<1>4. CallAccounted(d)'
  BY <1>1, <1>3 DEF CallAccounted
<1>5. ASSUME d \in Requests PROVE StartAccounted(d)'
  BY <1>1, <1>3, <1>5 DEF StartAccounted
<1> QED BY <1>4, <1>5

\* A step of caller c on its own task t.
LEMMA OwnStep ==
  ASSUME StartsInv, NEW c \in Callers, NEW t \in 1..Len(made), made[t].owner = c,
         NEW row \in TaskRows, row.owner = c, made' = [made EXCEPT ![t] = row],
         row.worktree /\ ~row.saved => row.intent \in {"pending", "unknown"},
         NEW call \in CallRows, calls' = [calls EXCEPT ![c] = call],
         NEW start \in StartRows, starts' = IF c = TaskCreate THEN starts ELSE [starts EXCEPT ![c] = start],
         CallAccounted(c)', c \in Requests => StartAccounted(c)'
  PROVE  StartsInv'
<1>t. /\ made \in Seq(TaskRows) /\ calls \in [Callers -> CallRows] /\ starts \in [Requests -> StartRows]
      /\ Len(made) <= MaxStartedTasks
  BY DEF StartsInv, StartsTyped
<1>1. /\ made' \in Seq(TaskRows) /\ Len(made') = Len(made)
      /\ \A s \in 1..Len(made) : made'[s] = IF s = t THEN row ELSE made[s]
  BY <1>t
<1>2. starts' \in [Requests -> StartRows] /\ \A d \in Requests : d # c => starts'[d] = starts[d]
  BY <1>t DEF Callers
<1>3. calls' \in [Callers -> CallRows] /\ \A d \in Callers : d # c => calls'[d] = calls[d]
  BY <1>t
<1>4. WorktreesAccounted'
  BY <1>1 DEF WorktreesAccounted, StartsInv
<1>5. ASSUME NEW d \in Callers, d # c PROVE CallAccounted(d)' /\ (d \in Requests => StartAccounted(d)')
  <2>1. Len(made) <= Len(made')
    BY <1>1, <1>t
  <2>2. \A s \in 1..Len(made) : made[s].owner = d => made'[s] = made[s]
    BY <1>1, <1>5
  <2>3. \A s \in 1..Len(made') : made'[s].owner = d => s \in 1..Len(made) /\ made[s].owner = d
    BY <1>1, <1>5
  <2> QED BY <1>1, <1>2, <1>3, <1>5, <2>1, <2>2, <2>3, OthersKept
<1>6. \A d \in Callers : CallAccounted(d)'
  BY <1>5
<1>7. \A r \in Requests : StartAccounted(r)'
  BY <1>5 DEF Callers
<1> QED BY <1>t, <1>1, <1>2, <1>3, <1>4, <1>6, <1>7 DEF StartsInv, StartsTyped

\* A step of caller c that changes no task.
LEMMA QuietStep ==
  ASSUME StartsInv, NEW c \in Callers, UNCHANGED made,
         NEW call \in CallRows, calls' = [calls EXCEPT ![c] = call],
         NEW start \in StartRows, starts' = IF c = TaskCreate THEN starts ELSE [starts EXCEPT ![c] = start],
         CallAccounted(c)', c \in Requests => StartAccounted(c)'
  PROVE  StartsInv'
<1>t. /\ made \in Seq(TaskRows) /\ calls \in [Callers -> CallRows] /\ starts \in [Requests -> StartRows]
      /\ Len(made) <= MaxStartedTasks /\ Len(made) \in Nat
  BY DEF StartsInv, StartsTyped
<1>2. starts' \in [Requests -> StartRows] /\ \A d \in Requests : d # c => starts'[d] = starts[d]
  BY <1>t DEF Callers
<1>3. calls' \in [Callers -> CallRows] /\ \A d \in Callers : d # c => calls'[d] = calls[d]
  BY <1>t
<1>4. WorktreesAccounted'
  BY DEF WorktreesAccounted, StartsInv
<1>5. ASSUME NEW d \in Callers, d # c PROVE CallAccounted(d)' /\ (d \in Requests => StartAccounted(d)')
  BY <1>t, <1>2, <1>3, <1>5, OthersKept
<1>6. \A d \in Callers : CallAccounted(d)'
  BY <1>5
<1>7. \A r \in Requests : StartAccounted(r)'
  BY <1>5 DEF Callers
<1> QED BY <1>t, <1>2, <1>3, <1>4, <1>6, <1>7 DEF StartsInv, StartsTyped

\* A new task of caller c.
LEMMA NewTaskStep ==
  ASSUME StartsInv, NEW c \in Callers, NEW mode \in {"chat", "coding", "coordinated"}, Len(made) < MaxStartedTasks,
         made' = NewTask(c, mode),
         NEW call \in CallRows, calls' = [calls EXCEPT ![c] = call],
         NEW start \in StartRows, starts' = IF c = TaskCreate THEN starts ELSE [starts EXCEPT ![c] = start],
         CallAccounted(c)', c \in Requests => StartAccounted(c)'
  PROVE  StartsInv'
<1>t. /\ made \in Seq(TaskRows) /\ calls \in [Callers -> CallRows] /\ starts \in [Requests -> StartRows]
      /\ Len(made) <= MaxStartedTasks /\ Len(made) \in Nat
  BY DEF StartsInv, StartsTyped
<1> DEFINE row == [owner |-> c, mode |-> mode, saved |-> FALSE, worktree |-> FALSE,
                   intent |-> IF mode = "chat" THEN "none" ELSE "pending", sent |-> 0, other |-> FALSE]
<1>r. row \in TaskRows /\ row.owner = c /\ ~row.worktree /\ made' = Append(made, row)
  BY DEF TaskRows, NewTask
<1> HIDE DEF row
<1>1. /\ made' \in Seq(TaskRows) /\ Len(made') = Len(made) + 1
      /\ \A s \in 1..Len(made') : made'[s] = IF s = Len(made) + 1 THEN row ELSE made[s]
  BY <1>t, <1>r
<1>2. starts' \in [Requests -> StartRows] /\ \A d \in Requests : d # c => starts'[d] = starts[d]
  BY <1>t DEF Callers
<1>3. calls' \in [Callers -> CallRows] /\ \A d \in Callers : d # c => calls'[d] = calls[d]
  BY <1>t
<1>4. WorktreesAccounted'
  BY <1>t, <1>r, <1>1 DEF WorktreesAccounted, StartsInv
<1>5. ASSUME NEW d \in Callers, d # c PROVE CallAccounted(d)' /\ (d \in Requests => StartAccounted(d)')
  <2>1. Len(made) <= Len(made')
    BY <1>1, <1>t
  <2>2. \A s \in 1..Len(made) : made[s].owner = d => made'[s] = made[s]
    BY <1>1, <1>t
  <2>3. \A s \in 1..Len(made') : made'[s].owner = d => s \in 1..Len(made) /\ made[s].owner = d
    BY <1>1, <1>t, <1>r, <1>5
  <2> QED BY <1>1, <1>2, <1>3, <1>5, <2>1, <2>2, <2>3, OthersKept
<1>6. \A d \in Callers : CallAccounted(d)'
  BY <1>5
<1>7. \A r \in Requests : StartAccounted(r)'
  BY <1>5 DEF Callers
<1>8. Len(made') <= MaxStartedTasks
  BY <1>t, <1>1, StartsAssumption
<1> QED BY <1>1, <1>2, <1>3, <1>4, <1>6, <1>7, <1>8 DEF StartsInv, StartsTyped

\* Begin, Refuse and Retry reserve nothing.
LEMMA AdmissionKeeps ==
  ASSUME StartsInv, NEW r \in Requests, Refuse(r) \/ Retry(r) \/ \E h \in Settings : Begin(r, h)
  PROVE  StartsInv'
<1>c. r \in Callers /\ r # TaskCreate /\ made' = made /\ Len(made) \in Nat
  BY StartsAssumption DEF Callers, Refuse, Retry, Begin, StartsInv, StartsTyped
<1>i. calls[r] \in CallRows /\ CallAccounted(r) /\ StartAccounted(r) /\ starts[r] \in StartRows
  BY <1>c, CallerFacts
<1>t. r \in DOMAIN starts /\ r \in DOMAIN calls /\ starts = [starts EXCEPT ![r] = starts[r]]
  BY <1>c DEF StartsInv, StartsTyped
<1>1. CASE Refuse(r)
  <2>1. Idle \in CallRows
    BY DEF Idle, CallRows
  <2>2. calls' = [calls EXCEPT ![r] = Idle] /\ calls'[r] = Idle /\ starts' = starts
    BY <1>1, <1>t DEF Refuse, Leave
  <2>3. CallAccounted(r)' /\ StartAccounted(r)'
    BY <1>1, <1>c, <1>i, <2>2 DEF CallAccounted, StartAccounted, Idle, CallWorks, Refuse
  <2> QED BY <1>c, <1>i, <1>t, <2>1, <2>2, <2>3, QuietStep
<1>2. ASSUME NEW h \in Settings, Begin(r, h) PROVE StartsInv'
  <2> DEFINE call == [step |-> "admitting", settings |-> h, task |-> 0]
  <2>1. call \in CallRows
    BY DEF CallRows, Waiting
  <2>2. calls' = [calls EXCEPT ![r] = call] /\ calls'[r] = call /\ starts' = starts
    BY <1>2, <1>t DEF Begin
  <2>3. CallAccounted(r)' /\ StartAccounted(r)'
    BY <1>2, <1>c, <1>i, <2>2 DEF CallAccounted, StartAccounted, CallWorks, Begin
  <2> HIDE DEF call
  <2> QED BY <1>c, <1>i, <1>t, <2>1, <2>2, <2>3, QuietStep
<1>3. CASE Retry(r)
  <2> DEFINE t == starts[r].task
  <2>9. t \in 1..Len(made) /\ made[t].saved /\ made[t].owner = r /\ made[t].sent <= 1
    BY <1>3, <1>i DEF Retry, StartAccounted
  <2>8. made[t] \in TaskRows
    BY <2>9 DEF StartsInv, StartsTyped
  <2>0. t \in 1..Len(made) /\ made[t].saved /\ made[t].owner = r /\ made[t].sent \in 0..1
    BY <2>8, <2>9 DEF TaskRows
  <2>1. CASE made[t].sent > 0 \/ made[t].other
    <3> DEFINE start == [starts[r] EXCEPT !.state = "complete"]
    <3>1. start \in StartRows
      BY <1>i DEF StartRows, StartStates
    <3>2. starts' = [starts EXCEPT ![r] = start] /\ calls' = [calls EXCEPT ![r] = calls[r]]
      BY <1>3, <2>1, <1>c, <1>t DEF Retry, Finished, StartsInv, StartsTyped
    <3>3. starts'[r] = start /\ calls'[r] = calls[r] /\ start.state = "complete" /\ start.task = t
      BY <3>2, <1>t, <1>i DEF StartRows
    <3>4. CallAccounted(r)'
      BY <1>3, <3>3, <1>c, <1>i DEF CallAccounted, Retry, Idle, CallWorks
    <3>5. StartAccounted(r)'
      BY <1>3, <3>3, <1>c, <1>i, <2>0, <2>1 DEF StartAccounted, Retry
    <3> HIDE DEF start
    <3> QED BY <1>c, <1>i, <3>1, <3>2, <3>4, <3>5, QuietStep
  <2>2. CASE ~(made[t].sent > 0 \/ made[t].other)
    <3> DEFINE start == [starts[r] EXCEPT !.state = "pending"]
               call == [step |-> "resending", settings |-> starts[r].settings, task |-> t]
    <3>1. start \in StartRows /\ call \in CallRows
      BY <1>i, <2>0, <1>c DEF StartRows, StartStates, CallRows, Synchronous
    <3>2. starts' = [starts EXCEPT ![r] = start] /\ calls' = [calls EXCEPT ![r] = call]
      BY <1>3, <2>2, <1>c, <1>t DEF Retry, Finished, StartsInv, StartsTyped
    <3>3. starts'[r] = start /\ calls'[r] = call /\ start.state = "pending" /\ start.task = t /\ made[t].sent = 0
      BY <3>2, <1>t, <1>i, <2>0, <2>2 DEF StartRows
    <3>4. CallAccounted(r)'
      BY <3>3, <1>c, <1>i, <2>0, <2>2 DEF CallAccounted, CallWorks
    <3>5. StartAccounted(r)'
      BY <1>3, <3>3, <1>c, <1>i, <2>0 DEF StartAccounted, Retry, CallWorks
    <3> HIDE DEF start, call
    <3> QED BY <1>c, <1>i, <3>1, <3>2, <3>4, <3>5, QuietStep
  <2> QED BY <2>1, <2>2
<1> QED BY <1>1, <1>2, <1>3

\* A reservation, or the intent of task.create, makes the caller's task.
LEMMA ReserveKeeps ==
  ASSUME StartsInv, NEW r \in Requests, Reserve(r)
  PROVE  StartsInv'
<1>c. r \in Callers /\ r # TaskCreate /\ Len(made) \in Nat /\ Len(made) < MaxStartedTasks /\ made \in Seq(TaskRows)
  BY StartsAssumption DEF Callers, Reserve, Admissible, StartsInv, StartsTyped
<1>i. /\ calls[r] \in CallRows /\ CallAccounted(r) /\ StartAccounted(r) /\ starts[r] \in StartRows
      /\ calls[r].step = "admitting" /\ calls[r].settings \in Settings
  BY <1>c, CallerFacts DEF Reserve, CallAccounted
<1> DEFINE mode == ModeOf[calls[r].settings]
           t == Len(made) + 1
           start == [state |-> "pending", settings |-> calls[r].settings, task |-> t]
           call == [calls[r] EXCEPT !.task = t, !.step = IF mode = "chat" THEN "saving" ELSE "creating"]
<1>1. mode \in {"chat", "coding", "coordinated"}
  BY <1>i, StartsAssumption
<1>t. t \in Nat /\ t \in 0..MaxStartedTasks
  BY <1>c, StartsAssumption
<1>s. start \in StartRows
  BY <1>t, <1>i DEF StartRows, StartStates
<1>l. call \in CallRows
  <2> HIDE DEF mode, t
  <2> QED BY <1>t, <1>i DEF CallRows, Waiting, Synchronous
<1>2. start \in StartRows /\ call \in CallRows
  BY <1>s, <1>l
<1>3. /\ starts' = [starts EXCEPT ![r] = start] /\ starts'[r] = start
      /\ calls' = [calls EXCEPT ![r] = call] /\ calls'[r] = call
      /\ made' = NewTask(r, mode)
  BY <1>c, <1>i DEF Reserve, StartsInv, StartsTyped, CallRows
<1>4. /\ Len(made') = t /\ \A s \in 1..Len(made) : made'[s] = made[s]
      /\ made'[t].owner = r /\ ~made'[t].saved /\ ~made'[t].worktree /\ made'[t].sent = 0
      /\ mode # "chat" => made'[t].intent = "pending"
  BY <1>c, <1>3 DEF NewTask
<1>5. call.step \in {"saving", "creating"} /\ call.task = t /\ (call.step = "creating" => mode # "chat")
  BY <1>i DEF CallRows
<1>6. CallAccounted(r)'
  <2> HIDE DEF mode, start, call
  <2>1. start.state = "pending" /\ start.task = t
    BY DEF start
  <2> QED BY <1>c, <1>3, <1>4, <1>5, <2>1 DEF CallAccounted, CallWorks
<1>7. StartAccounted(r)'
  <2> HIDE DEF mode, start, call
  <2>1. start.state = "pending" /\ start.task = t
    BY DEF start
  <2>2. starts[r].state = "none"
    BY <1>i DEF CallAccounted
  <2> QED BY <1>c, <1>i, <1>3, <1>4, <1>5, <2>1, <2>2, SMTT(30) DEF StartAccounted, CallWorks
<1> HIDE DEF mode, start, call
<1> QED BY <1>c, <1>1, <1>2, <1>3, <1>6, <1>7, NewTaskStep

\* task.create makes a task and its intent, without a start.
LEMMA CreateKeeps ==
  ASSUME StartsInv, NEW h \in Settings, Create(h)
  PROVE  StartsInv'
<1> DEFINE c == TaskCreate
           mode == ModeOf[h]
           t == Len(made) + 1
           call == [step |-> "creating", settings |-> h, task |-> t]
<1>c. c \in Callers /\ c \notin Requests /\ Len(made) \in Nat /\ Len(made) < MaxStartedTasks /\ made \in Seq(TaskRows)
  BY StartsAssumption DEF Callers, Create, Admissible, StartsInv, StartsTyped
<1>1. mode \in {"chat", "coding", "coordinated"} /\ mode # "chat"
  BY StartsAssumption DEF Create
<1>2. NoStart \in StartRows /\ call \in CallRows
  BY <1>c, StartsAssumption DEF StartRows, StartStates, CallRows, Waiting, NoStart
<1>3. /\ starts' = starts /\ calls' = [calls EXCEPT ![c] = call] /\ calls'[c] = call /\ made' = NewTask(c, mode)
  BY <1>c DEF Create, StartsInv, StartsTyped
<1>4. /\ Len(made') = t /\ made'[t].owner = c /\ ~made'[t].saved /\ ~made'[t].worktree /\ made'[t].sent = 0
      /\ made'[t].intent = "pending"
  BY <1>c, <1>3, <1>1 DEF NewTask
<1>5. call.step = "creating" /\ call.task = t
  OBVIOUS
<1> HIDE DEF mode, call
<1>6. CallAccounted(c)'
  BY <1>c, <1>3, <1>4, <1>5 DEF CallAccounted, CallWorks
<1> QED BY <1>c, <1>1, <1>2, <1>3, <1>6, NewTaskStep

\* What a caller at work knows of its task.
LEMMA OwnFacts ==
  ASSUME StartsInv, NEW c \in Callers, calls[c].step \in CallWorks
  PROVE  /\ calls[c].task \in 1..Len(made) /\ made[calls[c].task] \in TaskRows
         /\ made[calls[c].task].owner = c /\ made[calls[c].task].sent = 0
         /\ calls[c] \in CallRows /\ CallAccounted(c) /\ Idle \in CallRows
         /\ c \in Requests => /\ StartAccounted(c) /\ starts[c] \in StartRows /\ c # TaskCreate
                              /\ starts[c].state = "pending" /\ starts[c].task = calls[c].task
         /\ c \notin Requests => c = TaskCreate
         /\ NoStart \in StartRows /\ Len(made) \in Nat
<1>1. Idle \in CallRows /\ NoStart \in StartRows
  BY StartsAssumption DEF Idle, CallRows, NoStart, StartRows, StartStates
<1>2. calls[c].task \in 1..Len(made) /\ made[calls[c].task] \in TaskRows /\ CallAccounted(c) /\ calls[c] \in CallRows
  BY CallerFacts
<1>3. c \in Requests => StartAccounted(c) /\ starts[c] \in StartRows /\ c # TaskCreate
  BY CallerFacts, StartsAssumption
<1>4. Len(made) \in Nat
  BY DEF StartsInv, StartsTyped
<1>5. c \notin Requests => c = TaskCreate
  BY CallerFacts
<1> QED BY <1>1, <1>2, <1>3, <1>4, <1>5 DEF CallAccounted

\* The tables a step of caller c leaves behind, when it ends its call in state s of
\* its start or goes on to another step.
LEMMA StartMoves ==
  ASSUME StartsInv, NEW c \in Callers, NEW s \in StartStates, starts' = Finished(c, s), c \in Requests => c # TaskCreate
  PROVE  \E start \in StartRows :
           /\ starts' = IF c = TaskCreate THEN starts ELSE [starts EXCEPT ![c] = start]
           /\ c \in Requests => starts'[c] = start /\ start.state = s /\ start.task = starts[c].task
<1>1. CASE c \in Requests
  <2> DEFINE start == [starts[c] EXCEPT !.state = s]
  <2>1. starts[c] \in StartRows /\ c \in DOMAIN starts
    BY <1>1 DEF StartsInv, StartsTyped
  <2>2. start \in StartRows /\ start.state = s /\ start.task = starts[c].task
    BY <2>1 DEF StartRows
  <2>3. starts' = [starts EXCEPT ![c] = start] /\ starts'[c] = start
    BY <1>1, <2>1 DEF Finished, StartsInv, StartsTyped
  <2> HIDE DEF start
  <2> QED BY <1>1, <2>2, <2>3
<1>2. CASE c \notin Requests
  <2>1. c = TaskCreate /\ NoStart \in StartRows
    BY <1>2, StartsAssumption DEF Callers, NoStart, StartRows, StartStates
  <2> QED BY <1>2, <2>1 DEF Finished
<1> QED BY <1>1, <1>2

\* The call that goes on to step s keeps its task.
LEMMA CallMoves ==
  ASSUME StartsInv, NEW c \in Callers, NEW s, Step(c, s), s \in {"idle"} \cup Waiting \cup Synchronous
  PROVE  \E call \in CallRows :
           calls' = [calls EXCEPT ![c] = call] /\ calls'[c] = call /\ call.step = s /\ call.task = calls[c].task
<1> DEFINE call == [calls[c] EXCEPT !.step = s]
<1>1. calls[c] \in CallRows /\ c \in DOMAIN calls
  BY DEF StartsInv, StartsTyped
<1>2. call \in CallRows /\ call.step = s /\ call.task = calls[c].task
  BY <1>1 DEF CallRows
<1>3. calls' = [calls EXCEPT ![c] = call] /\ calls'[c] = call
  BY <1>1 DEF Step, StartsInv, StartsTyped
<1> HIDE DEF call
<1> QED BY <1>2, <1>3

\* The call that ends is idle.
LEMMA LeaveMoves ==
  ASSUME StartsInv, NEW c \in Callers, Leave(c)
  PROVE  /\ calls' = [calls EXCEPT ![c] = Idle] /\ calls'[c] = Idle /\ Idle \in CallRows
         /\ Idle.step = "idle" /\ Idle.task = 0
BY DEF StartsInv, StartsTyped, Leave, Idle, CallRows

\* The worktree is created while the intent is pending.
LEMMA WorktreeKeeps ==
  ASSUME StartsInv, NEW c \in Callers, Worktree(c)
  PROVE  StartsInv'
<1> DEFINE t == calls[c].task
           row == [made[t] EXCEPT !.worktree = TRUE]
<1>w. calls[c].step = "creating" /\ calls[c].step \in CallWorks /\ Step(c, "created") /\ starts' = starts
  BY DEF Worktree, CallWorks
<1>o. /\ t \in 1..Len(made) /\ made[t] \in TaskRows /\ made[t].owner = c /\ made[t].sent = 0
      /\ CallAccounted(c) /\ ~made[t].saved /\ made[t].intent = "pending"
      /\ c \in Requests => StartAccounted(c) /\ c # TaskCreate /\ starts[c] \in StartRows
      /\ NoStart \in StartRows /\ Len(made) \in Nat /\ made \in Seq(TaskRows)
  BY <1>w, OwnFacts DEF CallAccounted, StartsInv, StartsTyped
<1>1. PICK call \in CallRows : calls' = [calls EXCEPT ![c] = call] /\ calls'[c] = call /\ call.step = "created" /\ call.task = t
  BY <1>w, CallMoves DEF Synchronous
<1>2. /\ row \in TaskRows /\ row.owner = c /\ row.sent = 0 /\ ~row.saved /\ row.intent = "pending"
  BY <1>o DEF TaskRows
<1>3. made' = [made EXCEPT ![t] = row] /\ made'[t] = row /\ Len(made') = Len(made)
      /\ \A s \in 1..Len(made) : made'[s] = IF s = t THEN row ELSE made[s]
  <2>1. made' = [made EXCEPT ![t] = row]
    BY <1>o DEF Worktree
  <2> HIDE DEF row
  <2> QED BY <1>o, <1>2, <2>1
<1> HIDE DEF row
<1>4. CallAccounted(c)'
  BY <1>w, <1>o, <1>1, <1>2, <1>3 DEF CallAccounted, CallWorks
<1>5. c \in Requests => StartAccounted(c)'
  BY <1>w, <1>o, <1>1, <1>2, <1>3 DEF StartAccounted, CallAccounted, CallWorks
<1>6. \E start \in StartRows : starts' = IF c = TaskCreate THEN starts ELSE [starts EXCEPT ![c] = start]
  <2>1. CASE c \in Requests
    <3>1. starts' = [starts EXCEPT ![c] = starts[c]]
      BY <1>w DEF StartsInv, StartsTyped
    <3> QED BY <3>1, <2>1, <1>o
  <2>2. CASE c \notin Requests
    BY <2>2, <1>o, <1>w DEF Callers
  <2> QED BY <2>1, <2>2
<1> QED BY <1>o, <1>1, <1>2, <1>3, <1>4, <1>5, <1>6, OwnStep

\* The outcomes of a call that ends: what becomes of its task and of its start.
Ends(c, row, s) ==
  /\ calls[c].step \in CallWorks /\ Leave(c) /\ made' = [made EXCEPT ![calls[c].task] = row]
  /\ row \in TaskRows /\ row.owner = c /\ row.sent <= 1
  /\ row.worktree /\ ~row.saved => row.intent \in {"pending", "unknown"}
  /\ (made[calls[c].task].saved => row.saved) /\ (row.sent > 0 => row.saved)
  /\ s \in {"failed", "complete", "unknown"} /\ starts' = Finished(c, s)
  /\ s \in {"failed", "complete"} /\ c \in Requests => row.saved
  /\ s = "complete" => row.sent = 1

\* A call that ends its start leaves the accounts right.
LEMMA EndKeeps ==
  ASSUME StartsInv, NEW c \in Callers, NEW row, NEW s, Ends(c, row, s)
  PROVE  StartsInv'
<1> DEFINE t == calls[c].task
<1>e. /\ calls[c].step \in CallWorks /\ Leave(c) /\ row \in TaskRows /\ row.owner = c /\ row.sent <= 1
      /\ made' = [made EXCEPT ![t] = row]
      /\ row.worktree /\ ~row.saved => row.intent \in {"pending", "unknown"}
      /\ (made[t].saved => row.saved) /\ (row.sent > 0 => row.saved)
      /\ s \in {"failed", "complete", "unknown"} /\ starts' = Finished(c, s)
      /\ s \in {"failed", "complete"} /\ c \in Requests => row.saved
      /\ s = "complete" => row.sent = 1
  BY DEF Ends
<1>o. /\ t \in 1..Len(made) /\ made[t].owner = c /\ made[t].sent = 0
      /\ c \in Requests => StartAccounted(c) /\ c # TaskCreate /\ starts[c].state = "pending" /\ starts[c].task = t
      /\ Len(made) \in Nat /\ made \in Seq(TaskRows)
  BY <1>e, OwnFacts DEF StartsInv, StartsTyped
<1>1. PICK start \in StartRows :
        /\ starts' = IF c = TaskCreate THEN starts ELSE [starts EXCEPT ![c] = start]
        /\ c \in Requests => starts'[c] = start /\ start.state = s /\ start.task = t
  BY <1>e, <1>o, StartMoves DEF StartStates
<1>2. /\ calls' = [calls EXCEPT ![c] = Idle] /\ calls'[c] = Idle /\ Idle \in CallRows
      /\ Idle.step = "idle" /\ Idle.task = 0
  BY <1>e, LeaveMoves
<1>3. /\ made'[t] = row /\ Len(made') = Len(made)
      /\ \A i \in 1..Len(made) : made'[i] = IF i = t THEN row ELSE made[i]
  BY <1>e, <1>o
<1>4. CallAccounted(c)'
  BY <1>e, <1>o, <1>2, <1>3 DEF CallAccounted, CallWorks
<1>5. ASSUME c \in Requests PROVE StartAccounted(c)'
  BY <1>e, <1>o, <1>1, <1>2, <1>3, <1>5 DEF StartAccounted
<1> QED BY <1>e, <1>o, <1>1, <1>2, <1>4, <1>5, OwnStep

\* A creation that failed is cleared, or its outcome is unknown.
LEMMA NotCreatedKeeps ==
  ASSUME StartsInv, NEW c \in Callers, NotCreated(c)
  PROVE  StartsInv'
<1> DEFINE t == calls[c].task
<1>w. calls[c].step = "creating" /\ calls[c].step \in CallWorks /\ Leave(c)
  BY DEF NotCreated, CallWorks
<1>o. /\ t \in 1..Len(made) /\ made[t] \in TaskRows /\ made[t].owner = c /\ made[t].sent = 0
      /\ ~made[t].saved /\ made[t].intent = "pending" /\ ~made[t].worktree
      /\ c \in Requests => StartAccounted(c) /\ c # TaskCreate /\ starts[c].task = t
      /\ c \notin Requests => c = TaskCreate
      /\ NoStart \in StartRows /\ Len(made) \in Nat /\ made \in Seq(TaskRows)
  BY <1>w, OwnFacts DEF CallAccounted, StartsInv, StartsTyped
<1>1. CASE /\ made' = [made EXCEPT ![t].intent = "complete"]
           /\ starts' = IF c = TaskCreate THEN starts ELSE [starts EXCEPT ![c] = NoStart]
  <2> DEFINE row == [made[t] EXCEPT !.intent = "complete"]
  <2>1. row \in TaskRows /\ row.owner = c /\ row.sent = 0 /\ ~row.saved /\ ~row.worktree
    BY <1>o DEF TaskRows
  <2>2. made' = [made EXCEPT ![t] = row]
    BY <1>o, <1>1
  <2> HIDE DEF row
  <2>3. /\ made'[t] = row /\ Len(made') = Len(made)
        /\ \A s \in 1..Len(made) : made'[s] = IF s = t THEN row ELSE made[s]
    BY <1>o, <2>1, <2>2
  <2>4. /\ calls' = [calls EXCEPT ![c] = Idle] /\ calls'[c] = Idle /\ Idle \in CallRows
        /\ Idle.step = "idle" /\ Idle.task = 0
    BY <1>w, LeaveMoves
  <2>5. CallAccounted(c)'
    BY <1>o, <2>3, <2>4 DEF CallAccounted, CallWorks
  <2>6. ASSUME c \in Requests PROVE StartAccounted(c)'
    <3>1. starts'[c] = NoStart
      BY <1>1, <1>o, <2>6 DEF StartsInv, StartsTyped
    <3>2. NoStart.state = "none"
      BY DEF NoStart
    <3> QED BY <1>o, <2>1, <2>3, <2>6, <3>1, <3>2 DEF StartAccounted
  <2> QED BY <1>o, <1>1, <2>1, <2>2, <2>4, <2>5, <2>6, OwnStep
<1>2. ASSUME NEW there \in BOOLEAN, made' = [made EXCEPT ![t].intent = "unknown", ![t].worktree = there],
             starts' = Finished(c, "unknown")
      PROVE  StartsInv'
  <2> DEFINE row == [made[t] EXCEPT !.intent = "unknown", !.worktree = there]
  <2>1. row \in TaskRows /\ row.owner = c /\ row.sent = 0 /\ ~row.saved /\ row.intent = "unknown"
    BY <1>o DEF TaskRows
  <2>2. made' = [made EXCEPT ![t] = row]
    BY <1>o, <1>2
  <2> HIDE DEF row
  <2>4. starts' = Finished(c, "unknown") /\ Leave(c)
    BY <1>2, <1>w
  <2>3. Ends(c, row, "unknown")
    BY <1>w, <1>o, <2>1, <2>2, <2>4 DEF Ends
  <2> QED BY <2>3, EndKeeps
<1> QED BY <1>1, <1>2 DEF NotCreated

\* A step in which a call goes on, its start as it is.
LEMMA GoesOn ==
  ASSUME StartsInv, NEW c \in Callers, calls[c].step \in {"created", "saving", "sending"}, starts' = starts,
         NEW row \in TaskRows, row.owner = c, row.sent = 0, row.saved,
         made' = [made EXCEPT ![calls[c].task] = row], NEW call \in CallRows,
         calls' = [calls EXCEPT ![c] = call], call.task = calls[c].task, call.step \in {"sending", "resuming"},
         c \in Requests
  PROVE  StartsInv'
<1> DEFINE t == calls[c].task
<1>w. calls[c].step \in CallWorks
  BY DEF CallWorks
<1>o. /\ t \in 1..Len(made) /\ made[t] \in TaskRows /\ made[t].owner = c
      /\ StartAccounted(c) /\ c # TaskCreate /\ starts[c] \in StartRows /\ starts[c].state = "pending" /\ starts[c].task = t
      /\ Len(made) \in Nat /\ made \in Seq(TaskRows)
  BY <1>w, OwnFacts DEF StartsInv, StartsTyped
<1>3. /\ made'[t] = row /\ Len(made') = Len(made)
      /\ \A s \in 1..Len(made) : made'[s] = IF s = t THEN row ELSE made[s]
  BY <1>o
<1>4. calls'[c] = call /\ starts' = [starts EXCEPT ![c] = starts[c]]
  BY DEF StartsInv, StartsTyped
<1>5. CallAccounted(c)'
  BY <1>o, <1>3, <1>4 DEF CallAccounted, CallWorks
<1>6. StartAccounted(c)'
  BY <1>o, <1>3, <1>4 DEF StartAccounted, CallWorks
<1> QED BY <1>o, <1>4, <1>5, <1>6, OwnStep

\* The task is saved with its intent, or all of it is rolled back.
LEMMA SaveKeeps ==
  ASSUME StartsInv, NEW c \in Callers, Save(c)
  PROVE  StartsInv'
<1> DEFINE t == calls[c].task
           intentOr(to) == IF made[t].intent = "none" THEN "none" ELSE to
<1>w. calls[c].step \in {"created", "saving"} /\ calls[c].step \in CallWorks
  BY DEF Save, CallWorks
<1>o. /\ t \in 1..Len(made) /\ made[t] \in TaskRows /\ made[t].owner = c /\ made[t].sent = 0 /\ ~made[t].saved
      /\ c \in Requests => c # TaskCreate
      /\ c \notin Requests => c = TaskCreate
      /\ calls[c].step = "saving" => c \in Requests /\ ~made[t].worktree
      /\ calls[c].step = "created" => made[t].intent = "pending"
      /\ starts \in [Requests -> StartRows] /\ made \in Seq(TaskRows)
  BY <1>w, OwnFacts DEF CallAccounted, StartsInv, StartsTyped
<1>1. ASSUME made' = [made EXCEPT ![t].saved = TRUE, ![t].intent = IF @ = "none" THEN @ ELSE "complete"],
             IF c = TaskCreate THEN Leave(c) ELSE Step(c, "sending"), starts' = starts
      PROVE  StartsInv'
  <2> DEFINE row == [made[t] EXCEPT !.saved = TRUE, !.intent = intentOr("complete")]
  <2>1. row \in TaskRows /\ row.owner = c /\ row.sent = 0 /\ row.saved
    BY <1>o DEF TaskRows
  <2>2. made' = [made EXCEPT ![t] = row]
    BY <1>o, <1>1
  <2> HIDE DEF row
  <2>3. CASE c = TaskCreate
    <3>1. Leave(c) /\ starts' = Finished(c, "unknown")
      BY <1>1, <2>3 DEF Finished
    <3>2. Ends(c, row, "unknown")
      BY <1>w, <1>o, <2>1, <2>2, <2>3, <3>1 DEF Ends
    <3> QED BY <3>2, EndKeeps
  <2>4. CASE c # TaskCreate
    <3>1. PICK call \in CallRows :
            calls' = [calls EXCEPT ![c] = call] /\ calls'[c] = call /\ call.step = "sending" /\ call.task = t
      BY <1>1, <2>4, CallMoves DEF Synchronous
    <3> QED BY <1>w, <1>o, <1>1, <2>1, <2>2, <2>4, <3>1, GoesOn
  <2> QED BY <2>3, <2>4
<1>2. ASSUME made' = [made EXCEPT ![t].intent = IF @ = "none" THEN @ ELSE "unknown"],
             starts' = Finished(c, "unknown"), Leave(c)
      PROVE  StartsInv'
  <2> DEFINE row == [made[t] EXCEPT !.intent = intentOr("unknown")]
  <2>1. row \in TaskRows /\ row.owner = c /\ row.sent = 0 /\ ~row.saved
        /\ row.worktree = made[t].worktree /\ (made[t].intent = "pending" => row.intent = "unknown")
    BY <1>o DEF TaskRows
  <2>2. made' = [made EXCEPT ![t] = row]
    BY <1>o, <1>2
  <2> HIDE DEF row
  <2>4. starts' = Finished(c, "unknown") /\ Leave(c)
    BY <1>2, <1>w
  <2>3. Ends(c, row, "unknown")
    BY <1>w, <1>o, <2>1, <2>2, <2>4 DEF Ends
  <2> QED BY <2>3, EndKeeps
<1> QED BY <1>1, <1>2 DEF Save

\* The first message arrives or does not, and the call ends.
LEMMA MessageKeeps ==
  ASSUME StartsInv, NEW c \in Callers, calls[c].step \in {"sending", "resending", "resuming"}, Leave(c),
         \/ /\ made' = [made EXCEPT ![calls[c].task].sent = @ + 1]
            /\ \E s \in {"complete", "failed", "unknown"} : starts' = Finished(c, s)
         \/ made' = made /\ \E s \in {"failed", "unknown"} : starts' = Finished(c, s)
  PROVE  StartsInv'
<1> DEFINE t == calls[c].task
<1>w. calls[c].step \in CallWorks
  BY DEF CallWorks
<1>o. /\ t \in 1..Len(made) /\ made[t] \in TaskRows /\ made[t].owner = c /\ made[t].sent = 0 /\ made[t].saved
      /\ made \in Seq(TaskRows)
  BY <1>w, OwnFacts DEF CallAccounted, StartsInv, StartsTyped
<1>1. ASSUME NEW s \in {"complete", "failed", "unknown"}, starts' = Finished(c, s),
             made' = [made EXCEPT ![t].sent = @ + 1]
      PROVE  StartsInv'
  <2> DEFINE row == [made[t] EXCEPT !.sent = @ + 1]
  <2>1. row \in TaskRows /\ row.owner = c /\ row.sent = 1 /\ row.saved
    BY <1>o DEF TaskRows
  <2>2. made' = [made EXCEPT ![t] = row]
    BY <1>o, <1>1
  <2> HIDE DEF row
  <2>4. starts' = Finished(c, s)
    BY <1>1
  <2>3. Ends(c, row, s)
    BY <1>w, <1>o, <2>1, <2>2, <2>4 DEF Ends
  <2> QED BY <2>3, EndKeeps
<1>2. ASSUME NEW s \in {"failed", "unknown"}, starts' = Finished(c, s), made' = made
      PROVE  StartsInv'
  <2>1. made' = [made EXCEPT ![t] = made[t]]
    BY <1>o, <1>2
  <2>3. made[t].sent <= 1 /\ starts' = Finished(c, s)
    BY <1>o, <1>2
  <2>2. Ends(c, made[t], s)
    BY <1>w, <1>o, <2>1, <2>3 DEF Ends
  <2> QED BY <2>2, EndKeeps
<1> QED BY <1>1, <1>2

\* The steps that send the first message.
LEMMA SendKeeps ==
  ASSUME StartsInv, NEW c \in Callers, Send(c) \/ Resend(c) \/ Resumed(c)
  PROVE  StartsInv'
<1>1. CASE Send(c) /\ Leave(c) /\ made[calls[c].task].mode # "coordinated"
  BY <1>1, MessageKeeps DEF Send
<1>2. CASE Send(c) /\ ~(Leave(c) /\ made[calls[c].task].mode # "coordinated")
  <2>w. calls[c].step = "sending" /\ calls[c].step \in CallWorks /\ Step(c, "resuming") /\ starts' = starts /\ made' = made
    BY <1>2 DEF Send, CallWorks
  <2>1. PICK call \in CallRows : calls' = [calls EXCEPT ![c] = call] /\ calls'[c] = call /\ call.step = "resuming" /\ call.task = calls[c].task
    BY <2>w, CallMoves DEF Waiting
  <2>2. /\ calls[c].task \in 1..Len(made) /\ made[calls[c].task] \in TaskRows /\ made[calls[c].task].owner = c
        /\ made[calls[c].task].sent = 0 /\ made[calls[c].task].saved /\ c \in Requests /\ made \in Seq(TaskRows)
    BY <2>w, OwnFacts DEF CallAccounted, StartsInv, StartsTyped
  <2>3. made' = [made EXCEPT ![calls[c].task] = made[calls[c].task]]
    BY <2>w, <2>2
  <2> QED BY <2>w, <2>1, <2>2, <2>3, GoesOn
<1>3. CASE Resend(c)
  BY <1>3, MessageKeeps DEF Resend
<1>4. CASE Resumed(c)
  BY <1>4, MessageKeeps DEF Resumed
<1> QED BY <1>1, <1>2, <1>3, <1>4

\* The user writes to a saved task.
LEMMA WriteKeeps ==
  ASSUME StartsInv, NEW t \in DOMAIN made, Write(t)
  PROVE  StartsInv'
<1> DEFINE row == [made[t] EXCEPT !.other = TRUE]
<1>m. t \in 1..Len(made) /\ made[t] \in TaskRows /\ made \in Seq(TaskRows) /\ Len(made) \in Nat
  BY DEF StartsInv, StartsTyped
<1>8. PICK c \in Callers : made[t].owner = c
  BY <1>m DEF TaskRows
<1>o. /\ t \in 1..Len(made) /\ made[t] \in TaskRows /\ c \in Callers /\ made \in Seq(TaskRows) /\ made[t].saved
      /\ calls' = calls /\ starts' = starts /\ Len(made) \in Nat
  BY <1>m DEF TaskRows, Write
<1>f. /\ calls[c] \in CallRows /\ CallAccounted(c)
      /\ c \in Requests => StartAccounted(c) /\ c # TaskCreate /\ starts[c] \in StartRows
      /\ c \notin Requests => c = TaskCreate
      /\ NoStart \in StartRows
  BY <1>o, CallerFacts, StartsAssumption DEF NoStart, StartRows, StartStates
<1>1. /\ row \in TaskRows /\ row.owner = c /\ row.saved /\ row.sent = made[t].sent /\ row.intent = made[t].intent
      /\ row.worktree = made[t].worktree /\ row.other
  BY <1>o, <1>8 DEF TaskRows
<1>2. made' = [made EXCEPT ![t] = row]
  BY <1>o DEF Write
<1> HIDE DEF row
<1>3. /\ made'[t] = row /\ Len(made') = Len(made)
      /\ \A s \in 1..Len(made) : made'[s] = IF s = t THEN row ELSE made[s]
  BY <1>o, <1>1, <1>2
<1>4. calls' = [calls EXCEPT ![c] = calls[c]]
  BY <1>o DEF StartsInv, StartsTyped
<1>5. \E start \in StartRows : starts' = IF c = TaskCreate THEN starts ELSE [starts EXCEPT ![c] = start]
  <2>1. CASE c \in Requests
    <3>1. starts' = [starts EXCEPT ![c] = starts[c]]
      BY <1>o DEF StartsInv, StartsTyped
    <3> QED BY <3>1, <2>1, <1>f
  <2>2. CASE c \notin Requests
    BY <2>2, <1>o, <1>f
  <2> QED BY <2>1, <2>2
<1>6. CallAccounted(c)'
  BY <1>o, <1>f, <1>8, <1>1, <1>3 DEF CallAccounted, CallWorks
<1>7. c \in Requests => StartAccounted(c)'
  BY <1>o, <1>f, <1>8, <1>1, <1>3 DEF StartAccounted
<1> QED BY <1>o, <1>f, <1>1, <1>2, <1>4, <1>5, <1>6, <1>7, <1>8, OwnStep

\* A crash leaves what was pending unknown.
LEMMA CrashStartsKeeps ==
  ASSUME StartsInv, CrashStarts
  PROVE  StartsInv'
<1>t. /\ made \in Seq(TaskRows) /\ starts \in [Requests -> StartRows] /\ Len(made) \in Nat /\ Len(made) <= MaxStartedTasks
  BY DEF StartsInv, StartsTyped
<1>0. DOMAIN made = 1..Len(made) /\ \A t \in 1..Len(made) : made[t] \in TaskRows
  BY <1>t
<1>1. \A t \in 1..Len(made) : made[t] \in TaskRows /\ made'[t] = [made[t] EXCEPT !.intent = RecoveredStart(@)]
  BY <1>0 DEF CrashStarts
<1>2. \A t \in 1..Len(made) :
        /\ made'[t] \in TaskRows /\ made'[t].owner = made[t].owner /\ made'[t].sent = made[t].sent
        /\ made'[t].saved = made[t].saved /\ made'[t].worktree = made[t].worktree /\ made'[t].other = made[t].other
        /\ made'[t].intent = RecoveredStart(made[t].intent)
  BY <1>1, ZenonT(40) DEF TaskRows, RecoveredStart
<1>3. made' \in Seq(TaskRows) /\ Len(made') = Len(made)
  <2>1. made' = [t \in 1..Len(made) |-> [made[t] EXCEPT !.intent = RecoveredStart(@)]]
    BY <1>t DEF CrashStarts
  <2>2. \A t \in 1..Len(made) : [made[t] EXCEPT !.intent = RecoveredStart(@)] \in TaskRows
    BY <1>1, <1>2
  <2> QED BY <1>t, <2>1, <2>2
<1>4. \A r \in Requests : starts[r] \in StartRows /\ starts'[r] = [starts[r] EXCEPT !.state = RecoveredStart(@)]
  BY <1>t DEF CrashStarts
<1>5. \A r \in Requests :
        /\ starts'[r] \in StartRows /\ starts'[r].task = starts[r].task
        /\ starts'[r].state = RecoveredStart(starts[r].state)
  BY <1>4, ZenonT(40) DEF StartRows, StartStates, RecoveredStart
<1>6. starts' \in [Requests -> StartRows]
  BY <1>5 DEF CrashStarts
<1>7. Idle \in CallRows /\ Idle.step = "idle" /\ Idle.task = 0
  BY DEF Idle, CallRows
<1>8. calls' \in [Callers -> CallRows] /\ \A c \in Callers : calls'[c] = Idle
  BY <1>7 DEF CrashStarts
<1>9. WorktreesAccounted'
  BY <1>2, <1>3 DEF WorktreesAccounted, StartsInv, RecoveredStart
<1>10. \A c \in Callers : CallAccounted(c)'
  BY <1>t, <1>3, <1>7, <1>8 DEF CallAccounted, CallWorks
<1>11. ASSUME NEW r \in Requests PROVE StartAccounted(r)'
  <2>1. StartAccounted(r)
    BY DEF StartsInv
  <2> QED BY <2>1, <1>2, <1>3, <1>5 DEF StartAccounted, RecoveredStart
<1> QED BY <1>t, <1>3, <1>6, <1>8, <1>9, <1>10, <1>11 DEF StartsInv, StartsTyped

\* Every step keeps StartsInv.
LEMMA StartsStep == StartsInv /\ [StartsNext]_tsVars => StartsInv'
<1> SUFFICES ASSUME StartsInv, [StartsNext]_tsVars PROVE StartsInv'
  OBVIOUS
<1>1. ASSUME NEW r \in Requests, (\E h \in Settings : Begin(r, h)) \/ Retry(r) \/ Refuse(r) \/ Reserve(r) PROVE StartsInv'
  BY <1>1, AdmissionKeeps, ReserveKeeps
<1>2. ASSUME NEW h \in Settings, Create(h) PROVE StartsInv'
  BY <1>2, CreateKeeps
<1>3. ASSUME NEW c \in Callers, Worktree(c) \/ NotCreated(c) \/ Save(c) PROVE StartsInv'
  BY <1>3, WorktreeKeeps, NotCreatedKeeps, SaveKeeps
<1>4. ASSUME NEW c \in Callers, Resumed(c) \/ Send(c) \/ Resend(c) PROVE StartsInv'
  BY <1>4, SendKeeps
<1>5. ASSUME NEW t \in DOMAIN made, Write(t) PROVE StartsInv'
  BY <1>5, WriteKeeps
<1>6. CASE CrashStarts
  BY <1>6, CrashStartsKeeps
<1>7. CASE UNCHANGED tsVars
  BY <1>7 DEF StartsInv, StartsTyped, WorktreesAccounted, CallAccounted, StartAccounted, tsVars
<1> QED BY <1>1, <1>2, <1>3, <1>4, <1>5, <1>6, <1>7 DEF StartsNext

\* StartsInv holds in every reachable state.
LEMMA StartsInvariant == StartsSpec => []StartsInv
BY StartsBegin, StartsStep, PTL DEF StartsSpec

\* The tables of a start, its tasks and its calls hold what they are declared to.
THEOREM StartsTypeCorrect == StartsSpec => []StartsTypeOK
<1>1. ASSUME StartsInv PROVE StartsTypeOK
  <2>1. \A c \in Callers : calls[c] \in CallRows /\ calls[c].task \in 0..Len(made)
    BY <1>1 DEF StartsInv, StartsTyped, CallAccounted
  <2>2. \A t \in DOMAIN made : t \in 1..Len(made) /\ made[t] \in TaskRows
    BY <1>1 DEF StartsInv, StartsTyped
  <2>3. DOMAIN made \subseteq 1..MaxStartedTasks
    BY <1>1, StartsAssumption DEF StartsInv, StartsTyped
  <2>4. \A c \in Callers : calls[c].step \in {"idle"} \cup Waiting \cup Synchronous
    BY <2>1 DEF CallRows
  <2> QED BY <1>1, <2>1, <2>2, <2>3, <2>4 DEF StartsInv, StartsTyped, StartsTypeOK, StartRows, StartStates, TaskRows
<1> QED BY <1>1, StartsInvariant, PTL

\* A request makes one task at most and its message is sent once, and what the
\* tables say of a creation is what happened: for any requests, tasks, failures
\* and crashes (service.ts: startTask, repository.ts: recover).
THEOREM StartsAccountedFor == StartsSpec => []StartsAreAccountedFor
<1>1. ASSUME StartsInv PROVE StartsAreAccountedFor
  <2>0. made \in Seq(TaskRows) /\ DOMAIN made = 1..Len(made)
    BY <1>1 DEF StartsInv, StartsTyped
  <2>1. ASSUME NEW r \in Requests PROVE Cardinality({t \in DOMAIN made : made[t].owner = r /\ made[t].saved}) <= 1
    <3> DEFINE S == {t \in DOMAIN made : made[t].owner = r /\ made[t].saved}
    <3>1. S \subseteq {starts[r].task}
      BY <1>1, <2>0 DEF StartsInv, StartAccounted
    <3>2. IsFiniteSet({starts[r].task}) /\ Cardinality({starts[r].task}) = 1
      BY FS_Singleton
    <3> QED BY <3>1, <3>2, FS_Subset
  <2>2. \A r \in Requests : \A t \in DOMAIN made : made[t].owner = r => made[t].sent <= 1
    BY <1>1, <2>0 DEF StartsInv, StartAccounted
  <2>3. CreationsAreAccountedFor
    BY <1>1, <2>0 DEF StartsInv, WorktreesAccounted, StartAccounted, CreationsAreAccountedFor
  <2> QED BY <2>1, <2>2, <2>3 DEF StartsAreAccountedFor, OneTaskPerRequest
<1> QED BY <1>1, StartsInvariant, PTL

----
(***************************************************************************)
(* Integrations: what the rows say is what Git holds, and what a completion*)
(* says was verified.                                                      *)
(***************************************************************************)

\* The repository's operations and the completion of the task together, without
\* the fairness, which safety does not need.
CompletionsSpec == IntegrationsInit /\ CompletionsInit /\ [][CompletionsNext]_<<igVars, coVars>>

\* The types of an operation and of a job.
OpRow == [parent: 0..MaxIntegrations, result: Results, head: 0..MaxLine, tree: {"exact"} \cup Resolutions,
        state: States, marked: BOOLEAN]
JobOf == [do: {"integrate", "prepare", "continue", "check", "validate", "complete"}, op: Nat,
          was: {"none"} \cup States, step: {"waiting", "executing", "checked", "ran"}]

\* The invariant is stated of any line L, cherry-pick in progress K, rows R, integrated
\* results D, question A and queue J.
Line(L) == L \in Seq(Commits)
OpRows(R) == R \in Seq(OpRow)
Jobs(R, J) == J \in Seq(JobOf) /\ \A n \in 1..Len(J) : J[n].op \in {0} \cup 1..Len(R)

\* What is said of operations and jobs below.
On(R, o) == R[o].state \in Active
Effect(J, n) == J[n].do \in {"integrate", "continue"}
CheckOn(J, o) == \E n \in 1..Len(J) : J[n].do = "check" /\ J[n].op = o
MarkedRoot(R, o) == R[o].parent = 0 /\ R[o].marked
ExactAbove(L, R, o) == Len(L) > R[o].head /\ L[R[o].head + 1].effect = "exact"

\* One operation is open, the last one unless it is a conflict that the user
\* returns to; operations began at growing heads.
RowsInOrder(L, R) ==
  /\ \A o, p \in 1..Len(R) : On(R, o) /\ On(R, p) => o = p
  /\ \A o \in 1..Len(R) : On(R, o) /\ ~MarkedRoot(R, o) => o = Len(R)
  /\ \A o \in 1..Len(R) : R[o].head <= Len(L)
  /\ \A o, p \in 1..Len(R) : o < p => R[o].head <= R[p].head
  /\ \A o \in 1..Len(R) : R[o].parent = 0 => R[o].tree = "exact"
  /\ \A o \in 1..Len(R) : R[o].state = "continued" => MarkedRoot(R, o)
  /\ \A o \in 1..Len(R) : R[o].state \in {"awaiting-approval", "executing"} => ~R[o].marked

\* The queue: an effect has its operation approved, one effect is queued, the first
\* job alone is under way.
JobsInOrder(R, J) ==
  /\ \A n \in 1..Len(J) : J[n].do \in {"integrate", "continue", "check", "prepare"} => J[n].op \in 1..Len(R)
  /\ \A n \in 1..Len(J) : Effect(J, n) =>
       R[J[n].op].state = IF J[n].step = "waiting" THEN "awaiting-approval" ELSE "executing"
  /\ \A n, m \in 1..Len(J) : Effect(J, n) /\ Effect(J, m) => n = m
  /\ \A n \in 1..Len(J) : J[n].step # "waiting" => n = 1
  /\ \A n \in 1..Len(J) : J[n].do \in {"check", "prepare"} => R[J[n].op].state \notin {"awaiting-approval", "executing"}
  /\ \A n \in 1..Len(J) : J[n].do = "prepare" => MarkedRoot(R, J[n].op)

\* No check waits for one operation while an effect or a check is about another.
ChecksAreAlone(R, J) ==
  /\ \A n, m \in 1..Len(J) : m < n /\ Effect(J, m) /\ J[n].do = "check" => J[m].op = J[n].op
  /\ \A n, m \in 1..Len(J) : J[m].do = "check" /\ J[n].do = "check" => J[m].op = J[n].op
  /\ \A n \in 1..Len(J), o \in 1..Len(R) : J[n].do = "check" /\ o # J[n].op /\ On(R, o) =>
       R[o].state = "awaiting-approval"

\* An operation that met a conflict has not been applied as it was.
ConflictsStay(L, R, J) ==
  \A o \in 1..Len(R) : MarkedRoot(R, o) /\ (On(R, o) \/ CheckOn(J, o)) => ~ExactAbove(L, R, o)

\* A question is about a result that is not integrated, while nothing else runs.
AskedOnce(K, R, D, A) ==
  A # NoResult =>
    /\ K = NoResult /\ A \notin D
    /\ \A o \in 1..Len(R) : On(R, o) => MarkedRoot(R, o) /\ R[o].state \notin {"awaiting-approval", "executing"}

\* What is open or being checked is not integrated yet.
OpenUntilIntegrated(L, R, D, J) ==
  /\ \A o \in 1..Len(R) : On(R, o) => R[o].result \notin D
  /\ \A n \in 1..Len(J) : J[n].do = "check" /\ R[J[n].op].state \notin Final => R[J[n].op].result \notin D
  /\ \A o \in 1..Len(R) : R[o].result \in D => Len(L) > R[o].head

\* A result is integrated by the one operation that succeeded with it.
IntegratedOnce(R, D) ==
  /\ \A o \in 1..Len(R) : R[o].state = "succeeded" => R[o].result \in D
  /\ \A o, p \in 1..Len(R) : R[o].state = "succeeded" /\ R[p].state = "succeeded" /\ R[o].result = R[p].result => o = p
  /\ \A r \in D : \E o \in 1..Len(R) : R[o].result = r /\ R[o].state = "succeeded"

\* A commit is of an operation that was approved; one that succeeded has its commit
\* on the line, above the head it was approved for.
CommitsAreKnown(L, R) ==
  /\ \A n \in 1..Len(L) : L[n].by \in {0} \cup 1..Len(R)
  /\ \A o \in 1..Len(R) : R[o].state \in {"awaiting-approval", "rejected", "revoked"} => \A n \in 1..Len(L) : L[n].by # o
  /\ \A o \in 1..Len(R) : R[o].state = "succeeded" =>
       /\ Len(L) > R[o].head
       /\ L[R[o].head + 1].of = R[o].result
       /\ L[R[o].head + 1].effect = R[o].tree

\* All of it.
Sound(L, K, R, D, A, J) ==
  /\ Line(L) /\ OpRows(R) /\ Jobs(R, J)
  /\ RowsInOrder(L, R) /\ JobsInOrder(R, J) /\ ChecksAreAlone(R, J) /\ ConflictsStay(L, R, J)
  /\ AskedOnce(K, R, D, A) /\ OpenUntilIntegrated(L, R, D, J) /\ IntegratedOnce(R, D) /\ CommitsAreKnown(L, R)

-----------------------------------------------------------------------------
\* The first job leaves the lock.
LEMMA PopKeeps ==
  ASSUME NEW L, NEW K, NEW R, NEW D, NEW A, NEW J, Sound(L, K, R, D, A, J), J # << >>
  PROVE  Sound(L, K, R, D, A, Tail(J))
<1> USE DEF Sound
<1> DEFINE T == Tail(J)
<1>1. /\ T \in Seq(JobOf) /\ Len(T) \in Nat /\ Len(J) = Len(T) + 1
      /\ \A n \in 1..Len(T) : T[n] = J[n + 1] /\ n + 1 \in 1..Len(J)
  BY HeadTailProperties, LenProperties DEF Jobs
<1> HIDE DEF T
<1>2. Jobs(R, T)
  BY <1>1 DEF Jobs
<1>3. JobsInOrder(R, T)
  <2>1. \A n \in 1..Len(T) : T[n].do \in {"integrate", "continue", "check", "prepare"} => T[n].op \in 1..Len(R)
    BY <1>1 DEF JobsInOrder
  <2>2. \A n \in 1..Len(T) : Effect(T, n) =>
          R[T[n].op].state = IF T[n].step = "waiting" THEN "awaiting-approval" ELSE "executing"
    BY <1>1 DEF JobsInOrder, Effect
  <2>3. \A n, m \in 1..Len(T) : Effect(T, n) /\ Effect(T, m) => n = m
    <3> TAKE n, m \in 1..Len(T)
    <3>1. T[n] = J[n + 1] /\ T[m] = J[m + 1] /\ n + 1 \in 1..Len(J) /\ m + 1 \in 1..Len(J) /\ n \in Nat /\ m \in Nat
      BY <1>1
    <3>2. Effect(J, n + 1) /\ Effect(J, m + 1) => n + 1 = m + 1
      BY <3>1 DEF JobsInOrder
    <3> QED BY <3>1, <3>2 DEF Effect
  <2>4. \A n \in 1..Len(T) : T[n].step = "waiting"
    <3> TAKE n \in 1..Len(T)
    <3>1. T[n] = J[n + 1] /\ n + 1 \in 1..Len(J) /\ n + 1 # 1
      BY <1>1
    <3> QED BY <3>1 DEF JobsInOrder
  <2>5. \A n \in 1..Len(T) : T[n].do \in {"check", "prepare"} => R[T[n].op].state \notin {"awaiting-approval", "executing"}
    BY <1>1 DEF JobsInOrder
  <2>6. \A n \in 1..Len(T) : T[n].do = "prepare" => MarkedRoot(R, T[n].op)
    BY <1>1 DEF JobsInOrder
  <2> QED BY <2>1, <2>2, <2>3, <2>4, <2>5, <2>6 DEF JobsInOrder
<1>4. ChecksAreAlone(R, T)
  <2>1. \A n, m \in 1..Len(T) : m < n /\ Effect(T, m) /\ T[n].do = "check" => T[m].op = T[n].op
    <3> TAKE n, m \in 1..Len(T)
    <3>1. T[n] = J[n + 1] /\ T[m] = J[m + 1] /\ n + 1 \in 1..Len(J) /\ m + 1 \in 1..Len(J) /\ n \in Nat /\ m \in Nat
      BY <1>1
    <3>2. m < n => m + 1 < n + 1
      BY <3>1
    <3> QED BY <3>1, <3>2 DEF ChecksAreAlone, Effect
  <2>2. \A n, m \in 1..Len(T) : T[m].do = "check" /\ T[n].do = "check" => T[m].op = T[n].op
    BY <1>1 DEF ChecksAreAlone
  <2>3. \A n \in 1..Len(T), o \in 1..Len(R) : T[n].do = "check" /\ o # T[n].op /\ On(R, o) =>
          R[o].state = "awaiting-approval"
    BY <1>1 DEF ChecksAreAlone
  <2> QED BY <2>1, <2>2, <2>3 DEF ChecksAreAlone
<1>5. ConflictsStay(L, R, T)
  BY <1>1 DEF ConflictsStay, CheckOn
<1>6. OpenUntilIntegrated(L, R, D, T)
  BY <1>1 DEF OpenUntilIntegrated
<1> QED BY <1>2, <1>3, <1>4, <1>5, <1>6 DEF T

\* A job joins the queue: an approved operation, a look at a conflict, a check of what
\* is open, or work that is about no operation.
MayQueue(R, D, J, j) ==
  /\ j \in JobOf /\ j.step = "waiting"
  /\ \/ /\ j.do \in {"integrate", "continue"} /\ j.op \in 1..Len(R) /\ R[j.op].state = "awaiting-approval"
        /\ \A n \in 1..Len(J) : Effect(J, n) => J[n].op # j.op
     \/ j.do = "prepare" /\ j.op \in 1..Len(R) /\ MarkedRoot(R, j.op)
        /\ R[j.op].state \notin {"awaiting-approval", "executing"}
     \/ j.do = "check" /\ j.op \in 1..Len(R) /\ On(R, j.op) /\ R[j.op].state \notin {"awaiting-approval", "executing"}
     \/ j.do \in {"validate", "complete"} /\ j.op = 0

\* The queue stays sound.
LEMMA QueueKeeps ==
  ASSUME NEW L, NEW K, NEW R, NEW D, NEW A, NEW J, NEW j, Sound(L, K, R, D, A, J), MayQueue(R, D, J, j)
  PROVE  Sound(L, K, R, D, A, Append(J, j))
<1> USE DEF Sound
<1> DEFINE T == Append(J, j)
<1>1. /\ T \in Seq(JobOf) /\ Len(J) \in Nat /\ Len(T) = Len(J) + 1 /\ T[Len(J) + 1] = j
      /\ \A n \in 1..Len(J) : T[n] = J[n]
  BY DEF Jobs, MayQueue
<1> HIDE DEF T
<1>2. \A n \in 1..Len(T) : (n = Len(J) + 1 /\ T[n] = j) \/ (n \in 1..Len(J) /\ T[n] = J[n])
  <2> TAKE n \in 1..Len(T)
  <2>1. n = Len(J) + 1 \/ n \in 1..Len(J)
    BY <1>1
  <2> QED BY <1>1, <2>1
<1>0. \A n \in 1..Len(J) : Effect(J, n) => On(R, J[n].op) /\ J[n].op \in 1..Len(R)
  BY DEF JobsInOrder, On, Active, Effect
<1>3. Jobs(R, T)
  BY <1>1, <1>2 DEF Jobs, MayQueue
<1>4. JobsInOrder(R, T)
  <2>1. \A n \in 1..Len(J) : Effect(J, n) => ~(j.do \in {"integrate", "continue"})
    BY <1>0 DEF MayQueue, RowsInOrder, On, Active
  <2>2. \A n \in 1..Len(T) : T[n].do \in {"integrate", "continue", "check", "prepare"} => T[n].op \in 1..Len(R)
    BY <1>2 DEF JobsInOrder, MayQueue
  <2>3. \A n \in 1..Len(T) : Effect(T, n) =>
          R[T[n].op].state = IF T[n].step = "waiting" THEN "awaiting-approval" ELSE "executing"
    BY <1>2 DEF JobsInOrder, Effect, MayQueue
  <2>4. \A n, m \in 1..Len(T) : Effect(T, n) /\ Effect(T, m) => n = m
    BY <1>2, <2>1 DEF JobsInOrder, Effect
  <2>5. \A n \in 1..Len(T) : T[n].step # "waiting" => n = 1
    BY <1>2 DEF JobsInOrder, MayQueue
  <2>6. \A n \in 1..Len(T) : T[n].do \in {"check", "prepare"} => R[T[n].op].state \notin {"awaiting-approval", "executing"}
    BY <1>2 DEF JobsInOrder, MayQueue
  <2>7. \A n \in 1..Len(T) : T[n].do = "prepare" => MarkedRoot(R, T[n].op)
    BY <1>2 DEF JobsInOrder, MayQueue
  <2> QED BY <2>2, <2>3, <2>4, <2>5, <2>6, <2>7 DEF JobsInOrder
<1>5. ChecksAreAlone(R, T)
  <2>1. j.do = "check" => \A m \in 1..Len(J) : Effect(J, m) => J[m].op = j.op
    BY <1>0 DEF MayQueue, RowsInOrder
  <2>2. j.do = "check" => \A m \in 1..Len(J) : J[m].do = "check" => J[m].op = j.op
    BY DEF MayQueue, ChecksAreAlone
  <2>3. j.do = "check" => \A o \in 1..Len(R) : o # j.op => ~On(R, o)
    BY DEF MayQueue, RowsInOrder
  <2> QED BY <1>1, <1>2, <2>1, <2>2, <2>3, SMTT(30) DEF ChecksAreAlone, Effect
<1>6. ConflictsStay(L, R, T)
  BY <1>1, <1>2 DEF ConflictsStay, CheckOn, MayQueue
<1>7. OpenUntilIntegrated(L, R, D, T)
  BY <1>1, <1>2 DEF OpenUntilIntegrated, MayQueue
<1> QED BY <1>3, <1>4, <1>5, <1>6, <1>7 DEF T

\* The row of o is written again: what it is about stays.
Rewritten(R, Q, o) ==
  /\ OpRows(Q) /\ Len(Q) = Len(R) /\ o \in 1..Len(R)
  /\ \A p \in 1..Len(R) : p # o => Q[p] = R[p]
  /\ Q[o].parent = R[o].parent /\ Q[o].result = R[o].result /\ Q[o].head = R[o].head /\ Q[o].tree = R[o].tree

\* The job in the lock goes one step on; its operation's row with it when it starts.
Stepped(J, T, step) ==
  /\ T \in Seq(JobOf) /\ Len(T) = Len(J)
  /\ \A n \in 1..Len(J) : n # 1 => T[n] = J[n]
  /\ T[1].do = J[1].do /\ T[1].op = J[1].op /\ T[1].was = J[1].was /\ T[1].step = step

\* Setting the step of the first job is such a step.
LEMMA StepIsStepped ==
  ASSUME NEW J \in Seq(JobOf), J # << >>, NEW step \in {"executing", "checked", "ran"}
  PROVE  Stepped(J, [J EXCEPT ![1].step = step], step)
<1>1. Len(J) \in Nat /\ 1 \in 1..Len(J)
  BY EmptySeq, LenProperties
<1>2. J[1] \in JobOf
  BY <1>1, ElementOfSeq
<1> DEFINE e == [J[1] EXCEPT !.step = step]
<1>3. e \in JobOf /\ e.do = J[1].do /\ e.op = J[1].op /\ e.was = J[1].was /\ e.step = step
  BY <1>2 DEF JobOf
<1>4. [J EXCEPT ![1].step = step] = [J EXCEPT ![1] = e]
  BY <1>1, LenProperties
<1> HIDE DEF e
<1> QED BY <1>1, <1>3, <1>4, ExceptSeq DEF Stepped

\* It keeps everything, once the effect's operation executes.
LEMMA StepKeeps ==
  ASSUME NEW L, NEW K, NEW R, NEW D, NEW A, NEW J, NEW T, NEW step \in {"executing", "checked", "ran"},
         Sound(L, K, R, D, A, J), J # << >>, Stepped(J, T, step),
         Effect(J, 1) => J[1].step # "waiting"
  PROVE  Sound(L, K, R, D, A, T)
<1> USE DEF Sound
<1>1. Len(J) \in Nat /\ 1 \in 1..Len(J)
  BY EmptySeq, LenProperties DEF Jobs
<1>2. \A n \in 1..Len(J) : /\ T[n].do = J[n].do /\ T[n].op = J[n].op
                          /\ (T[n].step = J[n].step \/ n = 1)
  BY DEF Stepped
<1>3. Jobs(R, T)
  BY <1>1, <1>2 DEF Jobs, Stepped
<1>4. JobsInOrder(R, T)
  BY <1>1, <1>2, SMTT(30) DEF JobsInOrder, Effect, Stepped
<1>5. ChecksAreAlone(R, T)
  BY <1>1, <1>2 DEF ChecksAreAlone, Effect, Stepped
<1>6. ConflictsStay(L, R, T)
  BY <1>1, <1>2 DEF ConflictsStay, CheckOn, Stepped
<1>7. OpenUntilIntegrated(L, R, D, T)
  BY <1>1, <1>2 DEF OpenUntilIntegrated, Stepped
<1> QED BY <1>3, <1>4, <1>5, <1>6, <1>7

\* An operation starts: its row and its job say so together.
LEMMA StartKeeps ==
  ASSUME NEW L, NEW K, NEW R, NEW D, NEW A, NEW J, NEW Q, NEW T, Sound(L, K, R, D, A, J), J # << >>,
         Effect(J, 1), J[1].step = "waiting", Stepped(J, T, "executing"),
         Rewritten(R, Q, J[1].op), Q[J[1].op].state = "executing", Q[J[1].op].marked = R[J[1].op].marked
  PROVE  Sound(L, K, Q, D, A, T)
<1> USE DEF Sound
<1> DEFINE o == J[1].op
<1>1. Len(J) \in Nat /\ 1 \in 1..Len(J) /\ Len(R) \in Nat
  BY EmptySeq, LenProperties DEF Jobs, OpRows
<1>2. /\ o \in 1..Len(R) /\ R[o].state = "awaiting-approval" /\ On(R, o) /\ Q[o].state = "executing" /\ On(Q, o)
      /\ Q[o].marked = R[o].marked /\ ~R[o].marked
  BY <1>1 DEF JobsInOrder, Effect, On, Active, RowsInOrder
<1>3. \A p \in 1..Len(R) : /\ p # o => Q[p] = R[p]
                           /\ Q[p].parent = R[p].parent /\ Q[p].result = R[p].result /\ Q[p].head = R[p].head
                           /\ Q[p].tree = R[p].tree /\ Q[p].marked = R[p].marked
                           /\ On(Q, p) <=> On(R, p)
  BY <1>2 DEF Rewritten, On
<1>4. Len(Q) = Len(R) /\ OpRows(Q)
  BY DEF Rewritten
<1>5. Len(T) = Len(J) /\ T \in Seq(JobOf) /\ T[1].step = "executing"
  BY DEF Stepped
<1>6. \A n \in 1..Len(J) : T[n].do = J[n].do /\ T[n].op = J[n].op /\ (n # 1 => T[n].step = J[n].step)
  BY DEF Stepped
<1> HIDE DEF o, Sound
<1>s. Line(L) /\ Jobs(R, J) /\ RowsInOrder(L, R) /\ JobsInOrder(R, J) /\ ChecksAreAlone(R, J) /\ ConflictsStay(L, R, J)
      /\ AskedOnce(K, R, D, A) /\ OpenUntilIntegrated(L, R, D, J) /\ IntegratedOnce(R, D) /\ CommitsAreKnown(L, R)
  BY DEF Sound
<1>a. Jobs(Q, T)
  BY <1>s, <1>4, <1>5, <1>6 DEF Jobs
<1>b. RowsInOrder(L, Q)
  BY <1>s, <1>1, <1>2, <1>3, <1>4, SMTT(30) DEF RowsInOrder, MarkedRoot
<1>c. JobsInOrder(Q, T)
  <2> USE <1>s, <1>4, <1>5, <1>6
  <2>1. \A n \in 1..Len(J) : Effect(T, n) <=> n = 1
    BY <1>1 DEF JobsInOrder, Effect
  <2>2. \A n \in 1..Len(T) : T[n].do \in {"integrate", "continue", "check", "prepare"} => T[n].op \in 1..Len(Q)
    BY DEF JobsInOrder
  <2>3. \A n \in 1..Len(T) : Effect(T, n) =>
          Q[T[n].op].state = IF T[n].step = "waiting" THEN "awaiting-approval" ELSE "executing"
    BY <1>1, <1>2, <2>1 DEF o
  <2>4. \A n, m \in 1..Len(T) : Effect(T, n) /\ Effect(T, m) => n = m
    BY <2>1
  <2>5. \A n \in 1..Len(T) : T[n].step # "waiting" => n = 1
    BY DEF JobsInOrder
  <2>6. \A n \in 1..Len(T) : T[n].do \in {"check", "prepare"} => Q[T[n].op].state \notin {"awaiting-approval", "executing"}
    BY <1>2, <1>3, SMTT(30) DEF JobsInOrder
  <2>7. \A n \in 1..Len(T) : T[n].do = "prepare" => MarkedRoot(Q, T[n].op)
    BY <1>3 DEF JobsInOrder, MarkedRoot
  <2> QED BY <2>2, <2>3, <2>4, <2>5, <2>6, <2>7 DEF JobsInOrder
<1>d. ChecksAreAlone(Q, T)
  BY <1>s, <1>1, <1>2, <1>3, <1>4, <1>5, <1>6, SMTT(30) DEF ChecksAreAlone, Effect, o
<1>e. ConflictsStay(L, Q, T)
  <2>1. \A p \in 1..Len(R) : CheckOn(T, p) <=> CheckOn(J, p)
    BY <1>5, <1>6, SMTT(30) DEF CheckOn
  <2> QED BY <1>s, <1>3, <1>4, <2>1 DEF ConflictsStay, MarkedRoot, ExactAbove
<1>f. AskedOnce(K, Q, D, A)
  BY <1>s, <1>2, <1>3, <1>4 DEF AskedOnce, MarkedRoot
<1>g. OpenUntilIntegrated(L, Q, D, T)
  BY <1>s, <1>2, <1>3, <1>4, <1>5, <1>6, SMTT(30) DEF OpenUntilIntegrated, Jobs, JobsInOrder
<1>h. IntegratedOnce(Q, D)
  BY <1>s, <1>2, <1>3, <1>4 DEF IntegratedOnce
<1>i. CommitsAreKnown(L, Q)
  BY <1>s, <1>2, <1>3, <1>4, SMTT(30) DEF CommitsAreKnown
<1> QED BY <1>s, <1>4, <1>a, <1>b, <1>c, <1>d, <1>e, <1>f, <1>g, <1>h, <1>i DEF Sound


\* OpRows that wait for a decision are declined, or execute no more: no job is about them.
Declined(R, Q, J) ==
  /\ OpRows(Q) /\ Len(Q) = Len(R)
  /\ \A p \in 1..Len(R) : \/ Q[p] = R[p]
                          \/ /\ R[p].state = "awaiting-approval" /\ Q[p].state \in {"rejected", "revoked"}
                             /\ \A n \in 1..Len(J) : Effect(J, n) => J[n].op # p
  /\ \A p \in 1..Len(R) : /\ Q[p].parent = R[p].parent /\ Q[p].result = R[p].result /\ Q[p].head = R[p].head
                          /\ Q[p].tree = R[p].tree /\ Q[p].marked = R[p].marked

\* Nothing relied on an operation that was not decided.
LEMMA DeclineKeeps ==
  ASSUME NEW L, NEW K, NEW R, NEW D, NEW A, NEW J, NEW Q, Sound(L, K, R, D, A, J), Declined(R, Q, J)
  PROVE  Sound(L, K, Q, D, A, J)
<1>1. Len(R) \in Nat
  BY LenProperties DEF Sound, OpRows
<1>2. \A p \in 1..Len(R) : /\ Q[p].parent = R[p].parent /\ Q[p].result = R[p].result /\ Q[p].head = R[p].head
                           /\ Q[p].tree = R[p].tree /\ Q[p].marked = R[p].marked
                           /\ On(Q, p) => On(R, p)
                           /\ Q[p].state = R[p].state \/ (R[p].state = "awaiting-approval" /\ Q[p].state \in {"rejected", "revoked"})
                           /\ On(Q, p) => Q[p].state = R[p].state
  BY DEF Declined, On, Active
<1>3. Len(Q) = Len(R) /\ OpRows(Q)
  BY DEF Declined
<1>s. Line(L) /\ Jobs(R, J) /\ RowsInOrder(L, R) /\ JobsInOrder(R, J) /\ ChecksAreAlone(R, J) /\ ConflictsStay(L, R, J)
      /\ AskedOnce(K, R, D, A) /\ OpenUntilIntegrated(L, R, D, J) /\ IntegratedOnce(R, D) /\ CommitsAreKnown(L, R)
  BY DEF Sound
<1>4. \A n \in 1..Len(J) : Effect(J, n) => Q[J[n].op] = R[J[n].op]
  BY <1>s DEF JobsInOrder, Declined, Effect
<1>5. \A n \in 1..Len(J) : J[n].do \in {"check", "prepare"} => Q[J[n].op].state = R[J[n].op].state
  BY <1>s, <1>2 DEF JobsInOrder
<1>a. Jobs(Q, J)
  BY <1>s, <1>3 DEF Jobs
<1>b. RowsInOrder(L, Q)
  BY <1>s, <1>1, <1>2, <1>3 DEF RowsInOrder, MarkedRoot
<1>c. JobsInOrder(Q, J)
  BY <1>s, <1>1, <1>2, <1>3, <1>4, <1>5, SMTT(30) DEF JobsInOrder, MarkedRoot, Effect
<1>d. ChecksAreAlone(Q, J)
  BY <1>s, <1>1, <1>2, <1>3, <1>4 DEF ChecksAreAlone
<1>e. ConflictsStay(L, Q, J)
  BY <1>s, <1>1, <1>2, <1>3 DEF ConflictsStay, MarkedRoot, ExactAbove
<1>f. AskedOnce(K, Q, D, A)
  BY <1>s, <1>1, <1>2, <1>3 DEF AskedOnce, MarkedRoot
<1>g. OpenUntilIntegrated(L, Q, D, J)
  BY <1>s, <1>1, <1>2, <1>3, <1>4, <1>5, SMTT(30) DEF OpenUntilIntegrated, Jobs, JobsInOrder
<1>h. IntegratedOnce(Q, D)
  BY <1>s, <1>1, <1>2, <1>3 DEF IntegratedOnce
<1>i. CommitsAreKnown(L, Q)
  BY <1>s, <1>1, <1>2, <1>3, SMTT(30) DEF CommitsAreKnown
<1> QED BY <1>s, <1>3, <1>a, <1>b, <1>c, <1>d, <1>e, <1>f, <1>g, <1>h, <1>i DEF Sound

\* The outcome of an operation is written when no job holds it any more: after its own
\* run, or by a check.
MayApply(L, R, D, J, o, state) ==
  /\ R[o].state \in (Active \ {"awaiting-approval"}) \cup {"continued"}
  /\ state \in {"succeeded", "conflict", "empty", "mismatch", "unknown", "failed"}
  /\ state \in Active => \A p \in 1..Len(R) : p # o => ~On(R, p)
  /\ state \in {"conflict", "empty"} => Len(L) = R[o].head
  /\ state = "succeeded" => /\ On(R, o) /\ Len(L) = R[o].head + 1
                            /\ L[R[o].head + 1].of = R[o].result /\ L[R[o].head + 1].effect = R[o].tree
  /\ R[o].result \notin D
  /\ MarkedRoot(R, o) => ~ExactAbove(L, R, o)
  /\ \A n \in 1..Len(J) : Effect(J, n) => J[n].op # o
  /\ \A n \in 1..Len(J) : J[n].do = "check" => J[n].op = o

\* Whatever is recorded, the operations and the results stay sound.
LEMMA ApplyKeeps ==
  ASSUME NEW L, NEW K, NEW R, NEW D, NEW A, NEW J, NEW Q, NEW o, NEW state, Sound(L, K, R, D, A, J),
         Rewritten(R, Q, o), MayApply(L, R, D, J, o, state),
         Q[o].state = state, Q[o].marked = (R[o].marked \/ state \in {"conflict", "empty"})
  PROVE  Sound(L, K, Q, IF state = "succeeded" THEN D \cup {R[o].result} ELSE D, A, J)
<1> DEFINE E == IF state = "succeeded" THEN D \cup {R[o].result} ELSE D
<1>1. Len(R) \in Nat /\ Len(L) \in Nat /\ o \in 1..Len(R) /\ \A p \in 1..Len(R) : R[p].head \in Nat
  <2>1. \A p \in 1..Len(R) : R[p] \in OpRow
    BY ElementOfSeq DEF Sound, OpRows
  <2>2. \A p \in 1..Len(R) : R[p].head \in Nat
    <3>1. MaxLine \in Nat
      BY IntegrationsAssumption
    <3>2. \A p \in 1..Len(R) : R[p].head \in 0..MaxLine
      BY <2>1 DEF OpRow
    <3> QED BY <3>1, <3>2
  <2> QED BY <2>2, LenProperties DEF Sound, OpRows, Line, Rewritten
<1>2. \A p \in 1..Len(R) : /\ p # o => Q[p] = R[p]
                           /\ Q[p].parent = R[p].parent /\ Q[p].result = R[p].result /\ Q[p].head = R[p].head
                           /\ Q[p].tree = R[p].tree
                           /\ p # o => (On(Q, p) <=> On(R, p)) /\ (MarkedRoot(Q, p) <=> MarkedRoot(R, p))
  BY <1>1 DEF Rewritten, On, MarkedRoot
<1>3. Len(Q) = Len(R) /\ OpRows(Q)
  BY DEF Rewritten
<1>s. Line(L) /\ Jobs(R, J) /\ RowsInOrder(L, R) /\ JobsInOrder(R, J) /\ ChecksAreAlone(R, J) /\ ConflictsStay(L, R, J)
      /\ AskedOnce(K, R, D, A) /\ OpenUntilIntegrated(L, R, D, J) /\ IntegratedOnce(R, D) /\ CommitsAreKnown(L, R)
  BY DEF Sound
<1>4. /\ Q[o].state = state /\ Q[o].state \notin {"awaiting-approval", "executing", "continued", "rejected", "revoked"}
      /\ On(Q, o) => \A p \in 1..Len(R) : p # o => ~On(R, p)
      /\ On(Q, o) <=> state \notin {"succeeded", "failed"}
  BY DEF MayApply, On, Active
<1>5. /\ MarkedRoot(R, o) => MarkedRoot(Q, o)
      /\ MarkedRoot(Q, o) => MarkedRoot(R, o) \/ Len(L) = R[o].head
      /\ On(R, o) \/ MarkedRoot(R, o)
  BY <1>s, <1>1, <1>2 DEF MarkedRoot, MayApply, On, Active, RowsInOrder
<1>6. state = "succeeded" => On(R, o) /\ ~MarkedRoot(R, o) /\ o = Len(R)
  BY <1>s, <1>1 DEF MayApply, RowsInOrder, ExactAbove, MarkedRoot
<1> HIDE DEF E
<1>a. Jobs(Q, J)
  BY <1>s, <1>3 DEF Jobs
<1>b. RowsInOrder(L, Q)
  <2>1. \A p, q \in 1..Len(Q) : On(Q, p) /\ On(Q, q) => p = q
    BY <1>s, <1>1, <1>2, <1>3, <1>4 DEF RowsInOrder
  <2>2. \A p \in 1..Len(Q) : On(Q, p) /\ ~MarkedRoot(Q, p) => p = Len(Q)
    BY <1>s, <1>1, <1>2, <1>3, <1>5 DEF RowsInOrder
  <2>3. \A p \in 1..Len(Q) : Q[p].head <= Len(L)
    BY <1>s, <1>2, <1>3 DEF RowsInOrder
  <2>4. \A p, q \in 1..Len(Q) : p < q => Q[p].head <= Q[q].head
    BY <1>s, <1>2, <1>3 DEF RowsInOrder
  <2>5. \A p \in 1..Len(Q) : Q[p].parent = 0 => Q[p].tree = "exact"
    BY <1>s, <1>2, <1>3 DEF RowsInOrder
  <2>6. \A p \in 1..Len(Q) : Q[p].state = "continued" => MarkedRoot(Q, p)
    BY <1>s, <1>2, <1>3, <1>4 DEF RowsInOrder
  <2>7. \A p \in 1..Len(Q) : Q[p].state \in {"awaiting-approval", "executing"} => ~Q[p].marked
    BY <1>s, <1>2, <1>3, <1>4 DEF RowsInOrder
  <2> QED BY <2>1, <2>2, <2>3, <2>4, <2>5, <2>6, <2>7 DEF RowsInOrder
<1>c. JobsInOrder(Q, J)
  <2> USE <1>s, <1>3
  <2>1. \A n \in 1..Len(J) : J[n].do \in {"integrate", "continue", "check", "prepare"} => J[n].op \in 1..Len(Q)
    BY DEF JobsInOrder
  <2>2. \A n \in 1..Len(J) : Effect(J, n) =>
          Q[J[n].op].state = IF J[n].step = "waiting" THEN "awaiting-approval" ELSE "executing"
    BY <1>2 DEF JobsInOrder, MayApply, Effect
  <2>3. \A n \in 1..Len(J) : J[n].do \in {"check", "prepare"} => Q[J[n].op].state \notin {"awaiting-approval", "executing"}
    BY <1>2, <1>4 DEF JobsInOrder
  <2>4. \A n \in 1..Len(J) : J[n].do = "prepare" => MarkedRoot(Q, J[n].op)
    BY <1>2, <1>5 DEF JobsInOrder
  <2> QED BY <2>1, <2>2, <2>3, <2>4 DEF JobsInOrder
<1>d. ChecksAreAlone(Q, J)
  BY <1>s, <1>1, <1>2, <1>3, <1>4 DEF ChecksAreAlone, MayApply
<1>e. ConflictsStay(L, Q, J)
  <2>1. \A p \in 1..Len(R) : p # o /\ MarkedRoot(Q, p) /\ (On(Q, p) \/ CheckOn(J, p)) => ~ExactAbove(L, Q, p)
    BY <1>s, <1>2 DEF ConflictsStay, ExactAbove
  <2>2. MarkedRoot(Q, o) => ~ExactAbove(L, Q, o)
    BY <1>1, <1>2, <1>5 DEF MayApply, ExactAbove
  <2> QED BY <1>3, <2>1, <2>2 DEF ConflictsStay
<1>f. AskedOnce(K, Q, E, A)
  <2>1. A # NoResult => state # "succeeded"
    BY <1>s, <1>1, <1>6 DEF AskedOnce
  <2>2. A # NoResult /\ On(Q, o) => MarkedRoot(Q, o)
    BY <1>s, <1>1, <1>5 DEF AskedOnce
  <2> QED BY <1>s, <1>2, <1>3, <1>4, <2>1, <2>2 DEF AskedOnce, E
<1>g. OpenUntilIntegrated(L, Q, E, J)
  <2>1. \A p \in 1..Len(Q) : On(Q, p) => Q[p].result \notin E
    <3>1. CASE state = "succeeded"
      BY <1>s, <1>1, <1>2, <1>3, <1>4, <1>6, <3>1 DEF RowsInOrder
    <3>2. CASE state # "succeeded"
      BY <1>s, <1>2, <1>3, <3>2 DEF OpenUntilIntegrated, MayApply, E
    <3> QED BY <3>1, <3>2
  <2>2. \A n \in 1..Len(J) : J[n].do = "check" /\ Q[J[n].op].state \notin Final => Q[J[n].op].result \notin E
    BY <1>1, <1>2, <1>4 DEF MayApply, E, Final
  <2>3. \A p \in 1..Len(Q) : Q[p].result \in E => Len(L) > Q[p].head
    <3> TAKE p \in 1..Len(Q)
    <3>1. CASE Q[p].result \in D
      BY <1>s, <1>2, <1>3, <3>1 DEF OpenUntilIntegrated
    <3>2. CASE state = "succeeded"
      <4>1. Len(L) = R[o].head + 1 /\ o = Len(R)
        BY <1>6, <3>2 DEF MayApply
      <4>2. p = o \/ R[p].head <= R[o].head
        BY <1>s, <1>1, <1>3, <4>1 DEF RowsInOrder
      <4> QED BY <1>1, <1>2, <1>3, <4>1, <4>2
    <3> QED BY <3>1, <3>2 DEF E
  <2> QED BY <2>1, <2>2, <2>3 DEF OpenUntilIntegrated
<1>h. IntegratedOnce(Q, E)
  <2>1. \A p \in 1..Len(R) : R[p].state = "succeeded" => p # o
    BY DEF MayApply, Active
  <2>2. \A p \in 1..Len(Q) : Q[p].state = "succeeded" => Q[p].result \in E
    BY <1>s, <1>2, <1>3, <1>4 DEF IntegratedOnce, E
  <2>3. \A p, q \in 1..Len(Q) : Q[p].state = "succeeded" /\ Q[q].state = "succeeded" /\ Q[p].result = Q[q].result => p = q
    BY <1>s, <1>1, <1>2, <1>3, <1>4 DEF IntegratedOnce, MayApply
  <2>4. \A r \in E : \E p \in 1..Len(Q) : Q[p].result = r /\ Q[p].state = "succeeded"
    <3> TAKE r \in E
    <3>1. CASE r \in D
      BY <1>s, <1>2, <1>3, <2>1, <3>1 DEF IntegratedOnce
    <3>2. CASE state = "succeeded" /\ r = R[o].result
      BY <1>1, <1>2, <1>3, <3>2
    <3> QED BY <3>1, <3>2 DEF E
  <2> QED BY <2>2, <2>3, <2>4 DEF IntegratedOnce
<1>i. CommitsAreKnown(L, Q)
  <2>1. \A p \in 1..Len(Q) : Q[p].state \in {"awaiting-approval", "rejected", "revoked"} => \A n \in 1..Len(L) : L[n].by # p
    BY <1>s, <1>2, <1>3, <1>4 DEF CommitsAreKnown
  <2>2. \A p \in 1..Len(Q) : Q[p].state = "succeeded" =>
          Len(L) > Q[p].head /\ L[Q[p].head + 1].of = Q[p].result /\ L[Q[p].head + 1].effect = Q[p].tree
    <3> TAKE p \in 1..Len(Q)
    <3>1. CASE p # o
      BY <1>s, <1>2, <1>3, <3>1 DEF CommitsAreKnown
    <3>2. CASE p = o
      BY <1>1, <1>2, <3>2 DEF MayApply
    <3> QED BY <3>1, <3>2
  <2> QED BY <1>s, <1>3, <2>1, <2>2 DEF CommitsAreKnown
<1> QED BY <1>s, <1>3, <1>a, <1>b, <1>c, <1>d, <1>e, <1>f, <1>g, <1>h, <1>i DEF Sound, E

\* A conflict is released to its continuation.
LEMMA ReleaseKeeps ==
  ASSUME NEW L, NEW K, NEW R, NEW D, NEW A, NEW J, NEW Q, NEW o, Sound(L, K, R, D, A, J),
         Rewritten(R, Q, o), R[o].state \notin Final \cup {"awaiting-approval", "executing"}, MarkedRoot(R, o),
         Q[o].state = "continued", Q[o].marked = R[o].marked
  PROVE  Sound(L, K, Q, D, A, J)
<1>1. Len(R) \in Nat /\ o \in 1..Len(R) /\ ~On(Q, o)
  BY LenProperties DEF Sound, OpRows, Rewritten, On, Active
<1>2. \A p \in 1..Len(R) : /\ p # o => Q[p] = R[p]
                           /\ Q[p].parent = R[p].parent /\ Q[p].result = R[p].result /\ Q[p].head = R[p].head
                           /\ Q[p].tree = R[p].tree /\ Q[p].marked = R[p].marked
                           /\ On(Q, p) => On(R, p)
  BY <1>1 DEF Rewritten, On
<1>3. Len(Q) = Len(R) /\ OpRows(Q)
  BY DEF Rewritten
<1>s. Line(L) /\ Jobs(R, J) /\ RowsInOrder(L, R) /\ JobsInOrder(R, J) /\ ChecksAreAlone(R, J) /\ ConflictsStay(L, R, J)
      /\ AskedOnce(K, R, D, A) /\ OpenUntilIntegrated(L, R, D, J) /\ IntegratedOnce(R, D) /\ CommitsAreKnown(L, R)
  BY DEF Sound
<1>4. \A n \in 1..Len(J) : Effect(J, n) => J[n].op # o
  BY <1>s DEF JobsInOrder
<1>a. Jobs(Q, J)
  BY <1>s, <1>3 DEF Jobs
<1>b. RowsInOrder(L, Q)
  <2> USE <1>s, <1>1, <1>2, <1>3
  <2>1. \A p, q \in 1..Len(Q) : On(Q, p) /\ On(Q, q) => p = q
    BY DEF RowsInOrder
  <2>2. \A p \in 1..Len(Q) : On(Q, p) /\ ~MarkedRoot(Q, p) => p = Len(Q)
    BY DEF RowsInOrder, MarkedRoot
  <2>3. \A p \in 1..Len(Q) : Q[p].head <= Len(L)
    BY DEF RowsInOrder
  <2>4. \A p, q \in 1..Len(Q) : p < q => Q[p].head <= Q[q].head
    BY DEF RowsInOrder
  <2>5. \A p \in 1..Len(Q) : Q[p].parent = 0 => Q[p].tree = "exact"
    BY DEF RowsInOrder
  <2>6. \A p \in 1..Len(Q) : Q[p].state = "continued" => MarkedRoot(Q, p)
    BY DEF RowsInOrder, MarkedRoot
  <2>7. \A p \in 1..Len(Q) : Q[p].state \in {"awaiting-approval", "executing"} => ~Q[p].marked
    BY DEF RowsInOrder
  <2> QED BY <2>1, <2>2, <2>3, <2>4, <2>5, <2>6, <2>7 DEF RowsInOrder
<1>c. JobsInOrder(Q, J)
  BY <1>s, <1>1, <1>2, <1>3, <1>4, SMTT(30) DEF JobsInOrder, MarkedRoot, Effect
<1>d. ChecksAreAlone(Q, J)
  BY <1>s, <1>1, <1>2, <1>3, <1>4 DEF ChecksAreAlone
<1>e. ConflictsStay(L, Q, J)
  BY <1>s, <1>1, <1>2, <1>3 DEF ConflictsStay, MarkedRoot, ExactAbove
<1>f. AskedOnce(K, Q, D, A)
  BY <1>s, <1>1, <1>2, <1>3 DEF AskedOnce, MarkedRoot
<1>g. OpenUntilIntegrated(L, Q, D, J)
  BY <1>s, <1>1, <1>2, <1>3, SMTT(30) DEF OpenUntilIntegrated, Jobs, JobsInOrder
<1>h. IntegratedOnce(Q, D)
  BY <1>s, <1>1, <1>2, <1>3 DEF IntegratedOnce, Final
<1>i. CommitsAreKnown(L, Q)
  BY <1>s, <1>1, <1>2, <1>3 DEF CommitsAreKnown
<1> QED BY <1>s, <1>3, <1>a, <1>b, <1>c, <1>d, <1>e, <1>f, <1>g, <1>h, <1>i DEF Sound

\* A new row, awaiting its approval at the head the line has, when no other is active.
MayAdd(L, R, D, A, row) ==
  /\ row \in OpRow /\ row.state = "awaiting-approval" /\ ~row.marked /\ row.head = Len(L)
  /\ row.parent = 0 => row.tree = "exact"
  /\ row.result \notin D /\ A = NoResult
  /\ \A p \in 1..Len(R) : ~On(R, p)

\* A new operation takes its place after the others.
LEMMA AddKeeps ==
  ASSUME NEW L, NEW K, NEW R, NEW D, NEW A, NEW J, NEW row, Sound(L, K, R, D, A, J), MayAdd(L, R, D, A, row)
  PROVE  Sound(L, K, Append(R, row), D, A, J)
<1> DEFINE Q == Append(R, row)
<1>1. /\ Q \in Seq(OpRow) /\ Len(R) \in Nat /\ Len(Q) = Len(R) + 1 /\ Q[Len(R) + 1] = row
      /\ \A p \in 1..Len(R) : Q[p] = R[p]
  BY DEF Sound, OpRows, MayAdd
<1> HIDE DEF Q
<1>2. \A p \in 1..Len(Q) : (p = Len(R) + 1 /\ Q[p] = row) \/ (p \in 1..Len(R) /\ Q[p] = R[p])
  <2> TAKE p \in 1..Len(Q)
  <2>1. p = Len(R) + 1 \/ p \in 1..Len(R)
    BY <1>1
  <2> QED BY <1>1, <2>1
<1>3. \A p \in 1..Len(R) : p \in 1..Len(Q) /\ p # Len(R) + 1 /\ (On(Q, p) <=> On(R, p)) /\ (MarkedRoot(Q, p) <=> MarkedRoot(R, p))
  BY <1>1 DEF On, MarkedRoot
<1>4. Len(R) + 1 \in 1..Len(Q) /\ On(Q, Len(R) + 1) /\ ~MarkedRoot(Q, Len(R) + 1)
  BY <1>1 DEF On, MarkedRoot, MayAdd, Active
<1>s. Line(L) /\ Jobs(R, J) /\ RowsInOrder(L, R) /\ JobsInOrder(R, J) /\ ChecksAreAlone(R, J) /\ ConflictsStay(L, R, J)
      /\ AskedOnce(K, R, D, A) /\ OpenUntilIntegrated(L, R, D, J) /\ IntegratedOnce(R, D) /\ CommitsAreKnown(L, R)
  BY DEF Sound
<1>5. Len(L) \in Nat
  BY <1>s, LenProperties DEF Line
<1>a. Jobs(Q, J)
  BY <1>s, <1>1 DEF Jobs
<1>b. RowsInOrder(L, Q)
  <2>1. \A p, q \in 1..Len(Q) : On(Q, p) /\ On(Q, q) => p = q
    BY <1>2, <1>3 DEF MayAdd
  <2>2. \A p \in 1..Len(Q) : On(Q, p) /\ ~MarkedRoot(Q, p) => p = Len(Q)
    BY <1>1, <1>2, <1>3 DEF MayAdd
  <2>3. \A p \in 1..Len(Q) : Q[p].head <= Len(L)
    BY <1>s, <1>2, <1>5 DEF RowsInOrder, MayAdd
  <2>4. \A p, q \in 1..Len(Q) : p < q => Q[p].head <= Q[q].head
    BY <1>s, <1>1, <1>2, <1>5, <2>3 DEF RowsInOrder, MayAdd
  <2>5. \A p \in 1..Len(Q) : Q[p].parent = 0 => Q[p].tree = "exact"
    BY <1>s, <1>2 DEF RowsInOrder, MayAdd
  <2>6. \A p \in 1..Len(Q) : Q[p].state = "continued" => MarkedRoot(Q, p)
    BY <1>s, <1>2, <1>3 DEF RowsInOrder, MayAdd
  <2>7. \A p \in 1..Len(Q) : Q[p].state \in {"awaiting-approval", "executing"} => ~Q[p].marked
    BY <1>s, <1>2 DEF RowsInOrder, MayAdd
  <2> QED BY <2>1, <2>2, <2>3, <2>4, <2>5, <2>6, <2>7 DEF RowsInOrder
<1>c. JobsInOrder(Q, J)
  BY <1>s, <1>1, <1>3 DEF JobsInOrder, Effect
<1>d. ChecksAreAlone(Q, J)
  BY <1>s, <1>2 DEF ChecksAreAlone, MayAdd, On
<1>e. ConflictsStay(L, Q, J)
  <2>1. \A p \in 1..Len(R) : Q[p] = R[p]
    BY <1>1
  <2> QED BY <1>s, <1>2, <1>3, <1>4, <2>1 DEF ConflictsStay, ExactAbove
<1>f. AskedOnce(K, Q, D, A)
  BY DEF AskedOnce, MayAdd
<1>g. OpenUntilIntegrated(L, Q, D, J)
  <2>1. \A p \in 1..Len(Q) : On(Q, p) => Q[p].result \notin D
    BY <1>2, <1>3 DEF MayAdd
  <2>2. \A n \in 1..Len(J) : J[n].do = "check" /\ Q[J[n].op].state \notin Final => Q[J[n].op].result \notin D
    BY <1>s, <1>1 DEF OpenUntilIntegrated, JobsInOrder
  <2>3. \A p \in 1..Len(Q) : Q[p].result \in D => Len(L) > Q[p].head
    BY <1>s, <1>2 DEF OpenUntilIntegrated, MayAdd
  <2> QED BY <2>1, <2>2, <2>3 DEF OpenUntilIntegrated
<1>h. IntegratedOnce(Q, D)
  <2>1. \A p \in 1..Len(Q) : Q[p].state = "succeeded" => p \in 1..Len(R) /\ Q[p] = R[p]
    BY <1>2 DEF MayAdd
  <2> QED BY <1>s, <1>1, <1>3, <2>1 DEF IntegratedOnce
<1>i. CommitsAreKnown(L, Q)
  <2>1. \A n \in 1..Len(L) : L[n].by \in {0} \cup 1..Len(Q) /\ L[n].by # Len(R) + 1
    BY <1>s, <1>1 DEF CommitsAreKnown
  <2>2. \A p \in 1..Len(Q) : Q[p].state = "succeeded" => p \in 1..Len(R) /\ Q[p] = R[p]
    BY <1>2 DEF MayAdd
  <2>3. \A p \in 1..Len(Q) : Q[p].state \in {"awaiting-approval", "rejected", "revoked"} => \A n \in 1..Len(L) : L[n].by # p
    BY <1>s, <1>2, <2>1 DEF CommitsAreKnown
  <2> QED BY <1>s, <2>1, <2>2, <2>3 DEF CommitsAreKnown
<1> QED BY <1>s, <1>1, <1>a, <1>b, <1>c, <1>d, <1>e, <1>f, <1>g, <1>h, <1>i DEF Sound, OpRows, Q

\* A commit of the operation in the lock, or of the user, who makes no exact one.
LEMMA CommitKeeps ==
  ASSUME NEW L, NEW K, NEW R, NEW D, NEW A, NEW J, NEW c \in Commits, Sound(L, K, R, D, A, J),
         \/ c.by = 0 /\ c.effect # "exact"
         \/ J # << >> /\ Effect(J, 1) /\ J[1].step # "waiting" /\ c.by = J[1].op
  PROVE  Sound(Append(L, c), NoResult, R, D, A, J)
<1> DEFINE M == Append(L, c)
<1>s. Line(L) /\ OpRows(R) /\ Jobs(R, J) /\ RowsInOrder(L, R) /\ JobsInOrder(R, J) /\ ChecksAreAlone(R, J) /\ ConflictsStay(L, R, J)
      /\ AskedOnce(K, R, D, A) /\ OpenUntilIntegrated(L, R, D, J) /\ IntegratedOnce(R, D) /\ CommitsAreKnown(L, R)
  BY DEF Sound
<1>1. /\ M \in Seq(Commits) /\ Len(L) \in Nat /\ Len(M) = Len(L) + 1 /\ M[Len(L) + 1] = c
      /\ \A n \in 1..Len(L) : M[n] = L[n]
  BY <1>s DEF Line
<1> HIDE DEF M
<1>2. \A n \in 1..Len(M) : (n = Len(L) + 1 /\ M[n] = c) \/ (n \in 1..Len(L) /\ M[n] = L[n])
  <2> TAKE n \in 1..Len(M)
  <2>1. n = Len(L) + 1 \/ n \in 1..Len(L)
    BY <1>1
  <2> QED BY <1>1, <2>1
<1>3. \A p \in 1..Len(R) : R[p].head \in Nat /\ R[p].head <= Len(L)
  <2>1. \A p \in 1..Len(R) : R[p] \in OpRow
    BY <1>s, ElementOfSeq DEF OpRows
  <2>2. MaxLine \in Nat
    BY IntegrationsAssumption
  <2>3. \A p \in 1..Len(R) : R[p].head \in 0..MaxLine
    BY <2>1 DEF OpRow
  <2> QED BY <1>s, <2>2, <2>3 DEF RowsInOrder
<1>4. (c.by = 0 /\ c.effect # "exact") \/ (J # << >> /\ c.by \in 1..Len(R) /\ c.by = J[1].op /\ Effect(J, 1) /\ R[c.by].state = "executing" /\ 1 \in 1..Len(J))
  <2>1. J # << >> => 1 \in 1..Len(J) /\ Len(J) \in Nat
    BY <1>s, EmptySeq, LenProperties DEF Jobs
  <2> QED BY <1>s, <2>1 DEF JobsInOrder, Effect
<1>5. \A p \in 1..Len(R) : Len(L) > R[p].head => M[R[p].head + 1] = L[R[p].head + 1] /\ Len(M) > R[p].head
  BY <1>1, <1>3
<1>a. RowsInOrder(M, R)
  <2>1. \A p \in 1..Len(R) : R[p].head <= Len(M)
    BY <1>1, <1>3
  <2> QED BY <1>s, <2>1 DEF RowsInOrder
<1>b. ConflictsStay(M, R, J)
  <2> SUFFICES ASSUME NEW p \in 1..Len(R), MarkedRoot(R, p), On(R, p) \/ CheckOn(J, p) PROVE ~ExactAbove(M, R, p)
    BY DEF ConflictsStay
  <2>1. CASE Len(L) > R[p].head
    BY <1>s, <1>5, <2>1 DEF ConflictsStay, ExactAbove
  <2>2. CASE Len(L) = R[p].head /\ c.effect # "exact"
    BY <1>1, <2>2 DEF ExactAbove
  <2>3. CASE c.effect = "exact"
    <3>1. /\ c.by \in 1..Len(R) /\ c.by = J[1].op /\ Effect(J, 1) /\ R[c.by].state = "executing" /\ 1 \in 1..Len(J)
          /\ ~R[c.by].marked /\ On(R, c.by)
      <4>1. c.by # 0
        BY <1>4, <2>3
      <4>2. /\ c.by \in 1..Len(R) /\ c.by = J[1].op /\ Effect(J, 1) /\ R[c.by].state = "executing" /\ 1 \in 1..Len(J)
        BY <1>4, <4>1
      <4> QED BY <1>s, <4>2 DEF RowsInOrder, On, Active
    <3>2. p # c.by
      BY <3>1 DEF MarkedRoot
    <3>3. ~On(R, p)
      BY <1>s, <3>1, <3>2 DEF RowsInOrder
    <3>4. PICK n \in 1..Len(J) : J[n].do = "check" /\ J[n].op = p
      BY <3>3 DEF CheckOn
    <3>5. n # 1 /\ 1 < n
      BY <3>1, <3>4 DEF Effect
    <3>6. J[1].op = p
      BY <1>s, <3>1, <3>4, <3>5 DEF ChecksAreAlone
    <3> QED BY <3>1, <3>2, <3>6
  <2> QED BY <1>1, <1>3, <2>1, <2>2, <2>3
<1>c. AskedOnce(NoResult, R, D, A)
  BY <1>s DEF AskedOnce
<1>d. OpenUntilIntegrated(M, R, D, J)
  BY <1>s, <1>1, <1>3 DEF OpenUntilIntegrated
<1>e. CommitsAreKnown(M, R)
  <2>1. \A n \in 1..Len(M) : M[n].by \in {0} \cup 1..Len(R)
    BY <1>s, <1>2, <1>4 DEF CommitsAreKnown
  <2>2. \A p \in 1..Len(R) : R[p].state \in {"awaiting-approval", "rejected", "revoked"} => \A n \in 1..Len(M) : M[n].by # p
    BY <1>s, <1>2, <1>4 DEF CommitsAreKnown
  <2>3. \A p \in 1..Len(R) : R[p].state = "succeeded" =>
          Len(M) > R[p].head /\ M[R[p].head + 1].of = R[p].result /\ M[R[p].head + 1].effect = R[p].tree
    BY <1>s, <1>5 DEF CommitsAreKnown
  <2> QED BY <2>1, <2>2, <2>3 DEF CommitsAreKnown
<1> QED BY <1>s, <1>1, <1>a, <1>b, <1>c, <1>d, <1>e DEF Sound, Line, M

\* The cherry-pick in progress and the question concern AskedOnce alone.
LEMMA PickingKeeps ==
  ASSUME NEW L, NEW K, NEW R, NEW D, NEW A, NEW J, NEW P, Sound(L, K, R, D, A, J), P \in {K, NoResult} \/ A = NoResult
  PROVE  Sound(L, P, R, D, A, J)
BY DEF Sound, AskedOnce

\* The question is put when nothing is open, and dropped at any time.
LEMMA AskKeeps ==
  ASSUME NEW L, NEW K, NEW R, NEW D, NEW A, NEW J, NEW B, Sound(L, K, R, D, A, J),
         \/ B = NoResult
         \/ K = NoResult /\ B \notin D /\ \A p \in 1..Len(R) : ~On(R, p)
  PROVE  Sound(L, K, R, D, B, J)
BY DEF Sound, AskedOnce

\* A restart: nothing waits, no operation awaits a decision or executes.
LEMMA RestartKeeps ==
  ASSUME NEW L, NEW K, NEW R, NEW D, NEW A, NEW J, NEW Q, Sound(L, K, R, D, A, J), OpRows(Q), Len(Q) = Len(R),
         \A p \in 1..Len(R) : /\ Q[p].parent = R[p].parent /\ Q[p].result = R[p].result /\ Q[p].head = R[p].head
                              /\ Q[p].tree = R[p].tree /\ Q[p].marked = R[p].marked
                              /\ Q[p].state = RecoveredIntegration(R[p].state)
  PROVE  Sound(L, K, Q, D, NoResult, << >>)
<1>s. Line(L) /\ Jobs(R, J) /\ RowsInOrder(L, R) /\ JobsInOrder(R, J) /\ ChecksAreAlone(R, J) /\ ConflictsStay(L, R, J)
      /\ AskedOnce(K, R, D, A) /\ OpenUntilIntegrated(L, R, D, J) /\ IntegratedOnce(R, D) /\ CommitsAreKnown(L, R)
  BY DEF Sound
<1>1. \A p \in 1..Len(R) : On(Q, p) => On(R, p)
  BY DEF On, Active, RecoveredIntegration
<1>2. \A p \in 1..Len(R) : /\ Q[p].state \notin {"awaiting-approval", "executing"}
                           /\ Q[p].state = "succeeded" <=> R[p].state = "succeeded"
                           /\ Q[p].state = "continued" <=> R[p].state = "continued"
                           /\ Q[p].state \in {"rejected", "revoked"} => R[p].state \in {"awaiting-approval", "rejected", "revoked"}
  BY DEF RecoveredIntegration
<1>3. << >> \in Seq(JobOf) /\ Len(<< >>) = 0 /\ 1..0 = {}
  BY EmptySeq
<1>a. Jobs(Q, << >>) /\ JobsInOrder(Q, << >>) /\ ChecksAreAlone(Q, << >>)
  BY <1>3 DEF Jobs, JobsInOrder, ChecksAreAlone, Effect
<1>b. RowsInOrder(L, Q)
  <2> USE <1>s, <1>1, <1>2
  <2>1. \A p, q \in 1..Len(Q) : On(Q, p) /\ On(Q, q) => p = q
    BY DEF RowsInOrder
  <2>2. \A p \in 1..Len(Q) : On(Q, p) /\ ~MarkedRoot(Q, p) => p = Len(Q)
    BY DEF RowsInOrder, MarkedRoot
  <2>3. \A p \in 1..Len(Q) : Q[p].head <= Len(L)
    BY DEF RowsInOrder
  <2>4. \A p, q \in 1..Len(Q) : p < q => Q[p].head <= Q[q].head
    BY DEF RowsInOrder
  <2>5. \A p \in 1..Len(Q) : Q[p].parent = 0 => Q[p].tree = "exact"
    BY DEF RowsInOrder
  <2>6. \A p \in 1..Len(Q) : Q[p].state = "continued" => MarkedRoot(Q, p)
    BY DEF RowsInOrder, MarkedRoot
  <2> QED BY <2>1, <2>2, <2>3, <2>4, <2>5, <2>6 DEF RowsInOrder
<1>c. ConflictsStay(L, Q, << >>)
  BY <1>s, <1>1, <1>3 DEF ConflictsStay, CheckOn, MarkedRoot, ExactAbove
<1>d. AskedOnce(K, Q, D, NoResult)
  BY DEF AskedOnce
<1>e. OpenUntilIntegrated(L, Q, D, << >>)
  BY <1>s, <1>1, <1>3 DEF OpenUntilIntegrated
<1>f. IntegratedOnce(Q, D)
  BY <1>s, <1>2 DEF IntegratedOnce
<1>g. CommitsAreKnown(L, Q)
  BY <1>s, <1>2 DEF CommitsAreKnown
<1> QED BY <1>s, <1>a, <1>b, <1>c, <1>d, <1>e, <1>f, <1>g DEF Sound

-----------------------------------------------------------------------------
\* What the actions do to rows and jobs.
WrittenState(R, Q, o, state) == Q = [R EXCEPT ![o].state = state]
\* The same with the mark of a conflict or an empty result.
WrittenOutcome(R, Q, o, state) ==
  Q = [R EXCEPT ![o].state = state, ![o].marked = @ \/ state \in {"conflict", "empty"}]

\* Writing a state changes one row, and only its state.
LEMMA StateWritten ==
  ASSUME NEW R, NEW Q, OpRows(R), NEW o \in 1..Len(R), NEW state \in States, WrittenState(R, Q, o, state)
  PROVE  Rewritten(R, Q, o) /\ Q[o].state = state /\ Q[o].marked = R[o].marked
<1>1. R[o] \in OpRow /\ R \in [1..Len(R) -> OpRow] /\ R \in Seq(OpRow)
  BY ElementOfSeq, LenProperties DEF OpRows
<1> DEFINE e == [R[o] EXCEPT !.state = state]
<1>2. /\ e \in OpRow /\ e.state = state /\ e.marked = R[o].marked
      /\ e.parent = R[o].parent /\ e.result = R[o].result /\ e.head = R[o].head /\ e.tree = R[o].tree
  BY <1>1 DEF OpRow
<1>4. Q = [R EXCEPT ![o] = e]
  BY <1>1 DEF WrittenState
<1> HIDE DEF e
<1>5. Q \in Seq(OpRow) /\ Len(Q) = Len(R) /\ Q[o] = e /\ \A p \in 1..Len(R) : p # o => Q[p] = R[p]
  BY <1>1, <1>2, <1>4, ExceptSeq
<1> QED BY <1>2, <1>4, <1>5 DEF Rewritten, OpRows

\* An outcome that marks its row as well.
LEMMA OutcomeWritten ==
  ASSUME NEW R, OpRows(R), NEW o \in 1..Len(R), NEW state \in States,
         NEW Q, WrittenOutcome(R, Q, o, state)
  PROVE  /\ Rewritten(R, Q, o)
         /\ Q[o].state = state /\ Q[o].marked = (R[o].marked \/ state \in {"conflict", "empty"})
<1>1. R[o] \in OpRow /\ R \in [1..Len(R) -> OpRow] /\ R \in Seq(OpRow)
  BY ElementOfSeq, LenProperties DEF OpRows
<1> DEFINE mark == R[o].marked \/ state \in {"conflict", "empty"}
           m == [R[o] EXCEPT !.state = state, !.marked = mark]
<1>2. mark \in BOOLEAN
  OBVIOUS
<1>3. Q = [R EXCEPT ![o] = m]
  BY <1>1 DEF WrittenOutcome
<1>4. mark = (R[o].marked \/ state \in {"conflict", "empty"})
  OBVIOUS
<1> HIDE DEF mark
<1>5. /\ m \in OpRow /\ m.state = state /\ m.marked = mark
      /\ m.parent = R[o].parent /\ m.result = R[o].result /\ m.head = R[o].head /\ m.tree = R[o].tree
  BY <1>1, <1>2 DEF OpRow
<1> HIDE DEF m
<1>6. /\ Q \in Seq(OpRow) /\ Len(Q) = Len(R) /\ Q[o] = m /\ \A p \in 1..Len(R) : p # o => Q[p] = R[p]
  BY <1>1, <1>3, <1>5, ExceptSeq
<1> QED BY <1>4, <1>5, <1>6 DEF Rewritten, OpRows

\* The inductive invariant, of the variables.
Held == Sound(line, picking, integrations, integrated, asking.result, jobs)
Bounded == /\ Len(line) \in 0..MaxLine /\ Len(integrations) \in 0..MaxIntegrations
           /\ picking \in Results \cup {NoResult} /\ index \in {"clean", "dirty", "unmerged", "same"} \cup Resolutions
           /\ integrated \subseteq Results
           /\ asking \in [result: Results \cup {NoResult}, head: 0..MaxLine] /\ rootCancelled \in BOOLEAN

\* What changes none of them keeps it.
LEMMA SameSound ==
  ASSUME Held, UNCHANGED <<line, picking, integrations, integrated, asking, jobs>>
  PROVE  Held'
BY DEF Held

\* One lemma per operation from here: Ask ...
LEMMA AskStep ==
  ASSUME Held, Bounded, NEW r \in Results, Ask(r)
  PROVE  Held' /\ Bounded'
<1>1. asking'.result = r /\ asking' \in [result: Results \cup {NoResult}, head: 0..MaxLine]
  BY DEF Ask, Bounded
<1>2. picking = NoResult /\ r \notin integrated /\ \A p \in 1..Len(integrations) : ~On(integrations, p)
  BY DEF Ask, CleanTree, ActiveOperation, Ids, On
<1>3. Sound(line, picking, integrations, integrated, r, jobs)
  BY <1>2, AskKeeps DEF Held
<1>4. UNCHANGED <<line, picking, index, integrations, integrated, jobs, rootCancelled>>
  BY DEF Ask, inGit
<1> QED BY <1>1, <1>3, <1>4 DEF Held, Bounded

\* ... the proposal, which adds a row unless something else began meanwhile ...
LEMMA ProposeStep ==
  ASSUME Held, Bounded, Propose
  PROVE  Held' /\ Bounded'
<1>1. asking' = [result |-> NoResult, head |-> 0] /\ asking'.result = NoResult
  BY DEF Propose
<1>2. UNCHANGED <<line, picking, index, integrated, jobs, rootCancelled>>
  BY DEF Propose, inGit
<1>3. Sound(line, picking, integrations, integrated, NoResult, jobs)
  BY AskKeeps DEF Held
<1>4. MaxLine \in Nat /\ MaxIntegrations \in Nat
  BY IntegrationsAssumption
<1>5. CASE UNCHANGED integrations
  BY <1>1, <1>2, <1>3, <1>4, <1>5 DEF Held, Bounded
<1>6. CASE ~UNCHANGED integrations
  <2> DEFINE row == [parent |-> 0, result |-> asking.result, head |-> asking.head, tree |-> "exact",
                     state |-> "awaiting-approval", marked |-> FALSE]
  <2>1. /\ Len(line) = asking.head /\ ~ActiveOperation /\ Len(integrations) < MaxIntegrations
        /\ integrations' = Append(integrations, row) /\ asking.result # NoResult
    BY <1>6 DEF Propose
  <2>2. asking.result \in Results /\ asking.head \in 0..MaxLine /\ asking.result \notin integrated
    BY <2>1 DEF Bounded, Held, Sound, AskedOnce
  <2>3. MayAdd(line, integrations, integrated, NoResult, row)
    BY <1>4, <2>1, <2>2 DEF MayAdd, OpRow, States, ActiveOperation, On, Ids
  <2>4. Sound(line, picking, Append(integrations, row), integrated, NoResult, jobs)
    BY <1>3, <2>3, AddKeeps
  <2>5. integrations \in Seq(OpRow) /\ row \in OpRow
    BY <2>3 DEF MayAdd, Held, Sound, OpRows
  <2>6. Len(integrations') = Len(integrations) + 1
    BY <2>1, <2>5
  <2> QED BY <1>1, <1>2, <1>4, <2>1, <2>4, <2>6 DEF Held, Bounded
<1> QED BY <1>5, <1>6

\* ... a job that joins the queue ...
LEMMA QueueStep ==
  ASSUME Held, Bounded, NEW j, MayQueue(integrations, integrated, jobs, j), Queue(j),
         UNCHANGED <<inGit, integrations, integrated, asking, rootCancelled>>
  PROVE  Held' /\ Bounded'
<1>1. jobs' = Append(jobs, j)
  BY DEF Queue
<1> QED BY <1>1, QueueKeeps DEF Held, Bounded, inGit

\* (what `not queued' means)
LEMMA QueuedIsKnown ==
  ASSUME NEW o \in Ids, ~Queued(o), Held
  PROVE  \A n \in 1..Len(jobs) : Effect(jobs, n) => jobs[n].op # o
<1>1. DOMAIN jobs = 1..Len(jobs)
  BY LenProperties DEF Held, Sound, Jobs
<1> QED BY <1>1 DEF Queued, Effect

\* (what a row is)
LEMMA RowTyped ==
  ASSUME Held, NEW o \in Ids
  PROVE  integrations[o] \in OpRow /\ o \in Nat /\ o # 0
BY ElementOfSeq, LenProperties DEF Held, Sound, OpRows, Ids

\* ... approval, and the requests to continue and to check ...
LEMMA AsksStep ==
  ASSUME Held, Bounded, NEW o \in Ids, Approve(o) \/ AskContinue(o) \/ AskCheck(o)
  PROVE  Held' /\ Bounded'
<1>1. integrations[o] \in OpRow /\ o \in Nat /\ o \in 1..Len(integrations)
  BY RowTyped DEF Ids
<1>2. \A do \in {"integrate", "prepare", "continue", "check"} :
        Job(do, o) \in JobOf /\ Job(do, o).do = do /\ Job(do, o).op = o /\ Job(do, o).step = "waiting"
  BY <1>1 DEF Job, JobOf, OpRow
<1>3. CASE Approve(o)
  <2>1. PICK do \in {"integrate", "continue"} : Queue(Job(do, o))
    BY <1>3 DEF Approve
  <2>2. MayQueue(integrations, integrated, jobs, Job(do, o))
    BY <1>1, <1>2, <1>3, QueuedIsKnown DEF MayQueue, Approve
  <2> QED BY <1>3, <2>1, <2>2, QueueStep DEF Approve
<1>4. CASE AskContinue(o)
  <2>1. MayQueue(integrations, integrated, jobs, Job("prepare", o))
    BY <1>1, <1>2, <1>4 DEF MayQueue, AskContinue, MarkedRoot, IsContinuation
  <2> QED BY <1>4, <2>1, QueueStep DEF AskContinue
<1>5. CASE AskCheck(o)
  <2>1. MayQueue(integrations, integrated, jobs, Job("check", o))
    BY <1>1, <1>2, <1>5 DEF MayQueue, AskCheck, On, Active
  <2> QED BY <1>5, <2>1, QueueStep DEF AskCheck
<1> QED BY <1>3, <1>4, <1>5

\* ... the requests to validate and to complete ...
LEMMA AskWorkStep ==
  ASSUME Held, Bounded, NEW do \in {"validate", "complete"}, AskWork(do)
  PROVE  Held' /\ Bounded'
<1> DEFINE j == [do |-> do, op |-> 0, was |-> "none", step |-> "waiting"]
<1>1. MayQueue(integrations, integrated, jobs, j)
  BY DEF MayQueue, JobOf
<1> QED BY <1>1, QueueStep DEF AskWork

\* ... and a refusal.
LEMMA DeclineStep ==
  ASSUME Held, Bounded, NEW o \in Ids, Decline(o)
  PROVE  Held' /\ Bounded'
<1>1. PICK state \in {"rejected", "revoked"} : SetState(o, state)
  BY DEF Decline
<1>2. /\ OpRows(integrations) /\ o \in 1..Len(integrations) /\ state \in States
      /\ WrittenState(integrations, integrations', o, state) /\ UNCHANGED integrated
  BY <1>1 DEF Held, Sound, Ids, States, SetState, WrittenState
<1>3. /\ Rewritten(integrations, integrations', o)
      /\ integrations'[o].state = state /\ integrations'[o].marked = integrations[o].marked
  BY <1>2, StateWritten
<1>4. Declined(integrations, integrations', jobs)
  BY <1>3, QueuedIsKnown DEF Declined, Rewritten, Decline
<1>5. UNCHANGED <<line, picking, index, asking, jobs, rootCancelled, integrated>> /\ Len(integrations') = Len(integrations)
  BY <1>2, <1>3 DEF Decline, inGit, Rewritten
<1> QED BY <1>4, <1>5, DeclineKeeps DEF Held, Bounded

\* The job in the lock, when it is about an operation.
LEMMA HeadJob ==
  ASSUME Held, jobs # << >>
  PROVE  /\ Head(jobs) = jobs[1] /\ 1 \in 1..Len(jobs) /\ jobs \in Seq(JobOf) /\ jobs[1] \in JobOf
         /\ Effect(jobs, 1) => /\ jobs[1].op \in Ids
                               /\ jobs[1].step = "waiting" => integrations[jobs[1].op].state = "awaiting-approval"
                               /\ jobs[1].step # "waiting" => integrations[jobs[1].op].state = "executing"
                               /\ On(integrations, jobs[1].op)
                               /\ asking.result = NoResult
                               /\ \A n \in 1..Len(jobs) : Effect(jobs, n) => n = 1
                               /\ \A n \in 1..Len(jobs) : jobs[n].do = "check" => jobs[n].op = jobs[1].op
<1>1. jobs \in Seq(JobOf) /\ Len(jobs) \in Nat /\ 1 \in 1..Len(jobs) /\ jobs[1] \in JobOf /\ Head(jobs) = jobs[1]
  <2>1. jobs \in Seq(JobOf)
    BY DEF Held, Sound, Jobs
  <2>2. Len(jobs) \in Nat /\ 1 \in 1..Len(jobs)
    BY <2>1, EmptySeq, LenProperties
  <2> QED BY <2>1, <2>2, ElementOfSeq
<1>2. ASSUME Effect(jobs, 1)
      PROVE  /\ jobs[1].op \in Ids
             /\ jobs[1].step = "waiting" => integrations[jobs[1].op].state = "awaiting-approval"
             /\ jobs[1].step # "waiting" => integrations[jobs[1].op].state = "executing"
  BY <1>1, <1>2 DEF Held, Sound, JobsInOrder, Effect, Ids
<1>3. ASSUME Effect(jobs, 1) PROVE On(integrations, jobs[1].op)
  BY <1>2, <1>3 DEF On, Active
<1>4. ASSUME Effect(jobs, 1) PROVE asking.result = NoResult
  BY <1>2, <1>3, <1>4 DEF Held, Sound, AskedOnce, Ids
<1>5. ASSUME Effect(jobs, 1) PROVE \A n \in 1..Len(jobs) : Effect(jobs, n) => n = 1
  BY <1>1, <1>5 DEF Held, Sound, JobsInOrder
<1>6. ASSUME Effect(jobs, 1) PROVE \A n \in 1..Len(jobs) : jobs[n].do = "check" => jobs[n].op = jobs[1].op
  <2> TAKE n \in 1..Len(jobs)
  <2>1. jobs[n].do = "check" => n # 1 /\ 1 < n
    BY <1>6 DEF Effect
  <2> QED BY <1>1, <1>6, <2>1 DEF Held, Sound, ChecksAreAlone
<1> QED BY <1>1, <1>2, <1>3, <1>4, <1>5, <1>6

\* integrate and decideContinue, in the lock.
LEMMA StartStep ==
  ASSUME Held, Bounded, Integrate \/ ContinueIntegration
  PROVE  Held' /\ Bounded'
<1> DEFINE o == jobs[1].op
<1>1. jobs # << >> /\ jobs[1].step = "waiting" /\ Effect(jobs, 1) /\ Head(jobs) = jobs[1] /\ jobs \in Seq(JobOf)
  BY HeadJob DEF Integrate, ContinueIntegration, Lock, Effect
<1>2. /\ o \in 1..Len(integrations) /\ integrations[o].state = "awaiting-approval" /\ OpRows(integrations)
      /\ \A n \in 1..Len(jobs) : Effect(jobs, n) => n = 1
  BY <1>1, HeadJob DEF Ids, Held, Sound
<1>3. UNCHANGED <<line, picking, index, integrated, asking, rootCancelled>>
  BY DEF Integrate, ContinueIntegration, inGit, SetState
<1>4. ASSUME NEW state \in States, SetState(o, state)
      PROVE  /\ Rewritten(integrations, integrations', o) /\ Len(integrations') = Len(integrations)
             /\ integrations'[o].state = state /\ integrations'[o].marked = integrations[o].marked
  <2>2. WrittenState(integrations, integrations', o, state)
    BY <1>4 DEF SetState, WrittenState
  <2>3. /\ Rewritten(integrations, integrations', o)
        /\ integrations'[o].state = state /\ integrations'[o].marked = integrations[o].marked
    BY <1>2, <2>2, StateWritten
  <2> QED BY <2>3 DEF Rewritten
<1>5. CASE SetState(o, "executing") /\ jobs' = [jobs EXCEPT ![1].step = "executing"]
  <2>1. Stepped(jobs, jobs', "executing")
    BY <1>1, <1>5, StepIsStepped
  <2>2. /\ Rewritten(integrations, integrations', o) /\ Len(integrations') = Len(integrations)
        /\ integrations'[o].state = "executing" /\ integrations'[o].marked = integrations[o].marked
    BY <1>4, <1>5 DEF States
  <2> QED BY <1>1, <1>3, <2>1, <2>2, StartKeeps DEF Held, Bounded
<1>6. CASE SetState(o, "revoked") /\ jobs' = Tail(jobs)
  <2> DEFINE T == Tail(jobs)
  <2>1. Sound(line, picking, integrations, integrated, asking.result, T)
    BY <1>1, PopKeeps DEF Held
  <2>2. /\ Rewritten(integrations, integrations', o) /\ Len(integrations') = Len(integrations)
        /\ integrations'[o].state = "revoked" /\ integrations'[o].marked = integrations[o].marked
    BY <1>4, <1>6 DEF States
  <2>3. \A n \in 1..Len(T) : ~Effect(T, n)
    <3> TAKE n \in 1..Len(T)
    <3>1. n + 1 \in 1..Len(jobs) /\ T[n] = jobs[n + 1] /\ n + 1 # 1
      BY <1>1, HeadTailProperties, LenProperties
    <3> QED BY <1>2, <3>1 DEF Effect
  <2>4. Declined(integrations, integrations', T)
    BY <1>2, <2>2, <2>3 DEF Declined, Rewritten
  <2> HIDE DEF T
  <2>5. Sound(line, picking, integrations', integrated, asking.result, T)
    BY <2>1, <2>4, DeclineKeeps
  <2> QED BY <1>3, <1>6, <2>2, <2>5 DEF Held, Bounded, T
<1> QED BY <1>1, <1>5, <1>6 DEF Integrate, ContinueIntegration, Unlock

\* The worktree is looked at once more.
LEMMA CheckAgainStep == Held /\ Bounded /\ CheckAgain => Held' /\ Bounded'
<1> SUFFICES ASSUME Held, Bounded, CheckAgain PROVE Held' /\ Bounded'
  OBVIOUS
<1>1. jobs # << >> /\ jobs[1].step = "executing" /\ jobs \in Seq(JobOf)
  BY HeadJob DEF CheckAgain, Lock
<1>2. Stepped(jobs, jobs', "checked")
  BY <1>1, StepIsStepped DEF CheckAgain
<1>3. Sound(line, picking, integrations, integrated, asking.result, jobs')
  BY <1>1, <1>2, StepKeeps DEF Held
<1> QED BY <1>3 DEF CheckAgain, Held, Bounded, inGit

\* The cherry-pick and its continuation run.
LEMMA RunStep ==
  ASSUME Held, Bounded, CherryPick \/ ContinuePick
  PROVE  Held' /\ Bounded'
<1> DEFINE o == jobs[1].op
<1>1. jobs # << >> /\ jobs[1].step = "checked" /\ Effect(jobs, 1) /\ Head(jobs) = jobs[1] /\ jobs \in Seq(JobOf)
  BY HeadJob DEF CherryPick, ContinuePick, Lock, Effect
<1>2. o \in 1..Len(integrations) /\ asking.result = NoResult /\ integrations[o] \in OpRow /\ o \in Ids
  BY <1>1, HeadJob, RowTyped DEF Ids
<1>3. UNCHANGED <<integrations, integrated, asking, rootCancelled>> /\ jobs' = [jobs EXCEPT ![1].step = "ran"]
  BY DEF CherryPick, ContinuePick
<1>4. Sound(line, picking, integrations, integrated, asking.result, jobs')
  <2>1. Stepped(jobs, jobs', "ran")
    BY <1>1, <1>3, StepIsStepped
  <2> QED BY <1>1, <2>1, StepKeeps DEF Held
<1>5. jobs' # << >> /\ Effect(jobs', 1) /\ jobs'[1].step # "waiting" /\ jobs'[1].op = o
  <2>1. Stepped(jobs, jobs', "ran") /\ 1 \in 1..Len(jobs)
    BY <1>1, <1>3, StepIsStepped, HeadJob
  <2>2. Len(jobs') # 0
    BY <2>1, LenProperties DEF Stepped
  <2> QED BY <1>1, <2>1, <2>2, EmptySeq DEF Stepped, Effect
<1>6. MaxLine \in Nat /\ MaxIntegrations \in Nat /\ NoResult \notin Results
  BY IntegrationsAssumption DEF NoResult
<1>7. ASSUME NEW of \in Results, NEW effect \in {"exact", "merged"} \cup Resolutions, Commit(o, of, effect)
      PROVE  Held' /\ Bounded'
  <2> DEFINE c == [by |-> o, of |-> of, effect |-> effect]
  <2>1. /\ Len(line) < MaxLine /\ line' = Append(line, c) /\ picking' = NoResult /\ index' \in {"clean", "dirty"}
    BY <1>7 DEF Commit
  <2>2. c \in Commits
    BY <1>2, <1>6 DEF Commits, OpRow, Bounded
  <2>3. Sound(Append(line, c), NoResult, integrations, integrated, asking.result, jobs')
    BY <1>4, <1>5, <2>2, CommitKeeps
  <2>4. Len(line') = Len(line) + 1
    BY <2>1, <2>2 DEF Held, Sound, Line
  <2> QED BY <1>3, <1>6, <2>1, <2>3, <2>4 DEF Held, Bounded
<1>8. ASSUME NEW left \in {"unmerged", "same"}, picking' = integrations[o].result, index' = left, UNCHANGED line
      PROVE  Held' /\ Bounded'
  <2>1. Sound(line, picking', integrations, integrated, asking.result, jobs')
    BY <1>2, <1>4, PickingKeeps
  <2>2. integrations[o].result \in Results
    BY <1>2 DEF OpRow
  <2> QED BY <1>3, <1>8, <2>1, <2>2 DEF Held, Bounded
<1>9. ASSUME UNCHANGED inGit PROVE Held' /\ Bounded'
  BY <1>3, <1>4, <1>9 DEF Held, Bounded, inGit
<1>10. integrations[o].result \in Results /\ (picking # NoResult => picking \in Results)
  BY <1>2 DEF OpRow, Bounded
<1> QED BY <1>1, <1>7, <1>8, <1>9, <1>10 DEF CherryPick, ContinuePick

\* The outcome of an operation reaches its row, or the database refuses it.
LEMMA AppliedKeeps ==
  ASSUME Bounded, NEW o \in Ids, NEW state \in States, NEW T,
         Sound(line, picking, integrations, integrated, asking.result, T),
         Writable(o, state) => MayApply(line, integrations, integrated, T, o, state), Apply(o, state)
  PROVE  /\ Sound(line, picking, integrations', integrated', asking.result, T)
         /\ Len(integrations') = Len(integrations) /\ integrated' \subseteq Results
<1>1. CASE ~Writable(o, state)
  BY <1>1 DEF Apply, Bounded
<1>2. CASE Writable(o, state)
  <2>1. /\ WrittenOutcome(integrations, integrations', o, state)
        /\ integrated' = IF state = "succeeded" THEN integrated \cup {integrations[o].result} ELSE integrated
    BY <1>2 DEF Apply, WrittenOutcome
  <2>2. OpRows(integrations) /\ o \in 1..Len(integrations)
    BY DEF Sound, Ids
  <2>3. /\ Rewritten(integrations, integrations', o)
        /\ integrations'[o].state = state
        /\ integrations'[o].marked = (integrations[o].marked \/ state \in {"conflict", "empty"})
    BY <2>1, <2>2, OutcomeWritten
  <2>4. Sound(line, picking, integrations', integrated', asking.result, T)
    BY <1>2, <2>1, <2>3, ApplyKeeps
  <2>5. integrations[o].result \in Results
    <3>1. integrations[o] \in OpRow
      BY <2>2, ElementOfSeq DEF OpRows
    <3> QED BY <3>1 DEF OpRow
  <2> QED BY <2>1, <2>3, <2>4, <2>5 DEF Rewritten, Bounded
<1> QED BY <1>1, <1>2

\* What the worktree can show of an operation.
LEMMA ObservedMeans ==
  ASSUME NEW o \in Ids
  PROVE  /\ Observed(o) \in {"succeeded", "conflict", "empty", "mismatch", "unknown", "failed"}
         /\ Observed(o) \in {"conflict", "empty"} => Len(line) = integrations[o].head
         /\ Observed(o) = "succeeded" => /\ Len(line) = integrations[o].head + 1
                                         /\ line[integrations[o].head + 1].of = integrations[o].result
                                         /\ line[integrations[o].head + 1].effect = integrations[o].tree
<1>1. CASE Len(line) # integrations[o].head /\ Matches(o)
  <2>1. Observed(o) = "succeeded"
    BY <1>1 DEF Observed
  <2>2. Len(line) = integrations[o].head + 1 /\ line[Len(line)].of = integrations[o].result
        /\ line[Len(line)].effect = integrations[o].tree
    BY <1>1 DEF Matches
  <2> QED BY <2>1, <2>2
<1>2. CASE Len(line) # integrations[o].head /\ ~Matches(o)
  <2>1. Observed(o) = "mismatch"
    BY <1>2 DEF Observed
  <2> QED BY <2>1
<1>3. CASE Len(line) = integrations[o].head
  <2>1. Observed(o) \in {"conflict", "empty", "failed", "unknown"}
    BY <1>3 DEF Observed
  <2> QED BY <1>3, <2>1
<1> QED BY <1>1, <1>2, <1>3

\* What follows the job in the lock.
LEMMA TailJobs ==
  ASSUME NEW J \in Seq(JobOf), J # << >>, NEW n \in 1..Len(Tail(J))
  PROVE  n + 1 \in 1..Len(J) /\ Tail(J)[n] = J[n + 1] /\ n + 1 # 1 /\ 1 < n + 1
BY HeadTailProperties, LenProperties

\* The end of an operation's own run is recorded.
LEMMA RecordStep ==
  ASSUME Held, Bounded, Record
  PROVE  Held' /\ Bounded'
<1> DEFINE o == jobs[1].op
           T == Tail(jobs)
<1>1. jobs # << >> /\ jobs[1].step # "waiting" /\ Effect(jobs, 1) /\ Head(jobs) = jobs[1] /\ jobs \in Seq(JobOf)
  BY HeadJob DEF Record, Lock, Effect
<1>2. /\ o \in Ids /\ integrations[o].state = "executing" /\ On(integrations, o)
      /\ \A n \in 1..Len(jobs) : Effect(jobs, n) => n = 1
      /\ \A n \in 1..Len(jobs) : jobs[n].do = "check" => jobs[n].op = o
  BY <1>1, HeadJob
<1>3. UNCHANGED <<line, picking, index, asking, rootCancelled>> /\ jobs' = T
  BY DEF Record, Unlock, inGit
<1>4. PICK state \in {Observed(o), "unknown", "failed"} : Apply(o, state)
  BY <1>1 DEF Record
<1>5. Sound(line, picking, integrations, integrated, asking.result, T)
  BY <1>1, PopKeeps DEF Held
<1>6. \A n \in 1..Len(T) : ~Effect(T, n) /\ (T[n].do = "check" => T[n].op = o)
  BY <1>1, <1>2, TailJobs DEF Effect
<1>7. MayApply(line, integrations, integrated, T, o, state)
  <2>1. \A p \in 1..Len(integrations) : p # o => ~On(integrations, p)
    BY <1>2 DEF Held, Sound, RowsInOrder, Ids
  <2>2. ~MarkedRoot(integrations, o)
    BY <1>2 DEF Held, Sound, RowsInOrder, Ids, MarkedRoot
  <2>3. integrations[o].result \notin integrated
    BY <1>2 DEF Held, Sound, OpenUntilIntegrated, Ids
  <2>4. /\ state \in {"succeeded", "conflict", "empty", "mismatch", "unknown", "failed"}
        /\ state \in {"conflict", "empty"} => Len(line) = integrations[o].head
        /\ state = "succeeded" => /\ Len(line) = integrations[o].head + 1
                                  /\ line[integrations[o].head + 1].of = integrations[o].result
                                  /\ line[integrations[o].head + 1].effect = integrations[o].tree
    BY <1>2, <1>4, ObservedMeans
  <2> QED BY <1>2, <1>6, <2>1, <2>2, <2>3, <2>4 DEF MayApply, Active
<1>8. state \in States
  BY <1>7 DEF MayApply, States
<1> HIDE DEF T, o
<1>9. /\ Sound(line, picking, integrations', integrated', asking.result, T)
      /\ Len(integrations') = Len(integrations) /\ integrated' \subseteq Results
  BY <1>2, <1>4, <1>5, <1>7, <1>8, AppliedKeeps
<1> QED BY <1>3, <1>9 DEF Held, Bounded

\* A row written as it was stays as it was.
LEMMA SameWritten ==
  ASSUME NEW R, OpRows(R), NEW Q, NEW o \in 1..Len(R), Rewritten(R, Q, o), Q[o].state = R[o].state, Q[o].marked = R[o].marked
  PROVE  Q = R
<1>1. R \in [1..Len(R) -> OpRow] /\ Q \in [1..Len(R) -> OpRow]
  BY LenProperties DEF OpRows, Rewritten
<1>2. Q[o] = R[o]
  BY <1>1 DEF OpRow, Rewritten
<1>3. \A p \in 1..Len(R) : Q[p] = R[p]
  BY <1>2 DEF Rewritten
<1> QED BY <1>1, <1>3

\* A check reports what the worktree shows.
LEMMA CheckStep ==
  ASSUME Held, Bounded, CheckIntegration
  PROVE  Held' /\ Bounded'
<1> DEFINE o == jobs[1].op
           T == Tail(jobs)
           outcome == Observed(o)
<1>1. jobs # << >> /\ jobs[1].do = "check" /\ Head(jobs) = jobs[1] /\ jobs \in Seq(JobOf) /\ 1 \in 1..Len(jobs)
  BY HeadJob DEF CheckIntegration, Lock
<1>2. /\ o \in Ids /\ o \in 1..Len(integrations) /\ integrations[o].state \notin {"awaiting-approval", "executing"}
      /\ integrations[o] \in OpRow /\ OpRows(integrations)
  <2>1. o \in Ids /\ integrations[o].state \notin {"awaiting-approval", "executing"}
    BY <1>1 DEF Held, Sound, JobsInOrder, Ids
  <2> QED BY <2>1, RowTyped DEF Ids, Held, Sound
<1>3. UNCHANGED <<line, picking, index, asking, rootCancelled>> /\ jobs' = T
  BY DEF CheckIntegration, Unlock, inGit
<1>4. Sound(line, picking, integrations, integrated, asking.result, T)
  BY <1>1, PopKeeps DEF Held
<1>5. UNCHANGED <<integrations, integrated>> \/ Apply(o, outcome)
  BY <1>1 DEF CheckIntegration
<1>6. CASE UNCHANGED <<integrations, integrated>>
  BY <1>3, <1>4, <1>6 DEF Held, Bounded
<1>o. /\ outcome \in {"succeeded", "conflict", "empty", "mismatch", "unknown", "failed"} /\ outcome \in States
      /\ outcome \in {"conflict", "empty"} => Len(line) = integrations[o].head
      /\ outcome = "succeeded" => /\ Len(line) = integrations[o].head + 1
                                  /\ line[integrations[o].head + 1].of = integrations[o].result
                                  /\ line[integrations[o].head + 1].effect = integrations[o].tree
  BY <1>2, ObservedMeans DEF States
<1> HIDE DEF outcome
<1>7. CASE Apply(o, outcome) /\ integrations[o].state \in Final
  <2>1. CASE ~Writable(o, outcome)
    BY <1>6, <1>7, <2>1 DEF Apply
  <2>2. CASE Writable(o, outcome)
    <3>1. outcome = integrations[o].state /\ outcome \notin {"conflict", "empty"}
      BY <1>7, <2>2 DEF Writable, Final
    <3>2. /\ WrittenOutcome(integrations, integrations', o, outcome)
          /\ integrated' = IF outcome = "succeeded" THEN integrated \cup {integrations[o].result} ELSE integrated
      BY <1>7, <2>2 DEF Apply, WrittenOutcome
    <3>3. /\ Rewritten(integrations, integrations', o) /\ integrations'[o].state = outcome
          /\ integrations'[o].marked = (integrations[o].marked \/ outcome \in {"conflict", "empty"})
      BY <1>2, <1>o, <3>2, OutcomeWritten
    <3>4. integrations'[o].marked = integrations[o].marked
      BY <1>2, <3>1, <3>3 DEF OpRow
    <3>5. integrations' = integrations
      BY <1>2, <3>1, <3>3, <3>4, SameWritten
    <3>6. integrated' = integrated
      BY <1>2, <3>1, <3>2 DEF Held, Sound, IntegratedOnce
    <3> QED BY <1>6, <3>5, <3>6
  <2> QED BY <2>1, <2>2
<1>8. CASE Apply(o, outcome) /\ integrations[o].state \notin Final
  <2>1. integrations[o].state \in (Active \ {"awaiting-approval"}) \cup {"continued"}
    BY <1>2, <1>8 DEF OpRow, States, Active, Final
  <2>2. MarkedRoot(integrations, o) => ~ExactAbove(line, integrations, o)
    BY <1>1, <1>2 DEF Held, Sound, ConflictsStay, CheckOn
  <2>3. outcome = "succeeded" => On(integrations, o)
    <3>1. ASSUME outcome = "succeeded", ~On(integrations, o) PROVE FALSE
      <4>1. MarkedRoot(integrations, o)
        BY <1>2, <2>1, <3>1 DEF Held, Sound, RowsInOrder, On
      <4>2. integrations[o].tree = "exact"
        BY <1>2, <4>1 DEF Held, Sound, RowsInOrder, MarkedRoot
      <4>3. integrations[o].head \in Nat
        <5>1. MaxLine \in Nat
          BY IntegrationsAssumption
        <5>2. integrations[o].head \in 0..MaxLine
          BY <1>2 DEF OpRow
        <5> QED BY <5>1, <5>2
      <4> QED BY <1>o, <2>2, <3>1, <4>1, <4>2, <4>3 DEF ExactAbove
    <3> QED BY <3>1
  <2>4. integrations[o].result \notin integrated
    BY <1>1, <1>8 DEF Held, Sound, OpenUntilIntegrated
  <2>5. \A n \in 1..Len(T) : (Effect(T, n) => T[n].op # o) /\ (T[n].do = "check" => T[n].op = o)
    <3> TAKE n \in 1..Len(T)
    <3>1. n + 1 \in 1..Len(jobs) /\ T[n] = jobs[n + 1]
      BY <1>1, TailJobs
    <3>2. Effect(jobs, n + 1) => jobs[n + 1].op # o
      BY <1>2, <3>1 DEF Held, Sound, JobsInOrder
    <3>3. jobs[n + 1].do = "check" => jobs[n + 1].op = o
      BY <1>1, <3>1 DEF Held, Sound, ChecksAreAlone
    <3> QED BY <3>1, <3>2, <3>3 DEF Effect
  <2> HIDE DEF T, o
  <2>6. Writable(o, outcome) => MayApply(line, integrations, integrated, T, o, outcome)
    BY <1>o, <2>1, <2>2, <2>3, <2>4, <2>5 DEF MayApply, Writable, Ids, On
  <2>7. /\ Sound(line, picking, integrations', integrated', asking.result, T)
        /\ Len(integrations') = Len(integrations) /\ integrated' \subseteq Results
    BY <1>2, <1>4, <1>8, <1>o, <2>6, AppliedKeeps
  <2> QED BY <1>3, <2>7 DEF Held, Bounded
<1> QED BY <1>5, <1>6, <1>7, <1>8

\* The continuation of a conflict is prepared, or refused.
LEMMA PrepareStep ==
  ASSUME Held, Bounded, PrepareContinue
  PROVE  Held' /\ Bounded'
<1> DEFINE o == jobs[1].op
           T == Tail(jobs)
           released == [integrations EXCEPT ![o].state = IF jobs[1].was = "conflict" THEN "continued" ELSE @]
           row == [parent |-> o, result |-> integrations[o].result, head |-> integrations[o].head, tree |-> index,
                   state |-> "awaiting-approval", marked |-> FALSE]
<1>1. jobs # << >> /\ jobs[1].do = "prepare" /\ Head(jobs) = jobs[1] /\ jobs \in Seq(JobOf) /\ 1 \in 1..Len(jobs)
  BY HeadJob DEF PrepareContinue, Lock
<1>2. /\ o \in Ids /\ o \in 1..Len(integrations) /\ integrations[o].state \notin {"awaiting-approval", "executing"}
      /\ MarkedRoot(integrations, o) /\ integrations[o] \in OpRow /\ OpRows(integrations)
  <2>1. o \in Ids /\ integrations[o].state \notin {"awaiting-approval", "executing"} /\ MarkedRoot(integrations, o)
    BY <1>1 DEF Held, Sound, JobsInOrder, Ids
  <2> QED BY <2>1, RowTyped DEF Ids, Held, Sound
<1>3. UNCHANGED <<line, picking, index, integrated, asking, rootCancelled>> /\ jobs' = T
  BY DEF PrepareContinue, Unlock, inGit
<1>4. Sound(line, picking, integrations, integrated, asking.result, T)
  BY <1>1, PopKeeps DEF Held
<1>5. CASE UNCHANGED integrations
  BY <1>3, <1>4, <1>5 DEF Held, Bounded
<1>6. CASE ~UNCHANGED integrations
  <2>1. /\ Len(line) = integrations[o].head /\ picking = integrations[o].result /\ index \in Resolutions
        /\ integrations[o].state \in Final => jobs[1].was # "conflict"
        /\ \A p \in Ids : released[p].state \notin Active
        /\ Len(integrations) < MaxIntegrations /\ integrations' = Append(released, row)
    BY <1>1, <1>6 DEF PrepareContinue
  <2>2. Sound(line, picking, released, integrated, asking.result, T) /\ Len(released) = Len(integrations)
    <3>1. CASE jobs[1].was = "conflict"
      <4>1. WrittenState(integrations, released, o, "continued") /\ "continued" \in States
        BY <3>1 DEF WrittenState, States
      <4> HIDE DEF released, o, T, row
      <4>2. /\ Rewritten(integrations, released, o)
            /\ released[o].state = "continued" /\ released[o].marked = integrations[o].marked
        BY <1>2, <4>1, StateWritten
      <4>3. integrations[o].state \notin Final \cup {"awaiting-approval", "executing"}
        BY <1>2, <2>1, <3>1
      <4> QED BY <1>2, <1>4, <4>2, <4>3, ReleaseKeeps DEF Rewritten
    <3>2. CASE jobs[1].was # "conflict"
      <4>1. WrittenState(integrations, released, o, integrations[o].state) /\ integrations[o].state \in States
        BY <1>2, <3>2 DEF WrittenState, OpRow
      <4> HIDE DEF released
      <4>2. /\ Rewritten(integrations, released, o)
            /\ released[o].state = integrations[o].state /\ released[o].marked = integrations[o].marked
        BY <1>2, <4>1, StateWritten
      <4>3. released = integrations
        BY <1>2, <4>2, SameWritten
      <4> QED BY <1>4, <4>3
    <3> QED BY <3>1, <3>2
  <2>3. asking.result = NoResult
    <3>1. integrations[o].result \in Results /\ NoResult \notin Results
      BY <1>2, IntegrationsAssumption DEF OpRow, NoResult
    <3> QED BY <2>1, <3>1 DEF Held, Sound, AskedOnce
  <2>4. integrations[o].result \notin integrated
    <3>1. integrations[o].head \in Nat
      <4>1. MaxLine \in Nat
        BY IntegrationsAssumption
      <4>2. integrations[o].head \in 0..MaxLine
        BY <1>2 DEF OpRow
      <4> QED BY <4>1, <4>2
    <3>2. integrations[o].result \in integrated => Len(line) > integrations[o].head
      BY <1>2 DEF Held, Sound, OpenUntilIntegrated
    <3> QED BY <2>1, <3>1, <3>2
  <2>5. row \in OpRow /\ row.state = "awaiting-approval" /\ ~row.marked /\ row.head = Len(line) /\ row.parent # 0 /\ row.result \notin integrated
    <3>1. o \in 0..MaxIntegrations /\ o # 0
      <4>1. MaxIntegrations \in Nat /\ Len(integrations) \in 0..MaxIntegrations
        BY IntegrationsAssumption DEF Bounded
      <4> QED BY <1>2, <4>1
    <3>2. index \in {"exact"} \cup Resolutions
      BY <2>1
    <3> QED BY <1>2, <2>1, <2>4, <3>1, <3>2 DEF OpRow, States
  <2>6. \A p \in 1..Len(released) : ~On(released, p)
    BY <2>1, <2>2 DEF On, Ids
  <2> HIDE DEF released, row, T
  <2>7. MayAdd(line, released, integrated, asking.result, row)
    BY <2>3, <2>5, <2>6 DEF MayAdd
  <2>8. Sound(line, picking, Append(released, row), integrated, asking.result, T)
    BY <2>2, <2>7, AddKeeps
  <2>9. Len(integrations') = Len(integrations) + 1 /\ Len(integrations') \in 0..MaxIntegrations
    <3>1. released \in Seq(OpRow)
      BY <2>2 DEF Sound, OpRows
    <3>2. Len(integrations') = Len(integrations) + 1
      BY <2>1, <2>2, <2>5, <3>1
    <3>3. MaxIntegrations \in Nat /\ Len(integrations) \in 0..MaxIntegrations
      BY IntegrationsAssumption DEF Bounded
    <3> QED BY <2>1, <3>2, <3>3
  <2> QED BY <1>3, <2>1, <2>8, <2>9 DEF Held, Bounded
<1> QED BY <1>5, <1>6

\* The root is cancelled: what waits for a decision is revoked, the question is withdrawn.
LEMMA CancelStep ==
  ASSUME Held, Bounded, CancelRoot
  PROVE  Held' /\ Bounded'
<1> DEFINE now(o) == IF integrations[o].state = "awaiting-approval" /\ ~Queued(o)
                     THEN [integrations[o] EXCEPT !.state = "revoked"] ELSE integrations[o]
<1>1. /\ integrations' = [o \in 1..Len(integrations) |-> now(o)]
      /\ asking' = [result |-> NoResult, head |-> 0] /\ rootCancelled' = TRUE
      /\ UNCHANGED <<line, picking, index, integrated, jobs>>
  BY DEF CancelRoot, inGit, Ids
<1>2. \A o \in 1..Len(integrations) :
        /\ now(o) \in OpRow
        /\ \/ now(o) = integrations[o]
           \/ integrations[o].state = "awaiting-approval" /\ now(o).state = "revoked" /\ ~Queued(o)
        /\ now(o).parent = integrations[o].parent /\ now(o).result = integrations[o].result
        /\ now(o).head = integrations[o].head /\ now(o).tree = integrations[o].tree
        /\ now(o).marked = integrations[o].marked
  <2> TAKE o \in 1..Len(integrations)
  <2>1. integrations[o] \in OpRow
    BY RowTyped DEF Ids
  <2>2. CASE now(o) = integrations[o]
    BY <2>1, <2>2
  <2>3. CASE integrations[o].state = "awaiting-approval" /\ ~Queued(o)
    BY <2>1, <2>3 DEF OpRow, States
  <2> QED BY <2>2, <2>3
<1> HIDE DEF now
<1>3. Len(integrations) \in Nat
  BY LenProperties DEF Held, Sound, OpRows
<1>4. OpRows(integrations') /\ Len(integrations') = Len(integrations)
  BY <1>1, <1>2, <1>3 DEF OpRows
<1>5. Declined(integrations, integrations', jobs)
  <2>1. \A o \in 1..Len(integrations) : ~Queued(o) => \A n \in 1..Len(jobs) : Effect(jobs, n) => jobs[n].op # o
    BY QueuedIsKnown DEF Ids
  <2>2. \A o \in 1..Len(integrations) : integrations'[o] = now(o)
    BY <1>1
  <2> QED BY <1>2, <1>4, <2>1, <2>2 DEF Declined
<1>6. Sound(line, picking, integrations', integrated, NoResult, jobs)
  <2>1. Sound(line, picking, integrations', integrated, asking.result, jobs)
    BY <1>5, DeclineKeeps DEF Held
  <2> QED BY <2>1, AskKeeps
<1>7. asking'.result = NoResult /\ 0 \in 0..MaxLine
  <2>1. MaxLine \in Nat
    BY IntegrationsAssumption
  <2> QED BY <1>1, <2>1
<1> QED BY <1>1, <1>4, <1>6, <1>7 DEF Held, Bounded

\* A restart.
LEMMA CrashStep ==
  ASSUME Held, Bounded, CrashIntegrations
  PROVE  Held' /\ Bounded'
<1> DEFINE now(o) == [integrations[o] EXCEPT !.state = RecoveredIntegration(@)]
<1>1. /\ integrations' = [o \in 1..Len(integrations) |-> now(o)] /\ jobs' = << >>
      /\ asking' = [result |-> NoResult, head |-> 0]
      /\ UNCHANGED <<line, picking, index, integrated, rootCancelled>>
  BY DEF CrashIntegrations, inGit, Ids
<1>2. \A o \in 1..Len(integrations) :
        /\ now(o) \in OpRow /\ now(o).state = RecoveredIntegration(integrations[o].state)
        /\ now(o).parent = integrations[o].parent /\ now(o).result = integrations[o].result
        /\ now(o).head = integrations[o].head /\ now(o).tree = integrations[o].tree
        /\ now(o).marked = integrations[o].marked
  <2> TAKE o \in 1..Len(integrations)
  <2>1. integrations[o] \in OpRow
    BY RowTyped DEF Ids
  <2>2. RecoveredIntegration(integrations[o].state) \in States
    BY <2>1 DEF OpRow, States, RecoveredIntegration
  <2> QED BY <2>1, <2>2 DEF OpRow
<1> HIDE DEF now
<1>3. Len(integrations) \in Nat
  BY LenProperties DEF Held, Sound, OpRows
<1>4. OpRows(integrations') /\ Len(integrations') = Len(integrations)
  BY <1>1, <1>2, <1>3 DEF OpRows
<1>5. \A o \in 1..Len(integrations) : integrations'[o] = now(o)
  BY <1>1
<1>6. Sound(line, picking, integrations', integrated, NoResult, << >>)
  BY <1>2, <1>4, <1>5, RestartKeeps DEF Held
<1>7. asking'.result = NoResult /\ 0 \in 0..MaxLine
  <2>1. MaxLine \in Nat
    BY IntegrationsAssumption
  <2> QED BY <1>1, <2>1
<1> QED BY <1>1, <1>4, <1>6, <1>7 DEF Held, Bounded

\* The user in the worktree.
LEMMA ByHandStep ==
  ASSUME Held, Bounded, ByHand
  PROVE  Held' /\ Bounded'
<1>1. UNCHANGED <<integrations, integrated, asking, jobs, rootCancelled>>
  BY DEF ByHand
<1>2. MaxLine \in Nat /\ MaxIntegrations \in Nat
  BY IntegrationsAssumption
<1>3. ASSUME NEW of \in Results \cup {NoResult}, NEW effect \in {"merged"} \cup Resolutions, Commit(0, of, effect)
      PROVE  Held' /\ Bounded'
  <2> DEFINE c == [by |-> 0, of |-> of, effect |-> effect]
  <2>1. Len(line) < MaxLine /\ line' = Append(line, c) /\ picking' = NoResult /\ index' \in {"clean", "dirty"}
    BY <1>3 DEF Commit
  <2>2. c \in Commits /\ c.by = 0 /\ c.effect # "exact"
    BY <1>2 DEF Commits, Resolutions
  <2> HIDE DEF c
  <2>3. Sound(Append(line, c), NoResult, integrations, integrated, asking.result, jobs)
    BY <2>2, CommitKeeps DEF Held
  <2>4. Len(line') = Len(line) + 1
    BY <2>1, <2>2 DEF Held, Sound, Line
  <2> QED BY <1>1, <1>2, <2>1, <2>3, <2>4 DEF Held, Bounded
<1>4. ASSUME picking' \in {picking, NoResult}, UNCHANGED line, index' \in {"clean", "dirty", "same"} \cup Resolutions
      PROVE  Held' /\ Bounded'
  <2>1. Sound(line, picking', integrations, integrated, asking.result, jobs)
    BY <1>4, PickingKeeps DEF Held
  <2> QED BY <1>1, <1>4, <2>1 DEF Held, Bounded
<1>5. picking \in Results \cup {NoResult}
  BY DEF Bounded
<1> QED BY <1>3, <1>4, <1>5 DEF ByHand

\* The work that is about no operation passes through the lock.
LEMMA InLockStep ==
  ASSUME Held, Bounded, NEW do \in {"validate", "complete"}, NEW step \in {"waiting", "executing", "ran"},
         NEW next \in {"executing", "ran", "unlocked"}, InLock(do, step, next)
  PROVE  Held' /\ Bounded'
<1>1. jobs # << >> /\ ~Effect(jobs, 1) /\ jobs \in Seq(JobOf)
  BY HeadJob DEF InLock, Lock, Effect
<1>2. UNCHANGED <<line, picking, index, integrations, integrated, asking, rootCancelled>>
  BY DEF InLock, inGit
<1>3. CASE next = "unlocked"
  <2>1. jobs' = Tail(jobs)
    BY <1>3 DEF InLock, Unlock
  <2> QED BY <1>1, <1>2, <2>1, PopKeeps DEF Held, Bounded
<1>4. CASE next # "unlocked"
  <2>1. Stepped(jobs, jobs', next)
    BY <1>1, <1>4, StepIsStepped DEF InLock
  <2>2. Sound(line, picking, integrations, integrated, asking.result, jobs')
    BY <1>1, <1>4, <2>1, StepKeeps DEF Held
  <2> QED BY <1>2, <2>2 DEF Held, Bounded
<1> QED BY <1>3, <1>4

-----------------------------------------------------------------------------
\* The inductive invariant with the types of the completion.
IntegrationsInv == Held /\ Bounded /\ CompletionsTypeOK

\* What the completion of the task keeps is typed.
LEMMA CompletionsTyped ==
  ASSUME Held, Bounded, CompletionsTypeOK, [CompletionsNext]_<<igVars, coVars>>
  PROVE  CompletionsTypeOK'
<1>1. MaxLine \in Nat
  BY IntegrationsAssumption
<1>2. Len(line) \in 0..MaxLine /\ CleanHead \in Heads
  BY <1>1 DEF Bounded, CleanHead, Heads, None
<1>3. CASE UNCHANGED coVars
  BY <1>3 DEF CompletionsTypeOK, coVars
<1>4. CASE CrashCompletions
  BY <1>4 DEF CrashCompletions, CompletionsTypeOK, Heads, None
<1>5. CASE StartValidation
  BY <1>2, <1>5 DEF StartValidation, CompletionsTypeOK
<1>6. CASE FinishValidation
  BY <1>6 DEF FinishValidation, CompletionsTypeOK, Heads, None
<1>7. CASE RecordCompletion
  BY <1>2, <1>7 DEF RecordCompletion, CompletionsTypeOK, Heads
<1>8. ASSUME NEW do \in {"validate", "complete"}, AskWork(do) PROVE CompletionsTypeOK'
  BY <1>3, <1>8 DEF AskWork
<1>9. CASE CheckRecords \/ CheckTree
  BY <1>3, <1>9 DEF CheckRecords, CheckTree
<1> QED BY <1>3, <1>4, <1>5, <1>6, <1>7, <1>8, <1>9 DEF CompletionsNext, CompletionSteps, igVars

\* The completion's steps keep what the operations rely on.
LEMMA CompletionsStep ==
  ASSUME Held, Bounded, CompletionSteps
  PROVE  Held' /\ Bounded'
<1>1. ASSUME NEW do \in {"validate", "complete"}, AskWork(do) PROVE Held' /\ Bounded'
  BY <1>1, AskWorkStep
<1>2. CASE StartValidation
  BY <1>2, InLockStep DEF StartValidation
<1>3. CASE FinishValidation
  BY <1>3, InLockStep DEF FinishValidation
<1>4. CASE CheckRecords
  BY <1>4, InLockStep DEF CheckRecords
<1>5. CASE CheckTree
  BY <1>5, InLockStep DEF CheckTree
<1>6. CASE RecordCompletion
  BY <1>6, InLockStep DEF RecordCompletion
<1> QED BY <1>1, <1>2, <1>3, <1>4, <1>5, <1>6 DEF CompletionSteps

\* So do the operations' own.
LEMMA IntegrationsStep ==
  ASSUME Held, Bounded, IntegrationsNext
  PROVE  Held' /\ Bounded'
<1>1. CASE Integrate \/ ContinueIntegration
  BY <1>1, StartStep
<1>0. CASE CheckAgain
  BY <1>0, CheckAgainStep
<1>2. CASE CherryPick \/ ContinuePick
  BY <1>2, RunStep
<1>3. CASE Propose
  BY <1>3, ProposeStep
<1>4. CASE Record
  BY <1>4, RecordStep
<1>5. CASE PrepareContinue
  BY <1>5, PrepareStep
<1>6. CASE CheckIntegration
  BY <1>6, CheckStep
<1>7. CASE CancelRoot
  BY <1>7, CancelStep
<1>8. CASE CrashIntegrations
  BY <1>8, CrashStep
<1>9. CASE ByHand
  BY <1>9, ByHandStep
<1>10. ASSUME NEW r \in Results, Ask(r) PROVE Held' /\ Bounded'
  BY <1>10, AskStep
<1>11. ASSUME NEW o \in Ids, Approve(o) \/ Decline(o) \/ AskContinue(o) \/ AskCheck(o) PROVE Held' /\ Bounded'
  BY <1>11, AsksStep, DeclineStep
<1> QED BY <1>0, <1>1, <1>2, <1>3, <1>4, <1>5, <1>6, <1>7, <1>8, <1>9, <1>10, <1>11 DEF IntegrationsNext

\* Nothing is integrated at first.
LEMMA IntegrationsStart ==
  ASSUME IntegrationsInit
  PROVE  Held /\ Bounded
<1>1. MaxLine \in Nat /\ MaxIntegrations \in Nat
  BY IntegrationsAssumption
<1>2. /\ line = << >> /\ picking = NoResult /\ index = "clean" /\ integrations = << >> /\ integrated = {}
      /\ jobs = << >> /\ asking = [result |-> NoResult, head |-> 0] /\ rootCancelled = FALSE
  BY DEF IntegrationsInit
<1>3. Bounded
  <2>1. Len(line) = 0 /\ Len(integrations) = 0
    BY <1>2
  <2>2. asking \in [result: Results \cup {NoResult}, head: 0..MaxLine]
    BY <1>1, <1>2
  <2>3. Len(line) \in 0..MaxLine /\ Len(integrations) \in 0..MaxIntegrations
    BY <1>1, <2>1
  <2> QED BY <1>2, <2>2, <2>3 DEF Bounded
<1>4. asking.result = NoResult /\ \A S : << >> \in Seq(S)
  BY <1>2
<1>5. Line(line) /\ OpRows(integrations) /\ Jobs(integrations, jobs)
  BY <1>2, <1>4 DEF Line, OpRows, Jobs
<1>6. 1..Len(<< >>) = {}
  OBVIOUS
<1>7. RowsInOrder(line, integrations) /\ JobsInOrder(integrations, jobs) /\ ChecksAreAlone(integrations, jobs)
  BY <1>2, <1>6 DEF RowsInOrder, JobsInOrder, ChecksAreAlone
<1>8. /\ ConflictsStay(line, integrations, jobs) /\ AskedOnce(picking, integrations, integrated, asking.result)
      /\ OpenUntilIntegrated(line, integrations, integrated, jobs) /\ IntegratedOnce(integrations, integrated)
      /\ CommitsAreKnown(line, integrations)
  BY <1>2, <1>4, <1>6 DEF ConflictsStay, AskedOnce, OpenUntilIntegrated, IntegratedOnce, CommitsAreKnown
<1> QED BY <1>3, <1>5, <1>7, <1>8 DEF Held, Sound

\* So it is in every reachable state.
LEMMA IntegrationsInvariant == CompletionsSpec => []IntegrationsInv
<1>1. IntegrationsInit /\ CompletionsInit => IntegrationsInv
  <2>1. CompletionsInit => CompletionsTypeOK
    BY DEF CompletionsInit, CompletionsTypeOK, Heads
  <2> QED BY <2>1, IntegrationsStart DEF IntegrationsInv
<1>2. IntegrationsInv /\ [CompletionsNext]_<<igVars, coVars>> => IntegrationsInv'
  <2> SUFFICES ASSUME Held, Bounded, CompletionsTypeOK, [CompletionsNext]_<<igVars, coVars>>
               PROVE  IntegrationsInv'
    BY DEF IntegrationsInv
  <2>1. CompletionsTypeOK'
    BY CompletionsTyped
  <2>2. CASE CompletionSteps
    BY <2>1, <2>2, CompletionsStep DEF IntegrationsInv
  <2>3. CASE CrashCompletions
    BY <2>1, <2>3, CrashStep DEF IntegrationsInv, CrashCompletions
  <2>4. CASE IntegrationsNext
    BY <2>1, <2>4, IntegrationsStep DEF IntegrationsInv
  <2>5. CASE UNCHANGED <<igVars, coVars>>
    BY <2>1, <2>5 DEF IntegrationsInv, Held, Bounded, igVars
  <2> QED BY <2>2, <2>3, <2>4, <2>5 DEF CompletionsNext
<1> QED BY <1>1, <1>2, PTL DEF CompletionsSpec

\* Type correctness of both modules.
THEOREM IntegrationsTypeCorrect == CompletionsSpec => [](IntegrationsTypeOK /\ CompletionsTypeOK)
<1>1. IntegrationsInv => IntegrationsTypeOK
  <2> SUFFICES ASSUME Held, Bounded PROVE IntegrationsTypeOK
    BY DEF IntegrationsInv
  <2>1. line \in Seq(Commits) /\ integrations \in Seq(OpRow) /\ jobs \in Seq(JobOf)
    BY DEF Held, Sound, Line, OpRows, Jobs
  <2>2. /\ DOMAIN line = 1..Len(line) /\ DOMAIN jobs = 1..Len(jobs)
        /\ \A n \in 1..Len(line) : line[n] \in Commits
        /\ \A o \in 1..Len(integrations) : integrations[o] \in OpRow
        /\ \A n \in 1..Len(jobs) : jobs[n] \in JobOf
    BY <2>1, LenProperties, ElementOfSeq
  <2>3. \A n \in 1..Len(jobs) : jobs[n].op \in {0} \cup Ids
    BY DEF Held, Sound, Jobs, Ids
  <2>4. \A n \in DOMAIN jobs : jobs[n] \in
       [do: {"integrate", "prepare", "continue", "check", "validate", "complete"}, op: {0} \cup Ids,
        was: {"none"} \cup States, step: {"waiting", "executing", "checked", "ran"}]
    BY <2>2, <2>3 DEF JobOf
  <2>5. \A o \in Ids : integrations[o] \in
       [parent: 0..MaxIntegrations, result: Results, head: 0..MaxLine, tree: {"exact"} \cup Resolutions,
        state: States, marked: BOOLEAN]
    BY <2>2 DEF OpRow, Ids
  <2>6. \A n \in DOMAIN line : line[n] \in Commits
    BY <2>2
  <2> QED BY <2>4, <2>5, <2>6 DEF IntegrationsTypeOK, Bounded
<1>2. IntegrationsInv => CompletionsTypeOK
  BY DEF IntegrationsInv
<1> QED BY <1>1, <1>2, IntegrationsInvariant, PTL

\* The rows tell what Git holds, for any number of results, rows, commits and waiting
\* callers, whatever the user does in the worktree and wherever the process stops.
THEOREM IntegrationsTellTheTruth == CompletionsSpec => []RowsTellWhatGitHolds
<1>1. IntegrationsInv => RowsTellWhatGitHolds
  <2> SUFFICES ASSUME Held PROVE RowsTellWhatGitHolds
    BY DEF IntegrationsInv
  <2> DEFINE done(r) == {o \in Ids : integrations[o].result = r /\ integrations[o].state = "succeeded"}
  <2>1. DOMAIN line = 1..Len(line)
    BY LenProperties DEF Held, Sound, Line
  <2>2. ASSUME NEW r \in Results, r \in integrated PROVE Cardinality(done(r)) = 1
    <3>1. PICK o \in Ids : integrations[o].result = r /\ integrations[o].state = "succeeded"
      BY <2>2 DEF Held, Sound, IntegratedOnce, Ids
    <3>2. done(r) = {o}
      BY <3>1 DEF Held, Sound, IntegratedOnce, Ids
    <3> QED BY <3>2, FS_Singleton
  <2>3. ASSUME NEW r \in Results, Cardinality(done(r)) = 1 PROVE r \in integrated
    <3>1. done(r) # {}
      BY <2>3, FS_EmptySet
    <3>2. PICK o \in Ids : integrations[o].result = r /\ integrations[o].state = "succeeded"
      BY <3>1
    <3> QED BY <3>2 DEF Held, Sound, IntegratedOnce, Ids
  <2>4. \A r \in Results : r \in integrated <=> Cardinality(done(r)) = 1
    BY <2>2, <2>3
  <2>5. \A o \in Ids : integrations[o].state = "succeeded" =>
       /\ Len(line) > integrations[o].head
       /\ line[integrations[o].head + 1].of = integrations[o].result
       /\ line[integrations[o].head + 1].effect = integrations[o].tree
    BY DEF Held, Sound, CommitsAreKnown, Ids
  <2>6. \A o \in Ids : integrations[o].state \in {"rejected", "revoked"} => \A n \in DOMAIN line : line[n].by # o
    BY <2>1 DEF Held, Sound, CommitsAreKnown, Ids
  <2> QED BY <2>4, <2>5, <2>6 DEF RowsTellWhatGitHolds
<1> QED BY <1>1, IntegrationsInvariant, PTL

----
(***************************************************************************)
(* The four beside each other, as they are model-checked.                  *)
(***************************************************************************)

\* Whichever one a behaviour is about, each of them behaves as it does alone.
LEMMA GitWorkIsItsParts == GitWorkSpec => StartsSpec /\ WorkspacesSpec /\ CompletionsSpec /\ HandoffsSpec
<1>1. GitWorkInit => StartsInit /\ WorkspacesInit /\ IntegrationsInit /\ CompletionsInit /\ HandoffsInit
  BY DEF GitWorkInit
<1>2. [GitWorkNext]_<<focus, tsVars, wsVars, igVars, coVars, hoVars>> =>
        [StartsNext]_tsVars /\ [WorkspacesNext]_wsVars /\ [CompletionsNext]_<<igVars, coVars>> /\ [HandoffsNext]_hoVars
  BY DEF GitWorkNext
<1> QED BY <1>1, <1>2, PTL DEF GitWorkSpec, StartsSpec, WorkspacesSpec, CompletionsSpec, HandoffsSpec

\* The rows of a handoff have their types.
LEMMA HandoffsTyped == HandoffsInv => HandoffsTypeOK
<1> SUFFICES ASSUME HandoffsInv PROVE HandoffsTypeOK
  OBVIOUS
<1>1. handoffs \in Seq(HandoffRow) /\ Len(handoffs) \in Nat /\ Len(handoffs) <= MaxHandoffs
  BY LenProperties DEF HandoffsInv
<1>2. MaxHandoffs \in Nat
  BY HandoffsAssumption
<1>3. \A h \in Rows : handoffs[h] \in HandoffRow
  BY <1>1 DEF Rows
<1>4. Len(handoffs) \in 0..MaxHandoffs
  BY <1>1, <1>2
<1> QED BY <1>3, <1>4 DEF HandoffsInv, HandoffsTypeOK, HandoffRow, HandoffHeads, WorktreeAgrees, Alive, Dead

\* Starts, workspaces, operations on the repository and handoffs keep their types
\* through every interleaving (service.ts, workspace-operations.ts, git-operations.ts,
\* orchestrator.ts).
THEOREM GitWorkTypeCorrect == GitWorkSpec => []TypesOK
<1>1. HandoffsInit => HandoffsInv
  BY InitialRows
<1>2. HandoffsInv /\ [HandoffsNext]_hoVars => HandoffsInv'
  BY HandoffsStep
<1>3. HandoffsSpec => []HandoffsTypeOK
  BY <1>1, <1>2, HandoffsTyped, PTL DEF HandoffsSpec
<1>4. StartsTypeOK /\ WorkspacesTypeOK /\ IntegrationsTypeOK /\ CompletionsTypeOK /\ HandoffsTypeOK => TypesOK
  BY DEF TypesOK
<1> QED BY <1>3, <1>4, GitWorkIsItsParts, StartsTypeCorrect, WorkspacesTypeCorrect, IntegrationsTypeCorrect, PTL
====
