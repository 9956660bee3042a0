# Foundry Agent Workspace: TLA+ models and proofs

The repository holds a desktop workspace for coding agents: an Electron
application supervises a Node runtime (`packages/runtime`), which keeps tasks in
SQLite, talks to model providers, runs reviewed tools in Git worktrees, and lets
a coordinator delegate work to child agents. This directory models the parts
where several actors, crashes, cancellations and late answers meet, checks them
with TLC and proves the central invariants with TLAPS. The source is the
reference; `PROJECT.json` maps every definition to the lines it stands for.

## 1. Inventory

The runtime is one Node process: JavaScript runs a step to its next `await`
without interruption, and everything else may run in between. SQLite
transactions are atomic and survive a crash. "Restart" below means
`Store.recover`, which runs before anything else.

| Part (source) | State it keeps | Operations | Talks to | Hard because of |
|---|---|---|---|---|
| Budget authority (`budget-ledger.ts`) | account, holds, reservations of a root | openAccount, hold, reserve, settle, release, restart | orchestrator, turns | one cap, many claimants; late and duplicate settlement; overrun |
| Execution slots (`execution-slots.ts`) | counters, wake set | use | streams, commands, MCP calls | wake-ups compete with newcomers; aborts |
| Approvals (`tool-runtime.ts`) | intents of kind `tool.approval`, waiting calls | propose, decide, revoke, execute, reconcile | turns, files, processes, user | abort, decision and crash race with execution; unknown outcomes |
| Turn loop (`agent-loop.ts`, `usage-ledger.ts`) | provider state, messages, pending calls, usage rows | run | providers, tools, ledger | answer, settlement and results in one transaction; failure in between |
| Agent channel (`agent-channel.ts`) | messages and receipts as events | send, enrich, acknowledge | turns | delivery acknowledged with the provider's answer |
| Compaction (`compaction.ts`, `workspace-operations.ts`) | ranges of messages, native history | compact | turns | two views of one conversation |
| Model providers (`packages/providers`) | a parser per stream | streamTurn | servers | streams that break off, continue or end for another reason |
| Orchestrator (`orchestrator.ts`, `orchestration-records.ts`) | runs, assignments, waits, results, integrations, handoffs, evidence; in memory: scheduler chain, waiters, root locks | delegate, await, integrate, handoff, validate, complete, schedule, provision, cancel, revise, resume, reconcile | Git, ledger, turns, approvals, user | reads before awaits; cancellation of what is starting; waits across restarts; the user works in the same worktree |
| Scopes (`scope.ts`) | none | normalise, covers, overlap, ordered, assertAcyclic | delegate | recursion over graphs and path prefixes |
| Store and recovery (`store.ts`, `schema.ts`) | all tables, triggers | transactions, recover | everything | what a crash leaves behind |
| Git and repository (`git-operations.ts`, `repository.ts`, `safe-file-creation.ts`) | worktrees, refs, files | state, cherryPick, commits, applyEdit, worktrees | orchestrator, tools | effects of which the outcome is unknown |
| Service (`service.ts`, `entry.ts`) | running turns, starts in flight, switches | startTask, startTurn, cancel, upgrade, shutdown | everything | idempotent starts; exclusions checked before awaits |
| Workspace operations (`workspace-operations.ts`) | publishing and retiring sets, intents | commit, push, retire, reconcile | Git, turns | exclusions kept in memory; partial removal |
| Continuity (`continuity.ts`) | previews, lineage | preview, continue | Git, turns | the source is used meanwhile |
| Automation (`automation.ts`, `hook-runner.ts`) | rules, runs, grants, drafts, cursor, occurrences | consume events, dispatch scripts, prepare drafts, tick | approvals, scripts | exactly-once over crashes; grants revoked during a run; clock changes |
| MCP (`mcp.ts`) | sessions, starts and stops in flight | connect, call, stop | servers | one session shared by calls; one cancelled call ends it for all |
| Command runner and job host (`command-runner.ts`, `windows-job.ts`, `job-runner.ps1`) | prepared commands, helper process, job object, two files | prepare, execute, cancel | Windows | two processes that share files and deaths |
| Browser (`browser-manager.ts`, `browser-tools.ts`, `supervisor.ts`) | tabs, prepared actions, requests in flight | attach, prepare, execute, revoke | runtime, pages, user | the page moves under an action; time-out against late answer |
| Renderer, protocol, queries, redaction | views, schemas, text | - | - | presentation and data |
| `.NET` port (`src/src`) | as the runtime | - | - | follows the TypeScript runtime, under way |

What makes the parts correct:

- **Budget**: promised funds can be spent; the coordinator's share is never given
  to children; a request is charged once; what was returned stays returned.
- **Slots**: limits hold, no wake-up is lost, every call ends its wait.
- **Approvals and commands**: nothing is touched without a grant and a durable
  record of the intent; nothing is executed twice; an unknown outcome stops its
  task; what is said of a command's processes is so, and none outlives its runtime.
- **Turns**: the task and the usage ledger are charged the same; no call is
  replayed; each channel message is in one completed request; only a stream that
  ended as its protocol ends yields calls; a compaction leaves no message untold, and both
  views of the conversation keep the same requests.
- **Orchestration**: what is cancelled stays down; children start once, with an
  allocation; dependents run after, and on top of, the work they depend on;
  overlapping scopes run serially; parked coordinators wake; a handoff is what
  was approved; a row never claims a commit that is not there; what is completed
  was validated.
- **Tasks**: a start that is repeated makes one task; no turn runs beside publication,
  retirement, continuation or configuration, and nothing beside upgrade and shutdown.
- **Automation**: an event or a due day drafts once; a script is launched once for an
  event, and not when its run was cancelled; a draft is reviewed once and says how its
  review stands.
- **MCP and browser**: what a call or an action was told about its effect is true,
  however late the other process acts.

## 2. Modules

| Module | Models | Composition |
|---|---|---|
| `TaskBudget` | the abstract budget of a task | implemented by `BudgetLedger` |
| `BudgetLedger` | `budget-ledger.ts` on its tables | `Budget == INSTANCE TaskBudget WITH ...`, property `ImplementsTaskBudget` |
| `ExecutionSlots` | `execution-slots.ts` | justifies the fairness of calls in `Approvals` |
| `Approvals` | `tool-runtime.ts` inside the turns of `agent-loop.ts` | - |
| `Commands` | `command-runner.ts`, `windows-job.ts`, `job-runner.ps1` | what `Approvals` takes as the command's effect and outcome |
| `AgentTurns` | `agent-loop.ts`, usage rows and channel receipts of a task of its own | a coordinated task charges `BudgetLedger` instead |
| `ProviderStreams` | the three parsers of `providers/src/index.ts` | what `AgentTurns` takes as a completed answer |
| `Compactions` | `compaction.ts` and `compact` among turns | - |
| `Orchestrator` | `orchestrator.ts` and its records; funds in whole allocations, which `BudgetLedger` refines | - |
| `Integrations` | integrate, continue, check, and the cherry-pick family | - |
| `Completions` | combined validation and `complete` | EXTENDS `Integrations`: both work behind the same root lock |
| `Handoffs` | the child's commit | - |
| `TaskStarts` | `task.start`, `task.create` | - |
| `Workspaces` | who may use a worktree or switch the runtime | - |
| `Automations`, `Schedules`, `Drafts` | `automation.ts`: events and scripts, occurrences, reviews | - |
| `McpSessions` | `mcp.ts` | - |
| `Browsers` | an action between runtime, desktop and page | - |
| `FiniteFacts` | least elements, well-founded recursion over numbers, sums over finite sets | facts the proofs below cite |
| `TaskBudgetProofs`, `BudgetLedgerProofs`, `OrchestratorProofs` | theorems about the module of that name | each EXTENDS its module; the ledger's takes those of the budget by `INSTANCE` |
| `GatesProofs` | theorems about `Approvals`, `ExecutionSlots`, `Commands` | EXTENDS `MCGates`, which puts them and `BudgetLedger` beside each other, and `BudgetLedgerProofs` |
| `GitWorkProofs` | theorems about `TaskStarts`, `Workspaces`, `Handoffs`, `Integrations`, `Completions` | EXTENDS `MCGitWork` |
| `CompactionsProofs` | theorems about `Compactions` | EXTENDS it |
| `ServicesProofs` | theorems about `AgentTurns`, `ProviderStreams`, `Automations`, `Schedules`, `Drafts`, `McpSessions`, `Browsers` | EXTENDS `MCServices`, `TaskBudgetProofs`, `CompactionsProofs` |
| `MC*` | constants for TLC | EXTENDS the modules it checks |

Operators whose comment begins with "Mutant:" are deliberate mistakes, defined
just before the definition they would replace. No specification uses them; they
show that each checked property notices a plausible slip in the code.

`MCGates`, `MCGitWork` and `MCServices` check components that do not interact in one
run: the variable `focus` names the component a behaviour is about, the others
stay as they started. The state space is the sum of the parts, not their
product, and every property is evaluated in all of them.

### BudgetLedger and TaskBudget

`hold` and `reservation` are the tables of `schema.ts:205-237`, `lifecycle` and
`cancelRequested` two columns of `agent_runs`. Each method is one IMMEDIATE
transaction, hence one action; `Committed`, `UsedBy` and `CoordinatorReserve` are
recomputed from the rows, as `totals` does. `Usages` contains `Unknown` for an
answer without usage. `TaskBudget` keeps `committed` and `overage` by increments
instead; the refinement shows that the increments and the sums agree after every
step, also when a request overruns its reservation, or when a restart retains
all that was in flight.

### ExecutionSlots

`pc` follows a caller through `use`: `waiting` is in the wake set, `woken` is the
microtask that follows the wake-up. Wake-ups go to everybody, as in the code,
and a newcomer may take the slot first.

### Approvals

`row` is the saved record, `step` the call that waits for it in the process. The
call's own copy of the record still says `awaiting-approval` after the user
decided; the code goes by what `awaitDecision` returned and by the signal, and so
does the model. `effect` and `file` are the world: an edit re-reads the file,
writes, and reads back, and another process may write at any time
(`OtherWrite`, external to the source). A crash (`Restart`) may come between any two steps.
`checks` are the calls of `reconcile` under way: each read the record before it waited
for the file, and saves over whatever is there by then. `cleared` is history.

### Orchestrator

One coordinated root. Assignments are numbered by revision; `Scope` and `Needs`
are what the coordinator plans for each. A step of the scheduler that awaits
nothing is followed at once by the next (`Synchronous`); `sched.at` marks the
awaits: `reading` and `read` (HEAD is read, `git.state` has yet to answer),
`provisioning` (Git creates a worktree). `head` is the set of assignments
whose commits the task worktree contains, `evidence` the HEAD of the latest
combined validation if it passed, `base[a]` the HEAD from which a's child was created. `turn` is
the coordinator's turn and the call it is in. The user may cancel, revise,
resume and reconcile at any time; the process may stop at any time.

Abstractions: `failed` stands for `incomplete` as well, because no step tells
them apart; allocations have one size, and a used-up hold (`spent`) is one that
does not come back; integrations that conflict, handoff commits in steps and
completion are in `Integrations`, `Handoffs` and `Completions`. `Obstacles` says what may keep
the scheduler from admitting at all: a worktree that `git.state` reports unclean, in an operation
or on another branch (`sched.clean`), and a profile that is not ready or cools down; `waits` is
the reason an assignment was last seen to wait for. `finishChild`, `cancelChild` and `cancelRoot` are one step each, unless
the process stops between two of their transactions (`HalfStep`); a hold that was not
released then is `spent`, as nothing returns it any more.

### Commands

The runtime (`exec`), the helper (`helper`) and the operating system (`job`) share
the spec on the helper's input, the cancel file and the result file (`files`), and
each other's deaths. The helper's loop polls the cancel file and the runtime's
process; any of the three may die between any two steps. The command may start a
process of its own and ignore being told to end; a terminated process goes away.

### AgentTurns, ProviderStreams, Compactions

`loop` is `AgentLoop.run` in memory, `ledger` the rows of `provider_requests`,
`native` the pending calls, results and seen ids of the provider state. An answer,
the receipt of the channel messages its request carried, and the settlement are
one transaction (`Respond`). A retry answers unfinished calls with what was
recorded or an error and executes none (`executed` counts).

`ProviderStreams` reads frame by frame what a server may send in any order;
`Frames` has one alphabet per protocol, with the two halves of a call's arguments
for its text.

`Compactions` keeps the messages with their ordinals and, beside them, the items
of the native history as the messages they quote or summarise. Turns add to both
as `prepareRequest`, `enrich` and `nativeRequest` do, also when they fail or are cut
off; `Compact` plans the range, finds the cut, and refuses without effect.

### Integrations, Completions, Handoffs

`line` is the root branch above its first head, `index` the index and worktree
against it. The user works there too (`ByHand`: commit, resolve, abort, continue, edit and
discard edits), which is external to the source; commits are only added, the branch is never
moved back. `jobs` is the order of the root lock; what a
caller read before it is in its job, and each transaction behind it is undone as
a whole when a unique index or the terminal trigger refuses. `CheckAgain` is the second
look at what was approved, just before the cherry-pick, which runs on whatever is there by then. `Completions` adds
the validation command and `complete_task` to the same lock.

`Handoffs` takes `commitHandoff` apart into its Git commands (stage and compare, write-tree,
commit-tree after the manifest, update-ref, read back): files may be edited and the process may stop
between any two.

### TaskStarts, Workspaces

`starts` is the table of request identities, `made` the tasks that got an id with
their worktree and intent. A crash between the worktree, the task row and the
message is an action of its own at each step. `Workspaces` keeps for each operation
the step it waits in and its flag; each guard is the synchronous block that looks at the
flags of the others.

### Automations, Schedules, Drafts

`Automations` follows an event from the log over the cursor to a rule's drafts or
to a script's queued run, its launch under a grant, and the commit of its drafts.
`Schedules` computes with instants and a zone that moves the wall clock, and with the day a
schedule names to start on, if any;
`DueDays` is the reference written without the code's search. `Drafts` follows
one approval per draft and the event that tells the draft of it.

### McpSessions, Browsers

`launched` holds every session ever opened, each with its process; `current`,
`opening` and `stopped` are the maps of the manager. Each action runs to the next await: a
caller of `openSession` waits for the stop there is when it calls (`awaits`), looks at the
session then, waits for its own stop if it makes one, and behind that looks at starts only,
as the code does: so two processes may run at a time, and one be launched after shutdown. In `Browsers` an action has the runtime's
approval, the call at the desktop's host, and a tab that navigates, is shared
again, or loses its process meanwhile.

## 3. Runs

TLC, two workers. Distinct states are those of the current bounds.

| Run | Checks | Bounds | Result |
|---|---|---|---|
| `gates` | `TypesOK`, `SlotsWithinLimits`, `NobodySleepsBesideAFreeSlot`, `EveryCallEnds`; `EffectIsGrantedAndRecorded`, `UnknownBlocksTheTask`, `ExecutedOnce`, `ApprovedIsConcluded`; `CommandsAreToldRight`, `NoneRunsForNobody`; `PromisedFundsSpendable`, `ReleasedIsClosed`, `ChargedOnce`, `ImplementsTaskBudget` | 4 callers, 2 slots, one key with limit 1, 2 calls each; an edit, a command and an MCP call of one task, two checks at a time; 2 calls of a prepared command; 2 children, 2 requests, two allocation sizes, usages above the reservation and unknown | holds, 96,055 states |
| `git_work` | `TypesOK`; `StartsAreAccountedFor`; `TurnsAreKeptOut`; `RowsTellWhatGitHolds`; `HandoffIsAsApproved` | 2 start requests of 3 modes, at most 3 tasks; a coding task and a coordinated one with a child, 2 turns; 1 result, 2 operations, 2 commits, 2 jobs at the lock; 1 path, 2 handoffs | holds, 1,056,549 states (with a view) |
| `services` | `TypesOK`, `SharesAreKept`, `UsedIsRecorded`, `ConversationOnce`, `ConversationIsTold`, `EachEventDraftsOnce`, `ScriptsLaunchOnce`, `EachDueDayDraftsOnce`, `DraftsAnswerForReviews`, `CallsOnlyFromCompletedStreams`, `ToldTheTruth`, `NotDoneAsReported` | cap 10 of which 2 protected, amounts 2, 4, 6; 3 requests of 2 rounds, 2 channel messages; 3 turns of 2 requests, keeping 1 to 3 messages; 2 script revisions, 2 events, 2 grants, one run a day; 12 instants with a skipped and a repeated hour, 2 schedule revisions, with and without a day to start on; 5 frames of each protocol; a task and the settings page, 3 sessions; 1 tab, 2 origins, 3 generations, 1 action; 2 drafts, 2 reviews | holds, 903,441 states (with a view) |
| `orchestrator` | `NoWaitIsForgotten`, `DependentsRunAfterIntegration`, `DelegatedRunSerially`, `NothingAdmissibleIsForgotten`, `WaitDeliversSettled`, `FencedStaysDown`, `StartedOnce` | 3 revisions, 2 admitted, funds for 2, one user revision, both obstacles, crashes between and inside steps | holds, 953,598 states (with a view) |
| `orchestrator_waits` | `AcceptedWaitEnds` under `FairSpec` | a chain of 2 | **violated** |
| `orchestrator_base` | `DependentsBuildOnPredecessors` | a chain of 2 | **violated** |
| `orchestrator_siblings` | `SiblingsContinue` | 2 assignments, no crash but the code's own exit | **violated** |
| `orchestrator_overlaps` | `OverlapsRunSerially` | 3 revisions, two by the user | **violated** |
| `handoff_failures` | `FailedHadNoEffect` | as `git_work` | **violated** |
| `completion` | `CompletedTreeIsValidated` | as `git_work` | **violated** |
| `compaction_views` | `BothViewsAgree` | 3 turns of 2 requests, keeping 2 messages | **violated** |
| `automation_cancelled` | `CancelledIsNotLaunched` | 2 revisions, 2 events, 2 grants, one run a day | **violated** |

What the passing runs ask, beyond their names:

- `StartsAreAccountedFor`: a request that is repeated over refusals, failures and
  crashes makes one task which gets its message once, and a worktree nobody owns
  is under an intent that is pending or unknown.
- `UnknownBlocksTheTask`: an unknown outcome that no check has found before has its
  task without a turn and without a call. For a command or an MCP call that is for ever.
- `TurnsAreKeptOut`: no turn beside publication, retirement, continuation or configuration in
  its worktree; nothing under way while the database is copied or closed. Publication and
  retirement do not keep each other out, and it does not say so.
- `RowsTellWhatGitHolds`: an assignment is integrated exactly when one operation
  succeeded whose approved effect is the commit above the approved head.
- `UsedIsRecorded`: what the task was charged is the sum of the usage rows, at
  every step. `ConversationOnce`: no call runs twice, and the receipt stands exactly behind
  the messages that were in a completed request.
- `ConversationIsTold`: the messages' view tells every complete message once, itself or in one
  summary; the native history keeps calls paired and carries every summary ever made. What it
  leaves out is what `BothViewsAgree` finds.
- `ScriptsLaunchOnce`: what was launched for an event is never queued, cancelled or
  launched again, over dispatch, loss of the grant, crash and repeated consumption.
- `DraftsAnswerForReviews`: a draft gets one approval, and with all events consumed says how it
  stands, except of one that a restart ended.
- `NothingAdmissibleIsForgotten`: with the coordinator parked and the scheduler idle, a proposal
  that records and limits would let start waits for `reconciliation` or `profile-quota`: the
  scheduler found the worktree unclean or the profile not ready, and nobody tells it
  when that is over (`orchestrator.ts:573-576`).
- `EachDueDayDraftsOnce` compares the code's search with `DueDays`.
- `ToldTheTruth`, `NotDoneAsReported`, `CommandsAreToldRight`: an effect reported
  as not having happened has not and will not happen. A tool call told `unknown` can run no more,
  unless its session was replaced in the map before anyone stopped it.

Why the bounds suffice. Budget: two children are enough for one to take what was
promised to another, and two requests for one in flight beside one that is settled or
lost; two of them exhaust an allocation. Slots: four callers are the least with two inside, one waiting for the key and one
newcomer. Approvals: a task with three proposals shows what an unknown outcome
blocks, before and after a check; two checks are the least that overwrite each other. Commands: two callers are
what the removal from the prepared map is for. Integrations: two operations on one
result are a continuation and its parent, or a repetition; two jobs are one in the
lock and one behind it with stale reads; two commits are the integration and the user's. Starts: two requests and a
plain creation give every owner of a pending intent. Turns: three requests make a second turn
after a failed one. Compactions: three turns allow two compactions of different
limits with a turn between. Automations: two revisions are the running and the
current one, two events the one under way and the one behind it, two grants a replaced grant.
Schedules: the zone moves forward by two instants and back by two, and a schedule is active from the
first day or from the second, with a closed application anywhere. Sessions: three let one that is being stopped, its
successor and one launched beside both overlap, with a call that outlives each. Browsers:
three generations are shared, navigated and shared again.
Orchestrator: with three assignments there are two independent children and one
dependent that overlaps both, which is the least for a full house, a wait for one of two, a hopeless
dependent and a revision. `DelegatedRunSerially` is what the check of `delegate` gives;
`OverlapsRunSerially` says the same of revisions too, for which `reviseAssignment` makes no
check: it fails when the user revises twice. `DependentsRunAfterIntegration` asks
that everything behind a running assignment was integrated in one of its revisions, not
in the latest: with one more revision than the run has, a failed assignment is revised again
after its first revision was integrated and its dependent has begun, and the latest one is
then merely proposed. 
Three runs have a `VIEW`, each without what neither a later step nor a property of that run
reads, so that states which differ only there are one. `orchestrator` leaves out base commits
(`orchestrator_base`, which is about them, has no view), the fence and the start of a child that has ended, and evidence for a HEAD
that is gone. `services` leaves out the numbers of grants: a grant is only compared with the
one its revision has now. `git_work` keeps of a completion that there is one, and of the heads
that were validated or seen whether they are the present one, to which the branch never
returns.

Liveness of the orchestrator appears in `orchestrator_waits` only, where it fails. That a parked
coordinator always wakes does not hold of the code: besides a wait like that one, an assignment
that waits for a clean worktree or a profile is admitted only when something else calls the
scheduler. `NoWaitIsForgotten` says what holds instead, over revisions and restarts too: whoever is
parked still waits for something unsettled.

Runs without deadlock checking are those in which the system may really stop:
every caller has made its calls, a bound on rows or frames is reached, a command
or a stream is over, or a coordinator has ended and nobody does anything.

### Fairness

- Slots: a woken caller's microtask runs, and every action ends, because streams
  are aborted after ten minutes and commands and MCP calls have timeouts.
- Approvals: a call that is past its decision goes on; the user need not decide.
- Commands: the event loop and the helper's loop, which polls every 50 ms, go on while
  their processes live, files can be written, and a terminated process goes away. Neither a
  time-out nor the end of the command is assumed, nor that anything outlives a crash.
- Orchestrator: the scheduler's steps, Git's answers, the delivery of a wait and
  the end of each child's turn. The last takes a user who answers the
  approvals of children, or a child that asks for none. Nobody has to cancel, resume, revise
  or validate, and a coordinator need not do anything.
- All of it is weak fairness: only a step that stays enabled has to be taken. The
  scheduler's synchronous steps go before the others and disable them meanwhile,
  so this assumes less than the event loop gives, which passes nobody over forever.

### What the violated runs show

1. `OverlapsRunSerially`: `reviseAssignment` may be applied twice to one failed
   assignment; both revisions run at once in one scope.
2. `SiblingsContinue`: a known provisioning failure of a child that was cancelled
   meanwhile is recorded on a terminal assignment; the trigger raises, nobody
   handles the rejection, the runtime exits and siblings are interrupted, against
   `docs/coordinator-orchestration-plan.md:116`.
3. `DependentsBuildOnPredecessors`: HEAD is read before an integration lands, the
   predecessors' states after it; the dependent starts from a base without the work it
   depends on, against `docs/coordinator-orchestration-plan.md:86`. The window is the rest
   of `git.state` after its first command.
4. `AcceptedWaitEnds`: `await_children` accepts a dependent whose predecessor is
   integrated but not validated, and the coordinator that would have to validate is parked,
   against the message at `orchestrator.ts:227`.
5. `FailedHadNoEffect`: a read that fails after `git update-ref` moved the branch is
   reported with outcome `none`, and the handoff is recorded as failed although its
   commit is the head of the branch, against `git-operations.ts:428-429`.
6. `CompletedTreeIsValidated`: `complete` reads the worktree twice; a commit by the
   user in between is recorded as completed, against `orchestration-tools.ts:35`.
7. `BothViewsAgree`: channel messages are user items of the native history but no user messages.
   One that comes after the latest request makes a compaction cut behind that request: it stays
   in the messages' view and is in neither the native history nor a summary, against
   `workspace-operations.ts:53-54`. A request whose turn failed before its answer counts
   among the messages only, and an odd `keepRecent` can lose the last answer before the cut in the same way.
8. `CancelledIsNotLaunched`: a run is cancelled by a renewed grant, or by a revocation and a new
   grant, while its dispatch hashes the pinned files; the dispatch reads the grant again but
   not the run (`automation.ts:356-371`) and launches it, against
   `docs/personal-workspace-expansion.md:63`, "Grant renewal cancels runs queued under the old grant."

Observations that no run checks:

- After a restart, `Store.recover` revokes waiting approvals by SQL without an
  `approval.changed` event (`store.ts:440-441`), so that a draft goes on saying
  `awaiting-approval`; `DraftsAnswerForReviews` states this exception (`EndedByRestart`).
- Two checks of one approval are not serialised (`tool-runtime.ts:88-116`). If one finds the outcome
  and a turn starts, the other may save `unknown` over it while the turn runs, though
  `docs/recovery.md:34` says "A match clears it"; the turn then ends behind its next tool call
  (`agent-loop.ts:201`). `UnknownBlocksTheTask` therefore leaves an outcome out once a check found it.
- commit and push look at each other and at turns, retirement at turns, but publication and
  retirement do not look at each other (`workspace-operations.ts:132-144`, `250-264`): a
  worktree may be removed while it is being published. `docs/implementation-status.md:1913` tells of
  the same gap, and of its repair in the .NET port.
- Two calls that open a session in one tick may both pass the wait for a stop; the second
  launches a process beside the one still stopping (`mcp.ts:362-370`), though
  `docs/implementation-status.md:873` says "Replacement sessions wait for the previous stop". A
  caller that waited for its own stop launches after shutdown, and a session that another replaces in
  the map is stopped by nobody: a call in it that is told `unknown` may still run.
- `submitHandoff` looks at the fence once and records its result three awaits later
  (`orchestrator.ts:497`, `516`), so a result may be submitted behind a fence, though
  the comment at `orchestrator.ts:774` says late results cannot resurrect anything. `FencedStaysDown`
  is about turns, children and proposals.
- An assignment that waits for a clean worktree, the end of an operation or a profile is looked at again
  only when something else schedules (`orchestrator.ts:573-576`).
- A helper that is killed between creating the suspended process and assigning it to
  the job leaves that process suspended: it never runs, so `CommandsAreToldRight` holds.

What the properties above do not see: `SharesAreKept` counts what requests overran in one sum,
not per child; `rule_version` in the key of a run (`automation-schema.ts:8`) is not in `Enqueues`,
since a changed rule only sees later events; five frames do not complete an Anthropic call with
split arguments, and one browser action leaves the tab's queue to the theorems, which
have no such bound.

## 4. Theorems

TLAPS proves for every value of the constants what the runs check on small
instances: every invariant and every action property of the passing runs, and the refinement.
The assumptions are the named `ASSUME`s of the modules, which TLC
evaluates in the runs, and nothing else. Besides the bounds, some say that a value of
the model is no data of the program: no result is the string that stands for none
(`Integrations`), no request has the name of the caller that reserves nothing
(`TaskStarts`), and the built-in rule is none of the numbered script revisions (`Automations`). In `Orchestrator` an
assignment needs only earlier ones: `delegate` accepts references in either direction within one
batch (`orchestrator.ts:186`), and a batch without cycles can be numbered so that they point back.
One is about the world: `ZoneAssumption` (`Schedules`) says that no zone turns its clocks back
onto a wall time that it skipped before. Clocks that go back show again what they have shown,
as every zone's do whose changes lie more than a few hours apart; for a zone that did otherwise,
`resolveLocalInstant` prefers the later instant that shows the time to the first one past it.

| Theorem | States | Argument |
|---|---|---|
| `TaskBudgetProofs!TypeCorrect` | `[]BudgetTypeOK` | by action |
| `TaskBudgetProofs!ChildrenStayWithinAllocation` | `[]WithinAllocation` | inductive with the type invariant: a charge above the reservation raises `overage` by as much as the claim |
| `TaskBudgetProofs!CoordinatorShareIsProtected` | `[]ReserveProtected` | inductive with the type invariant; `Charge` for the root, for a held child and for a returned one are separate steps |
| `TaskBudgetProofs!EveryShareIsKept` | `[]SharesAreKept` | from the two before |
| `BudgetLedgerProofs!LedgerTypeCorrect` | `[]LedgerTypeOK` | by action |
| `BudgetLedgerProofs!EveryRequestIsChargedOnce` | `ChargedOnce` | each action, from typing |
| `BudgetLedgerProofs!ReleasedHoldsAreClosed` | `ReleasedIsClosed` | from the invariant that a released child's run has ended and none of its requests is reserved (`ReleasedStaysQuiet`): without it a late `Settle` could touch it |
| `BudgetLedgerProofs!LedgerImplementsTaskBudget` | `ImplementsTaskBudget` | one lemma per transaction: which step of `TaskBudget` it is (`HoldGrants`, `ReserveClaims`, `SettleCharges`, `RestartRetains`, `ReleaseReturns`); below |
| `BudgetLedgerProofs!LedgerKeepsShares` | `[]Budget!SharesAreKept` | the refinement, and `EveryShareIsKept` of the abstract budget |
| `BudgetLedgerProofs!PromisesAreSpendable` | `[]PromisedFundsSpendable` | from `LedgerKeepsShares`: what a run may still claim of its share fits under the cap |
| `GatesProofs!SlotsStayWithinLimits` | `[]SlotsWithinLimits` | the counters equal the numbers of callers inside (`CountersInvariant`) and never exceed the limits |
| `GatesProofs!NoWakeUpIsLost` | `[]NobodySleepsBesideAFreeSlot` | a departure empties the wake set, and only departures make room |
| `GatesProofs!ApprovalsTypeCorrect` | `[]ApprovalsTypeOK` | by action |
| `GatesProofs!EffectsAreGrantedAndRecorded` | `[]EffectIsGrantedAndRecorded` | inductive with what the call's step says of the record: a queued call's row is still `approved`, an executing one's is `executing` |
| `GatesProofs!ApprovalsExecuteOnce` | `ExecutedOnce` | from the same invariant |
| `GatesProofs!UnknownOutcomesBlock` | `[]UnknownBlocksTheTask` | inductive with one call at a time in a task (`OneCall`), during a turn (`CallsHaveATurn`), and that a check under way is of an outcome that is unknown or was cleared (`ChecksAreOpen`); no bound on the checks |
| `GatesProofs!CommandsToldRight` | `[]CommandsAreToldRight` | one call removes the prepared command (`OneClaim`); what the caller's step says of the helper (`Asking`), the helper's of the job (`Helping`), and a written verdict of both processes (`Cleaned`) |
| `GitWorkProofs!IntegrationsTypeCorrect` | types of `Integrations` and `Completions` | with `Sound`, below: a row is typed only while the queue's jobs name rows |
| `GitWorkProofs!IntegrationsTellTheTruth` | `[]RowsTellWhatGitHolds` | from `Sound`, below |
| `GitWorkProofs!HandoffsAreAsApproved` | `[]HandoffIsAsApproved` | only the last row can be alive, complete or unknown; a call holds that row; each row agrees with its step; the head's commit belongs to a row that says so |
| `GitWorkProofs!WorkspacesTypeCorrect` | `[]WorkspacesTypeOK` | by variable |
| `GitWorkProofs!SwitchesKeepTurnsOut` | `[]TurnsAreKeptOut` | inductive with the types, `TurnsLookedAt` (no turn beside an unknown intent, which could become an effect when it is checked) and `ClosedIsClosing` |
| `GitWorkProofs!StartsTypeCorrect` | `[]StartsTypeOK` | with `StartsInv`, below |
| `GitWorkProofs!StartsAccountedFor` | `[]StartsAreAccountedFor` | from `StartsInv`, below |
| `ServicesProofs!DraftsAnswer` | `[]DraftsAnswerForReviews` | typing, one review per draft (`Single`), the preparing call agrees with both (`InStep`), what is not behind was told (`Tells`), and an approval stands as it was last told or as a restart left that (`Known`) |
| `ServicesProofs!McpTypeCorrect` | `[]McpTypeOK` | by session and by call |
| `ServicesProofs!McpTellsTheTruth` | `[]ToldTheTruth` | `PhasesAgree`: the session in the map is ready, and what is gone has ended; `HonestCall`: a call that still opens or joins has sent nothing, one that is ending awaits its session's stop unless that is over, and one told `unknown` has a session that is gone or was replaced |
| `ServicesProofs!TurnsTypeCorrect` | `[]TurnsTypeOK` | by action |
| `ServicesProofs!EveryRequestIsRecorded` | `[]UsedIsRecorded` | inductive with `OpenIsReserved`: an open row is charged its reservation, so that settling it moves the sum as it moves what was used |
| `ServicesProofs!ConversationsHappenOnce` | `[]ConversationOnce` | inductive with `CallsInOrder` (what is to be done was seen and not executed) and `CursorIsAhead` (the cursor lies between the receipt and what was sent) |
| `ServicesProofs!StreamsTypeCorrect` | `[]StreamsTypeOK` | with `StreamsInv`, below |
| `ServicesProofs!CallsComeWhole` | `[]CallsOnlyFromCompletedStreams` | from `StreamsInv`, below |
| `ServicesProofs!AutomationsTypeCorrect` | `[]AutomationsTypeOK` | by action |
| `ServicesProofs!EventsDraftOnce` | `[]EachEventDraftsOnce` | inductive with `PumpHasItsRun`: while the pump works, its run is undrafted, queued or cancelled before the launch, and running from it on |
| `ServicesProofs!ScriptsRunOnce` | `ScriptsLaunchOnce` | of each step, from the same invariant |
| `ServicesProofs!BrowsersTypeCorrect` | `[]BrowsersTypeOK` | by action |
| `ServicesProofs!BrowsersTellTheTruth` | `[]NotDoneAsReported` | inductive with what the record of an action says of its call (`InStepRow`): a call to execute under way belongs to a record that is executing or unknown, and is not done before it runs |
| `ServicesProofs!SchedulesTypeCorrect` | `[]SchedulesTypeOK` | with `EachDueDayDraftsOnce`: what a tick drafts is a local day |
| `ServicesProofs!EachDayDraftsOnce` | `[]EachDueDayDraftsOnce` | inductive with the types, from `DueIsLatest`, below |
| `CompactionsProofs!CompactionsTypeCorrect` | `[]CompactionsTypeOK` | with `CompactionsInv`, below |
| `CompactionsProofs!ConversationStaysTold` | `[]ConversationIsTold` | from `CompactionsInv` and `HistoryTells`, below |
| `GatesProofs!GatesTypeCorrect`, `GitWorkProofs!GitWorkTypeCorrect`, `ServicesProofs!ServicesTypeCorrect` | `[]TypesOK` of the compositions | each part behaves in the composition as it does alone (`GatesAreTheirParts`, `GitWorkIsItsParts`, `ServicesAreTheirParts`), so that what is proved of it holds there |
| `OrchestratorProofs!OrchestratorTypeCorrect` | `[]TypeOK` (in no run) | by action, with `InHand` |
| `OrchestratorProofs!NoWaitForgotten` | `[]NoWaitIsForgotten` | every step that settles a child notifies the parked turn (`WaitKept`) |
| `OrchestratorProofs!DeliveryIsFinal` | `WaitDeliversSettled` | a turn that was woken awaits only what has settled, and what has settled stays so |
| `OrchestratorProofs!ChildrenStartOnce` | `StartedOnce` | `StartsFrom`: a start finds the child live and never started; `Consistent` gives the hold and the assignment |
| `OrchestratorProofs!NothingPassesTheFence` | `FencedStaysDown` | `FencedStep`, with the invariant that an integration under way has the coordinator's turn waiting (`Integrating`) |
| `OrchestratorProofs!DependentsFollow` | `[]DependentsRunAfterIntegration` | `BehindIsDone`, below |
| `OrchestratorProofs!DelegatedAreSerial` | `[]DelegatedRunSerially` | `OverlapsAreOrdered` and `BehindIsDone`, below |
| `OrchestratorProofs!SchedulerForgetsNothing` | `[]NothingAdmissibleIsForgotten` | `Awake`, below |

### The orchestrator

The inductive invariant of `OrchestratorProofs` (`IInv`) has four parts besides the
types. `Numbered`: revisions are numbered without gaps, so that a new one never
overwrites an assignment. `Consistent`: a child's run, hold and first message
agree with its assignment (a live child has its hold; one that was not
started yet is still `admitted`). `InHand`: across its awaits the scheduler holds on to
a child that is still where it left it or has ended, and a pending integration
to a submitted result whose run has ended. `WaitKept`: a parked turn awaits
something unsettled, a woken one nothing. `NoWaitIsForgotten` alone is not
inductive: without `InHand`, provisioning could revive a child that has settled.
The proof needs that the user cannot step between two synchronous steps of the
scheduler: `ResumeStarts` between `Provisioned` and `StartProvisioned` would break `InHand`.

What dependents and overlaps rest on are three recursive functions: the origin of a
revision, the revision that stands for it now, and all that lies behind an assignment. That
each satisfies its equation follows from the order of the records (`Precedes`: a
dependency or a replaced assignment has a smaller number) in `FiniteFacts`, where
a set of numbers without a least element is empty; what they return when a record is
added follows in the same way (`UpTheRevisions`, `DownTheRevisions`: the least revision for
which a fact fails has no earlier one to blame). The invariant is then `Settling`
(what a revision replaces has failed, what failed or was integrated has no run),
`BehindIsDone` (everything behind an assignment that runs is over, and integrated in one of its
revisions) and `OverlapsAreOrdered` (of two delegated assignments that overlap, the
earlier is over or lies behind the later). Only `Admit` begins a run and only
`Delegate` adds a delegated assignment, so the other steps have nothing to show.

`NothingAdmissibleIsForgotten` speaks of an idle scheduler. `Looking` adds what each step
of its loop may assume of its snapshot: the HEAD it read is the present one, it has
yet to look at every proposal until it scans, and what it passed over cannot
be admitted or met an obstacle nobody reports (`Missed`). `Awake`: while the coordinator is parked, the scheduler was called again or
`Looking` holds. Each step that could make a proposal admissible calls it; the others leave
what was hopeless hopeless (`CouldNot`).

### The ledger

`LInv` adds to the types and to `ReleasedStaysQuiet` that the tables are finite and
that a row in flight has its whole amount and is charged nothing yet. The sums of
`totals` and `runUsage` are sums of a function over a finite set; `FiniteFacts` proves
from the library's definition of a fold that taking out one element takes out its
value, by the least subset for which it would fail. `OneRow` says what follows when one
row is written: the sums of its run move by what the row moves, those of the others
stay. The refinement is then arithmetic, action by action. Its theorem about `TaskBudget`
is used for the ledger by instantiating `TaskBudgetProofs` with the same sums (`Promise`).

### Integrations

`Sound` is stated of a line, rows, integrated results, question and queue, so that
each kind of step (a job leaves the queue, a state is written, a row is added, a
commit lands) is one lemma about any of them. Its parts are what the unique indexes,
the terminal trigger and the root lock give together: one open operation, the last
unless it is a conflict the user returns to (`RowsInOrder`); one effect in the queue,
of an approved operation (`JobsInOrder`); no check beside another operation's effect
(`ChecksAreAlone`); an operation marked as a conflict has not been applied as it was
(`ConflictsStay`); what is open or being checked is not integrated
(`OpenUntilIntegrated`); one operation per integrated result (`IntegratedOnce`); and each commit
belongs to an approved row (`CommitsAreKnown`). Trying to prove it showed that the model
chose between two outcomes where the code's order of tests leaves one (a commit above the
approved head is looked at before the cherry-pick that may still be in progress);
`Observed` now follows that order.

### Starts

That a request makes one task is not inductive: a start that is retried could make a
second one if two calls worked on it. `CallAccounted` says how far each call has come (its
task is its own, unsaved until it is saved, and has no message yet) and that its start is
pending as long as it works; `StartAccounted` says the converse, that a pending
start has a call that works on it, and that only the task a start names may be saved.
`WorktreesAccounted` is the claim about worktrees itself. A crash ends every call and
makes every pending start unknown, which is why nothing is left pending without a call.
Each step writes one task, one call and one start, so that one lemma (`OwnStep`, or
`QuietStep` and `NewTaskStep`) shows for all of them that the other callers' accounts stay.

### Streams

`Agrees` ties what the reader has collected to what is on the wire: the last frame of
the protocol, failures, the pieces of each call, and for each of the three protocols the
reason and the blocks. A frame either is a piece (`PiecesJoined`) or leaves the pieces as they
are (`PiecesQuiet`). The tests at the end of the body (`FinishedWell`) turn the agreement
into the property. The first attempt failed for a reason in the model: the arms of its
`CASE`s overlapped, and TLA+ does not say which of two arms that hold is taken. The arms now
exclude each other, in the order of the code's tests. `PiecesOf` is a set of positions and
`UsedIsRecorded` a fold of the community modules, both of which can be proved about.

### Schedules

The code looks at one day, or at the one before it in the cadence, and at the instants that
some offset of the zone gives for its wall time. `DueDays` speaks of all days and of what the
wall clock has shown since the schedule became active. `ResolvedIsFirst` connects the two: in
a zone that keeps `ZoneAssumption`, what is resolved is the first instant whose wall time is at or past the
one asked for, whether that time is skipped, shown once or shown twice. Then a day is
due exactly when its instant lies between the start and the clock (`DueMeans`), later days are not
resolved earlier (`ResolvedInOrder`), and the candidate before the latest has always
passed, because a whole day lies between it and today (`LatestFacts`, with facts on quotients
and remainders for the weekly ones). So the search finds the latest day that is due, or nothing when
none is (`DueIsLatest`). Trying to prove it corrected the reference, which counted a day as due that
had been passed before the schedule was active, and the model, which compared the instant
with the clock once more for daily and weekly schedules, where the code does so for single ones only.

### Compactions

`CompactionsInv` says that only the last message can be streaming (`LastStreams`); that the ranges
of compactions lie one behind the other, each made of the complete messages in it, with no complete
message before its end that is in no range (`RangesInOrder`); and that the native history, and
what a request in flight was sent, have every call answered or last and carry every range
(`NativeIsWhole`). A message that fails late cannot break this, since only the last one is open,
and what compaction removes from the native history it puts into the summary, earlier summaries
included (`RetainedCarries`). What the view shows is folded from the messages; `HistoryUnfolds`
proves from the definition of the fold that the history of `n + 1` messages is that of `n` with the last
one added, and `HistoryTells` that it tells each message in one item, by the least `n` for
which it would not.

### What is only model-checked

- All liveness (`EveryCallEnds`, `ApprovedIsConcluded`, `NoneRunsForNobody`): fairness and ENABLED are beyond the prover.
- `FinishedWell`, `Joined` and the other operators are proved about only as far as the
  invariants need them.
- The properties of the violated runs.

## 5. Not modelled

- Read-only queries and paging, redaction, hashing, schemas, framing, credentials, request
  bodies, the text of summaries and previews, token estimates, presentation: data
  or I/O without state that other parts race on.
- The renderer's own requests to the runtime (`supervisor.ts`): one promise per
  request, as the runtime's requests to the desktop that `Browsers` models.
- Migrations between schema versions, and the ACLs of the backup copy.
- Evidence records of children;
  previews, templates and decisions of `continuity.ts`; output and input pipes of
  commands; downloads, permissions and file choosers of the browser.
- What a retirement that stopped in the middle says of each of several worktrees.
- The recursive algorithms of `scope.ts` as such: the orchestrator uses `overlaps` and
  `ordered` as relations.
- The .NET port: it follows the TypeScript runtime, has no orchestration yet, and
  is compared with it by conformance tests.

## 6. Plan

1. The intents of a retirement of several worktrees.
2. `scope.ts` against reference definitions, in a module that only TLC uses.
3. The supervisor's requests for the renderer, with time-outs; previews of `continuity.ts` that go stale.
