------------------------------- MODULE Browsers -------------------------------
(***************************************************************************)
(* A browser action of a task: browser-tools.ts and entry.ts in the        *)
(* runtime, supervisor.ts and browser-manager.ts in the desktop, and one   *)
(* tab between them.  The tab moves under the action: the page navigates,  *)
(* the user takes control, the tab is shared again; a request times out    *)
(* while the desktop still carries it out, and either process may end.     *)
(***************************************************************************)
EXTENDS Integers, Sequences, FiniteSets

CONSTANTS BrowserTasks,     \* the ordinary tasks a tab can be attached to
          Origins,          \* the sites the tab can show
          NoTask,           \* no task; also the origin that is authorized nowhere
          MaxPrepared,      \* MAX_PREPARED_PER_TAB
          MaxGenerations,   \* bound on the generations of the tab
          MaxActions        \* bound on the actions ever proposed

ASSUME BrowsersAssumption == /\ NoTask \notin BrowserTasks \cup Origins
                             /\ {MaxPrepared, MaxGenerations, MaxActions} \subseteq Nat

VARIABLES tab,         \* the Tab
          prepared,    \* BrowserManager.prepared, by the action it is for
          tabQueue,    \* the actions inside withTab, in order
          actions,     \* every action: the runtime's approval and the call the host has of it
          revokes,     \* the tasks whose `revoke' is on its way
          runtimeUp

brVars == <<tab, prepared, tabQueue, actions, revokes, runtimeUp>>

Acts == 1..Len(actions)
NewTab(o) == [task |-> NoTask, attachment |-> 0, generation |-> 0, attaching |-> NoTask, loading |-> FALSE,
              origin |-> o, authorized |-> NoTask, pending |-> NoTask, snapshot |-> FALSE]
Ended == {"complete", "rejected", "revoked", "failed", "unknown", "inspected", "refused"}

BrowsersTypeOK ==
  /\ tab \in [task: BrowserTasks \cup {NoTask}, attachment: 0..MaxGenerations, generation: 0..MaxGenerations,
              attaching: BrowserTasks \cup {NoTask, "cancelled"}, loading: BOOLEAN, origin: Origins,
              authorized: Origins \cup {NoTask}, pending: Origins \cup {NoTask}, snapshot: BOOLEAN]
  /\ prepared \subseteq Acts /\ Len(actions) <= MaxActions
  /\ \A i \in DOMAIN tabQueue : tabQueue[i] \in Acts
  /\ \A a \in Acts : actions[a] \in
       [task: BrowserTasks, destination: Origins \cup {NoTask}, origin: Origins, generation: 0..MaxGenerations,
        attachment: 0..MaxGenerations, state: {"preparing", "awaiting-approval", "approved", "executing"} \cup Ended,
        call: {"none", "prepare", "execute"}, host: {"none", "sent", "queued", "running", "answered"},
        code: {"ok", "stale", "failed", "unknown"}, done: BOOLEAN]
  /\ revokes \subseteq BrowserTasks /\ runtimeUp \in BOOLEAN

BrowsersInit ==
  /\ tab \in {NewTab(o) : o \in Origins}
  /\ prepared = {} /\ tabQueue = << >> /\ actions = << >> /\ revokes = {} /\ runtimeUp = TRUE

-----------------------------------------------------------------------------
\* The tab.  invalidate starts a new generation and forgets what was prepared.
Shown(t) ==
  [t EXCEPT !.generation = @ + 1, !.snapshot = FALSE,
            !.authorized = IF t.task # NoTask /\ t.pending = NoTask /\ @ # t.origin THEN NoTask ELSE @]
CancelAttach(t) == IF t.attaching = NoTask THEN t ELSE [t EXCEPT !.attaching = "cancelled"]
Detached(t) == [Shown(CancelAttach(t)) EXCEPT !.task = NoTask, !.attachment = 0,
                                              !.authorized = NoTask, !.pending = NoTask]
MayShow == tab.generation < MaxGenerations
NewGeneration(t) == MayShow /\ tab' = t /\ prepared' = {}

\* did-start-navigation: a page being attached is stopped instead.
PageStarts ==
  /\ ~tab.loading
  /\ NewGeneration([Shown(CancelAttach(tab)) EXCEPT !.loading = (tab.attaching = NoTask)])
  /\ UNCHANGED <<tabQueue, actions, revokes, runtimeUp>>

\* did-navigate, and the load ends; another origin than the one an agent's
\* navigation was approved for ends the sharing.
PageCommits ==
  /\ tab.loading
  /\ \E o \in Origins :
       LET moved == Shown([tab EXCEPT !.origin = o]) IN
       NewGeneration([IF tab.pending \notin {NoTask, o}
                      THEN [moved EXCEPT !.pending = NoTask, !.authorized = NoTask] ELSE moved
                      EXCEPT !.loading = FALSE])
  /\ UNCHANGED <<tabQueue, actions, revokes, runtimeUp>>

PageFails ==
  /\ tab.loading /\ tab' = [tab EXCEPT !.loading = FALSE]
  /\ UNCHANGED <<prepared, tabQueue, actions, revokes, runtimeUp>>

\* takeControl, any key or click of the user, a file chooser, a crash of the page.
UserInterrupts ==
  /\ NewGeneration(Detached(tab))
  /\ UNCHANGED <<tabQueue, actions, revokes, runtimeUp>>

\* command attach: it is checked again after it waited for the debugger.
AskAttach(t) ==
  /\ tab.attaching = NoTask /\ ~tab.loading
  /\ tab' = [tab EXCEPT !.attaching = t]
  /\ UNCHANGED <<prepared, tabQueue, actions, revokes, runtimeUp>>

EndAttach ==
  /\ tab.attaching # NoTask
  /\ LET shared == Shown(tab) IN
     \/ /\ tab.attaching # "cancelled" /\ ~tab.loading
        /\ NewGeneration([shared EXCEPT !.task = tab.attaching, !.attachment = shared.generation,
                                        !.authorized = tab.origin, !.attaching = NoTask])
     \/ NewGeneration([Detached(tab) EXCEPT !.attaching = NoTask])
  /\ UNCHANGED <<tabQueue, actions, revokes, runtimeUp>>

\* request snapshot by the task the tab is shared with: the earlier preparations go.
Attached(t) == /\ tab.task = t /\ tab.attachment # 0 /\ tab.attaching = NoTask
               /\ ~tab.loading /\ tab.authorized = tab.origin
Snapshot ==
  /\ tab.task # NoTask /\ Attached(tab.task) /\ tabQueue = << >>
  /\ tab' = [tab EXCEPT !.snapshot = TRUE] /\ prepared' = {}
  /\ UNCHANGED <<tabQueue, actions, revokes, runtimeUp>>

HostRevoke(t) ==
  /\ t \in revokes /\ revokes' = revokes \ {t}
  /\ \/ tab.task = t /\ NewGeneration(Detached(tab))
     \/ tab.task # t /\ tab' = (IF tab.attaching = t THEN CancelAttach(tab) ELSE tab) /\ UNCHANGED prepared
  /\ UNCHANGED <<tabQueue, actions, runtimeUp>>

-----------------------------------------------------------------------------
\* The host's side of a request.
Answer(a, code) == actions' = [actions EXCEPT ![a].host = "answered", ![a].code = code]
Pending(a) == actions[a].state \in {"preparing", "executing"}

\* attached, then withTab.
HostReceives(a) ==
  /\ actions[a].host = "sent"
  /\ IF Attached(actions[a].task) /\ (actions[a].call = "execute" => a \in prepared)
     THEN actions' = [actions EXCEPT ![a].host = "queued"] /\ tabQueue' = Append(tabQueue, a)
     ELSE Answer(a, "stale") /\ UNCHANGED tabQueue
  /\ UNCHANGED <<tab, prepared, revokes, runtimeUp>>

AtHead(a) == tabQueue # << >> /\ Head(tabQueue) = a
PrepareAllowed(a) == Attached(actions[a].task) /\ (actions[a].destination = NoTask => tab.snapshot)
\* What was approved is still what the tab shows.
ExecuteAllowed(a) ==
  /\ Attached(actions[a].task) /\ a \in prepared
  /\ actions[a].attachment = tab.attachment /\ actions[a].generation = tab.generation /\ actions[a].origin = tab.origin

\* Its turn.  A prepared action is used up before anything is done with it; the
\* ten minutes it lives may be over at any time.
HostBegins(a) ==
  /\ AtHead(a) /\ actions[a].host = "queued"
  /\ \/ /\ Answer(a, "stale") /\ tabQueue' = Tail(tabQueue) /\ UNCHANGED <<tab, prepared>>
     \/ /\ actions[a].call = "prepare" /\ PrepareAllowed(a)
        /\ actions' = [actions EXCEPT ![a].host = "running"] /\ UNCHANGED <<tab, prepared, tabQueue>>
     \/ /\ actions[a].call = "execute" /\ ExecuteAllowed(a)
        /\ actions' = [actions EXCEPT ![a].host = "running"] /\ prepared' = prepared \ {a}
        /\ tab' = IF actions[a].destination = NoTask THEN tab
                  ELSE [tab EXCEPT !.pending = actions[a].destination, !.authorized = actions[a].destination]
        /\ UNCHANGED tabQueue
  /\ UNCHANGED <<revokes, runtimeUp>>

\* The target was evaluated: the preparation names the tab as it is now.
HostPrepares(a) ==
  /\ AtHead(a) /\ actions[a].host = "running" /\ actions[a].call = "prepare"
  /\ tabQueue' = Tail(tabQueue)
  /\ IF Cardinality(prepared) >= MaxPrepared THEN Answer(a, "failed") /\ UNCHANGED prepared
     ELSE /\ prepared' = prepared \cup {a}
          /\ actions' = [actions EXCEPT ![a].host = "answered", ![a].generation = tab.generation, ![a].origin = tab.origin,
                           ![a].attachment = tab.attachment, ![a].code = IF tab.attachment = 0 THEN "failed" ELSE "ok"]
  /\ UNCHANGED <<tab, revokes, runtimeUp>>

\* The page is acted on; for a navigation, the load of its destination starts.
HostActs(a) ==
  /\ AtHead(a) /\ actions[a].host = "running" /\ actions[a].call = "execute" /\ ~actions[a].done
  /\ actions' = [actions EXCEPT ![a].done = TRUE]
  /\ UNCHANGED <<tab, prepared, tabQueue, revokes, runtimeUp>>

\* It is over: done, not done because the target had changed, or with an error.
HostFinishes(a) ==
  LET navigates == actions[a].destination # NoTask
      arrived == tab.pending = actions[a].destination /\ tab.origin = actions[a].destination
      left == [tab EXCEPT !.pending = NoTask, !.authorized = NoTask] IN
  /\ AtHead(a) /\ actions[a].host = "running" /\ actions[a].call = "execute"
  /\ tabQueue' = Tail(tabQueue)
  /\ \/ /\ actions[a].done /\ Answer(a, "ok")
        /\ NewGeneration(Shown(IF navigates THEN [left EXCEPT !.authorized = IF arrived THEN tab.origin ELSE NoTask] ELSE tab))
     \/ /\ ~navigates /\ ~actions[a].done /\ Answer(a, "stale") /\ UNCHANGED <<tab, prepared>>
     \/ /\ Answer(a, "unknown") /\ tab' = (IF navigates THEN left ELSE tab) /\ UNCHANGED prepared
  /\ UNCHANGED <<revokes, runtimeUp>>

-----------------------------------------------------------------------------
\* The runtime's side.  An unknown outcome of the task blocks its next action.
ProposeAction(t, destination) ==
  /\ runtimeUp /\ Len(actions) < MaxActions
  /\ \A a \in Acts : actions[a].task = t => actions[a].state \in Ended \ {"unknown"}
  /\ actions' = Append(actions, [task |-> t, destination |-> destination, origin |-> tab.origin, generation |-> 0,
                                 attachment |-> 0, state |-> "preparing", call |-> "prepare", host |-> "sent",
                                 code |-> "ok", done |-> FALSE])
  /\ UNCHANGED <<tab, prepared, tabQueue, revokes, runtimeUp>>

Outcome(call, code) == IF call = "prepare" THEN IF code = "ok" THEN "awaiting-approval" ELSE "refused"
                       ELSE CASE code = "ok" -> "complete" [] code = "stale" -> "revoked"
                              [] code = "failed" -> "failed" [] code = "unknown" -> "unknown"

\* answerBrowser and entry.ts: the answer to a request that is still waited for,
\* while the supervisor still has that runtime.
AnswerArrives(a) ==
  /\ actions[a].host = "answered"
  /\ actions' = [actions EXCEPT ![a].host = "none", ![a].call = IF Pending(a) /\ runtimeUp THEN "none" ELSE @,
                                ![a].state = IF Pending(a) /\ runtimeUp THEN Outcome(actions[a].call, actions[a].code) ELSE @]
  /\ UNCHANGED <<tab, prepared, tabQueue, revokes, runtimeUp>>

\* Mutant: a request given up is reported as one the desktop never took.
GivenUpAsStale(a) == Outcome(actions[a].call, "stale")
\* Thirty seconds went by or the turn was cancelled: the desktop may still act.
GivenUp(a) == Outcome(actions[a].call, "unknown")
GiveUp(a) ==
  /\ runtimeUp /\ Pending(a)
  /\ actions' = [actions EXCEPT ![a].state = GivenUp(a)]
  /\ UNCHANGED <<tab, prepared, tabQueue, revokes, runtimeUp>>

\* The user's decision; invalidateBrowser, and a cancelled turn, refuse for them.
DecideAction(a, decision) ==
  /\ runtimeUp /\ actions[a].state = "awaiting-approval"
  /\ actions' = [actions EXCEPT ![a].state = decision]
  /\ revokes' = IF decision = "approved" THEN revokes ELSE revokes \cup {actions[a].task}
  /\ UNCHANGED <<tab, prepared, tabQueue, runtimeUp>>

\* withTabLock: one action at a time; a cancelled one is never sent, and one
\* more than thirty-two are in flight is not either.
ExecuteAction(a) ==
  /\ runtimeUp /\ actions[a].state = "approved"
  /\ \A b \in Acts : actions[b].state # "executing"
  /\ \/ actions' = [actions EXCEPT ![a].state = "executing", ![a].call = "execute", ![a].host = "sent"]
     \/ \E notSent \in {"revoked", "unknown"} : actions' = [actions EXCEPT ![a].state = notSent]
  /\ UNCHANGED <<tab, prepared, tabQueue, revokes, runtimeUp>>

\* acknowledgeUnknown: the user looked at the tab, or it is gone.
InspectUnknown(a) ==
  /\ runtimeUp /\ actions[a].state = "unknown"
  /\ actions' = [actions EXCEPT ![a].state = "inspected"]
  /\ UNCHANGED <<tab, prepared, tabQueue, revokes, runtimeUp>>

\* The runtime ends, by shutdown or a crash; what is saved is what the next one
\* recovers.  The desktop goes on with the requests it has, and frees the tab.
RecoveredApproval(state) ==
  CASE state \in {"awaiting-approval", "approved"} -> "revoked"
    [] state = "executing" -> "unknown" [] state = "preparing" -> "refused" [] OTHER -> state
RuntimeEnds ==
  /\ runtimeUp /\ runtimeUp' = FALSE
  /\ actions' = [a \in Acts |-> [actions[a] EXCEPT !.state = RecoveredApproval(@)]]
  /\ revokes' = {} /\ NewGeneration(Detached(tab))
  /\ UNCHANGED tabQueue

\* The application starts again: both processes are new.
DesktopRestarts ==
  /\ ~runtimeUp /\ runtimeUp' = TRUE
  /\ actions' = [a \in Acts |-> [actions[a] EXCEPT !.host = "none"]]
  /\ tabQueue' = << >> /\ prepared' = {} /\ tab' = [NewTab(tab.origin) EXCEPT !.generation = tab.generation]
  /\ UNCHANGED revokes

BrowsersNext ==
  \/ PageStarts \/ PageCommits \/ PageFails \/ UserInterrupts \/ EndAttach \/ Snapshot
  \/ \E t \in BrowserTasks : \/ AskAttach(t) \/ HostRevoke(t)
                             \/ \E d \in Origins \cup {NoTask} : ProposeAction(t, d)
  \/ \E a \in Acts : \/ HostReceives(a) \/ HostBegins(a) \/ HostPrepares(a) \/ HostActs(a) \/ HostFinishes(a)
                     \/ AnswerArrives(a) \/ GiveUp(a) \/ ExecuteAction(a) \/ InspectUnknown(a)
                     \/ \E d \in {"approved", "rejected", "revoked"} : DecideAction(a, d)
  \/ RuntimeEnds \/ DesktopRestarts

-----------------------------------------------------------------------------
\* An action the task is told was not carried out never was and never will be,
\* however late the desktop takes the request, runs it or answers it, and
\* whichever process ends in between (browser-tools.ts:69-80, entry.ts:23-35).
NotDoneAsReported ==
  \A a \in Acts : actions[a].done => actions[a].state \notin {"rejected", "revoked", "failed", "refused"}

=============================================================================
