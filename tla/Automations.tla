----------------------------- MODULE Automations -----------------------------
(***************************************************************************)
(* Automation (automation.ts): committed events are consumed from a cursor *)
(* by a rule, which drafts at once, and by a registered script, which is   *)
(* queued and runs outside the runtime under a grant of trust.  Rules,     *)
(* revisions, grants and the feature switch change while it waits.         *)
(***************************************************************************)
EXTENDS Integers, FiniteSets

CONSTANTS Rule,           \* the rule
          MaxRevisions,   \* bound on the revisions of the script
          MaxEvents,      \* bound on the committed events
          MaxGrants,      \* bound on the grants
          DailyRuns       \* grant.maxRunsPer24h

ASSUME AutomationsAssumption ==
  /\ MaxRevisions \in Nat \ {0} /\ MaxEvents \in Nat /\ MaxGrants \in Nat /\ DailyRuns \in Nat
  /\ Rule \notin 1..MaxRevisions

VARIABLES log,       \* the events committed and the cursor
          active,    \* automation_activation: the sequence a listener was enabled at
          jobs,      \* automation_runs of each listener and event
          drafts,    \* how many times the drafts of a run were added
          trust,     \* the current revision, the grants of revisions, and grants that expired
          hooks,     \* feature admission
          drain,     \* consumeEvents
          pump,      \* pumpQueued and dispatchScript
          granting   \* the revision whose grant is being validated, or 0

auVars == <<log, active, jobs, drafts, trust, hooks, drain, pump, granting>>

Revisions == 1..MaxRevisions
Listeners == Revisions \cup {Rule}
Events == 1..MaxEvents
Never == MaxEvents            \* no sequence is greater
JobStates == {"none", "queued", "running", "complete", "failed", "unknown", "cancelled"}
NoDrain == [step |-> "idle", left |-> {}]
NoPump == [step |-> "idle", revision |-> 0, event |-> 0, grant |-> 0, aborted |-> FALSE]

AutomationsTypeOK ==
  /\ log \in [committed: 0..MaxEvents, cursor: 0..MaxEvents]
  /\ active \in [Listeners -> 0..MaxEvents]
  /\ jobs \in [Listeners -> [Events -> JobStates]]
  /\ drafts \in [Listeners -> [Events -> 0..2]]
  /\ trust \in [current: Revisions, grants: [Revisions -> 0..MaxGrants], issued: 0..MaxGrants, expired: SUBSET (1..MaxGrants)]
  /\ hooks \in BOOLEAN
  /\ drain \in [step: {"idle", "processing", "yielding", "ending"}, left: SUBSET Listeners]
  /\ pump.step \in {"idle", "validating", "running", "committing"} /\ pump.grant \in 0..MaxGrants
  /\ granting \in 0..MaxRevisions

AutomationsInit ==
  /\ log = [committed |-> 0, cursor |-> 0]
  /\ active = [l \in Listeners |-> Never]
  /\ jobs = [l \in Listeners |-> [e \in Events |-> "none"]]
  /\ drafts = [l \in Listeners |-> [e \in Events |-> 0]]
  /\ trust = [current |-> 1, grants |-> [v \in Revisions |-> 0], issued |-> 0, expired |-> {}]
  /\ hooks = TRUE
  /\ drain = NoDrain /\ pump = NoPump /\ granting = 0

Trusted(v) == trust.grants[v] # 0 /\ trust.grants[v] \notin trust.expired
CancelQueued(v) == [jobs EXCEPT ![v] = [e \in Events |-> IF @[e] = "queued" THEN "cancelled" ELSE @[e]]]
Aborted(v) == IF pump.step \in {"running", "committing"} /\ pump.revision = v
              THEN [pump EXCEPT !.aborted = TRUE] ELSE pump

CommitEvent ==
  /\ log.committed < MaxEvents
  /\ log' = [log EXCEPT !.committed = @ + 1]
  /\ UNCHANGED <<active, jobs, drafts, trust, hooks, drain, pump, granting>>

\* saveRule: a changed rule only sees later events.
SaveRule ==
  /\ hooks /\ active' = [active EXCEPT ![Rule] = log.committed]
  /\ UNCHANGED <<log, jobs, drafts, trust, hooks, drain, pump, granting>>

\* register: a new revision takes the trust of the one before.
Register ==
  /\ trust.current < MaxRevisions
  /\ trust' = [trust EXCEPT !.current = @ + 1, !.grants[trust.current] = 0]
  /\ pump' = Aborted(trust.current)
  /\ UNCHANGED <<log, active, jobs, drafts, hooks, drain, granting>>

\* grant: the revision is current and the hooks are on, then its files are
\* hashed; only the hashes are looked at afterwards.
AskGrant ==
  /\ hooks /\ granting = 0 /\ trust.issued < MaxGrants
  /\ granting' = trust.current
  /\ UNCHANGED <<log, active, jobs, drafts, trust, hooks, drain, pump>>

Granted ==
  /\ granting # 0
  /\ trust' = [trust EXCEPT !.issued = @ + 1, !.grants[granting] = trust.issued + 1]
  /\ jobs' = IF trust.grants[granting] = 0 THEN jobs ELSE CancelQueued(granting)
  /\ active' = [active EXCEPT ![granting] = log.committed]
  /\ granting' = 0
  /\ UNCHANGED <<log, drafts, hooks, drain, pump>>

\* revoke; also what validateRevision does when a pinned file has changed.
Revoke(v) ==
  /\ trust' = [trust EXCEPT !.grants[v] = 0]
  /\ jobs' = CancelQueued(v)
  /\ pump' = Aborted(v)
  /\ UNCHANGED <<log, active, drafts, hooks, drain, granting>>

Expire(v) ==
  /\ Trusted(v)
  /\ trust' = [trust EXCEPT !.expired = @ \cup {trust.grants[v]}]
  /\ UNCHANGED <<log, active, jobs, drafts, hooks, drain, pump, granting>>

SwitchHooks ==
  /\ hooks' = ~hooks
  /\ UNCHANGED <<log, active, jobs, drafts, trust, drain, pump, granting>>

-----------------------------------------------------------------------------
\* consumeEvents: the next event is read from the table, given to every listener
\* and the cursor moved past it, without an await in between.
Consume ==
  /\ drain.step \in {"idle", "yielding"} \/ (drain.step = "processing" /\ drain.left = {})
  /\ LET at == IF drain.step = "processing" THEN log.cursor + 1 ELSE log.cursor IN
     /\ log' = [log EXCEPT !.cursor = at]
     /\ IF at < log.committed
        THEN drain' = [step |-> "processing", left |-> {Rule, trust.current}]
        ELSE drain' = [step |-> IF drain.step = "processing" THEN "yielding" ELSE "ending", left |-> {}]
  /\ UNCHANGED <<active, jobs, drafts, trust, hooks, pump, granting>>

\* The promise of a finished drain is forgotten one microtask later; a catchUp
\* in between joins it.
DrainEnds ==
  /\ drain.step = "ending" /\ drain' = NoDrain
  /\ UNCHANGED <<log, active, jobs, drafts, trust, hooks, pump, granting>>

\* Mutant: a run that is there already is replaced.
EnqueuesAgain(l, e) == TRUE

\* enqueue: INSERT OR IGNORE, one run of a listener for an event.
Enqueues(l, e) == jobs[l][e] = "none"

Listen(l) ==
  LET e == log.cursor + 1 IN
  /\ drain.step = "processing" /\ l \in drain.left
  /\ drain' = [drain EXCEPT !.left = @ \ {l}]
  /\ IF hooks /\ e > active[l] /\ Enqueues(l, e)
     THEN IF l = Rule
          THEN /\ jobs' = [jobs EXCEPT ![l][e] = "complete"]
               /\ drafts' = [drafts EXCEPT ![l][e] = @ + 1]
          ELSE jobs' = [jobs EXCEPT ![l][e] = "queued"] /\ UNCHANGED drafts
     ELSE UNCHANGED <<jobs, drafts>>
  /\ UNCHANGED <<log, active, trust, hooks, pump, granting>>

-----------------------------------------------------------------------------
\* pumpQueued takes the oldest queued run; dispatchScript refuses or begins to
\* hash the pinned files.
Queued == {j \in Revisions \X Events : jobs[j[1]][j[2]] = "queued"}
RunsToday(v) == Cardinality({e \in Events : jobs[v][e] \in {"running", "complete", "failed", "unknown"}})

Dispatch(v, e) ==
  /\ pump.step = "idle" /\ <<v, e>> \in Queued
  /\ \A j \in Queued : j[2] >= e
  /\ IF hooks /\ v = trust.current /\ Trusted(v) /\ RunsToday(v) < DailyRuns
     THEN pump' = [NoPump EXCEPT !.step = "validating", !.revision = v, !.event = e] /\ UNCHANGED jobs
     ELSE jobs' = [jobs EXCEPT ![v][e] = "cancelled"] /\ UNCHANGED pump
  /\ UNCHANGED <<log, active, drafts, trust, hooks, drain, granting>>

Conclude(state) == /\ jobs' = [jobs EXCEPT ![pump.revision][pump.event] = state]
                   /\ pump' = NoPump

\* The files are as pinned; the grant is read again before the launch, the run is
\* not: whatever was written of it meanwhile is overwritten.
Launch ==
  /\ pump.step = "validating"
  /\ IF Trusted(pump.revision)
     THEN /\ jobs' = [jobs EXCEPT ![pump.revision][pump.event] = "running"]
          /\ pump' = [pump EXCEPT !.step = "running", !.grant = trust.grants[pump.revision]]
     ELSE Conclude("cancelled")
  /\ UNCHANGED <<log, active, drafts, trust, hooks, drain, granting>>

\* They are not: the revision loses its trust.
PinChanged ==
  /\ pump.step \in {"validating", "committing"}
  /\ trust' = [trust EXCEPT !.grants[pump.revision] = 0]
  /\ jobs' = [CancelQueued(pump.revision) EXCEPT
                ![pump.revision][pump.event] = IF pump.step = "validating" THEN "failed" ELSE "unknown"]
  /\ pump' = NoPump
  /\ UNCHANGED <<log, active, drafts, hooks, drain, granting>>

\* Everything the script ran under is still there.
StillTrusted == /\ ~pump.aborted /\ hooks /\ pump.revision = trust.current
                /\ Trusted(pump.revision) /\ trust.grants[pump.revision] = pump.grant

\* The script ended: with drafts, without a clean result, or nobody knows.
ScriptEnds ==
  /\ pump.step = "running"
  /\ \/ StillTrusted /\ pump' = [pump EXCEPT !.step = "committing"] /\ UNCHANGED jobs
     \/ StillTrusted /\ Conclude("failed")
     \/ Conclude("unknown")
  /\ UNCHANGED <<log, active, drafts, trust, hooks, drain, granting>>

\* The files were hashed again; the drafts are added with the run's completion.
CommitDrafts ==
  /\ pump.step = "committing"
  /\ IF StillTrusted
     THEN drafts' = [drafts EXCEPT ![pump.revision][pump.event] = @ + 1] /\ Conclude("complete")
     ELSE Conclude("unknown") /\ UNCHANGED drafts
  /\ UNCHANGED <<log, active, trust, hooks, drain, granting>>

\* Mutant: what was launched is queued again, too.
CrashRequeues ==
  /\ jobs' = [l \in Listeners |-> [e \in Events |-> IF jobs[l][e] = "running" THEN "queued" ELSE jobs[l][e]]]
  /\ drain' = NoDrain /\ pump' = NoPump /\ granting' = 0
  /\ UNCHANGED <<log, active, drafts, trust, hooks>>

\* recover: what was launched is unknown; what was queued stays queued.
CrashAutomations ==
  /\ jobs' = [l \in Listeners |-> [e \in Events |-> IF jobs[l][e] = "running" THEN "unknown" ELSE jobs[l][e]]]
  /\ drain' = NoDrain /\ pump' = NoPump /\ granting' = 0
  /\ UNCHANGED <<log, active, drafts, trust, hooks>>

AutomationsNext ==
  \/ /\ drain.step # "processing"
     /\ \/ CommitEvent \/ SaveRule \/ Register \/ AskGrant \/ Granted \/ SwitchHooks
        \/ \E v \in Revisions : Revoke(v) \/ Expire(v) \/ \E e \in Events : Dispatch(v, e)
        \/ Launch \/ PinChanged \/ ScriptEnds \/ CommitDrafts \/ DrainEnds
  \/ Consume \/ \E l \in Listeners : Listen(l)
  \/ CrashAutomations

\* However often an event is consumed again after a crash, and however often its
\* run is resumed, a rule or a script drafts for it at most once, as its run says.
EachEventDraftsOnce ==
  \A l \in Listeners, e \in Events : /\ drafts[l][e] <= 1
                                     /\ (drafts[l][e] = 1) <=> (jobs[l][e] = "complete")

\* However a run is cancelled, recovered, consumed again or loses its grant while
\* it is dispatched, its script is launched once: what was launched is never
\* queued again nor run anew.
Launched == {"running", "complete", "failed", "unknown"}
ScriptsLaunchOnce ==
  [][\A v \in Revisions, e \in Events :
       jobs[v][e] \in Launched =>
         jobs'[v][e] \in Launched /\ (jobs'[v][e] = "running" => jobs[v][e] = "running")]_auVars

\* personal-workspace-expansion.md:63: grant renewal cancels runs queued under the
\* old grant.  A cancelled run is then not launched, but a run that is cancelled
\* while its dispatch hashes the pinned files is.
CancelledIsNotLaunched ==
  [][\A v \in Revisions, e \in Events : jobs[v][e] = "cancelled" => jobs'[v][e] # "running"]_auVars

AutomationsSpec == AutomationsInit /\ [][AutomationsNext]_auVars
=============================================================================
