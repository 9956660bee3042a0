---- MODULE MCServices ----
(* The services a turn relies on, each looked at on its own: `focus' names *)
(* the one a behaviour is about.                                           *)
(*   Budget: requests of 2 and allocations of 4 and 6 from a cap of 10, of *)
(*   which 2 are protected; a usage of 5 overruns a request.               *)
(*   Turns: two rounds of requests of 2 from a budget of 7, over turns,    *)
(*   retries and crashes, and two messages of the channel.                 *)
(*   Automations: a rule and two revisions of a script, two events.        *)
(*   Schedules: clocks go forward in the first day and back on the second; *)
(*   a day has four instants.                                              *)
(*   Streams: any five frames of the three protocols.                      *)
(*   Mcp: a task and the settings page share one server, of which three    *)
(*   processes are ever launched.                                          *)
(*   Browsers: one tab, three generations of its page, one action.         *)
(*   Drafts: two action drafts of a task, two approvals.                   *)
(*   Compactions: three turns of at most two requests, keeping one to      *)
(*   three messages.                                                       *)
EXTENDS TaskBudget, AgentTurns, Automations, Schedules, ProviderStreams, McpSessions, Browsers, Drafts, Compactions

MCCap == 10
MCProtected == 2
MCAmounts == {2, 4, 6}
MCUsages == {1, 5}
MCStartDates == {NoDate, 1}
MCZone == [t \in 0..LastInstant |-> IF t \in 5..8 THEN 2 ELSE 0]

VARIABLE focus

TypesOK == /\ BudgetTypeOK /\ TurnsTypeOK /\ AutomationsTypeOK /\ SchedulesTypeOK
           /\ StreamsTypeOK /\ McpTypeOK /\ BrowsersTypeOK /\ DraftsTypeOK /\ CompactionsTypeOK

\* The parts a behaviour is not about start in one way.
Elsewhere(part, start) == focus # part => start

ServicesInit ==
  /\ focus \in {"budget", "turns", "automations", "schedules", "streams", "mcp", "browsers", "drafts", "compactions"}
  /\ BudgetInit /\ TurnsInit /\ AutomationsInit /\ SchedulesInit /\ McpInit /\ BrowsersInit /\ DraftsInit
  /\ StreamsInit /\ CompactionsInit
  /\ Elsewhere("streams", protocol = "chat")
  /\ Elsewhere("compactions", api = "chat")
  /\ Elsewhere("schedules", clock = 0)
  /\ Elsewhere("browsers", tab = NewTab(CHOOSE o \in Origins : TRUE))

ServicesNext ==
  /\ UNCHANGED focus
  /\ \/ focus = "budget" /\ BudgetNext /\ UNCHANGED <<atVars, auVars, scVars, psVars, mcVars, brVars, drVars, cpVars>>
     \/ focus = "turns" /\ TurnsNext /\ UNCHANGED <<budgetVars, auVars, scVars, psVars, mcVars, brVars, drVars, cpVars>>
     \/ focus = "automations" /\ AutomationsNext /\ UNCHANGED <<budgetVars, atVars, scVars, psVars, mcVars, brVars, drVars, cpVars>>
     \/ focus = "schedules" /\ SchedulesNext /\ UNCHANGED <<budgetVars, atVars, auVars, psVars, mcVars, brVars, drVars, cpVars>>
     \/ focus = "streams" /\ StreamsNext /\ UNCHANGED <<budgetVars, atVars, auVars, scVars, mcVars, brVars, drVars, cpVars>>
     \/ focus = "mcp" /\ McpNext /\ UNCHANGED <<budgetVars, atVars, auVars, scVars, psVars, brVars, drVars, cpVars>>
     \/ focus = "browsers" /\ BrowsersNext /\ UNCHANGED <<budgetVars, atVars, auVars, scVars, psVars, mcVars, drVars, cpVars>>
     \/ focus = "drafts" /\ DraftsNext /\ UNCHANGED <<budgetVars, atVars, auVars, scVars, psVars, mcVars, brVars, cpVars>>
     \/ focus = "compactions" /\ CompactionsNext
        /\ UNCHANGED <<budgetVars, atVars, auVars, scVars, psVars, mcVars, brVars, drVars>>

\* A grant is only compared with the one its revision has now: states that differ in
\* nothing but the numbers of grants have the same successors.
GrantOf(v) == IF trust.grants[v] = 0 THEN "none" ELSE IF Trusted(v) THEN "live" ELSE "expired"
MCView ==
  <<focus, log, active, jobs, drafts, trust.current, trust.issued, [v \in Revisions |-> GrantOf(v)], hooks, drain, granting,
    [pump EXCEPT !.grant = IF pump.revision # 0 /\ @ = trust.grants[pump.revision] THEN 1 ELSE 0],
    budgetVars, atVars, scVars, psVars, mcVars, brVars, drVars, cpVars>>

ServicesSpec == ServicesInit /\ [][ServicesNext]_<<focus, budgetVars, atVars, auVars, scVars, psVars, mcVars, brVars, drVars, cpVars>>
====
