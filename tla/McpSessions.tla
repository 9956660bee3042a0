----------------------------- MODULE McpSessions -----------------------------
(***************************************************************************)
(* The sessions of one MCP server (mcp.ts).  All tasks share one server    *)
(* process; it is launched by whoever needs it first, and it is ended by a *)
(* call that timed out or was cancelled, by the settings, by idleness, by  *)
(* its own death and by the shutdown, while other calls are in it.  One    *)
(* action runs to the next await.                                          *)
(***************************************************************************)
EXTENDS Integers, Sequences, FiniteSets

CONSTANTS McpCallers,      \* the tasks that call tools of the server
          MaxSessions      \* bound on the processes ever launched

ASSUME McpAssumption == MaxSessions \in Nat

VARIABLES launched,    \* the sessions ever opened, each with its process
          current,     \* McpManager.sessions: the session in use, or 0
          opening,     \* McpManager.starting: the session being opened, or 0
          stopped,     \* McpManager.stopping: the session whose stop is waited for, or 0
          tools,       \* the tools/call of each task, and the connect of the settings
          mcpClosing

mcVars == <<launched, current, opening, stopped, tools, mcpClosing>>

SettingsPage == "settings"      \* connect: launches afresh and lists, calls nothing
Users == McpCallers \cup {SettingsPage}
NoCall == [step |-> "idle", session |-> 0, awaits |-> 0, sent |-> FALSE, ran |-> FALSE, told |-> "nothing"]
Sessions == 1..Len(launched)

McpTypeOK ==
  /\ Len(launched) \in 0..MaxSessions
  /\ \A s \in Sessions : launched[s] \in [phase: {"starting", "ready", "stopping", "gone"}, alive: BOOLEAN, closed: BOOLEAN]
  /\ current \in 0..Len(launched) /\ opening \in 0..Len(launched) /\ stopped \in 0..Len(launched)
  /\ tools \in [Users -> [step: {"idle", "opening", "replacing", "joined", "waiting", "ending"},
                          session: 0..Len(launched), awaits: 0..Len(launched),
                          sent: BOOLEAN, ran: BOOLEAN, told: {"nothing", "refused", "answered", "unknown"}]]
  /\ mcpClosing \in BOOLEAN

McpInit ==
  /\ launched = << >> /\ current = 0 /\ opening = 0 /\ stopped = 0
  /\ tools = [u \in Users |-> NoCall]
  /\ mcpClosing = FALSE

InUse(s) == \E u \in Users : tools[u].session = s /\ tools[u].step \in {"waiting", "ending"}

\* The stop a caller awaits has ended, or there was none when it looked.
StopAwaited(u) == tools[u].awaits # 0 => launched[tools[u].awaits].phase = "gone"

\* The call is over; what it ran and what it was told stay for the property.
Tell(u, told) == tools' = [tools EXCEPT ![u].step = "idle", ![u].awaits = 0, ![u].told = told]

\* stopSession, for the session in the map: out of the map, the client closed, the
\* process asked to stop.  Every call of the session is rejected as unknown.
StopRunning ==
  /\ current' = 0 /\ stopped' = current
  /\ launched' = [launched EXCEPT ![current].phase = "stopping", ![current].closed = TRUE]

\* call and connect up to the first await of openSession, which is for the stop
\* that is pending now.
CallTool(u) ==
  /\ tools[u].step = "idle" /\ (u = SettingsPage \/ ~mcpClosing)
  /\ tools' = [tools EXCEPT ![u] = [NoCall EXCEPT !.step = "opening", !.awaits = stopped]]
  /\ UNCHANGED <<launched, current, opening, stopped, mcpClosing>>

-----------------------------------------------------------------------------
\* A start under way is joined; else a process is launched, whatever else runs.
JoinOrLaunch(u) ==
  \/ /\ opening # 0
     /\ tools' = [tools EXCEPT ![u].step = "joined", ![u].session = opening, ![u].awaits = 0]
     /\ UNCHANGED <<launched, opening>>
  \/ /\ opening = 0 /\ Len(launched) < MaxSessions
     /\ launched' = Append(launched, [phase |-> "starting", alive |-> TRUE, closed |-> FALSE])
     /\ opening' = Len(launched) + 1
     /\ tools' = [tools EXCEPT ![u].step = "joined", ![u].session = Len(launched) + 1, ![u].awaits = 0]

Usable(u) == u # SettingsPage /\ launched[current].alive /\ ~launched[current].closed

\* openSession, when that stop has ended.  A running session is used; a closed one
\* and, for the settings, any one is stopped first.
OpenSession(u) ==
  /\ tools[u].step = "opening" /\ StopAwaited(u)
  /\ \/ mcpClosing /\ Tell(u, "refused") /\ UNCHANGED <<launched, current, opening, stopped>>
     \/ /\ ~mcpClosing /\ current # 0 /\ Usable(u)
        /\ tools' = [tools EXCEPT ![u].step = "joined", ![u].session = current, ![u].awaits = 0]
        /\ UNCHANGED <<launched, current, opening, stopped>>
     \/ /\ ~mcpClosing /\ current # 0 /\ ~Usable(u)
        /\ StopRunning
        /\ tools' = [tools EXCEPT ![u].step = "replacing", ![u].awaits = current]
        /\ UNCHANGED opening
     \/ ~mcpClosing /\ current = 0 /\ JoinOrLaunch(u) /\ UNCHANGED <<current, stopped>>
  /\ UNCHANGED mcpClosing

\* Behind its own stop it looks at nothing but the starts: not at the shutdown, nor
\* at a session that another caller opened meanwhile.
Replace(u) ==
  /\ tools[u].step = "replacing" /\ StopAwaited(u)
  /\ JoinOrLaunch(u)
  /\ UNCHANGED <<current, stopped, mcpClosing>>

\* initialize and the first listing succeed and the session takes its place in the
\* map, also from one that is there; or the process is stopped.
Opened ==
  /\ opening # 0 /\ launched[opening].phase = "starting"
  /\ \/ /\ launched[opening].alive /\ ~launched[opening].closed
        /\ launched' = [launched EXCEPT ![opening].phase = "ready"] /\ current' = opening
     \/ /\ launched' = [launched EXCEPT ![opening].phase = "gone", ![opening].alive = FALSE, ![opening].closed = TRUE]
        /\ UNCHANGED current
  /\ UNCHANGED <<opening, stopped, tools, mcpClosing>>

\* The `finally' of the caller that launched it, one turn of the queue later.
StartForgotten ==
  /\ opening # 0 /\ launched[opening].phase # "starting" /\ opening' = 0
  /\ UNCHANGED <<launched, current, stopped, tools, mcpClosing>>

\* call, once it has its session: cancelled, closed meanwhile or no longer listed,
\* it is refused before anything is sent; else the request goes out.
DispatchTool(u) ==
  /\ tools[u].step = "joined" /\ launched[tools[u].session].phase # "starting"
  /\ \/ Tell(u, "refused")
     \/ /\ u # SettingsPage /\ ~launched[tools[u].session].closed
        /\ tools' = [tools EXCEPT ![u].step = "waiting", ![u].sent = TRUE]
  /\ UNCHANGED <<launched, current, opening, stopped, mcpClosing>>

\* The server acts on a request it got at any time while its process lives.
ServerActs(u) ==
  /\ tools[u].sent /\ ~tools[u].ran /\ launched[tools[u].session].alive
  /\ tools' = [tools EXCEPT ![u].ran = TRUE]
  /\ UNCHANGED <<launched, current, opening, stopped, mcpClosing>>

\* Its answer, a result or an error of its own, reaches the waiter.
Answered(u) ==
  /\ tools[u].step = "waiting" /\ ~launched[tools[u].session].closed /\ launched[tools[u].session].alive
  /\ Tell(u, "answered")
  /\ UNCHANGED <<launched, current, opening, stopped, mcpClosing>>

\* The time-out, the task's abort and a closed client leave the outcome unknown.
\* stopSession stops the session if it is the one in the map; it awaits the stop of
\* that session, or, for one that was replaced in the map, whatever stop there is.
Interrupted(u) ==
  LET s == tools[u].session IN
  /\ tools[u].step = "waiting"
  /\ tools' = [tools EXCEPT ![u].step = "ending",
                 ![u].awaits = IF current = s \/ launched[s].phase # "ready" THEN s ELSE stopped]
  /\ IF current = s THEN StopRunning ELSE UNCHANGED <<launched, current, stopped>>
  /\ UNCHANGED <<opening, mcpClosing>>

\* Mutant: the call does not wait for the stop it asked for.
CallEndedAtOnce(u) ==
  /\ tools[u].step = "ending" /\ Tell(u, "unknown")
  /\ UNCHANGED <<launched, current, opening, stopped, mcpClosing>>

\* The caller hears `unknown' once that stop has ended.
CallEnded(u) ==
  /\ tools[u].step = "ending" /\ StopAwaited(u)
  /\ Tell(u, "unknown")
  /\ UNCHANGED <<launched, current, opening, stopped, mcpClosing>>

-----------------------------------------------------------------------------
\* McpProcess.stop has waited for the host's exit, killed after the grace period.
Stopped(s) ==
  /\ launched[s].phase = "stopping"
  /\ launched' = [launched EXCEPT ![s].phase = "gone", ![s].alive = FALSE]
  /\ stopped' = IF stopped = s THEN 0 ELSE stopped
  /\ UNCHANGED <<current, opening, tools, mcpClosing>>

\* The process exits by itself, or sends what is not JSON-RPC.
Dies(s) ==
  /\ launched[s].phase \in {"starting", "ready"} /\ ~launched[s].closed
  /\ \E exits \in BOOLEAN : launched' = [launched EXCEPT ![s].closed = TRUE, ![s].alive = ~exits]
  /\ UNCHANGED <<current, opening, stopped, tools, mcpClosing>>

\* stopServer from the settings, or the idle timer of a session no call is in; the
\* timer of a session that was replaced stops the one in its place.
StopCurrent(idle) ==
  /\ current # 0 /\ (idle => \E s \in Sessions : launched[s].phase = "ready" /\ ~InUse(s))
  /\ StopRunning
  /\ UNCHANGED <<opening, tools, mcpClosing>>

ShutdownMcp ==
  /\ ~mcpClosing /\ mcpClosing' = TRUE
  /\ IF current # 0 THEN StopRunning ELSE UNCHANGED <<launched, current, stopped>>
  /\ UNCHANGED <<opening, tools>>

McpNext ==
  \/ Opened \/ StartForgotten \/ ShutdownMcp
  \/ \E u \in Users :
       \/ CallTool(u) \/ OpenSession(u) \/ Replace(u) \/ DispatchTool(u)
       \/ ServerActs(u) \/ Answered(u) \/ Interrupted(u) \/ CallEnded(u)
  \/ \E s \in Sessions : Stopped(s) \/ Dies(s)
  \/ \E idle \in BOOLEAN : StopCurrent(idle)

-----------------------------------------------------------------------------
\* A session that another one replaced in the map before anyone stopped it: nobody
\* stops it any more.
Orphaned(s) == launched[s].phase = "ready" /\ current # s

\* What a call is told about its tool is true from then on: refused, it never ran;
\* unknown, the process that could still run it has ended, however openings, stops,
\* deaths and time-outs interleave, unless its session is an orphan by then
\* (mcp.ts:268-292, 362-400, 469-491).
ToldTheTruth ==
  \A u \in Users : tools[u].step = "idle" =>
    /\ tools[u].told = "refused" => ~tools[u].ran
    /\ tools[u].told = "unknown" => ~launched[tools[u].session].alive \/ Orphaned(tools[u].session)

=============================================================================
