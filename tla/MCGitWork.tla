---- MODULE MCGitWork ----
(* What happens to the worktrees of tasks, each part looked at on its own: *)
(* `focus' names the one a behaviour is about.                             *)
(*   Starts: two requests, for a chat, a coding or a coordinated task.     *)
(*   Workspaces: a coding task and a coordinated one with a child.         *)
(*   Completions: two operations on one result, two jobs at the root lock, *)
(*   validation, and a user who commits and resolves conflicts beside it.  *)
(*   Handoffs: a file that may be edited, replaced by a link and put back, *)
(*   and two attempts to hand it off.                                      *)
EXTENDS TaskStarts, Workspaces, Completions, Handoffs

MCModes == [h \in Settings |-> h]
MCTrees == [t \in GitTasks |-> IF t = "child" THEN "root" ELSE t]

VARIABLE focus

TypesOK == StartsTypeOK /\ WorkspacesTypeOK /\ IntegrationsTypeOK /\ CompletionsTypeOK /\ HandoffsTypeOK

GitWorkInit ==
  /\ focus \in {"starts", "workspaces", "completions", "handoffs"}
  /\ StartsInit /\ WorkspacesInit /\ IntegrationsInit /\ CompletionsInit /\ HandoffsInit

GitWorkNext ==
  /\ UNCHANGED focus
  /\ \/ focus = "starts" /\ StartsNext /\ UNCHANGED <<wsVars, igVars, coVars, hoVars>>
     \/ focus = "workspaces" /\ WorkspacesNext /\ UNCHANGED <<tsVars, igVars, coVars, hoVars>>
     \/ focus = "completions" /\ CompletionsNext /\ UNCHANGED <<tsVars, wsVars, hoVars>>
     \/ focus = "handoffs" /\ HandoffsNext /\ UNCHANGED <<tsVars, wsVars, igVars, coVars>>

\* No property of the run reads a completion, and a head is only compared with the
\* present one, which is never moved back: of what was validated, seen and recorded
\* only that much matters to the steps that follow.
MCView == <<focus, tsVars, wsVars, igVars, hoVars, validated = Len(line), seen = Len(line), completion.head # None>>

GitWorkSpec == GitWorkInit /\ [][GitWorkNext]_<<focus, tsVars, wsVars, igVars, coVars, hoVars>>
====
