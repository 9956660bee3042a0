---- MODULE MCOrchestrator ----
(* Three revisions and two slots: the third assignment writes what both    *)
(* others write, but needs only the second, so that the first must be over *)
(* before it is delegated; a revision by the user takes the number of one  *)
(* of them.  Funds for two allocations run out once a child used its up.   *)
EXTENDS Orchestrator

MCScope == <<{"x"}, {"y"}, {"x", "y"}>>
MCNeeds == [a \in Ids |-> IF a = 3 THEN {2} ELSE {}]
\* The smallest dependency: the second assignment needs the first.
MCChain == [a \in Ids |-> IF a = 2 THEN {1} ELSE {}]
\* The run checks nothing of base commits.  What became of a child whose run has
\* ended and evidence for a HEAD that is gone are never read again: states that
\* differ in nothing else have the same successors.
MCView == <<state, supersedes, [a \in Proposed |-> waits[a]], run, fenced \intersect Active, started \intersect Active, hold,
            root, turn, awaited, waitRow, integration, head,
            IF evidence \in {head, sched.target} THEN evidence ELSE NotPassed, sched>>
====
