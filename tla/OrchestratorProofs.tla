---- MODULE OrchestratorProofs ----
(***************************************************************************)
(* Proofs about a coordinated task, for any number of revisions, any plan  *)
(* of the coordinator and any limits.                                      *)
(***************************************************************************)
EXTENDS Orchestrator, FiniteFacts

(***************************************************************************)
(* The inductive invariant.  Revisions are numbered without gaps, so that  *)
(* a new one never replaces a record; the records of a child agree with    *)
(* its assignment; the operation and the child that a step in progress     *)
(* holds on to are what they were when it began, or have ended.            *)
(***************************************************************************)
Numbered == \E n \in 0..MaxRevisions : Created = 1..n

\* The records of an assignment and of its child agree.
Consistent(a) ==
  /\ state[a] \in {"absent", "proposed"} => run[a] = "none"
  /\ run[a] = "none" =>
       state[a] \notin {"admitted", "result-submitted", "integrated"}
  /\ run[a] \in Live => hold[a] = "held"
  /\ run[a] \in Live /\ a \notin started => state[a] = "admitted"
  /\ a \in started => run[a] \in {"running", "user-continuation", "terminal"}
  /\ run[a] = "running" => a \in started

\* What a step in progress holds on to is still what it was, or has ended.
InHand ==
  /\ integration.state # "none" =>
       /\ integration.of \in Ids
       /\ state[integration.of] = "result-submitted"
       /\ run[integration.of] = "terminal"
  /\ sched.at = "provisioning" =>
       sched.child \in Ids /\ run[sched.child] \in {"preparing", "terminal"}
  /\ sched.at = "starting" =>
       sched.child \in Ids /\ run[sched.child] \in {"queued", "terminal"}

\* A parked coordinator has something to wait for.
WaitKept ==
  /\ turn = "parked" => ~AllSettled
  /\ turn = "woken" => AllSettled

\* All of it.
IInv == TypeOK /\ Numbered /\ (\A a \in Ids : Consistent(a)) /\ InHand /\ WaitKept

----
(* Facts about the operators. *)

\* The scheduler's next assignment is one of those it has left.
LEMMA OldestIsLeft ==
  ASSUME TypeOK, Scanning
  PROVE  Oldest \in sched.todo /\ Oldest \in Ids
<1> DEFINE S == sched.todo
<1>1. S \subseteq Ids /\ S # {} /\ S \subseteq Nat
  BY OrchestratorAssumption DEF TypeOK, Scanning, Ids
<1>2. PICK x \in S : \A y \in S : x <= y
  BY <1>1, LeastNumber
<1>3. Min(S) \in S
  BY <1>2 DEF Min
<1>4. QED
  BY <1>1, <1>3 DEF Oldest

\* What a crash between two transactions of a step leaves behind, if the runs
\* in `ended' were ended before it.
Leaves(ended) ==
  /\ ProcessEnds(ended)
  /\ \A a \in ended : run[a] \in Live
  /\ state' \in [Ids -> {"absent", "integrated"} \union Open \union Failed]
  /\ \A a \in Ids :
       \/ state'[a] = state[a]
       \/ /\ state[a] = "proposed" \/ (state[a] = "admitted" /\ a \in ended)
          /\ state'[a] \in Failed
  /\ hold' \in [Ids -> {"none", "held", "returned", "spent"}]
  /\ \A a \in Ids \ ended : hold'[a] = hold[a]
  /\ fenced' \in SUBSET Ids /\ awaited' \in SUBSET Ids
  /\ root' \in {root, "cancelling"}
  /\ waitRow' \in {"none", waitRow} \ {"delivered"}

\* The assignments and the holds of the children that were ended.
LEMMA EndedStatesLeave ==
  ASSUME TypeOK, NEW ended \in SUBSET Ids, NEW outcome \in Failed
  PROVE  /\ EndedStates(ended, outcome) \in
              [Ids -> {"absent", "integrated"} \union Open \union Failed]
         /\ \A a \in Ids :
              \/ EndedStates(ended, outcome)[a] = state[a]
              \/ /\ state[a] = "admitted" /\ a \in ended
                 /\ EndedStates(ended, outcome)[a] \in Failed
  BY DEF TypeOK, EndedStates

\* Ending children changes their holds only.
LEMMA EndedHoldsLeave ==
  ASSUME TypeOK, NEW ended \in SUBSET Ids, NEW back \in SUBSET ended
  PROVE  /\ EndedHolds(ended, back) \in [Ids -> {"none", "held", "returned", "spent"}]
         /\ \A a \in Ids \ ended : EndedHolds(ended, back)[a] = hold[a]
  BY DEF TypeOK, EndedHolds

\* Each way of stopping halfway leaves just that.
LEMMA HalfStepLeaves ==
  ASSUME TypeOK, HalfStep
  PROVE  \E ended \in SUBSET Ids : Leaves(ended)
<1>0. /\ "failed" \in Failed /\ "cancelled" \in Failed /\ "cancelled" # "absent"
      /\ fenced \in SUBSET Ids /\ awaited \in SUBSET Ids
  BY DEF Failed, TypeOK
<1>1. ASSUME NEW a \in Ids, StopsInFinish(a) PROVE Leaves({a})
  <2>1. /\ ProcessEnds({a}) /\ run[a] \in Live
        /\ \E outcome \in Failed : state' = EndedStates({a}, outcome)
        /\ hold' = EndedHolds({a}, {})
    BY <1>0, <1>1 DEF StopsInFinish
  <2>2. /\ fenced' = fenced /\ root' = root /\ awaited' = awaited
        /\ waitRow' \in {"none", waitRow} \ {"delivered"}
    BY <1>1 DEF StopsInFinish, WaitRecovered
  <2>3. {a} \in SUBSET Ids /\ {} \in SUBSET {a}
    OBVIOUS
  <2>4. PICK outcome \in Failed : state' = EndedStates({a}, outcome)
    BY <2>1
  <2>5. QED
    BY <1>0, <2>1, <2>2, <2>3, <2>4, EndedStatesLeave, EndedHoldsLeave DEF Leaves
<1>2. ASSUME NEW a \in Ids, StopsInCancelChild(a)
      PROVE  \E ended \in SUBSET Ids : Leaves(ended)
  <2>1. PICK ended \in SUBSET {a} :
          /\ ProcessEnds(ended) /\ state' = EndedStates(ended, "cancelled")
          /\ hold' = EndedHolds(ended, {})
    BY <1>2 DEF StopsInCancelChild
  <2>2. /\ fenced' \in SUBSET Ids /\ awaited' = awaited /\ root' = root
        /\ waitRow' \in {"none", waitRow} \ {"delivered"}
    BY <1>0, <1>2 DEF StopsInCancelChild, WaitRecovered
  <2>3. ended \in SUBSET Ids /\ {} \in SUBSET ended /\ \A b \in ended : run[b] \in Live
    BY <1>2, <2>1 DEF StopsInCancelChild
  <2>4. Leaves(ended)
    BY <1>0, <2>1, <2>2, <2>3, EndedStatesLeave, EndedHoldsLeave, SMTT(30) DEF Leaves
  <2>5. QED
    BY <2>3, <2>4
<1>3. ASSUME StopsInCancelRoot
      PROVE  \E ended \in SUBSET Ids : Leaves(ended)
  <2>1. PICK ended \in SUBSET {a \in Active : run[a] # "running"} :
          /\ ProcessEnds(ended)
          /\ state' = [a \in Ids |-> IF a \in Proposed THEN "cancelled"
                                     ELSE EndedStates(ended, "cancelled")[a]]
          /\ \E back \in SUBSET ended : hold' = EndedHolds(ended, back)
    BY <1>3 DEF StopsInCancelRoot
  <2>2. ended \in SUBSET Ids /\ \A a \in ended : run[a] \in Live
    BY <2>1 DEF Active
  <2>3. PICK back \in SUBSET ended : hold' = EndedHolds(ended, back)
    BY <2>1
  <2>4. /\ state' \in [Ids -> {"absent", "integrated"} \union Open \union Failed]
        /\ \A a \in Ids :
             \/ state'[a] = state[a]
             \/ /\ state[a] = "proposed" \/ (state[a] = "admitted" /\ a \in ended)
                /\ state'[a] \in Failed
    BY <1>0, <2>1, <2>2, EndedStatesLeave DEF Proposed
  <2>5. /\ hold' \in [Ids -> {"none", "held", "returned", "spent"}]
        /\ \A a \in Ids \ ended : hold'[a] = hold[a]
    BY <2>2, <2>3, EndedHoldsLeave
  <2>6. /\ fenced' \in SUBSET Ids /\ awaited' \in SUBSET Ids
        /\ root' \in {root, "cancelling"} /\ waitRow' \in {"none", waitRow} \ {"delivered"}
    BY <1>0, <1>3 DEF StopsInCancelRoot, Active
  <2>7. Leaves(ended)
    BY <2>1, <2>2, <2>4, <2>5, <2>6 DEF Leaves
  <2>8. QED
    BY <2>2, <2>7
<1>4. QED
  BY <1>1, <1>2, <1>3 DEF HalfStep

\* A child that ends leaves every record in its range.
LEMMA FinishChildType ==
  ASSUME TypeOK, NEW a, NEW outcome \in Failed, FinishChild(a, outcome)
  PROVE  /\ run' \in [Ids -> {"none", "terminal"} \union Live]
         /\ state' \in [Ids -> {"absent", "integrated"} \union Open \union Failed]
         /\ hold' \in [Ids -> {"none", "held", "returned", "spent"}]
         /\ awaited' \in SUBSET Ids
         /\ turn' \in {"idle", "running", "delegating", "integrating", "parked",
                       "woken"}
  BY ZenonT(40) DEF TypeOK, FinishChild, Notify, Failed

\* What the scheduler keeps between its steps.
Schedulers ==
  [at : {"idle", "reading", "read", "scanning", "provisioning", "starting"},
   queued : BOOLEAN, todo : SUBSET Ids, target : SUBSET Ids,
   clean : BOOLEAN, child : 0..MaxRevisions]

\* Queueing the scheduler keeps its fields in their ranges.
LEMMA ScheduleType ==
  ASSUME NEW s \in Schedulers, Schedule(s) PROVE sched' \in Schedulers
  BY DEF Schedulers, Schedule

\* An idle scheduler is one.
LEMMA IdleSchedulerType == IdleScheduler \in Schedulers
  BY OrchestratorAssumption DEF Schedulers, IdleScheduler

\* So is one that is to look again.
LEMMA AgainType == Again => sched' \in Schedulers
  BY ScheduleType, IdleSchedulerType DEF Again
----
\* No step of the next-state relation disturbs the types.
LEMMA TypeStep == TypeOK /\ InHand /\ [Next]_vars => TypeOK'
<1> SUFFICES ASSUME TypeOK, InHand, [Next]_vars PROVE TypeOK'
  OBVIOUS
<1> USE OrchestratorAssumption
    DEF TypeOK, records, repository, Open, Failed, Live, Waiting, NotPassed, Untold
<1>1. ASSUME NEW n \in 1..(MaxRevisions - Cardinality(Created)),
             Delegate((Cardinality(Created) + 1)..(Cardinality(Created) + n))
      PROVE TypeOK'
  BY <1>1 DEF Delegate, MayCall, Schedule, Created
<1>2. ASSUME Delegated PROVE TypeOK'
  BY <1>2 DEF Delegated
<1>3. ASSUME NEW ids \in (SUBSET Created) \ {{}}, Await(ids) PROVE TypeOK'
  BY <1>3 DEF Await, Schedule, MayCall, Created
<1>4. ASSUME Deliver PROVE TypeOK'
  BY <1>4 DEF Deliver
<1>5. ASSUME NEW a \in Ids, Integrate(a) PROVE TypeOK'
  BY <1>5, SMTT(30) DEF Ids, Integrate, MayCall, NoIntegration
<1>6. ASSUME NotIntegrated PROVE TypeOK'
  BY <1>6 DEF NotIntegrated, NoIntegration
<1>7. ASSUME Execute PROVE TypeOK'
  BY <1>7 DEF Execute
<1>8. ASSUME Pick PROVE TypeOK'
  <2>1. /\ integration.of \in Ids /\ head' = head \union {integration.of}
        /\ integration' = [integration EXCEPT !.picked = TRUE]
    BY <1>8 DEF Pick, InHand
  <2>2. head' \in SUBSET Ids
    BY <2>1
  <2>3. integration' \in [state : {"none", "awaiting-approval", "executing", "unknown"},
                          of : 0..MaxRevisions, picked : BOOLEAN]
    BY <2>1
  <2>4. UNCHANGED <<records, root, turn, awaited, waitRow, evidence, sched>>
    BY <1>8 DEF Pick
  <2>5. QED
    BY <2>2, <2>3, <2>4
<1>9. ASSUME Applied, turn' \in {turn, "running"} PROVE TypeOK'
  <2>1. state' \in [Ids -> {"absent", "integrated"} \union Open \union Failed]
    BY <1>9 DEF Applied
  <2>2. sched' \in Schedulers
    BY <1>9, ScheduleType DEF Applied, Schedulers
  <2>3. integration' = NoIntegration
    BY <1>9 DEF Applied
  <2>4. QED
    BY <1>9, <2>1, <2>2, <2>3 DEF Applied, Schedulers, NoIntegration
<1>10. ASSUME NEW passed \in BOOLEAN, Validate(passed) PROVE TypeOK'
  BY <1>10 DEF Validate, Schedule, MayCall
<1>11. ASSUME EndTurn PROVE TypeOK'
  BY <1>11, ZenonT(40) DEF EndTurn, Schedule
<1>12. ASSUME NEW a \in Ids, SubmitResult(a) PROVE TypeOK'
  BY <1>12 DEF SubmitResult, unchangedByChildren
<1>13. ASSUME NEW a \in Ids, EndChildTurn(a) PROVE TypeOK'
  BY <1>13, FinishChildType DEF EndChildTurn, unchangedByChildren, Schedule
<1>14. ASSUME Drain PROVE TypeOK'
  BY <1>14, ZenonT(40) DEF Drain, unchangedByScheduler, Proposed
<1>15. ASSUME ReadHead PROVE TypeOK'
  BY <1>15, ZenonT(40) DEF ReadHead
<1>16. ASSUME StateRead PROVE TypeOK'
  <2>1. PICK clean \in {TRUE} \union {o # "worktree" : o \in Obstacles} :
          sched' = [sched EXCEPT !.at = "scanning", !.clean = clean]
    BY <1>16, Zenon DEF StateRead
  <2>2. clean \in BOOLEAN
    BY <2>1
  <2>3. sched' \in Schedulers
    BY <2>1, <2>2 DEF Schedulers
  <2>4. QED
    BY <1>16, <2>3 DEF StateRead, Schedulers
<1>17. ASSUME RevokeDependent PROVE TypeOK'
  BY <1>17 DEF RevokeDependent, unchangedByScheduler, Notify, Scanning
<1>18. ASSUME KeepWaiting PROVE TypeOK'
  BY <1>18, OldestIsLeft DEF KeepWaiting, unchangedByScheduler, Skip
<1>19. ASSUME LackFunds PROVE TypeOK'
  BY <1>19, OldestIsLeft DEF LackFunds, unchangedByScheduler, Skip
<1>20. ASSUME Admit PROVE TypeOK'
  <2>1. Oldest \in Ids
    BY <1>20, OldestIsLeft DEF Admit
  <2>2. sched' \in Schedulers
    <3>1. Oldest \in 0..MaxRevisions
      BY <2>1 DEF Ids
    <3>2. sched' = [sched EXCEPT !.at = "provisioning", !.todo = {}, !.child = Oldest]
      BY <1>20, Zenon DEF Admit
    <3>3. QED
      BY <3>1, <3>2 DEF Schedulers
  <2>3. base' \in [Ids -> SUBSET Ids] /\ waits' \in [Ids -> {"other", "task-budget"} \union Untold]
    BY <1>20, <2>1 DEF Admit
  <2>4. /\ state' \in [Ids -> {"absent", "integrated"} \union Open \union Failed]
        /\ run' \in [Ids -> {"none", "terminal"} \union Live]
        /\ hold' \in [Ids -> {"none", "held", "returned", "spent"}]
    BY <1>20, <2>1 DEF Admit
  <2>5. QED
    BY <1>20, <2>2, <2>3, <2>4 DEF Admit, Schedulers, unchangedByScheduler
<1>21. ASSUME Abandon PROVE TypeOK'
  <2>1. sched' \in Schedulers
    BY <1>21, IdleSchedulerType DEF Abandon, Schedulers
  <2>2. QED
    BY <1>21, <2>1 DEF Abandon, Schedulers
<1>22. ASSUME Scanned PROVE TypeOK'
  <2>1. sched' \in Schedulers
    BY <1>22, IdleSchedulerType DEF Scanned, Schedulers
  <2>2. QED
    BY <1>22, <2>1 DEF Scanned, Schedulers
<1>23. ASSUME Provisioned PROVE TypeOK'
  BY <1>23, ZenonT(40) DEF Provisioned, To, unchangedByScheduler
<1>24. ASSUME StartProvisioned PROVE TypeOK'
  BY <1>24, AgainType
  DEF Schedulers, StartProvisioned, Start, unchangedByScheduler, InHand, Child
<1>25. ASSUME StartRefused PROVE TypeOK'
  BY <1>25, FinishChildType, AgainType
  DEF Schedulers, StartRefused, unchangedByChildren
<1>26. ASSUME NotProvisioned PROVE TypeOK'
  BY <1>26, FinishChildType, AgainType
  DEF Schedulers, NotProvisioned, unchangedByChildren
<1>27. ASSUME ProvisionUnknown PROVE TypeOK'
  BY <1>27, AgainType DEF Schedulers, ProvisionUnknown, unchangedByScheduler, Notify
<1>28. ASSUME NEW a \in Ids, CancelChild(a) PROVE TypeOK'
  BY <1>28, FinishChildType, ScheduleType DEF CancelChild, Schedulers
<1>29. ASSUME CancelRoot PROVE TypeOK'
  <2>1. sched' \in Schedulers
    BY <1>29 DEF CancelRoot, Schedulers
  <2>2. QED
    <3>1. /\ fenced' \in SUBSET Ids
          /\ run' \in [Ids -> {"none", "terminal"} \union Live]
          /\ state' \in [Ids -> {"absent", "integrated"} \union Open \union Failed]
      BY <1>29, ZenonT(40) DEF CancelRoot, Active
    <3>2. hold' \in [Ids -> {"none", "held", "returned", "spent"}]
      BY <1>29, ZenonT(40) DEF CancelRoot
    <3>3. /\ waitRow' = "none" /\ awaited' = {} /\ turn' \in {turn, "running"}
          /\ root' \in {"ended", "cancelling"}
          /\ UNCHANGED <<supersedes, waits, base, started, repository>>
      BY <1>29, Zenon DEF CancelRoot
    <3>4. QED
      BY <2>1, <3>1, <3>2, <3>3 DEF Schedulers
<1>30. ASSUME NEW a \in Ids, Revise(a) PROVE TypeOK'
  <2> DEFINE new == Cardinality(Created) + 1
             old == [state EXCEPT ![a] = IF @ = "proposed" THEN "superseded" ELSE @]
  <2>1. state' = [old EXCEPT ![new] = "proposed"]
    BY <1>30 DEF Revise
  <2>2. state' \in [Ids -> {"absent", "integrated"} \union Open \union Failed]
    BY <2>1
  <2>3. supersedes' \in [Ids -> 0..MaxRevisions]
    <3>1. a \in 0..MaxRevisions
      BY DEF Ids
    <3>2. supersedes' = [supersedes EXCEPT ![new] = a]
      BY <1>30, Zenon DEF Revise
    <3>3. QED
      BY <3>1, <3>2
  <2>4. sched' \in Schedulers
    BY <1>30, ScheduleType DEF Revise, Schedulers
  <2>5. UNCHANGED <<waits, run, fenced, base, started, hold, root, waitRow,
                    awaited, repository>> /\ turn' \in {turn, "woken"}
    BY <1>30 DEF Revise, Notify
  <2>6. QED
    BY <2>2, <2>3, <2>4, <2>5 DEF Schedulers
<1>31. ASSUME NEW a \in Ids, ReconciledPresent(a) PROVE TypeOK'
  BY <1>31 DEF ReconciledPresent, Start
<1>32. ASSUME NEW a \in Ids, ReconciledAbsent(a) PROVE TypeOK'
  BY <1>32, FinishChildType DEF ReconciledAbsent, Schedule, unchangedByChildren
<1>33. ASSUME NEW a \in Ids, ResumeStarts(a) PROVE TypeOK'
  BY <1>33 DEF ResumeStarts, Start
<1>34. ASSUME NEW a \in Ids, ResumeEnds(a) PROVE TypeOK'
  BY <1>34, FinishChildType DEF ResumeEnds, Schedule, unchangedByChildren
<1>35. ASSUME Resume PROVE TypeOK'
  BY <1>35 DEF Resume, Schedule
<1>36. ASSUME Recovered PROVE TypeOK'
  BY <1>36 DEF Recovered, ProcessEnds, RecoveredRuns, WaitRecovered, NoIntegration,
    IdleScheduler, Live, Waiting
<1>46. CASE HalfStep
  <2>1. PICK ended \in SUBSET Ids : Leaves(ended)
    BY <1>46, HalfStepLeaves
  <2>2. run' \in [Ids -> {"none", "terminal"} \union Live]
    BY <2>1 DEF Leaves, ProcessEnds, RecoveredRuns, Live, Waiting
  <2>3. QED
    BY <2>1, <2>2 DEF Leaves, ProcessEnds, NoIntegration, IdleScheduler
<1>37. CASE Executed
  BY <1>9, <1>37 DEF Executed
<1>38. CASE ReconciledIntegration
  BY <1>9, <1>38 DEF ReconciledIntegration
<1>39. CASE SchedulerStep
  BY <1>14, <1>17, <1>18, <1>19, <1>20, <1>21, <1>22, <1>24, <1>25, <1>39
  DEF SchedulerStep
<1>40. CASE GitAnswers
  BY <1>15, <1>16, <1>23, <1>26, <1>27, <1>36, <1>40
  DEF GitAnswers, ProvisionRaises
<1>41. CASE CoordinatorStep
  <2>1. CASE \E n \in 1..(MaxRevisions - Cardinality(Created)) :
               Delegate((Cardinality(Created) + 1)..(Cardinality(Created) + n))
    BY <1>1, <2>1
  <2>2. QED
    BY <1>2, <1>3, <1>4, <1>5, <1>6, <1>7, <1>8, <1>10, <1>11, <1>37, <1>41, <2>1
    DEF CoordinatorStep
<1>42. CASE UserStep
  BY <1>28, <1>29, <1>30, <1>31, <1>32, <1>33, <1>34, <1>35, <1>38, <1>42
  DEF UserStep
<1>43. CASE \E a \in Ids : ChildStep(a)
  BY <1>12, <1>13, <1>43 DEF ChildStep
<1>44. CASE UNCHANGED vars
  BY <1>44 DEF vars
<1>45. QED
  BY <1>36, <1>39, <1>40, <1>41, <1>42, <1>43, <1>44, <1>46 DEF Next, Restart
----
(* The inductive invariant is kept.                                        *)

\* Queueing the scheduler leaves it where it is.
LEMMA ScheduleKeeps ==
  ASSUME NEW s \in Schedulers, Schedule(s)
  PROVE  sched'.at = s.at /\ sched'.child = s.child
  BY DEF Schedulers, Schedule

\* Numbers are given out in order as long as no record appears otherwise.
LEMMA NumberedKept ==
  ASSUME Numbered, \A a \in Ids : state'[a] = "absent" <=> state[a] = "absent"
  PROVE  Numbered'
<1>1. Created' = Created
  BY DEF Created
<1>2. QED
  BY <1>1 DEF Numbered

\* The next number is free.
LEMMA NextIsFree ==
  ASSUME Numbered
  PROVE  /\ Cardinality(Created) \in 0..MaxRevisions
         /\ Created = 1..Cardinality(Created)
<1>1. PICK n \in 0..MaxRevisions : Created = 1..n
  BY DEF Numbered
<1>2. n \in Int /\ 1 \in Int
  BY OrchestratorAssumption, <1>1
<1>3. Cardinality(1..n) = IF 1 > n THEN 0 ELSE n - 1 + 1
  BY <1>2, FS_Interval
<1>4. Cardinality(Created) = n
  BY <1>1, <1>2, <1>3, OrchestratorAssumption
<1>5. QED
  BY <1>1, <1>4

\* New revisions take the numbers after the last.
LEMMA NumberedGrows ==
  ASSUME Numbered, NEW n \in 1..(MaxRevisions - Cardinality(Created)),
         \A a \in Ids : state'[a] # "absent" <=>
           a \in Created \union (Cardinality(Created) + 1)..(Cardinality(Created) + n)
  PROVE  Numbered'
<1> DEFINE m == Cardinality(Created)
<1>1. m \in 0..MaxRevisions /\ Created = 1..m
  BY NextIsFree
<1>2. Created' = 1..(m + n)
  <2>1. m \in Nat /\ n \in Nat /\ m + n <= MaxRevisions
    BY <1>1, OrchestratorAssumption
  <2>2. Created \union (m + 1)..(m + n) = 1..(m + n)
    <3> HIDE DEF m
    <3>1. Created = 1..m
      BY <1>1
    <3>2. QED
      BY <2>1, <3>1
  <2>3. 1..(m + n) \subseteq Ids
    <3> HIDE DEF m
    <3>1. QED
      BY <2>1, OrchestratorAssumption DEF Ids
  <2>4. Created' = {a \in Ids : a \in Created \union (m + 1)..(m + n)}
    BY DEF Created
  <2>5. QED
    BY <2>2, <2>3, <2>4
<1>3. m + n \in 0..MaxRevisions
  BY <1>1, OrchestratorAssumption
<1>4. QED
  BY <1>2, <1>3 DEF Numbered

\* A child that ends while its assignment had not settled.
LEMMA FinishChildKeeps ==
  ASSUME IInv, NEW a \in Ids, NEW outcome \in Failed, FinishChild(a, outcome),
         run[a] # "none", ~Settled(a), UNCHANGED <<started, integration>>,
         \/ sched'.at = sched.at /\ sched'.child = sched.child
         \/ sched'.at = "idle"
  PROVE  IInv' \/ ~TypeOK'
<1> SUFFICES ASSUME TypeOK' PROVE IInv'
  OBVIOUS
<1>1. Numbered'
  BY NumberedKept DEF IInv, TypeOK, FinishChild, Failed
<1>2. \A b \in Ids : Consistent(b)'
  BY DEF IInv, TypeOK, FinishChild, Failed, Consistent, Live, Waiting
<1>3. InHand'
  BY DEF IInv, TypeOK, FinishChild, Failed, InHand, Settled
<1>4. WaitKept'
  BY DEF IInv, TypeOK, FinishChild, Failed, WaitKept, Settled, AllSettled, Notify
<1>5. QED
  BY <1>1, <1>2, <1>3, <1>4 DEF IInv

\* A step that changes neither a child nor its assignment.
LEMMA RecordsKeep ==
  ASSUME IInv, TypeOK', UNCHANGED <<state, run, hold, started>>,
         \/ UNCHANGED integration
         \/ integration'.state # "none" =>
              integration.state # "none" /\ integration'.of = integration.of,
         \/ sched'.at = sched.at /\ sched'.child = sched.child
         \/ sched'.at \notin {"provisioning", "starting"},
         UNCHANGED <<turn, awaited>> \/ turn' \notin {"parked", "woken"}
  PROVE  IInv'
<1>1. Numbered'
  BY NumberedKept DEF IInv
<1>2. \A b \in Ids : Consistent(b)'
  BY DEF IInv, Consistent
<1>3. InHand'
  BY DEF IInv, InHand
<1>4. WaitKept'
  BY DEF IInv, WaitKept, Settled, AllSettled
<1>5. QED
  BY <1>1, <1>2, <1>3, <1>4 DEF IInv

\* A live child goes on in another state of its run.
LEMMA RunKeeps ==
  ASSUME IInv, TypeOK', NEW a \in Ids, run[a] \in Live,
         UNCHANGED <<state, hold, integration>>,
         \A b \in Ids \ {a} : run'[b] = run[b] /\ (b \in started' <=> b \in started),
         \/ a \notin started /\ a \notin started'
              /\ run'[a] \in {"queued", "reconciliation"}
         \/ a \in started' /\ run'[a] = "running",
         \/ sched'.at \notin {"provisioning", "starting"}
         \/ sched'.at = "starting" /\ sched'.child = a /\ run'[a] = "queued"
         \/ sched'.at = sched.at /\ sched'.child = sched.child /\ sched.child # a,
         WaitKept'
  PROVE  IInv'
<1>1. Numbered'
  BY NumberedKept DEF IInv
<1>2. \A b \in Ids : Consistent(b)'
  BY DEF IInv, Consistent, Live, Waiting
<1>3. InHand'
  BY DEF IInv, InHand, Live, Waiting
<1>4. QED
  BY <1>1, <1>2, <1>3 DEF IInv

\* As long as what is awaited was and is unsettled, or nothing changed.
LEMMA WaitKeeps ==
  ASSUME WaitKept, UNCHANGED <<turn, awaited>>,
         \A a \in awaited : Settled(a)' <=> Settled(a)
  PROVE  WaitKept'
  BY DEF WaitKept, AllSettled

\* Nor does notifying it: the coordinator is woken when all it awaits has settled.
LEMMA NotifyKeeps ==
  ASSUME WaitKept, Notify, \A a \in awaited : Settled(a) => Settled(a)'
  PROVE  WaitKept'
  BY DEF WaitKept, AllSettled, Notify

\* One step per action of the next-state relation.
LEMMA InvariantStep == IInv /\ [Next]_vars => IInv'
<1> SUFFICES ASSUME IInv, [Next]_vars PROVE IInv'
  OBVIOUS
<1> USE OrchestratorAssumption DEF records, repository
<1>0. TypeOK' /\ TypeOK /\ Numbered /\ (\A a \in Ids : Consistent(a)) /\ InHand
        /\ WaitKept /\ sched \in Schedulers
  BY TypeStep DEF IInv, TypeOK, Schedulers
<1>1. ASSUME NEW n \in 1..(MaxRevisions - Cardinality(Created)),
             Delegate((Cardinality(Created) + 1)..(Cardinality(Created) + n))
      PROVE IInv'
  <2> DEFINE new == (Cardinality(Created) + 1)..(Cardinality(Created) + n)
  <2>1. \A a \in Ids : a \in new => state[a] = "absent"
    <3>1. \A a \in Created : a \notin new
      BY <1>0, NextIsFree
    <3>2. QED
      BY <3>1 DEF Created
  <2>2. /\ state' = [a \in Ids |-> IF a \in new THEN "proposed" ELSE state[a]]
        /\ UNCHANGED <<run, hold, started, integration>>
        /\ turn' = "delegating"
        /\ sched'.at = sched.at /\ sched'.child = sched.child
    BY <1>0, <1>1, ScheduleKeeps DEF Delegate
  <2>3. \A a \in Ids : state'[a] # "absent" <=> a \in Created \union new
    BY <2>2 DEF Created
  <2>4. Numbered'
    BY <1>0, <2>3, NumberedGrows
  <2>5. \A a \in Ids : Consistent(a)'
    <3> HIDE DEF new
    <3>1. QED
      BY <1>0, <2>1, <2>2 DEF Consistent, Live, Waiting
  <2>6. InHand'
    <3> HIDE DEF new
    <3>1. QED
      BY <1>0, <2>1, <2>2 DEF InHand
  <2>7. WaitKept'
    BY <2>2 DEF WaitKept
  <2>8. QED
    BY <1>0, <2>4, <2>5, <2>6, <2>7 DEF IInv
<1>2. ASSUME Delegated PROVE IInv'
  BY <1>0, <1>2, RecordsKeep DEF Delegated
<1>3. ASSUME NEW ids \in (SUBSET Created) \ {{}}, Await(ids) PROVE IInv'
  <2>1. /\ UNCHANGED <<state, run, hold, started, integration>>
        /\ sched'.at = sched.at /\ sched'.child = sched.child
    BY <1>0, <1>3, ScheduleKeeps DEF Await
  <2>2. WaitKept'
    BY <1>3 DEF Await, WaitKept, AllSettled, Settled
  <2>3. Numbered' /\ (\A a \in Ids : Consistent(a)') /\ InHand'
    BY <1>0, <2>1, NumberedKept DEF Consistent, InHand
  <2>4. QED
    BY <1>0, <2>2, <2>3 DEF IInv
<1>4. ASSUME Deliver PROVE IInv'
  BY <1>0, <1>4, RecordsKeep DEF Deliver
<1>5. ASSUME NEW a \in Ids, Integrate(a) PROVE IInv'
  <2>1. /\ UNCHANGED <<state, run, hold, started, sched>>
        /\ turn' = "integrating" /\ integration'.of = a
        /\ state[a] = "result-submitted" /\ run[a] \in {"none", "terminal"}
    BY <1>5 DEF Integrate, Settled
  <2>2. run[a] = "terminal"
    BY <1>0, <2>1 DEF Consistent
  <2>3. Numbered' /\ (\A b \in Ids : Consistent(b)') /\ InHand' /\ WaitKept'
    BY <1>0, <2>1, <2>2, NumberedKept DEF Consistent, InHand, WaitKept
  <2>4. QED
    BY <1>0, <2>3 DEF IInv
<1>6. ASSUME NotIntegrated PROVE IInv'
  BY <1>0, <1>6, RecordsKeep DEF NotIntegrated, NoIntegration
<1>7. ASSUME Execute \/ Pick PROVE IInv'
  <2>1. integration'.of = integration.of /\ integration.state # "none"
    BY <1>0, <1>7 DEF Execute, Pick, TypeOK
  <2>2. QED
    BY <1>0, <1>7, <2>1, RecordsKeep DEF Execute, Pick
<1>8. ASSUME Applied, integration.state # "none", turn' \in {turn, "running"}
      PROVE IInv'
  <2>1. /\ UNCHANGED <<run, hold, started, awaited>> /\ integration'.state = "none"
        /\ sched'.at = sched.at /\ sched'.child = sched.child
    BY <1>0, <1>8, ScheduleKeeps DEF Applied, NoIntegration
  <2>2. \/ UNCHANGED state
        \/ /\ state' = [state EXCEPT ![integration.of] = "integrated"]
           /\ integration.picked
    BY <1>8 DEF Applied
  <2>3. CASE UNCHANGED state
    BY <1>0, <1>8, <2>1, <2>3, RecordsKeep
  <2>4. CASE state' # state
    <3>1. /\ state[integration.of] = "result-submitted"
          /\ run[integration.of] = "terminal" /\ integration.of \in Ids
      BY <1>0, <1>8 DEF InHand
    <3>2. Numbered'
      BY <1>0, <2>2, <2>4, <3>1, NumberedKept DEF TypeOK
    <3>3. (\A a \in Ids : Consistent(a)') /\ InHand'
      BY <1>0, <2>1, <2>2, <2>4, <3>1 DEF Consistent, InHand, TypeOK
    <3>4. \A a \in Ids : Settled(a)' <=> Settled(a)
      BY <1>0, <2>1, <2>2, <2>4, <3>1 DEF Settled, TypeOK
    <3>5. WaitKept'
      BY <1>0, <1>8, <2>1, <3>4 DEF WaitKept, AllSettled, TypeOK
    <3>6. QED
      BY <1>0, <3>2, <3>3, <3>5 DEF IInv
  <2>5. QED
    BY <2>3, <2>4
<1>10. ASSUME NEW passed \in BOOLEAN, Validate(passed) PROVE IInv'
  BY <1>0, <1>10, RecordsKeep, ScheduleKeeps DEF Validate
<1>11. ASSUME EndTurn PROVE IInv'
  <2>1. sched'.at = sched.at /\ sched'.child = sched.child
    BY <1>0, <1>11, ScheduleKeeps DEF EndTurn
  <2>2. QED
    BY <1>0, <1>11, <2>1, RecordsKeep DEF EndTurn
<1>12. ASSUME NEW a \in Ids, SubmitResult(a) PROVE IInv'
  <2>1. /\ run[a] = "running" /\ state[a] = "admitted"
        /\ state' = [state EXCEPT ![a] = "result-submitted"]
        /\ UNCHANGED <<run, hold, turn, sched, started, awaited, integration>>
    BY <1>12 DEF SubmitResult, unchangedByChildren
  <2>2. Numbered'
    BY <1>0, <2>1, NumberedKept DEF TypeOK
  <2>3. (\A b \in Ids : Consistent(b)') /\ InHand'
    BY <1>0, <2>1 DEF Consistent, InHand, TypeOK
  <2>4. \A b \in Ids : Settled(b)' <=> Settled(b)
    BY <1>0, <2>1 DEF Settled, TypeOK
  <2>5. QED
    BY <1>0, <2>1, <2>2, <2>3, <2>4, WaitKeeps DEF IInv, TypeOK
<1>13. ASSUME NEW a \in Ids, EndChildTurn(a) PROVE IInv'
  <2>1. /\ FinishChild(a, IF a \in fenced THEN "cancelled" ELSE "failed")
        /\ run[a] = "running" /\ UNCHANGED <<started, integration>>
        /\ sched'.at = sched.at /\ sched'.child = sched.child
    BY <1>0, <1>13, ScheduleKeeps DEF EndChildTurn, unchangedByChildren
  <2>2. run[a] # "none" /\ ~Settled(a)
    BY <2>1 DEF Settled
  <2>3. (IF a \in fenced THEN "cancelled" ELSE "failed") \in Failed
    BY DEF Failed
  <2>4. QED
    BY <1>0, <2>1, <2>2, <2>3, FinishChildKeeps
<1>14. ASSUME Drain PROVE IInv'
  BY <1>0, <1>14, RecordsKeep DEF Drain, unchangedByScheduler, Schedulers
<1>15. ASSUME ReadHead \/ StateRead PROVE IInv'
  BY <1>0, <1>15, RecordsKeep DEF ReadHead, StateRead, To, Schedulers
<1>17. ASSUME RevokeDependent PROVE IInv'
  <2>1. Oldest \in Ids
    BY <1>0, <1>17, OldestIsLeft DEF RevokeDependent
  <2>2. /\ state[Oldest] \in {"proposed", "revoked"}
        /\ state' = [state EXCEPT ![Oldest] = "revoked"]
        /\ UNCHANGED <<run, hold, started, awaited, integration>> /\ Notify
    BY <1>17 DEF RevokeDependent, unchangedByScheduler
  <2>3. sched'.at = "scanning"
    BY <1>0, <1>17 DEF RevokeDependent, Scanning, Schedulers
  <2>4. Numbered'
    BY <1>0, <2>1, <2>2, NumberedKept DEF TypeOK
  <2>5. (\A b \in Ids : Consistent(b)') /\ InHand'
    <3> DEFINE o == Oldest
    <3> HIDE DEF o
    <3>1. /\ o \in Ids /\ state[o] \in {"proposed", "revoked"}
          /\ state' = [state EXCEPT ![o] = "revoked"]
      BY <2>1, <2>2 DEF o
    <3>2. QED
      BY <1>0, <2>2, <2>3, <3>1 DEF Consistent, InHand, TypeOK, Live, Waiting
  <2>6. \A b \in Ids : Settled(b) => Settled(b)'
    BY <1>0, <2>1, <2>2 DEF Settled, TypeOK, Failed
  <2>7. QED
    BY <1>0, <2>2, <2>4, <2>5, <2>6, NotifyKeeps DEF IInv, TypeOK
<1>18. ASSUME KeepWaiting \/ LackFunds PROVE IInv'
  <2>1. sched.at = "scanning" /\ sched'.at = sched.at /\ sched'.child = sched.child
    BY <1>0, <1>18 DEF KeepWaiting, LackFunds, Scanning, Skip, Schedulers
  <2>2. QED
    BY <1>0, <1>18, <2>1, RecordsKeep
    DEF KeepWaiting, LackFunds, Skip, unchangedByScheduler
<1>20. ASSUME Admit PROVE IInv'
  <2> DEFINE o == Oldest
  <2>1. o \in Ids
    BY <1>0, <1>20, OldestIsLeft DEF Admit
  <2>2. /\ state[o] = "proposed"
        /\ state' = [state EXCEPT ![o] = "admitted"]
        /\ run' = [run EXCEPT ![o] = "preparing"]
        /\ hold' = [hold EXCEPT ![o] = "held"]
        /\ UNCHANGED <<started, turn, awaited, integration>>
    BY <1>20 DEF Admit, unchangedByScheduler
  <2>3. sched'.at = "provisioning" /\ sched'.child = o
    BY <1>0, <1>20 DEF Admit, Schedulers
  <2> HIDE DEF o
  <2>4. Numbered'
    BY <1>0, <2>1, <2>2, NumberedKept DEF TypeOK
  <2>5. \A b \in Ids : Consistent(b)'
    BY <1>0, <2>1, <2>2 DEF Consistent, TypeOK, Live, Waiting
  <2>6. InHand'
    BY <1>0, <2>1, <2>2, <2>3 DEF InHand, TypeOK
  <2>7. \A b \in Ids : Settled(b)' <=> Settled(b)
    BY <1>0, <2>1, <2>2 DEF Settled, TypeOK, Failed
  <2>8. QED
    BY <1>0, <2>2, <2>4, <2>5, <2>6, <2>7, WaitKeeps DEF IInv, TypeOK
<1>21. ASSUME Abandon \/ Scanned PROVE IInv'
  <2>1. sched'.at = "idle"
    BY <1>21 DEF Abandon, Scanned, IdleScheduler
  <2>2. QED
    BY <1>0, <1>21, <2>1, RecordsKeep DEF Abandon, Scanned
<1>23. ASSUME Provisioned PROVE IInv'
  <2> DEFINE c == sched.child
  <2>1. /\ c \in Ids /\ run[c] \in {"preparing", "terminal"}
        /\ run' = [run EXCEPT ![c] = IF @ = "terminal" THEN @ ELSE "queued"]
        /\ UNCHANGED <<state, hold, started, turn, awaited, integration>>
        /\ sched'.at = "starting" /\ sched'.child = c
    BY <1>0, <1>23 DEF Provisioned, InHand, Child, To, unchangedByScheduler, Schedulers
  <2> HIDE DEF c
  <2>2. Numbered' /\ (\A b \in Ids : Consistent(b)')
    BY <1>0, <2>1, NumberedKept DEF Consistent, TypeOK, Live, Waiting
  <2>3. InHand'
    BY <1>0, <2>1 DEF InHand, TypeOK
  <2>4. \A b \in Ids : Settled(b)' <=> Settled(b)
    BY <1>0, <2>1 DEF Settled, TypeOK
  <2>5. QED
    BY <1>0, <2>1, <2>2, <2>3, <2>4, WaitKeeps DEF IInv, TypeOK
<1>24. ASSUME StartProvisioned PROVE IInv'
  <2> DEFINE c == sched.child
  <2>1. c \in Ids /\ run[c] \in {"queued", "terminal"}
    BY <1>0, <1>24 DEF StartProvisioned, InHand
  <2>2. /\ UNCHANGED <<state, hold, turn, awaited, integration>>
        /\ sched'.at = "idle"
    BY <1>0, <1>24, ScheduleKeeps, IdleSchedulerType
    DEF StartProvisioned, unchangedByScheduler, Again, IdleScheduler
  <2>3. CASE run[c] = "terminal"
    <3>1. UNCHANGED <<run, started>>
      BY <1>24, <2>3 DEF StartProvisioned, Child
    <3>2. QED
      BY <1>0, <2>2, <3>1, RecordsKeep
  <2>4. CASE run[c] = "queued"
    <3>1. /\ run' = [run EXCEPT ![c] = "running"] /\ started' = started \union {c}
      BY <1>24, <2>4 DEF StartProvisioned, Child, Start
    <3>2. \A b \in Ids : Settled(b)' <=> Settled(b)
      BY <1>0, <2>1, <2>2, <2>4, <3>1 DEF Settled, TypeOK
    <3>3. WaitKept'
      BY <1>0, <2>2, <3>2, WaitKeeps DEF TypeOK
    <3> HIDE DEF c
    <3>4. run[c] \in Live /\ run'[c] = "running" /\ c \in started'
      BY <1>0, <2>1, <2>4, <3>1 DEF TypeOK, Live
    <3>5. \A b \in Ids \ {c} : run'[b] = run[b] /\ (b \in started' <=> b \in started)
      BY <1>0, <2>1, <3>1 DEF TypeOK
    <3>6. QED
      BY <1>0, <2>1, <2>2, <3>3, <3>4, <3>5, RunKeeps
  <2>5. QED
    BY <2>1, <2>3, <2>4
<1>25. ASSUME StartRefused \/ NotProvisioned PROVE IInv'
  <2> DEFINE c == sched.child
  <2>1. /\ FinishChild(c, "failed") /\ UNCHANGED <<started, integration>>
        /\ sched'.at = "idle" /\ "failed" \in Failed
    BY <1>25, ScheduleKeeps, IdleSchedulerType
    DEF StartRefused, NotProvisioned, Child, unchangedByChildren, Again,
        IdleScheduler, Failed
  <2>2. c \in Ids /\ run[c] # "none" /\ ~Settled(c)
    BY <1>0, <1>25 DEF StartRefused, NotProvisioned, Child, InHand, Settled, Failed
  <2> HIDE DEF c
  <2>3. QED
    BY <1>0, <2>1, <2>2, FinishChildKeeps
<1>27. ASSUME ProvisionUnknown PROVE IInv'
  <2> DEFINE c == sched.child
  <2>1. /\ c \in Ids /\ run[c] \in {"preparing", "terminal"}
        /\ run' = [run EXCEPT ![c] = IF @ = "terminal" THEN @ ELSE "reconciliation"]
        /\ UNCHANGED <<state, hold, started, awaited, integration>> /\ Notify
        /\ sched'.at = "idle"
    BY <1>0, <1>27, ScheduleKeeps, IdleSchedulerType
    DEF ProvisionUnknown, InHand, Child, unchangedByScheduler, Again, IdleScheduler,
        Notify
  <2> HIDE DEF c
  <2>2. Numbered' /\ (\A b \in Ids : Consistent(b)')
    BY <1>0, <2>1, NumberedKept DEF Consistent, TypeOK, Live, Waiting
  <2>3. InHand'
    BY <1>0, <2>1 DEF InHand, TypeOK
  <2>4. \A b \in Ids : Settled(b) => Settled(b)'
    BY <1>0, <2>1 DEF Settled, TypeOK
  <2>5. QED
    BY <1>0, <2>1, <2>2, <2>3, <2>4, NotifyKeeps DEF IInv, TypeOK
<1>28. ASSUME NEW a \in Ids, CancelChild(a) PROVE IInv'
  <2>1. CASE run[a] = "running"
    BY <1>0, <1>28, <2>1, RecordsKeep DEF CancelChild
  <2>2. CASE run[a] # "running"
    <3>1. /\ FinishChild(a, "cancelled") /\ UNCHANGED <<started, integration>>
          /\ run[a] \in Live /\ "cancelled" \in Failed
          /\ sched'.at = sched.at /\ sched'.child = sched.child
      BY <1>0, <1>28, <2>2, ScheduleKeeps DEF CancelChild, Failed
    <3>2. run[a] # "none" /\ ~Settled(a)
      BY <3>1 DEF Settled, Live, Waiting
    <3>3. QED
      BY <1>0, <3>1, <3>2, FinishChildKeeps
  <2>3. QED
    BY <2>1, <2>2
<1>29. ASSUME CancelRoot PROVE IInv'
  <2> DEFINE stopped == {a \in Active : run[a] # "running"}
  <2>1. /\ run' = [a \in Ids |-> IF a \in stopped THEN "terminal" ELSE run[a]]
        /\ state' = [a \in Ids |->
             IF a \in Proposed \/ (a \in stopped /\ state[a] = "admitted")
             THEN "cancelled" ELSE state[a]]
        /\ \E used \in SUBSET (stopped \intersect started) :
             hold' = [a \in Ids |-> IF a \in used THEN "spent"
                                   ELSE IF a \in stopped THEN "returned" ELSE hold[a]]
        /\ awaited' = {} /\ turn' # "parked" /\ UNCHANGED <<started, integration>>
    BY <1>29 DEF CancelRoot
  <2>2. sched'.at = sched.at /\ sched'.child = sched.child
    BY <1>0, <1>29 DEF CancelRoot, Schedulers
  <2>3. \A a \in Ids : a \in stopped <=> run[a] \in Live \ {"running"}
    BY DEF Active
  <2>4. \A a \in Ids : hold'[a] = hold[a] \/ a \in stopped
    BY <2>1
  <2> HIDE DEF stopped
  <2>5. Numbered'
    BY <1>0, <2>1, <2>3, NumberedKept DEF Proposed, TypeOK
  <2>6. \A a \in Ids : Consistent(a)'
    BY <1>0, <2>1, <2>3, <2>4 DEF Proposed, Consistent, Live, Waiting
  <2>7. InHand'
    BY <1>0, <2>1, <2>2, <2>3 DEF Proposed, InHand, Live, Waiting
  <2>8. WaitKept'
    BY <2>1 DEF WaitKept, AllSettled
  <2>9. QED
    BY <1>0, <2>5, <2>6, <2>7, <2>8 DEF IInv
<1>30. ASSUME NEW a \in Ids, Revise(a) PROVE IInv'
  <2> DEFINE new == Cardinality(Created) + 1
  <2>1. new \in Ids /\ new \notin Created
    <3>1. Cardinality(Created) \in Nat /\ new <= MaxRevisions
      BY <1>0, <1>30, NextIsFree DEF Revise
    <3>2. new \notin 1..Cardinality(Created)
      BY <3>1
    <3>3. new \in 1..MaxRevisions
      BY <3>1
    <3>4. QED
      BY <1>0, <3>2, <3>3, NextIsFree DEF Ids
  <2>2. state[new] = "absent"
    BY <2>1 DEF Created
  <2>3. /\ state[a] \in {"proposed", "failed", "cancelled", "revoked"}
        /\ state' = [state EXCEPT
             ![a] = IF @ = "proposed" THEN "superseded" ELSE @, ![new] = "proposed"]
        /\ UNCHANGED <<run, hold, started, awaited, integration>> /\ Notify
    BY <1>30 DEF Revise, Notify
  <2>4. sched'.at = sched.at /\ sched'.child = sched.child
    BY <1>0, <1>30, ScheduleKeeps DEF Revise
  <2>5. Numbered'
    <3>1. \A b \in Ids : state'[b] # "absent" <=> b \in Created \union new..new
      <4>1. \A b \in Ids : b \in new..new <=> b = new
        BY <2>1 DEF Ids
      <4>2. QED
        BY <1>0, <2>1, <2>3, <4>1 DEF Created, TypeOK
    <3>2. 1 \in 1..(MaxRevisions - Cardinality(Created))
      BY <1>0, <1>30, NextIsFree DEF Revise
    <3>3. QED
      BY <1>0, <3>1, <3>2, NumberedGrows
  <2> HIDE DEF new
  <2>6. \A b \in Ids : Consistent(b)'
    BY <1>0, <2>1, <2>2, <2>3 DEF Consistent, TypeOK, Live, Waiting
  <2>7. InHand'
    BY <1>0, <2>1, <2>2, <2>3, <2>4 DEF InHand, TypeOK
  <2>8. \A b \in Ids : Settled(b) => Settled(b)'
    BY <1>0, <2>1, <2>2, <2>3 DEF Settled, TypeOK, Failed
  <2>9. QED
    BY <1>0, <2>3, <2>5, <2>6, <2>7, <2>8, NotifyKeeps DEF IInv, TypeOK
<1>31. ASSUME NEW a \in Ids, ReconciledPresent(a) \/ ResumeStarts(a), ~Synchronous
       PROVE IInv'
  <2>1. /\ run[a] \in Live /\ run[a] \notin {"preparing", "terminal"}
        /\ run' = [run EXCEPT ![a] = "running"] /\ started' = started \union {a}
        /\ UNCHANGED <<state, hold, sched, turn, awaited, integration>>
    BY <1>31 DEF ReconciledPresent, ResumeStarts, NeverStarted, Idle, Start, MayStart,
                Active, Live, Waiting
  <2>2. run'[a] = "running" /\ a \in started'
    BY <1>0, <2>1 DEF TypeOK
  <2>3. \A b \in Ids \ {a} : run'[b] = run[b] /\ (b \in started' <=> b \in started)
    BY <1>0, <2>1 DEF TypeOK
  <2>4. \/ sched'.at \notin {"provisioning", "starting"}
        \/ sched'.at = sched.at /\ sched'.child = sched.child /\ sched.child # a
    BY <1>0, <1>31, <2>1 DEF InHand, Synchronous
  <2>5. \A b \in Ids : Settled(b)' <=> Settled(b)
    BY <1>0, <2>1 DEF Settled, TypeOK, Live, Waiting
  <2>6. WaitKept'
    BY <1>0, <2>1, <2>5, WaitKeeps DEF TypeOK
  <2>7. QED
    BY <1>0, <2>1, <2>2, <2>3, <2>4, <2>6, RunKeeps
<1>32. ASSUME NEW a \in Ids, ReconciledAbsent(a) \/ ResumeEnds(a) PROVE IInv'
  <2>1. /\ FinishChild(a, "failed") /\ UNCHANGED <<started, integration>>
        /\ run[a] \in Live /\ "failed" \in Failed
        /\ sched'.at = sched.at /\ sched'.child = sched.child
    BY <1>0, <1>32, ScheduleKeeps
    DEF ReconciledAbsent, ResumeEnds, Idle, Active, unchangedByChildren, Failed, Live,
        Waiting
  <2>2. run[a] # "none" /\ ~Settled(a)
    BY <2>1 DEF Settled, Live, Waiting
  <2>3. QED
    BY <1>0, <2>1, <2>2, FinishChildKeeps
<1>35. ASSUME Resume PROVE IInv'
  BY <1>0, <1>35, RecordsKeep, ScheduleKeeps DEF Resume
<1>36. ASSUME Recovered PROVE IInv'
  <2>1. /\ UNCHANGED <<state, hold, started>> /\ turn' = "idle" /\ sched'.at = "idle"
        /\ run' = [a \in Ids |->
             IF run[a] = "preparing" THEN "reconciliation"
             ELSE IF run[a] \in {"queued", "running"} THEN "user-continuation"
             ELSE run[a]]
        /\ integration'.state # "none" =>
             integration.state # "none" /\ integration'.of = integration.of
    BY <1>0, <1>36 DEF Recovered, ProcessEnds, RecoveredRuns, WaitRecovered,
      IdleScheduler, NoIntegration, TypeOK
  <2>2. Numbered' /\ (\A a \in Ids : Consistent(a)')
    BY <1>0, <2>1, NumberedKept DEF Consistent, Live, Waiting
  <2>3. InHand' /\ WaitKept'
    BY <1>0, <2>1 DEF InHand, WaitKept
  <2>4. QED
    BY <1>0, <2>2, <2>3 DEF IInv
<1>46. CASE HalfStep
  <2>1. PICK ended \in SUBSET Ids : Leaves(ended)
    BY <1>0, <1>46, HalfStepLeaves
  <2>2. /\ turn' = "idle" /\ sched'.at = "idle" /\ started' = started
        /\ integration'.state # "none" =>
             integration.state # "none" /\ integration'.of = integration.of
    BY <1>0, <2>1 DEF Leaves, ProcessEnds, IdleScheduler, NoIntegration, TypeOK
  <2>3. \A a \in Ids : run'[a] = IF a \in ended THEN "terminal"
                             ELSE IF run[a] = "preparing" THEN "reconciliation"
                             ELSE IF run[a] \in {"queued", "running"} THEN "user-continuation"
                             ELSE run[a]
    BY <2>1 DEF Leaves, ProcessEnds, RecoveredRuns
  <2>4. Numbered'
    BY <1>0, <2>1, NumberedKept DEF Leaves, Failed
  <2>5. \A a \in Ids : Consistent(a)'
    BY <1>0, <2>1, <2>2, <2>3 DEF Leaves, Consistent, Live, Waiting, Failed, TypeOK
  <2>6. InHand' /\ WaitKept'
    BY <1>0, <2>1, <2>2, <2>3 DEF Leaves, InHand, WaitKept, Live, Waiting, TypeOK
  <2>7. QED
    BY <1>0, <2>4, <2>5, <2>6 DEF IInv
<1>37. ASSUME Executed \/ ReconciledIntegration PROVE IInv'
  <2>1. Applied /\ integration.state # "none" /\ turn' \in {turn, "running"}
    BY <1>37 DEF Executed, ReconciledIntegration
  <2>2. QED
    BY <1>8, <2>1
<1>39. CASE SchedulerStep
  BY <1>14, <1>17, <1>18, <1>20, <1>21, <1>24, <1>25, <1>39 DEF SchedulerStep
<1>40. CASE GitAnswers
  BY <1>15, <1>23, <1>25, <1>27, <1>36, <1>40 DEF GitAnswers, ProvisionRaises
<1>41. CASE CoordinatorStep
  BY <1>1, <1>2, <1>3, <1>4, <1>5, <1>6, <1>7, <1>10, <1>11, <1>37, <1>41
  DEF CoordinatorStep
<1>42. CASE UserStep /\ ~Synchronous
  BY <1>28, <1>29, <1>30, <1>31, <1>32, <1>35, <1>37, <1>42 DEF UserStep
<1>43. CASE \E a \in Ids : ChildStep(a)
  BY <1>12, <1>13, <1>43 DEF ChildStep
<1>44. CASE UNCHANGED vars
  BY <1>0, <1>44, RecordsKeep DEF vars
<1>45. QED
  BY <1>36, <1>39, <1>40, <1>41, <1>42, <1>43, <1>44, <1>46 DEF Next, Restart
----
(* Theorems.                                                               *)

\* At first there is no assignment.
LEMMA InvariantInit == Init => IInv
<1> SUFFICES ASSUME Init PROVE IInv
  OBVIOUS
<1> USE OrchestratorAssumption
<1>1. TypeOK
  BY DEF Init, TypeOK, IdleScheduler, NoIntegration, Failed, Open, Live, Waiting,
         NotPassed
<1>2. Numbered
  <2>1. Created = 1..0
    BY DEF Init, Created
  <2>2. QED
    BY <2>1 DEF Numbered
<1>3. (\A a \in Ids : Consistent(a)) /\ InHand /\ WaitKept
  BY DEF Init, Consistent, InHand, WaitKept, IdleScheduler, NoIntegration, Live,
         Waiting
<1>4. QED
  BY <1>1, <1>2, <1>3 DEF IInv

\* So the invariant holds in every reachable state.
LEMMA Invariant == Spec => []IInv
BY InvariantInit, InvariantStep, PTL DEF Spec

(* The records of a coordinated task, the snapshot of the scheduler and the *)
(* operation it blocks on stay in their ranges, whatever the coordinator,   *)
(* the children, the user and crashes do.                                   *)
THEOREM OrchestratorTypeCorrect == Spec => []TypeOK
<1>1. IInv => TypeOK
  BY DEF IInv
<1>2. QED
  BY <1>1, Invariant, PTL

(* No interleaving of the end of a child with the start of a wait loses the *)
(* wake-up: every step that settles a child tells the parked coordinator.   *)
THEOREM NoWaitForgotten == Spec => []NoWaitIsForgotten
<1>1. IInv => NoWaitIsForgotten
  BY DEF IInv, WaitKept, NoWaitIsForgotten
<1>2. QED
  BY <1>1, Invariant, PTL

(* A wait is delivered only once all it names has settled: neither the wake *)
(* of a parked turn nor resuming after a restart delivers half a result.    *)
THEOREM DeliveryIsFinal == Spec => WaitDeliversSettled
<1>1. ASSUME IInv, [Next]_vars
      PROVE  waitRow' = "delivered" /\ waitRow # "delivered" => AllSettled
  <2> SUFFICES ASSUME waitRow' = "delivered", waitRow # "delivered" PROVE AllSettled
    OBVIOUS
  <2>1. CASE Deliver
    BY <1>1, <2>1 DEF IInv, WaitKept, Deliver
  <2>2. CASE Resume
    BY <2>2 DEF Resume
  <2>3. CASE SchedulerStep
    BY <2>3 DEF SchedulerStep, Drain, RevokeDependent, KeepWaiting, LackFunds, Skip,
      Admit, Abandon, Scanned, StartProvisioned, StartRefused, unchangedByScheduler,
      unchangedByChildren
  <2>4. CASE GitAnswers
    BY <2>4 DEF GitAnswers, ReadHead, StateRead, Provisioned, NotProvisioned,
      ProvisionUnknown, ProvisionRaises, Recovered, WaitRecovered, unchangedByScheduler,
      unchangedByChildren
  <2>5. CASE CoordinatorStep /\ ~Deliver
    BY <2>5 DEF CoordinatorStep, Delegate, Delegated, Await, Integrate, NotIntegrated,
      Execute, Pick, Executed, Applied, Validate, EndTurn
  <2>6. CASE UserStep /\ ~Resume
    BY <2>6 DEF UserStep, CancelRoot, ReconciledIntegration, Applied, CancelChild,
      Revise, ReconciledPresent, ReconciledAbsent, ResumeStarts, ResumeEnds,
      unchangedByChildren
  <2>7. CASE \E a \in Ids : ChildStep(a)
    BY <2>7 DEF ChildStep, SubmitResult, EndChildTurn, unchangedByChildren
  <2>8. CASE Restart
    BY <2>8 DEF Restart, Recovered, WaitRecovered
  <2>9. CASE UNCHANGED vars
    BY <2>9 DEF vars
  <2>10. CASE HalfStep
    BY <1>1, <2>10, HalfStepLeaves DEF IInv, Leaves
  <2>11. QED
    BY <1>1, <2>1, <2>2, <2>3, <2>4, <2>5, <2>6, <2>7, <2>8, <2>9, <2>10 DEF Next
<1>2. QED
  BY <1>1, Invariant, PTL DEF Spec, WaitDeliversSettled

\* Which steps start a child, and in which state they find it.
LEMMA StartsFrom ==
  ASSUME IInv, [Next]_vars, NEW a \in Ids, run[a] # "running", run'[a] = "running"
  PROVE  run[a] \in Live /\ a \notin started /\ a \notin fenced /\ root = "open"
<1> USE DEF IInv, TypeOK
<1>1. ASSUME NEW b, NEW outcome, FinishChild(b, outcome) PROVE FALSE
  BY <1>1 DEF FinishChild
<1>2. CASE StartProvisioned
  <2>1. sched.child \in Ids /\ run[sched.child] \in {"queued", "terminal"}
    BY <1>2 DEF StartProvisioned, InHand
  <2>2. run[sched.child] # "terminal" /\ Start(sched.child)
    BY <1>2 DEF StartProvisioned, Child
  <2>3. a = sched.child
    BY <2>1, <2>2 DEF Start
  <2>4. QED
    BY <2>1, <2>2, <2>3 DEF Start, MayStart, Consistent, Live, Waiting
<1>3. CASE SchedulerStep /\ ~StartProvisioned
  <2>1. CASE Admit
    <3> DEFINE o == Oldest
    <3>1. run' = [run EXCEPT ![o] = "preparing"]
      BY <2>1 DEF Admit
    <3> HIDE DEF o
    <3>2. QED
      BY <3>1
  <2>2. QED
    BY <1>1, <1>3, <2>1
    DEF SchedulerStep, Drain, RevokeDependent, KeepWaiting, LackFunds, Skip, Abandon,
      Scanned, StartRefused, unchangedByScheduler, records
<1>4. CASE GitAnswers
  <2>1. CASE Provisioned \/ ProvisionUnknown
    <3> DEFINE c == Child
    <3>1. \/ run' = [run EXCEPT ![c] = IF @ = "terminal" THEN @ ELSE "queued"]
          \/ run' = [run EXCEPT ![c] = IF @ = "terminal" THEN @ ELSE "reconciliation"]
      BY <2>1 DEF Provisioned, ProvisionUnknown
    <3> HIDE DEF c
    <3>2. QED
      BY <3>1
  <2>2. QED
    BY <1>1, <1>4, <2>1 DEF GitAnswers, ReadHead, StateRead, NotProvisioned,
      ProvisionRaises, Recovered, ProcessEnds, RecoveredRuns, records
<1>5. CASE CoordinatorStep
  BY <1>5 DEF CoordinatorStep, Delegate, Delegated, Await, Deliver, Integrate,
    NotIntegrated, Execute, Pick, Executed, Applied, Validate, EndTurn, records
<1>6. CASE UserStep
  <2>1. ASSUME NEW b \in Ids, ReconciledPresent(b) \/ ResumeStarts(b)
        PROVE  run[a] \in Live /\ a \notin started /\ a \notin fenced /\ root = "open"
    <3>1. MayStart(b) /\ run' = [run EXCEPT ![b] = "running"]
          /\ (run[b] = "reconciliation" \/ b \notin started)
      BY <2>1 DEF ReconciledPresent, ResumeStarts, NeverStarted, Start
    <3>2. a = b
      BY <3>1
    <3>3. QED
      BY <3>1, <3>2 DEF MayStart, Consistent
  <2>2. CASE CancelRoot
    BY <2>2 DEF CancelRoot
  <2>3. QED
    BY <1>1, <1>6, <2>1, <2>2 DEF UserStep, ReconciledIntegration, Applied, CancelChild,
      Revise, ReconciledAbsent, ResumeEnds, Resume, records
<1>7. CASE \E b \in Ids : ChildStep(b)
  BY <1>1, <1>7 DEF ChildStep, SubmitResult, EndChildTurn
<1>8. CASE Restart
  BY <1>8 DEF Restart, Recovered, ProcessEnds, RecoveredRuns
<1>9. CASE UNCHANGED vars
  BY <1>9 DEF vars, records
<1>10. CASE HalfStep
  BY <1>10, HalfStepLeaves DEF Leaves, ProcessEnds, RecoveredRuns
<1>11. QED
  BY <1>2, <1>3, <1>4, <1>5, <1>6, <1>7, <1>8, <1>9, <1>10 DEF Next

(* A child's turn starts at most once, with its hold, for an assignment     *)
(* that waits for it: neither resuming nor reconciling repeats a start.     *)
THEOREM ChildrenStartOnce == Spec => StartedOnce
<1>1. ASSUME IInv, [Next]_vars
      PROVE  \A a \in Ids : run[a] # "running" /\ run'[a] = "running" =>
               a \notin started /\ state[a] = "admitted" /\ hold[a] = "held"
  BY <1>1, StartsFrom DEF IInv, Consistent
<1>2. QED
  BY <1>1, Invariant, PTL DEF Spec, StartedOnce

\* An integration that can still run has the coordinator's turn waiting.
Integrating ==
  integration.state \in {"awaiting-approval", "executing"} => turn = "integrating"

\* An integration ends, or is refused, before the turn goes on.
LEMMA IntegratingKept == Spec => []Integrating
<1>1. Init => Integrating
  BY DEF Init, Integrating, NoIntegration
<1>2. ASSUME TypeOK, Integrating, [Next]_vars PROVE Integrating'
  <2> USE <1>2 DEF Integrating, repository, records, TypeOK
  <2>1. CASE SchedulerStep
    BY <2>1 DEF SchedulerStep, Drain, RevokeDependent, KeepWaiting, LackFunds, Skip,
      Admit, Abandon, Scanned, StartProvisioned, StartRefused, FinishChild, Notify,
      unchangedByScheduler, unchangedByChildren
  <2>2. CASE GitAnswers
    <3>1. StateRead => UNCHANGED <<root, turn, integration>>
      BY DEF StateRead
    <3>2. QED
      BY <2>2, <3>1, SMTT(30) DEF GitAnswers, ReadHead, Provisioned, NotProvisioned,
      ProvisionUnknown, ProvisionRaises, Recovered, ProcessEnds, FinishChild, Notify,
      unchangedByScheduler, unchangedByChildren, NoIntegration
  <2>3. CASE CoordinatorStep
    BY <2>3 DEF CoordinatorStep, Delegate, Delegated, Await, Deliver, Integrate, MayCall,
      NotIntegrated, Execute, Pick, Executed, Applied, Validate, EndTurn, NoIntegration
  <2>4. CASE UserStep
    <3>1. CASE CancelRoot
      BY <3>1 DEF CancelRoot
    <3>2. CASE ReconciledIntegration
      BY <3>2 DEF ReconciledIntegration, Applied, NoIntegration
    <3>3. CASE Resume
      BY <3>3 DEF Resume, Resuming
    <3>4. ASSUME NEW a \in Ids,
                 \/ CancelChild(a) \/ Revise(a) \/ ReconciledPresent(a)
                 \/ ReconciledAbsent(a) \/ ResumeStarts(a) \/ ResumeEnds(a)
          PROVE  Integrating'
      BY <3>4 DEF CancelChild, Revise, ReconciledPresent, ReconciledAbsent,
        ResumeStarts, ResumeEnds, FinishChild, Notify, unchangedByChildren
    <3>5. QED
      BY <2>4, <3>1, <3>2, <3>3, <3>4 DEF UserStep
  <2>5. CASE \E a \in Ids : ChildStep(a)
    BY <2>5 DEF ChildStep, SubmitResult, EndChildTurn, FinishChild, Notify,
      unchangedByChildren
  <2>6. CASE Restart
    BY <2>6 DEF Restart, Recovered, ProcessEnds, NoIntegration
  <2>7. CASE UNCHANGED vars
    BY <2>7 DEF vars
  <2>8. CASE HalfStep
    BY <2>8, HalfStepLeaves DEF Leaves, ProcessEnds, NoIntegration
  <2>9. QED
    BY <2>1, <2>2, <2>3, <2>4, <2>5, <2>6, <2>7, <2>8 DEF Next
<1>3. QED
  BY <1>1, <1>2, OrchestratorTypeCorrect, PTL DEF Spec

\* Once the coordinator's run is fenced, no step begins anything.
LEMMA FencedStep ==
  ASSUME IInv, Integrating, [Next]_vars, root # "open"
  PROVE  /\ \A a \in Ids :
              /\ state'[a] \in {"proposed", "admitted"} => state'[a] = state[a]
              /\ run[a] = "none" => run'[a] = "none"
         /\ turn = "idle" => turn' = "idle"
<1> DEFINE Kept ==
      /\ \A a \in Ids :
           /\ state'[a] \in {"proposed", "admitted"} => state'[a] = state[a]
           /\ run[a] = "none" => run'[a] = "none"
      /\ turn = "idle" => turn' = "idle"
<1> SUFFICES Kept
  OBVIOUS
<1> USE DEF IInv, TypeOK, records
<1>1. ASSUME UNCHANGED <<state, run, turn>> PROVE Kept
  BY <1>1
<1>2. ASSUME NEW a \in Ids, NEW outcome \in Failed, FinishChild(a, outcome),
             run[a] # "none"
      PROVE  Kept
  BY <1>2 DEF FinishChild, Notify, Failed
<1>3. \A a \in Ids : state[a] = "admitted" => run[a] # "none"
  BY DEF Consistent
<1>4. "failed" \in Failed /\ "cancelled" \in Failed
  BY DEF Failed
<1>5. CASE SchedulerStep
  <2>1. CASE RevokeDependent
    <3> DEFINE o == Oldest
    <3>1. state' = [state EXCEPT ![o] = "revoked"] /\ run' = run /\ Notify
      BY <2>1 DEF RevokeDependent
    <3> HIDE DEF o
    <3>2. QED
      BY <3>1 DEF Notify
  <2>2. CASE StartProvisioned
    <3>1. UNCHANGED <<state, turn>>
      BY <2>2 DEF StartProvisioned
    <3>2. \/ run' = run
          \/ run' = [run EXCEPT ![Child] = "running"] /\ root = "open"
      BY <2>2 DEF StartProvisioned, Start, MayStart
    <3>3. QED
      BY <3>1, <3>2
  <2>3. CASE StartRefused
    <3>1. Child \in Ids /\ run[Child] # "none" /\ FinishChild(Child, "failed")
      BY <2>3 DEF StartRefused, InHand, Child
    <3>2. QED
      BY <1>2, <1>4, <3>1
  <2>4. QED
    BY <1>1, <1>5, <2>1, <2>2, <2>3
    DEF SchedulerStep, Drain, KeepWaiting, LackFunds, Skip, Admit, Abandon, Scanned
<1>6. CASE Recovered
  BY <1>6 DEF Recovered, ProcessEnds, RecoveredRuns
<1>7. CASE GitAnswers
  <2>1. CASE Provisioned \/ ProvisionUnknown
    <3>1. Child \in Ids /\ run[Child] # "none" /\ state' = state
      BY <2>1 DEF Provisioned, ProvisionUnknown, InHand, Child
    <3>2. turn' \in {turn, "woken"} /\ (turn # "parked" => turn' = turn)
      BY <2>1 DEF Provisioned, ProvisionUnknown, Notify
    <3>3. \A a \in Ids \ {Child} : run'[a] = run[a]
      BY <2>1 DEF Provisioned, ProvisionUnknown
    <3>4. QED
      BY <3>1, <3>2, <3>3
  <2>2. CASE NotProvisioned
    <3>1. Child \in Ids /\ run[Child] # "none" /\ FinishChild(Child, "failed")
      BY <1>3, <2>2 DEF NotProvisioned, InHand, Child
    <3>2. QED
      BY <1>2, <1>4, <3>1
  <2>3. QED
    BY <1>1, <1>6, <1>7, <2>1, <2>2 DEF GitAnswers, ReadHead, StateRead, ProvisionRaises
<1>8. CASE CoordinatorStep
  <2>1. CASE Executed
    <3>1. turn = "integrating" /\ run' = run
      BY <2>1 DEF Executed, Applied, Integrating
    <3>2. \/ state' = state
          \/ state' = [state EXCEPT ![integration.of] = "integrated"]
      BY <2>1 DEF Executed, Applied
    <3>3. QED
      BY <3>1, <3>2
  <2>2. CASE NotIntegrated
    BY <2>2 DEF NotIntegrated, Integrating
  <2>3. QED
    BY <1>1, <1>8, <2>1, <2>2
    DEF CoordinatorStep, Delegate, Delegated, Await, Deliver, Integrate, MayCall,
        Execute, Pick, Validate, EndTurn
<1>9. CASE UserStep
  <2>1. CASE CancelRoot
    BY <2>1 DEF CancelRoot, Active, Live, Waiting
  <2>2. CASE ReconciledIntegration
    <3>1. \/ state' = state
          \/ state' = [state EXCEPT ![integration.of] = "integrated"]
      BY <2>2 DEF ReconciledIntegration, Applied
    <3>2. UNCHANGED <<run, turn>>
      BY <2>2 DEF ReconciledIntegration, Applied
    <3>3. QED
      BY <3>1, <3>2
  <2>3. ASSUME NEW a \in Ids, CancelChild(a) PROVE Kept
    BY <1>1, <1>2, <1>4, <2>3 DEF CancelChild, Live, Waiting
  <2>4. ASSUME NEW a \in Ids, ReconciledAbsent(a) \/ ResumeEnds(a) PROVE Kept
    <3>1. run[a] # "none" /\ FinishChild(a, "failed")
      BY <2>4 DEF ReconciledAbsent, ResumeEnds, Idle, Active, Live, Waiting
    <3>2. QED
      BY <1>2, <1>4, <3>1
  <2>5. QED
    BY <1>9, <2>1, <2>2, <2>3, <2>4
    DEF UserStep, Revise, ReconciledPresent, ResumeStarts, Resume, Resuming, Start,
        MayStart
<1>10. CASE \E a \in Ids : ChildStep(a)
  <2>1. ASSUME NEW a \in Ids, SubmitResult(a) PROVE Kept
    BY <2>1 DEF SubmitResult
  <2>2. ASSUME NEW a \in Ids, EndChildTurn(a) PROVE Kept
    BY <1>2, <1>4, <2>2 DEF EndChildTurn
  <2>3. QED
    BY <1>10, <2>1, <2>2 DEF ChildStep
<1>11. CASE UNCHANGED vars
  BY <1>1, <1>11 DEF vars
<1>12. CASE HalfStep
  <2>1. PICK ended \in SUBSET Ids : Leaves(ended)
    BY <1>12, HalfStepLeaves
  <2>2. QED
    BY <2>1 DEF Leaves, ProcessEnds, RecoveredRuns, Failed, Live, Waiting
<1>13. QED
  BY <1>5, <1>6, <1>7, <1>8, <1>9, <1>10, <1>11, <1>12 DEF Next, Restart

(* Cancelling takes effect at once: whatever was under way when a child or  *)
(* the task was cancelled, no turn, child or proposal begins behind it.     *)
THEOREM NothingPassesTheFence == Spec => FencedStaysDown
<1>1. ASSUME IInv, Integrating, [Next]_vars
      PROVE  /\ \A a \in Ids :
                  /\ run[a] # "running" /\ run'[a] = "running" =>
                       a \notin fenced /\ root = "open"
                  /\ root # "open" =>
                       /\ state'[a] \in {"proposed", "admitted"} =>
                            state'[a] = state[a]
                       /\ run[a] = "none" => run'[a] = "none"
             /\ root # "open" /\ turn = "idle" => turn' = "idle"
  BY <1>1, StartsFrom, FencedStep
<1>2. QED
  BY <1>1, Invariant, IntegratingKept, PTL DEF Spec, FencedStaysDown

----
(***************************************************************************)
(* The order in which a coordinated task works: revisions stand for what   *)
(* they replace, dependents and overlapping assignments run one after the  *)
(* other, and the scheduler forgets nothing.                               *)
(***************************************************************************)

(* Revisions and what they lead to.                                        *)

\* What fails for a revision would fail for an earlier, or a later one.
LEMMA UpTheRevisions ==
  ASSUME NEW Bad \in SUBSET Ids, \A a \in Bad : \E b \in Bad : b < a
  PROVE  Bad = {}
<1> SUFFICES ASSUME Bad # {} PROVE FALSE
  OBVIOUS
<1>1. Bad \in SUBSET Nat
  BY OrchestratorAssumption DEF Ids
<1>2. PICK x \in Bad : \A y \in Bad : x <= y
  BY <1>1, LeastNumber
<1>3. QED
  BY <1>1, <1>2

\* The same, for what would fail for a later one.
LEMMA DownTheRevisions ==
  ASSUME NEW Bad \in SUBSET Ids, \A a \in Bad : \E b \in Bad : a < b
  PROVE  Bad = {}
<1> DEFINE Left == {n \in Nat : \E a \in Bad : n = MaxRevisions - a}
<1> SUFFICES ASSUME Bad # {} PROVE FALSE
  OBVIOUS
<1>1. \A a \in Bad : a \in Nat /\ MaxRevisions - a \in Left
  BY OrchestratorAssumption DEF Ids
<1>2. Left \in SUBSET Nat /\ Left # {}
  BY <1>1
<1>3. PICK x \in Left : \A y \in Left : x <= y
  <2> HIDE DEF Left
  <2>1. QED
    BY <1>2, LeastNumber
<1>4. PICK a \in Bad : x = MaxRevisions - a
  BY <1>3
<1>5. PICK b \in Bad : a < b
  BY <1>4
<1>6. a \in Nat /\ b \in Nat /\ MaxRevisions \in Nat /\ x <= MaxRevisions - b
  <2>1. MaxRevisions - b \in Left
    BY <1>1, <1>5
  <2> HIDE DEF Left
  <2>2. QED
    BY <1>1, <1>3, <1>4, <1>5, <2>1, OrchestratorAssumption
<1>7. QED
  BY <1>4, <1>5, <1>6

\* The greatest of some revisions is one of them.
LEMMA MaxIsOne ==
  ASSUME NEW S \in SUBSET Ids, S # {}
  PROVE  Max(S) \in S
<1>1. \E m \in S : \A b \in S : b <= m
  <2> SUFFICES ASSUME \A m \in S : \E b \in S : ~(b <= m) PROVE FALSE
    OBVIOUS
  <2>1. \A m \in S : \E b \in S : m < b
    BY OrchestratorAssumption DEF Ids
  <2>2. QED
    BY <2>1, DownTheRevisions
<1>2. QED
  BY <1>1 DEF Max

\* A revision came after what it replaces.
Precedes == \A a \in Ids : supersedes[a] # 0 => supersedes[a] \in Ids /\ supersedes[a] < a

\* So the origin of a revision is well defined ...
LEMMA OriginUnrolled ==
  ASSUME Precedes
  PROVE  Origin = [a \in Ids |-> IF supersedes[a] = 0 THEN a ELSE Origin[supersedes[a]]]
<1> DEFINE end == {a \in Ids : supersedes[a] = 0}
           rank == [a \in Ids |-> a]
<1>1. MaxRevisions \in Nat /\ Ids = 1..MaxRevisions
  BY OrchestratorAssumption DEF Ids
<1>2. rank \in [Ids -> 0..MaxRevisions] /\ end \in SUBSET Ids
  BY <1>1
<1>3. \A a \in Ids : a \notin end => supersedes[a] \in Ids /\ rank[supersedes[a]] < rank[a]
  BY DEF Precedes
<1>4. FollowsLinks(Ids, end, supersedes)
  <2> HIDE DEF rank, end
  <2>1. QED
    BY <1>1, <1>2, <1>3, LinksEnd
<1>5. \E f : f = [a \in Ids |-> IF supersedes[a] = 0 THEN a ELSE f[supersedes[a]]]
  <2>1. PICK f : f = [a \in Ids |-> IF a \in end THEN a ELSE f[supersedes[a]]]
    BY <1>4 DEF FollowsLinks
  <2>2. [a \in Ids |-> IF a \in end THEN a ELSE f[supersedes[a]]]
        = [a \in Ids |-> IF supersedes[a] = 0 THEN a ELSE f[supersedes[a]]]
    OBVIOUS
  <2>3. QED
    BY <2>1, <2>2
<1>6. QED
  BY <1>5 DEF Origin

\* The revisions that replace a.
Next1(a) == {b \in Ids : supersedes[b] = a}

\* ... and so is the revision that stands for it now.
LEMMA EffectiveUnrolled ==
  ASSUME Precedes
  PROVE  Effective = [a \in Ids |->
           IF Next1(a) = {} THEN a ELSE Effective[Max(Next1(a))]]
<1> DEFINE end == {a \in Ids : Next1(a) = {}}
           link == [a \in Ids |-> Max(Next1(a))]
           rank == [a \in Ids |-> MaxRevisions - a]
<1>1. MaxRevisions \in Nat /\ Ids = 1..MaxRevisions
  BY OrchestratorAssumption DEF Ids
<1>2. rank \in [Ids -> 0..MaxRevisions] /\ end \in SUBSET Ids
  BY <1>1
<1>3. \A a \in Ids : a \notin end => link[a] \in Ids /\ rank[link[a]] < rank[a]
  <2> SUFFICES ASSUME NEW a \in Ids, a \notin end
               PROVE  link[a] \in Ids /\ rank[link[a]] < rank[a]
    OBVIOUS
  <2>1. Next1(a) # {} /\ Next1(a) \in SUBSET Ids /\ link[a] = Max(Next1(a))
    BY DEF Next1
  <2>2. link[a] \in Next1(a)
    BY <2>1, MaxIsOne
  <2>3. link[a] \in Ids /\ supersedes[link[a]] = a /\ a \in Nat /\ a # 0
    BY <1>1, <2>2 DEF Next1
  <2> HIDE DEF link
  <2>4. a < link[a]
    BY <2>3 DEF Precedes
  <2>5. QED
    BY <1>1, <2>3, <2>4
<1>4. FollowsLinks(Ids, end, link)
  <2> HIDE DEF rank, end, link
  <2>1. QED
    BY <1>1, <1>2, <1>3, LinksEnd
<1>5. PICK f : f = [a \in Ids |-> IF a \in end THEN a ELSE f[link[a]]]
  BY <1>4 DEF FollowsLinks
<1>6. f = [a \in Ids |-> IF Next1(a) = {} THEN a ELSE f[Max(Next1(a))]]
  <2>1. \A a \in Ids : (IF a \in end THEN a ELSE f[link[a]])
                       = IF Next1(a) = {} THEN a ELSE f[Max(Next1(a))]
    OBVIOUS
  <2>2. QED
    BY <1>5, <2>1
<1>7. QED
  BY <1>6 DEF Effective, Next1

\* A revision is no earlier than what it goes back to.
LEMMA OriginIsEarlier ==
  ASSUME Precedes
  PROVE  \A a \in Ids : Origin[a] \in Ids /\ Origin[a] <= a
<1> DEFINE Bad == {a \in Ids : ~(Origin[a] \in Ids /\ Origin[a] <= a)}
<1>0. \A a \in Ids : a \in Nat
  BY OrchestratorAssumption DEF Ids
<1>1. ASSUME NEW a \in Bad PROVE \E b \in Bad : b < a
  <2>1. supersedes[a] # 0
    BY <1>0, OriginUnrolled
  <2>2. Origin[a] = Origin[supersedes[a]] /\ supersedes[a] \in Ids /\ supersedes[a] < a
    BY <2>1, OriginUnrolled DEF Precedes
  <2>3. supersedes[a] \in Bad
    BY <1>0, <2>2
  <2>4. QED
    BY <2>2, <2>3
<1>2. Bad = {}
  <2> HIDE DEF Bad
  <2>1. Bad \in SUBSET Ids
    BY DEF Bad
  <2>2. QED
    BY <1>1, <2>1, UpTheRevisions
<1>3. QED
  BY <1>2

\* Dependencies point back, also those that a revision takes over.
LEMMA DepsAreEarlier ==
  ASSUME Precedes
  PROVE  \A a \in Ids : \A p \in Deps(a) : p \in Ids /\ p < a
<1> SUFFICES ASSUME NEW a \in Ids, NEW p \in Deps(a) PROVE p \in Ids /\ p < a
  OBVIOUS
<1>1. Origin[a] \in Ids /\ Origin[a] <= a
  BY OriginIsEarlier
<1>2. p \in Ids /\ p < Origin[a]
  BY <1>1, OrchestratorAssumption DEF Deps
<1>3. QED
  BY <1>1, <1>2, OrchestratorAssumption DEF Ids

\* So what lies behind an assignment is well defined too.
LEMMA AncestorsUnrolled ==
  ASSUME Precedes
  PROVE  Ancestors = [a \in Ids |-> Deps(a) \union UNION {Ancestors[p] : p \in Deps(a)}]
<1> DEFINE D == [a \in Ids |-> Deps(a)]
<1>1. \A a \in 1..MaxRevisions : \A p \in D[a] : p \in 1..MaxRevisions /\ p < a
  BY DepsAreEarlier DEF Ids
<1>2. Gathers(MaxRevisions, D)
  <2> HIDE DEF D
  <2>1. QED
    BY <1>1, LevelsEnd, OrchestratorAssumption
<1>3. PICK f : f = [a \in Ids |-> D[a] \union UNION {f[p] : p \in D[a]}]
  BY <1>2 DEF Gathers, Ids
<1>4. f = [a \in Ids |-> Deps(a) \union UNION {f[p] : p \in Deps(a)}]
  <2> DEFINE g == [a \in Ids |-> D[a] \union UNION {f[p] : p \in D[a]}]
             h == [a \in Ids |-> Deps(a) \union UNION {f[p] : p \in Deps(a)}]
  <2>1. ASSUME NEW a \in Ids PROVE g[a] = h[a]
    <3>1. D[a] = Deps(a)
      OBVIOUS
    <3> HIDE DEF D
    <3>2. QED
      BY <3>1
  <2>2. g = h
    BY <2>1
  <2>3. QED
    BY <1>3, <2>2
<1>5. QED
  BY <1>4 DEF Ancestors

----
(* What revisions and dependencies lead to.                                *)

\* The revision that stands for an assignment is one of its revisions.
LEMMA EffectiveIsRevision ==
  ASSUME Precedes
  PROVE  \A a \in Ids : Effective[a] \in Ids /\ Origin[Effective[a]] = Origin[a]
<1> DEFINE Good(a) == Effective[a] \in Ids /\ Origin[Effective[a]] = Origin[a]
           Bad == {a \in Ids : ~Good(a)}
<1>1. ASSUME NEW a \in Bad PROVE \E b \in Bad : a < b
  <2> DEFINE m == Max(Next1(a))
  <2>1. Next1(a) # {} /\ Next1(a) \in SUBSET Ids
    BY EffectiveUnrolled DEF Next1
  <2>2. m \in Next1(a)
    BY <2>1, MaxIsOne
  <2>3. m \in Ids /\ supersedes[m] = a /\ a \in Ids /\ a # 0
    BY <2>2, OrchestratorAssumption DEF Next1, Ids
  <2>4. Effective[a] = Effective[m]
    BY <2>1, EffectiveUnrolled
  <2> HIDE DEF m
  <2>5. a < m /\ Origin[m] = Origin[a]
    BY <2>3, OriginUnrolled DEF Precedes
  <2>6. ~Good(m)
    BY <2>3, <2>4, <2>5
  <2>7. QED
    BY <2>3, <2>5, <2>6
<1>2. Bad = {}
  <2> HIDE DEF Bad
  <2>1. Bad \in SUBSET Ids
    BY DEF Bad
  <2>2. QED
    BY <1>1, <2>1, DownTheRevisions
<1>3. QED
  BY <1>2

\* What lies behind an assignment came before it.
LEMMA AncestorsAreEarlier ==
  ASSUME Precedes
  PROVE  \A a \in Ids : \A p \in Ancestors[a] : p \in Ids /\ p < a
<1> DEFINE Good(a) == \A p \in Ancestors[a] : p \in Ids /\ p < a
           Bad == {a \in Ids : ~Good(a)}
<1>1. ASSUME NEW a \in Bad PROVE \E b \in Bad : b < a
  <2>1. PICK p \in Ancestors[a] : ~(p \in Ids /\ p < a)
    OBVIOUS
  <2>2. p \in Deps(a) \/ \E d \in Deps(a) : p \in Ancestors[d]
    BY AncestorsUnrolled
  <2>3. PICK d \in Deps(a) : p \in Ancestors[d]
    BY <2>1, <2>2, DepsAreEarlier
  <2>4. d \in Ids /\ d < a
    BY DepsAreEarlier
  <2>5. ~(p \in Ids /\ p < d)
    BY <2>1, <2>4, OrchestratorAssumption DEF Ids
  <2>6. QED
    BY <2>3, <2>4, <2>5
<1>2. Bad = {}
  <2> HIDE DEF Bad
  <2>1. Bad \in SUBSET Ids
    BY DEF Bad
  <2>2. QED
    BY <1>1, <2>1, UpTheRevisions
<1>3. QED
  BY <1>2

\* All that is known about a set of revisions closed under both.
Traced ==
  /\ \A a \in Ids : supersedes[a] # 0 => Origin[a] = Origin[supersedes[a]]
  /\ \A a \in Ids : supersedes[a] = 0 => Origin[a] = a
  /\ \A a \in Ids : Origin[a] \in Ids
  /\ \A a \in Ids : Effective[a] \in Ids /\ Origin[Effective[a]] = Origin[a]
  /\ \A a \in Ids : Next1(a) = {} => Effective[a] = a
  /\ \A a \in Ids : Next1(a) # {} => Effective[a] = Effective[Max(Next1(a))]
  /\ \A a \in Ids : \A p \in Deps(a) : p \in Ids /\ p < a
  /\ \A a \in Ids : \A p \in Ancestors[a] : p \in Ids /\ p < a
  /\ \A a \in Ids : \A p : p \in Ancestors[a] <=>
       p \in Deps(a) \/ \E d \in Deps(a) : p \in Ancestors[d]

\* All of this follows from the order of the records.
LEMMA Trace == Precedes => Traced
<1> SUFFICES ASSUME Precedes PROVE Traced
  OBVIOUS
<1>1. /\ \A a \in Ids : supersedes[a] # 0 => Origin[a] = Origin[supersedes[a]]
      /\ \A a \in Ids : supersedes[a] = 0 => Origin[a] = a
  BY OriginUnrolled
<1>2. /\ \A a \in Ids : Next1(a) = {} => Effective[a] = a
      /\ \A a \in Ids : Next1(a) # {} => Effective[a] = Effective[Max(Next1(a))]
  BY EffectiveUnrolled
<1>3. \A a \in Ids : \A p : p \in Ancestors[a] <=>
        p \in Deps(a) \/ \E d \in Deps(a) : p \in Ancestors[d]
  BY AncestorsUnrolled
<1>4. QED
  BY <1>1, <1>2, <1>3, OriginIsEarlier, EffectiveIsRevision,
     DepsAreEarlier, AncestorsAreEarlier DEF Traced

\* What a step does not rename keeps its origin and its ancestors.
LEMMA OriginKept ==
  ASSUME Traced, Traced', Precedes, NEW K \in SUBSET Ids,
         \A a \in K : /\ supersedes'[a] = supersedes[a]
                      /\ supersedes[a] # 0 => supersedes[a] \in K
  PROVE  \A a \in K : Origin'[a] = Origin[a]
<1> DEFINE Bad == {a \in K : Origin'[a] # Origin[a]}
<1>1. ASSUME NEW a \in Bad PROVE \E b \in Bad : b < a
  <2>1. a \in Ids /\ supersedes'[a] = supersedes[a]
    OBVIOUS
  <2>2. supersedes[a] # 0
    BY <2>1 DEF Traced
  <2>3. Origin[a] = Origin[supersedes[a]] /\ Origin'[a] = Origin'[supersedes[a]]
    BY <2>1, <2>2 DEF Traced
  <2>4. supersedes[a] \in K /\ supersedes[a] < a
    BY <2>1, <2>2 DEF Precedes
  <2>5. QED
    BY <2>3, <2>4
<1>2. Bad = {}
  <2> HIDE DEF Bad
  <2>1. Bad \in SUBSET Ids
    BY DEF Bad
  <2>2. QED
    BY <1>1, <2>1, UpTheRevisions
<1>3. QED
  BY <1>2

\* Nor does it change what lies behind them.
LEMMA AncestorsKept ==
  ASSUME Traced, Traced', NEW K \in SUBSET Ids,
         \A a \in K : Origin'[a] = Origin[a] /\ Deps(a) \subseteq K
  PROVE  \A a \in K : \A p : p \in Ancestors'[a] <=> p \in Ancestors[a]
<1> DEFINE Good(a) == \A p : p \in Ancestors'[a] <=> p \in Ancestors[a]
           Bad == {a \in K : ~Good(a)}
<1>0. \A a \in K : Deps(a)' = Deps(a)
  BY DEF Deps
<1>1. ASSUME NEW a \in Bad PROVE \E b \in Bad : b < a
  <2>1. PICK p : ~(p \in Ancestors'[a] <=> p \in Ancestors[a])
    OBVIOUS
  <2>2. /\ p \in Ancestors[a] <=> p \in Deps(a) \/ \E d \in Deps(a) : p \in Ancestors[d]
        /\ p \in Ancestors'[a] <=> p \in Deps(a)' \/ \E d \in Deps(a)' : p \in Ancestors'[d]
    BY DEF Traced
  <2>3. PICK d \in Deps(a) : ~(p \in Ancestors'[d] <=> p \in Ancestors[d])
    BY <1>0, <2>1, <2>2
  <2>4. d \in K /\ d < a
    BY DEF Traced
  <2>5. QED
    BY <2>3, <2>4
<1>2. Bad = {}
  <2> HIDE DEF Bad
  <2>1. Bad \in SUBSET Ids
    BY DEF Bad
  <2>2. QED
    BY <1>1, <2>1, UpTheRevisions
<1>3. QED
  BY <1>2

\* Without a new revision the same revisions stand for all.
LEMMA EffectiveKept ==
  ASSUME Traced, Traced', Precedes, UNCHANGED supersedes
  PROVE  \A a \in Ids : Effective'[a] = Effective[a]
<1> DEFINE Bad == {a \in Ids : Effective'[a] # Effective[a]}
<1>1. ASSUME NEW a \in Bad PROVE \E b \in Bad : a < b
  <2> DEFINE m == Max(Next1(a))
  <2>1. Next1(a)' = Next1(a) /\ Next1(a) \in SUBSET Ids
    BY DEF Next1
  <2>2. Next1(a) # {}
    BY <2>1 DEF Traced
  <2>3. m \in Ids /\ supersedes[m] = a /\ a \in Ids /\ a # 0
    BY <2>1, <2>2, MaxIsOne, OrchestratorAssumption, SMTT(30) DEF Next1, Ids
  <2>4. Effective[a] = Effective[m]
    BY <2>2 DEF Traced
  <2>5. Effective'[a] = Effective'[Max(Next1(a)')]
    BY <2>1, <2>2 DEF Traced
  <2>6. Effective'[a] = Effective'[m]
    BY <2>1, <2>5
  <2> HIDE DEF m
  <2>7. a < m
    BY <2>3 DEF Precedes
  <2>8. QED
    BY <2>3, <2>4, <2>6, <2>7
<1>2. Bad = {}
  <2> HIDE DEF Bad
  <2>1. Bad \in SUBSET Ids
    BY DEF Bad
  <2>2. QED
    BY <1>1, <2>1, DownTheRevisions
<1>3. QED
  BY <1>2

----
(* How assignments and runs move.                                          *)

(* How an assignment and its run move in one step: what failed, ended or   *)
(* was integrated stays so, and only Admit begins a run.                   *)
Moves ==
  \A a \in Ids :
    /\ state[a] \in Failed => state'[a] \in Failed
    /\ state[a] = "integrated" => state'[a] = "integrated"
    /\ state[a] # "absent" => state'[a] # "absent"
    /\ run[a] = "terminal" => run'[a] = "terminal"
    /\ run[a] = "none" /\ run'[a] # "none" => Admit /\ a = Oldest /\ state'[a] = "admitted"
    /\ state'[a] # state[a] /\ state'[a] \in Failed \union {"integrated"} =>
         run'[a] \in {"none", "terminal"}

\* Every step moves them so.
LEMMA StepMoves ==
  ASSUME IInv, [Next]_vars PROVE Moves
<1> USE DEF IInv, TypeOK, records, Failed
<1>1. ASSUME UNCHANGED <<state, run>> PROVE Moves
  BY <1>1 DEF Moves
<1>2. ASSUME NEW a \in Ids, NEW outcome \in Failed, FinishChild(a, outcome),
             run[a] # "none"
      PROVE  Moves
  BY <1>2 DEF FinishChild, Moves
<1>3. \A a \in Ids : /\ state[a] = "admitted" => run[a] # "none"
                     /\ state[a] \in {"absent", "proposed"} => run[a] = "none"
                     /\ run[a] = "none" =>
                          state[a] \notin {"admitted", "result-submitted", "integrated"}
  BY DEF Consistent
<1>4. "failed" \in Failed /\ "cancelled" \in Failed
  BY DEF Failed
<1>14. ASSUME NEW a \in Ids, run[a] \in Live, run' = [run EXCEPT ![a] = "running"],
              UNCHANGED state
       PROVE  Moves
  BY <1>14 DEF Moves, Live, Waiting
<1>5. CASE SchedulerStep
  <2>1. CASE RevokeDependent
    <3> DEFINE o == Oldest
    <3>1. /\ state' = [state EXCEPT ![o] = "revoked"] /\ run' = run
          /\ state[o] \in {"proposed", "revoked"} /\ o \in Ids
      BY <2>1, OldestIsLeft DEF RevokeDependent
    <3> HIDE DEF o
    <3>2. run[o] = "none" \/ state[o] = "revoked"
      BY <1>3, <3>1
    <3>3. QED
      BY <3>1, <3>2 DEF Moves
  <2>2. CASE StartProvisioned
    <3>1. UNCHANGED state /\ Child \in Ids
      BY <2>2 DEF StartProvisioned, InHand, Child
    <3>2. \/ run' = run
          \/ run' = [run EXCEPT ![Child] = "running"] /\ run[Child] \in Live
      BY <2>2 DEF StartProvisioned, Start, MayStart
    <3>3. QED
      BY <1>1, <1>14, <3>1, <3>2
  <2>3. CASE StartRefused
    <3>1. Child \in Ids /\ run[Child] # "none" /\ FinishChild(Child, "failed")
      BY <2>3 DEF StartRefused, InHand, Child
    <3>2. QED
      BY <1>2, <1>4, <3>1
  <2>4. CASE Admit
    <3> DEFINE o == Oldest
               admits == Admit
    <3>1. /\ state' = [state EXCEPT ![o] = "admitted"] /\ run' = [run EXCEPT ![o] = "preparing"]
          /\ state[o] = "proposed" /\ o \in Ids /\ admits /\ o = Oldest
      BY <2>4, OldestIsLeft DEF Admit
    <3> HIDE DEF o, admits
    <3>2. \A a \in Ids :
            /\ state[a] \in Failed => state'[a] \in Failed
            /\ state[a] = "integrated" => state'[a] = "integrated"
            /\ state[a] # "absent" => state'[a] # "absent"
            /\ run[a] = "terminal" => run'[a] = "terminal"
            /\ run[a] = "none" /\ run'[a] # "none" => a = o /\ state'[a] = "admitted"
            /\ state'[a] # state[a] /\ state'[a] \in Failed \union {"integrated"} =>
                 run'[a] \in {"none", "terminal"}
      BY <1>3, <3>1
    <3>3. QED
      BY <3>1, <3>2 DEF Moves, admits
  <2>5. QED
    BY <1>1, <1>5, <2>1, <2>2, <2>3, <2>4
    DEF SchedulerStep, Drain, KeepWaiting, LackFunds, Skip, Abandon, Scanned
<1>6. CASE Recovered
  BY <1>6 DEF Recovered, ProcessEnds, RecoveredRuns, Moves
<1>7. CASE GitAnswers
  <2>1. CASE Provisioned \/ ProvisionUnknown
    <3>1. Child \in Ids /\ run[Child] # "none" /\ state' = state
      BY <2>1 DEF Provisioned, ProvisionUnknown, InHand, Child
    <3>2. /\ \A a \in Ids \ {Child} : run'[a] = run[a]
          /\ run[Child] = "terminal" => run'[Child] = "terminal"
      BY <2>1, <3>1 DEF Provisioned, ProvisionUnknown
    <3>3. QED
      BY <3>1, <3>2 DEF Moves
  <2>2. CASE NotProvisioned
    <3>1. Child \in Ids /\ run[Child] # "none" /\ FinishChild(Child, "failed")
      BY <1>3, <2>2 DEF NotProvisioned, InHand, Child
    <3>2. QED
      BY <1>2, <1>4, <3>1
  <2>3. QED
    BY <1>1, <1>6, <1>7, <2>1, <2>2 DEF GitAnswers, ReadHead, StateRead, ProvisionRaises
<1>15. ASSUME Applied, integration.state # "none" PROVE Moves
  <2> DEFINE i == integration.of
  <2>1. run' = run /\ run[i] = "terminal" /\ i \in Ids
    BY <1>15 DEF Applied, InHand
  <2>2. state' = state \/ (state' = [state EXCEPT ![i] = "integrated"]
                             /\ state[i] = "result-submitted")
    BY <1>15 DEF Applied, InHand
  <2> HIDE DEF i
  <2>3. QED
    BY <2>1, <2>2 DEF Moves
<1>8. CASE CoordinatorStep
  <2>1. CASE Executed
    BY <1>15, <2>1 DEF Executed
  <2>2. ASSUME NEW n \in 1..(MaxRevisions - Cardinality(Created)),
               Delegate((Cardinality(Created) + 1)..(Cardinality(Created) + n))
        PROVE Moves
    <3> DEFINE new == (Cardinality(Created) + 1)..(Cardinality(Created) + n)
    <3>1. \A a \in Ids : a \in new => state[a] = "absent"
      <4>1. \A a \in Created : a \notin new
        BY NextIsFree
      <4>2. QED
        BY <4>1 DEF Created
    <3>2. /\ state' = [a \in Ids |-> IF a \in new THEN "proposed" ELSE state[a]]
          /\ run' = run
      BY <2>2 DEF Delegate
    <3> HIDE DEF new
    <3>3. QED
      BY <1>3, <3>1, <3>2 DEF Moves
  <2>3. QED
    BY <1>1, <1>8, <2>1, <2>2
    DEF CoordinatorStep, Delegated, Await, Deliver, Integrate, NotIntegrated, MayCall,
        Execute, Pick, Validate, EndTurn
<1>9. CASE UserStep
  <2>1. CASE CancelRoot
    <3> DEFINE stopped == {a \in Active : run[a] # "running"}
    <3>1. /\ run' = [a \in Ids |-> IF a \in stopped THEN "terminal" ELSE run[a]]
          /\ state' = [a \in Ids |->
               IF a \in Proposed \/ (a \in stopped /\ state[a] = "admitted")
               THEN "cancelled" ELSE state[a]]
      BY <2>1 DEF CancelRoot
    <3>2. \A a \in stopped : run[a] \in Live
      BY DEF Active
    <3>3. \A a \in Proposed : state[a] = "proposed" /\ run[a] = "none"
      BY <1>3 DEF Proposed
    <3> HIDE DEF stopped
    <3>4. QED
      BY <3>1, <3>2, <3>3 DEF Moves, Live, Waiting
  <2>2. CASE ReconciledIntegration
    BY <1>15, <2>2 DEF ReconciledIntegration
  <2>3. ASSUME NEW a \in Ids, CancelChild(a) PROVE Moves
    BY <1>1, <1>2, <1>4, <2>3 DEF CancelChild, Live, Waiting
  <2>4. ASSUME NEW a \in Ids, ReconciledAbsent(a) \/ ResumeEnds(a) PROVE Moves
    <3>1. run[a] # "none" /\ FinishChild(a, "failed")
      BY <2>4 DEF ReconciledAbsent, ResumeEnds, Idle, Active, Live, Waiting
    <3>2. QED
      BY <1>2, <1>4, <3>1
  <2>5. ASSUME NEW a \in Ids, ReconciledPresent(a) \/ ResumeStarts(a) PROVE Moves
    BY <1>14, <2>5 DEF ReconciledPresent, ResumeStarts, Start, MayStart
  <2>6. ASSUME NEW a \in Ids, Revise(a) PROVE Moves
    <3> DEFINE new == Cardinality(Created) + 1
    <3>1. new \in Ids /\ new \notin Created
      <4>1. Cardinality(Created) \in Nat /\ new <= MaxRevisions
        BY <2>6, NextIsFree, OrchestratorAssumption DEF Revise
      <4>2. new \notin 1..Cardinality(Created)
        BY <4>1
      <4>3. new \in 1..MaxRevisions
        BY <4>1, OrchestratorAssumption
      <4>4. QED
        BY <4>2, <4>3, NextIsFree DEF Ids
    <3>2. state[new] = "absent"
      BY <3>1 DEF Created
    <3>3. /\ state[a] \in {"proposed", "failed", "cancelled", "revoked"}
          /\ state' = [state EXCEPT
               ![a] = IF @ = "proposed" THEN "superseded" ELSE @, ![new] = "proposed"]
          /\ UNCHANGED run
      BY <2>6 DEF Revise
    <3> HIDE DEF new
    <3>4. QED
      BY <1>3, <3>1, <3>2, <3>3 DEF Moves
  <2>7. QED
    BY <1>1, <1>9, <2>1, <2>2, <2>3, <2>4, <2>5, <2>6
    DEF UserStep, Resume, Resuming
<1>10. CASE \E a \in Ids : ChildStep(a)
  <2>1. ASSUME NEW a \in Ids, SubmitResult(a) PROVE Moves
    BY <2>1 DEF SubmitResult, Moves
  <2>2. ASSUME NEW a \in Ids, EndChildTurn(a) PROVE Moves
    BY <1>2, <1>4, <2>2 DEF EndChildTurn
  <2>3. QED
    BY <1>10, <2>1, <2>2 DEF ChildStep
<1>11. CASE UNCHANGED vars
  BY <1>1, <1>11 DEF vars
<1>12. CASE HalfStep
  <2>1. PICK ended \in SUBSET Ids : Leaves(ended)
    BY <1>12, HalfStepLeaves
  <2>2. \A a \in Ids : run'[a] = IF a \in ended THEN "terminal"
                             ELSE IF run[a] = "preparing" THEN "reconciliation"
                             ELSE IF run[a] \in {"queued", "running"} THEN "user-continuation"
                             ELSE run[a]
    BY <2>1 DEF Leaves, ProcessEnds, RecoveredRuns
  <2>3. QED
    BY <1>3, <2>1, <2>2 DEF Leaves, Moves, Live, Waiting
<1>13. QED
  BY <1>5, <1>6, <1>7, <1>8, <1>9, <1>10, <1>11, <1>12 DEF Next, Restart

----
(* Where records come from.                                                *)

\* The next revision gets a number that no record has.
LEMMA NewIsFree ==
  ASSUME Numbered, NEW a \in Ids, Revise(a)
  PROVE  /\ Cardinality(Created) + 1 \in Ids
         /\ state[Cardinality(Created) + 1] = "absent"
         /\ \A b \in Created : b < Cardinality(Created) + 1
<1> DEFINE n == Cardinality(Created)
<1>1. n \in Nat /\ n + 1 <= MaxRevisions /\ Created = 1..n
  BY NextIsFree, OrchestratorAssumption DEF Revise
<1> HIDE DEF n
<1>2. n + 1 \in Ids /\ n + 1 \notin Created /\ \A b \in Created : b < n + 1
  BY <1>1, OrchestratorAssumption DEF Ids
<1>3. QED
  BY <1>2 DEF n, Created

\* Only the user's revisions replace anything.
LEMMA ReplacesOnlyByRevise ==
  ASSUME [Next]_vars, ~(\E a \in Ids : Revise(a))
  PROVE  UNCHANGED supersedes
<1> USE DEF records, unchangedByChildren, unchangedByScheduler
<1>1. CASE SchedulerStep
  BY <1>1 DEF SchedulerStep, Drain, RevokeDependent, KeepWaiting, LackFunds, Skip,
    Admit, Abandon, Scanned, StartProvisioned, StartRefused
<1>2. CASE GitAnswers
  BY <1>2 DEF GitAnswers, ReadHead, StateRead, Provisioned, NotProvisioned,
    ProvisionUnknown, ProvisionRaises, Recovered, ProcessEnds
<1>3. CASE CoordinatorStep
  BY <1>3 DEF CoordinatorStep, Delegate, Delegated, Await, Deliver, Integrate,
    NotIntegrated, Execute, Pick, Executed, Applied, Validate, EndTurn
<1>4. CASE UserStep
  BY <1>4 DEF UserStep, CancelRoot, ReconciledIntegration, Applied, Resume, CancelChild,
    ReconciledPresent, ReconciledAbsent, ResumeStarts, ResumeEnds
<1>5. CASE \E a \in Ids : ChildStep(a)
  BY <1>5 DEF ChildStep, SubmitResult, EndChildTurn
<1>6. CASE Restart
  BY <1>6 DEF Restart, Recovered, ProcessEnds
<1>7. CASE HalfStep
  BY <1>7 DEF HalfStep, StopsInFinish, StopsInCancelChild, StopsInCancelRoot,
    ProcessEnds
<1>8. CASE UNCHANGED vars
  BY <1>8 DEF vars
<1>9. QED
  BY <1>1, <1>2, <1>3, <1>4, <1>5, <1>6, <1>7, <1>8 DEF Next

\* A record that appears was delegated, or is a revision.
LEMMA AppearsByDelegate ==
  ASSUME IInv, [Next]_vars, NEW a \in Ids, a \notin Created, a \in Created',
         ~(\E b \in Ids : Revise(b))
  PROVE  \E n \in 1..(MaxRevisions - Cardinality(Created)) :
           /\ Delegate((Cardinality(Created) + 1)..(Cardinality(Created) + n))
           /\ a \in (Cardinality(Created) + 1)..(Cardinality(Created) + n)
<1> USE DEF IInv, TypeOK, records
<1>0. state[a] = "absent" /\ state'[a] # "absent"
  BY DEF Created
<1>1. state' # state
  BY <1>0
<1>2. ASSUME NEW b \in Ids, NEW outcome, FinishChild(b, outcome) PROVE FALSE
  BY <1>0, <1>2 DEF FinishChild
<1>3. CASE SchedulerStep
  <2>1. ASSUME RevokeDependent \/ Admit PROVE FALSE
    <3> DEFINE o == Oldest
    <3>1. state[o] # "absent" /\ \A b \in Ids \ {o} : state'[b] = state[b]
      BY <2>1 DEF RevokeDependent, Admit
    <3> HIDE DEF o
    <3>2. QED
      BY <1>0, <3>1
  <2>2. ASSUME StartRefused PROVE FALSE
    BY <1>2, <2>2 DEF StartRefused, InHand, Child
  <2>3. QED
    BY <1>1, <1>3, <2>1, <2>2 DEF SchedulerStep, Drain, KeepWaiting, LackFunds, Skip,
      Abandon, Scanned, StartProvisioned
<1>4. CASE GitAnswers
  <2>1. ASSUME NotProvisioned PROVE FALSE
    BY <1>2, <2>1 DEF NotProvisioned, InHand, Child
  <2>2. QED
    BY <1>1, <1>4, <2>1 DEF GitAnswers, ReadHead, StateRead, Provisioned,
      ProvisionUnknown, ProvisionRaises, Recovered
<1>5. ASSUME Applied, integration.state # "none" PROVE FALSE
  <2>1. state[integration.of] = "result-submitted"
    BY <1>5 DEF InHand
  <2>2. QED
    BY <1>0, <1>1, <1>5, <2>1 DEF Applied
<1>6. CASE CoordinatorStep
  <2>1. ASSUME Executed PROVE FALSE
    BY <1>5, <2>1 DEF Executed
  <2>2. ASSUME NEW n \in 1..(MaxRevisions - Cardinality(Created)),
               Delegate((Cardinality(Created) + 1)..(Cardinality(Created) + n))
        PROVE a \in (Cardinality(Created) + 1)..(Cardinality(Created) + n)
    <3> DEFINE new == (Cardinality(Created) + 1)..(Cardinality(Created) + n)
    <3>1. state' = [b \in Ids |-> IF b \in new THEN "proposed" ELSE state[b]]
      BY <2>2 DEF Delegate
    <3> HIDE DEF new
    <3>2. a \in new
      BY <1>0, <3>1
    <3>3. QED
      BY <3>2 DEF new
  <2>3. ASSUME \/ Delegated \/ \E ids \in (SUBSET Created) \ {{}} : Await(ids)
               \/ Deliver \/ \E b \in Ids : Integrate(b)
               \/ NotIntegrated \/ Execute \/ Pick
               \/ \E passed \in BOOLEAN : Validate(passed)
               \/ EndTurn
        PROVE FALSE
    BY <1>1, <2>3 DEF Delegated, Await, Deliver, Integrate, NotIntegrated, Execute,
      Pick, Validate, EndTurn
  <2>4. QED
    BY <1>6, <2>1, <2>2, <2>3 DEF CoordinatorStep
<1>7. CASE UserStep
  <2>1. ASSUME CancelRoot PROVE FALSE
    BY <1>0, <2>1 DEF CancelRoot, Proposed
  <2>2. ASSUME NEW b \in Ids, CancelChild(b) PROVE FALSE
    BY <1>1, <1>2, <2>2 DEF CancelChild
  <2>3. QED
    BY <1>1, <1>2, <1>5, <1>7, <2>1, <2>2 DEF UserStep, ReconciledIntegration, Resume,
      ReconciledPresent, ReconciledAbsent, ResumeStarts, ResumeEnds
<1>8. CASE \E b \in Ids : ChildStep(b)
  BY <1>0, <1>2, <1>8 DEF ChildStep, SubmitResult, EndChildTurn
<1>9. CASE Restart \/ UNCHANGED vars
  BY <1>1, <1>9 DEF Restart, Recovered, vars
<1>10. CASE HalfStep
  BY <1>0, <1>10, HalfStepLeaves DEF Leaves
<1>11. QED
  BY <1>3, <1>4, <1>6, <1>7, <1>8, <1>9, <1>10 DEF Next

----
(* A revision replaces an earlier record.                                  *)
Back == \A a \in Ids : supersedes[a] # 0 =>
          a \in Created /\ supersedes[a] \in Created /\ supersedes[a] < a

\* In particular it came after what it replaces.
LEMMA BackPrecedes == Back => Precedes
BY DEF Back, Precedes, Created

\* So it is in every reachable state.
LEMMA RevisionsPointBack == Spec => [](IInv /\ Back)
<1>1. Init => Back
  BY DEF Init, Back
<1>2. ASSUME IInv, Back, [Next]_vars PROVE Back'
  <2>0. \A a \in Ids : a \in Created => a \in Created'
    BY <1>2, StepMoves DEF Moves, Created
  <2>1. CASE \E a \in Ids : Revise(a)
    <3>1. PICK a \in Ids : Revise(a)
      BY <2>1
    <3> DEFINE new == Cardinality(Created) + 1
    <3>2. /\ new \in Ids /\ \A b \in Created : b < new
          /\ a \in Created /\ supersedes' = [supersedes EXCEPT ![new] = a]
      BY <1>2, <3>1, NewIsFree DEF IInv, Revise, Created
    <3>3. new \in Created'
      <4>1. state'[new] = "proposed"
        <5> DEFINE s == [state EXCEPT ![a] = IF @ = "proposed" THEN "superseded" ELSE @]
        <5>1. state' = [s EXCEPT ![new] = "proposed"]
          BY <3>1 DEF Revise
        <5>2. new \in DOMAIN s
          BY <1>2, <3>2 DEF IInv, TypeOK
        <5> HIDE DEF s, new
        <5>3. QED
          BY <5>1, <5>2
      <4>2. QED
        BY <3>2, <4>1 DEF Created
    <3> HIDE DEF new
    <3>4. QED
      BY <1>2, <2>0, <3>2, <3>3 DEF Back, IInv, TypeOK, Created
  <2>2. CASE UNCHANGED supersedes
    BY <1>2, <2>0, <2>2 DEF Back, Created
  <2>3. QED
    BY <1>2, <2>1, <2>2, ReplacesOnlyByRevise
<1>3. QED
  BY <1>1, <1>2, Invariant, PTL DEF Spec

\* Origins, ancestors and standing revisions can be used in every state.
LEMMA RevisionsTraced == Spec => [](IInv /\ Back /\ Precedes /\ Traced)
<1>1. Back => Precedes /\ Traced
  BY BackPrecedes, Trace
<1>2. QED
  BY <1>1, RevisionsPointBack, PTL

----
(* What lies behind a running assignment is done.                          *)

\* An assignment is over; a revision of it was integrated.
Closed(a) ==
  state[a] \in Failed \union {"integrated"} /\ run[a] \in {"none", "terminal"}
\* It is integrated, itself or in a revision.
Reached(p) == \E b \in Ids : Origin[b] = Origin[p] /\ state[b] = "integrated"

(* What a revision replaces has failed; what failed or was integrated has  *)
(* no run; what an assignment depends on was created.                      *)
Settling ==
  \A a \in Ids :
    /\ supersedes[a] # 0 => state[supersedes[a]] \in Failed
    /\ state[a] \in Failed \union {"integrated"} => run[a] \in {"none", "terminal"}
    /\ a \in Created => Deps(a) \subseteq Created

(* Whatever lies behind an assignment that runs is done.                   *)
BehindIsDone ==
  \A b \in Ids : run[b] # "none" =>
    \A p \in Ancestors[b] : Closed(p) /\ Reached(p)

(* Of two delegated assignments that overlap, the later one depends on the *)
(* earlier or was delegated when that was over.                            *)
OverlapsAreOrdered ==
  \A a, b \in Created :
    a < b /\ supersedes[a] = 0 /\ supersedes[b] = 0 /\ Scope[a] \intersect Scope[b] # {} =>
      Closed(a) \/ a \in Ancestors[b]

\* What is known of every reachable state so far.
Known == IInv /\ Back /\ Precedes /\ Traced

\* Records that exist keep their origin and ancestors, whatever the step.
LEMMA KinKept ==
  ASSUME Known, Known', Settling, [Next]_vars
  PROVE  /\ \A a \in Created : Origin'[a] = Origin[a]
         /\ \A a \in Created : \A p : p \in Ancestors'[a] <=> p \in Ancestors[a]
         /\ \A a \in Created : supersedes'[a] = supersedes[a]
<1>1. \A a \in Created : supersedes'[a] = supersedes[a]
  <2>1. ASSUME NEW b \in Ids, Revise(b) PROVE \A a \in Created : supersedes'[a] = supersedes[a]
    <3> DEFINE new == Cardinality(Created) + 1
    <3>1. new \in Ids /\ new \notin Created /\ supersedes' = [supersedes EXCEPT ![new] = b]
      BY <2>1, NewIsFree DEF Known, IInv, Revise, Created
    <3> HIDE DEF new
    <3>2. QED
      BY <3>1 DEF Known, IInv, TypeOK, Created
  <2>2. QED
    BY <2>1, ReplacesOnlyByRevise
<1>2. Created \in SUBSET Ids /\ Traced /\ Traced' /\ Precedes
  BY DEF Created, Known
<1>3. \A a \in Created : supersedes[a] # 0 => supersedes[a] \in Created
  BY <1>2 DEF Known, Back
<1>4. \A a \in Created : Origin'[a] = Origin[a]
  BY <1>1, <1>2, <1>3, OriginKept
<1>5. \A a \in Created : Deps(a) \subseteq Created
  BY <1>2 DEF Settling
<1>6. \A a \in Created : \A p : p \in Ancestors'[a] <=> p \in Ancestors[a]
  BY <1>2, <1>4, <1>5, AncestorsKept
<1>7. QED
  BY <1>1, <1>4, <1>6

\* No record does unless the user revises.
LEMMA KinStays ==
  ASSUME Known, Known', UNCHANGED supersedes
  PROVE  /\ \A a \in Ids : Origin'[a] = Origin[a]
         /\ \A a \in Ids : \A p : p \in Ancestors'[a] <=> p \in Ancestors[a]
<1>1. Ids \in SUBSET Ids /\ Traced /\ Traced' /\ Precedes
  BY DEF Known
<1>2. \A a \in Ids : supersedes[a] # 0 => supersedes[a] \in Ids
  BY <1>1 DEF Precedes
<1>3. \A a \in Ids : Origin'[a] = Origin[a]
  BY <1>1, <1>2, OriginKept
<1>4. \A a \in Ids : Deps(a) \subseteq Ids
  BY <1>1 DEF Traced
<1>5. QED
  BY <1>1, <1>3, <1>4, AncestorsKept

\* What is over stays over.
LEMMA ClosedKept ==
  ASSUME Known, Known', Settling, [Next]_vars, NEW a \in Ids, Closed(a)
  PROVE  Closed(a)'
BY StepMoves DEF Known, Moves, Closed, Failed

\* What was integrated in one of its revisions stays so.
LEMMA ReachedKept ==
  ASSUME Known, Known', Settling, [Next]_vars, NEW p \in Created, Reached(p)
  PROVE  Reached(p)'
<1>1. PICK b \in Ids : Origin[b] = Origin[p] /\ state[b] = "integrated"
  BY DEF Reached
<1>2. b \in Created /\ state'[b] = "integrated"
  BY <1>1, StepMoves DEF Known, Moves, Created
<1>3. Origin'[b] = Origin'[p]
  BY <1>1, <1>2, KinKept
<1>4. QED
  BY <1>2, <1>3 DEF Reached

\* A revision as the user makes it.
LEMMA Revised ==
  ASSUME Known, Known', Settling, [Next]_vars, NEW a \in Ids, Revise(a)
  PROVE  \E new \in Ids :
           /\ new \notin Created /\ a \in Created
           /\ state'[a] \in Failed /\ supersedes'[new] = a
           /\ \A b \in Ids \ {new} : supersedes'[b] = supersedes[b]
           /\ Created' = Created \union {new}
<1> DEFINE new == Cardinality(Created) + 1
<1>1. new \in Ids /\ new \notin Created /\ \A b \in Created : b < new
  BY NewIsFree DEF Known, IInv, Created
<1>2. /\ state[a] \in {"proposed", "failed", "cancelled", "revoked"}
      /\ state' = [state EXCEPT
           ![a] = IF @ = "proposed" THEN "superseded" ELSE @, ![new] = "proposed"]
      /\ supersedes' = [supersedes EXCEPT ![new] = a]
  BY DEF Revise
<1> HIDE DEF new
<1>3. a \in Created /\ a # new
  BY <1>1, <1>2 DEF Created
<1>4. state'[a] \in Failed /\ state'[new] = "proposed" /\ supersedes'[new] = a
  BY <1>1, <1>2, <1>3 DEF Known, IInv, TypeOK, Failed
<1>5. \A b \in Ids \ {new} : supersedes'[b] = supersedes[b]
  BY <1>1, <1>2 DEF Known, IInv, TypeOK
<1>6. \A b \in Ids \ {new} : state'[b] = "absent" <=> state[b] = "absent"
  BY <1>1, <1>2, <1>3 DEF Known, IInv, TypeOK
<1>7. Created' = Created \union {new}
  BY <1>1, <1>4, <1>6 DEF Created
<1>8. QED
  BY <1>1, <1>3, <1>4, <1>5, <1>7

\* One step per part: what replaces, what is over, what exists.
LEMMA SettlingKept ==
  ASSUME Known, Known', Settling, [Next]_vars
  PROVE  Settling'
<1> SUFFICES ASSUME NEW a \in Ids
             PROVE  /\ supersedes'[a] # 0 => state'[supersedes'[a]] \in Failed
                    /\ state'[a] \in Failed \union {"integrated"} =>
                         run'[a] \in {"none", "terminal"}
                    /\ a \in Created' => Deps(a)' \subseteq Created'
  BY DEF Settling
<1>0. Created \subseteq Created' /\ \A b \in Ids : state[b] \in Failed => state'[b] \in Failed
  BY StepMoves DEF Known, Moves, Created
<1>1. supersedes'[a] # 0 => state'[supersedes'[a]] \in Failed
  <2>1. CASE supersedes'[a] = supersedes[a]
    BY <1>0, <2>1 DEF Settling, Known, Precedes
  <2>2. ASSUME NEW b \in Ids, Revise(b), supersedes'[a] # supersedes[a]
        PROVE  state'[supersedes'[a]] \in Failed
    BY <2>2, Revised
  <2>3. QED
    BY <2>1, <2>2, ReplacesOnlyByRevise
<1>2. state'[a] \in Failed \union {"integrated"} => run'[a] \in {"none", "terminal"}
  <2> SUFFICES ASSUME state'[a] \in Failed \union {"integrated"}
               PROVE  run'[a] \in {"none", "terminal"}
    OBVIOUS
  <2>1. Moves
    BY StepMoves DEF Known
  <2>2. CASE state'[a] = state[a]
    <3>1. run[a] \in {"none", "terminal"}
      BY <2>2 DEF Settling
    <3>2. run[a] = "none" /\ run'[a] # "none" => state'[a] = "admitted"
      BY <2>1 DEF Moves
    <3>3. state'[a] # "admitted"
      BY DEF Failed
    <3>4. run[a] = "terminal" => run'[a] = "terminal"
      BY <2>1 DEF Moves
    <3>5. QED
      BY <3>1, <3>2, <3>3, <3>4
  <2>3. CASE state'[a] # state[a]
    BY <2>1, <2>3 DEF Moves
  <2>4. QED
    BY <2>2, <2>3
<1>3. a \in Created' => Deps(a)' \subseteq Created'
  <2> SUFFICES ASSUME a \in Created' PROVE Deps(a)' \subseteq Created'
    OBVIOUS
  <2>1. CASE a \in Created
    BY <1>0, <2>1, KinKept DEF Deps, Settling
  <2>2. ASSUME a \notin Created, NEW b \in Ids, Revise(b) PROVE Deps(a)' \subseteq Created'
    <3>1. supersedes'[a] = b /\ b \in Created
      BY <2>2, Revised
    <3>2. b # 0 /\ Origin'[a] = Origin'[b]
      BY <3>1, OrchestratorAssumption, SMTT(30) DEF Known, Traced, Ids
    <3>3. Origin'[b] = Origin[b] /\ Deps(b) \subseteq Created
      BY <3>1, KinKept DEF Settling
    <3>4. QED
      BY <1>0, <3>2, <3>3 DEF Deps
  <2>3. ASSUME a \notin Created, ~(\E b \in Ids : Revise(b)) PROVE Deps(a)' \subseteq Created'
    <3>1. PICK n \in 1..(MaxRevisions - Cardinality(Created)) :
            /\ Delegate((Cardinality(Created) + 1)..(Cardinality(Created) + n))
            /\ a \in (Cardinality(Created) + 1)..(Cardinality(Created) + n)
      BY <2>3, AppearsByDelegate DEF Known
    <3> DEFINE new == (Cardinality(Created) + 1)..(Cardinality(Created) + n)
    <3>2. Delegate(new) /\ a \in new
      BY <3>1
    <3> HIDE DEF new
    <3>3. supersedes'[a] = 0
      BY <2>3, ReplacesOnlyByRevise DEF Known, Back
    <3>4. Deps(a)' = Needs[a]
      BY <3>3 DEF Known, Traced, Deps
    <3>5. \A p \in Ids : p \in Needs[a] => p \in new \/ p \in Created
      BY <3>2 DEF Delegate, Created
    <3>6. Needs[a] \subseteq Ids
      BY OrchestratorAssumption
    <3>7. \A p \in Ids : p \in new => p \in Created'
      BY <3>2 DEF Delegate, Created
    <3>8. QED
      BY <1>0, <3>4, <3>5, <3>6, <3>7
  <2>4. QED
    BY <2>1, <2>2, <2>3
<1>4. QED
  BY <1>1, <1>2, <1>3

\* What is behind an assignment was created.
LEMMA AncestorsExist ==
  ASSUME Known, Settling
  PROVE  \A a \in Created : \A p \in Ancestors[a] : p \in Created
<1> DEFINE Good(a) == \A p \in Ancestors[a] : p \in Created
           Bad == {a \in Created : ~Good(a)}
<1>1. ASSUME NEW a \in Bad PROVE \E b \in Bad : b < a
  <2>1. PICK p \in Ancestors[a] : p \notin Created
    OBVIOUS
  <2>2. a \in Created /\ a \in Ids
    BY DEF Created
  <2>3. p \in Deps(a) \/ \E d \in Deps(a) : p \in Ancestors[d]
    BY <2>1, <2>2 DEF Known, Traced
  <2>4. PICK d \in Deps(a) : p \in Ancestors[d]
    BY <2>1, <2>2, <2>3 DEF Settling
  <2>5. d \in Created /\ d < a
    BY <2>2 DEF Settling, Known, Traced
  <2>6. QED
    BY <2>1, <2>4, <2>5
<1>2. Bad = {}
  <2> HIDE DEF Bad
  <2>1. Bad \in SUBSET Ids
    BY DEF Bad, Created
  <2>2. QED
    BY <1>1, <2>1, UpTheRevisions
<1>3. QED
  BY <1>2

\* Only Admit begins a run, and only when all dependencies are integrated;
\* what lies behind them was done when they ran.
LEMMA BehindKept ==
  ASSUME Known, Known', Settling, Settling', BehindIsDone, [Next]_vars
  PROVE  BehindIsDone'
<1> SUFFICES ASSUME NEW b \in Ids, run'[b] # "none", NEW p \in Ancestors'[b]
             PROVE  Closed(p)' /\ Reached(p)'
  BY DEF BehindIsDone
<1>1. \A q \in Ids : Closed(q) /\ Reached(q) /\ q \in Created => Closed(q)' /\ Reached(q)'
  BY ClosedKept, ReachedKept
<1>2. CASE run[b] # "none"
  <2>1. b \in Created
    BY <1>2 DEF Known, IInv, Consistent, Created
  <2>2. p \in Ancestors[b] /\ p \in Created /\ p \in Ids
    BY <2>1, KinKept, AncestorsExist DEF Created
  <2>3. QED
    BY <1>1, <1>2, <2>2 DEF BehindIsDone
<1>3. CASE run[b] = "none"
  <2>1. Admit /\ b = Oldest
    BY <1>3, StepMoves DEF Moves, Known
  <2>2. /\ state[b] = "proposed" /\ ~Hopeless(b) /\ ~Unready(b, sched.target)
    BY <2>1, Zenon DEF Admit, Admissible, Fit
  <2>3. b \in Created
    BY <2>2 DEF Created
  <2>4. p \in Ancestors[b] /\ p \in Created /\ p \in Ids
    BY <2>3, KinKept, AncestorsExist DEF Created
  <2>5. \A d \in Deps(b) : state[Effective[d]] = "integrated"
    <3> SUFFICES ASSUME NEW d \in Deps(b) PROVE state[Effective[d]] = "integrated"
      OBVIOUS
    <3>1. Effective[d] \in Predecessors(b)
      BY DEF Predecessors
    <3>2. QED
      BY <2>2, <3>1 DEF Unready
  <2>6. ASSUME NEW d \in Deps(b)
        PROVE  /\ d \in Ids /\ Closed(d) /\ Reached(d)
               /\ \A q \in Ancestors[d] : Closed(q) /\ Reached(q)
    <3> DEFINE e == Effective[d]
    <3>1. d \in Ids /\ e \in Ids /\ Origin[e] = Origin[d]
      BY DEF Known, Traced
    <3>2. state[e] = "integrated"
      BY <2>5
    <3>3. e = d \/ \E m \in Ids : supersedes[m] = d
      BY <3>1 DEF Known, Traced, Next1
    <3> HIDE DEF e
    <3>4. Closed(d)
      <4>1. CASE e = d
        BY <3>1, <3>2, <4>1 DEF Closed, Settling
      <4>2. ASSUME NEW m \in Ids, supersedes[m] = d PROVE Closed(d)
        BY <3>1, <4>2, OrchestratorAssumption DEF Settling, Closed, Ids
      <4>3. QED
        BY <3>3, <4>1, <4>2
    <3>5. Reached(d)
      BY <3>1, <3>2 DEF Reached
    <3>6. run[e] # "none"
      BY <3>1, <3>2 DEF Known, IInv, Consistent
    <3>7. \A q : q \in Ancestors[d] <=> q \in Ancestors[e]
      BY <3>1 DEF Known, Traced, Deps
    <3>8. QED
      BY <3>1, <3>4, <3>5, <3>6, <3>7 DEF BehindIsDone
  <2>7. p \in Deps(b) \/ \E d \in Deps(b) : p \in Ancestors[d]
    BY <2>4 DEF Known, Traced
  <2>8. Closed(p) /\ Reached(p)
    BY <2>6, <2>7
  <2>9. QED
    BY <1>1, <2>4, <2>8
<1>4. QED
  BY <1>2, <1>3

\* Only Delegate adds delegated assignments, and it compares their scopes.
LEMMA OverlapsKept ==
  ASSUME Known, Known', Settling, Settling', OverlapsAreOrdered, [Next]_vars
  PROVE  OverlapsAreOrdered'
<1> SUFFICES ASSUME NEW a \in Created', NEW b \in Created', a < b,
                    supersedes'[a] = 0, supersedes'[b] = 0,
                    Scope[a] \intersect Scope[b] # {}
             PROVE  Closed(a)' \/ a \in Ancestors'[b]
  BY DEF OverlapsAreOrdered
<1>0. a \in Ids /\ b \in Ids
  BY DEF Created
<1>1. CASE a \in Created /\ b \in Created
  <2>1. supersedes[a] = 0 /\ supersedes[b] = 0
    BY <1>1, KinKept
  <2>2. Closed(a) \/ a \in Ancestors[b]
    BY <1>1, <2>1 DEF OverlapsAreOrdered
  <2>3. QED
    BY <1>0, <1>1, <2>2, ClosedKept, KinKept
<1>2. ASSUME NEW c \in Ids, Revise(c), ~(a \in Created /\ b \in Created) PROVE FALSE
  <2>1. PICK new \in Ids :
           /\ supersedes'[new] = c /\ Created' = Created \union {new}
    BY <1>2, Revised
  <2>2. a = new \/ b = new
    BY <1>2, <2>1
  <2>3. QED
    BY <2>1, <2>2, OrchestratorAssumption DEF Ids
<1>3. ASSUME ~(\E c \in Ids : Revise(c)), ~(a \in Created /\ b \in Created)
      PROVE  Closed(a)' \/ a \in Ancestors'[b]
  <2>0. UNCHANGED supersedes
    BY <1>3, ReplacesOnlyByRevise
  <2>1. \E n \in 1..(MaxRevisions - Cardinality(Created)) :
          /\ Delegate((Cardinality(Created) + 1)..(Cardinality(Created) + n))
          /\ \/ a \in (Cardinality(Created) + 1)..(Cardinality(Created) + n)
             \/ b \in (Cardinality(Created) + 1)..(Cardinality(Created) + n)
    BY <1>0, <1>3, AppearsByDelegate DEF Known
  <2>2. PICK n \in 1..(MaxRevisions - Cardinality(Created)) :
          /\ Delegate((Cardinality(Created) + 1)..(Cardinality(Created) + n))
          /\ \/ a \in (Cardinality(Created) + 1)..(Cardinality(Created) + n)
             \/ b \in (Cardinality(Created) + 1)..(Cardinality(Created) + n)
    BY <2>1
  <2> DEFINE new == (Cardinality(Created) + 1)..(Cardinality(Created) + n)
  <2>3. Delegate(new)
    BY <2>2
  <2>4. /\ state' = [x \in Ids |-> IF x \in new THEN "proposed" ELSE state[x]]
        /\ \A x \in new, y \in new \union {c \in Ids : state[c] \in Open} :
             x # y /\ Overlap(x, y) => Ordered(x, y)
    BY <2>3, Zenon DEF Delegate
  <2>5. b \in new
    <3> DEFINE m == Cardinality(Created)
    <3>1. m \in Nat /\ Created = 1..m /\ n \in Nat
      BY NextIsFree, OrchestratorAssumption DEF Known, IInv
    <3>2. a \in Created' /\ a \notin new => a \in Created
      <4> HIDE DEF new
      <4>1. QED
        BY <2>4 DEF Created
    <3>3. b \in Created' /\ b \notin new => b \in Created
      <4> HIDE DEF new
      <4>1. QED
        BY <2>4 DEF Created
    <3>4. b \in Created => a \in Created
      <4> HIDE DEF m, new
      <4>1. a \in Nat /\ b \in Nat /\ a >= 1
        BY <1>0, OrchestratorAssumption DEF Ids
      <4>2. QED
        BY <3>1, <4>1
    <3> HIDE DEF new
    <3>5. QED
      BY <1>3, <3>3, <3>4
  <2> HIDE DEF new
  <2>6. Overlap(a, b) /\ Overlap(b, a)
    <3>1. Origin[a] = a /\ Origin[b] = b
      BY <1>0, <2>0 DEF Known, Traced
    <3>2. QED
      BY <3>1 DEF Overlap, Writes
  <2>7. a # b /\ ~(b \in Ancestors[a])
    BY <1>0, OrchestratorAssumption DEF Known, Traced, Ids
  <2>8. CASE a \in new \/ state[a] \in Open
    <3>1. a \in new \union {c \in Ids : state[c] \in Open}
      BY <1>0, <2>8
    <3>2. Ordered(b, a)
      BY <2>4, <2>5, <2>6, <2>7, <3>1
    <3>3. a \in Ancestors[b]
      BY <2>7, <3>2 DEF Ordered
    <3>4. QED
      BY <1>0, <2>0, <3>3, KinStays
  <2>9. CASE a \notin new /\ state[a] \notin Open
    <3>1. a \in Created
      BY <1>0, <2>4, <2>9 DEF Created
    <3>2. state[a] \in Failed \union {"integrated"}
      BY <1>0, <2>9, <3>1 DEF Known, IInv, TypeOK, Created
    <3>3. Closed(a)
      BY <1>0, <3>2 DEF Closed, Settling
    <3>4. QED
      BY <1>0, <3>3, ClosedKept
  <2>10. QED
    BY <2>8, <2>9
<1>4. QED
  BY <1>1, <1>2, <1>3

\* The inductive invariant of this part.
OrderInv == Settling /\ BehindIsDone /\ OverlapsAreOrdered

\* It holds in every reachable state.
LEMMA OrderInvariant == Spec => [](Known /\ OrderInv)
<1>1. Init => OrderInv
  BY DEF Init, OrderInv, Settling, BehindIsDone, OverlapsAreOrdered, Created, Failed
<1>2. ASSUME Known, Known', OrderInv, [Next]_vars PROVE OrderInv'
  BY <1>2, SettlingKept, BehindKept, OverlapsKept DEF OrderInv
<1>3. IInv /\ Back /\ Precedes /\ Traced => Known
  BY DEF Known
<1>4. QED
  BY <1>1, <1>2, <1>3, RevisionsTraced, PTL DEF Spec

(* A dependent assignment runs only after all it depends on, directly or   *)
(* not, was integrated in one of its revisions, whatever fails, is revised *)
(* or is cancelled meanwhile (admitOne).                                   *)
THEOREM DependentsFollow == Spec => []DependentsRunAfterIntegration
<1>1. Known /\ OrderInv => DependentsRunAfterIntegration
  BY DEF OrderInv, BehindIsDone, Reached, DependentsRunAfterIntegration
<1>2. QED
  BY <1>1, OrderInvariant, PTL

(* Two delegated assignments whose write scopes overlap never run at the   *)
(* same time: delegate refuses what no dependency orders (delegate).       *)
THEOREM DelegatedAreSerial == Spec => []DelegatedRunSerially
<1>1. ASSUME Known, OrderInv, NEW a \in Active, NEW b \in Active, a < b,
             supersedes[a] = 0, supersedes[b] = 0, Overlap(a, b)
      PROVE  FALSE
  <2>1. /\ a \in Ids /\ b \in Ids /\ run[a] \in Live /\ run[b] \in Live
    BY DEF Active
  <2>2. a \in Created /\ b \in Created
    BY <1>1, <2>1 DEF Known, IInv, Consistent, Live, Waiting, Created
  <2>3. Origin[a] = a /\ Origin[b] = b
    BY <1>1, <2>1 DEF Known, Traced
  <2>4. Scope[a] \intersect Scope[b] # {}
    BY <1>1, <2>3 DEF Overlap, Writes
  <2>5. ~Closed(a)
    BY <2>1 DEF Closed, Live, Waiting
  <2>6. a \in Ancestors[b]
    BY <1>1, <2>2, <2>4, <2>5 DEF OrderInv, OverlapsAreOrdered
  <2>7. run[b] # "none"
    BY <2>1 DEF Live, Waiting
  <2>8. QED
    BY <1>1, <2>1, <2>5, <2>6, <2>7 DEF OrderInv, BehindIsDone
<1>2. ASSUME Known, OrderInv, NEW a \in Active, NEW b \in Active, a # b,
             supersedes[a] = 0, supersedes[b] = 0
      PROVE  ~Overlap(a, b)
  <2>1. a \in Nat /\ b \in Nat
    BY OrchestratorAssumption DEF Active, Ids
  <2>2. Overlap(a, b) => Overlap(b, a)
    BY DEF Overlap
  <2>3. QED
    BY <1>1, <1>2, <2>1, <2>2
<1>3. Known /\ OrderInv => DelegatedRunSerially
  BY <1>2 DEF DelegatedRunSerially
<1>4. QED
  BY <1>3, OrderInvariant, PTL

----
(* The scheduler stops only when there is nothing to admit.                *)

\* A proposal the scheduler could admit, if it looked.
Could(a) ==
  /\ Fit(a, head)
  /\ Cardinality(Active) < MaxAdmitted /\ Cardinality(Committed) < Funds

\* One that no obstacle keeps it from, as far as it knows.
Missed(a) == Could(a) /\ waits[a] \notin Untold

(* While the coordinator is parked and nobody has called the scheduler     *)
(* again, its snapshot is current: what it has passed over cannot be       *)
(* admitted or met an obstacle, and it will still look at the rest.        *)
Looking ==
  /\ sched.at \in {"read", "scanning"} => sched.target = head
  /\ sched.at \in {"reading", "read", "scanning"} => sched.todo \subseteq Proposed
  /\ sched.at \in {"reading", "read"} => Proposed \subseteq sched.todo
  /\ sched.at = "scanning" => \A a \in Proposed \ sched.todo : ~Missed(a)
  /\ sched.at = "idle" => \A a \in Proposed : ~Missed(a)

\* A parked coordinator can rely on it.
Awake ==
  turn = "parked" => root = "open" /\ (sched.queued \/ Looking)

\* An assignment cannot be admitted because another leaves the race.
LEMMA CouldNot ==
  ASSUME Known, Known',
         UNCHANGED <<supersedes, integration, head, evidence, hold>>, Active' = Active,
         \A b \in Ids : /\ state[b] \in Failed => state'[b] \in Failed
                        /\ state'[b] = "integrated" => state[b] = "integrated",
         NEW a \in Ids, ~Could(a)
  PROVE  ~Could(a)'
<1>1. \A b \in Ids : Effective'[b] = Effective[b] /\ Effective[b] \in Ids
  BY EffectiveKept DEF Known, Traced
<1>2. Deps(a)' = Deps(a)
  BY KinStays DEF Deps
<1>3. \A p \in Deps(a) : p \in Ids
  BY DEF Known, Traced
<1>4. Predecessors(a)' = Predecessors(a) /\ Predecessors(a) \subseteq Ids
  <2>1. \A p \in Deps(a) : Effective'[p] = Effective[p] /\ Effective[p] \in Ids
    BY <1>1, <1>3
  <2>2. Predecessors(a)' = {Effective'[p] : p \in Deps(a)}
    BY <1>2 DEF Predecessors
  <2>3. QED
    BY <2>1, <2>2 DEF Predecessors
<1>5. Hopeless(a) => Hopeless(a)'
  BY <1>4 DEF Hopeless
<1>6. Unready(a, head) => Unready(a, head)'
  BY <1>4 DEF Unready
<1>7. Committed' = Committed
  BY DEF Committed
<1>8. QED
  BY <1>5, <1>6, <1>7 DEF Could, Fit

\* The scheduler looks on if its fields and the assignments stay.

\* What the scheduler knows stays true as long as no assignment changes.
LEMMA CannotStill ==
  ASSUME Known, Known', UNCHANGED <<supersedes, integration, head, evidence, hold>>,
         Active' = Active,
         \A b \in Ids : /\ state[b] \in Failed => state'[b] \in Failed
                        /\ state'[b] = "integrated" => state[b] = "integrated",
         NEW S \in SUBSET Ids, \A a \in S : ~Missed(a) /\ waits'[a] = waits[a]
  PROVE  \A a \in S : ~Missed(a)'
<1> SUFFICES ASSUME NEW a \in S PROVE ~Missed(a)'
  OBVIOUS
<1>1. ~Could(a) => ~Could(a)'
  BY CouldNot
<1>2. QED
  BY <1>1 DEF Missed

\* Nor does what the scheduler holds.
LEMMA LookingKept ==
  ASSUME Known, Known', UNCHANGED <<supersedes, waits, integration, head, evidence, hold, sched>>,
         Active' = Active, Proposed' = Proposed, Looking,
         \A b \in Ids : /\ state[b] \in Failed => state'[b] \in Failed
                        /\ state'[b] = "integrated" => state[b] = "integrated"
  PROVE  Looking'
<1>1. Proposed \in SUBSET Ids /\ Proposed \ sched.todo \in SUBSET Ids
  BY DEF Proposed
<1>2. sched.at = "scanning" => \A a \in Proposed \ sched.todo : ~Missed(a)'
  BY <1>1, CannotStill DEF Looking
<1>3. sched.at = "idle" => \A a \in Proposed : ~Missed(a)'
  BY <1>1, CannotStill DEF Looking
<1>4. QED
  BY <1>2, <1>3 DEF Looking

\* The scheduler's own steps, while the coordinator is parked.
LEMMA DrainLooks ==
  ASSUME Known, Drain PROVE root = "open" => Looking'
<1> SUFFICES ASSUME root = "open" PROVE Looking'
  OBVIOUS
<1> DEFINE admits == Proposed # {} /\ Cardinality(Active) < MaxAdmitted
<1>1. /\ sched'.at = IF admits THEN "reading" ELSE "idle"
      /\ sched'.todo = IF admits THEN Proposed ELSE {}
  BY DEF Drain, Known, IInv, TypeOK
<1>2. Proposed' = Proposed /\ Active' = Active
  BY DEF Drain, Proposed, Active
<1>3. CASE admits
  BY <1>1, <1>2, <1>3 DEF Looking
<1>4. CASE ~admits
  <2>1. \A a \in Proposed : ~Missed(a)'
    BY <1>2, <1>4 DEF Could, Missed
  <2> HIDE DEF admits
  <2>2. QED
    BY <1>1, <1>2, <1>4, <2>1 DEF Looking
<1>5. QED
  BY <1>3, <1>4

\* Reading HEAD brings the snapshot up to date; an empty one is done.
LEMMA ReadLooks ==
  ASSUME Known, Known', Looking, ReadHead \/ StateRead \/ Scanned PROVE Looking'
<1>1. /\ Proposed' = Proposed /\ Active' = Active /\ Proposed \in SUBSET Ids
      /\ UNCHANGED <<state, supersedes, waits, integration, head, evidence, hold>>
  BY DEF ReadHead, StateRead, Scanned, Proposed, Active, records, repository
<1>2. CASE ReadHead
  <2>1. sched.at = "reading" /\ sched'.at = "read" /\ sched'.target = head
          /\ sched'.todo = sched.todo
    BY <1>2 DEF ReadHead, Known, IInv, TypeOK
  <2>2. QED
    BY <1>1, <2>1 DEF Looking
<1>3. CASE StateRead
  <2>1. sched.at = "read" /\ sched'.at = "scanning" /\ sched'.target = sched.target
          /\ sched'.todo = sched.todo
    BY <1>3 DEF StateRead, To, Known, IInv, TypeOK
  <2>2. QED
    BY <1>1, <2>1 DEF Looking
<1>4. CASE Scanned
  <2>1. sched.at = "scanning" /\ sched.todo = {} /\ sched'.at = "idle"
    BY <1>4 DEF Scanned, IdleScheduler
  <2>2. \A a \in Proposed : ~Missed(a)
    BY <2>1 DEF Looking
  <2>3. \A a \in Proposed : ~Missed(a)'
    BY <1>1, <2>2, CannotStill
  <2>4. QED
    BY <1>1, <2>1, <2>3 DEF Looking
<1>5. QED
  BY <1>2, <1>3, <1>4

\* Passing over one more assignment of the snapshot.
LEMMA PassLooks ==
  ASSUME Known, Known', Looking, Scanning, NEW o, o = Oldest,
         UNCHANGED <<supersedes, integration, head, evidence, hold, run>>,
         sched' = [sched EXCEPT !.todo = @ \ {o}],
         \A a \in Ids : a # o => waits'[a] = waits[a],
         \/ state' = state /\ ~Missed(o)'
         \/ state' = [state EXCEPT ![o] = "revoked"] /\ state[o] = "proposed"
  PROVE  Looking'
<1>1. o \in sched.todo /\ o \in Ids
  BY OldestIsLeft DEF Known, IInv
<1>2. /\ sched.at = "scanning" /\ sched'.at = "scanning" /\ sched'.target = sched.target
      /\ sched'.todo = sched.todo \ {o}
  BY DEF Scanning, Known, IInv, TypeOK
<1>3. /\ sched.target = head /\ sched.todo \subseteq Proposed
      /\ \A a \in Proposed \ sched.todo : ~Missed(a)
  BY <1>2 DEF Looking
<1>4. Active' = Active /\ Proposed \in SUBSET Ids
  BY DEF Active, Proposed
<1>5. \A b \in Ids : /\ state[b] \in Failed => state'[b] \in Failed
                     /\ state'[b] = "integrated" => state[b] = "integrated"
  BY DEF Known, IInv, TypeOK, Failed
<1>6. CASE state' = state /\ ~Missed(o)'
  <2>1. Proposed' = Proposed /\ Proposed \ sched.todo \in SUBSET Ids
    BY <1>4, <1>6 DEF Proposed
  <2>2. \A a \in Proposed \ sched.todo : ~Missed(a) /\ waits'[a] = waits[a]
    BY <1>1, <1>3, <1>4
  <2>3. \A a \in Proposed \ sched.todo : ~Missed(a)'
    BY <1>4, <1>5, <2>1, <2>2, CannotStill
  <2>4. \A a \in Proposed \ (sched.todo \ {o}) : ~Missed(a)'
    BY <1>6, <2>3
  <2>5. QED
    BY <1>2, <1>3, <2>1, <2>4 DEF Looking
<1>7. CASE state' = [state EXCEPT ![o] = "revoked"] /\ state[o] = "proposed"
  <2>1. Proposed' = Proposed \ {o} /\ Proposed \ sched.todo \in SUBSET Ids
    BY <1>1, <1>4, <1>7 DEF Proposed, Known, IInv, TypeOK
  <2>2. \A a \in Proposed \ sched.todo : ~Missed(a)'
    <3>1. \A a \in Proposed \ sched.todo : ~Missed(a) /\ waits'[a] = waits[a]
      BY <1>1, <1>3, <1>4
    <3>2. QED
      BY <1>4, <1>5, <2>1, <3>1, CannotStill
  <2>3. QED
    BY <1>2, <1>3, <2>1, <2>2 DEF Looking
<1>8. QED
  BY <1>6, <1>7

\* Every way of passing over an assignment leaves one that cannot be admitted.
LEMMA ScanLooks ==
  ASSUME Known, Known', Looking, RevokeDependent \/ KeepWaiting \/ LackFunds
  PROVE  Looking'
<1>0. PICK o : o = Oldest
  OBVIOUS
<1>1. Scanning /\ o \in sched.todo /\ o \in Ids /\ o = Oldest
  BY <1>0, OldestIsLeft DEF Known, IInv, RevokeDependent, KeepWaiting, LackFunds
<1>2. /\ UNCHANGED <<supersedes, integration, head, evidence, hold, run>>
      /\ sched' = [sched EXCEPT !.todo = @ \ {o}]
      /\ \A a \in Ids : a # o => waits'[a] = waits[a]
  BY <1>0 DEF RevokeDependent, KeepWaiting, LackFunds, Skip, unchangedByScheduler, repository,
         Known, IInv, TypeOK
<1>3. sched.target = head /\ o \in Proposed
  BY <1>1 DEF Scanning, Looking
<1>4. CASE RevokeDependent
  <2>1. state' = [state EXCEPT ![o] = "revoked"] /\ state[o] = "proposed"
    BY <1>0, <1>3, <1>4 DEF RevokeDependent, Proposed
  <2>2. QED
    BY <1>1, <1>2, <2>1, PassLooks
<1>5. CASE KeepWaiting
  <2>1. state' = state
    BY <1>5 DEF KeepWaiting, Skip
  <2>2. ~Missed(o)'
    <3>1. CASE Unready(o, sched.target)
      <4>1. ~Could(o)
        BY <1>3, <3>1 DEF Could, Fit
      <4>2. Active' = Active
        BY <1>2 DEF Active
      <4>3. ~Could(o)'
        BY <1>1, <1>2, <2>1, <4>1, <4>2, CouldNot
      <4>4. QED
        BY <4>3 DEF Missed
    <3>2. CASE ~Unready(o, sched.target)
      <4>1. waits'[o] \in Untold
        BY <1>1, <1>5, <3>2 DEF KeepWaiting, Skip, Untold, Known, IInv, TypeOK
      <4>2. QED
        BY <4>1 DEF Missed
    <3>3. QED
      BY <3>1, <3>2
  <2>3. QED
    BY <1>1, <1>2, <2>1, <2>2, PassLooks
<1>6. CASE LackFunds
  <2>1. state' = state
    BY <1>6 DEF LackFunds, Skip
  <2>2. ~Missed(o)'
    <3>1. Cardinality(Committed) >= Funds
      BY <1>6 DEF LackFunds
    <3>2. Cardinality(Committed) \in Nat
      <4>1. IsFiniteSet(Ids)
        BY FS_Interval, OrchestratorAssumption DEF Ids
      <4>2. IsFiniteSet(Committed)
        BY <4>1, FS_Subset DEF Committed
      <4>3. QED
        BY <4>2, FS_CardinalityType
    <3>3. ~(Cardinality(Committed) < Funds)
      BY <3>1, <3>2, OrchestratorAssumption
    <3>4. Committed' = Committed
      BY <1>2 DEF Committed
    <3>5. QED
      BY <3>3, <3>4 DEF Could, Missed
  <2>3. QED
    BY <1>1, <1>2, <2>1, <2>2, PassLooks
<1>7. QED
  BY <1>4, <1>5, <1>6

\* One step per action: any other step that frees a slot, a hold or a
\* dependency calls the scheduler.
LEMMA AwakeKept ==
  ASSUME Known, Known', Integrating, Awake, [Next]_vars
  PROVE  Awake'
<1> DEFINE Good == turn' = "parked" => root' = "open" /\ (sched'.queued \/ Looking')
<1> SUFFICES Good
  BY DEF Awake
<1> USE DEF records, repository, unchangedByChildren, unchangedByScheduler
<1>0. /\ TypeOK /\ sched \in Schedulers /\ IdleScheduler \in Schedulers
      /\ IdleScheduler.queued = FALSE
      /\ turn = "parked" => root = "open" /\ (sched.queued \/ Looking)
  BY IdleSchedulerType DEF Known, IInv, TypeOK, Schedulers, Awake, IdleScheduler
<1>1. ASSUME turn' # "parked" PROVE Good
  BY <1>1
<1>2. ASSUME NEW s \in Schedulers, Schedule(s), UNCHANGED root,
             turn' = "parked" => turn = "parked"
      PROVE Good
  BY <1>0, <1>2 DEF Schedule, Schedulers
<1>3. ASSUME UNCHANGED <<root, supersedes, waits, integration, head, evidence, hold, sched>>,
             turn' = "parked" => turn = "parked",
             Active' = Active, Proposed' = Proposed,
             \A b \in Ids : /\ state[b] \in Failed => state'[b] \in Failed
                            /\ state'[b] = "integrated" => state[b] = "integrated"
      PROVE  Good
  BY <1>0, <1>3, LookingKept
<1>4. ASSUME NEW a, NEW outcome, FinishChild(a, outcome), UNCHANGED root,
             NEW s \in Schedulers, Schedule(s)
      PROVE  Good
  BY <1>2, <1>4 DEF FinishChild, Notify
<1>5. CASE SchedulerStep
  <2>1. CASE Drain
    BY <1>0, <2>1, DrainLooks DEF Drain
  <2>2. CASE RevokeDependent \/ KeepWaiting \/ LackFunds
    <3>1. /\ UNCHANGED root /\ sched'.queued = sched.queued
          /\ turn' = "parked" => turn = "parked"
      BY <1>0, <2>2 DEF RevokeDependent, KeepWaiting, LackFunds, Skip, Schedulers, Notify
    <3>2. QED
      BY <1>0, <2>2, <3>1, ScanLooks
  <2>3. CASE Admit
    <3>1. UNCHANGED <<root, turn>> /\ sched'.at = "provisioning"
      BY <1>0, <2>3 DEF Admit, Schedulers
    <3>2. QED
      BY <1>0, <3>1 DEF Looking
  <2>4. CASE Abandon
    <3>1. UNCHANGED <<root, turn>> /\ sched'.queued = sched.queued
      BY <1>0, <2>4 DEF Abandon, Schedulers, IdleScheduler
    <3>2. ~Looking
      <4> DEFINE o == Oldest
      <4>1. o \in sched.todo /\ state[o] # "proposed" /\ sched.at = "scanning"
        BY <1>0, <2>4, OldestIsLeft DEF Abandon, Scanning
      <4> HIDE DEF o
      <4>2. QED
        BY <4>1 DEF Looking, Proposed
    <3>3. QED
      BY <1>0, <3>1, <3>2
  <2>5. CASE Scanned
    <3>1. UNCHANGED <<root, turn>> /\ sched'.queued = sched.queued
      BY <1>0, <2>5 DEF Scanned, Schedulers, IdleScheduler
    <3>2. QED
      BY <1>0, <2>5, <3>1, ReadLooks
  <2>6. CASE StartProvisioned
    BY <1>0, <1>2, <2>6 DEF StartProvisioned, Again
  <2>7. CASE StartRefused
    BY <1>0, <1>4, <2>7 DEF StartRefused, Again
  <2>8. QED
    BY <1>5, <2>1, <2>2, <2>3, <2>4, <2>5, <2>6, <2>7 DEF SchedulerStep
<1>6. CASE Recovered
  BY <1>6 DEF Recovered, ProcessEnds
<1>7. CASE GitAnswers
  <2>1. CASE ReadHead \/ StateRead
    <3>1. UNCHANGED <<root, turn>> /\ sched'.queued = sched.queued
      BY <1>0, <2>1 DEF ReadHead, StateRead, To, Schedulers
    <3>2. QED
      BY <1>0, <2>1, <3>1, ReadLooks
  <2>2. CASE Provisioned
    <3>1. UNCHANGED <<root, turn>> /\ sched'.at = "starting"
      BY <1>0, <2>2 DEF Provisioned, To, Schedulers
    <3>2. QED
      BY <1>0, <3>1 DEF Looking
  <2>3. CASE NotProvisioned
    BY <1>0, <1>4, <2>3 DEF NotProvisioned, Again
  <2>4. CASE ProvisionUnknown
    BY <1>0, <1>2, <2>4 DEF ProvisionUnknown, Again, Notify
  <2>5. QED
    BY <1>6, <1>7, <2>1, <2>2, <2>3, <2>4 DEF GitAnswers, ProvisionRaises
<1>8. CASE CoordinatorStep
  <2>1. ASSUME NEW ids, Await(ids) PROVE Good
    BY <1>0, <2>1 DEF Await, MayCall, Schedule, Schedulers
  <2>2. ASSUME NEW new, Delegate(new) PROVE Good
    BY <2>2 DEF Delegate
  <2>3. ASSUME NEW a, Integrate(a) PROVE Good
    BY <2>3 DEF Integrate
  <2>4. ASSUME NEW passed, Validate(passed) PROVE Good
    BY <2>4 DEF Validate, MayCall
  <2>5. CASE Execute \/ Pick
    BY <2>5 DEF Execute, Pick, Integrating
  <2>6. QED
    BY <1>8, <2>1, <2>2, <2>3, <2>4, <2>5
    DEF CoordinatorStep, Delegated, Deliver, NotIntegrated, Executed, EndTurn
<1>9. CASE UserStep
  <2>1. CASE CancelRoot
    BY <2>1 DEF CancelRoot
  <2>2. CASE ReconciledIntegration
    BY <1>0, <1>2, <2>2 DEF ReconciledIntegration, Applied
  <2>3. ASSUME NEW a \in Ids, CancelChild(a) PROVE Good
    <3>1. CASE run[a] = "running"
      <4>1. UNCHANGED <<state, run>>
        BY <2>3, <3>1 DEF CancelChild
      <4>2. Active' = Active /\ Proposed' = Proposed
        BY <4>1 DEF Active, Proposed
      <4>3. UNCHANGED <<root, supersedes, waits, integration, head, evidence, hold, sched, turn>>
        BY <2>3, <3>1 DEF CancelChild
      <4>4. QED
        BY <1>3, <4>1, <4>2, <4>3
    <3>2. CASE run[a] # "running"
      BY <1>0, <1>4, <2>3, <3>2 DEF CancelChild
    <3>3. QED
      BY <3>1, <3>2
  <2>4. ASSUME NEW a \in Ids, ReconciledAbsent(a) \/ ResumeEnds(a) PROVE Good
    BY <1>0, <1>4, <2>4 DEF ReconciledAbsent, ResumeEnds
  <2>5. ASSUME NEW a \in Ids, ReconciledPresent(a) PROVE Good
    <3>1. /\ run[a] \in Live /\ run' = [run EXCEPT ![a] = "running"]
          /\ UNCHANGED <<state, root, supersedes, waits, integration, head, evidence, hold, sched, turn>>
      BY <2>5 DEF ReconciledPresent, Start, MayStart
    <3>2. Active' = Active
      BY <1>0, <3>1 DEF Active, TypeOK, Live
    <3>3. Proposed' = Proposed
      BY <3>1 DEF Proposed
    <3>4. QED
      BY <1>3, <3>1, <3>2, <3>3
  <2>6. ASSUME NEW a \in Ids, ResumeStarts(a) PROVE Good
    BY <2>6 DEF ResumeStarts, Resuming
  <2>7. ASSUME NEW a \in Ids, Revise(a) PROVE Good
    <3>1. Schedule(sched) /\ UNCHANGED root /\ (turn' = "parked" => turn = "parked")
      BY <2>7 DEF Revise, Notify
    <3>2. QED
      BY <1>0, <1>2, <3>1
  <2>8. QED
    BY <1>9, <2>1, <2>2, <2>3, <2>4, <2>5, <2>6, <2>7 DEF UserStep, Resume
<1>10. CASE \E a \in Ids : ChildStep(a)
  <2>1. ASSUME NEW a \in Ids, SubmitResult(a) PROVE Good
    <3>1. /\ state[a] = "admitted" /\ state' = [state EXCEPT ![a] = "result-submitted"]
          /\ UNCHANGED <<run, root, supersedes, waits, integration, head, evidence, hold, sched, turn>>
      BY <2>1 DEF SubmitResult
    <3>2. Active' = Active
      BY <3>1 DEF Active
    <3>3. Proposed' = Proposed
      BY <1>0, <3>1 DEF Proposed, TypeOK
    <3>4. \A b \in Ids : /\ state[b] \in Failed => state'[b] \in Failed
                         /\ state'[b] = "integrated" => state[b] = "integrated"
      BY <1>0, <3>1 DEF TypeOK, Failed
    <3>5. QED
      BY <1>3, <3>1, <3>2, <3>3, <3>4
  <2>2. ASSUME NEW a \in Ids, EndChildTurn(a) PROVE Good
    BY <1>0, <1>4, <2>2 DEF EndChildTurn
  <2>3. QED
    BY <1>10, <2>1, <2>2 DEF ChildStep
<1>11. CASE UNCHANGED vars
  <2>1. Active' = Active /\ Proposed' = Proposed
    BY <1>11 DEF vars, Active, Proposed
  <2>2. QED
    BY <1>3, <1>11, <2>1 DEF vars
<1>12. CASE HalfStep
  BY <1>12, <1>1, HalfStepLeaves DEF Known, IInv, Leaves, ProcessEnds
<1>13. QED
  BY <1>5, <1>6, <1>7, <1>8, <1>9, <1>10, <1>11, <1>12 DEF Next, Restart

(* While the coordinator is parked, the scheduler has not stopped short of *)
(* an assignment that could be admitted, unless it found the worktree      *)
(* unclean or the profile not ready: no freed slot, returned hold or new   *)
(* revision is lost between its reads (schedule, drain, admitOne).         *)
THEOREM SchedulerForgetsNothing == Spec => []NothingAdmissibleIsForgotten
<1>1. Init => Awake
  BY DEF Init, Awake
<1>2. ASSUME Known, Known', Integrating, Awake, [Next]_vars PROVE Awake'
  BY <1>2, AwakeKept
<1>3. Awake => NothingAdmissibleIsForgotten
  BY DEF Awake, Looking, Could, Missed, NothingAdmissibleIsForgotten
<1>4. IInv /\ Back /\ Precedes /\ Traced => Known
  BY DEF Known
<1>5. QED
  BY <1>1, <1>2, <1>3, <1>4, RevisionsTraced, IntegratingKept, PTL DEF Spec
====
