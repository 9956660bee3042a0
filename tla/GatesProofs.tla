---- MODULE GatesProofs ----
(***************************************************************************)
(* Proofs about what stands between an agent and an effect: one-shot       *)
(* approvals, the counters that limit how much runs at once, and the helper*)
(* that runs commands.  For any proposals, tasks, callers and limits.      *)
(***************************************************************************)
EXTENDS MCGates, BudgetLedgerProofs, FiniteSetTheorems, TLAPS

----
(***************************************************************************)
(* One-shot approvals.                                                     *)
(***************************************************************************)

\* A row and the call that waits for it: what the row says of the call, of the
\* user's decision and of the effect.
Started == {"applying", "verifying"}
Waiting(p) == step[p] = "waiting" <=> row[p] = "awaiting-approval"
Absent(p) == step[p] = "none" <=> row[p] = "absent"
Approved(p) ==
  /\ row[p] = "approved" => step[p] \in {"answered", "queued"}
  /\ step[p] = "queued" => row[p] = "approved"
Executing(p) ==
  row[p] = "executing" <=> step[p] \in {"executing"} \union Started
Granted(p) ==
  row[p] \in {"approved", "executing", "complete", "failed", "unknown"} =>
    p \in granted
Untouched(p) ==
  /\ step[p] \notin Started \union {"done"} => effect[p] = "none"
  /\ row[p] \in {"absent", "rejected", "revoked"} \union Undecided =>
       effect[p] = "none"
Checking(p) ==
  /\ p \in Edits /\ checks[p] > 0 => row[p] \in {"unknown", "complete", "failed"}
  /\ row[p] \in {"unknown", "complete", "failed"} => step[p] = "done"

Consistent(p) ==
  /\ Waiting(p) /\ Absent(p) /\ Approved(p) /\ Executing(p)
  /\ Granted(p) /\ Untouched(p) /\ Checking(p)

ApprovalsInv == ApprovalsTypeOK /\ \A p \in Proposals : Consistent(p)

\* The records' definitions, to be expanded in every step below.
LEMMA RowsAtInit == ApprovalsInit => ApprovalsInv
  BY ApprovalsAssumption
  DEF ApprovalsInit, ApprovalsInv, ApprovalsTypeOK, Consistent, Waiting, Absent, Approved, Executing,
      Granted, Untouched, Checking, Started, States, Steps, Contents, Undecided

\* No step of the next-state relation disturbs the types.
LEMMA TypeStep == ApprovalsTypeOK /\ [ApprovalsNext]_approvalVars => ApprovalsTypeOK'
<1> SUFFICES ASSUME ApprovalsTypeOK, [ApprovalsNext]_approvalVars PROVE ApprovalsTypeOK'
  OBVIOUS
<1> USE ApprovalsAssumption DEF ApprovalsTypeOK, States, Steps, Contents, Undecided
<1>1. ASSUME NEW t \in Tasks, StartTurn(t) \/ EndTurn(t) PROVE ApprovalsTypeOK'
  <2>1. CASE StartTurn(t)
    BY <2>1 DEF StartTurn, world
  <2>2. CASE EndTurn(t)
    BY <2>2 DEF EndTurn, world
  <2> QED BY <1>1, <2>1, <2>2
<1>2. ASSUME NEW t \in Tasks, AbortTurn(t) PROVE ApprovalsTypeOK'
  BY <1>2 DEF AbortTurn, world
<1>3. ASSUME NEW p \in Proposals, Propose(p) \/ Revoke(p) PROVE ApprovalsTypeOK'
  BY <1>3 DEF Propose, Revoke, Answer, world
<1>4. ASSUME NEW p \in Proposals, NEW state \in States, CallReturns(p, state)
      PROVE /\ row' \in [Proposals -> States] /\ step' \in [Proposals -> Steps]
            /\ turn' \in [Tasks -> {"idle", "running"}]
            /\ UNCHANGED <<turnAborted, checks, granted, cleared>>
  BY <1>4 DEF CallReturns
<1>5. ASSUME NEW p \in Proposals, Refused(p) \/ TooLate(p) \/ Unstarted(p)
             \/ Lost(p) \/ Verified(p)
      PROVE ApprovalsTypeOK'
  <2>1. PICK state \in States : CallReturns(p, state) /\ UNCHANGED world
    BY <1>5 DEF Refused, TooLate, Unstarted, Lost, Verified
  <2>2. QED
    BY <1>4, <2>1 DEF world
<1>6. ASSUME NEW p \in Proposals, Queue(p) \/ Begin(p) \/ Mutate(p) \/ Written(p)
      PROVE ApprovalsTypeOK'
  BY <1>6 DEF Queue, Begin, Mutate, Written, world
<1>7. ASSUME NEW p \in Proposals, NEW state \in {"complete", "failed"},
             Ended(p, state)
      PROVE ApprovalsTypeOK'
  BY <1>4, <1>7 DEF Ended
<1>8. ASSUME NEW p \in Proposals, NEW approve \in BOOLEAN, Decide(p, approve)
      PROVE ApprovalsTypeOK'
  BY <1>8 DEF Decide, Answer, world
<1>9. ASSUME NEW p \in Edits, CheckOutcome(p) PROVE ApprovalsTypeOK'
  BY <1>9 DEF CheckOutcome, world
<1>10. ASSUME NEW p \in Edits, NEW readable \in BOOLEAN, Checked(p, readable)
       PROVE ApprovalsTypeOK'
  BY <1>10 DEF Checked, Found, world
<1>11. ASSUME NEW p \in Edits, NEW content \in Contents, OtherWrite(p, content)
       PROVE ApprovalsTypeOK'
  BY <1>11 DEF OtherWrite
<1>12. CASE Restart
  BY <1>12 DEF Restart, AfterRestart, world
<1>13. CASE UNCHANGED approvalVars
  BY <1>13 DEF approvalVars, world
<1>14. QED
  BY <1>1, <1>2, <1>3, <1>5, <1>6, <1>7, <1>8, <1>9, <1>10, <1>11, <1>12,
     <1>13 DEF ApprovalsNext, CallStep

\* What a returning call may save, given where it is.
MayReturn(p, state) ==
  \/ step[p] = "answered" /\ state = row[p] /\ row[p] # "approved"
  \/ step[p] \in {"answered", "queued"} /\ row[p] = "approved" /\ state = "revoked"
  \/ step[p] = "executing" /\ state \in {"revoked", "failed"}
  \/ step[p] \in Started /\ state \in {"unknown", "complete", "failed"}

\* A call that returns leaves its row in a state that the effect allows.
LEMMA ReturnStep ==
  ASSUME ApprovalsInv, NEW p \in Proposals, NEW state \in States,
         CallReturns(p, state), MayReturn(p, state), UNCHANGED file,
         \/ UNCHANGED effect
         \/ /\ step[p] = "applying"
            /\ effect' = [effect EXCEPT ![p] = "whole"]
  PROVE  \A q \in Proposals : Consistent(q)'
<1>1. TAKE q \in Proposals
<1>2. CASE q # p
  <2>1. /\ row'[q] = row[q] /\ step'[q] = step[q] /\ effect'[q] = effect[q]
        /\ checks' = checks /\ granted' = granted
    BY <1>2 DEF CallReturns, ApprovalsInv, ApprovalsTypeOK
  <2>2. QED
    BY <2>1 DEF ApprovalsInv, Consistent, Waiting, Absent, Approved, Executing, Granted,
                Untouched, Checking
<1>3. CASE q = p
  <2>1. /\ row'[p] = state /\ step'[p] = "done"
        /\ checks' = checks /\ granted' = granted
    BY DEF CallReturns, ApprovalsInv, ApprovalsTypeOK
  <2>2. effect'[p] = effect[p] \/ step[p] = "applying"
    BY DEF ApprovalsInv, ApprovalsTypeOK
  <2>3. QED
    BY <1>3, <2>1, <2>2
    DEF MayReturn, ApprovalsInv, ApprovalsTypeOK, Consistent, Waiting, Absent, Approved, Executing,
        Granted, Untouched, Checking, Started, Undecided, States, Steps
<1>4. QED
  BY <1>2, <1>3

\* One step per action: the rows and their calls stay in step.
LEMMA ConsistentStep ==
  ASSUME ApprovalsInv, [ApprovalsNext]_approvalVars
  PROVE  \A q \in Proposals : Consistent(q)'
<1> USE ApprovalsAssumption
<1> USE DEF ApprovalsInv, ApprovalsTypeOK, Consistent, Waiting, Absent, Approved, Executing,
            Granted, Untouched, Checking, Started, Undecided
<1>1. ASSUME NEW t \in Tasks, StartTurn(t) \/ EndTurn(t)
      PROVE \A q \in Proposals : Consistent(q)'
  <2>1. CASE StartTurn(t)
    BY <2>1 DEF StartTurn, world
  <2>2. CASE EndTurn(t)
    BY <2>2 DEF EndTurn, world
  <2> QED BY <1>1, <2>1, <2>2
<1>2. ASSUME NEW t \in Tasks, AbortTurn(t)
      PROVE \A q \in Proposals : Consistent(q)'
  BY <1>2 DEF AbortTurn, world
<1>3. ASSUME NEW p \in Proposals, Propose(p)
      PROVE \A q \in Proposals : Consistent(q)'
  BY <1>3 DEF Propose, world
<1>4. ASSUME NEW p \in Proposals, Revoke(p)
      PROVE \A q \in Proposals : Consistent(q)'
  BY <1>4 DEF Revoke, Answer, world
<1>5. ASSUME NEW p \in Proposals, Refused(p) \/ TooLate(p) \/ Unstarted(p)
             \/ Lost(p) \/ Verified(p)
      PROVE \A q \in Proposals : Consistent(q)'
  <2>1. PICK state \in States :
          CallReturns(p, state) /\ MayReturn(p, state) /\ UNCHANGED world
    BY <1>5 DEF Refused, TooLate, Unstarted, Lost, Verified, MayReturn, States
  <2>2. QED
    BY <2>1, ReturnStep DEF world
<1>6. ASSUME NEW p \in Proposals, Queue(p) \/ Begin(p)
      PROVE \A q \in Proposals : Consistent(q)'
  BY <1>6 DEF Queue, Begin, world
<1>7. ASSUME NEW p \in Proposals, Mutate(p) \/ Written(p)
      PROVE \A q \in Proposals : Consistent(q)'
  BY <1>7 DEF Mutate, Written
<1>8. ASSUME NEW p \in Proposals, NEW state \in {"complete", "failed"},
             Ended(p, state)
      PROVE \A q \in Proposals : Consistent(q)'
  <2>1. state \in States /\ MayReturn(p, state)
    BY <1>8 DEF Ended, MayReturn, States
  <2>2. QED
    BY <1>8, <2>1, ReturnStep DEF Ended
<1>9. ASSUME NEW p \in Proposals, NEW approve \in BOOLEAN, Decide(p, approve)
      PROVE \A q \in Proposals : Consistent(q)'
  BY <1>9 DEF Decide, Answer, world
<1>10. ASSUME NEW p \in Edits, CheckOutcome(p)
       PROVE \A q \in Proposals : Consistent(q)'
  BY <1>10 DEF CheckOutcome, world
<1>11. ASSUME NEW p \in Edits, NEW readable \in BOOLEAN, Checked(p, readable)
       PROVE \A q \in Proposals : Consistent(q)'
  BY <1>11 DEF Checked, Found, world
<1>12. ASSUME NEW p \in Edits, NEW content \in Contents, OtherWrite(p, content)
       PROVE \A q \in Proposals : Consistent(q)'
  BY <1>12 DEF OtherWrite
<1>13. CASE Restart
  BY <1>13 DEF Restart, AfterRestart, world
<1>14. CASE UNCHANGED approvalVars
  BY <1>14 DEF approvalVars, world
<1>15. QED
  BY <1>1, <1>2, <1>3, <1>4, <1>5, <1>6, <1>7, <1>8, <1>9, <1>10, <1>11,
     <1>12, <1>13, <1>14 DEF ApprovalsNext, CallStep

\* They are in every reachable state.
LEMMA ApprovalsInvariant == ApprovalsSpec => []ApprovalsInv
<1>1. ApprovalsInv /\ [ApprovalsNext]_approvalVars => ApprovalsInv'
  BY TypeStep, ConsistentStep DEF ApprovalsInv
<1>2. QED
  BY RowsAtInit, <1>1, PTL DEF ApprovalsSpec

(* Types: saved states, call steps and signals stay in their ranges.       *)
THEOREM ApprovalsTypeCorrect == ApprovalsSpec => []ApprovalsTypeOK
<1>1. ApprovalsInv => ApprovalsTypeOK
  BY DEF ApprovalsInv
<1>2. QED
  BY <1>1, ApprovalsInvariant, PTL

(* tool-runtime.ts: nothing touches the world without the user's approval, *)
(* and what did is never recorded as open, rejected or revoked.            *)
THEOREM EffectsAreGrantedAndRecorded == ApprovalsSpec => []EffectIsGrantedAndRecorded
<1>1. ApprovalsInv => EffectIsGrantedAndRecorded
  BY DEF ApprovalsInv, ApprovalsTypeOK, Consistent, Granted, Untouched, Undecided, States,
         EffectIsGrantedAndRecorded
<1>2. QED
  BY <1>1, ApprovalsInvariant, PTL

(* No restart, late answer or check runs an approval a second time.        *)
THEOREM ApprovalsExecuteOnce == ApprovalsSpec => ExecutedOnce
<1> DEFINE Once(p) ==
      /\ row'[p] = "executing" /\ row[p] # "executing" =>
           row[p] = "approved" /\ effect[p] = "none"
      /\ row[p] \notin Undecided \union {"absent"} =>
           row'[p] \notin Undecided \union {"absent"}
<1>1. ASSUME ApprovalsInv, [ApprovalsNext]_approvalVars, NEW q \in Proposals PROVE Once(q)
  <2> USE ApprovalsAssumption DEF ApprovalsInv, ApprovalsTypeOK, Consistent, Waiting, Absent,
          Approved, Executing, Granted, Untouched, Checking, Started, Undecided
  <2>1. ASSUME NEW t \in Tasks, StartTurn(t) \/ EndTurn(t) \/ AbortTurn(t)
        PROVE Once(q)
    BY <2>1 DEF StartTurn, EndTurn, AbortTurn
  <2>2. ASSUME NEW p \in Proposals, Propose(p) \/ Revoke(p) PROVE Once(q)
    BY <1>1, <2>2 DEF Propose, Revoke, Answer
  <2>3. ASSUME NEW p \in Proposals, NEW approve \in BOOLEAN, Decide(p, approve)
        PROVE Once(q)
    BY <2>3 DEF Decide, Answer
  <2>4. ASSUME NEW p \in Proposals, CallStep(p) PROVE Once(q)
    BY <1>1, <2>4 DEF CallStep, Refused, Queue, TooLate, Begin, Unstarted, Mutate, Lost,
                Written, Verified, Ended, CallReturns
  <2>5. ASSUME NEW p \in Edits, CheckOutcome(p) PROVE Once(q)
    BY <2>5 DEF CheckOutcome
  <2>6. ASSUME NEW p \in Edits, NEW readable \in BOOLEAN, Checked(p, readable)
        PROVE Once(q)
    BY <2>6 DEF Checked, Found
  <2>7. ASSUME NEW p \in Edits, NEW content \in Contents, OtherWrite(p, content)
        PROVE Once(q)
    BY <2>7 DEF OtherWrite
  <2>8. CASE Restart
    BY <2>8 DEF Restart, AfterRestart
  <2>9. CASE UNCHANGED approvalVars
    BY <2>9 DEF approvalVars
  <2>10. QED
    BY <1>1, <2>1, <2>2, <2>3, <2>4, <2>5, <2>6, <2>7, <2>8, <2>9 DEF ApprovalsNext
<1>2. ApprovalsInv /\ [ApprovalsNext]_approvalVars => [\A p \in Proposals : Once(p)]_approvalVars
  BY <1>1
<1>3. QED
  BY <1>2, ApprovalsInvariant, PTL DEF ApprovalsSpec, ExecutedOnce

----
(* The blocking of a task.  It rests on there being one call at a time in  *)
(* a task; a check that is under way is of an outcome that is unknown, or  *)
(* that another check cleared meanwhile.                                   *)

Active(p) == step[p] \notin {"none", "done"}
\* A task has one call at a time, during a turn; an unknown outcome ends the turn,
\* and no other begins before a check clears it.
OneCall ==
  \A p, q \in Proposals :
    Active(p) /\ Active(q) /\ TaskOf[p] = TaskOf[q] => p = q
CallsHaveATurn ==
  \A p \in Proposals : Active(p) => turn[TaskOf[p]] = "running"
UnknownHasNoTurn ==
  \A p \in Proposals : row[p] = "unknown" /\ p \notin cleared => turn[TaskOf[p]] = "idle"
ChecksAreOpen ==
  \A p \in Edits : checks[p] > 0 => row[p] = "unknown" \/ p \in cleared
\* The inductive invariant of the blocking.
BlockInv ==
  ApprovalsTypeOK /\ OneCall /\ CallsHaveATurn /\ UnknownHasNoTurn /\ ChecksAreOpen

\* Every step keeps it, however many checks are under way.
LEMMA BlockStep ==
  ASSUME BlockInv, ApprovalsInv, [ApprovalsNext]_approvalVars
  PROVE  BlockInv'
<1> USE ApprovalsAssumption
<1> USE DEF BlockInv, OneCall, CallsHaveATurn, UnknownHasNoTurn, ChecksAreOpen,
            Active
<1>0. ApprovalsTypeOK'
  BY TypeStep
<1> USE <1>0 DEF ApprovalsTypeOK
<1>1. ASSUME NEW t \in Tasks, StartTurn(t) PROVE BlockInv'
  BY <1>1 DEF StartTurn, Blocked, Of
<1>2. ASSUME NEW t \in Tasks, EndTurn(t) PROVE BlockInv'
  BY <1>2 DEF EndTurn, Idle, Of
<1>3. ASSUME NEW t \in Tasks, AbortTurn(t) PROVE BlockInv'
  BY <1>3 DEF AbortTurn, Of
<1>4. ASSUME NEW p \in Proposals, Propose(p) PROVE BlockInv'
  BY <1>4 DEF Propose, Idle, Of
<1>5. ASSUME NEW p \in Proposals, Revoke(p) PROVE BlockInv'
  BY <1>5 DEF Revoke, Answer
<1>6. ASSUME NEW p \in Proposals, NEW approve \in BOOLEAN, Decide(p, approve)
      PROVE BlockInv'
  BY <1>6 DEF Decide, Answer
<1>7. ASSUME NEW p \in Proposals, CallStep(p) PROVE BlockInv'
  <2>1. CASE Queue(p) \/ Begin(p) \/ Mutate(p) \/ Written(p)
    BY <2>1 DEF Queue, Begin, Mutate, Written
  <2>2. CASE \/ Refused(p) \/ TooLate(p) \/ Unstarted(p) \/ Lost(p) \/ Verified(p)
             \/ \E state \in {"complete", "failed"} : Ended(p, state)
    <3>1. PICK state \in States : CallReturns(p, state) /\ MayReturn(p, state)
      <4>1. CASE Refused(p) \/ TooLate(p) \/ Unstarted(p) \/ Lost(p) \/ Verified(p)
        BY <4>1 DEF Refused, TooLate, Unstarted, Lost, Verified, MayReturn, Started, States
      <4>2. CASE \E state \in {"complete", "failed"} : Ended(p, state)
        BY <4>2 DEF Ended, MayReturn, Started, States
      <4>3. QED
        BY <2>2, <4>1, <4>2
    <3>2. Active(p) /\ row[p] # "unknown"
      BY <3>1 DEF MayReturn, Started, ApprovalsInv, Consistent, Checking
    <3>3. /\ \A q \in Proposals \ {p} : row'[q] = row[q] /\ step'[q] = step[q]
          /\ step'[p] = "done" /\ checks' = checks /\ cleared' = cleared
      BY <3>1 DEF CallReturns
    <3>4. \A q \in Proposals : TaskOf[q] # TaskOf[p] => turn'[TaskOf[q]] = turn[TaskOf[q]]
      BY <3>1 DEF CallReturns
    <3>5. UnknownHasNoTurn'
      <4>1. TAKE q \in Proposals
      <4>2. CASE TaskOf[q] = TaskOf[p]
        BY <3>1, <4>2 DEF CallReturns, Of
      <4>3. CASE TaskOf[q] # TaskOf[p]
        BY <3>3, <3>4, <4>3
      <4>4. QED
        BY <4>2, <4>3
    <3>6. OneCall' /\ CallsHaveATurn'
      BY <3>2, <3>3, <3>4
    <3>7. ChecksAreOpen'
      BY <3>2, <3>3
    <3>8. QED
      BY <3>5, <3>6, <3>7
  <2>3. QED
    BY <1>7, <2>1, <2>2 DEF CallStep
<1>8. ASSUME NEW p \in Edits, CheckOutcome(p) PROVE BlockInv'
  BY <1>8 DEF CheckOutcome
<1>9. ASSUME NEW p \in Edits, NEW readable \in BOOLEAN, Checked(p, readable)
      PROVE BlockInv'
  BY <1>9 DEF Checked, Found
<1>10. ASSUME NEW p \in Edits, NEW content \in Contents, OtherWrite(p, content)
       PROVE BlockInv'
  BY <1>10 DEF OtherWrite
<1>11. CASE Restart
  BY <1>11 DEF Restart, AfterRestart
<1>12. CASE UNCHANGED approvalVars
  BY <1>12 DEF approvalVars
<1>13. QED
  BY <1>1, <1>2, <1>3, <1>4, <1>5, <1>6, <1>7, <1>8, <1>9, <1>10, <1>11, <1>12
  DEF ApprovalsNext

(* agent-loop.ts: while an outcome is unknown that no check has cleared,   *)
(* its task has no turn and no call under way, however many checks of it   *)
(* are under way at a time (tool-runtime.ts does not serialise them).      *)
THEOREM UnknownOutcomesBlock == ApprovalsSpec => []UnknownBlocksTheTask
<1>1. ApprovalsInit => BlockInv
  BY RowsAtInit DEF ApprovalsInit, ApprovalsInv, BlockInv, OneCall, CallsHaveATurn,
     UnknownHasNoTurn, ChecksAreOpen, Active
<1>2. ApprovalsInv /\ BlockInv /\ [ApprovalsNext]_approvalVars => BlockInv'
  BY BlockStep
<1>3. BlockInv => UnknownBlocksTheTask
  BY ApprovalsAssumption DEF BlockInv, CallsHaveATurn, UnknownHasNoTurn, Active,
     UnknownHasNoTurn, ApprovalsTypeOK, UnknownBlocksTheTask, Idle, Of
<1>4. QED
  BY <1>1, <1>2, <1>3, ApprovalsInvariant, PTL DEF ApprovalsSpec

----
(***************************************************************************)
(* Execution slots: the two counters count, at most Limit callers are inside,*)
(* at most KeyLimit with one key, and none sleeps while it has room.       *)
(***************************************************************************)

(* The counters are what they stand for, which is what the guard reads.    *)
CountersCount ==
  /\ active = Cardinality(Holders)
  /\ \A k \in Keys : perKey[k] = Cardinality(HoldersOf(k))

\* The limits of config.ts.
CountersBounded ==
  /\ active <= Limit
  /\ \A k \in Keys : perKey[k] <= KeyLimit

\* The inductive invariant of the slots.
SlotsInv == SlotsTypeOK /\ CountersCount /\ CountersBounded

\* The holders can be counted.
LEMMA HoldersFinite ==
  /\ IsFiniteSet(Holders) /\ Cardinality(Holders) \in Nat
  /\ \A k \in Keys : IsFiniteSet(HoldersOf(k))
<1>1. Holders \subseteq Callers /\ \A k \in Keys : HoldersOf(k) \subseteq Callers
  BY DEF Holders, HoldersOf
<1> QED BY <1>1, SlotsAssumption, FS_Subset, FS_CardinalityType

(* A caller that is let in is counted once, under its own key.             *)
LEMMA TakeCounts ==
  ASSUME SlotsInv, NEW c \in Callers, pc[c] # "holding", NEW signal \in BOOLEAN,
         Take(c, signal), aborted' \in [Callers -> BOOLEAN],
         calls' \in [Callers -> Nat]
  PROVE  SlotsInv'
<1> USE SlotsAssumption DEF SlotsInv, SlotsTypeOK
<1>1. SlotsTypeOK'
  <2>1. pc' \in [Callers -> {"idle", "waiting", "woken", "holding"}]
    BY DEF Take
  <2>2. active' \in Nat /\ perKey' \in [Keys -> Nat]
    BY DEF Take
  <2> QED BY <2>1, <2>2
<1>2. Holders' = Holders \union {c} /\ c \notin Holders
  BY DEF Take, Holders
<1>3. Cardinality(Holders') = Cardinality(Holders) + 1
  BY <1>2, HoldersFinite, FS_AddElement
<1>4. ASSUME NEW k \in Keys
      PROVE  perKey'[k] = Cardinality(HoldersOf(k)') /\ perKey'[k] <= KeyLimit
  <2>1. CASE KeyOf[c] = k
    <3>1. HoldersOf(k)' = HoldersOf(k) \union {c} /\ c \notin HoldersOf(k)
      BY <1>2, <2>1 DEF HoldersOf
    <3>2. Cardinality(HoldersOf(k)') = Cardinality(HoldersOf(k)) + 1
      BY <3>1, HoldersFinite, FS_AddElement
    <3>3. perKey'[k] = perKey[k] + 1 /\ perKey[k] < KeyLimit
      BY <2>1 DEF Take, Full
    <3> QED BY <3>2, <3>3 DEF CountersCount
  <2>2. CASE KeyOf[c] # k
    <3>1. HoldersOf(k)' = HoldersOf(k)
      BY <1>2, <2>2 DEF HoldersOf
    <3>2. perKey'[k] = perKey[k]
      BY <2>2 DEF Take
    <3> QED BY <3>1, <3>2 DEF CountersCount, CountersBounded
  <2> QED BY <2>1, <2>2
<1>5. active' = active + 1 /\ active < Limit
  BY DEF Take, Full
<1>6. CountersCount'
  BY <1>3, <1>4, <1>5 DEF CountersCount
<1>7. CountersBounded'
  BY <1>4, <1>5 DEF CountersBounded
<1> QED BY <1>1, <1>6, <1>7

(* Nobody enters or leaves: the counters and the holders stay.             *)
LEMMA SameHolders ==
  ASSUME SlotsInv, SlotsTypeOK', active' = active, perKey' = perKey,
         \A c \in Callers : pc'[c] = "holding" <=> pc[c] = "holding"
  PROVE  SlotsInv'
<1>1. Holders' = Holders /\ \A k \in Keys : HoldersOf(k)' = HoldersOf(k)
  BY DEF Holders, HoldersOf
<1> QED BY <1>1 DEF SlotsInv, CountersCount, CountersBounded

\* Leaving takes one off the counter of all and one off that of the key.
LEMMA LeaveCounts ==
  ASSUME SlotsInv, NEW c \in Callers, Leave(c)
  PROVE  SlotsInv'
<1> USE SlotsAssumption DEF SlotsInv, SlotsTypeOK
<1>1. pc' \in [Callers -> {"idle", "waiting", "woken", "holding"}]
  BY DEF Leave
<1>2. Holders' = Holders \ {c} /\ c \in Holders
  BY DEF Leave, Holders
<1>3. Cardinality(Holders') = Cardinality(Holders) - 1
  BY <1>2, HoldersFinite, FS_RemoveElement
<1>4. ASSUME NEW k \in Keys
      PROVE  perKey'[k] = Cardinality(HoldersOf(k)') /\ perKey'[k] <= KeyLimit
  <2>1. CASE KeyOf[c] = k
    <3>1. HoldersOf(k)' = HoldersOf(k) \ {c} /\ c \in HoldersOf(k)
      BY <1>2, <2>1 DEF HoldersOf
    <3>2. Cardinality(HoldersOf(k)') = Cardinality(HoldersOf(k)) - 1
      BY <3>1, HoldersFinite, FS_RemoveElement
    <3>3. perKey'[k] = perKey[k] - 1
      BY <2>1 DEF Leave, Released
    <3> QED BY <3>2, <3>3 DEF CountersCount, CountersBounded
  <2>2. CASE KeyOf[c] # k
    <3>1. HoldersOf(k)' = HoldersOf(k)
      BY <1>2, <2>2 DEF HoldersOf
    <3>2. perKey'[k] = perKey[k]
      BY <2>2 DEF Leave, Released
    <3> QED BY <3>1, <3>2 DEF CountersCount, CountersBounded
  <2> QED BY <2>1, <2>2
<1>5. active' = active - 1
  BY DEF Leave, Released
<1>6. CountersCount'
  BY <1>3, <1>4, <1>5 DEF CountersCount
<1>7. CountersBounded'
  BY <1>4, <1>5 DEF CountersBounded
<1>8. active' \in Nat /\ perKey' \in [Keys -> Nat]
  <2>1. IsFiniteSet(Holders') /\ \A k \in Keys : IsFiniteSet(HoldersOf(k)')
    <3>1. \A k \in Keys : HoldersOf(k)' \subseteq Holders'
      BY DEF HoldersOf
    <3> QED BY <1>2, <3>1, HoldersFinite, FS_Subset
  <2>2. active' \in Nat /\ \A k \in Keys : perKey'[k] \in Nat
    BY <1>6, <2>1, FS_CardinalityType DEF CountersCount
  <2>3. perKey' \in [Keys -> Int]
    BY DEF Leave, Released
  <2> QED BY <2>2, <2>3
<1>9. SlotsTypeOK'
  BY <1>1, <1>8 DEF Leave, Released
<1> QED BY <1>9, <1>6, <1>7

\* The counters count in every reachable state.
LEMMA CountersInvariant == SlotsSpec => []SlotsInv
<1>1. SlotsInit => SlotsInv
  <2> SUFFICES ASSUME SlotsInit PROVE SlotsInv
    OBVIOUS
  <2>1. Holders = {} /\ \A k \in Keys : HoldersOf(k) = {}
    BY DEF SlotsInit, Holders, HoldersOf
  <2> QED BY <2>1, SlotsAssumption, FS_EmptySet
          DEF SlotsInit, SlotsInv, SlotsTypeOK, CountersCount, CountersBounded
<1>2. SlotsInv /\ [SlotsNext]_slotVars => SlotsInv'
  <2> SUFFICES ASSUME SlotsInv, [SlotsNext]_slotVars PROVE SlotsInv'
    OBVIOUS
  <2>1. ASSUME NEW c \in Callers, pc[c] # "holding", NEW signal \in BOOLEAN,
               Check(c, signal), aborted' \in [Callers -> BOOLEAN],
               calls' \in [Callers -> Nat]
        PROVE  SlotsInv'
    <3>1. CASE TurnedAway(c, signal) \/ Wait(c, signal)
      <4>1. SlotsTypeOK'
        BY <2>1, <3>1 DEF SlotsInv, SlotsTypeOK, TurnedAway, Wait
      <4> QED BY <2>1, <3>1, <4>1, SameHolders DEF SlotsInv, SlotsTypeOK, TurnedAway, Wait
    <3>2. CASE Take(c, signal)
      BY <2>1, <3>2, TakeCounts
    <3> QED BY <2>1, <3>1, <3>2 DEF Check
  <2>2. ASSUME NEW c \in Callers, Use(c) PROVE SlotsInv'
    BY <2>1, <2>2 DEF Use, SlotsInv, SlotsTypeOK
  <2>3. ASSUME NEW c \in Callers, Recheck(c) PROVE SlotsInv'
    <3>1. pc[c] # "holding" /\ aborted[c] \in BOOLEAN /\ Check(c, aborted[c])
      BY <2>3 DEF Recheck, SlotsInv, SlotsTypeOK
    <3> QED BY <2>1, <2>3, <3>1 DEF Recheck, SlotsInv, SlotsTypeOK
  <2>4. ASSUME NEW c \in Callers, Abort(c) PROVE SlotsInv'
    <3>1. SlotsTypeOK'
      BY <2>4 DEF Abort, SlotsInv, SlotsTypeOK
    <3> QED BY <2>4, <3>1, SameHolders DEF Abort, SlotsInv, SlotsTypeOK
  <2>5. ASSUME NEW c \in Callers, Leave(c) PROVE SlotsInv'
    BY <2>5, LeaveCounts
  <2>6. CASE UNCHANGED slotVars
    <3>1. SlotsTypeOK'
      BY <2>6 DEF SlotsInv, SlotsTypeOK, slotVars
    <3> QED BY <2>6, <3>1, SameHolders DEF slotVars
  <2> QED BY <2>2, <2>3, <2>4, <2>5, <2>6 DEF SlotsNext
<1> QED BY <1>1, <1>2, PTL DEF SlotsSpec

(* The limits hold of the callers inside, not only of the counters.        *)
THEOREM SlotsStayWithinLimits == SlotsSpec => []SlotsWithinLimits
<1>1. SlotsInv => SlotsWithinLimits
  BY DEF SlotsInv, CountersCount, CountersBounded, SlotsWithinLimits
<1> QED BY <1>1, CountersInvariant, PTL

(* A caller falls asleep only without room, and room appears only in Leave *)
(* which wakes everybody.                                                  *)
THEOREM NoWakeUpIsLost == SlotsSpec => []NobodySleepsBesideAFreeSlot
<1> USE SlotsAssumption DEF NobodySleepsBesideAFreeSlot, Full, SlotsTypeOK
<1>1. SlotsInit => NobodySleepsBesideAFreeSlot
  BY DEF SlotsInit
<1>2. SlotsInv /\ NobodySleepsBesideAFreeSlot /\ [SlotsNext]_slotVars
        => NobodySleepsBesideAFreeSlot'
  <2> SUFFICES ASSUME SlotsTypeOK, NobodySleepsBesideAFreeSlot, [SlotsNext]_slotVars,
                      NEW d \in Callers, pc'[d] = "waiting"
               PROVE  Full(d)'
    BY DEF SlotsInv
  <2>1. ASSUME NEW c \in Callers, NEW signal \in BOOLEAN, Check(c, signal)
        PROVE  Full(d)'
    <3>1. CASE TurnedAway(c, signal)
      BY <3>1 DEF TurnedAway
    <3>2. CASE Wait(c, signal)
      BY <3>2 DEF Wait
    <3>3. CASE Take(c, signal)
      BY <3>3 DEF Take
    <3> QED BY <2>1, <3>1, <3>2, <3>3 DEF Check
  <2>2. ASSUME NEW c \in Callers, Use(c) PROVE Full(d)'
    BY <2>1, <2>2 DEF Use
  <2>3. ASSUME NEW c \in Callers, Recheck(c) PROVE Full(d)'
    BY <2>1, <2>3 DEF Recheck
  <2>4. ASSUME NEW c \in Callers, Abort(c) PROVE Full(d)'
    BY <2>4 DEF Abort
  <2>5. ASSUME NEW c \in Callers, Leave(c) PROVE Full(d)'
    BY <2>5 DEF Leave, Released
  <2>6. CASE UNCHANGED slotVars
    BY <2>6 DEF slotVars
  <2> QED BY <2>2, <2>3, <2>4, <2>5, <2>6 DEF SlotsNext
<1> QED BY <1>1, <1>2, CountersInvariant, PTL DEF SlotsSpec

----
(***************************************************************************)
(* Commands: what is said of a command is so, for any number of callers that*)
(* hold the same prepared command.                                         *)
(***************************************************************************)

\* How far a call, its helper, its files and its processes may be apart.
Asking(c) ==
  /\ exec[c].step # "over" => exec[c].told = "nothing"
  /\ exec[c].step \in {"idle", "refreshing", "resolving"} => helper[c].step = "none"
  /\ exec[c].told = "refused" => helper[c].step = "none"
  /\ exec[c].told = "verified" => files[c].result = "verified"

\* How far the helper is, and what has run in the job by then.
Helping(c) ==
  /\ helper[c].step \in {"none", "starting", "ready"} => job[c].root = "none"
  /\ helper[c].step \in {"none", "starting", "ready", "created", "assigned", "cancelling"} => ~job[c].ran
  /\ job[c].root = "running" => job[c].ran
  /\ ~job[c].ran => job[c].child = "none"
  /\ files[c].result # "none" => helper[c].step = "gone"

\* The helper writes `verified' only of a job that is over.
Cleaned(c) ==
  files[c].result = "verified" \/ (helper[c].step = "writing" /\ helper[c].verdict = "verified") =>
    job[c].root \in Off /\ job[c].child \in Off

InOrder(c) == Asking(c) /\ Helping(c) /\ Cleaned(c)

\* The call that has the prepared command.
HasCommand(c) == exec[c].step \in {"refreshing", "resolving", "supervising"} \/ helper[c].step # "none" \/ job[c].ran
OneClaim == \A c, d \in Calls : HasCommand(c) => ~prepared /\ (HasCommand(d) => c = d)

\* The inductive invariant of commands.
CommandsInv == CommandsTypeOK /\ OneClaim /\ \A c \in Calls : InOrder(c)

\* The types of the four records of a call.
ExecRows == [step: {"idle", "refreshing", "resolving", "supervising", "over"},
             aborted: BOOLEAN, told: {"nothing", "refused", "verified", "unknown"}]
HelperRows == [step: {"none", "starting", "ready", "created", "assigned", "cancelling",
                      "monitoring", "ending", "writing", "gone"},
               verdict: Verdicts]
FileRows == [cancel: BOOLEAN, result: Verdicts]
JobRows == [root: Processes, child: Processes \ {"suspended"}, assigned: BOOLEAN, ran: BOOLEAN]

CallRows(c) == exec[c] \in ExecRows /\ helper[c] \in HelperRows /\ files[c] \in FileRows /\ job[c] \in JobRows

\* A step of no other call.
Alone(c) ==
  /\ exec' = [exec EXCEPT ![c] = exec'[c]]
  /\ helper' = [helper EXCEPT ![c] = helper'[c]]
  /\ files' = [files EXCEPT ![c] = files'[c]]
  /\ job' = [job EXCEPT ![c] = job'[c]]
  /\ prepared' \in {prepared, FALSE} /\ UNCHANGED <<fresh, runtime>>

\* At first no call has asked for anything.
LEMMA InitialCommands == CommandsInit => CommandsInv
BY DEF CommandsInit, CommandsInv, CommandsTypeOK, OneClaim, HasCommand, InOrder, Asking, Helping, Cleaned, Processes, Verdicts

\* A step of one call keeps the order of the others.
LEMMA CallKept ==
  ASSUME CommandsInv, NEW c \in Calls, CallRows(c)', Alone(c), InOrder(c)',
         \/ (HasCommand(c)' => HasCommand(c)) /\ UNCHANGED prepared
         \/ prepared /\ prepared' = FALSE
  PROVE  CommandsInv'
<1>1. CommandsTypeOK /\ CommandsTypeOK'
  <2>1. /\ exec \in [Calls -> ExecRows] /\ helper \in [Calls -> HelperRows]
        /\ files \in [Calls -> FileRows] /\ job \in [Calls -> JobRows]
        /\ prepared \in BOOLEAN /\ fresh \in BOOLEAN /\ runtime \in BOOLEAN
    BY DEF CommandsInv, CommandsTypeOK, ExecRows, HelperRows, FileRows, JobRows
  <2>2. /\ exec' \in [Calls -> ExecRows] /\ helper' \in [Calls -> HelperRows]
        /\ files' \in [Calls -> FileRows] /\ job' \in [Calls -> JobRows]
        /\ prepared' \in BOOLEAN /\ fresh' \in BOOLEAN /\ runtime' \in BOOLEAN
    BY <2>1 DEF CallRows, Alone
  <2> QED BY <2>1, <2>2 DEF CommandsTypeOK, ExecRows, HelperRows, FileRows, JobRows
<1>2. \A d \in Calls \ {c} : exec'[d] = exec[d] /\ helper'[d] = helper[d] /\ files'[d] = files[d] /\ job'[d] = job[d]
  BY <1>1 DEF Alone, CommandsTypeOK
<1>3. \A d \in Calls : InOrder(d)'
  BY <1>2 DEF CommandsInv, InOrder, Asking, Helping, Cleaned
<1>4. \A d \in Calls \ {c} : HasCommand(d)' <=> HasCommand(d)
  BY <1>2 DEF HasCommand
<1>5. ASSUME NEW d \in Calls, NEW e \in Calls, HasCommand(d)' PROVE ~prepared' /\ (HasCommand(e)' => d = e)
  <2>1. CASE prepared /\ prepared' = FALSE
    <3>1. ~HasCommand(d) /\ ~HasCommand(e)
      BY <2>1 DEF CommandsInv, OneClaim
    <3> QED BY <1>4, <1>5, <2>1, <3>1
  <2>2. CASE UNCHANGED prepared /\ (HasCommand(c)' => HasCommand(c))
    <3>1. HasCommand(d) /\ (HasCommand(e)' => HasCommand(e))
      BY <1>4, <1>5, <2>2
    <3> QED BY <2>2, <3>1 DEF CommandsInv, OneClaim
  <2> QED BY <2>1, <2>2
<1>6. OneClaim'
  BY <1>5 DEF OneClaim
<1> QED BY <1>1, <1>3, <1>6 DEF CommandsInv

\* What the runtime does keeps all of it.
LEMMA RuntimeSteps ==
  ASSUME CommandsInv, NEW c \in Calls,
         \/ Execute(c) \/ Refresh(c) \/ Launch(c) \/ AbortCommand(c) \/ WriteCancel(c) \/ Closed(c) \/ NotSpawned(c)
  PROVE  CommandsInv'
<1> USE DEF CommandsTypeOK, CallRows, ExecRows, HelperRows, FileRows, JobRows, Alone, InOrder, Asking, Helping, Cleaned, HasCommand, Goes, Tell, At, Processes, Verdicts, Off
<1>0. CommandsTypeOK /\ InOrder(c)
  BY DEF CommandsInv
<1>1. CASE Execute(c)
  <2>1. CallRows(c)'
    BY <1>0, <1>1, SMTT(30) DEF Execute
  <2>2. Alone(c)
    BY <1>0, <1>1 DEF Execute
  <2>3. InOrder(c)'
    BY <1>0, <1>1 DEF Execute
  <2>4. \/ prepared /\ prepared' = FALSE
        \/ (HasCommand(c)' => HasCommand(c)) /\ UNCHANGED prepared
    BY <1>0, <1>1 DEF Execute
  <2> QED BY <2>1, <2>2, <2>3, <2>4, CallKept
<1>2. CASE Refresh(c)
  <2>1. CallRows(c)'
    BY <1>0, <1>2 DEF Refresh
  <2>2. Alone(c)
    BY <1>0, <1>2 DEF Refresh
  <2>3. InOrder(c)'
    BY <1>0, <1>2 DEF Refresh
  <2>4. HasCommand(c) /\ UNCHANGED prepared
    BY <1>0, <1>2 DEF Refresh
  <2> QED BY <2>1, <2>2, <2>3, <2>4, CallKept
<1>3. CASE Launch(c)
  <2>1. CallRows(c)'
    BY <1>0, <1>3 DEF Launch
  <2>2. Alone(c)
    BY <1>0, <1>3 DEF Launch
  <2>3. InOrder(c)'
    BY <1>0, <1>3 DEF Launch
  <2>4. HasCommand(c) /\ UNCHANGED prepared
    BY <1>0, <1>3 DEF Launch
  <2> QED BY <2>1, <2>2, <2>3, <2>4, CallKept
<1>4. CASE AbortCommand(c)
  <2>1. CallRows(c)'
    <3>1. exec'[c] \in ExecRows
      <4>1. exec[c] \in ExecRows
        BY <1>0
      <4>2. exec'[c] = [exec[c] EXCEPT !.aborted = TRUE]
        BY <1>0, <1>4 DEF AbortCommand
      <4> QED BY ONLY <4>1, <4>2 DEF ExecRows
    <3>2. helper'[c] \in HelperRows
      BY <1>0, <1>4 DEF AbortCommand
    <3>3. files'[c] \in FileRows
      BY <1>0, <1>4 DEF AbortCommand
    <3>4. job'[c] \in JobRows
      BY <1>0, <1>4 DEF AbortCommand
    <3> QED BY <3>1, <3>2, <3>3, <3>4 DEF CallRows
  <2>2. Alone(c)
    BY <1>0, <1>4 DEF AbortCommand
  <2>3. InOrder(c)'
    BY <1>0, <1>4 DEF AbortCommand
  <2>4. HasCommand(c) /\ UNCHANGED prepared
    BY <1>0, <1>4 DEF AbortCommand
  <2> QED BY <2>1, <2>2, <2>3, <2>4, CallKept
<1>5. CASE WriteCancel(c)
  <2>1. CallRows(c)'
    BY <1>0, <1>5, ZenonT(40) DEF WriteCancel
  <2>2. Alone(c)
    BY <1>0, <1>5 DEF WriteCancel
  <2>3. InOrder(c)'
    BY <1>0, <1>5 DEF WriteCancel
  <2>4. HasCommand(c) /\ UNCHANGED prepared
    BY <1>0, <1>5 DEF WriteCancel
  <2> QED BY <2>1, <2>2, <2>3, <2>4, CallKept
<1>6. CASE Closed(c)
  <2>1. CallRows(c)'
    BY <1>0, <1>6 DEF Closed
  <2>2. Alone(c)
    BY <1>0, <1>6 DEF Closed
  <2>3. InOrder(c)'
    BY <1>0, <1>6 DEF Closed
  <2>4. HasCommand(c) /\ UNCHANGED prepared
    BY <1>0, <1>6 DEF Closed
  <2> QED BY <2>1, <2>2, <2>3, <2>4, CallKept
<1>7. CASE NotSpawned(c)
  <2>1. CallRows(c)'
    BY <1>0, <1>7, SMTT(30) DEF NotSpawned
  <2>2. Alone(c)
    BY <1>0, <1>7 DEF NotSpawned
  <2>3. InOrder(c)'
    BY <1>0, <1>7 DEF NotSpawned
  <2>4. HasCommand(c) /\ UNCHANGED prepared
    BY <1>0, <1>7 DEF NotSpawned
  <2> QED BY <2>1, <2>2, <2>3, <2>4, CallKept
<1> QED BY <1>1, <1>2, <1>3, <1>4, <1>5, <1>6, <1>7

\* The helper's steps, and those that end it from outside.
LEMMA HelperSteps ==
  ASSUME CommandsInv, NEW c \in Calls, HelperStep(c) \/ Timeout(c) \/ HelperKilled(c)
  PROVE  CommandsInv'
<1> USE DEF CommandsTypeOK, CallRows, ExecRows, HelperRows, FileRows, JobRows, Alone, InOrder, Asking, Helping, Cleaned, HasCommand, Helps, Concludes, ByHelper,
            Terminated, Dying, Processes, Verdicts, Off
<1>0. CommandsTypeOK /\ InOrder(c)
  BY DEF CommandsInv
<1>1. CASE Look(c)
  <2>1. CallRows(c)'
    BY <1>0, <1>1 DEF Look
  <2>2. Alone(c)
    BY <1>0, <1>1 DEF Look
  <2>3. InOrder(c)'
    BY <1>0, <1>1 DEF Look
  <2>4. HasCommand(c) /\ UNCHANGED prepared
    BY <1>0, <1>1 DEF Look
  <2> QED BY <2>1, <2>2, <2>3, <2>4, CallKept
<1>2. CASE Create(c)
  <2>1. CallRows(c)'
    <3>1. exec'[c] \in ExecRows
      BY <1>0, <1>2 DEF Create
    <3>2. helper'[c] \in HelperRows
      BY <1>0, <1>2, ZenonT(40) DEF Create
    <3>3. files'[c] \in FileRows
      BY <1>0, <1>2 DEF Create
    <3>4. job'[c] \in JobRows
      BY <1>0, <1>2, ZenonT(40) DEF Create
    <3> QED BY <3>1, <3>2, <3>3, <3>4 DEF CallRows
  <2>2. Alone(c)
    BY <1>0, <1>2 DEF Create
  <2>3. InOrder(c)'
    BY <1>0, <1>2 DEF Create
  <2>4. HasCommand(c) /\ UNCHANGED prepared
    BY <1>0, <1>2 DEF Create
  <2> QED BY <2>1, <2>2, <2>3, <2>4, CallKept
<1>3. CASE Assign(c)
  <2>1. CallRows(c)'
    <3>1. exec'[c] \in ExecRows
      BY <1>0, <1>3 DEF Assign
    <3>2. helper'[c] \in HelperRows
      BY <1>0, <1>3, SMTT(30) DEF Assign
    <3>3. files'[c] \in FileRows
      BY <1>0, <1>3 DEF Assign
    <3>4. job'[c] \in JobRows
      BY <1>0, <1>3, ZenonT(40) DEF Assign
    <3> QED BY <3>1, <3>2, <3>3, <3>4 DEF CallRows
  <2>2. Alone(c)
    BY <1>0, <1>3 DEF Assign
  <2>3. InOrder(c)'
    BY <1>0, <1>3 DEF Assign
  <2>4. HasCommand(c) /\ UNCHANGED prepared
    BY <1>0, <1>3 DEF Assign
  <2> QED BY <2>1, <2>2, <2>3, <2>4, CallKept
<1>4. CASE Resume(c)
  <2>1. CallRows(c)'
    BY <1>0, <1>4 DEF Resume
  <2>2. Alone(c)
    BY <1>0, <1>4 DEF Resume
  <2>3. InOrder(c)'
    BY <1>0, <1>4 DEF Resume
  <2>4. HasCommand(c) /\ UNCHANGED prepared
    BY <1>0, <1>4 DEF Resume
  <2> QED BY <2>1, <2>2, <2>3, <2>4, CallKept
<1>5. CASE CancelSuspended(c) \/ EndJob(c) \/ Timeout(c)
  <2>1. CallRows(c)'
    <3>1. exec'[c] \in ExecRows
      BY <1>0, <1>5 DEF CancelSuspended, EndJob, Timeout
    <3>2. helper'[c] \in HelperRows
      BY <1>0, <1>5, SMTT(30) DEF CancelSuspended, EndJob, Timeout
    <3>3. files'[c] \in FileRows
      BY <1>0, <1>5 DEF CancelSuspended, EndJob, Timeout
    <3>4. job'[c] \in JobRows
      BY <1>0, <1>5, SMTT(30) DEF CancelSuspended, EndJob, Timeout
    <3> QED BY <3>1, <3>2, <3>3, <3>4 DEF CallRows
  <2>2. Alone(c)
    <3>1. CASE CancelSuspended(c)
      BY <1>0, <3>1 DEF CancelSuspended
    <3>2. CASE EndJob(c)
      BY <1>0, <3>2 DEF EndJob
    <3>3. CASE Timeout(c)
      BY <1>0, <3>3 DEF Timeout
    <3> QED BY <1>5, <3>1, <3>2, <3>3
  <2>3. InOrder(c)'
    BY <1>0, <1>5 DEF CancelSuspended, EndJob, Timeout
  <2>4. HasCommand(c) /\ UNCHANGED prepared
    BY <1>0, <1>5 DEF CancelSuspended, EndJob, Timeout
  <2> QED BY <2>1, <2>2, <2>3, <2>4, CallKept
<1>6. CASE SuspendedGone(c) \/ Verify(c)
  <2>1. CallRows(c)'
    BY <1>0, <1>6 DEF SuspendedGone, Verify, JobEmpty
  <2>2. Alone(c)
    <3>1. CASE SuspendedGone(c)
      BY <1>0, <3>1 DEF SuspendedGone
    <3>2. CASE Verify(c)
      BY <1>0, <3>2 DEF Verify
    <3> QED BY <1>6, <3>1, <3>2
  <2>3. InOrder(c)'
    BY <1>0, <1>6 DEF SuspendedGone, Verify, JobEmpty
  <2>4. HasCommand(c) /\ UNCHANGED prepared
    BY <1>0, <1>6 DEF SuspendedGone, Verify, JobEmpty
  <2> QED BY <2>1, <2>2, <2>3, <2>4, CallKept
<1>7. CASE Finish(c)
  <2>1. CallRows(c)'
    <3>1. exec'[c] \in ExecRows
      BY <1>0, <1>7 DEF Finish
    <3>2. helper'[c] \in HelperRows
      BY <1>0, <1>7 DEF Finish
    <3>3. files'[c] \in FileRows
      BY <1>0, <1>7, ZenonT(40) DEF Finish
    <3>4. job'[c] \in JobRows
      BY <1>0, <1>7, ZenonT(40) DEF Finish
    <3> QED BY <3>1, <3>2, <3>3, <3>4 DEF CallRows
  <2>2. Alone(c)
    BY <1>0, <1>7 DEF Finish
  <2>3. InOrder(c)'
    BY <1>0, <1>7 DEF Finish
  <2>4. HasCommand(c) /\ UNCHANGED prepared
    BY <1>0, <1>7 DEF Finish
  <2> QED BY <2>1, <2>2, <2>3, <2>4, CallKept
<1>8. CASE HelperFails(c) \/ HelperKilled(c)
  <2>1. CallRows(c)'
    <3>1. exec'[c] \in ExecRows
      BY <1>0, <1>8 DEF HelperFails, HelperKilled
    <3>2. helper'[c] \in HelperRows
      BY <1>0, <1>8 DEF HelperFails, HelperKilled
    <3>3. files'[c] \in FileRows
      BY <1>0, <1>8 DEF HelperFails, HelperKilled
    <3>4. job'[c] \in JobRows
      BY <1>0, <1>8, SMTT(30) DEF HelperFails, HelperKilled
    <3> QED BY <3>1, <3>2, <3>3, <3>4 DEF CallRows
  <2>2. Alone(c)
    <3>1. CASE HelperFails(c)
      BY <1>0, <3>1 DEF HelperFails
    <3>2. CASE HelperKilled(c)
      BY <1>0, <3>2 DEF HelperKilled
    <3> QED BY <1>8, <3>1, <3>2
  <2>3. InOrder(c)'
    BY <1>0, <1>8 DEF HelperFails, HelperKilled
  <2>4. HasCommand(c) /\ UNCHANGED prepared
    BY <1>0, <1>8 DEF HelperFails, HelperKilled
  <2> QED BY <2>1, <2>2, <2>3, <2>4, CallKept
<1> QED BY <1>1, <1>2, <1>3, <1>4, <1>5, <1>6, <1>7, <1>8 DEF HelperStep

\* So does what the command's own processes do.
LEMMA ProcessSteps ==
  ASSUME CommandsInv, NEW c \in Calls, Gone(c) \/ StartsProcess(c) \/ Exits(c)
  PROVE  CommandsInv'
<1> USE DEF CommandsTypeOK, CallRows, ExecRows, HelperRows, FileRows, JobRows, Alone, InOrder, Asking, Helping, Cleaned, HasCommand, Command, Processes, Verdicts, Off
<1>0. CommandsTypeOK /\ InOrder(c)
  BY DEF CommandsInv
<1>1. CASE StartsProcess(c)
  <2>1. CallRows(c)'
    BY <1>0, <1>1, SMTT(30) DEF StartsProcess
  <2>2. Alone(c)
    BY <1>0, <1>1 DEF StartsProcess
  <2>3. InOrder(c)'
    BY <1>0, <1>1 DEF StartsProcess
  <2>4. HasCommand(c) /\ UNCHANGED prepared
    BY <1>0, <1>1 DEF StartsProcess
  <2> QED BY <2>1, <2>2, <2>3, <2>4, CallKept
<1>2. ASSUME NEW p \in {"root", "child"}, NEW from \in {"dying", "running"}, Command(c, p, from, "gone") PROVE CommandsInv'
  <2>1. CASE p = "root"
    <3>1. CallRows(c)'
      <4>1. exec'[c] \in ExecRows /\ helper'[c] \in HelperRows /\ files'[c] \in FileRows
        BY <1>0, <1>2
      <4>2. job' = [job EXCEPT ![c] = [@ EXCEPT !.root = "gone"]]
        BY <1>2, <2>1
      <4>3. job'[c] \in JobRows
        BY <1>0, <4>2, SMTT(30)
      <4> QED BY <4>1, <4>3
    <3>2. Alone(c)
      BY <1>0, <1>2, <2>1
    <3>3. InOrder(c)'
      BY <1>0, <1>2, <2>1
    <3>4. (HasCommand(c)' => HasCommand(c)) /\ UNCHANGED prepared
      BY <1>0, <1>2, <2>1
    <3> QED BY <3>1, <3>2, <3>3, <3>4, CallKept
  <2>2. CASE p = "child"
    <3>1. CallRows(c)'
      <4>1. exec'[c] \in ExecRows /\ helper'[c] \in HelperRows /\ files'[c] \in FileRows
        BY <1>0, <1>2
      <4>2. job' = [job EXCEPT ![c] = [@ EXCEPT !.child = "gone"]]
        BY <1>2, <2>2
      <4>3. job'[c] \in JobRows
        BY <1>0, <4>2
      <4> QED BY <4>1, <4>3
    <3>2. Alone(c)
      BY <1>0, <1>2, <2>2
    <3>3. InOrder(c)'
      BY <1>0, <1>2, <2>2
    <3>4. (HasCommand(c)' => HasCommand(c)) /\ UNCHANGED prepared
      BY <1>0, <1>2, <2>2
    <3> QED BY <3>1, <3>2, <3>3, <3>4, CallKept
  <2> QED BY <2>1, <2>2
<1> QED BY <1>1, <1>2 DEF Gone, Exits

\* So every step keeps it.
LEMMA CommandsStep == CommandsInv /\ [CommandsNext]_cmVars => CommandsInv'
<1> SUFFICES ASSUME CommandsInv, [CommandsNext]_cmVars PROVE CommandsInv'
  OBVIOUS
<1>1. CASE RuntimeDies \/ FilesChange \/ UNCHANGED cmVars
  <2>1. UNCHANGED <<prepared, exec, helper, files, job>> /\ CommandsTypeOK'
    BY <1>1 DEF RuntimeDies, FilesChange, cmVars, CommandsInv, CommandsTypeOK
  <2> QED BY <2>1 DEF CommandsInv, OneClaim, HasCommand, InOrder, Asking, Helping, Cleaned
<1> QED BY <1>1, RuntimeSteps, HelperSteps, ProcessSteps DEF CommandsNext, ExecuteStep

\* What a call was told is true then.
LEMMA ToldRight == CommandsInv => CommandsAreToldRight
<1> SUFFICES ASSUME CommandsInv PROVE CommandsAreToldRight
  OBVIOUS
<1> DEFINE ran == {c \in Calls : job[c].ran}
<1>1. \A c, d \in ran : c = d
  BY DEF CommandsInv, OneClaim, HasCommand
<1>2. Cardinality(ran) <= 1
  <2>1. CASE ran = {}
    BY <2>1, FS_EmptySet
  <2>2. CASE ran # {}
    <3>1. PICK c \in ran : TRUE
      BY <2>2
    <3>2. ran = {c}
      BY <1>1, <3>1
    <3> HIDE DEF ran
    <3>3. Cardinality(ran) = 1
      BY <3>2, FS_Singleton
    <3> QED BY <3>3
  <2> QED BY <2>1, <2>2
<1>3. ASSUME NEW c \in Calls
      PROVE  /\ exec[c].told = "refused" => ~job[c].ran /\ helper[c].step = "none"
             /\ exec[c].told = "verified" => {job[c].root, job[c].child} \subseteq Off
  BY DEF CommandsInv, InOrder, Asking, Helping, Cleaned
<1> QED BY <1>2, <1>3 DEF CommandsAreToldRight

(* For any number of callers, whichever of the processes dies and whatever *)
(* fails: a refused command has not run, a verified cleanup left nothing,  *)
(* and a prepared command runs once.                                       *)
THEOREM CommandsToldRight == CommandsSpec => []CommandsAreToldRight
<1>1. CommandsInit => CommandsInv
  BY InitialCommands
<1>2. CommandsInv /\ [CommandsNext]_cmVars => CommandsInv'
  BY CommandsStep
<1>3. CommandsInv => CommandsAreToldRight
  BY ToldRight
<1> QED BY <1>1, <1>2, <1>3, PTL DEF CommandsSpec

----
(***************************************************************************)
(* They and the ledger beside each other, as they are model-checked.       *)
(***************************************************************************)

\* Whichever one a behaviour is about, each of them behaves as it does alone.
LEMMA GatesAreTheirParts == GatesSpec => SlotsSpec /\ ApprovalsSpec /\ CommandsSpec /\ LedgerSpec
<1>1. GatesInit => SlotsInit /\ ApprovalsInit /\ CommandsInit /\ LedgerInit
  BY DEF GatesInit
<1>2. [GatesNext]_<<focus, slotVars, approvalVars, cmVars, ledgerVars>> =>
        [SlotsNext]_slotVars /\ [ApprovalsNext]_approvalVars /\ [CommandsNext]_cmVars /\ [LedgerNext]_ledgerVars
  BY DEF GatesNext
<1> QED BY <1>1, <1>2, PTL DEF GatesSpec, SlotsSpec, ApprovalsSpec, CommandsSpec, LedgerSpec

\* Callers and counters, approvals, commands and the rows of the ledger keep their
\* types through every interleaving of the calls, processes and decisions
\* (execution-slots.ts, tool-runtime.ts, command-runner.ts, budget-ledger.ts).
THEOREM GatesTypeCorrect == GatesSpec => []TypesOK
<1>1. SlotsInv => SlotsTypeOK
  BY DEF SlotsInv
<1>2. CommandsInit => CommandsInv
  BY InitialCommands
<1>3. CommandsInv /\ [CommandsNext]_cmVars => CommandsInv'
  BY CommandsStep
<1>4. CommandsInv => CommandsTypeOK
  BY DEF CommandsInv
<1>5. CommandsSpec => []CommandsTypeOK
  BY <1>2, <1>3, <1>4, PTL DEF CommandsSpec
<1>6. SlotsTypeOK /\ ApprovalsTypeOK /\ CommandsTypeOK /\ LedgerTypeOK => TypesOK
  BY DEF TypesOK
<1> QED BY <1>1, <1>5, <1>6, GatesAreTheirParts, CountersInvariant, ApprovalsTypeCorrect, LedgerTypeCorrect, PTL
====
