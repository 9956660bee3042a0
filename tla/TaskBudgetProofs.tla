---- MODULE TaskBudgetProofs ----
(***************************************************************************)
(* Proofs about the promise itself: for any set of children, any cap and   *)
(* any protected share, what is committed never eats into the              *)
(* coordinator's unused share, and no child outspends its allocation,      *)
(* except by what requests used beyond their reservations.                 *)
(***************************************************************************)
EXTENDS TaskBudget, TLAPS

\* What is held, committed, spent and in flight are numbers.
LEMMA TypeCorrect == BudgetSpec => []BudgetTypeOK
<1> USE BudgetAssumption DEF Runs, Used, Unclaimed, AtLeastZero
<1>1. BudgetInit => BudgetTypeOK
  BY DEF BudgetInit, BudgetTypeOK
<1>2. BudgetTypeOK /\ [BudgetNext]_budgetVars => BudgetTypeOK'
  <2> SUFFICES ASSUME BudgetTypeOK, [BudgetNext]_budgetVars PROVE BudgetTypeOK'
    OBVIOUS
  <2> USE DEF BudgetTypeOK
  <2>1. ASSUME NEW c \in Children, NEW amount \in Amounts, Grant(c, amount)
        PROVE  BudgetTypeOK'
    BY <2>1 DEF Grant, CoordinatorReserve
  <2>2. ASSUME NEW c \in Children, NEW amount \in Amounts, ClaimOwn(c, amount)
        PROVE  BudgetTypeOK'
    BY <2>2 DEF ClaimOwn
  <2>3. ASSUME NEW amount \in Amounts, ClaimShared(amount)
        PROVE  BudgetTypeOK'
    BY <2>3 DEF ClaimShared
  <2>4. ASSUME NEW r \in Runs, NEW amount \in Amounts, NEW usage \in Usages,
               Charge(r, amount, usage)
        PROVE  BudgetTypeOK'
    <3>1. amount \in Nat /\ usage \in Nat /\ inFlight[r] - amount \in Nat
      BY <2>4 DEF Charge
    <3>2. inFlight' \in [Runs -> Nat] /\ spent' \in [Runs -> Nat]
      BY <2>4, <3>1 DEF Charge
    <3>3. overage' \in Nat
      BY <2>4, <3>1 DEF Charge
    <3>4. committed' \in Int
      <4>1. CASE r \in held
        <5>1. spent[r] \in Nat /\ inFlight[r] \in Nat /\ allocation[r] \in Nat
          BY <4>1
        <5> QED BY <2>4, <3>1, <4>1, <5>1 DEF Charge
      <4>2. CASE r \notin held
        BY <2>4, <3>1, <4>2 DEF Charge
      <4> QED BY <4>1, <4>2
    <3> QED BY <2>4, <3>2, <3>3, <3>4 DEF Charge
  <2>5. CASE RetainAll
    BY <2>5 DEF RetainAll
  <2>6. ASSUME NEW c \in Children, Return(c)
        PROVE  BudgetTypeOK'
    BY <2>6 DEF Return
  <2>7. CASE UNCHANGED budgetVars
    BY <2>7 DEF budgetVars
  <2> QED BY <2>1, <2>2, <2>3, <2>4, <2>5, <2>6, <2>7 DEF BudgetNext
<1> QED BY <1>1, <1>2, PTL DEF BudgetSpec

(* A child's claims are bounded by its own allocation: budget-ledger.ts    *)
(* refuses a child request that its hold cannot cover.                     *)
THEOREM ChildrenStayWithinAllocation == BudgetSpec => []WithinAllocation
<1> USE BudgetAssumption DEF Runs, Used, WithinAllocation, AtLeastZero, BudgetTypeOK
<1>1. BudgetInit => WithinAllocation
  BY DEF BudgetInit
<1>2. BudgetTypeOK /\ BudgetTypeOK' /\ WithinAllocation /\ [BudgetNext]_budgetVars => WithinAllocation'
  <2> SUFFICES ASSUME BudgetTypeOK, BudgetTypeOK', WithinAllocation, [BudgetNext]_budgetVars,
                      NEW d \in Children
               PROVE  Used(d)' <= allocation'[d] + overage'
    OBVIOUS
  <2>0. Used(d) <= allocation[d] + overage /\ d \in Runs
    OBVIOUS
  <2>1. ASSUME NEW c \in Children, NEW amount \in Amounts, Grant(c, amount)
        PROVE  Used(d)' <= allocation'[d] + overage'
    BY <2>0, <2>1 DEF Grant
  <2>2. ASSUME NEW c \in Children, NEW amount \in Amounts, ClaimOwn(c, amount)
        PROVE  Used(d)' <= allocation'[d] + overage'
    BY <2>0, <2>2 DEF ClaimOwn
  <2>3. ASSUME NEW amount \in Amounts, ClaimShared(amount)
        PROVE  Used(d)' <= allocation'[d] + overage'
    BY <2>0, <2>3 DEF ClaimShared
  <2>4. ASSUME NEW r \in Runs, NEW amount \in Amounts, NEW usage \in Usages,
               Charge(r, amount, usage)
        PROVE  Used(d)' <= allocation'[d] + overage'
    <3>1. amount \in Nat /\ usage \in Nat
      OBVIOUS
    <3> QED BY <2>0, <2>4, <3>1 DEF Charge
  <2>5. CASE RetainAll
    BY <2>0, <2>5 DEF RetainAll
  <2>6. ASSUME NEW c \in Children, Return(c)
        PROVE  Used(d)' <= allocation'[d] + overage'
    BY <2>0, <2>6 DEF Return
  <2>7. CASE UNCHANGED budgetVars
    BY <2>0, <2>7 DEF budgetVars
  <2> QED BY <2>1, <2>2, <2>3, <2>4, <2>5, <2>6, <2>7 DEF BudgetNext
<1> QED BY <1>1, <1>2, TypeCorrect, PTL DEF BudgetSpec

(* No admission and no request can take what the coordinator has not yet   *)
(* used of its protected share, and the whole stays within the cap.        *)
THEOREM CoordinatorShareIsProtected == BudgetSpec => []ReserveProtected
<1> USE BudgetAssumption DEF Runs, Used, ReserveProtected, CoordinatorReserve,
                             AtLeastZero, BudgetTypeOK
<1>1. BudgetInit => ReserveProtected
  BY DEF BudgetInit
<1>2. BudgetTypeOK /\ BudgetTypeOK' /\ ReserveProtected /\ [BudgetNext]_budgetVars
        => ReserveProtected'
  <2> SUFFICES ASSUME BudgetTypeOK, BudgetTypeOK', ReserveProtected, [BudgetNext]_budgetVars
               PROVE  ReserveProtected'
    OBVIOUS
  <2>1. ASSUME NEW c \in Children, NEW amount \in Amounts, Grant(c, amount)
        PROVE  ReserveProtected'
    BY <2>1 DEF Grant
  <2>2. ASSUME NEW c \in Children, NEW amount \in Amounts, ClaimOwn(c, amount)
        PROVE  ReserveProtected'
    <3>1. Used(Root)' = Used(Root)
      BY <2>2 DEF ClaimOwn
    <3> QED BY <2>2, <3>1 DEF ClaimOwn
  <2>3. ASSUME NEW amount \in Amounts, ClaimShared(amount)
        PROVE  ReserveProtected'
    BY <2>3 DEF ClaimShared
  <2>4. ASSUME NEW r \in Runs, NEW amount \in Amounts, NEW usage \in Usages,
               Charge(r, amount, usage)
        PROVE  ReserveProtected'
    <3>1. amount \in Nat /\ usage \in Nat
      OBVIOUS
    <3>2. CASE r = Root
      BY <2>4, <3>1, <3>2 DEF Charge
    <3>3. CASE r # Root
      <4>1. r \in Children /\ Used(Root)' = Used(Root)
        BY <2>4, <3>1, <3>3 DEF Charge
      <4>2. committed' <= committed + AtLeastZero(usage - amount)
        BY <2>4, <3>1, <4>1 DEF Charge, Unclaimed
      <4> QED BY <2>4, <3>1, <4>1, <4>2 DEF Charge
    <3> QED BY <3>2, <3>3
  <2>5. CASE RetainAll
    BY <2>5 DEF RetainAll
  <2>6. ASSUME NEW c \in Children, Return(c)
        PROVE  ReserveProtected'
    BY <2>6 DEF Return, Unclaimed
  <2>7. CASE UNCHANGED budgetVars
    BY <2>7 DEF budgetVars
  <2> QED BY <2>1, <2>2, <2>3, <2>4, <2>5, <2>6, <2>7 DEF BudgetNext
<1> QED BY <1>1, <1>2, TypeCorrect, PTL DEF BudgetSpec

(* For every cap, share and set of children: every share is kept.          *)
THEOREM EveryShareIsKept == BudgetSpec => []SharesAreKept
BY ChildrenStayWithinAllocation, CoordinatorShareIsProtected, PTL DEF SharesAreKept
====
