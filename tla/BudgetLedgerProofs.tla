---- MODULE BudgetLedgerProofs ----
(***************************************************************************)
(* Proofs about the rows: a request is charged once, once a hold is        *)
(* released nothing about it can change, and every step of the ledger is a *)
(* step of the budget it promises, so the promise holds of the sums over   *)
(* its rows.  For any number of children and requests.                     *)
(***************************************************************************)
EXTENDS BudgetLedger, FiniteFacts

(* Charging a reservation leaves a well-formed row of the same run.        *)
LEMMA ChargedRow ==
  ASSUME NEW row \in ReservationRows, NEW tokens,
         NEW state \in {"settled", "retained"}
  PROVE  /\ tokens \in Nat => Charged(row, state, tokens) \in ReservationRows
         /\ Charged(row, state, tokens).state = state
         /\ Charged(row, state, tokens).run = row.run
BY DEF ReservationRows, Charged

(* Nor does retaining it.                                                  *)
LEMMA RetainedRow ==
  ASSUME NEW row \in ReservationRows
  PROVE  /\ Retained(row) \in ReservationRows
         /\ Retained(row).state = "retained"
         /\ Retained(row).run = row.run
<1>1. row.amount \in {0} \union Amounts
  BY DEF ReservationRows
<1>2. row.amount \in Nat
  BY <1>1, LedgerAssumption DEF Unknown
<1> QED BY <1>2 DEF Retained, Charged, ReservationRows

(* Every row has its type: the CHECK constraints of schema.ts.             *)
LEMMA LedgerTypeCorrect == LedgerSpec => []LedgerTypeOK
<1> USE LedgerAssumption DEF AgentRuns, HoldRows, ReservationRows, LedgerTypeOK
<1>1. LedgerInit => LedgerTypeOK
  BY DEF LedgerInit, NoHold, NoReservation
<1>2. LedgerTypeOK /\ [LedgerNext]_ledgerVars => LedgerTypeOK'
  <2> SUFFICES ASSUME LedgerTypeOK, [LedgerNext]_ledgerVars PROVE LedgerTypeOK'
    OBVIOUS
  <2>1. ASSUME NEW c \in Children, NEW amount \in Allocations, Hold(c, amount)
        PROVE  LedgerTypeOK'
    BY <2>1 DEF Hold
  <2>2. ASSUME NEW r \in AgentRuns, NEW q \in Requests, NEW amount \in Amounts,
               Reserve(r, q, amount)
        PROVE  LedgerTypeOK'
    BY <2>2 DEF Reserve
  <2>3. ASSUME NEW q \in Requests, NEW usage \in Usages, Settle(q, usage)
        PROVE  LedgerTypeOK'
    <3>1. usage # Unknown => usage \in Nat
      OBVIOUS
    <3>2. reservation[q] \in ReservationRows
      OBVIOUS
    <3> HIDE DEF ReservationRows
    <3> QED BY <2>3, <3>1, <3>2, ChargedRow, RetainedRow DEF Settle
  <2>4. ASSUME NEW r \in AgentRuns, FinishRun(r)
        PROVE  LedgerTypeOK'
    BY <2>4 DEF FinishRun
  <2>5. ASSUME NEW c \in Children, Release(c)
        PROVE  LedgerTypeOK'
    BY <2>5, SMTT(30) DEF Release
  <2>6. ASSUME NEW r \in AgentRuns, Fence(r)
        PROVE  LedgerTypeOK'
    BY <2>6 DEF Fence
  <2>7. CASE RecoverLedger
    <3> HIDE DEF ReservationRows
    <3> QED BY <2>7, RetainedRow DEF RecoverLedger
  <2>8. CASE UNCHANGED ledgerVars
    BY <2>8 DEF ledgerVars
  <2> QED BY <2>1, <2>2, <2>3, <2>4, <2>5, <2>6, <2>7, <2>8 DEF LedgerNext
<1> QED BY <1>1, <1>2, PTL DEF LedgerSpec

(* What release relies on and reserve preserves: no request of a released  *)
(* child awaits its settlement, and a row never written names no child.    *)
ReleasedIsQuiet ==
  /\ \A c \in Children : hold[c].state = "released" =>
       \A q \in Requests : reservation[q].run = c => ~IsReserved(q)
  /\ \A c \in Children : lifecycle[c] = "absent" => hold[c].state = "none"
  /\ \A q \in Requests : reservation[q].state = "none" =>
       reservation[q].run = Root

\* release refuses while a request is in flight, and reserve once it is released.
LEMMA ReleasedStaysQuiet == LedgerSpec => []ReleasedIsQuiet
<1> USE LedgerAssumption DEF AgentRuns, HoldRows, ReservationRows, LedgerTypeOK,
                             ReleasedIsQuiet, IsReserved
<1>1. LedgerInit => ReleasedIsQuiet
  BY DEF LedgerInit, NoHold, NoReservation
<1>2. LedgerTypeOK /\ ReleasedIsQuiet /\ [LedgerNext]_ledgerVars => ReleasedIsQuiet'
  <2> SUFFICES ASSUME LedgerTypeOK, ReleasedIsQuiet, [LedgerNext]_ledgerVars
               PROVE  ReleasedIsQuiet'
    OBVIOUS
  <2>1. ASSUME NEW c \in Children, NEW amount \in Allocations, Hold(c, amount)
        PROVE  ReleasedIsQuiet'
    BY <2>1 DEF Hold
  <2>2. ASSUME NEW r \in AgentRuns, NEW q \in Requests, NEW amount \in Amounts,
               Reserve(r, q, amount)
        PROVE  ReleasedIsQuiet'
    <3>1. r \in Children => hold[r].state = "held"
      BY <2>2 DEF Reserve, ReserveAllowed, ChildFits
    <3> QED BY <2>2, <3>1 DEF Reserve
  <2>3. ASSUME NEW q \in Requests, NEW usage \in Usages, Settle(q, usage)
        PROVE  ReleasedIsQuiet'
    <3>1. reservation[q] \in ReservationRows
      OBVIOUS
    <3> HIDE DEF ReservationRows
    <3> QED BY <2>3, <3>1, ChargedRow, RetainedRow DEF Settle
  <2>4. ASSUME NEW r \in AgentRuns, FinishRun(r)
        PROVE  ReleasedIsQuiet'
    BY <2>4 DEF FinishRun
  <2>5. ASSUME NEW c \in Children, Release(c)
        PROVE  ReleasedIsQuiet'
    BY <2>5 DEF Release, RequestsOf, Rows
  <2>6. ASSUME NEW r \in AgentRuns, Fence(r)
        PROVE  ReleasedIsQuiet'
    BY <2>6 DEF Fence
  <2>7. CASE RecoverLedger
    <3> HIDE DEF ReservationRows
    <3> QED BY <2>7, RetainedRow DEF RecoverLedger
  <2>8. CASE UNCHANGED ledgerVars
    BY <2>8 DEF ledgerVars
  <2> QED BY <2>1, <2>2, <2>3, <2>4, <2>5, <2>6, <2>7, <2>8 DEF LedgerNext
<1> QED BY <1>1, <1>2, LedgerTypeCorrect, PTL DEF LedgerSpec

(* No reservation is charged twice or refunded after its settlement.       *)
THEOREM EveryRequestIsChargedOnce == LedgerSpec => ChargedOnce
<1>1. LedgerTypeOK /\ [LedgerNext]_ledgerVars =>
        [\A q \in Requests :
           IsCharged(q) => reservation'[q] = reservation[q]]_ledgerVars
  <2> USE DEF LedgerTypeOK, ReservationRows, IsCharged, IsReserved
  <2> SUFFICES ASSUME LedgerTypeOK, LedgerNext, NEW q \in Requests, IsCharged(q)
               PROVE  reservation'[q] = reservation[q]
    OBVIOUS
  <2>1. ASSUME NEW r \in AgentRuns, NEW p \in Requests, NEW amount \in Amounts,
               Reserve(r, p, amount)
        PROVE  reservation'[q] = reservation[q]
    BY <2>1 DEF Reserve
  <2>2. ASSUME NEW p \in Requests, NEW usage \in Usages, Settle(p, usage)
        PROVE  reservation'[q] = reservation[q]
    BY <2>2 DEF Settle
  <2>3. CASE RecoverLedger
    BY <2>3 DEF RecoverLedger
  <2>4. CASE UNCHANGED reservation
    BY <2>4
  <2> QED BY <2>1, <2>2, <2>3, <2>4
             DEF LedgerNext, Hold, FinishRun, Release, Fence
<1> QED BY <1>1, LedgerTypeCorrect, PTL DEF LedgerSpec, ChargedOnce

(* What was given back is never spent: not by a request that settles late, *)
(* not by a retry, not by recovery.                                        *)
THEOREM ReleasedHoldsAreClosed == LedgerSpec => ReleasedIsClosed
<1>1. LedgerTypeOK /\ ReleasedIsQuiet /\ [LedgerNext]_ledgerVars =>
        [\A c \in Children :
           hold[c].state = "released" =>
             /\ hold'[c] = hold[c]
             /\ \A q \in Requests :
                  (reservation[q].run = c \/ reservation'[q].run = c) =>
                    reservation'[q] = reservation[q]]_ledgerVars
  <2> USE LedgerAssumption DEF LedgerTypeOK, HoldRows, ReservationRows,
          ReleasedIsQuiet, IsReserved, AgentRuns
  <2> SUFFICES ASSUME LedgerTypeOK, ReleasedIsQuiet, LedgerNext,
                      NEW c \in Children, hold[c].state = "released"
               PROVE  /\ hold'[c] = hold[c]
                      /\ \A q \in Requests :
                           (reservation[q].run = c
                              \/ reservation'[q].run = c) =>
                             reservation'[q] = reservation[q]
    OBVIOUS
  <2>1. ASSUME NEW d \in Children, NEW amount \in Allocations, Hold(d, amount)
        PROVE  hold'[c] = hold[c] /\ reservation' = reservation
    BY <2>1 DEF Hold
  <2>2. ASSUME NEW r \in AgentRuns, NEW p \in Requests, NEW amount \in Amounts,
               Reserve(r, p, amount)
        PROVE  /\ hold' = hold
               /\ \A q \in Requests : q # p => reservation'[q] = reservation[q]
               /\ reservation[p].run # c /\ reservation'[p].run # c
    <3>1. r # c
      BY <2>2 DEF Reserve, ReserveAllowed, ChildFits
    <3> QED BY <2>2, <3>1 DEF Reserve
  <2>3. ASSUME NEW p \in Requests, NEW usage \in Usages, Settle(p, usage)
        PROVE  /\ hold' = hold
               /\ \A q \in Requests : q # p => reservation'[q] = reservation[q]
               /\ reservation[p].run # c /\ reservation'[p].run # c
    <3>1. reservation[p] \in ReservationRows /\ reservation[p].run # c
      BY <2>3 DEF Settle
    <3> HIDE DEF ReservationRows
    <3> QED BY <2>3, <3>1, ChargedRow, RetainedRow DEF Settle
  <2>4. ASSUME NEW r \in AgentRuns, FinishRun(r) \/ Fence(r)
        PROVE  hold' = hold /\ reservation' = reservation
    BY <2>4 DEF FinishRun, Fence
  <2>5. ASSUME NEW d \in Children, Release(d)
        PROVE  hold'[c] = hold[c] /\ reservation' = reservation
    BY <2>5 DEF Release
  <2>6. CASE RecoverLedger
    <3>1. \A q \in Requests : reservation[q].run = c => ~IsReserved(q)
      OBVIOUS
    <3> HIDE DEF ReservationRows
    <3> QED BY <2>6, <3>1, RetainedRow DEF RecoverLedger
  <2> QED BY <2>1, <2>2, <2>3, <2>4, <2>5, <2>6 DEF LedgerNext
<1> QED BY <1>1, LedgerTypeCorrect, ReleasedStaysQuiet, PTL
           DEF LedgerSpec, ReleasedIsClosed

----
(***************************************************************************)
(* The ledger implements TaskBudget.  What its sums need of the rows:      *)
(* there are finitely many, none belongs to a child that was never         *)
(* admitted, and one in flight is an amount that was asked for, charged    *)
(* nothing.                                                                *)
(***************************************************************************)
RowsAddUp ==
  /\ IsFiniteSet(Rows)
  /\ IsFiniteSet(Held)
  /\ \A c \in Children : hold[c].state = "none" => hold[c].amount = 0
  /\ \A q \in Rows : reservation[q].run \in Children =>
       hold[reservation[q].run].state # "none"
  /\ \A q \in Requests : IsReserved(q) =>
       reservation[q].amount \in Amounts /\ reservation[q].charged = 0

\* The inductive invariant of the rows.
LInv == LedgerTypeOK /\ ReleasedIsQuiet /\ RowsAddUp

\* What may be granted, reserved or used are numbers.
LEMMA AmountsAreNatural ==
  /\ \A n \in Allocations : n \in Nat /\ n # 0
  /\ \A n \in Amounts : n \in Nat /\ n # 0
  /\ \A u \in Usages : u # Unknown => u \in Nat
<1>1. \A n \in Allocations \union Amounts : n \in Nat /\ n > 0
  BY LedgerAssumption
<1>2. \A u \in Usages : u # Unknown => u \in Nat
  BY LedgerAssumption
<1> QED BY <1>1, <1>2

(* What the rows of a state are worth: finite sets and natural numbers.    *)
SumsAreNumbers ==
  /\ \A q \in Requests : /\ Claims[q] = Claim(q)
                         /\ Charges[q] = reservation[q].charged
                         /\ Claims[q] \in Nat /\ Charges[q] \in Nat
                         /\ Overruns[q] \in Nat
                         /\ IsReserved(q) =>
                              /\ Claims[q] = reservation[q].amount
                              /\ Charges[q] = 0 /\ Overruns[q] = 0
                         /\ ~IsReserved(q) => Claims[q] = Charges[q]
  /\ \A c \in Children : hold[c].amount \in Nat
  /\ \A r \in AgentRuns : /\ IsFiniteSet(RequestsOf(r))
                     /\ RequestsOf(r) \subseteq Requests
                     /\ UsedBy(r) \in Nat /\ ChargedTo(r) \in Nat
                     /\ InFlightOf(r) \in Nat
  /\ \A c \in Children : UnusedHolds[c] \in Nat
  /\ Committed \in Int
  /\ Overage \in Nat

\* The rows are finitely many, so their sums are numbers.
LEMMA SumsType == LInv => SumsAreNumbers
<1> SUFFICES ASSUME LInv PROVE SumsAreNumbers
  OBVIOUS
<1> USE DEF LInv
<1>1. ASSUME NEW q \in Requests
      PROVE  /\ Claims[q] = Claim(q)
             /\ Charges[q] = reservation[q].charged
             /\ Claims[q] \in Nat /\ Charges[q] \in Nat
             /\ Overruns[q] \in Nat
             /\ IsReserved(q) => /\ Claims[q] = reservation[q].amount
                                 /\ Charges[q] = 0 /\ Overruns[q] = 0
             /\ ~IsReserved(q) => Claims[q] = Charges[q]
  <2>1. reservation[q] \in ReservationRows
    BY DEF LedgerTypeOK
  <2>2. reservation[q].amount \in Nat /\ reservation[q].charged \in Nat
    <3>1. /\ reservation[q].amount \in {0} \union Amounts
          /\ reservation[q].charged \in Nat
      BY <2>1 DEF ReservationRows
    <3> QED BY <3>1, AmountsAreNatural
  <2>3. IsReserved(q) => reservation[q].charged = 0
    BY DEF RowsAddUp
  <2> QED BY <2>2, <2>3 DEF Claims, Claim, Charges, Overruns, AtLeastZero
<1>2. ASSUME NEW c \in Children PROVE hold[c].amount \in Nat
  <2>1. hold[c] \in HoldRows
    BY DEF LedgerTypeOK
  <2>2. hold[c].amount \in {0} \union Allocations
    BY <2>1 DEF HoldRows
  <2> QED BY <2>2, AmountsAreNatural
<1>3. ASSUME NEW r \in AgentRuns
      PROVE  /\ IsFiniteSet(RequestsOf(r))
             /\ RequestsOf(r) \subseteq Requests
             /\ UsedBy(r) \in Nat /\ ChargedTo(r) \in Nat
             /\ InFlightOf(r) \in Nat
  <2>1. RequestsOf(r) \in SUBSET Rows /\ RequestsOf(r) \subseteq Requests
    BY DEF RequestsOf, Rows
  <2>2. IsFiniteSet(RequestsOf(r))
    BY <2>1, FS_Subset DEF RowsAddUp
  <2>3. UsedBy(r) \in Nat /\ ChargedTo(r) \in Nat
    BY <1>1, <2>1, <2>2, SumType DEF UsedBy, ChargedTo
  <2>4. \A q \in RequestsOf(r) :
          Charges[q] \in Int /\ Claims[q] \in Int /\ Charges[q] <= Claims[q]
    <3>1. \A q \in Requests : Charges[q] <= Claims[q]
      BY <1>1
    <3> QED BY <1>1, <2>1, <3>1
  <2>5. ChargedTo(r) <= UsedBy(r)
    BY <2>2, <2>4, SumMonotone DEF UsedBy, ChargedTo
  <2> QED BY <2>1, <2>2, <2>3, <2>5 DEF InFlightOf
<1>4. ASSUME NEW c \in Children PROVE UnusedHolds[c] \in Nat
  BY <1>2, <1>3 DEF UnusedHolds, AtLeastZero, AgentRuns
<1>5. Committed \in Int
  <2>1. SumFunctionOnSet(Claims, Rows) \in Int
    BY <1>1, SumType DEF Rows, RowsAddUp
  <2>2. SumFunctionOnSet(UnusedHolds, Held) \in Int
    BY <1>4, SumType DEF Held, RowsAddUp
  <2> QED BY <2>1, <2>2 DEF Committed
<1>6. Overage \in Nat
  BY <1>1, SumType DEF Overage, Rows, RowsAddUp
<1> QED BY <1>1, <1>2, <1>3, <1>4, <1>5, <1>6 DEF SumsAreNumbers

\* Also after a step.
LEMMA SumsTypeNext == LInv' => SumsAreNumbers'
BY SumsType, PTL

(* At first nothing is written: the rows add up, and the sums are zero.    *)
LEMMA RowsAddUpInit == LedgerInit => RowsAddUp
<1> SUFFICES ASSUME LedgerInit PROVE RowsAddUp
  OBVIOUS
<1>1. Rows = {} /\ Held = {}
  BY DEF LedgerInit, Rows, Held, NoHold, NoReservation
<1> QED BY <1>1, FS_EmptySet
        DEF LedgerInit, RowsAddUp, NoHold, NoReservation, IsReserved

\* Every step leaves finitely many rows, each in order.
LEMMA RowsAddUpStep == LInv /\ [LedgerNext]_ledgerVars => RowsAddUp'
<1> SUFFICES ASSUME LInv, [LedgerNext]_ledgerVars PROVE RowsAddUp'
  OBVIOUS
<1> USE DEF LInv, LedgerTypeOK, RowsAddUp
<1>1. ASSUME NEW c \in Children, NEW amount \in Allocations, Hold(c, amount)
      PROVE  RowsAddUp'
  <2>1. Rows' = Rows /\ Held' = Held \union {c}
    BY <1>1 DEF Hold, Rows, Held
  <2>2. IsFiniteSet(Held')
    BY <2>1, FS_AddElement
  <2>3. \A d \in Children :
          hold'[d] = IF d = c THEN [state |-> "held", amount |-> amount]
                     ELSE hold[d]
    BY <1>1 DEF Hold
  <2> QED BY <1>1, <2>1, <2>2, <2>3 DEF Hold, IsReserved
<1>2. ASSUME NEW r \in AgentRuns, NEW q \in Requests, NEW amount \in Amounts,
             Reserve(r, q, amount)
      PROVE  RowsAddUp'
  <2>1. Rows' = Rows \union {q} /\ Held' = Held
    BY <1>2 DEF Reserve, Rows, Held
  <2>2. IsFiniteSet(Rows')
    BY <2>1, FS_AddElement
  <2>3. \A p \in Requests :
          reservation'[p] =
            IF p = q THEN [state |-> "reserved", run |-> r,
                           amount |-> amount, charged |-> 0]
            ELSE reservation[p]
    BY <1>2 DEF Reserve
  <2>4. r \in Children => hold[r].state = "held"
    BY <1>2, LedgerAssumption DEF Reserve, ReserveAllowed, ChildFits
  <2> QED BY <1>2, <2>1, <2>2, <2>3, <2>4 DEF Reserve, IsReserved
<1>3. ASSUME NEW q \in Requests, NEW usage \in Usages, Settle(q, usage)
      PROVE  RowsAddUp'
  <2>1. reservation[q] \in ReservationRows
    OBVIOUS
  <2>2. /\ \A p \in Requests \ {q} : reservation'[p] = reservation[p]
        /\ reservation'[q].run = reservation[q].run
        /\ reservation'[q].state \in {"settled", "retained"}
    BY <1>3, <2>1, ChargedRow, RetainedRow DEF Settle
  <2>3. Rows' = Rows /\ Held' = Held
    BY <1>3, <2>2 DEF Settle, Rows, Held, IsReserved
  <2> QED BY <1>3, <2>2, <2>3 DEF Settle, IsReserved
<1>4. ASSUME NEW r \in AgentRuns, FinishRun(r) \/ Fence(r)
      PROVE  RowsAddUp'
  BY <1>4 DEF FinishRun, Fence, Rows, Held, IsReserved
<1>5. ASSUME NEW c \in Children, Release(c)
      PROVE  RowsAddUp'
  <2>1. Rows' = Rows /\ Held' = Held \ {c}
    BY <1>5 DEF Release, Rows, Held
  <2>2. IsFiniteSet(Held')
    BY <2>1, FS_RemoveElement
  <2>3. \A d \in Children :
          hold'[d].amount = hold[d].amount
            /\ (hold'[d].state = "none" <=> hold[d].state = "none")
    <3>1. hold \in [Children -> HoldRows]
      OBVIOUS
    <3> QED BY <1>5, <3>1 DEF Release, HoldRows
  <2> QED BY <1>5, <2>1, <2>2, <2>3 DEF Release, IsReserved
<1>6. CASE RecoverLedger
  <2>1. \A p \in Requests :
          /\ reservation'[p].run = reservation[p].run
          /\ reservation'[p].state # "reserved"
          /\ reservation'[p].state = "none" <=> reservation[p].state = "none"
    <3>1. \A p \in Requests : reservation[p] \in ReservationRows
      OBVIOUS
    <3> QED BY <1>6, <3>1, RetainedRow DEF RecoverLedger, IsReserved
  <2>2. Rows' = Rows /\ Held' = Held
    BY <1>6, <2>1 DEF RecoverLedger, Rows, Held
  <2>3. hold' = hold
    BY <1>6 DEF RecoverLedger
  <2>4. \A q \in Rows' : reservation'[q].run \in Children =>
          hold'[reservation'[q].run].state # "none"
    BY <2>1, <2>2, <2>3 DEF Rows
  <2> QED BY <2>1, <2>2, <2>3, <2>4 DEF IsReserved
<1>7. CASE UNCHANGED ledgerVars
  BY <1>7 DEF ledgerVars, Rows, Held, IsReserved
<1> QED BY <1>1, <1>2, <1>3, <1>4, <1>5, <1>6, <1>7 DEF LedgerNext

\* So it is in every reachable state.
LEMMA LedgerInvariant == LedgerSpec => []LInv
<1>1. LedgerSpec => [](LedgerTypeOK /\ ReleasedIsQuiet)
  BY LedgerTypeCorrect, ReleasedStaysQuiet, PTL
<1>2. LedgerTypeOK /\ ReleasedIsQuiet /\ RowsAddUp /\ [LedgerNext]_ledgerVars => RowsAddUp'
  BY RowsAddUpStep DEF LInv
<1> QED BY <1>1, <1>2, RowsAddUpInit, PTL DEF LedgerSpec, LInv

(* No request changes the sums of a run it does not belong to, and none    *)
(* changes what it does not touch.                                         *)
LEMMA SameSums ==
  ASSUME LInv, NEW r \in AgentRuns, RequestsOf(r)' = RequestsOf(r),
         \A q \in RequestsOf(r) :
           reservation'[q].state = reservation[q].state
             /\ reservation'[q].amount = reservation[q].amount
             /\ reservation'[q].charged = reservation[q].charged
  PROVE  UsedBy(r)' = UsedBy(r) /\ ChargedTo(r)' = ChargedTo(r)
<1>1. IsFiniteSet(RequestsOf(r)) /\ RequestsOf(r) \subseteq Requests
  BY SumsType DEF SumsAreNumbers
<1>2. \A q \in RequestsOf(r) :
        Claims[q] = Claims'[q] /\ Charges[q] = Charges'[q]
  BY <1>1 DEF Claims, Claim, Charges, IsReserved
<1>3. /\ SumFunctionOnSet(Claims, RequestsOf(r))
           = SumFunctionOnSet(Claims', RequestsOf(r))
      /\ SumFunctionOnSet(Charges, RequestsOf(r))
           = SumFunctionOnSet(Charges', RequestsOf(r))
  BY <1>1, <1>2, SumSame
<1> QED BY <1>3 DEF UsedBy, ChargedTo

(* What the abstract budget sees when nothing it looks at changed.         *)
LEMMA SameRows ==
  ASSUME LInv, reservation' = reservation
  PROVE  /\ Rows' = Rows /\ Claims' = Claims /\ Charges' = Charges
         /\ Overruns' = Overruns /\ Overage' = Overage
         /\ \A r : UsedBy(r)' = UsedBy(r) /\ ChargedTo(r)' = ChargedTo(r)
                    /\ InFlightOf(r)' = InFlightOf(r)
<1>1. Rows' = Rows /\ Claims' = Claims /\ Charges' = Charges /\ Overruns' = Overruns
  BY DEF Rows, Claims, Claim, IsReserved, Charges, Overruns
<1>2. \A r : RequestsOf(r)' = RequestsOf(r)
  BY <1>1 DEF RequestsOf
<1> QED BY <1>1, <1>2 DEF Overage, UsedBy, ChargedTo, InFlightOf

(* What the abstract budget calls used, unclaimed and reserved is what the *)
(* ledger adds up.                                                         *)
LEMMA SameWords ==
  ASSUME LInv
  PROVE  /\ \A r \in AgentRuns : Budget!Used(r) = UsedBy(r)
         /\ \A c \in Children : \A n : Budget!Unclaimed(c, n) = AtLeastZero(hold[c].amount - n)
         /\ Budget!CoordinatorReserve = CoordinatorReserve
<1>1. ASSUME NEW r \in AgentRuns PROVE Budget!Used(r) = UsedBy(r)
  <2>1. UsedBy(r) \in Nat /\ ChargedTo(r) \in Nat
    BY SumsType DEF SumsAreNumbers
  <2> QED BY <2>1 DEF Budget!Used, InFlightOf
<1>2. Root \in AgentRuns
  BY DEF AgentRuns
<1> QED BY <1>1, <1>2 DEF Budget!Unclaimed, Budget!CoordinatorReserve,
             CoordinatorReserve, Budget!AtLeastZero, AtLeastZero

\* Holding a child's budget grants it.
LEMMA HoldGrants ==
  ASSUME LInv, LInv', NEW c \in Children, NEW amount \in Allocations,
         Hold(c, amount)
  PROVE  Budget!Grant(c, amount)
<1> USE DEF LInv
<1>1. hold[c].state = "none" /\ hold[c].amount = 0 /\ c \notin Held
  BY DEF Hold, ReleasedIsQuiet, RowsAddUp, Held
<1>2. UsedBy(c) = 0 /\ c \in AgentRuns
  <2>1. RequestsOf(c) = {}
    BY <1>1 DEF RequestsOf, RowsAddUp
  <2> QED BY <2>1, SumEmpty DEF UsedBy, AgentRuns
<1>3. reservation' = reservation
  BY DEF Hold
<1>4. hold' = [hold EXCEPT ![c] = [state |-> "held", amount |-> amount]]
  BY DEF Hold
<1>5. hold \in [Children -> HoldRows]
  BY DEF LedgerTypeOK
<1>6. Held' = Held \union {c}
  BY <1>4, <1>5 DEF Held
<1>7. /\ \A d \in Held : UnusedHolds'[d] = UnusedHolds[d]
      /\ UnusedHolds'[c] = amount
  <2>1. \A d \in Children : UsedBy(d)' = UsedBy(d)
    BY <1>3, SameRows
  <2>2. \A d \in Held : d \in Children /\ d # c
    BY <1>1 DEF Held
  <2>3. \A d \in Held : hold'[d] = hold[d]
    BY <1>4, <1>5, <2>2
  <2>4. UnusedHolds'[c] = AtLeastZero(amount - 0)
    BY <1>2, <1>4, <1>5, <2>1 DEF UnusedHolds
  <2>5. amount \in Nat
    BY AmountsAreNatural
  <2> QED BY <2>1, <2>2, <2>3, <2>4, <2>5 DEF UnusedHolds, AtLeastZero
<1>8. Committed' = Committed + amount
  <2>1. IsFiniteSet(Held) /\ amount \in Nat
    BY AmountsAreNatural DEF RowsAddUp
  <2>2. \A d \in Held \union {c} : UnusedHolds'[d] \in Int
    <3>1. \A d \in Children : UnusedHolds'[d] \in Nat
      BY SumsTypeNext DEF SumsAreNumbers
    <3> QED BY <3>1 DEF Held
  <2>3. SumFunctionOnSet(UnusedHolds', Held')
          = SumFunctionOnSet(UnusedHolds', Held) + amount
    BY <1>1, <1>6, <1>7, <2>1, <2>2, SumAdd
  <2>4. SumFunctionOnSet(UnusedHolds', Held) = SumFunctionOnSet(UnusedHolds, Held)
    BY <1>7, <2>1, SumSame
  <2>5. SumFunctionOnSet(UnusedHolds, Held) \in Int
    <3>1. \A d \in Held : UnusedHolds[d] \in Int
      BY SumsType DEF SumsAreNumbers, Held
    <3> QED BY <2>1, <3>1, SumType
  <2>6. SumFunctionOnSet(Claims, Rows) \in Int
    <3>1. \A q \in Rows : Claims[q] \in Int
      BY SumsType DEF SumsAreNumbers, Rows
    <3> QED BY <3>1, SumType DEF RowsAddUp
  <2>7. SumFunctionOnSet(Claims', Rows') = SumFunctionOnSet(Claims, Rows)
    BY <1>3, SameRows
  <2> QED BY <2>1, <2>3, <2>4, <2>5, <2>6, <2>7 DEF Committed
<1>9. /\ [d \in Children |-> hold[d].amount][c] = 0
      /\ [d \in Children |-> hold'[d].amount]
           = [[d \in Children |-> hold[d].amount] EXCEPT ![c] = amount]
  BY <1>1, <1>4, <1>5
<1>10. Committed + Budget!CoordinatorReserve + amount <= Cap
  BY SameWords DEF Hold, HoldFits
<1>11. Budget!Used(c) = 0
  BY <1>2, SameWords
<1>6a. /\ [r \in AgentRuns |-> ChargedTo(r)]' = [r \in AgentRuns |-> ChargedTo(r)]
       /\ [r \in AgentRuns |-> InFlightOf(r)]' = [r \in AgentRuns |-> InFlightOf(r)]
       /\ Overage' = Overage
  BY <1>3, SameRows
<1> QED BY <1>6, <1>8, <1>9, <1>10, <1>11, <1>6a DEF Budget!Grant

(* What the ledger's sums make of one row that is written.                 *)
Before(f, q) == IF q \in Rows THEN f[q] ELSE 0

\* Writing one row moves the sums of its run by what the row moves, no others.
LEMMA OneRow ==
  ASSUME LInv, LInv', NEW q \in Requests, NEW r \in AgentRuns,
         \A p \in Requests \ {q} : reservation'[p] = reservation[p],
         reservation'[q].run = r, reservation'[q].state # "none",
         q \in Rows => reservation[q].run = r
  PROVE  /\ UsedBy(r)' = UsedBy(r) + Claims'[q] - Before(Claims, q)
         /\ ChargedTo(r)' = ChargedTo(r) + Charges'[q] - Before(Charges, q)
         /\ \A s \in AgentRuns \ {r} :
              UsedBy(s)' = UsedBy(s) /\ ChargedTo(s)' = ChargedTo(s)
         /\ SumFunctionOnSet(Claims', Rows') =
              SumFunctionOnSet(Claims, Rows) + Claims'[q] - Before(Claims, q)
         /\ Overage' = Overage + Overruns'[q] - Before(Overruns, q)
<1>1. Rows' = Rows \union {q} /\ RequestsOf(r)' = RequestsOf(r) \union {q}
  BY DEF Rows, RequestsOf
<1>2. \A s \in AgentRuns \ {r} : RequestsOf(s)' = RequestsOf(s) /\ q \notin RequestsOf(s)
  BY <1>1 DEF Rows, RequestsOf
<1>3. \A p \in Requests \ {q} :
        /\ Claims[p] = Claims'[p] /\ Charges[p] = Charges'[p]
        /\ Overruns[p] = Overruns'[p]
  BY DEF Claims, Claim, IsReserved, Charges, Overruns
<1>4. /\ \A p \in Requests : /\ Claims[p] \in Int /\ Claims'[p] \in Int
                             /\ Charges[p] \in Int /\ Charges'[p] \in Int
                             /\ Overruns[p] \in Int /\ Overruns'[p] \in Int
      /\ IsFiniteSet(RequestsOf(r)) /\ RequestsOf(r) \subseteq Requests
      /\ \A s \in AgentRuns : RequestsOf(s) \subseteq Requests
  BY SumsType, SumsTypeNext DEF SumsAreNumbers
<1>5. IsFiniteSet(Rows) /\ Rows \subseteq Requests
  BY DEF LInv, RowsAddUp, Rows
<1>6. q \in RequestsOf(r) <=> q \in Rows
  BY DEF RequestsOf
<1>6a. ASSUME NEW S, S \in {RequestsOf(r), Rows}
       PROVE  /\ SumFunctionOnSet(Claims', S \union {q}) =
                   SumFunctionOnSet(Claims, S) + Claims'[q] - Before(Claims, q)
              /\ SumFunctionOnSet(Charges', S \union {q}) =
                   SumFunctionOnSet(Charges, S) + Charges'[q] - Before(Charges, q)
              /\ SumFunctionOnSet(Overruns', S \union {q}) =
                   SumFunctionOnSet(Overruns, S) + Overruns'[q] - Before(Overruns, q)
  <2>1. IsFiniteSet(S) /\ S \subseteq Requests /\ (q \in S <=> q \in Rows)
    BY <1>4, <1>5, <1>6, <1>6a
  <2>2. \A p \in S : Claims[p] \in Int /\ Charges[p] \in Int /\ Overruns[p] \in Int
    BY <1>4, <2>1
  <2>3. \A p \in S \union {q} :
          Claims'[p] \in Int /\ Charges'[p] \in Int /\ Overruns'[p] \in Int
    BY <1>4, <2>1
  <2>4. \A p \in S \ {q} : /\ Claims[p] = Claims'[p] /\ Charges[p] = Charges'[p]
                           /\ Overruns[p] = Overruns'[p]
    BY <1>3, <2>1
  <2>5. ASSUME NEW f, NEW g, \A p \in S : f[p] \in Int,
               \A p \in S \union {q} : g[p] \in Int,
               \A p \in S \ {q} : f[p] = g[p]
        PROVE  SumFunctionOnSet(g, S \union {q}) =
                 SumFunctionOnSet(f, S) + g[q] - Before(f, q)
    <3> HIDE DEF LInv
    <3>1. IsFiniteSet(S)
      BY <2>1
    <3>2. /\ q \in S => SumFunctionOnSet(g, S \union {q}) =
                         SumFunctionOnSet(f, S) + g[q] - f[q]
          /\ q \notin S => SumFunctionOnSet(g, S \union {q}) =
                            SumFunctionOnSet(f, S) + g[q]
      BY ONLY <3>1, <2>5, SumWrite
    <3>3. q \notin S => SumFunctionOnSet(f, S) \in Int /\ g[q] \in Int
      BY <3>1, <2>5, SumType
    <3> QED BY <2>1, <3>2, <3>3 DEF Before
  <2> QED BY <2>2, <2>3, <2>4, <2>5
<1>7. UsedBy(r)' = UsedBy(r) + Claims'[q] - Before(Claims, q)
  BY <1>1, <1>6a DEF UsedBy
<1>8. ChargedTo(r)' = ChargedTo(r) + Charges'[q] - Before(Charges, q)
  BY <1>1, <1>6a DEF ChargedTo
<1>9. ASSUME NEW s \in AgentRuns \ {r}
      PROVE  UsedBy(s)' = UsedBy(s) /\ ChargedTo(s)' = ChargedTo(s)
  <2>1. \A p \in RequestsOf(s) : reservation'[p] = reservation[p]
    BY <1>2, <1>4
  <2> QED BY <1>2, <2>1, SameSums
<1>10. SumFunctionOnSet(Claims', Rows') =
         SumFunctionOnSet(Claims, Rows) + Claims'[q] - Before(Claims, q)
  BY <1>1, <1>6a
<1>11. Overage' = Overage + Overruns'[q] - Before(Overruns, q)
  BY <1>1, <1>6a DEF Overage
<1> QED BY <1>7, <1>8, <1>9, <1>10, <1>11

(* Only the hold of the run whose claims changed is worth more or less.    *)
LEMMA OneHold ==
  ASSUME LInv, LInv', hold' = hold, NEW r \in AgentRuns,
         \A s \in AgentRuns \ {r} : UsedBy(s)' = UsedBy(s)
  PROVE  /\ Held' = Held
         /\ r \in Held =>
              SumFunctionOnSet(UnusedHolds', Held') =
                SumFunctionOnSet(UnusedHolds, Held) + UnusedHolds'[r] - UnusedHolds[r]
         /\ r \notin Held =>
              SumFunctionOnSet(UnusedHolds', Held')
                = SumFunctionOnSet(UnusedHolds, Held)
<1>1. Held' = Held /\ IsFiniteSet(Held) /\ Held \subseteq Children
  BY DEF Held, LInv, RowsAddUp
<1>2. \A c \in Held \ {r} : UnusedHolds[c] = UnusedHolds'[c]
  BY <1>1 DEF UnusedHolds, AgentRuns
<1>3. \A c \in Held : UnusedHolds[c] \in Int /\ UnusedHolds'[c] \in Int
  BY <1>1, SumsType, SumsTypeNext DEF SumsAreNumbers
<1>4. r \in Held =>
        SumFunctionOnSet(UnusedHolds', Held) =
          SumFunctionOnSet(UnusedHolds, Held) + UnusedHolds'[r] - UnusedHolds[r]
  BY <1>1, <1>2, <1>3, SumUpdate
<1>5. r \notin Held =>
        SumFunctionOnSet(UnusedHolds', Held) = SumFunctionOnSet(UnusedHolds, Held)
  BY <1>1, <1>2, SumSame
<1> QED BY <1>1, <1>4, <1>5

(* The two parts of what is committed are numbers.                         *)
LEMMA Parts ==
  LInv => /\ SumFunctionOnSet(Claims, Rows) \in Int
          /\ SumFunctionOnSet(UnusedHolds, Held) \in Int
<1> SUFFICES ASSUME LInv PROVE /\ SumFunctionOnSet(Claims, Rows) \in Int
                               /\ SumFunctionOnSet(UnusedHolds, Held) \in Int
  OBVIOUS
<1>1. IsFiniteSet(Rows) /\ \A q \in Rows : Claims[q] \in Int
  BY SumsType DEF SumsAreNumbers, Rows, LInv, RowsAddUp
<1>2. IsFiniteSet(Held) /\ \A c \in Held : UnusedHolds[c] \in Int
  BY SumsType DEF SumsAreNumbers, Held, LInv, RowsAddUp
<1> QED BY <1>1, <1>2, SumType

\* Reserving claims, from the child's own or from the shared budget.
LEMMA ReserveClaims ==
  ASSUME LInv, LInv', NEW r \in AgentRuns, NEW q \in Requests, NEW amount \in Amounts,
         Reserve(r, q, amount)
  PROVE  /\ r \in Children => Budget!ClaimOwn(r, amount)
         /\ r = Root => Budget!ClaimShared(amount)
<1>1. /\ reservation \in [Requests -> ReservationRows]
      /\ reservation' = [reservation EXCEPT ![q] =
           [state |-> "reserved", run |-> r, amount |-> amount, charged |-> 0]]
      /\ hold' = hold /\ q \notin Rows
  BY DEF Reserve, Rows, LInv, LedgerTypeOK
<1>2. /\ UsedBy(r)' = UsedBy(r) + Claims'[q] - Before(Claims, q)
      /\ ChargedTo(r)' = ChargedTo(r) + Charges'[q] - Before(Charges, q)
      /\ \A s \in AgentRuns \ {r} :
           UsedBy(s)' = UsedBy(s) /\ ChargedTo(s)' = ChargedTo(s)
      /\ SumFunctionOnSet(Claims', Rows') =
           SumFunctionOnSet(Claims, Rows) + Claims'[q] - Before(Claims, q)
      /\ Overage' = Overage + Overruns'[q] - Before(Overruns, q)
  BY <1>1, OneRow
<1>3. amount \in Nat
  BY AmountsAreNatural
<1>4. Claims'[q] = amount /\ Charges'[q] = 0 /\ Overruns'[q] = 0
  BY <1>1, <1>3 DEF Claims, Claim, IsReserved, Charges, Overruns, AtLeastZero
<1>5. Before(Claims, q) = 0 /\ Before(Charges, q) = 0 /\ Before(Overruns, q) = 0
  BY <1>1 DEF Before
<1>6. UsedBy(r) \in Nat /\ ChargedTo(r) \in Nat /\ Overage \in Nat
  BY SumsType DEF SumsAreNumbers
<1>7. /\ UsedBy(r)' = UsedBy(r) + amount
      /\ ChargedTo(r)' = ChargedTo(r)
      /\ InFlightOf(r)' = InFlightOf(r) + amount
      /\ Overage' = Overage
      /\ SumFunctionOnSet(Claims', Rows') = SumFunctionOnSet(Claims, Rows) + amount
  BY <1>2, <1>3, <1>4, <1>5, <1>6, Parts DEF InFlightOf
<1>8. /\ [s \in AgentRuns |-> ChargedTo(s)]' = [s \in AgentRuns |-> ChargedTo(s)]
      /\ [s \in AgentRuns |-> InFlightOf(s)]' =
           [[s \in AgentRuns |-> InFlightOf(s)] EXCEPT ![r] = @ + amount]
  <2>1. \A s \in AgentRuns : ChargedTo(s)' = ChargedTo(s)
    BY <1>2, <1>7
  <2>2. \A s \in AgentRuns \ {r} : InFlightOf(s)' = InFlightOf(s)
    BY <1>2 DEF InFlightOf
  <2> QED BY <1>7, <2>1, <2>2
<1>9. [c \in Children |-> hold[c].amount]' = [c \in Children |-> hold[c].amount]
  BY <1>1
<1>10. ASSUME r \in Children PROVE Budget!ClaimOwn(r, amount)
  <2>1. /\ r \in Held /\ UsedBy(r) + amount <= hold[r].amount
        /\ Committed <= Cap
    BY <1>10, LedgerAssumption DEF Reserve, ReserveAllowed, ChildFits, Held
  <2>2. hold[r].amount \in Nat
    BY <1>10, SumsType DEF SumsAreNumbers
  <2>3. /\ UnusedHolds[r] = hold[r].amount - UsedBy(r)
        /\ UnusedHolds'[r] = hold[r].amount - UsedBy(r) - amount
    BY <1>1, <1>3, <1>6, <1>7, <1>10, <2>1, <2>2 DEF UnusedHolds, AtLeastZero
  <2>4. /\ Held' = Held
        /\ SumFunctionOnSet(UnusedHolds', Held') =
             SumFunctionOnSet(UnusedHolds, Held) + UnusedHolds'[r] - UnusedHolds[r]
    BY <1>1, <1>2, <2>1, OneHold
  <2>5. Committed' = Committed
    BY <1>3, <1>6, <1>7, <2>2, <2>3, <2>4, Parts DEF Committed
  <2>6. Budget!Used(r) = UsedBy(r)
    BY SameWords
  <2>7. [c \in Children |-> hold[c].amount][r] = hold[r].amount
    BY <1>10
  <2> QED BY <1>7, <1>8, <1>9, <2>1, <2>4, <2>5, <2>6, <2>7 DEF Budget!ClaimOwn
<1>11. ASSUME r = Root PROVE Budget!ClaimShared(amount)
  <2>1. Committed + amount <= Cap /\ r \notin Held
    BY <1>11, LedgerAssumption DEF Reserve, ReserveAllowed, Held
  <2>2. /\ Held' = Held
        /\ SumFunctionOnSet(UnusedHolds', Held') = SumFunctionOnSet(UnusedHolds, Held)
    BY <1>1, <1>2, <2>1, OneHold
  <2>3. Committed' = Committed + amount
    BY <1>3, <1>7, <2>2, Parts DEF Committed
  <2> QED BY <1>7, <1>8, <1>9, <1>11, <2>1, <2>2, <2>3 DEF Budget!ClaimShared
<1> QED BY <1>10, <1>11

(* A request that is settled is charged what it used, or all it reserved.  *)
SettledFor(q, usage) == IF usage = Unknown THEN reservation[q].amount ELSE usage

\* Settling charges what was used, or all that was reserved.
LEMMA SettleCharges ==
  ASSUME LInv, LInv', NEW q \in Requests, NEW usage \in Usages, Settle(q, usage),
         NEW r, r = reservation[q].run,
         NEW amount, amount = reservation[q].amount,
         NEW used, used = SettledFor(q, usage)
  PROVE  /\ r \in AgentRuns /\ amount \in Amounts
         /\ used \in (Usages \ {Unknown}) \union Amounts
         /\ Budget!Charge(r, amount, used)
<1>1. /\ reservation[q] \in ReservationRows
      /\ reservation[q].state = "reserved"
      /\ q \in Rows /\ r \in AgentRuns /\ amount \in Amounts
      /\ hold' = hold
  BY DEF Settle, LInv, LedgerTypeOK, RowsAddUp, IsReserved, Rows, ReservationRows
<1>2. /\ amount \in Nat /\ used \in Nat
      /\ used \in (Usages \ {Unknown}) \union Amounts
  BY <1>1, AmountsAreNatural DEF SettledFor
<1>3. /\ \A p \in Requests \ {q} : reservation'[p] = reservation[p]
      /\ reservation'[q].run = r
      /\ reservation'[q].amount = amount
      /\ reservation'[q].charged = used
      /\ reservation'[q].state \in {"settled", "retained"}
  <2>1. reservation' = [reservation EXCEPT ![q] =
          IF usage = Unknown THEN Retained(reservation[q])
          ELSE Charged(reservation[q], "settled", usage)]
    BY DEF Settle
  <2>2. reservation \in [Requests -> ReservationRows]
    BY DEF LInv, LedgerTypeOK
  <2>3. \A state \in {"settled", "retained"} : \A n :
          /\ Charged(reservation[q], state, n).run = r
          /\ Charged(reservation[q], state, n).amount = amount
          /\ Charged(reservation[q], state, n).charged = n
          /\ Charged(reservation[q], state, n).state = state
    BY <1>1 DEF Charged, ReservationRows
  <2>4. reservation'[q] = IF usage = Unknown
                          THEN Charged(reservation[q], "retained", amount)
                          ELSE Charged(reservation[q], "settled", usage)
    BY <2>1, <2>2 DEF Retained
  <2>5. \A p \in Requests \ {q} : reservation'[p] = reservation[p]
    BY <2>1, <2>2
  <2> QED BY <2>3, <2>4, <2>5 DEF SettledFor
<1>4. /\ UsedBy(r)' = UsedBy(r) + Claims'[q] - Before(Claims, q)
      /\ ChargedTo(r)' = ChargedTo(r) + Charges'[q] - Before(Charges, q)
      /\ \A s \in AgentRuns \ {r} :
           UsedBy(s)' = UsedBy(s) /\ ChargedTo(s)' = ChargedTo(s)
      /\ SumFunctionOnSet(Claims', Rows') =
           SumFunctionOnSet(Claims, Rows) + Claims'[q] - Before(Claims, q)
      /\ Overage' = Overage + Overruns'[q] - Before(Overruns, q)
  BY <1>1, <1>3, OneRow
<1>5. /\ Claims'[q] = used /\ Charges'[q] = used
      /\ Overruns'[q] = AtLeastZero(used - amount)
  BY <1>3 DEF Claims, Claim, IsReserved, Charges, Overruns
<1>6. /\ Before(Claims, q) = amount /\ Before(Charges, q) = 0
      /\ Before(Overruns, q) = 0
  BY <1>1, SumsType DEF SumsAreNumbers, Before, IsReserved
<1>7. /\ UsedBy(r) \in Nat /\ ChargedTo(r) \in Nat /\ Overage \in Nat
      /\ InFlightOf(r) \in Nat /\ InFlightOf(r)' \in Nat
  <2>1. /\ InFlightOf(r) \in Nat /\ UsedBy(r) \in Nat /\ ChargedTo(r) \in Nat
        /\ Overage \in Nat
    BY <1>1, SumsType DEF SumsAreNumbers
  <2>2. \A s \in AgentRuns : InFlightOf(s)' \in Nat
    BY SumsTypeNext DEF SumsAreNumbers
  <2> QED BY <1>1, <2>1, <2>2
<1>8. /\ UsedBy(r)' = UsedBy(r) + used - amount
      /\ ChargedTo(r)' = ChargedTo(r) + used
      /\ Overage' = Overage + AtLeastZero(used - amount)
      /\ SumFunctionOnSet(Claims', Rows')
           = SumFunctionOnSet(Claims, Rows) + (used - amount)
  BY <1>2, <1>4, <1>5, <1>6, <1>7, Parts DEF AtLeastZero
<1>9. InFlightOf(r)' = InFlightOf(r) - amount /\ amount <= InFlightOf(r)
  BY <1>2, <1>7, <1>8 DEF InFlightOf
<1>10. /\ [s \in AgentRuns |-> ChargedTo(s)]' =
            [[s \in AgentRuns |-> ChargedTo(s)] EXCEPT ![r] = @ + used]
       /\ [s \in AgentRuns |-> InFlightOf(s)]' =
            [[s \in AgentRuns |-> InFlightOf(s)] EXCEPT ![r] = @ - amount]
       /\ [s \in AgentRuns |-> InFlightOf(s)][r] = InFlightOf(r)
  <2>1. \A s \in AgentRuns \ {r} :
          ChargedTo(s)' = ChargedTo(s) /\ InFlightOf(s)' = InFlightOf(s)
    BY <1>4 DEF InFlightOf
  <2> QED BY <1>1, <1>8, <1>9, <2>1
<1>11. Budget!Used(r) = UsedBy(r)
  BY <1>1, SameWords
<1>12. Held' = Held /\ Committed' = Committed + (used - amount)
          + IF r \in Held THEN Budget!Unclaimed(r, Budget!Used(r) + used - amount)
                                - Budget!Unclaimed(r, Budget!Used(r))
            ELSE 0
  <2>1. CASE r \in Held
    <3>1. /\ Held' = Held
          /\ SumFunctionOnSet(UnusedHolds', Held') =
               SumFunctionOnSet(UnusedHolds, Held) + UnusedHolds'[r] - UnusedHolds[r]
      BY <1>1, <1>4, <2>1, OneHold
    <3>2. r \in Children /\ hold[r].amount \in Nat
      BY <2>1, SumsType DEF SumsAreNumbers, Held
    <3>3. /\ UnusedHolds[r] = AtLeastZero(hold[r].amount - UsedBy(r))
          /\ UnusedHolds'[r] = AtLeastZero(hold[r].amount - (UsedBy(r) + used - amount))
      BY <1>1, <1>8, <3>2 DEF UnusedHolds
    <3>4. /\ UnusedHolds[r] = Budget!Unclaimed(r, Budget!Used(r))
          /\ UnusedHolds'[r] = Budget!Unclaimed(r, Budget!Used(r) + used - amount)
      BY <1>11, <3>2, <3>3, SameWords
    <3>5. UnusedHolds[r] \in Int /\ UnusedHolds'[r] \in Int
      BY <1>2, <1>7, <3>2, <3>3 DEF AtLeastZero
    <3>6. Committed' = Committed + (used - amount) + (UnusedHolds'[r] - UnusedHolds[r])
      BY <1>2, <1>8, <3>1, <3>5, Parts DEF Committed
    <3> QED BY <2>1, <3>1, <3>4, <3>6
  <2>2. CASE r \notin Held
    <3>1. /\ Held' = Held
          /\ SumFunctionOnSet(UnusedHolds', Held') = SumFunctionOnSet(UnusedHolds, Held)
      BY <1>1, <1>4, <2>2, OneHold
    <3>2. Committed' = Committed + (used - amount)
      BY <1>2, <1>8, <3>1, Parts DEF Committed
    <3> QED BY <1>2, <2>2, <3>1, <3>2, SumsType DEF SumsAreNumbers
  <2> QED BY <2>1, <2>2
<1>13. [c \in Children |-> hold[c].amount]' = [c \in Children |-> hold[c].amount]
  BY <1>1
<1>14. AtLeastZero(used - amount) = Budget!AtLeastZero(used - amount)
  BY DEF AtLeastZero, Budget!AtLeastZero
<1>15. Budget!Charge(r, amount, used)
  BY <1>8, <1>9, <1>10, <1>12, <1>13, <1>14 DEF Budget!Charge
<1> QED BY <1>1, <1>2, <1>15

\* A restart charges every reservation whole.
LEMMA RestartRetains ==
  ASSUME LInv, LInv', RecoverLedger
  PROVE  Budget!RetainAll
<1>1. \A q \in Requests :
        /\ reservation[q] \in ReservationRows
        /\ reservation'[q] = IF IsReserved(q) THEN Retained(reservation[q])
                             ELSE reservation[q]
  BY DEF RecoverLedger, LInv, LedgerTypeOK
<1>2. \A q \in Requests :
        /\ reservation'[q].run = reservation[q].run
        /\ reservation'[q].amount = reservation[q].amount
        /\ reservation'[q].state # "reserved"
        /\ reservation'[q].state = "none" <=> reservation[q].state = "none"
        /\ reservation'[q].charged = IF IsReserved(q) THEN reservation[q].amount
                                     ELSE reservation[q].charged
  BY <1>1 DEF Retained, Charged, ReservationRows, IsReserved
<1>3. Rows' = Rows /\ \A r : RequestsOf(r)' = RequestsOf(r)
  BY <1>2 DEF Rows, RequestsOf
<1>4. Claims' = Claims /\ Charges' = Claims
  BY <1>2 DEF Claims, Claim, Charges, IsReserved
<1>5. Overruns' = Overruns
  <2>1. \A q \in Requests : IsReserved(q) =>
          reservation[q].amount \in Nat /\ reservation[q].charged = 0
    BY AmountsAreNatural DEF LInv, RowsAddUp
  <2>2. \A q \in Requests :
          AtLeastZero(reservation'[q].charged - reservation'[q].amount)
            = AtLeastZero(reservation[q].charged - reservation[q].amount)
    BY <1>2, <2>1 DEF AtLeastZero
  <2> QED BY <2>2 DEF Overruns
<1>6. \A r \in AgentRuns : /\ UsedBy(r)' = UsedBy(r) /\ ChargedTo(r)' = UsedBy(r)
                     /\ InFlightOf(r)' = 0
  <2>1. \A r \in AgentRuns : UsedBy(r)' = UsedBy(r) /\ ChargedTo(r)' = UsedBy(r)
    BY <1>3, <1>4 DEF UsedBy, ChargedTo
  <2>2. \A r \in AgentRuns : UsedBy(r) \in Nat
    BY SumsType DEF SumsAreNumbers
  <2> QED BY <2>1, <2>2 DEF InFlightOf
<1>7. hold' = hold /\ Held' = Held
  BY DEF RecoverLedger, Held
<1>8. UnusedHolds' = UnusedHolds
  BY <1>6, <1>7 DEF UnusedHolds, AgentRuns
<1>9. Committed' = Committed /\ Overage' = Overage
  BY <1>3, <1>4, <1>5, <1>7, <1>8 DEF Committed, Overage
<1>10. \A r \in AgentRuns : Budget!Used(r) = UsedBy(r)
  BY SameWords
<1> QED BY <1>6, <1>7, <1>9, <1>10 DEF Budget!RetainAll, Budget!Runs, AgentRuns

\* Releasing a hold returns what the child did not use.
LEMMA ReleaseReturns ==
  ASSUME LInv, LInv', NEW c \in Children, Release(c)
  PROVE  Budget!Return(c)
<1>1. /\ hold \in [Children -> HoldRows]
      /\ hold' = [hold EXCEPT ![c].state = "released"]
      /\ reservation' = reservation
      /\ c \in Held /\ c \in AgentRuns
  BY DEF Release, LInv, LedgerTypeOK, Held, AgentRuns
<1>2. /\ \A d \in Children : hold'[d].amount = hold[d].amount
      /\ Held' = Held \ {c}
  BY <1>1 DEF HoldRows, Held
<1>3. InFlightOf(c) = 0
  <2>1. \A q \in RequestsOf(c) : q \in Requests /\ ~IsReserved(q)
    BY DEF Release, RequestsOf, Rows
  <2>2. \A q \in RequestsOf(c) : Claims[q] = Charges[q]
    BY <2>1, SumsType DEF SumsAreNumbers
  <2>3. IsFiniteSet(RequestsOf(c)) /\ UsedBy(c) \in Nat
    BY <1>1, SumsType DEF SumsAreNumbers
  <2>4. UsedBy(c) = ChargedTo(c)
    BY <2>2, <2>3, SumSame DEF UsedBy, ChargedTo
  <2> QED BY <2>3, <2>4 DEF InFlightOf
<1>4. UnusedHolds' = UnusedHolds
  BY <1>1, <1>2, SameRows DEF UnusedHolds
<1>5. Committed' = Committed - UnusedHolds[c]
  <2>1. IsFiniteSet(Held) /\ \A d \in Held : UnusedHolds[d] \in Int
    BY SumsType DEF SumsAreNumbers, Held, LInv, RowsAddUp
  <2>2. SumFunctionOnSet(UnusedHolds, Held) =
          UnusedHolds[c] + SumFunctionOnSet(UnusedHolds, Held')
    BY <1>1, <1>2, <2>1, SumPick
  <2>3. SumFunctionOnSet(UnusedHolds, Held') \in Int
    <3>1. IsFiniteSet(Held') /\ \A d \in Held' : UnusedHolds[d] \in Int
      BY <1>2, <2>1, FS_RemoveElement
    <3> QED BY <3>1, SumType
  <2>4. SumFunctionOnSet(Claims', Rows') = SumFunctionOnSet(Claims, Rows)
    BY <1>1, SameRows
  <2> QED BY <1>1, <1>4, <2>1, <2>2, <2>3, <2>4, Parts DEF Committed
<1>6. UnusedHolds[c] = Budget!Unclaimed(c, Budget!Used(c))
  BY <1>1, SameWords DEF UnusedHolds
<1>7. /\ [r \in AgentRuns |-> ChargedTo(r)]' = [r \in AgentRuns |-> ChargedTo(r)]
      /\ [r \in AgentRuns |-> InFlightOf(r)]' = [r \in AgentRuns |-> InFlightOf(r)]
      /\ Overage' = Overage
  BY <1>1, SameRows
<1>8. [d \in Children |-> hold[d].amount]' = [d \in Children |-> hold[d].amount]
  BY <1>2
<1> QED BY <1>1, <1>2, <1>3, <1>5, <1>6, <1>7, <1>8 DEF Budget!Return

(* The steps the abstract budget does not see: a run ends, or is fenced.   *)
LEMMA OthersStutter ==
  ASSUME LInv, UNCHANGED <<hold, reservation>>
  PROVE  UNCHANGED Budget!budgetVars
<1>1. Held' = Held /\ [c \in Children |-> hold[c].amount]' = [c \in Children |-> hold[c].amount]
  BY DEF Held
<1>2. /\ \A r : /\ UsedBy(r)' = UsedBy(r) /\ ChargedTo(r)' = ChargedTo(r)
              /\ InFlightOf(r)' = InFlightOf(r)
      /\ Rows' = Rows /\ Claims' = Claims /\ Overage' = Overage
  BY SameRows
<1>3. UnusedHolds' = UnusedHolds
  BY <1>2 DEF UnusedHolds
<1>4. Committed' = Committed
  BY <1>1, <1>2, <1>3 DEF Committed
<1> QED BY <1>1, <1>2, <1>4 DEF Budget!budgetVars

\* Empty tables are an untouched budget.
LEMMA LedgerStarts == LedgerInit => Budget!BudgetInit
<1> SUFFICES ASSUME LedgerInit PROVE Budget!BudgetInit
  OBVIOUS
<1>1. Rows = {} /\ Held = {} /\ \A r : RequestsOf(r) = {}
  BY DEF LedgerInit, Rows, RequestsOf, Held, NoHold, NoReservation
<1>2. \A r : UsedBy(r) = 0 /\ ChargedTo(r) = 0 /\ InFlightOf(r) = 0
  BY <1>1, SumEmpty DEF UsedBy, ChargedTo, InFlightOf
<1>3. Committed = 0 /\ Overage = 0
  BY <1>1, SumEmpty DEF Committed, Overage
<1>4. \A c \in Children : hold[c].amount = 0
  BY DEF LedgerInit, NoHold
<1> QED BY <1>1, <1>2, <1>3, <1>4 DEF Budget!BudgetInit, Budget!Runs, AgentRuns

\* One step of the ledger, one step of the budget or none.
LEMMA LedgerSteps ==
  LInv /\ LInv' /\ [LedgerNext]_ledgerVars => [Budget!BudgetNext]_(Budget!budgetVars)
<1> SUFFICES ASSUME LInv, LInv', [LedgerNext]_ledgerVars
             PROVE  [Budget!BudgetNext]_(Budget!budgetVars)
  OBVIOUS
<1>0. Budget!Runs = AgentRuns
  BY DEF Budget!Runs, AgentRuns
<1>1. ASSUME NEW c \in Children, NEW amount \in Allocations, Hold(c, amount)
      PROVE  Budget!BudgetNext
  BY <1>1, HoldGrants DEF Budget!BudgetNext
<1>2. ASSUME NEW r \in AgentRuns, NEW q \in Requests, NEW amount \in Amounts,
             Reserve(r, q, amount)
      PROVE  Budget!BudgetNext
  <2>1. r \in Children => Budget!ClaimOwn(r, amount)
    BY <1>2, ReserveClaims
  <2>2. r = Root => Budget!ClaimShared(amount)
    BY <1>2, ReserveClaims
  <2>3. r \in Children \/ r = Root
    BY DEF AgentRuns
  <2> QED BY <2>1, <2>2, <2>3 DEF Budget!BudgetNext
<1>3. ASSUME NEW q \in Requests, NEW usage \in Usages, Settle(q, usage)
      PROVE  Budget!BudgetNext
  <2>1. \E r \in AgentRuns, amount \in Amounts, used \in (Usages \ {Unknown}) \union Amounts :
          Budget!Charge(r, amount, used)
    BY <1>3, SettleCharges
  <2> QED BY <1>0, <2>1 DEF Budget!BudgetNext
<1>4. ASSUME NEW r \in AgentRuns, FinishRun(r) \/ Fence(r)
      PROVE  UNCHANGED Budget!budgetVars
  <2>1. UNCHANGED <<hold, reservation>>
    BY <1>4 DEF FinishRun, Fence
  <2> QED BY <2>1, OthersStutter
<1>5. ASSUME NEW c \in Children, Release(c)
      PROVE  Budget!BudgetNext
  BY <1>5, ReleaseReturns DEF Budget!BudgetNext
<1>6. CASE RecoverLedger
  BY <1>6, RestartRetains DEF Budget!BudgetNext
<1>7. CASE UNCHANGED ledgerVars
  <2>1. UNCHANGED <<hold, reservation>>
    BY <1>7 DEF ledgerVars
  <2> QED BY <2>1, OthersStutter
<1> QED BY <1>1, <1>2, <1>3, <1>4, <1>5, <1>6, <1>7 DEF LedgerNext

(* The rows of budget-ledger.ts implement the budget TaskBudget promises,  *)
(* for any number of children and requests and any amounts: the sums that  *)
(* are recomputed on every call move as its accounts do.                   *)
THEOREM LedgerImplementsTaskBudget == LedgerSpec => ImplementsTaskBudget
<1>1. LInv /\ LInv' /\ [LedgerNext]_ledgerVars => [Budget!BudgetNext]_(Budget!budgetVars)
  BY LedgerSteps
<1> QED BY <1>1, LedgerStarts, LedgerInvariant, PTL
           DEF LedgerSpec, ImplementsTaskBudget, Budget!BudgetSpec

----
(* What was proved of TaskBudget holds of the ledger's sums.               *)
Promise == INSTANCE TaskBudgetProofs WITH
  Protected <- ProtectedCoordinator,
  Amounts <- Amounts \union Allocations,
  Usages <- (Usages \ {Unknown}) \union Amounts,
  spent <- [r \in AgentRuns |-> ChargedTo(r)],
  inFlight <- [r \in AgentRuns |-> InFlightOf(r)],
  allocation <- [c \in Children |-> hold[c].amount],
  held <- Held,
  committed <- Committed,
  overage <- Overage

\* The budget's assumption follows from the ledger's.
LEMMA BudgetAssumptionHolds ==
  /\ Root \notin Children
  /\ Cap \in Nat \ {0}
  /\ ProtectedCoordinator \in 0..Cap
  /\ Amounts \union Allocations \subseteq Nat \ {0}
  /\ (Usages \ {Unknown}) \union Amounts \subseteq Nat
<1>1. ProtectedCoordinator \in 0..Cap
  BY LedgerAssumption DEF ProtectedCoordinator
<1>2. Root \notin Children /\ Cap \in Nat \ {0}
  BY LedgerAssumption
<1>3. \A n \in Amounts \union Allocations : n \in Nat \ {0}
  BY AmountsAreNatural
<1>4. \A n \in (Usages \ {Unknown}) \union Amounts : n \in Nat
  BY AmountsAreNatural
<1> QED BY <1>1, <1>2, <1>3, <1>4

\* So its theorem can be used.
LEMMA PromiseKept == Promise!BudgetSpec => []Promise!SharesAreKept
<1>1. Promise!BudgetSpec => []Promise!SharesAreKept
  BY BudgetAssumptionHolds, Promise!EveryShareIsKept, Zenon
<1> QED BY <1>1

(* TaskBudget and its proofs are taken by INSTANCE twice; both mean this.  *)
LEMMA SamePromise ==
  /\ Budget!BudgetInit => Promise!BudgetInit
  /\ [Budget!BudgetNext]_(Budget!budgetVars) => [Promise!BudgetNext]_(Promise!budgetVars)
  /\ Promise!SharesAreKept => Budget!SharesAreKept
<1>1. Budget!BudgetInit => Promise!BudgetInit
  BY DEF Budget!BudgetInit, Promise!BudgetInit, Budget!Runs, Promise!Runs
<1>2. [Budget!BudgetNext]_(Budget!budgetVars) => [Promise!BudgetNext]_(Promise!budgetVars)
  BY DEF Budget!BudgetNext, Promise!BudgetNext, Budget!budgetVars, Promise!budgetVars,
         Budget!Grant, Promise!Grant, Budget!ClaimOwn, Promise!ClaimOwn,
         Budget!ClaimShared, Promise!ClaimShared, Budget!Charge, Promise!Charge,
         Budget!RetainAll, Promise!RetainAll, Budget!Return, Promise!Return,
         Budget!Used, Promise!Used, Budget!Unclaimed, Promise!Unclaimed,
         Budget!AtLeastZero, Promise!AtLeastZero, Budget!Runs, Promise!Runs,
         Budget!CoordinatorReserve, Promise!CoordinatorReserve
<1>3. Promise!SharesAreKept => Budget!SharesAreKept
  BY DEF Budget!SharesAreKept, Promise!SharesAreKept,
         Budget!ReserveProtected, Promise!ReserveProtected,
         Budget!WithinAllocation, Promise!WithinAllocation,
         Budget!Used, Promise!Used, Budget!AtLeastZero, Promise!AtLeastZero,
         Budget!CoordinatorReserve, Promise!CoordinatorReserve
<1> QED BY <1>1, <1>2, <1>3

(* The coordinator's share and every child's hold are safe in the rows.    *)
THEOREM LedgerKeepsShares == LedgerSpec => []Budget!SharesAreKept
<1>1. LedgerSpec => Promise!BudgetSpec
  BY LedgerSteps, LedgerStarts, LedgerInvariant, SamePromise, PTL
     DEF LedgerSpec, Promise!BudgetSpec
<1> QED BY <1>1, PromiseKept, SamePromise, PTL

(* Whatever the ledger promised, a live run can reserve: what is left of   *)
(* its hold, or of the coordinator's protected share.                      *)
THEOREM PromisesAreSpendable == LedgerSpec => []PromisedFundsSpendable
<1>1. LInv /\ Budget!SharesAreKept => PromisedFundsSpendable
  <2> SUFFICES ASSUME LInv, Budget!SharesAreKept, Overage = 0,
                      NEW r \in AgentRuns, NEW amount \in Amounts,
                      lifecycle[r] = "active",
                      ~cancelRequested[r], ~cancelRequested[Root],
                      IF r = Root THEN UsedBy(Root) + amount <= ProtectedCoordinator
                                  ELSE ChildFits(r, amount)
               PROVE  ReserveAllowed(r, amount)
    BY DEF PromisedFundsSpendable
  <2>1. Committed + CoordinatorReserve <= Cap + Overage
    BY SameWords DEF Budget!SharesAreKept, Budget!ReserveProtected
  <2>2. /\ Committed \in Int /\ UsedBy(Root) \in Nat
        /\ Cap \in Nat /\ ProtectedCoordinator \in Nat /\ amount \in Nat
    BY SumsType, BudgetAssumptionHolds, AmountsAreNatural DEF SumsAreNumbers, AgentRuns
  <2>3. Committed <= Cap
    BY <2>1, <2>2 DEF CoordinatorReserve, AtLeastZero
  <2>4. r = Root => Committed + amount <= Cap
    BY <2>1, <2>2 DEF CoordinatorReserve, AtLeastZero
  <2> QED BY <2>3, <2>4 DEF ReserveAllowed
<1> QED BY <1>1, LedgerInvariant, LedgerKeepsShares, PTL
====
