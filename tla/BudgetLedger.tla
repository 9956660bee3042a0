---- MODULE BudgetLedger ----
(***************************************************************************)
(* The budget authority of one coordinated root (budget-ledger.ts): its    *)
(* account, the allocation holds of its children and the reservations of   *)
(* its requests.  Every method is one IMMEDIATE transaction, hence one     *)
(* action; all sums are recomputed from the rows, as `totals' does.        *)
(* The rows of agent_runs belong to the orchestrator; here they change     *)
(* only in the ways the ledger can tell apart.                             *)
(***************************************************************************)
EXTENDS Integers, Functions

CONSTANTS Root,         \* the coordinator's task id
          Children,     \* task ids of the children that may be admitted
          Requests,     \* request ids
          Cap,          \* tokenBudget of the root
          Allocations,  \* allocations an assignment may ask for
          Amounts,      \* estimates a request may reserve
          Usages        \* what a provider may report; Unknown when nothing

\* Usage that is missing, or that `settle' refuses as not a safe integer.
Unknown == -1

ASSUME LedgerAssumption ==
  /\ Root \notin Children
  /\ Cap \in Nat \ {0}
  /\ \A n \in Allocations \union Amounts : n \in Nat /\ n > 0
  /\ Usages \subseteq Nat \union {Unknown}

VARIABLES lifecycle,        \* agent_runs: "absent", "active" or "terminal"
          cancelRequested,  \* agent_runs.cancel_requested
          hold,             \* budget_holds, by child
          reservation       \* budget_reservations, by request id
ledgerVars == <<lifecycle, cancelRequested, hold, reservation>>

AgentRuns == Children \union {Root}
NoHold == [state |-> "none", amount |-> 0]
NoReservation == [state |-> "none", run |-> Root, amount |-> 0, charged |-> 0]

HoldRows ==
  [state : {"none", "held", "released"}, amount : {0} \union Allocations]
ReservationRows ==
  [state : {"none", "reserved", "settled", "retained"}, run : AgentRuns,
   amount : {0} \union Amounts, charged : Nat]

(* The rows keep the states and ranges their tables allow; no charge is    *)
(* ever negative, whatever a provider reports.                             *)
LedgerTypeOK ==
  /\ lifecycle \in [AgentRuns -> {"absent", "active", "terminal"}]
  /\ cancelRequested \in [AgentRuns -> BOOLEAN]
  /\ hold \in [Children -> HoldRows]
  /\ reservation \in [Requests -> ReservationRows]

----
(* The sums of `totals'. *)

AtLeastZero(n) == IF n > 0 THEN n ELSE 0
Rows == {q \in Requests : reservation[q].state # "none"}
RequestsOf(r) == {q \in Rows : reservation[q].run = r}
IsReserved(q) == reservation[q].state = "reserved"
IsCharged(q) == reservation[q].state \in {"settled", "retained"}
\* What a request counts for: its reservation, then its charge.
Claim(q) ==
  IF IsReserved(q) THEN reservation[q].amount ELSE reservation[q].charged
Claims == [q \in Requests |-> Claim(q)]
Charges == [q \in Requests |-> reservation[q].charged]
ChargedTo(r) == SumFunctionOnSet(Charges, RequestsOf(r))
UsedBy(r) == SumFunctionOnSet(Claims, RequestsOf(r))
InFlightOf(r) == UsedBy(r) - ChargedTo(r)
Held == {c \in Children : hold[c].state = "held"}
UnusedHolds ==
  [c \in Children |-> AtLeastZero(hold[c].amount - UsedBy(c))]
Committed ==
  SumFunctionOnSet(Claims, Rows) + SumFunctionOnSet(UnusedHolds, Held)
\* openAccount: ORCHESTRATION_LIMITS.protectedCoordinatorPercent is 20.
ProtectedCoordinator == (Cap * 20) \div 100
CoordinatorReserve == AtLeastZero(ProtectedCoordinator - UsedBy(Root))

----
\* createRoot: the coordinator's run and its account.
LedgerInit ==
  /\ lifecycle = [r \in AgentRuns |-> IF r = Root THEN "active" ELSE "absent"]
  /\ cancelRequested = [r \in AgentRuns |-> FALSE]
  /\ hold = [c \in Children |-> NoHold]
  /\ reservation = [q \in Requests |-> NoReservation]

\* Mutant: a hold may take the coordinator's protected share.
HoldFitsCap(amount) == Committed + amount <= Cap

HoldFits(amount) ==
  /\ Committed <= Cap
  /\ Committed + CoordinatorReserve + amount <= Cap

\* The ledger's part of the admission transaction.
Hold(c, amount) ==
  /\ lifecycle[c] = "absent"
  /\ lifecycle[Root] # "terminal" /\ ~cancelRequested[Root]
  /\ HoldFits(amount)
  /\ lifecycle' = [lifecycle EXCEPT ![c] = "active"]
  /\ hold' = [hold EXCEPT ![c] = [state |-> "held", amount |-> amount]]
  /\ UNCHANGED <<cancelRequested, reservation>>

\* Mutant: a request is compared with the whole hold, not with its rest.
ChildFitsWholeHold(c, amount) ==
  hold[c].state = "held" /\ amount <= hold[c].amount

ChildFits(c, amount) ==
  /\ hold[c].state = "held"
  /\ UsedBy(c) + amount <= hold[c].amount
ReserveAllowed(r, amount) ==
  /\ lifecycle[r] = "active"
  /\ ~cancelRequested[r]
  /\ ~cancelRequested[Root]
  /\ Committed <= Cap
  /\ IF r = Root THEN Committed + amount <= Cap ELSE ChildFits(r, amount)

Reserve(r, q, amount) ==
  /\ reservation[q].state = "none"
  /\ ReserveAllowed(r, amount)
  /\ reservation' = [reservation EXCEPT ![q] =
       [state |-> "reserved", run |-> r, amount |-> amount, charged |-> 0]]
  /\ UNCHANGED <<lifecycle, cancelRequested, hold>>

Charged(row, state, tokens) ==
  [row EXCEPT !.state = state, !.charged = tokens]
Retained(row) == Charged(row, "retained", row.amount)

\* Mutant: a second settlement is not recognised.
SettleAgain(q, usage) ==
  /\ reservation[q].state # "none"
  /\ reservation' = [reservation EXCEPT ![q] =
       IF usage = Unknown THEN Retained(@) ELSE Charged(@, "settled", usage)]
  /\ UNCHANGED <<lifecycle, cancelRequested, hold>>

\* A second settlement of q finds it no longer reserved and does nothing.
Settle(q, usage) ==
  /\ IsReserved(q)
  /\ reservation' = [reservation EXCEPT ![q] =
       IF usage = Unknown THEN Retained(@) ELSE Charged(@, "settled", usage)]
  /\ UNCHANGED <<lifecycle, cancelRequested, hold>>

\* finishRun; the ledger does not rely on the run's requests being settled.
FinishRun(r) ==
  /\ lifecycle[r] = "active"
  /\ lifecycle' = [lifecycle EXCEPT ![r] = "terminal"]
  /\ UNCHANGED <<cancelRequested, hold, reservation>>

\* Mutant: a hold is returned while a request of its child is in flight.
ReleaseEarly(c) ==
  /\ lifecycle[c] = "terminal"
  /\ hold[c].state = "held"
  /\ hold' = [hold EXCEPT ![c].state = "released"]
  /\ UNCHANGED <<lifecycle, cancelRequested, reservation>>

\* What is returned is no longer counted: Committed adds up UnusedHolds over Held.
Release(c) ==
  /\ lifecycle[c] = "terminal"
  /\ hold[c].state = "held"
  /\ \A q \in RequestsOf(c) : ~IsReserved(q)
  /\ hold' = [hold EXCEPT ![c].state = "released"]
  /\ UNCHANGED <<lifecycle, cancelRequested, reservation>>

Fence(r) ==
  /\ lifecycle[r] = "active"
  /\ cancelRequested' = [cancelRequested EXCEPT ![r] = TRUE]
  /\ UNCHANGED <<lifecycle, hold, reservation>>

\* recoverOrchestration: whatever was in flight keeps its reservation.
RecoverLedger ==
  /\ reservation' = [q \in Requests |->
       IF IsReserved(q) THEN Retained(reservation[q]) ELSE reservation[q]]
  /\ UNCHANGED <<lifecycle, cancelRequested, hold>>

LedgerNext ==
  \/ \E c \in Children, amount \in Allocations : Hold(c, amount)
  \/ \E r \in AgentRuns, q \in Requests, amount \in Amounts : Reserve(r, q, amount)
  \/ \E q \in Requests, usage \in Usages : Settle(q, usage)
  \/ \E r \in AgentRuns : FinishRun(r)
  \/ \E c \in Children : Release(c)
  \/ \E r \in AgentRuns : Fence(r)
  \/ RecoverLedger

LedgerSpec == LedgerInit /\ [][LedgerNext]_ledgerVars

----
(* Properties. *)

\* Tokens charged beyond the reservations they were charged to.  A request
\* in flight is charged nothing yet.
Overruns ==
  [q \in Requests |->
     AtLeastZero(reservation[q].charged - reservation[q].amount)]
Overage == SumFunctionOnSet(Overruns, Rows)

(* Funds the ledger promised can be spent.  Unless some request overran    *)
(* its reservation, a live child can always reserve what is left of its    *)
(* hold, and the coordinator what is left of its protected share, whatever *)
(* the other runs have reserved, settled, lost or returned.                *)
PromisedFundsSpendable ==
  Overage = 0 =>
    \A r \in AgentRuns, amount \in Amounts :
      /\ lifecycle[r] = "active"
      /\ ~cancelRequested[r] /\ ~cancelRequested[Root]
      /\ IF r = Root THEN UsedBy(Root) + amount <= ProtectedCoordinator
                     ELSE ChildFits(r, amount)
      => ReserveAllowed(r, amount)

(* A released hold stays what it was, and so do the requests behind it: no *)
(* late settlement, retry or restart spends funds that were given back.    *)
ReleasedIsClosed ==
  [][\A c \in Children :
       hold[c].state = "released" =>
         /\ hold'[c] = hold[c]
         /\ \A q \in Requests :
              (reservation[q].run = c \/ reservation'[q].run = c) =>
                reservation'[q] = reservation[q]]_ledgerVars

(* Once charged, a request's charge never changes: a duplicate settlement, *)
(* or a restart after the answer, neither charges it again nor refunds it. *)
ChargedOnce ==
  [][\A q \in Requests :
       IsCharged(q) => reservation'[q] = reservation[q]]_ledgerVars

Budget == INSTANCE TaskBudget WITH
  Protected <- ProtectedCoordinator,
  Amounts <- Amounts \union Allocations,
  Usages <- (Usages \ {Unknown}) \union Amounts,
  spent <- [r \in AgentRuns |-> ChargedTo(r)],
  inFlight <- [r \in AgentRuns |-> InFlightOf(r)],
  allocation <- [c \in Children |-> hold[c].amount],
  held <- Held,
  committed <- Committed,
  overage <- Overage

(* The rows keep the promise of TaskBudget: the sums recomputed from them  *)
(* change the way its accounts do, step for step.                          *)
ImplementsTaskBudget == Budget!BudgetSpec
====
