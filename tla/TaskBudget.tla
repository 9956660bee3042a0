---- MODULE TaskBudget ----
(***************************************************************************)
(* What the budget of one coordinated task promises, without the rows that *)
(* keep it: a fixed cap is shared by a coordinator and its children; a     *)
(* child spends only from an allocation granted to it; what the            *)
(* coordinator has not yet used of its protected share is never granted to *)
(* a child; a request is charged what it used, or all it reserved when     *)
(* nobody knows.  `committed' and `overage' are kept by increments, where  *)
(* BudgetLedger computes them from its tables on every call.               *)
(***************************************************************************)
EXTENDS Integers

CONSTANTS Root,       \* the coordinator's run
          Children,   \* the runs that may be admitted under it
          Cap,        \* the task's token budget
          Protected,  \* the coordinator's protected share of it
          Amounts,    \* what a child may be granted, or a request reserve
          Usages      \* what a request may turn out to have used

ASSUME BudgetAssumption ==
  /\ Root \notin Children
  /\ Cap \in Nat \ {0}
  /\ Protected \in 0..Cap
  /\ Amounts \subseteq Nat \ {0}
  /\ Usages \subseteq Nat

VARIABLES spent,       \* tokens charged to each run
          inFlight,    \* tokens reserved by each run's unsettled requests
          allocation,  \* tokens granted to each child, 0 before its admission
          held,        \* the children whose allocation is not yet returned
          committed,   \* tokens the account may not promise again
          overage      \* tokens charged beyond what their requests reserved
budgetVars == <<spent, inFlight, allocation, held, committed, overage>>

Runs == Children \union {Root}
\* Mutant: the difference is not cut off at zero.
Unclamped(n) == n

AtLeastZero(n) == IF n > 0 THEN n ELSE 0
Used(r) == spent[r] + inFlight[r]
\* The part of a held allocation that no request has claimed.
Unclaimed(c, used) == AtLeastZero(allocation[c] - used)
\* The part of the protected share the coordinator has yet to use.
CoordinatorReserve == AtLeastZero(Protected - Used(Root))

(* Nothing spent, reserved or granted is ever negative; a claim larger     *)
(* than what is left counts as nothing left.                               *)
BudgetTypeOK ==
  /\ spent \in [Runs -> Nat]
  /\ inFlight \in [Runs -> Nat]
  /\ allocation \in [Children -> Nat]
  /\ held \in SUBSET Children
  /\ committed \in Int
  /\ overage \in Nat

BudgetInit ==
  /\ spent = [r \in Runs |-> 0]
  /\ inFlight = [r \in Runs |-> 0]
  /\ allocation = [c \in Children |-> 0]
  /\ held = {}
  /\ committed = 0
  /\ overage = 0

----
\* Mutant: an allocation may take the coordinator's protected share.
GrantAnything(c, amount) ==
  /\ allocation[c] = 0 /\ Used(c) = 0
  /\ committed + amount <= Cap
  /\ allocation' = [allocation EXCEPT ![c] = amount]
  /\ held' = held \union {c}
  /\ committed' = committed + amount
  /\ UNCHANGED <<spent, inFlight, overage>>

\* A child is admitted with an allocation that leaves the reserve alone.
Grant(c, amount) ==
  /\ allocation[c] = 0
  /\ Used(c) = 0
  /\ committed + CoordinatorReserve + amount <= Cap
  /\ allocation' = [allocation EXCEPT ![c] = amount]
  /\ held' = held \union {c}
  /\ committed' = committed + amount
  /\ UNCHANGED <<spent, inFlight, overage>>

\* A child's request moves tokens from its allocation into flight.
ClaimOwn(c, amount) ==
  /\ c \in held
  /\ Used(c) + amount <= allocation[c]
  /\ committed <= Cap
  /\ inFlight' = [inFlight EXCEPT ![c] = @ + amount]
  /\ UNCHANGED <<spent, allocation, held, committed, overage>>

\* The coordinator's request takes tokens nobody holds.
ClaimShared(amount) ==
  /\ committed + amount <= Cap
  /\ inFlight' = [inFlight EXCEPT ![Root] = @ + amount]
  /\ committed' = committed + amount
  /\ UNCHANGED <<spent, allocation, held, overage>>

\* The answer to one of r's requests is known to have cost `usage'.
Charge(r, amount, usage) ==
  /\ amount <= inFlight[r]
  /\ inFlight' = [inFlight EXCEPT ![r] = @ - amount]
  /\ spent' = [spent EXCEPT ![r] = @ + usage]
  /\ overage' = overage + AtLeastZero(usage - amount)
  /\ committed' = committed + (usage - amount)
       + IF r \in held
         THEN Unclaimed(r, Used(r) + usage - amount) - Unclaimed(r, Used(r))
         ELSE 0
  /\ UNCHANGED <<allocation, held>>

\* Every request lost in a restart keeps its whole reservation.
RetainAll ==
  /\ spent' = [r \in Runs |-> Used(r)]
  /\ inFlight' = [r \in Runs |-> 0]
  /\ UNCHANGED <<allocation, held, committed, overage>>

\* A finished child gives back what it did not use.
Return(c) ==
  /\ c \in held
  /\ inFlight[c] = 0
  /\ held' = held \ {c}
  /\ committed' = committed - Unclaimed(c, Used(c))
  /\ UNCHANGED <<spent, inFlight, allocation, overage>>

BudgetNext ==
  \/ RetainAll
  \/ \E c \in Children, amount \in Amounts : Grant(c, amount)
  \/ \E c \in Children, amount \in Amounts : ClaimOwn(c, amount)
  \/ \E amount \in Amounts : ClaimShared(amount)
  \/ \E r \in Runs, amount \in Amounts, usage \in Usages :
       Charge(r, amount, usage)
  \/ \E c \in Children : Return(c)

BudgetSpec == BudgetInit /\ [][BudgetNext]_budgetVars

----
(* What is committed, with the coordinator's unused share, stays within    *)
(* the cap, except for tokens requests used beyond their reservations.     *)
ReserveProtected == committed + CoordinatorReserve <= Cap + overage

(* A child never claims more than its allocation and what its own requests *)
(* overran: it cannot draw on the coordinator's funds or a sibling's.      *)
WithinAllocation == \A c \in Children : Used(c) <= allocation[c] + overage

(* Neither the coordinator's share nor a child's can be taken by another.  *)
SharesAreKept == ReserveProtected /\ WithinAllocation
====
