---- MODULE MCGates ----
(* What a step of a task goes through, each part looked at on its own:     *)
(* `focus' names the one a behaviour is about.                             *)
(*   The execution slots: four callers for two slots, of whom two share a  *)
(*   profile that may have only one, so both limits bind, alone and        *)
(*   together; two calls each let a caller that just left come back ahead  *)
(*   of those it woke.                                                     *)
(*   The approvals: one task that proposes an edit, a command and an MCP   *)
(*   call.  The outcome of the edit may be checked by two calls at a time. *)
(*   The command: two calls with the same prepared command.                *)
(*   The ledger, a budget in which every threshold is reachable: of 10     *)
(*   tokens 2 are the coordinator's; allocations of 4 and 4 leave exactly  *)
(*   those, 4 and 6 would take them; two requests of 2 exhaust an          *)
(*   allocation of 4, and a usage of 6 overruns request and allocation.    *)
EXTENDS ExecutionSlots, Approvals, Commands, BudgetLedger

CONSTANTS caller1, caller2, caller3, caller4, profile, t1, edit, command, mcp

MCKeyOf == [x \in Callers |-> IF x \in {caller1, caller2} THEN profile ELSE NoKey]
MCTaskOf == [p \in Proposals |-> t1]
MCCap == 10
MCAllocations == {4, 6}
MCAmounts == {2}
MCUsages == {Unknown, 6}

VARIABLE focus

TypesOK == SlotsTypeOK /\ ApprovalsTypeOK /\ CommandsTypeOK /\ LedgerTypeOK

GatesInit == /\ focus \in {"slots", "approvals", "commands", "ledger"}
             /\ SlotsInit /\ ApprovalsInit /\ CommandsInit /\ LedgerInit

GatesNext ==
  /\ UNCHANGED focus
  /\ \/ focus = "slots" /\ SlotsNext /\ UNCHANGED <<approvalVars, cmVars, ledgerVars>>
     \/ focus = "approvals" /\ ApprovalsNext /\ UNCHANGED <<slotVars, cmVars, ledgerVars>>
     \/ focus = "commands" /\ CommandsNext /\ UNCHANGED <<slotVars, approvalVars, ledgerVars>>
     \/ focus = "ledger" /\ LedgerNext /\ UNCHANGED <<slotVars, approvalVars, cmVars>>

GatesSpec == /\ GatesInit /\ [][GatesNext]_<<focus, slotVars, approvalVars, cmVars, ledgerVars>>
             /\ SlotsFairness /\ ApprovalsFairness /\ CommandsFairness
====
