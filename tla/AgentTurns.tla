------------------------------ MODULE AgentTurns ------------------------------
(***************************************************************************)
(* One turn of a task's agent: the loop of requests to the provider and of *)
(* tool calls (agent-loop.ts), what it charges to the task and records in  *)
(* the usage ledger, the native conversation it saves, and the messages of *)
(* the project channel that a request carries (agent-channel.ts).          *)
(* Coordinated tasks charge BudgetLedger instead.                          *)
(***************************************************************************)
EXTENDS Integers, Sequences, Functions

CONSTANTS CallIds,        \* ids a provider gives to tool calls
          Reservation,    \* conservative estimate of a request (estimateRequest)
          RequestUsages,         \* what a provider can report a request to have used
          TokenBudget,    \* task.tokenBudget
          MaxRounds,      \* agent-loop.ts:139, 51 requests per turn
          MaxMessages,    \* bound on the channel messages
          MaxRequests     \* bound on the requests ever made

ASSUME TurnsAssumption == /\ Reservation \in Nat /\ TokenBudget \in Nat /\ MaxRounds \in Nat
                          /\ RequestUsages \subseteq Nat /\ MaxMessages \in Nat /\ MaxRequests \in Nat

VARIABLES task,      \* tasks: the status and usedTokens
          ledger,    \* provider_requests
          native,    \* the intent `provider.context': pending calls, their results, the ids seen
          channel,   \* messages sent to the task and its receipt cursor
          loop,      \* AgentLoop.run, in memory
          executed,  \* history: how often each call was executed
          heard      \* history: how often each message was in a request that completed

atVars == <<task, ledger, native, channel, loop, executed, heard>>

NotMeasured == -1
NoLoop == [step |-> "none", handle |-> 0, cursor |-> 0, todo |-> {}, call |-> "none", rounds |-> 0, abort |-> FALSE]

TurnsTypeOK ==
  /\ task \in [status: {"idle", "running", "failed", "cancelled", "interrupted"}, used: Nat]
  /\ \A i \in DOMAIN ledger : ledger[i] \in [state: {"pending", "completed", "failed", "interrupted"}, charge: Nat]
  /\ native \in [pending: SUBSET CallIds, results: SUBSET CallIds, seen: SUBSET CallIds]
  /\ channel \in [sent: 0..MaxMessages, receipt: 0..MaxMessages]
  /\ loop.step \in {"none", "queued", "streaming", "answered", "executed"}
  /\ loop.handle \in 0..Len(ledger) /\ loop.todo \subseteq CallIds

TurnsInit ==
  /\ task = [status |-> "idle", used |-> 0]
  /\ ledger = << >>
  /\ native = [pending |-> {}, results |-> {}, seen |-> {}]
  /\ channel = [sent |-> 0, receipt |-> 0]
  /\ loop = NoLoop
  /\ executed = [c \in CallIds |-> 0]
  /\ heard = [m \in 1..MaxMessages |-> 0]

\* enrich: the messages after the receipt, as many as fit, and the cursor of the
\* last; a cancelled task is not available to the channel.
Cursors == IF channel.receipt = channel.sent \/ task.status = "cancelled" THEN {0}
           ELSE channel.receipt + 1 .. channel.sent

\* admitRequest: the reservation and its ledger row, in one transaction.
Fits == task.used + Reservation <= TokenBudget /\ Len(ledger) < MaxRequests
Admitted == /\ ledger' = Append(ledger, [state |-> "pending", charge |-> Reservation])
            /\ task' = [status |-> "running", used |-> task.used + Reservation]

\* startTurn.  Unfinished calls of an earlier turn are answered with what was
\* recorded or with an error, never executed.
StartLoop ==
  /\ loop = NoLoop /\ Fits /\ Admitted
  /\ \E c \in Cursors : loop' = [NoLoop EXCEPT !.step = "queued", !.handle = Len(ledger) + 1, !.cursor = c, !.rounds = 1]
  /\ UNCHANGED <<native, channel, executed, heard>>

\* task.cancel, the response time limit and shutdown.
AbortLoop ==
  /\ loop.step # "none" /\ ~loop.abort
  /\ loop' = [loop EXCEPT !.abort = TRUE]
  /\ UNCHANGED <<task, ledger, native, channel, executed, heard>>

\* A slot is free: attemptUsage, and the request is sent.
Attempt ==
  /\ loop.step = "queued" /\ ~loop.abort
  /\ loop' = [loop EXCEPT !.step = "streaming"]
  /\ UNCHANGED <<task, ledger, native, channel, executed, heard>>

\* Mutant: the failed branch settles the request that was settled before.
SettledTwice(handle, state, usage, status) ==
  LET row == ledger[Len(ledger)]
      charge == IF usage = NotMeasured THEN Reservation ELSE usage IN
  /\ ledger' = [ledger EXCEPT ![Len(ledger)] = [state |-> state, charge |-> charge]]
  /\ task' = [status |-> status, used |-> task.used - Reservation + charge]

\* finishUsage and hooks.settle in one transaction, once per request; what was
\* not measured keeps its reservation.
SettleRequest(handle, state, usage, status) ==
  IF handle = 0 \/ ledger[handle].state # "pending"
  THEN UNCHANGED ledger /\ task' = [task EXCEPT !.status = status]
  ELSE LET charge == IF usage = NotMeasured THEN Reservation ELSE usage IN
       /\ ledger' = [ledger EXCEPT ![handle] = [state |-> state, charge |-> charge]]
       /\ task' = [status |-> status, used |-> task.used - Reservation + charge]

\* A call id the task has seen before is refused with its whole response.
Fresh(calls) == calls \cap native.seen = {}

\* Mutant: the receipt is not part of the transaction.
ReceivedLater == UNCHANGED channel

\* acknowledge.
Received == channel' = IF loop.cursor = 0 THEN channel ELSE [channel EXCEPT !.receipt = loop.cursor]

\* The stream completed: native state, receipt, message and usage are saved
\* together; without calls the turn is over.
Respond(calls, usage) ==
  /\ loop.step = "streaming" /\ ~loop.abort /\ Fresh(calls)
  /\ native' = [pending |-> calls, results |-> {}, seen |-> native.seen \cup calls]
  /\ Received
  /\ heard' = [m \in DOMAIN heard |-> IF m \in channel.receipt + 1 .. loop.cursor THEN heard[m] + 1 ELSE heard[m]]
  /\ SettleRequest(loop.handle, "completed", usage, IF calls = {} THEN "idle" ELSE "running")
  /\ loop' = IF calls = {} THEN NoLoop
             ELSE [loop EXCEPT !.step = "answered", !.handle = 0, !.cursor = 0, !.todo = calls]
  /\ UNCHANGED executed

\* The loop stops: the stream failed or was refused, the turn was aborted, a
\* limit was reached or the budget does not admit the next request.
Stop(usage) ==
  /\ loop.step \in {"queued", "streaming", "answered"}
  /\ (loop.step = "queued" => loop.abort)
  /\ (loop.step # "streaming" => usage = NotMeasured)
  /\ SettleRequest(loop.handle, "failed", usage, IF loop.abort THEN "cancelled" ELSE "failed")
  /\ loop' = NoLoop
  /\ UNCHANGED <<native, channel, executed, heard>>

\* One call at a time; its effect is there before its result is saved.
ExecuteCall(c) ==
  /\ loop.step = "answered" /\ ~loop.abort /\ c \in loop.todo
  /\ executed' = [executed EXCEPT ![c] = @ + 1]
  /\ loop' = [loop EXCEPT !.step = "executed", !.call = c, !.todo = @ \ {c}]
  /\ UNCHANGED <<task, ledger, native, channel, heard>>

SaveResult ==
  /\ loop.step = "executed"
  /\ native' = [native EXCEPT !.results = @ \cup {loop.call}]
  /\ loop' = [loop EXCEPT !.step = "answered", !.call = "none"]
  /\ UNCHANGED <<task, ledger, channel, executed, heard>>

NextRequest ==
  /\ loop.step = "answered" /\ loop.todo = {} /\ ~loop.abort /\ loop.rounds < MaxRounds
  /\ Fits /\ Admitted
  /\ \E c \in Cursors :
       loop' = [loop EXCEPT !.step = "queued", !.handle = Len(ledger) + 1, !.cursor = c, !.rounds = @ + 1]
  /\ UNCHANGED <<native, channel, executed, heard>>

\* Another agent or the user writes to the task.
SendToTask ==
  /\ channel.sent < MaxMessages
  /\ channel' = [channel EXCEPT !.sent = @ + 1]
  /\ UNCHANGED <<task, ledger, native, loop, executed, heard>>

\* Store.recover and UsageLedger.recover.
CrashTurns ==
  /\ loop # NoLoop
  /\ ledger' = [i \in DOMAIN ledger |->
                  IF ledger[i].state = "pending" THEN [ledger[i] EXCEPT !.state = "interrupted"] ELSE ledger[i]]
  /\ task' = [task EXCEPT !.status = "interrupted"]
  /\ loop' = NoLoop
  /\ UNCHANGED <<native, channel, executed, heard>>

TurnsNext ==
  \/ StartLoop \/ AbortLoop \/ Attempt \/ SaveResult \/ NextRequest \/ SendToTask \/ CrashTurns
  \/ \E usage \in RequestUsages \cup {NotMeasured} : Stop(usage) \/ \E calls \in SUBSET CallIds : Respond(calls, usage)
  \/ \E c \in CallIds : ExecuteCall(c)

\* What rows of the usage ledger add up to.
ChargesOf(rows) == SumFunctionOnSet([i \in DOMAIN rows |-> rows[i].charge], DOMAIN rows)

\* Whatever fails, is cancelled or crashes between a request and its answer, the
\* task is charged what the usage ledger's rows add up to, a request once.
UsedIsRecorded == task.used = ChargesOf(ledger)

\* No call is executed twice across turns, retries and restarts, and a result is
\* only recorded for a call that was; every channel message up to the receipt was
\* in exactly one completed request, and none beyond it.
ConversationOnce ==
  /\ \A c \in CallIds : executed[c] <= 1 /\ (c \in native.results => executed[c] = 1)
  /\ \A m \in DOMAIN heard : heard[m] = IF m <= channel.receipt THEN 1 ELSE 0
=============================================================================
