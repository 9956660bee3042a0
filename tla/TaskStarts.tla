------------------------------ MODULE TaskStarts ------------------------------
(***************************************************************************)
(* The first message of a new chat (service.ts, task.start) and the plain  *)
(* creation of a task (task.create).  A start is reserved durably under    *)
(* the renderer's request id before a worktree is created; the task, its   *)
(* worktree and its first message come in separate steps, each of which    *)
(* may fail, have an unknown outcome or be the last before a crash.        *)
(***************************************************************************)
EXTENDS Integers, Sequences, FiniteSets

CONSTANTS Requests,     \* request ids the renderer uses
          Settings,     \* the settings a request can carry (their hash)
          ModeOf,       \* ModeOf[h]: "chat" (no worktree), "coding" or "coordinated"
          MaxStartedTasks    \* bound on the tasks ever created

TaskCreate == "task.create"             \* the caller that reserves no start

ASSUME StartsAssumption == /\ TaskCreate \notin Requests
                           /\ ModeOf \in [Settings -> {"chat", "coding", "coordinated"}]
                           /\ MaxStartedTasks \in Nat

VARIABLES starts,   \* table task_starts
          made,     \* the tasks that were given an id, with their worktree and intent
          calls     \* the calls under way, lost in a crash

tsVars == <<starts, made, calls>>

Callers == Requests \cup {TaskCreate}

NoStart == [state |-> "none", settings |-> "none", task |-> 0]
Idle == [step |-> "idle", settings |-> "none", task |-> 0]

\* The steps a call waits in, and the points of a synchronous block at which a
\* crash leaves a durable difference.
Waiting == {"admitting", "creating", "resuming"}
Synchronous == {"saving", "created", "sending", "resending"}

StartsTypeOK ==
  /\ starts \in [Requests -> [state: {"none", "pending", "failed", "complete", "unknown"},
                              settings: Settings \cup {"none"}, task: 0..MaxStartedTasks]]
  /\ DOMAIN made \subseteq 1..MaxStartedTasks
  /\ \A t \in DOMAIN made : made[t] \in
       [owner: Callers, mode: {"chat", "coding", "coordinated"}, saved: BOOLEAN, worktree: BOOLEAN,
        intent: {"none", "pending", "complete", "unknown"}, sent: 0..2, other: BOOLEAN]
  /\ \A c \in Callers : /\ calls[c].step \in {"idle"} \cup Waiting \cup Synchronous
                        /\ calls[c].task \in 0..Len(made)

StartsInit ==
  /\ starts = [r \in Requests |-> NoStart]
  /\ made = << >>
  /\ calls = [c \in Callers |-> Idle]

UnknownIntents == \E t \in DOMAIN made : made[t].intent = "unknown"
Finished(c, state) == IF c = TaskCreate THEN starts ELSE [starts EXCEPT ![c].state = state]
Leave(c) == calls' = [calls EXCEPT ![c] = Idle]
Step(c, step) == calls' = [calls EXCEPT ![c].step = step]

\* startTaskCoalesced: one call per request id; a second with the same settings
\* shares it and one with other settings is refused.  A request seen for the
\* first time looks at its project; what is complete, pending or unknown only
\* answers or refuses.
Begin(r, h) ==
  /\ calls[r] = Idle /\ starts[r].state = "none"
  /\ calls' = [calls EXCEPT ![r] = [step |-> "admitting", settings |-> h, task |-> 0]]
  /\ UNCHANGED <<starts, made>>

\* startTask on a start that failed: sends the message to the saved task, unless
\* the user has written to it since.
Retry(r) ==
  LET t == starts[r].task IN
  /\ calls[r] = Idle /\ starts[r].state = "failed"
  /\ IF made[t].sent > 0 \/ made[t].other
     THEN starts' = Finished(r, "complete") /\ UNCHANGED calls
     ELSE /\ starts' = Finished(r, "pending")
          /\ calls' = [calls EXCEPT ![r] = [step |-> "resending", settings |-> starts[r].settings, task |-> t]]
  /\ UNCHANGED made

\* The project, the profile or the admission refuses: nothing was reserved.
Refuse(r) == calls[r].step = "admitting" /\ Leave(r) /\ UNCHANGED <<starts, made>>

NewTask(c, mode) ==
  Append(made, [owner |-> c, mode |-> mode, saved |-> FALSE, worktree |-> FALSE,
                intent |-> IF mode = "chat" THEN "none" ELSE "pending", sent |-> 0, other |-> FALSE])

Admissible(mode) == Len(made) < MaxStartedTasks /\ (mode # "chat" => ~UnknownIntents)

\* The durable reservation and, for a Git task, the intent.
Reserve(r) ==
  LET mode == ModeOf[calls[r].settings]
      t    == Len(made) + 1 IN
  /\ calls[r].step = "admitting" /\ Admissible(mode)
  /\ made' = NewTask(r, mode)
  /\ starts' = [starts EXCEPT ![r] = [state |-> "pending", settings |-> calls[r].settings, task |-> t]]
  /\ calls' = [calls EXCEPT ![r].task = t, ![r].step = IF mode = "chat" THEN "saving" ELSE "creating"]

\* task.create: the checks and the intent in one block, no start.
Create(h) ==
  /\ calls[TaskCreate] = Idle /\ ModeOf[h] # "chat" /\ Admissible(ModeOf[h])
  /\ made' = NewTask(TaskCreate, ModeOf[h])
  /\ calls' = [calls EXCEPT ![TaskCreate] = [step |-> "creating", settings |-> h, task |-> Len(made) + 1]]
  /\ UNCHANGED starts

\* createTaskWorktreeSerialized: creations of one repository follow each other.
Worktree(c) ==
  /\ calls[c].step = "creating"
  /\ made' = [made EXCEPT ![calls[c].task].worktree = TRUE]
  /\ Step(c, "created")
  /\ UNCHANGED starts

\* It failed: before the mutation (outcome `none') the start is cleared and may
\* be tried again, afterwards nobody knows what is on disk.
NotCreated(c) ==
  LET t == calls[c].task IN
  /\ calls[c].step = "creating"
  /\ \/ /\ made' = [made EXCEPT ![t].intent = "complete"]
        /\ starts' = IF c = TaskCreate THEN starts ELSE [starts EXCEPT ![c] = NoStart]
     \/ /\ \E there \in BOOLEAN : made' = [made EXCEPT ![t].intent = "unknown", ![t].worktree = there]
        /\ starts' = Finished(c, "unknown")
  /\ Leave(c)

\* The transaction that saves the task and finishes the intent; the channel may
\* find another repository than was admitted, and all of it is rolled back.
Save(c) ==
  LET t == calls[c].task IN
  /\ calls[c].step \in {"created", "saving"}
  /\ \/ /\ made' = [made EXCEPT ![t].saved = TRUE, ![t].intent = IF @ = "none" THEN @ ELSE "complete"]
        /\ IF c = TaskCreate THEN Leave(c) ELSE Step(c, "sending")
        /\ UNCHANGED starts
     \/ /\ made' = [made EXCEPT ![t].intent = IF @ = "none" THEN @ ELSE "unknown"]
        /\ starts' = Finished(c, "unknown")
        /\ Leave(c)

\* The first message: startTurn saves it or refuses, or its notification raises
\* after it was saved.  A coordinated task resumes its coordinator instead.
Send(c) ==
  LET t == calls[c].task IN
  /\ calls[c].step = "sending"
  /\ \/ /\ made[t].mode = "coordinated" /\ Step(c, "resuming")
        /\ UNCHANGED <<starts, made>>
     \/ /\ made[t].mode # "coordinated" /\ Leave(c)
        /\ \/ made' = [made EXCEPT ![t].sent = @ + 1] /\ starts' = Finished(c, "complete")
           \/ starts' = Finished(c, "failed") /\ UNCHANGED made
           \/ made' = [made EXCEPT ![t].sent = @ + 1] /\ starts' = Finished(c, "unknown")

Resend(c) ==
  /\ calls[c].step = "resending" /\ Leave(c)
  /\ \/ /\ made' = [made EXCEPT ![calls[c].task].sent = @ + 1]
        /\ \E state \in {"complete", "failed"} : starts' = Finished(c, state)
     \/ starts' = Finished(c, "failed") /\ UNCHANGED made

Resumed(c) ==
  /\ calls[c].step = "resuming" /\ Leave(c)
  /\ \/ /\ made' = [made EXCEPT ![calls[c].task].sent = @ + 1]
        /\ \E state \in {"complete", "unknown"} : starts' = Finished(c, state)
     \/ starts' = Finished(c, "unknown") /\ UNCHANGED made

\* The user writes to a task whose first message was refused (task.send).
Write(t) ==
  /\ made[t].saved /\ ~made[t].other
  /\ made' = [made EXCEPT ![t].other = TRUE]
  /\ UNCHANGED <<starts, calls>>

\* Mutant: a restart forgets the interrupted starts.
RecoveredStartForgotten(state) == IF state = "pending" THEN "none" ELSE state

\* Mutant: it is given the state an interrupted turn has.
RecoveredStartInterrupted(state) == IF state = "pending" THEN "interrupted" ELSE state

\* Store.recover: whatever was pending is unknown.
RecoveredStart(state) == IF state = "pending" THEN "unknown" ELSE state
CrashStarts ==
  /\ made # << >>
  /\ starts' = [r \in Requests |-> [starts[r] EXCEPT !.state = RecoveredStart(@)]]
  /\ made' = [t \in DOMAIN made |-> [made[t] EXCEPT !.intent = RecoveredStart(@)]]
  /\ calls' = [c \in Callers |-> Idle]

\* A block without an await runs to its end before anything but a crash.
Interruptible == \A c \in Callers : calls[c].step \notin Synchronous

StartsNext ==
  \/ /\ Interruptible
     /\ \/ \E r \in Requests, h \in Settings : Begin(r, h)
        \/ \E r \in Requests : Retry(r) \/ Refuse(r) \/ Reserve(r)
        \/ \E h \in Settings : Create(h)
        \/ \E c \in Callers : Worktree(c) \/ NotCreated(c) \/ Resumed(c)
        \/ \E t \in DOMAIN made : Write(t)
  \/ \E c \in Callers : Save(c) \/ Send(c) \/ Resend(c)
  \/ CrashStarts

\* However often a request is sent again, after refusals, failures and crashes,
\* it makes one task, and that task receives the request's message once
\* (service.ts:622: "pending and unknown outcomes are never replayed").
OneTaskPerRequest ==
  \A r \in Requests :
    /\ Cardinality({t \in DOMAIN made : made[t].owner = r /\ made[t].saved}) <= 1
    /\ \A t \in DOMAIN made : made[t].owner = r => made[t].sent <= 1

\* What the tables say of a creation is what happened: a worktree nobody's task
\* owns is under an intent that is pending or unknown, so that it blocks new
\* creations; a failed start has a task to write to, a complete one has its message.
CreationsAreAccountedFor ==
  /\ \A t \in DOMAIN made : made[t].worktree /\ ~made[t].saved => made[t].intent \in {"pending", "unknown"}
  /\ \A r \in Requests :
       /\ starts[r].state \in {"failed", "complete"} => made[starts[r].task].saved
       /\ starts[r].state = "complete" => made[starts[r].task].sent = 1 \/ made[starts[r].task].other

\* However often a start is asked for, refused, lost or repeated, it makes one task
\* and leaves a record of what else it may have left.
StartsAreAccountedFor == OneTaskPerRequest /\ CreationsAreAccountedFor
=============================================================================
