------------------------------- MODULE Commands -------------------------------
(***************************************************************************)
(* An approved command (command-runner.ts, windows-job.ts and the helper   *)
(* job-runner.ps1): the runtime starts a helper process, the helper starts *)
(* the command in a job object and ends the job when it is told to, when   *)
(* the runtime dies, or when the command is through.  The runtime and the  *)
(* helper share no more than the spec on the helper's input, a file whose  *)
(* existence means `cancel', a file with the result, and their deaths.     *)
(***************************************************************************)
EXTENDS Integers, FiniteSets

CONSTANT Calls      \* callers of execute with one and the same prepared command

VARIABLES prepared,   \* CommandRunner.prepared holds the command
          fresh,      \* the worktree is as it was when the command was prepared
          runtime,    \* the runtime's process lives
          exec,       \* execute of each call, its signal, and what the caller was told
          helper,     \* the helper of each call and the verdict it is about to write
          files,      \* the two files of each call
          job         \* the command of each call, and the one process it may start

cmVars == <<prepared, fresh, runtime, exec, helper, files, job>>

Off == {"none", "gone"}
Processes == {"none", "suspended", "running", "dying", "gone"}
Verdicts == {"none", "verified", "unverified"}

CommandsTypeOK ==
  /\ prepared \in BOOLEAN /\ fresh \in BOOLEAN /\ runtime \in BOOLEAN
  /\ exec \in [Calls -> [step: {"idle", "refreshing", "resolving", "supervising", "over"},
                         aborted: BOOLEAN, told: {"nothing", "refused", "verified", "unknown"}]]
  /\ helper \in [Calls -> [step: {"none", "starting", "ready", "created", "assigned", "cancelling",
                                  "monitoring", "ending", "writing", "gone"},
                           verdict: Verdicts]]
  /\ files \in [Calls -> [cancel: BOOLEAN, result: Verdicts]]
  /\ job \in [Calls -> [root: Processes, child: Processes \ {"suspended"}, assigned: BOOLEAN, ran: BOOLEAN]]

CommandsInit ==
  /\ prepared = TRUE /\ fresh = TRUE /\ runtime = TRUE
  /\ exec = [c \in Calls |-> [step |-> "idle", aborted |-> FALSE, told |-> "nothing"]]
  /\ helper = [c \in Calls |-> [step |-> "none", verdict |-> "none"]]
  /\ files = [c \in Calls |-> [cancel |-> FALSE, result |-> "none"]]
  /\ job = [c \in Calls |-> [root |-> "none", child |-> "none", assigned |-> FALSE, ran |-> FALSE]]

-----------------------------------------------------------------------------
\* The runtime.
Goes(c, step) == exec' = [exec EXCEPT ![c].step = step]
Tell(c, told) == exec' = [exec EXCEPT ![c].step = "over", ![c].told = told]
At(c, step) == runtime /\ exec[c].step = step

\* The prepared command is used up before anything is waited for.
Execute(c) ==
  /\ At(c, "idle")
  /\ IF prepared THEN Goes(c, "refreshing") ELSE Tell(c, "refused")
  /\ prepared' = FALSE
  /\ UNCHANGED <<fresh, runtime, helper, files, job>>

\* It is prepared once more, and the two fingerprints compared.
Refresh(c) ==
  /\ At(c, "refreshing")
  /\ \/ fresh /\ ~exec[c].aborted /\ Goes(c, "resolving")
     \/ Tell(c, "refused")
  /\ UNCHANGED <<prepared, fresh, runtime, helper, files, job>>

\* The helper is found and a directory made for the files; then, without an
\* await, the helper is started and given all it needs.
Launch(c) ==
  /\ At(c, "resolving")
  /\ \/ /\ ~exec[c].aborted /\ Goes(c, "supervising")
        /\ helper' = [helper EXCEPT ![c].step = "starting"]
     \/ Tell(c, "refused") /\ UNCHANGED helper
  /\ UNCHANGED <<prepared, fresh, runtime, files, job>>

AbortCommand(c) ==
  /\ runtime /\ exec[c].step \notin {"idle", "over"} /\ ~exec[c].aborted
  /\ exec' = [exec EXCEPT ![c].aborted = TRUE]
  /\ UNCHANGED <<prepared, fresh, runtime, helper, files, job>>

WriteCancel(c) ==
  /\ At(c, "supervising") /\ exec[c].aborted
  /\ files' = [files EXCEPT ![c].cancel = TRUE]
  /\ UNCHANGED <<prepared, fresh, runtime, exec, helper, job>>

\* The helper's end: its result is read, and without one nothing is certain.
Closed(c) ==
  /\ At(c, "supervising") /\ helper[c].step = "gone"
  /\ Tell(c, IF files[c].result = "verified" THEN "verified" ELSE "unknown")
  /\ UNCHANGED <<prepared, fresh, runtime, helper, files, job>>

\* The helper could not be started.
NotSpawned(c) ==
  /\ At(c, "supervising") /\ helper[c].step = "starting"
  /\ Tell(c, "unknown")
  /\ helper' = [helper EXCEPT ![c].step = "none"]
  /\ UNCHANGED <<prepared, fresh, runtime, files, job>>

RuntimeDies ==
  /\ runtime /\ runtime' = FALSE
  /\ UNCHANGED <<prepared, fresh, exec, helper, files, job>>

FilesChange ==
  /\ fresh /\ fresh' = FALSE
  /\ UNCHANGED <<prepared, runtime, exec, helper, files, job>>

-----------------------------------------------------------------------------
\* The helper.
Helps(c, from, step) == helper[c].step = from /\ helper' = [helper EXCEPT ![c].step = step]
Concludes(c, verdict) == helper' = [helper EXCEPT ![c] = [step |-> "writing", verdict |-> verdict]]
ByHelper == UNCHANGED <<prepared, fresh, runtime, exec>>

\* A process that is ended is gone a little later.
Dying(p) == IF p \in {"suspended", "running"} THEN "dying" ELSE p
Terminated(c) == [job EXCEPT ![c].root = Dying(@), ![c].child = Dying(@)]

\* Mutant: the command's own process stands for the whole job.
JobEmptyOfRoot(c) == job[c].root \in Off

JobEmpty(c) == job[c].root \in Off /\ job[c].child \in Off

\* Before it has started anything, it looks for `cancel' twice and for the runtime.
Look(c) ==
  /\ helper[c].step \in {"starting", "ready"}
  /\ \/ files[c].cancel /\ (helper[c].step = "starting" \/ runtime) /\ Concludes(c, "verified")
     \/ ~files[c].cancel /\ runtime /\ Helps(c, "starting", "ready")
  /\ ByHelper /\ UNCHANGED <<files, job>>

Create(c) ==
  /\ runtime /\ ~files[c].cancel /\ Helps(c, "ready", "created")
  /\ job' = [job EXCEPT ![c].root = "suspended"]
  /\ ByHelper /\ UNCHANGED files

Assign(c) ==
  /\ Helps(c, "created", "assigned")
  /\ job' = [job EXCEPT ![c].assigned = TRUE]
  /\ ByHelper /\ UNCHANGED files

Resume(c) ==
  /\ runtime /\ ~files[c].cancel /\ Helps(c, "assigned", "monitoring")
  /\ job' = [job EXCEPT ![c].root = "running", ![c].ran = TRUE]
  /\ ByHelper /\ UNCHANGED files

CancelSuspended(c) ==
  /\ runtime /\ files[c].cancel /\ Helps(c, "assigned", "cancelling")
  /\ job' = Terminated(c)
  /\ ByHelper /\ UNCHANGED files

\* The job may count a process that is gone for a moment longer.
SuspendedGone(c) ==
  /\ helper[c].step = "cancelling" /\ job[c].root = "gone"
  /\ \E verdict \in {"verified", "unverified"} : Concludes(c, verdict)
  /\ ByHelper /\ UNCHANGED <<files, job>>

\* Mutant: the helper does not look at the runtime's process.
OverForTheUser(c) == job[c].root = "gone" \/ files[c].cancel

\* Why the command's time is over: it ended, or nobody waits for it any more.
Over(c) == job[c].root = "gone" \/ files[c].cancel \/ ~runtime
EndJob(c) ==
  /\ Over(c) /\ Helps(c, "monitoring", "ending")
  /\ job' = Terminated(c)
  /\ ByHelper /\ UNCHANGED files

Timeout(c) ==
  /\ Helps(c, "monitoring", "ending")
  /\ job' = Terminated(c)
  /\ ByHelper /\ UNCHANGED files

\* The root has ended; the job is watched for five seconds until it is empty.
Verify(c) ==
  /\ helper[c].step = "ending" /\ job[c].root = "gone"
  /\ \/ JobEmpty(c) /\ Concludes(c, "verified")
     \/ ~JobEmpty(c) /\ Concludes(c, "unverified")
  /\ ByHelper /\ UNCHANGED <<files, job>>

\* An error: what was created is ended.  One exit without a result.
HelperFails(c) ==
  /\ helper[c].step \in {"starting", "ready", "created", "assigned", "cancelling", "ending", "writing"}
  /\ helper' = [helper EXCEPT ![c].step = "gone"]
  /\ job' = Terminated(c)
  /\ ByHelper /\ UNCHANGED files

\* The job is closed, which ends what is in it, and the result is written.
Finish(c) ==
  /\ Helps(c, "writing", "gone")
  /\ files' = [files EXCEPT ![c].result = helper[c].verdict]
  /\ job' = Terminated(c)
  /\ ByHelper

\* It is killed, by the runtime's watchdog or by anyone: the job closes with it,
\* but a process that is not in the job yet stays suspended.
HelperKilled(c) ==
  /\ helper[c].step \notin Off
  /\ helper' = [helper EXCEPT ![c].step = "gone"]
  /\ job' = IF job[c].assigned THEN Terminated(c) ELSE job
  /\ ByHelper /\ UNCHANGED files

HelperStep(c) ==
  \/ Look(c) \/ Create(c) \/ Assign(c) \/ Resume(c) \/ CancelSuspended(c) \/ SuspendedGone(c)
  \/ EndJob(c) \/ Verify(c) \/ Finish(c) \/ HelperFails(c)

-----------------------------------------------------------------------------
\* The command.
Command(c, p, from, to) ==
  /\ job[c][p] = from /\ job' = [job EXCEPT ![c][p] = to]
  /\ UNCHANGED <<prepared, fresh, runtime, exec, helper, files>>
Gone(c) == \E p \in {"root", "child"} : Command(c, p, "dying", "gone")
StartsProcess(c) == job[c].root = "running" /\ Command(c, "child", "none", "running")
Exits(c) == \E p \in {"root", "child"} : Command(c, p, "running", "gone")

ExecuteStep(c) == Refresh(c) \/ Launch(c) \/ WriteCancel(c) \/ Closed(c)

CommandsNext ==
  \/ \E c \in Calls :
       \/ Execute(c) \/ ExecuteStep(c) \/ AbortCommand(c) \/ NotSpawned(c)
       \/ HelperStep(c) \/ Timeout(c) \/ HelperKilled(c)
       \/ Gone(c) \/ StartsProcess(c) \/ Exits(c)
  \/ RuntimeDies \/ FilesChange

\* The event loop runs, a file in the directory just made can be written, the
\* helper polls every 50 ms, and what is terminated goes away.  A command need
\* not end, and no timeout or watchdog need come.
Due(c) == ExecuteStep(c) \/ HelperStep(c) \/ Gone(c)
CommandsFairness == \A c \in Calls : WF_cmVars(Due(c))

CommandsSpec == CommandsInit /\ [][CommandsNext]_cmVars

-----------------------------------------------------------------------------
\* What execute says is so: a refused command has not run and will not, one whose
\* cleanup is verified has left no process, and a prepared command runs once.
CommandsAreToldRight ==
  /\ \A c \in Calls :
       /\ exec[c].told = "refused" => ~job[c].ran /\ helper[c].step = "none"
       /\ exec[c].told = "verified" => {job[c].root, job[c].child} \subseteq Off
  /\ Cardinality({c \in Calls : job[c].ran}) <= 1

\* A command that was cancelled, or whose runtime died, does not run for ever,
\* though it ignores both and no timeout comes.
Runs(c) == "running" \in {job[c].root, job[c].child}
RunsForNobody == \E c \in Calls : Runs(c) /\ (exec[c].aborted \/ ~runtime)
NoneRunsForNobody == RunsForNobody ~> ~RunsForNobody
=============================================================================
