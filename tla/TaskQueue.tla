------------------------------- MODULE TaskQueue -------------------------------
(***************************************************************************)
(* The queue of long-running tasks of the user interface                   *)
(* (contrib/django/freppledb/execute): web requests add a row to the table *)
(* execute_log and launch a worker process when none seems to be active;   *)
(* a worker runs the waiting tasks one by one through management commands, *)
(* and a planning run is a process of its own, the engine, that reports    *)
(* its progress in the same row; a user may cancel a task.  A worker may   *)
(* die at any time, which its heartbeat tells the next request; its engine *)
(* lives on.                                                               *)
(*                                                                         *)
(* Task.save() writes all fields of the row from a copy that was read some *)
(* time before, so each read and each save is a step of its own.  Task     *)
(* identifiers are the numbers the database hands out.                     *)
(***************************************************************************)
EXTENDS Integers, FiniteSets

CONSTANTS
  MaxTasks,        (* bound: tasks that are submitted                      *)
  MaxIncidents,    (* bound: tasks that somebody tries to cancel and       *)
                   (* workers that die                                     *)
  Kinds            (* what the tasks may be, one function for each case    *)

ASSUME BoundAssumption == {MaxTasks, MaxIncidents} \subseteq Nat
Task == 1..MaxTasks
Worker == 1..MaxTasks            \* a request launches at most one process
Kind == {"plan", "command", "dataset", "unknown"}     \* see Submit
ASSUME KindsAssumption == Kinds \subseteq [Task -> Kind]
NoTask == 0
NoWorker == 0

Status == {"absent", "Waiting", "%", "Done", "Failed", "Canceled"}
Final == {"Done", "Failed", "Canceled"}
Row == [status : Status, started : BOOLEAN, finished : BOOLEAN]
NoRow == [status |-> "absent", started |-> FALSE, finished |-> FALSE]
Cancellation == [stage : {"none", "kill", "save", "over"}, copy : Row]

VARIABLES
  row,         (* execute_log: the row of each task                        *)
  kind,        (* what each task is                                        *)
  launching,   (* requests that saved their task and not yet look for a    *)
               (* worker                                                   *)
  stamp,       (* the parameter 'Worker alive' is there and recent         *)
  pc,          (* where each worker process is                             *)
  job,         (* the task it processes, or processed when it died         *)
  copy,        (* the copy of its row: of the management command, or what  *)
               (* the worker reads again after it                          *)
  engine,      (* the planning process it waits for                        *)
  engineCopy,  (* the copy of that process (global task in commands.py)    *)
  logged,      (* the worker whose engine was the last to write the id of  *)
               (* its process to the log file; nobody when no such process *)
               (* exists any more                                          *)
  cancel,      (* where the cancellation of each task is, and its copy     *)
  completed,   (* history: tasks that were carried out to the end, and     *)
               (* planning runs that exited with code 2                    *)
  crashed      (* history: workers that died                               *)

queue == <<row, kind>>
process == <<pc, job, copy>>
planning == <<engine, engineCopy, logged>>
vars == <<queue, launching, stamp, process, planning, cancel, completed, crashed>>

Init ==
  /\ row = [t \in Task |-> NoRow]
  /\ kind \in Kinds
  /\ launching = {}
  /\ stamp = FALSE
  /\ pc = [w \in Worker |-> "none"]
  /\ job = [w \in Worker |-> NoTask]
  /\ copy = [w \in Worker |-> NoRow]
  /\ engine = [w \in Worker |-> "none"]
  /\ engineCopy = [w \in Worker |-> NoRow]
  /\ logged = NoWorker
  /\ cancel = [t \in Task |-> [stage |-> "none", copy |-> NoRow]]
  /\ completed = {}
  /\ crashed = {}

Save(t, r) == row' = [row EXCEPT ![t] = r]
Goto(w, place) == pc' = [pc EXCEPT ![w] = place]

Incidents == Cardinality(crashed) + Cardinality({t \in Task : cancel[t].stage # "none"})

Running(r) == [r EXCEPT !.status = "%", !.started = TRUE]
Ended(r, status) == [r EXCEPT !.status = status, !.finished = TRUE]

-----------------------------------------------------------------------------
(* The heartbeat.  The stamp is cut to whole seconds and renewed after a   *)
(* sleep of five, and five seconds make it too old: there is a moment in   *)
(* each period when a worker that lives seems not to.  When it has left,   *)
(* its stamp stays recent for a while, because the statement that removes  *)
(* it fails (see Pick).                                                    *)

AliveAt == {"pick", "read", "reject", "start", "work", "save", "reread", "close", "fail"}
SomeoneLives == \E w \in Worker : pc[w] \in AliveAt

CheckActive == IF SomeoneLives THEN {FALSE, stamp} ELSE {stamp}

Beat(w) ==
  /\ pc[w] \in AliveAt
  /\ ~stamp
  /\ stamp' = TRUE
  /\ UNCHANGED <<queue, launching, process, planning, cancel, completed, crashed>>

Lapse ==
  /\ stamp /\ ~SomeoneLives
  /\ stamp' = FALSE
  /\ UNCHANGED <<queue, launching, process, planning, cancel, completed, crashed>>

-----------------------------------------------------------------------------
(* The web server: wrapTask() *)

(* A task is a planning run, another command that keeps the row up to date *)
(* itself, or the load of a dataset, whose command knows nothing of tasks. *)
(* An extension may add tasks that the worker does not know.               *)
Submit(t) ==
  /\ row[t].status = "absent"
  /\ \A u \in Task : u < t => row[u].status # "absent"
  /\ Save(t, [NoRow EXCEPT !.status = "Waiting"])
  /\ launching' = launching \cup {t}
  /\ UNCHANGED <<kind, stamp, process, planning, cancel, completed, crashed>>

Unused(w) == pc[w] = "none" /\ \A v \in Worker : v < w => pc[v] # "none"

Launch(t) ==
  /\ t \in launching
  /\ launching' = launching \ {t}
  /\ \E active \in CheckActive :
       \/ active /\ UNCHANGED pc
       \/ ~active /\ \E w \in Worker : Unused(w) /\ Goto(w, "check")
  /\ UNCHANGED <<queue, stamp, job, copy, planning, cancel, completed, crashed>>

-----------------------------------------------------------------------------
(* The worker: frepple_runworker *)

Enter(w) ==
  /\ pc[w] = "check"
  /\ \E active \in CheckActive : Goto(w, IF active THEN "gone" ELSE "pick")
  /\ UNCHANGED <<queue, launching, stamp, job, copy, planning, cancel, completed, crashed>>

Waiting == {t \in Task : row[t].status = "Waiting"}

(* The first waiting task; when there is none the process ends, and the    *)
(* removal of 'Worker alive' fails because the command has no attribute    *)
(* database.  A task that is not recognized is only logged, and treated    *)
(* like one whose command has returned.                                    *)
Pick(w) ==
  /\ pc[w] = "pick"
  /\ \/ Waiting = {} /\ Goto(w, "gone") /\ UNCHANGED job
     \/ \E t \in Waiting :
          /\ \A u \in Waiting : t <= u
          /\ job' = [job EXCEPT ![w] = t]
          /\ Goto(w, CASE kind[t] = "unknown" -> "reread"
                       [] kind[t] = "dataset" -> "work"
                       [] OTHER -> "read")
  /\ UNCHANGED <<queue, launching, stamp, copy, planning, cancel, completed, crashed>>

LetGo(w) ==
  /\ Goto(w, "pick")
  /\ job' = [job EXCEPT ![w] = NoTask]
  /\ copy' = [copy EXCEPT ![w] = NoRow]

(* After a command that returned normally: the row is read again ...       *)
Reread(w) ==
  /\ pc[w] = "reread"
  /\ copy' = [copy EXCEPT ![w] = row[job[w]]]
  /\ Goto(w, "close")
  /\ UNCHANGED <<queue, launching, stamp, job, planning, cancel, completed, crashed>>

(* Variant: only the times are filled in.                                  *)
CloseTimes(w) ==
  /\ pc[w] = "close"
  /\ IF copy[w].status \in {"Done", "Failed"} /\ copy[w].finished /\ copy[w].started
     THEN UNCHANGED row
     ELSE Save(job[w], [copy[w] EXCEPT !.started = TRUE, !.finished = TRUE])
  /\ LetGo(w)
  /\ UNCHANGED <<kind, launching, stamp, planning, cancel, completed, crashed>>

Closed(r) == [status |-> IF r.status = "Failed" THEN "Failed" ELSE "Done",
              started |-> TRUE, finished |-> TRUE]

(* ... and completed if the command did not do so.                         *)
Close(w) ==
  /\ pc[w] = "close"
  /\ IF copy[w].status \in {"Done", "Failed"} /\ copy[w].finished /\ copy[w].started
     THEN UNCHANGED row
     ELSE Save(job[w], Closed(copy[w]))
  /\ LetGo(w)
  /\ UNCHANGED <<kind, launching, stamp, planning, cancel, completed, crashed>>

(* Variant: an exception of a command ends the worker.                     *)
FailLeaves(w) ==
  /\ pc[w] = "fail"
  /\ Save(job[w], [status |-> "Failed", started |-> TRUE, finished |-> TRUE])
  /\ Goto(w, "gone")
  /\ job' = [job EXCEPT ![w] = NoTask]
  /\ UNCHANGED <<kind, launching, stamp, copy, planning, cancel, completed, crashed>>

(* After an exception the worker saves the copy it made when it picked the *)
(* task: one that waits and was not started.                               *)
Fail(w) ==
  /\ pc[w] = "fail"
  /\ Save(job[w], [status |-> "Failed", started |-> TRUE, finished |-> TRUE])
  /\ LetGo(w)
  /\ UNCHANGED <<kind, launching, stamp, planning, cancel, completed, crashed>>

-----------------------------------------------------------------------------
(* The management commands *)

Fresh(r) == r.status = "Waiting" /\ ~r.started /\ ~r.finished

(* The command reads the row again and refuses a task that was started. *)
Read(w) ==
  /\ pc[w] = "read"
  /\ copy' = [copy EXCEPT ![w] = row[job[w]]]
  /\ Goto(w, IF Fresh(row[job[w]]) THEN "start" ELSE "reject")
  /\ UNCHANGED <<queue, launching, stamp, job, planning, cancel, completed, crashed>>

(* The refusal is raised where the handler already holds the row: it marks *)
(* the task as failed.  (frepple_copy refuses before; Fail writes the same *)
(* row.)                                                                   *)
Reject(w) ==
  /\ pc[w] = "reject"
  /\ Save(job[w], Ended(copy[w], "Failed"))
  /\ Goto(w, "fail")
  /\ UNCHANGED <<kind, launching, stamp, job, copy, planning, cancel, completed, crashed>>

Start(w) ==
  /\ pc[w] = "start"
  /\ copy' = [copy EXCEPT ![w] = Running(@)]
  /\ Save(job[w], copy'[w])
  /\ engine' = [engine EXCEPT ![w] = IF kind[job[w]] = "plan" THEN "starting" ELSE "none"]
  /\ Goto(w, "work")
  /\ UNCHANGED <<kind, launching, stamp, job, engineCopy, logged, cancel, completed, crashed>>

(* Commands like frepple_createmodel and frepple_backup report progress.   *)
Progress(w) ==
  /\ pc[w] = "work" /\ kind[job[w]] = "command"
  /\ row[job[w]] # copy[w]
  /\ Save(job[w], copy[w])
  /\ UNCHANGED <<kind, launching, stamp, process, planning, cancel, completed, crashed>>

CommandEnds(w) ==
  /\ pc[w] = "work" /\ kind[job[w]] = "command"
  /\ \/ /\ completed' = completed \cup {job[w]}
        /\ copy' = [copy EXCEPT ![w] = Ended(@, "Done")]
     \/ /\ copy' = [copy EXCEPT ![w] = Ended(@, "Failed")]
        /\ UNCHANGED completed
  /\ Goto(w, "save")
  /\ UNCHANGED <<queue, launching, stamp, job, planning, cancel, crashed>>

DatasetEnds(w) ==
  /\ pc[w] = "work" /\ kind[job[w]] = "dataset"
  /\ \/ Goto(w, "reread") /\ completed' = completed \cup {job[w]}
     \/ Goto(w, "fail") /\ UNCHANGED completed
  /\ UNCHANGED <<queue, launching, stamp, job, copy, planning, cancel, crashed>>

(* A process that has ended exists until somebody waited for it. *)
Exited == {"ended", "stopped", "failed"}

Reap(w) ==
  /\ engine' = [engine EXCEPT ![w] = "none"]
  /\ logged' = IF logged = w THEN NoWorker ELSE logged

(* Variant: the exit code is not looked at. *)
EngineReturnsUnchecked(w) ==
  /\ pc[w] = "work" /\ kind[job[w]] = "plan"
  /\ engine[w] \in Exited
  /\ copy' = [copy EXCEPT ![w] = Ended(@, "Done")]
  /\ Reap(w)
  /\ Goto(w, "save")
  /\ UNCHANGED <<queue, launching, stamp, job, engineCopy, cancel, completed, crashed>>

(* frepple_run waits for the engine and looks at its exit code: 2 counts   *)
(* as a success, meant for runs that a user cancelled, but that of a       *)
(* killed process is another one.                                          *)
EngineReturns(w) ==
  /\ pc[w] = "work" /\ kind[job[w]] = "plan"
  /\ engine[w] \in Exited
  /\ copy' = [copy EXCEPT ![w] = Ended(@, IF engine[w] \in {"ended", "stopped"}
                                          THEN "Done" ELSE "Failed")]
  /\ Reap(w)
  /\ Goto(w, "save")
  /\ UNCHANGED <<queue, launching, stamp, job, engineCopy, cancel, completed, crashed>>

SaveResult(w) ==
  /\ pc[w] = "save"
  /\ Save(job[w], copy[w])
  /\ Goto(w, IF copy[w].status = "Done" THEN "reread" ELSE "fail")
  /\ UNCHANGED <<kind, launching, stamp, job, copy, planning, cancel, completed, crashed>>

(* The process of the worker dies; the task it had in hand stays as it is. *)
Crash(w) ==
  /\ Incidents < MaxIncidents
  /\ pc[w] \in AliveAt \cup {"check"}
  /\ crashed' = crashed \cup {w}
  /\ Goto(w, "gone")
  /\ copy' = [copy EXCEPT ![w] = NoRow]
  /\ UNCHANGED <<queue, launching, stamp, job, planning, cancel, completed>>

-----------------------------------------------------------------------------
(* The planning engine: commands.py, run by the executable frepple *)

Planning == {"reporting", "running"}

(* printWelcome() starts a new log file with the id of the process. *)
EngineWelcome(w) ==
  /\ engine[w] = "starting"
  /\ engine' = [engine EXCEPT ![w] = "reporting"]
  /\ logged' = w
  /\ UNCHANGED <<queue, launching, stamp, process, engineCopy, cancel, completed, crashed>>

(* logProgress() reads the row at its first call, before anything else, *)
(* and saves this copy at every call.                                   *)
ReadProgress(w) ==
  /\ engine[w] = "reporting"
  /\ engineCopy[w] = NoRow
  /\ engineCopy' = [engineCopy EXCEPT ![w] = [row[job[w]] EXCEPT !.status = "%"]]
  /\ UNCHANGED <<queue, launching, stamp, process, engine, logged, cancel, completed, crashed>>

LogProgress(w) ==
  /\ engine[w] \in Planning
  /\ engineCopy[w] # NoRow
  /\ engine[w] = "reporting" \/ row[job[w]] # engineCopy[w]
  /\ Save(job[w], engineCopy[w])
  /\ engine' = [engine EXCEPT ![w] = "running"]
  /\ UNCHANGED <<kind, launching, stamp, process, engineCopy, logged, cancel, completed, crashed>>

(* The engine makes the plan, exits with code 2 or fails.  (The status     *)
(* Canceling, for which logProgress() exits with 2, is written nowhere;    *)
(* the script of an extension may do it.)                                  *)
EngineEnds(w) ==
  /\ engine[w] \in Planning
  /\ \/ /\ \/ engine[w] = "running" /\ engine' = [engine EXCEPT ![w] = "ended"]
           \/ engine' = [engine EXCEPT ![w] = "stopped"]
        /\ completed' = completed \cup {job[w]}
     \/ /\ engine' = [engine EXCEPT ![w] = "failed"]
        /\ UNCHANGED completed
  /\ engineCopy' = [engineCopy EXCEPT ![w] = NoRow]
  /\ UNCHANGED <<queue, launching, stamp, process, logged, cancel, crashed>>

(* The operating system waits for a process whose parent has died.         *)
OrphanEnds(w) ==
  /\ pc[w] = "gone"
  /\ engine[w] \in Exited
  /\ Reap(w)
  /\ UNCHANGED <<queue, launching, stamp, process, engineCopy, cancel, completed, crashed>>

-----------------------------------------------------------------------------
(* A user cancels a task, at most once: CancelTask() *)

Over == [stage |-> "over", copy |-> NoRow]

(* Variant: a task that does not wait is not refused. *)
CancelReadUnchecked(t) ==
  /\ cancel[t].stage = "none"
  /\ Incidents < MaxIncidents
  /\ row[t].status # "absent"
  /\ cancel' = [cancel EXCEPT ![t] =
                  [stage |-> IF kind[t] = "plan" /\ row[t].status = "%" THEN "kill" ELSE "save",
                   copy |-> row[t]]]
  /\ UNCHANGED <<queue, launching, stamp, process, planning, completed, crashed>>

(* A planning run may be cancelled while its status is a percentage, any   *)
(* other task while it waits.                                              *)
CancelRead(t) ==
  /\ cancel[t].stage = "none"
  /\ Incidents < MaxIncidents
  /\ LET r == row[t]
     IN  \/ /\ kind[t] = "plan" /\ r.status = "%"
            /\ cancel' = [cancel EXCEPT ![t] = [stage |-> "kill", copy |-> r]]
         \/ /\ r.status = "Waiting"
            /\ cancel' = [cancel EXCEPT ![t] = [stage |-> "save", copy |-> r]]
  /\ UNCHANGED <<queue, launching, stamp, process, planning, completed, crashed>>

(* The process in the log file is killed, whichever task it plans; the     *)
(* request fails when it does not exist any more.                          *)
CancelKill(t) ==
  /\ cancel[t].stage = "kill"
  /\ IF logged # NoWorker
     THEN /\ engine' = [engine EXCEPT ![logged] = IF @ \in Planning THEN "failed" ELSE @]
          /\ engineCopy' = [engineCopy EXCEPT ![logged] = NoRow]
          /\ cancel' = [cancel EXCEPT ![t].stage = "save"]
     ELSE /\ cancel' = [cancel EXCEPT ![t] = Over]
          /\ UNCHANGED <<engine, engineCopy>>
  /\ UNCHANGED <<queue, launching, stamp, process, logged, completed, crashed>>

(* Variant: the status as the engine spells it. *)
CancelSaveMisspelt(t) ==
  /\ cancel[t].stage = "save"
  /\ Save(t, [cancel[t].copy EXCEPT !.status = "Cancelled"])
  /\ cancel' = [cancel EXCEPT ![t] = Over]
  /\ UNCHANGED <<kind, launching, stamp, process, planning, completed, crashed>>

CancelSave(t) ==
  /\ cancel[t].stage = "save"
  /\ Save(t, [cancel[t].copy EXCEPT !.status = "Canceled"])
  /\ cancel' = [cancel EXCEPT ![t] = Over]
  /\ UNCHANGED <<kind, launching, stamp, process, planning, completed, crashed>>

-----------------------------------------------------------------------------
Request(t) == Launch(t) \/ CancelKill(t) \/ CancelSave(t)

Command(w) ==
  \/ Read(w) \/ Reject(w) \/ Start(w) \/ Progress(w) \/ CommandEnds(w)
  \/ DatasetEnds(w) \/ EngineReturns(w) \/ SaveResult(w)

WorkerStep(w) ==
  Enter(w) \/ Pick(w) \/ Reread(w) \/ Close(w) \/ Fail(w) \/ Command(w)

Engine(w) ==
  EngineWelcome(w) \/ ReadProgress(w) \/ LogProgress(w) \/ EngineEnds(w) \/ OrphanEnds(w)

Next ==
  \/ \E t \in Task : Submit(t) \/ Request(t) \/ CancelRead(t)
  \/ \E w \in Worker : Beat(w) \/ WorkerStep(w) \/ Engine(w) \/ Crash(w)
  \/ Lapse

Spec == Init /\ [][Next]_vars

(* Requests, workers and engines are scheduled by the operating system,    *)
(* commands come to an end, and time passes.  Nobody has to submit or to   *)
(* cancel a task.                                                          *)
Fairness ==
  /\ \A t \in Task : WF_vars(Request(t))
  /\ \A w \in Worker :
       /\ WF_vars(WorkerStep(w)) /\ WF_vars(CommandEnds(w))
       /\ WF_vars(EngineWelcome(w)) /\ WF_vars(EngineEnds(w)) /\ WF_vars(OrphanEnds(w))
  /\ WF_vars(Lapse)
FairSpec == Spec /\ Fairness

-----------------------------------------------------------------------------
TypeOK ==
  /\ row \in [Task -> Row]
  /\ kind \in Kinds
  /\ launching \subseteq Task
  /\ stamp \in BOOLEAN
  /\ pc \in [Worker -> AliveAt \cup {"none", "check", "gone"}]
  /\ job \in [Worker -> Task \cup {NoTask}]
  /\ {copy, engineCopy} \subseteq [Worker -> Row]
  /\ engine \in [Worker -> {"none", "starting"} \cup Planning \cup Exited]
  /\ logged \in Worker \cup {NoWorker}
  /\ cancel \in [Task -> Cancellation]
  /\ completed \subseteq Task
  /\ crashed \subseteq Worker

(* What the worker takes for a success: a task that was carried out or     *)
(* exited with code 2, and one that it does not know.                      *)
Accepted(t) == t \in completed \/ kind[t] = "unknown"

(* A task that is shown as Done has its times and was carried out to its   *)
(* end, whatever copies of its row other processes save, unless the worker *)
(* does not know it or its engine exited with code 2.                      *)
DoneIsComplete ==
  \A t \in Task : row[t].status = "Done" => Accepted(t) /\ row[t].started /\ row[t].finished

(* The inductive invariant behind DoneIsComplete and ResultStands: nobody  *)
(* holds a copy of a row with a result that is not due.  The copy of a     *)
(* command shows a running task until the command has ended; a worker      *)
(* rereads the row only after a task that it takes for a success; ...      *)
CommandCopies ==
  \A w \in Worker :
    /\ pc[w] \in AliveAt \ {"pick"} => job[w] \in Task
    /\ pc[w] = "work" /\ kind[job[w]] # "dataset" => copy[w].status = "%" /\ copy[w].started
    /\ pc[w] = "save" /\ copy[w].status = "Done" =>
         Accepted(job[w]) /\ copy[w].started /\ copy[w].finished
    /\ pc[w] \in {"reread", "close"} => Accepted(job[w])

(* ... an engine works for a worker that waits for it or has died, shows a *)
(* percentage, and ends without an error only when it made the plan or     *)
(* exited with code 2; ...                                                 *)
EngineCopies ==
  \A w \in Worker :
    /\ engine[w] # "none" => pc[w] \in {"work", "gone"} /\ job[w] \in Task /\ kind[job[w]] = "plan"
    /\ engineCopy[w] = NoRow \/ engineCopy[w].status = "%"
    /\ engine[w] \in {"ended", "stopped"} => job[w] \in completed

(* ... and a request cancels a task that was not over when it read the row.*)
CancelCopies ==
  \A t \in Task : cancel[t].stage \in {"kill", "save"} => cancel[t].copy.status \notin Final

CopiesInv == TypeOK /\ DoneIsComplete /\ CommandCopies /\ EngineCopies /\ CancelCopies

(* A worker that lives works on the task, or an engine does.               *)
InHand(t) ==
  \E w \in Worker : job[w] = t /\ (pc[w] \in AliveAt \/ engine[w] \in {"starting"} \cup Planning)

(* The result of a task that nobody has in hand stands: nobody saves an    *)
(* older copy of its row any more, but for a user whose request to cancel  *)
(* it was accepted before it came to its end.                              *)
ResultStands ==
  [][\A t \in Task :
       row[t].status \in {"Done", "Failed"} /\ ~InHand(t) =>
         \/ row'[t] = row[t]
         \/ cancel[t].stage = "save" /\ cancel[t].copy.status \notin Final]_vars

(* A task that is shown as running comes to its end: after every save of a *)
(* percentage, by whatever process, the one that started it writes the     *)
(* result, unless it has died.                                             *)
EveryRunEnds ==
  \A t \in Task :
    row[t].status = "%" ~> row[t].status \in Final \/ \E w \in crashed : job[w] = t

(* A worker that lives takes every task that waits, the ones submitted     *)
(* while it is busy too; and when it has died, and its stamp is old, the   *)
(* next request launches another one, which takes them all.  (Unless one   *)
(* more worker dies meanwhile.)                                            *)
BusyWorkerDrains ==
  \A t \in Task, n \in 0..MaxIncidents :
    /\ Cardinality(crashed) = n
    /\ t \in Waiting
    /\ SomeoneLives \/ (launching # {} /\ ~stamp)
    ~> t \notin Waiting \/ Cardinality(crashed) # n

(* "When you hit the launch button the task is added to a job queue. A     *)
(* separate worker process will execute the tasks from the queue": no task *)
(* waits forever.                                                          *)
EveryTaskIsTaken == \A t \in Task : t \in Waiting ~> t \notin Waiting
=============================================================================
