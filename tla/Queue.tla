------------------------------- MODULE Queue -------------------------------
(***************************************************************************)
(* The durable run queue of the AMOF API process: the record store         *)
(* (queue/store.py), the run manager's copy of every status                *)
(* (api/run_manager.py), the single worker thread that claims and executes *)
(* subprocess tasks (queue/dispatcher.py), the API threads that enqueue    *)
(* and stop lifecycle runs, and the reconciliation done at start-up.  The  *)
(* runs are release lifecycle runs, the ones that can be stopped.          *)
(*                                                                         *)
(* A queue record is one JSON file.  QueueStore.save locks only the write, *)
(* so every "load the record, change it, save it" of the run manager is    *)
(* two steps here, and another thread may step in between.  A thread is a  *)
(* list of the steps it still has to take; the operators of the section    *)
(* "Programs" give the lists, in the order of the calls in the code.       *)
(***************************************************************************)
EXTENDS Naturals, Sequences

CONSTANTS Runs,        \* run ids
          Callers,     \* request threads of the API process
          Worker,      \* the dispatcher thread
          None,        \* no run
          Serialised,  \* TRUE: no thread steps between another's load and save, which
                       \* store.py does not guarantee; FALSE: any thread may
          Crashes      \* how many times the API process may die

ASSUME WorkerIsNoCaller == Worker \notin Callers
ASSUME NoneIsNoRun == None \notin Runs
ASSUME SerialisedIsBoolean == Serialised \in BOOLEAN
ASSUME CrashesIsNat == Crashes \in Nat

VARIABLES rec,      \* queue record of each run, as on disk
          run,      \* status of each run in the run manager and its store
          order,    \* runs in the order they were created
          proc,     \* the subprocess of each run
          active,   \* QueueDispatcher._active_process, by the run it belongs to
          thread,   \* what every thread has still to do
          up,       \* the API process: "up", "down" or "starting"
          crashes,  \* crashes so far
          starts,   \* history: how often the subprocess was started (0, 1, 2 = more)
          heard,    \* history: stops accepted ("runtime will honor it") while the
                    \* process was live
          refused   \* history: stops answered by "Task cancelled before execution"

history == <<starts, heard, refused>>
vars == <<rec, run, order, proc, active, thread, up, crashes, history>>

-----------------------------------------------------------------------------
(* Records and statuses *)

QStatus == {"pending", "paused", "running", "done", "error", "cancelled"}
QTerminal == {"done", "error", "cancelled"}
RStatus == {"queued", "running", "success", "failed", "cancelled"}
RTerminal == {"success", "failed", "cancelled"}

Allowed ==
    [pending   |-> {"pending", "paused", "running", "cancelled"},
     paused    |-> {"paused", "pending", "cancelled"},
     running   |-> {"running", "done", "error", "cancelled"},
     done      |-> {"done"},
     error     |-> {"error"},
     cancelled |-> {"cancelled"}]

Absent == [status |-> "absent", stop |-> FALSE]
Records == [status : QStatus, stop : BOOLEAN]

CanTransition(r, s) == rec[r].status \in QStatus /\ s \in Allowed[rec[r].status]

\* _queue_status_for_run
QueueStatusForRun(s) ==
    [queued |-> "pending", running |-> "running", success |-> "done",
     failed |-> "error", cancelled |-> "cancelled"][s]

-----------------------------------------------------------------------------
(* Programs *)

\* append_event, append_log, update_loop_state: load the record, change
\* metadata, save the record as loaded.
Touch == <<"load", "save">>

\* Mutant: update_status forgets to set the run's own status.
UpdateQueueOnly == <<"load", "put">>

\* update_status: set the run's status, then load the record and save it with
\* the mapped status and the control block that was loaded.
Update == <<"setrun", "load", "put">>

EnqueueSteps == <<"create">>
LifecycleNoted == Touch \o Touch
StopSteps == <<"stopload">>
StopNoted(item) ==
    Touch \o Touch \o (IF item = "cancelled" THEN Update ELSE <<"signal">>)
StartSteps == Update \o Touch \o Touch \o <<"spawn">>
PollSteps(output) == (IF output THEN Touch ELSE <<>>) \o <<"checkstop">>
FinishSteps(status) ==
    (CASE status = "cancelled" -> <<>>
       [] status = "success" -> Touch
       [] status = "failed" -> Touch \o Touch) \o Update \o Touch

Labels == {"load", "save", "put", "setrun", "create", "stopload", "stopwrite",
           "stopmark", "signal", "spawn", "poll", "checkstop", "terminate",
           "kill", "deadline", "expire", "exited", "final"}

Threads == Callers \cup {Worker}
Idle == [todo |-> <<>>, run |-> None, loc |-> Absent, to |-> "queued",
         asked |-> FALSE, late |-> FALSE]

At(t, label) == up = "up" /\ thread[t].todo # <<>> /\ Head(thread[t].todo) = label

\* The thread has read a record that it will write back.
Holding(t) == \E l \in {"save", "put", "stopwrite"} : At(t, l)
Free(t) == Serialised => \A u \in Threads \ {t} : ~Holding(u)

Rest(t) == Tail(thread[t].todo)
Return(t) == thread' = [thread EXCEPT ![t] = Idle]
Step(t) ==
    thread' = [thread EXCEPT ![t] = IF Rest(t) = <<>> /\ t # Worker THEN Idle
                                    ELSE [@ EXCEPT !.todo = Rest(t)]]
Goto(t, steps) == thread' = [thread EXCEPT ![t].todo = steps]

-----------------------------------------------------------------------------
(* Shared steps: the run manager *)

\* queue_store.load, the first half of every touch and update.  A missing
\* record cannot occur: each run is touched after its record was saved.
Load(t) ==
    /\ At(t, "load") /\ Free(t)
    /\ thread' = [thread EXCEPT ![t].todo = Rest(t), ![t].loc = rec[thread[t].run]]
    /\ UNCHANGED <<rec, run, order, proc, active, up, crashes, history>>

\* queue_store.save(existing): the record as it was loaded.
Save(t) ==
    /\ At(t, "save") /\ Free(t)
    /\ rec' = [rec EXCEPT ![thread[t].run] = thread[t].loc]
    /\ Step(t)
    /\ UNCHANGED <<run, order, proc, active, up, crashes, history>>

SetRun(t) ==
    /\ At(t, "setrun")
    /\ run' = [run EXCEPT ![thread[t].run] = thread[t].to]
    /\ Step(t)
    /\ UNCHANGED <<rec, order, proc, active, up, crashes, history>>

\* The save that ends update_status: no can_transition_to check.
Put(t) ==
    /\ At(t, "put") /\ Free(t)
    /\ rec' = [rec EXCEPT ![thread[t].run] =
                   [thread[t].loc EXCEPT !.status = QueueStatusForRun(thread[t].to)]]
    /\ Step(t)
    /\ UNCHANGED <<run, order, proc, active, up, crashes, history>>

-----------------------------------------------------------------------------
(* API threads *)

\* Mutant: a created run is missing from the store's listing.
EnqueueUnlisted(c, r) ==
    /\ up = "up" /\ thread[c] = Idle
    /\ run[r] = "absent"
    /\ run' = [run EXCEPT ![r] = "queued"]
    /\ thread' = [thread EXCEPT ![c].todo = EnqueueSteps, ![c].run = r]
    /\ UNCHANGED <<rec, order, proc, active, up, crashes, history>>

\* enqueue_subprocess, to the end of create_run's first half.
Enqueue(c, r) ==
    /\ up = "up" /\ thread[c] = Idle
    /\ run[r] = "absent"
    /\ run' = [run EXCEPT ![r] = "queued"]
    /\ order' = Append(order, r)
    /\ thread' = [thread EXCEPT ![c].todo = EnqueueSteps, ![c].run = r]
    /\ UNCHANGED <<rec, proc, active, up, crashes, history>>

\* create_run saves the pending record, which makes it claimable; the run is
\* then given a "queued" event and a loop state.
CreateRecord(c) ==
    /\ At(c, "create") /\ Free(c)
    /\ rec' = [rec EXCEPT ![thread[c].run] = [status |-> "pending", stop |-> FALSE]]
    /\ Goto(c, LifecycleNoted)
    /\ UNCHANGED <<run, order, proc, active, up, crashes, history>>

\* POST /runs/{id}/control: 404 for an unknown run, 409 for a terminal one.
ControlStop(c, r) ==
    /\ up = "up" /\ thread[c] = Idle
    /\ run[r] \in RStatus \ RTerminal
    /\ thread' = [thread EXCEPT ![c].todo = StopSteps, ![c].run = r]
    /\ UNCHANGED <<rec, run, order, proc, active, up, crashes, history>>

\* request_stop reads the record outside the lock.
StopLoad(c) ==
    LET r == thread[c].run IN
    /\ At(c, "stopload") /\ Free(c)
    /\ IF rec[r].status \in {"pending", "paused", "running"}
       THEN thread' = [thread EXCEPT ![c].todo = <<"stopwrite">>, ![c].loc = rec[r]]
       ELSE Return(c)
    /\ UNCHANGED <<rec, run, order, proc, active, up, crashes, history>>

\* ... and then either makes a locked transition to cancelled, which rereads
\* the record and may be refused, or saves what it read with the stop flag.
StopWrite(c) ==
    LET r == thread[c].run
        item == IF thread[c].loc.status = "running" THEN "running" ELSE "cancelled"
    IN
    /\ At(c, "stopwrite") /\ Free(c)
    /\ \/ /\ item = "running" \/ CanTransition(r, "cancelled")
          /\ rec' = [rec EXCEPT ![r] = [status |-> item, stop |-> TRUE]]
          /\ thread' = [thread EXCEPT ![c].todo = <<"stopmark">>, ![c].to = item]
       \/ /\ item = "cancelled" /\ ~CanTransition(r, "cancelled")
          /\ Return(c)
          /\ UNCHANGED rec
    /\ UNCHANGED <<run, order, proc, active, up, crashes, history>>

\* transition(run_id, item.status, control metadata): raises, and ends the
\* request with 409, when the record can no longer take that status.
StopMark(c) ==
    LET r == thread[c].run
        item == thread[c].to
    IN
    /\ At(c, "stopmark") /\ Free(c)
    /\ IF CanTransition(r, item)
       THEN /\ rec' = [rec EXCEPT ![r].status = item]
            /\ Goto(c, StopNoted(item))
            /\ refused' = IF item = "cancelled" THEN refused \cup {r} ELSE refused
            /\ heard' = IF item = "running" /\ proc[r] = "live"
                        THEN heard \cup {r} ELSE heard
       ELSE Return(c) /\ UNCHANGED <<rec, heard, refused>>
    /\ UNCHANGED <<run, order, proc, active, up, crashes, starts>>

\* The process that stop_task terminates: self._active_process, if it lives.
StopTarget == IF active # None /\ proc[active] = "live" THEN active ELSE None

\* stop_task ends by sending SIGTERM to that process, which may obey it at once,
\* later (ProcessExit) or never.
StopSignal(c) ==
    /\ At(c, "signal")
    /\ \/ UNCHANGED proc
       \/ /\ StopTarget # None
          /\ \E code \in {"ok", "bad"} : proc' = [proc EXCEPT ![StopTarget] = code]
    /\ Return(c)
    /\ UNCHANGED <<rec, run, order, active, up, crashes, history>>

-----------------------------------------------------------------------------
(* The worker *)

Pending == {i \in DOMAIN order : rec[order[i]].status = "pending"}

\* claim_next: the oldest pending record, under the store's lock.
ClaimNext ==
    /\ up = "up" /\ thread[Worker] = Idle /\ Free(Worker)
    /\ \E i \in Pending :
         /\ \A j \in Pending : i <= j
         /\ rec' = [rec EXCEPT ![order[i]] = [status |-> "running", stop |-> FALSE]]
         /\ thread' = [thread EXCEPT ![Worker] =
                [Idle EXCEPT !.todo = StartSteps, !.run = order[i], !.to = "running"]]
    /\ UNCHANGED <<run, order, proc, active, up, crashes, history>>

Finish(status) ==
    thread' = [thread EXCEPT ![Worker].todo = FinishSteps(status), ![Worker].to = status]

\* Popen, or the exception path when the command cannot be started.
Spawn ==
    LET r == thread[Worker].run IN
    /\ At(Worker, "spawn")
    /\ \/ /\ proc' = [proc EXCEPT ![r] = "live"]
          /\ active' = r
          /\ starts' = [starts EXCEPT ![r] = IF @ = 0 THEN 1 ELSE 2]
          /\ Goto(Worker, <<"poll">>)
       \/ Finish("failed") /\ UNCHANGED <<proc, active, starts>>
    /\ UNCHANGED <<rec, run, order, up, crashes, heard, refused>>

\* One turn of the polling loop starts: output is drained into the log.
Poll ==
    /\ At(Worker, "poll")
    /\ \E output \in BOOLEAN : Goto(Worker, PollSteps(output))
    /\ UNCHANGED <<rec, run, order, proc, active, up, crashes, history>>

\* _stop_requested and process.poll() is None: terminate the first time, and
\* once five seconds have passed since, kill.
CheckStop ==
    LET w == thread[Worker]
        stopping == rec[w.run].stop /\ proc[w.run] = "live"
    IN
    /\ At(Worker, "checkstop")
    /\ \/ stopping /\ ~w.asked /\ Goto(Worker, Touch \o <<"terminate", "deadline">>)
       \/ stopping /\ w.asked /\ Goto(Worker, Touch \o <<"kill", "deadline">>)
       \/ (stopping => w.asked) /\ Goto(Worker, <<"deadline">>)
    /\ UNCHANGED <<rec, run, order, proc, active, up, crashes, history>>

\* process.terminate(): a request, which the subprocess may ignore.
Terminate ==
    /\ At(Worker, "terminate")
    /\ thread' = [thread EXCEPT ![Worker].todo = Rest(Worker), ![Worker].asked = TRUE]
    /\ UNCHANGED <<rec, run, order, proc, active, up, crashes, history>>

\* process.kill() cannot be ignored.
Kill ==
    LET r == thread[Worker].run IN
    /\ At(Worker, "kill")
    /\ proc' = [proc EXCEPT ![r] = IF @ = "live" THEN "bad" ELSE @]
    /\ Step(Worker)
    /\ UNCHANGED <<rec, run, order, active, up, crashes, history>>

\* The wallclock deadline may have passed while the process still lives.
DeadlinePassed ==
    /\ At(Worker, "deadline") /\ proc[thread[Worker].run] = "live"
    /\ Goto(Worker, Touch \o Touch \o <<"expire", "exited">>)
    /\ UNCHANGED <<rec, run, order, proc, active, up, crashes, history>>

DeadlineAhead ==
    /\ At(Worker, "deadline")
    /\ Goto(Worker, <<"exited">>)
    /\ UNCHANGED <<rec, run, order, proc, active, up, crashes, history>>

\* Mutant: a process that ignores SIGTERM is not killed.
ExpireTerminatesOnly ==
    /\ At(Worker, "expire")
    /\ thread' = [thread EXCEPT ![Worker].todo = Rest(Worker), ![Worker].late = TRUE]
    /\ UNCHANGED <<rec, run, order, proc, active, up, crashes, history>>

\* Terminate, wait ten seconds, kill: the process is gone afterwards, with an
\* exit code of its own choice if it obeyed the first signal.
Expire ==
    LET r == thread[Worker].run IN
    /\ At(Worker, "expire")
    /\ \E code \in {"ok", "bad"} :
         proc' = [proc EXCEPT ![r] = IF @ = "live" THEN code ELSE @]
    /\ thread' = [thread EXCEPT ![Worker].todo = Rest(Worker), ![Worker].late = TRUE]
    /\ UNCHANGED <<rec, run, order, active, up, crashes, history>>

\* Mutant: the loop is left although the process still lives.
ExitedUnwaited ==
    /\ At(Worker, "exited")
    /\ Goto(Worker, <<"final">>)
    /\ UNCHANGED <<rec, run, order, proc, active, up, crashes, history>>

\* The loop turns until the process has exited; the rest of its output is logged.
Exited ==
    /\ At(Worker, "exited")
    /\ IF proc[thread[Worker].run] = "live"
       THEN Goto(Worker, <<"poll">>)
       ELSE \E output \in BOOLEAN :
              Goto(Worker, (IF output THEN Touch ELSE <<>>) \o <<"final">>)
    /\ UNCHANGED <<rec, run, order, proc, active, up, crashes, history>>

\* The stop flag is read one last time; then the exit code decides, and a zero
\* from a process that overran its deadline counts as a failure.
Outcome(w) ==
    IF rec[w.run].stop THEN "cancelled"
    ELSE IF proc[w.run] = "ok" /\ ~w.late THEN "success" ELSE "failed"

Final ==
    /\ At(Worker, "final")
    /\ Finish(Outcome(thread[Worker]))
    /\ UNCHANGED <<rec, run, order, proc, active, up, crashes, history>>

\* The finally clause of _worker_loop.
Finally ==
    /\ up = "up" /\ thread[Worker].run # None /\ thread[Worker].todo = <<>>
    /\ active' = None
    /\ Return(Worker)
    /\ UNCHANGED <<rec, run, order, proc, up, crashes, history>>

\* A subprocess ends by itself, or because it obeyed a SIGTERM.
ProcessExit(r) ==
    /\ proc[r] = "live"
    /\ \E code \in {"ok", "bad"} : proc' = [proc EXCEPT ![r] = code]
    /\ UNCHANGED <<rec, run, order, active, thread, up, crashes, history>>

-----------------------------------------------------------------------------
(* Death and start of the API process *)

\* Every thread is lost; files, and a live subprocess, stay.
Crash ==
    /\ up # "down" /\ crashes < Crashes
    /\ up' = "down"
    /\ crashes' = crashes + 1
    /\ thread' = [t \in Threads |-> Idle]
    /\ active' = None
    /\ UNCHANGED <<rec, run, order, proc, history>>

Restart ==
    /\ up = "down"
    /\ up' = "starting"
    /\ UNCHANGED <<rec, run, order, proc, active, thread, crashes, history>>

\* Mutant: an orphaned running task is queued again instead of failed.
ReconcileRequeues(r) ==
    /\ up = "starting" /\ rec[r].status = "running" /\ run[r] \notin RTerminal
    /\ rec' = [rec EXCEPT ![r].status = "pending"]
    /\ UNCHANGED <<run, order, proc, active, thread, up, crashes, history>>

\* _reconcile_orphaned_running_tasks, before the worker starts and before any
\* request is served: a running record whose run is not over fails the run ...
ReconcileRun(r) ==
    /\ up = "starting" /\ rec[r].status = "running" /\ run[r] \notin RTerminal
    /\ run' = [run EXCEPT ![r] = "failed"]
    /\ UNCHANGED <<rec, order, proc, active, thread, up, crashes, history>>

\* ... and a running record whose run is over takes over the run's status.
ReconcileRecord(r) ==
    /\ up = "starting" /\ rec[r].status = "running" /\ run[r] \in RTerminal
    /\ rec' = [rec EXCEPT ![r].status = QueueStatusForRun(run[r])]
    /\ UNCHANGED <<run, order, proc, active, thread, up, crashes, history>>

\* Mutant: the worker starts before the orphaned records are reconciled.
StartWorkerEarly ==
    /\ up = "starting"
    /\ up' = "up"
    /\ UNCHANGED <<rec, run, order, proc, active, thread, crashes, history>>

StartWorker ==
    /\ up = "starting" /\ \A r \in Runs : rec[r].status # "running"
    /\ up' = "up"
    /\ UNCHANGED <<rec, run, order, proc, active, thread, crashes, history>>

-----------------------------------------------------------------------------
Init ==
    /\ rec = [r \in Runs |-> Absent]
    /\ run = [r \in Runs |-> "absent"]
    /\ order = <<>>
    /\ proc = [r \in Runs |-> "none"]
    /\ active = None
    /\ thread = [t \in Threads |-> Idle]
    /\ up = "starting"
    /\ crashes = 0
    /\ starts = [r \in Runs |-> 0]
    /\ heard = {} /\ refused = {}

ManagerStep(t) == Load(t) \/ Save(t) \/ SetRun(t) \/ Put(t)

CallerStep(c) ==
    \/ ManagerStep(c)
    \/ CreateRecord(c) \/ StopLoad(c) \/ StopWrite(c) \/ StopMark(c) \/ StopSignal(c)

WorkerStep ==
    \/ ManagerStep(Worker)
    \/ ClaimNext \/ Spawn \/ Poll \/ CheckStop \/ Terminate \/ Kill
    \/ DeadlinePassed \/ DeadlineAhead \/ Expire \/ Exited \/ Final \/ Finally

StartStep ==
    \/ Restart \/ StartWorker
    \/ \E r \in Runs : ReconcileRun(r) \/ ReconcileRecord(r)

Next ==
    \/ \E c \in Callers : CallerStep(c)
    \/ \E c \in Callers, r \in Runs : Enqueue(c, r) \/ ControlStop(c, r)
    \/ WorkerStep
    \/ \E r \in Runs : ProcessExit(r)
    \/ Crash
    \/ StartStep

Spec == Init /\ [][Next]_vars

\* Threads that have begun an operation go on, a lock they wait for is granted
\* in the end, the deadline passes in the end, and a dead API process is
\* started again.  No request has to be made, and no subprocess has to exit by
\* itself.
FairSpec ==
    /\ Spec
    /\ \A c \in Callers : SF_vars(CallerStep(c))
    /\ SF_vars(WorkerStep)
    /\ SF_vars(DeadlinePassed)
    /\ WF_vars(StartStep)

-----------------------------------------------------------------------------
(* Properties *)

ThreadStates ==
    [todo : Seq(Labels), run : Runs \cup {None}, loc : Records \cup {Absent},
     to : RStatus, asked : BOOLEAN, late : BOOLEAN]

\* Every variable has its type, and every run that was created is in the order
\* in which claim_next will look at it.
TypeOK ==
    /\ rec \in [Runs -> Records \cup {Absent}]
    /\ run \in [Runs -> RStatus \cup {"absent"}]
    /\ order \in Seq(Runs)
    /\ proc \in [Runs -> {"none", "live", "ok", "bad"}]
    /\ active \in Runs \cup {None}
    /\ thread \in [Threads -> ThreadStates]
    /\ up \in {"up", "down", "starting"}
    /\ crashes \in 0..Crashes
    /\ starts \in [Runs -> 0..2]
    /\ heard \subseteq Runs /\ refused \subseteq Runs
    /\ \A r \in Runs : run[r] # "absent" <=> \E i \in DOMAIN order : order[i] = r

\* A run is executed at most once, over crashes and the reconciliation after them.
StartedOnce == \A r \in Runs : starts[r] <= 1

\* A run whose log says "Task cancelled before execution" was not executed and
\* will not be, whatever the worker, a crash and the reconciliation do afterwards.
CancelledNeverRan == \A r \in refused : starts[r] = 0

\* As long as no thread steps between another's load and save, a run is executed at
\* most once and not at all if its stop said so: a crash in any write of claim, finish,
\* stop or reconciliation brings no record back to pending, and a refused run is not
\* claimed later.  Without that assumption neither half holds (a stop or an event that
\* loaded the record before the claim saves it afterwards).
ExecutedAsReported == StartedOnce /\ CancelledNeverRan

\* A stop that was accepted while the subprocess was live ends in "cancelled", which is
\* what stop_task logs: "runtime will honor it at the next supported interruption point".
\* (A crash may end it in "failed".)  It takes that the flag survives until the worker
\* reads it; a load-save pair of the worker around it erases it.
StopHonoured ==
    \A r \in heard :
      run[r] \in RTerminal => run[r] = "cancelled" \/ (run[r] = "failed" /\ crashes > 0)

\* While the API process does not crash, no two subprocesses live at once, and
\* one that lives is the active process of the worker.
OneLiveProcess ==
    crashes = 0 => \A r \in Runs : proc[r] = "live" => active = r

Settled(r) == \A t \in Threads : thread[t].run # r

\* While the API process does not crash, a run that no thread is working on has
\* the same status in the run store and in the queue.
StoresAgree ==
    crashes = 0 =>
      \A r \in Runs : Settled(r) /\ run[r] # "absent" =>
                        rec[r].status = QueueStatusForRun(run[r])

\* The process that stop_task is about to terminate is the one of the run it was
\* asked to stop, never that of a run nobody asked to stop.
SignalsOwnProcess ==
    \A c \in Callers : At(c, "signal") => StopTarget \in {thread[c].run, None}

\* In the end every run that was ever created rests in a final status, whatever the
\* subprocess does and however often the API process crashes: no record stays pending
\* or running for good.
EveryTaskSettles == <>[](\A r \in Runs : rec[r].status \in QTerminal \cup {"absent"})

-----------------------------------------------------------------------------
(* The promise the queue keeps as long as load-save pairs do not interleave *)

RunningRun ==
    LET running == {r \in Runs : rec[r].status = "running"}
    IN IF running = {} THEN None ELSE CHOOSE r \in running : TRUE

Slot == INSTANCE QueueSlot WITH status <- [r \in Runs |-> rec[r].status],
                                slot <- RunningRun

\* The records behave like one execution slot with runs moving only forward:
\* no second record is running beside another, not even after a crash.
ImplementsQueueSlot == Slot!Spec
=============================================================================
