---------------------------- MODULE QueueProofs ----------------------------
(***************************************************************************)
(* Proofs about the run queue for every set of runs and request threads    *)
(* and any number of crashes: the types and the one live process for every *)
(* interleaving of load-save pairs, the rest for serialised ones.          *)
(***************************************************************************)
EXTENDS Queue, SequenceTheorems, TLAPS

StoreType ==
    /\ rec \in [Runs -> Records \cup {Absent}]
    /\ run \in [Runs -> RStatus \cup {"absent"}]
    /\ proc \in [Runs -> {"none", "live", "ok", "bad"}]
    /\ active \in Runs \cup {None}
    /\ up \in {"up", "down", "starting"}
    /\ crashes \in 0..Crashes
    /\ starts \in [Runs -> 0..2]
    /\ heard \subseteq Runs /\ refused \subseteq Runs

OrderInv ==
    /\ order \in Seq(Runs)
    /\ \A r \in Runs : run[r] # "absent" <=> \E i \in DOMAIN order : order[i] = r
    /\ \A r \in Runs : rec[r].status # "absent" => run[r] # "absent"

\* A thread with something to do has a created run to do it for.
WellFormed(s, runs) ==
    /\ s \in ThreadStates
    /\ s.todo # <<>> => s.run \in Runs /\ runs[s.run] # "absent"

ThreadInv ==
    /\ thread \in [Threads -> ThreadStates]
    /\ \A t \in Threads : WellFormed(thread[t], run)

\* Runs are never deleted.
RunsStay == \A r \in Runs : run[r] # "absent" => run'[r] # "absent"

\* The inductive invariant behind type correctness.
TypeInv == StoreType /\ OrderInv /\ ThreadInv

-----------------------------------------------------------------------------
(***************************************************************************)
(* The lists of steps, and the helpers that move a thread along them.      *)
(***************************************************************************)

\* Every program is a list of labels.
LEMMA ProgramTypes ==
    /\ Touch \in Seq(Labels) /\ Update \in Seq(Labels)
    /\ EnqueueSteps \in Seq(Labels) /\ LifecycleNoted \in Seq(Labels)
    /\ StopSteps \in Seq(Labels) /\ StartSteps \in Seq(Labels)
    /\ \A item : StopNoted(item) \in Seq(Labels)
    /\ \A output : PollSteps(output) \in Seq(Labels)
    /\ \A s \in RTerminal : FinishSteps(s) \in Seq(Labels)
    /\ \A l \in Labels : <<l>> \in Seq(Labels)
<1>1. Touch \in Seq(Labels) /\ Update \in Seq(Labels)
  BY DEF Touch, Update, Labels
<1>2. /\ <<>> \in Seq(Labels) /\ <<"signal">> \in Seq(Labels)
      /\ <<"spawn">> \in Seq(Labels) /\ <<"checkstop">> \in Seq(Labels)
      /\ EnqueueSteps \in Seq(Labels) /\ StopSteps \in Seq(Labels)
  BY DEF EnqueueSteps, StopSteps, Labels
<1>3. \A a, b \in Seq(Labels) : a \o b \in Seq(Labels)
  BY ConcatProperties
<1>4. LifecycleNoted \in Seq(Labels) /\ StartSteps \in Seq(Labels)
  BY <1>1, <1>2, <1>3 DEF LifecycleNoted, StartSteps
<1>5. \A item : StopNoted(item) \in Seq(Labels)
  BY <1>1, <1>2, <1>3 DEF StopNoted
<1>6. \A output : PollSteps(output) \in Seq(Labels)
  BY <1>1, <1>2, <1>3 DEF PollSteps
<1>7. ASSUME NEW s \in RTerminal PROVE FinishSteps(s) \in Seq(Labels)
  <2>1. Touch \o Touch \in Seq(Labels)
    BY <1>1, <1>3
  <2>2. (CASE s = "cancelled" -> <<>>
           [] s = "success" -> Touch
           [] s = "failed" -> Touch \o Touch) \in Seq(Labels)
    BY <1>1, <1>2, <2>1 DEF RTerminal
  <2> QED BY <2>2, <1>1, <1>3 DEF FinishSteps
<1>8. \A l \in Labels : <<l>> \in Seq(Labels)
  OBVIOUS
<1> QED BY <1>1, <1>2, <1>4, <1>5, <1>6, <1>7, <1>8

\* Idle is a well-formed thread.
LEMMA IdleWellFormed == \A runs : WellFormed(Idle, runs)
  BY DEF WellFormed, Idle, ThreadStates, Absent, RStatus

\* A thread that moves to a well-formed state leaves all threads well formed.
LEMMA MoveOK ==
    ASSUME ThreadInv, RunsStay, NEW t \in Threads, NEW s, WellFormed(s, run'),
           thread' = [thread EXCEPT ![t] = s]
    PROVE  ThreadInv'
<1>1. thread' \in [Threads -> ThreadStates]
  BY DEF ThreadInv, WellFormed
<1>2. ASSUME NEW u \in Threads PROVE WellFormed(thread'[u], run')
  BY DEF ThreadInv, WellFormed, RunsStay
<1> QED BY <1>1, <1>2 DEF ThreadInv

\* Return makes the thread idle.
LEMMA ReturnOK ==
    ASSUME ThreadInv, RunsStay, NEW t \in Threads, Return(t)
    PROVE  ThreadInv'
  BY IdleWellFormed, MoveOK DEF Return

\* A thread at a label has a run, and the rest of its list is a list.
LEMMA AtOK ==
    ASSUME ThreadInv, NEW t \in Threads, NEW l, At(t, l)
    PROVE  /\ thread[t] \in ThreadStates /\ thread[t].run \in Runs
           /\ run[thread[t].run] # "absent"
           /\ thread[t].todo \in Seq(Labels) /\ thread[t].todo # <<>>
           /\ Rest(t) \in Seq(Labels)
<1>1. /\ thread[t] \in ThreadStates /\ thread[t].run \in Runs
      /\ run[thread[t].run] # "absent"
      /\ thread[t].todo \in Seq(Labels) /\ thread[t].todo # <<>>
  BY DEF ThreadInv, WellFormed, At, ThreadStates
<1> QED BY <1>1, HeadTailProperties DEF Rest

\* Step drops the first step of the list.
LEMMA StepOK ==
    ASSUME ThreadInv, RunsStay, NEW t \in Threads, NEW l, At(t, l), Step(t)
    PROVE  ThreadInv'
<1> DEFINE s == IF Rest(t) = <<>> /\ t # Worker THEN Idle
                ELSE [thread[t] EXCEPT !.todo = Rest(t)]
<1>1. WellFormed(s, run')
  BY AtOK, IdleWellFormed DEF WellFormed, ThreadStates, RunsStay
<1>2. thread' = [thread EXCEPT ![t] = s]
  BY DEF Step
<1> HIDE DEF s
<1> QED BY <1>1, <1>2, MoveOK

\* Goto gives the thread another list.
LEMMA GotoOK ==
    ASSUME ThreadInv, RunsStay, NEW t \in Threads, NEW l, At(t, l),
           NEW steps \in Seq(Labels), Goto(t, steps)
    PROVE  ThreadInv'
<1> DEFINE s == [thread[t] EXCEPT !.todo = steps]
<1>1. WellFormed(s, run')
  BY AtOK DEF WellFormed, ThreadStates, RunsStay
<1>2. thread' = [thread EXCEPT ![t] = s]
  BY DEF Goto
<1> HIDE DEF s
<1> QED BY <1>1, <1>2, MoveOK

-----------------------------------------------------------------------------
(***************************************************************************)
(* Type correctness                                                        *)
(***************************************************************************)

\* The steps that any thread takes through the run manager keep the types.
LEMMA ManagerTypes ==
    ASSUME TypeInv, NEW t \in Threads, ManagerStep(t)
    PROVE  TypeInv'
<1> USE DEF TypeInv
<1>1. CASE Load(t)
  <2>1. /\ thread[t].run \in Runs /\ run[thread[t].run] # "absent"
        /\ Rest(t) \in Seq(Labels) /\ thread[t] \in ThreadStates
    BY <1>1, AtOK DEF Load
  <2> DEFINE s == [thread[t] EXCEPT !.todo = Rest(t), !.loc = rec[thread[t].run]]
  <2>2. WellFormed(s, run') /\ RunsStay
    BY <1>1, <2>1 DEF WellFormed, ThreadStates, StoreType, Load, RunsStay
  <2>3. thread' = [thread EXCEPT ![t] = s]
    BY <1>1 DEF Load
  <2> HIDE DEF s
  <2>4. ThreadInv'
    BY <2>2, <2>3, MoveOK
  <2> QED BY <1>1, <2>4 DEF Load, StoreType, OrderInv, history
<1>2. CASE Save(t)
  <2>1. /\ thread[t].loc \in Records \cup {Absent} /\ thread[t].run \in Runs
        /\ run[thread[t].run] # "absent"
    BY <1>2, AtOK DEF Save, ThreadStates
  <2>2. ThreadInv'
    BY <1>2, StepOK DEF Save, RunsStay
  <2> QED BY <1>2, <2>1, <2>2 DEF Save, StoreType, OrderInv, history
<1>3. CASE SetRun(t)
  <2>1. /\ thread[t].to \in RStatus /\ thread[t].run \in Runs
        /\ run[thread[t].run] # "absent"
    BY <1>3, AtOK DEF SetRun, ThreadStates
  <2>2. RunsStay
    BY <1>3, <2>1 DEF SetRun, StoreType, RStatus, RunsStay
  <2>3. ThreadInv'
    BY <1>3, <2>2, StepOK DEF SetRun
  <2> QED BY <1>3, <2>1, <2>3 DEF SetRun, StoreType, OrderInv, RStatus, history
<1>4. CASE Put(t)
  <2>1. /\ thread[t].loc \in Records \cup {Absent} /\ thread[t].run \in Runs
        /\ thread[t].to \in RStatus /\ run[thread[t].run] # "absent"
    BY <1>4, AtOK DEF Put, ThreadStates
  <2>2. ThreadInv'
    BY <1>4, StepOK DEF Put, RunsStay
  <2>3. QueueStatusForRun(thread[t].to) \in QStatus
    BY <2>1 DEF QueueStatusForRun, RStatus, QStatus
  <2>4. [thread[t].loc EXCEPT !.status = QueueStatusForRun(thread[t].to)] \in Records
    <3>1. CASE thread[t].loc \in Records
      BY <3>1, <2>3 DEF Records
    <3>2. CASE thread[t].loc = Absent
      <4>1. Absent \in [status : QStatus \cup {"absent"}, stop : BOOLEAN]
        BY DEF Absent
      <4> QED BY <3>2, <2>3, <4>1 DEF Records
    <3> QED BY <3>1, <3>2, <2>1
  <2> QED BY <1>4, <2>1, <2>2, <2>4 DEF Put, StoreType, OrderInv, history
<1> QED BY <1>1, <1>2, <1>3, <1>4 DEF ManagerStep

\* Enqueuing and stopping keep the types.
LEMMA CallerTypes ==
    ASSUME TypeInv, NEW c \in Callers, CallerStep(c)
    PROVE  TypeInv'
<1> USE DEF TypeInv
<1>0. c \in Threads
  BY DEF Threads
<1>1. CASE ManagerStep(c)
  BY <1>0, <1>1, ManagerTypes
<1>2. CASE CreateRecord(c)
  <2>1. ThreadInv'
    BY <1>0, <1>2, GotoOK, ReturnOK, ProgramTypes DEF CreateRecord, RunsStay
  <2>2. [status |-> "pending", stop |-> FALSE] \in Records
    BY DEF Records, QStatus
  <2>3. run[thread[c].run] # "absent"
    BY <1>0, <1>2, AtOK DEF CreateRecord
  <2> QED BY <1>2, <2>1, <2>2, <2>3 DEF CreateRecord, StoreType, OrderInv, history
<1>3. CASE StopLoad(c)
  <2>1. /\ thread[c].run \in Runs /\ run[thread[c].run] # "absent"
        /\ thread[c] \in ThreadStates
    BY <1>0, <1>3, AtOK DEF StopLoad
  <2> DEFINE s == [thread[c] EXCEPT !.todo = <<"stopwrite">>, !.loc = rec[thread[c].run]]
  <2>0. <<"stopwrite">> \in Seq(Labels)
    BY ProgramTypes DEF Labels
  <2>2. WellFormed(s, run') /\ RunsStay
    BY <1>3, <2>0, <2>1 DEF WellFormed, ThreadStates, StoreType, StopLoad, RunsStay
  <2>3. thread' = [thread EXCEPT ![c] = s] \/ Return(c)
    BY <1>3 DEF StopLoad
  <2> HIDE DEF s
  <2>4. ThreadInv'
    BY <1>0, <2>2, <2>3, MoveOK, ReturnOK
  <2> QED BY <1>3, <2>4 DEF StopLoad, StoreType, OrderInv, history
<1>4. CASE StopWrite(c)
  <2>1. /\ thread[c].run \in Runs /\ run[thread[c].run] # "absent"
        /\ thread[c] \in ThreadStates
    BY <1>0, <1>4, AtOK DEF StopWrite
  <2> DEFINE item == IF thread[c].loc.status = "running" THEN "running" ELSE "cancelled"
             s == [thread[c] EXCEPT !.todo = <<"stopmark">>, !.to = item]
  <2>0. <<"stopmark">> \in Seq(Labels) /\ item \in RStatus
    BY ProgramTypes DEF Labels, RStatus
  <2>2. WellFormed(s, run') /\ RunsStay
    BY <1>4, <2>0, <2>1 DEF WellFormed, ThreadStates, StopWrite, RunsStay
  <2>3. \/ /\ thread' = [thread EXCEPT ![c] = s]
           /\ rec' = [rec EXCEPT ![thread[c].run] = [status |-> item, stop |-> TRUE]]
        \/ Return(c) /\ rec' = rec
    BY <1>4 DEF StopWrite
  <2>4. [status |-> item, stop |-> TRUE] \in Records
    BY DEF Records, QStatus
  <2> HIDE DEF s, item
  <2>5. ThreadInv'
    BY <1>0, <2>2, <2>3, MoveOK, ReturnOK
  <2>6. rec' \in [Runs -> Records \cup {Absent}]
    BY <2>3, <2>4 DEF StoreType
  <2>7. \A r \in Runs : rec'[r].status # "absent" => run[r] # "absent"
    BY <2>1, <2>3 DEF StoreType, OrderInv
  <2> QED BY <1>4, <2>5, <2>6, <2>7 DEF StopWrite, StoreType, OrderInv, history
<1>5. CASE StopMark(c)
  <2>1. /\ thread[c].run \in Runs /\ thread[c].to \in RStatus
        /\ run[thread[c].run] # "absent"
    BY <1>0, <1>5, AtOK DEF StopMark, ThreadStates
  <2>2. ThreadInv'
    BY <1>0, <1>5, GotoOK, ReturnOK, ProgramTypes DEF StopMark, RunsStay
  <2>3. rec' \in [Runs -> Records \cup {Absent}]
    <3>1. CASE CanTransition(thread[c].run, thread[c].to)
      <4>1. rec[thread[c].run] \in Records /\ thread[c].to \in QStatus
        BY <3>1, <2>1 DEF CanTransition, StoreType, QStatus, Allowed, Absent
      <4>2. [rec[thread[c].run] EXCEPT !.status = thread[c].to] \in Records
        BY <4>1 DEF Records
      <4> QED BY <1>5, <2>1, <3>1, <4>2 DEF StopMark, StoreType
    <3>2. CASE ~CanTransition(thread[c].run, thread[c].to)
      BY <1>5, <3>2 DEF StopMark, StoreType
    <3> QED BY <3>1, <3>2
  <2>4. heard' \subseteq Runs /\ refused' \subseteq Runs
    BY <1>5, <2>1 DEF StopMark, StoreType
  <2>5. \A r \in Runs : rec'[r].status # "absent" => run[r] # "absent"
    BY <1>5, <2>1 DEF StopMark, StoreType, OrderInv
  <2> QED BY <1>5, <2>2, <2>3, <2>4, <2>5 DEF StopMark, StoreType, OrderInv, history
<1>6. CASE StopSignal(c)
  <2>1. ThreadInv'
    BY <1>0, <1>6, ReturnOK DEF StopSignal, RunsStay
  <2>2. proc' \in [Runs -> {"none", "live", "ok", "bad"}]
    BY <1>6 DEF StopSignal, StoreType
  <2> QED BY <1>6, <2>1, <2>2 DEF StopSignal, StoreType, OrderInv, history
<1> QED BY <1>1, <1>2, <1>3, <1>4, <1>5, <1>6 DEF CallerStep

\* New requests keep the types.
LEMMA RequestTypes ==
    ASSUME TypeInv, NEW c \in Callers, NEW r \in Runs, Enqueue(c, r) \/ ControlStop(c, r)
    PROVE  TypeInv'
<1> USE DEF TypeInv
<1>0. c \in Threads /\ thread[c] \in ThreadStates
  BY DEF Threads, ThreadInv, WellFormed
<1>1. CASE Enqueue(c, r)
  <2> DEFINE s == [thread[c] EXCEPT !.todo = EnqueueSteps, !.run = r]
  <2>1. run' \in [Runs -> RStatus \cup {"absent"}] /\ RunsStay /\ run'[r] = "queued"
    BY <1>1 DEF Enqueue, StoreType, RStatus, RunsStay
  <2>2. WellFormed(s, run')
    BY <1>0, <2>1, ProgramTypes DEF WellFormed, ThreadStates
  <2>3. thread' = [thread EXCEPT ![c] = s]
    BY <1>1 DEF Enqueue
  <2> HIDE DEF s
  <2>4. ThreadInv'
    BY <1>0, <2>1, <2>2, <2>3, MoveOK
  <2>5. OrderInv'
    <3>1. order' = Append(order, r) /\ order \in Seq(Runs)
      BY <1>1 DEF Enqueue, OrderInv
    <3>2. /\ order' \in Seq(Runs) /\ DOMAIN order' = 1..(Len(order) + 1)
          /\ DOMAIN order = 1..Len(order) /\ Len(order) \in Nat
          /\ \A i \in DOMAIN order : order'[i] = order[i]
          /\ order'[Len(order) + 1] = r
      BY <3>1, AppendProperties, LenProperties
    <3>3. ASSUME NEW q \in Runs
          PROVE  run'[q] # "absent" <=> \E i \in DOMAIN order' : order'[i] = q
      <4>1. CASE q = r
        BY <3>2, <2>1, <4>1
      <4>2. CASE q # r
        <5>1. run'[q] = run[q]
          BY <1>1, <4>2 DEF Enqueue
        <5>2. (\E i \in DOMAIN order' : order'[i] = q) <=> (\E i \in DOMAIN order : order[i] = q)
          BY <3>2, <4>2
        <5> QED BY <5>1, <5>2 DEF OrderInv
      <4> QED BY <4>1, <4>2
    <3>4. \A q \in Runs : rec'[q].status # "absent" => run'[q] # "absent"
      BY <1>1, <2>1 DEF Enqueue, OrderInv, RunsStay
    <3> QED BY <3>2, <3>3, <3>4 DEF OrderInv
  <2> QED BY <1>1, <2>1, <2>4, <2>5 DEF Enqueue, StoreType, history
<1>2. CASE ControlStop(c, r)
  <2> DEFINE s == [thread[c] EXCEPT !.todo = StopSteps, !.run = r]
  <2>1. run[r] # "absent" /\ RunsStay /\ run' = run
    BY <1>2 DEF ControlStop, RStatus, RTerminal, RunsStay
  <2>2. WellFormed(s, run')
    BY <1>0, <2>1, ProgramTypes DEF WellFormed, ThreadStates
  <2>3. thread' = [thread EXCEPT ![c] = s]
    BY <1>2 DEF ControlStop
  <2> HIDE DEF s
  <2>4. ThreadInv'
    BY <1>0, <2>1, <2>2, <2>3, MoveOK
  <2> QED BY <1>2, <2>4 DEF ControlStop, StoreType, OrderInv, history
<1> QED BY <1>1, <1>2

\* Finish gives the worker the steps that record an outcome.
LEMMA FinishOK ==
    ASSUME ThreadInv, RunsStay, NEW l, At(Worker, l), NEW status \in RTerminal,
           Finish(status)
    PROVE  ThreadInv'
<1> DEFINE s == [thread[Worker] EXCEPT !.todo = FinishSteps(status), !.to = status]
<1>0. Worker \in Threads /\ status \in RStatus /\ FinishSteps(status) \in Seq(Labels)
  BY ProgramTypes DEF Threads, RTerminal, RStatus
<1>1. WellFormed(s, run')
  BY <1>0, AtOK DEF WellFormed, ThreadStates, RunsStay
<1>2. thread' = [thread EXCEPT ![Worker] = s]
  BY DEF Finish
<1> HIDE DEF s
<1> QED BY <1>0, <1>1, <1>2, MoveOK

\* Lists the polling loop goes on with.
LEMMA LoopTypes ==
    /\ <<"poll">> \in Seq(Labels) /\ <<"deadline">> \in Seq(Labels)
    /\ <<"exited">> \in Seq(Labels)
    /\ Touch \o <<"terminate", "deadline">> \in Seq(Labels)
    /\ Touch \o <<"kill", "deadline">> \in Seq(Labels)
    /\ Touch \o Touch \o <<"expire", "exited">> \in Seq(Labels)
    /\ \A output : (IF output THEN Touch ELSE <<>>) \o <<"final">> \in Seq(Labels)
<1>1. /\ <<"terminate", "deadline">> \in Seq(Labels) /\ <<"kill", "deadline">> \in Seq(Labels)
      /\ <<"expire", "exited">> \in Seq(Labels) /\ <<"final">> \in Seq(Labels)
      /\ <<>> \in Seq(Labels)
  BY DEF Labels
<1>2. /\ <<"poll">> \in Seq(Labels) /\ <<"deadline">> \in Seq(Labels)
      /\ <<"exited">> \in Seq(Labels)
  BY DEF Labels
<1>3. \A a, b \in Seq(Labels) : a \o b \in Seq(Labels)
  BY ConcatProperties
<1> QED BY <1>1, <1>2, <1>3, ProgramTypes

\* The worker keeps the types.
LEMMA WorkerTypes ==
    ASSUME TypeInv, WorkerStep
    PROVE  TypeInv'
<1> USE DEF TypeInv
<1>0. Worker \in Threads
  BY DEF Threads
<1>1. CASE ManagerStep(Worker)
  BY <1>0, <1>1, ManagerTypes
<1>2. CASE ClaimNext
  <2>1. PICK i \in Pending :
          /\ rec' = [rec EXCEPT ![order[i]] = [status |-> "running", stop |-> FALSE]]
          /\ thread' = [thread EXCEPT ![Worker] =
                [Idle EXCEPT !.todo = StartSteps, !.run = order[i], !.to = "running"]]
    BY <1>2 DEF ClaimNext
  <2>2. i \in DOMAIN order
    BY DEF Pending
  <2>3. order[i] \in Runs
    BY <2>2, ElementOfSeq, LenProperties DEF OrderInv
  <2>4. run[order[i]] # "absent"
    BY <2>2, <2>3 DEF OrderInv
  <2> DEFINE s == [Idle EXCEPT !.todo = StartSteps, !.run = order[i], !.to = "running"]
  <2>5. Idle \in ThreadStates /\ "running" \in RStatus
    BY IdleWellFormed DEF WellFormed, RStatus
  <2>6. RunsStay /\ run' = run
    BY <1>2 DEF ClaimNext, RunsStay
  <2>7. WellFormed(s, run')
    BY <2>3, <2>4, <2>5, <2>6, ProgramTypes DEF WellFormed, ThreadStates
  <2>8. thread' = [thread EXCEPT ![Worker] = s]
    BY <2>1
  <2> HIDE DEF s
  <2>9. ThreadInv'
    BY <1>0, <2>6, <2>7, <2>8, MoveOK
  <2>10. [status |-> "running", stop |-> FALSE] \in Records
    BY DEF Records, QStatus
  <2>11. rec' \in [Runs -> Records \cup {Absent}]
    BY <2>1, <2>10 DEF StoreType
  <2>12. \A r \in Runs : rec'[r].status # "absent" => run[r] # "absent"
    BY <2>1, <2>3, <2>4 DEF StoreType, OrderInv
  <2> QED BY <1>2, <2>9, <2>11, <2>12 DEF ClaimNext, StoreType, OrderInv, history
<1>3. CASE Spawn
  <2>1. thread[Worker].run \in Runs
    BY <1>0, <1>3, AtOK DEF Spawn
  <2>2. ThreadInv'
    BY <1>0, <1>3, GotoOK, FinishOK, LoopTypes DEF Spawn, RunsStay, RTerminal
  <2>3. /\ proc' \in [Runs -> {"none", "live", "ok", "bad"}]
        /\ active' \in Runs \cup {None} /\ starts' \in [Runs -> 0..2]
    BY <1>3, <2>1 DEF Spawn, StoreType
  <2> QED BY <1>3, <2>2, <2>3 DEF Spawn, StoreType, OrderInv, history
<1>4. CASE Poll
  <2>1. ThreadInv'
    BY <1>0, <1>4, GotoOK, ProgramTypes DEF Poll, RunsStay
  <2> QED BY <1>4, <2>1 DEF Poll, StoreType, OrderInv, history
<1>5. CASE CheckStop
  <2>1. ThreadInv'
    BY <1>0, <1>5, GotoOK, LoopTypes DEF CheckStop, RunsStay
  <2> QED BY <1>5, <2>1 DEF CheckStop, StoreType, OrderInv, history
<1>6. CASE Terminate
  <2>1. /\ thread[Worker].run \in Runs /\ run[thread[Worker].run] # "absent"
        /\ Rest(Worker) \in Seq(Labels) /\ thread[Worker] \in ThreadStates
    BY <1>0, <1>6, AtOK DEF Terminate
  <2> DEFINE s == [thread[Worker] EXCEPT !.todo = Rest(Worker), !.asked = TRUE]
  <2>2. WellFormed(s, run') /\ RunsStay
    BY <1>6, <2>1 DEF WellFormed, ThreadStates, Terminate, RunsStay
  <2>3. thread' = [thread EXCEPT ![Worker] = s]
    BY <1>6 DEF Terminate
  <2> HIDE DEF s
  <2>4. ThreadInv'
    BY <1>0, <2>2, <2>3, MoveOK
  <2> QED BY <1>6, <2>4 DEF Terminate, StoreType, OrderInv, history
<1>7. CASE Kill
  <2>1. ThreadInv'
    BY <1>0, <1>7, StepOK DEF Kill, RunsStay
  <2>2. proc' \in [Runs -> {"none", "live", "ok", "bad"}]
    BY <1>7 DEF Kill, StoreType
  <2> QED BY <1>7, <2>1, <2>2 DEF Kill, StoreType, OrderInv, history
<1>8. CASE DeadlinePassed
  <2>1. ThreadInv'
    BY <1>0, <1>8, GotoOK, LoopTypes DEF DeadlinePassed, RunsStay
  <2> QED BY <1>8, <2>1 DEF DeadlinePassed, StoreType, OrderInv, history
<1>9. CASE DeadlineAhead
  <2>1. ThreadInv'
    BY <1>0, <1>9, GotoOK, LoopTypes DEF DeadlineAhead, RunsStay
  <2> QED BY <1>9, <2>1 DEF DeadlineAhead, StoreType, OrderInv, history
<1>10. CASE Expire
  <2>1. /\ thread[Worker].run \in Runs /\ run[thread[Worker].run] # "absent"
        /\ Rest(Worker) \in Seq(Labels) /\ thread[Worker] \in ThreadStates
    BY <1>0, <1>10, AtOK DEF Expire
  <2> DEFINE s == [thread[Worker] EXCEPT !.todo = Rest(Worker), !.late = TRUE]
  <2>2. WellFormed(s, run') /\ RunsStay
    BY <1>10, <2>1 DEF WellFormed, ThreadStates, Expire, RunsStay
  <2>3. thread' = [thread EXCEPT ![Worker] = s]
    BY <1>10 DEF Expire
  <2> HIDE DEF s
  <2>4. ThreadInv'
    BY <1>0, <2>2, <2>3, MoveOK
  <2>5. proc' \in [Runs -> {"none", "live", "ok", "bad"}]
    BY <1>10 DEF Expire, StoreType
  <2> QED BY <1>10, <2>4, <2>5 DEF Expire, StoreType, OrderInv, history
<1>11. CASE Exited
  <2>1. ThreadInv'
    BY <1>0, <1>11, GotoOK, LoopTypes DEF Exited, RunsStay
  <2> QED BY <1>11, <2>1 DEF Exited, StoreType, OrderInv, history
<1>12. CASE Final
  <2>1. Outcome(thread[Worker]) \in RTerminal
    BY DEF Outcome, RTerminal
  <2>2. ThreadInv'
    BY <1>12, <2>1, FinishOK DEF Final, RunsStay
  <2> QED BY <1>12, <2>2 DEF Final, StoreType, OrderInv, history
<1>13. CASE Finally
  <2>1. ThreadInv'
    BY <1>0, <1>13, ReturnOK DEF Finally, RunsStay
  <2> QED BY <1>13, <2>1 DEF Finally, StoreType, OrderInv, history
<1> QED BY <1>1, <1>2, <1>3, <1>4, <1>5, <1>6, <1>7, <1>8, <1>9, <1>10, <1>11,
           <1>12, <1>13 DEF WorkerStep

\* Exits, crashes and the start of the API process keep the types.
LEMMA ProcessTypes ==
    ASSUME TypeInv, (\E r \in Runs : ProcessExit(r)) \/ Crash \/ StartStep
    PROVE  TypeInv'
<1> USE DEF TypeInv
<1>1. CASE \E r \in Runs : ProcessExit(r)
  <2>1. thread' = thread /\ run' = run /\ proc' \in [Runs -> {"none", "live", "ok", "bad"}]
    BY <1>1 DEF ProcessExit, StoreType
  <2> QED BY <1>1, <2>1 DEF ProcessExit, StoreType, OrderInv, ThreadInv, history
<1>2. CASE Crash
  <2>1. ThreadInv'
    BY <1>2, IdleWellFormed DEF Crash, ThreadInv, WellFormed
  <2>2. crashes' \in 0..Crashes
    BY <1>2, CrashesIsNat DEF Crash, StoreType
  <2> QED BY <1>2, <2>1, <2>2 DEF Crash, StoreType, OrderInv, history
<1>3. CASE Restart \/ StartWorker
  BY <1>3 DEF Restart, StartWorker, StoreType, OrderInv, ThreadInv, history
<1>4. ASSUME NEW r \in Runs, ReconcileRun(r) PROVE TypeInv'
  <2>1. run[r] # "absent"
    BY <1>4 DEF ReconcileRun, OrderInv
  <2>2. run' \in [Runs -> RStatus \cup {"absent"}] /\ RunsStay
    BY <1>4 DEF ReconcileRun, StoreType, RStatus, RunsStay
  <2>3. ThreadInv'
    BY <1>4, <2>2 DEF ReconcileRun, ThreadInv, WellFormed, RunsStay
  <2>4. OrderInv'
    BY <1>4, <2>1 DEF ReconcileRun, StoreType, OrderInv
  <2> QED BY <1>4, <2>2, <2>3, <2>4 DEF ReconcileRun, StoreType, history
<1>5. ASSUME NEW r \in Runs, ReconcileRecord(r) PROVE TypeInv'
  <2>1. QueueStatusForRun(run[r]) \in QStatus /\ rec[r] \in Records
    BY <1>5 DEF QueueStatusForRun, RTerminal, QStatus, ReconcileRecord, StoreType, Absent
  <2>2. [rec[r] EXCEPT !.status = QueueStatusForRun(run[r])] \in Records
    BY <2>1 DEF Records
  <2>3. rec' \in [Runs -> Records \cup {Absent}]
    BY <1>5, <2>2 DEF ReconcileRecord, StoreType
  <2>4. \A q \in Runs : rec'[q].status # "absent" => run[q] # "absent"
    BY <1>5, <2>1 DEF ReconcileRecord, StoreType, OrderInv
  <2> QED BY <1>5, <2>3, <2>4 DEF ReconcileRecord, StoreType, OrderInv, ThreadInv, history
<1> QED BY <1>1, <1>2, <1>3, <1>4, <1>5 DEF StartStep

\* The initial state has the types.
LEMMA QueueInitTypes == Init => TypeInv
<1> SUFFICES ASSUME Init PROVE TypeInv
  OBVIOUS
<1>1. ThreadInv
  BY IdleWellFormed DEF Init, ThreadInv, WellFormed
<1>2. OrderInv
  BY DEF Init, OrderInv, Absent
<1> QED BY <1>1, <1>2, CrashesIsNat DEF Init, TypeInv, StoreType

\* Every step keeps the types.
LEMMA QueueStepTypes == TypeInv /\ [Next]_vars => TypeInv'
<1> SUFFICES ASSUME TypeInv, [Next]_vars PROVE TypeInv'
  OBVIOUS
<1>1. CASE UNCHANGED vars
  BY <1>1 DEF TypeInv, StoreType, OrderInv, ThreadInv, vars, history
<1>2. CASE Next
  BY <1>2, CallerTypes, RequestTypes, WorkerTypes, ProcessTypes DEF Next
<1> QED BY <1>1, <1>2

\* Type correctness: every record, run, thread and process keeps its type, and
\* every created run stays listed, whatever interleaves or crashes.
THEOREM QueueTypeCorrect == Spec => []TypeOK
<1>1. TypeInv => TypeOK
  BY DEF TypeInv, StoreType, OrderInv, ThreadInv, TypeOK
<1> QED BY <1>1, QueueInitTypes, QueueStepTypes, PTL DEF Spec

-----------------------------------------------------------------------------
(***************************************************************************)
(* One live process.  While a subprocess lives, the worker is in its       *)
(* polling loop: the steps it still has to take are steps of the loop, and *)
(* the last of them leads back into it.  The loop is left, towards "final" *)
(* and the next claim, only after the process has exited.                  *)
(***************************************************************************)

LoopEnds == {"poll", "checkstop", "deadline", "exited"}
LoopLabels == LoopEnds \cup {"load", "save", "terminate", "kill", "expire"}

\* A list of these labels that ends in one of those.
EndsIn(s, labels, ends) == s \in Seq(labels) /\ s # <<>> /\ s[Len(s)] \in ends
InLoop(s) == EndsIn(s, LoopLabels, LoopEnds)

LiveInv ==
    crashes = 0 => \A r \in Runs : proc[r] = "live" =>
                     /\ active = r /\ thread[Worker].run = r
                     /\ InLoop(thread[Worker].todo)

\* What a step must do to keep LiveInv when no process starts.
KeepsLoop ==
    InLoop(thread[Worker].todo) => InLoop(thread'[Worker].todo)

\* No process starts, the counters stay, and the worker stays with its run.
LEMMA LiveKept ==
    ASSUME LiveInv, crashes' = crashes,
           \A r \in Runs : proc'[r] = "live" =>
               /\ proc[r] = "live"
               /\ active' = active /\ thread'[Worker].run = thread[Worker].run
               /\ KeepsLoop
    PROVE  LiveInv'
  BY DEF LiveInv, KeepsLoop

\* Dropping a step that is not an end keeps the end.
LEMMA EndsInTail ==
    ASSUME NEW L, NEW ends, NEW s, EndsIn(s, L, ends), Head(s) \notin ends
    PROVE  EndsIn(Tail(s), L, ends)
<1>1. /\ s \in Seq(L) /\ s # <<>> /\ Len(s) \in Nat /\ Len(s) >= 1
      /\ Head(s) = s[1]
  BY DEF EndsIn
<1>2. Len(s) # 1
  BY <1>1 DEF EndsIn
<1>3. /\ Tail(s) \in Seq(L) /\ Len(Tail(s)) = Len(s) - 1
      /\ \A i \in 1..(Len(s) - 1) : Tail(s)[i] = s[i + 1]
  BY <1>1
<1>4. Tail(s)[Len(s) - 1] = s[Len(s)]
  BY <1>1, <1>2, <1>3
<1>5. Tail(s) # <<>>
  <2>1. Len(Tail(s)) # 0
    BY <1>1, <1>2, <1>3
  <2>2. Len(<<>>) = 0
    OBVIOUS
  <2> QED BY <2>1, <2>2
<1>6. Tail(s)[Len(Tail(s))] \in ends
  BY <1>3, <1>4 DEF EndsIn
<1> QED BY <1>3, <1>5, <1>6 DEF EndsIn

\* Other steps may come before.
LEMMA EndsInConcat ==
    ASSUME NEW L, NEW ends, NEW a \in Seq(L), NEW b, EndsIn(b, L, ends)
    PROVE  EndsIn(a \o b, L, ends)
<1>1. b \in Seq(L) /\ Len(b) \in Nat /\ Len(b) >= 1 /\ Len(a) \in Nat
  BY DEF EndsIn
<1>2. /\ a \o b \in Seq(L) /\ Len(a \o b) = Len(a) + Len(b)
      /\ (a \o b)[Len(a) + Len(b)] = b[Len(b)]
  BY <1>1, ConcatProperties
<1>3. a \o b # <<>>
  BY <1>1, <1>2
<1> QED BY <1>2, <1>3 DEF EndsIn

\* In the loop, the next step is a step of the loop.
LEMMA InLoopHead ==
    ASSUME NEW s, InLoop(s) PROVE Head(s) \in LoopLabels
  BY DEF InLoop, EndsIn

\* A list that ends in one of the loop's ends, after some touches.
LEMMA InLoopLists ==
    /\ InLoop(<<"poll">>) /\ InLoop(<<"deadline">>) /\ InLoop(<<"exited">>)
    /\ InLoop(Touch \o <<"terminate", "deadline">>)
    /\ InLoop(Touch \o <<"kill", "deadline">>)
    /\ InLoop(Touch \o Touch \o <<"expire", "exited">>)
    /\ \A output : InLoop(PollSteps(output))
<1>1. Touch \in Seq(LoopLabels) /\ <<>> \in Seq(LoopLabels)
  BY DEF Touch, LoopLabels
<1>2. /\ InLoop(<<"poll">>) /\ InLoop(<<"deadline">>) /\ InLoop(<<"exited">>)
      /\ InLoop(<<"checkstop">>) /\ InLoop(<<"terminate", "deadline">>)
      /\ InLoop(<<"kill", "deadline">>) /\ InLoop(<<"expire", "exited">>)
  BY DEF InLoop, EndsIn, LoopLabels, LoopEnds
<1>3. /\ InLoop(Touch \o <<"terminate", "deadline">>)
      /\ InLoop(Touch \o <<"kill", "deadline">>)
  BY <1>1, <1>2, EndsInConcat DEF InLoop
<1>4. InLoop(Touch \o Touch \o <<"expire", "exited">>)
  <2>1. Touch \o Touch \in Seq(LoopLabels)
    BY <1>1, ConcatProperties
  <2> QED BY <1>2, <2>1, EndsInConcat DEF InLoop
<1>5. ASSUME NEW output PROVE InLoop(PollSteps(output))
  BY <1>1, <1>2, EndsInConcat DEF PollSteps, InLoop
<1> QED BY <1>2, <1>3, <1>4, <1>5

\* The worker keeps LiveInv: only Spawn starts a process, and it starts one when
\* the worker is not in the loop, so when none is live.
LEMMA WorkerLive ==
    ASSUME TypeInv, LiveInv, WorkerStep
    PROVE  LiveInv'
<1> DEFINE w == thread[Worker]
<1>0. /\ Worker \in Threads /\ w \in ThreadStates
      /\ thread \in [Threads -> ThreadStates] /\ crashes' = crashes
  BY DEF Threads, TypeInv, ThreadInv, WellFormed, WorkerStep, ManagerStep, Load, Save,
     SetRun, Put, ClaimNext, Spawn, Poll, CheckStop, Terminate, Kill, DeadlinePassed,
     DeadlineAhead, Expire, Exited, Final, Finally
<1>1. ASSUME NEW l, At(Worker, l), InLoop(w.todo) PROVE l \in LoopLabels
  BY <1>1, InLoopHead DEF At
<1>2. ASSUME NEW l, At(Worker, l), l \notin LoopEnds, thread'[Worker].todo = Rest(Worker)
      PROVE  KeepsLoop
  BY <1>2, EndsInTail DEF At, Rest, KeepsLoop, InLoop
<1>3. ASSUME NEW l, At(Worker, l), l \notin LoopLabels, crashes = 0
      PROVE  \A r \in Runs : proc[r] # "live"
  BY <1>1, <1>3 DEF LiveInv
<1>4. CASE Load(Worker)
  <2>1. thread'[Worker] = [w EXCEPT !.todo = Rest(Worker), !.loc = rec[w.run]]
    BY <1>0, <1>4 DEF Load
  <2>2. thread'[Worker].todo = Rest(Worker) /\ thread'[Worker].run = w.run
    BY <1>0, <2>1 DEF ThreadStates
  <2>3. KeepsLoop
    BY <1>2, <1>4, <2>2 DEF Load, LoopEnds
  <2> QED BY <1>4, <2>2, <2>3, LiveKept DEF Load
<1>5. CASE Save(Worker) \/ Kill
  <2>1. thread'[Worker] = [w EXCEPT !.todo = Rest(Worker)]
    BY <1>0, <1>5 DEF Save, Kill, Step
  <2>2. thread'[Worker].todo = Rest(Worker) /\ thread'[Worker].run = w.run
    BY <1>0, <2>1 DEF ThreadStates
  <2>3. KeepsLoop
    BY <1>2, <1>5, <2>2 DEF Save, Kill, LoopEnds
  <2>4. active' = active /\ \A r \in Runs : proc'[r] = "live" => proc[r] = "live"
    BY <1>5 DEF Save, Kill, TypeInv, StoreType
  <2> QED BY <1>0, <2>2, <2>3, <2>4, LiveKept
<1>6. CASE Terminate \/ Expire
  <2>1. \/ thread'[Worker] = [w EXCEPT !.todo = Rest(Worker), !.asked = TRUE]
        \/ thread'[Worker] = [w EXCEPT !.todo = Rest(Worker), !.late = TRUE]
    BY <1>0, <1>6 DEF Terminate, Expire
  <2>2. thread'[Worker].todo = Rest(Worker) /\ thread'[Worker].run = w.run
    BY <1>0, <2>1 DEF ThreadStates
  <2>3. KeepsLoop
    BY <1>2, <1>6, <2>2 DEF Terminate, Expire, LoopEnds
  <2>4. active' = active /\ \A r \in Runs : proc'[r] = "live" => proc[r] = "live"
    BY <1>6 DEF Terminate, Expire, TypeInv, StoreType
  <2> QED BY <1>0, <2>2, <2>3, <2>4, LiveKept
<1>7. CASE Poll \/ CheckStop \/ DeadlinePassed \/ DeadlineAhead
  <2>1. \E steps : InLoop(steps) /\ Goto(Worker, steps)
    BY <1>7, InLoopLists DEF Poll, CheckStop, DeadlinePassed, DeadlineAhead
  <2>2. InLoop(thread'[Worker].todo) /\ thread'[Worker].run = w.run
    BY <1>0, <2>1 DEF Goto, ThreadStates
  <2>3. active' = active /\ proc' = proc
    BY <1>7 DEF Poll, CheckStop, DeadlinePassed, DeadlineAhead
  <2> QED BY <1>0, <2>2, <2>3, LiveKept DEF KeepsLoop
<1>8. CASE Exited
  <2>1. active' = active /\ proc' = proc /\ thread'[Worker].run = w.run
    BY <1>0, <1>8 DEF Exited, Goto, ThreadStates
  <2>2. CASE proc[w.run] = "live"
    <3>1. thread'[Worker].todo = <<"poll">>
      BY <1>0, <1>8, <2>2 DEF Exited, Goto, ThreadStates
    <3> QED BY <1>0, <2>1, <3>1, InLoopLists, LiveKept DEF KeepsLoop
  <2>3. CASE proc[w.run] # "live"
    BY <1>0, <2>1, <2>3 DEF LiveInv
  <2> QED BY <2>2, <2>3
<1>9. CASE SetRun(Worker) \/ Put(Worker) \/ Final
  <2>1. proc' = proc /\ \E l \in {"setrun", "put", "final"} : At(Worker, l)
    BY <1>9 DEF SetRun, Put, Final
  <2>2. crashes = 0 => \A r \in Runs : proc[r] # "live"
    BY <2>1, <1>3 DEF LoopLabels, LoopEnds
  <2> QED BY <1>0, <2>1, <2>2 DEF LiveInv
<1>10. CASE Spawn
  <2>1. crashes = 0 => \A r \in Runs : proc[r] # "live"
    BY <1>10, <1>3 DEF Spawn, LoopLabels, LoopEnds
  <2>2. CASE proc' = proc
    BY <1>0, <2>1, <2>2 DEF LiveInv
  <2>3. CASE /\ proc' = [proc EXCEPT ![w.run] = "live"] /\ active' = w.run
             /\ Goto(Worker, <<"poll">>)
    <3>1. thread'[Worker].todo = <<"poll">> /\ thread'[Worker].run = w.run
      BY <1>0, <2>3 DEF Goto, ThreadStates
    <3>2. crashes = 0 => \A r \in Runs : proc'[r] = "live" => r = w.run
      BY <2>1, <2>3 DEF TypeInv, StoreType
    <3> QED BY <1>0, <2>3, <3>1, <3>2, InLoopLists DEF LiveInv
  <2> QED BY <1>10, <2>2, <2>3 DEF Spawn
<1>11. CASE ClaimNext \/ Finally
  <2>0. Idle.todo = <<>>
    BY DEF Idle
  <2>1. w.todo = <<>> /\ proc' = proc
    BY <1>11, <2>0 DEF ClaimNext, Finally
  <2>2. crashes = 0 => \A r \in Runs : proc[r] # "live"
    BY <2>1 DEF LiveInv, InLoop, EndsIn
  <2> QED BY <1>0, <2>1, <2>2 DEF LiveInv
<1> QED BY <1>4, <1>5, <1>6, <1>7, <1>8, <1>9, <1>10, <1>11 DEF WorkerStep, ManagerStep

\* Requests, exits, crashes and starts keep LiveInv: they do not touch the
\* worker of a process that has not crashed, and start no subprocess.
LEMMA OthersLive ==
    ASSUME TypeInv, LiveInv,
           \/ \E c \in Callers : CallerStep(c)
           \/ \E c \in Callers, r \in Runs : Enqueue(c, r) \/ ControlStop(c, r)
           \/ \E r \in Runs : ProcessExit(r)
           \/ Crash \/ StartStep
    PROVE  LiveInv'
<1>0. Worker \in Threads /\ thread \in [Threads -> ThreadStates]
  BY DEF Threads, TypeInv, ThreadInv
<1>1. ASSUME NEW c \in Callers, CallerStep(c) PROVE LiveInv'
  <2>1. c # Worker
    BY WorkerIsNoCaller
  <2>2. thread'[Worker] = thread[Worker]
    BY <1>0, <1>1, <2>1 DEF CallerStep, ManagerStep, Load, Save, SetRun, Put, CreateRecord,
       StopLoad, StopWrite, StopMark, StopSignal, Step, Goto, Return
  <2>3. active' = active /\ crashes' = crashes
    BY <1>1 DEF CallerStep, ManagerStep, Load, Save, SetRun, Put, CreateRecord,
       StopLoad, StopWrite, StopMark, StopSignal
  <2>4. \A r \in Runs : proc'[r] = "live" => proc[r] = "live"
    <3>1. CASE StopSignal(c)
      BY <3>1 DEF StopSignal, TypeInv, StoreType
    <3>2. CASE ~StopSignal(c)
      BY <1>1, <3>2 DEF CallerStep, ManagerStep, Load, Save, SetRun, Put, CreateRecord,
         StopLoad, StopWrite, StopMark
    <3> QED BY <3>1, <3>2
  <2> QED BY <2>2, <2>3, <2>4, LiveKept DEF KeepsLoop
<1>2. ASSUME NEW c \in Callers, NEW r \in Runs, Enqueue(c, r) \/ ControlStop(c, r)
      PROVE  LiveInv'
  <2>1. c # Worker
    BY WorkerIsNoCaller
  <2>2. /\ thread'[Worker] = thread[Worker]
        /\ active' = active /\ crashes' = crashes /\ proc' = proc
    BY <1>0, <1>2, <2>1 DEF Enqueue, ControlStop
  <2> QED BY <2>2, LiveKept DEF KeepsLoop
<1>3. ASSUME NEW r \in Runs, ProcessExit(r) PROVE LiveInv'
  <2>1. thread' = thread /\ active' = active /\ crashes' = crashes
    BY <1>3 DEF ProcessExit
  <2>2. \A q \in Runs : proc'[q] = "live" => proc[q] = "live"
    BY <1>3 DEF ProcessExit, TypeInv, StoreType
  <2> QED BY <2>1, <2>2, LiveKept DEF KeepsLoop
<1>4. CASE Crash
  BY <1>4, CrashesIsNat DEF Crash, LiveInv, TypeInv, StoreType
<1>5. CASE StartStep
  <2>1. thread' = thread /\ active' = active /\ crashes' = crashes /\ proc' = proc
    BY <1>5 DEF StartStep, Restart, StartWorker, ReconcileRun, ReconcileRecord
  <2> QED BY <2>1, LiveKept DEF KeepsLoop
<1> QED BY <1>1, <1>2, <1>3, <1>4, <1>5

\* The serial execution of the dispatcher: as long as the API process does not
\* crash, a live subprocess is the active process of the worker, so no two live
\* at once - for every interleaving of load-save pairs, every number of requests
\* and whatever the subprocesses do with the signals they get.
THEOREM QueueOneLiveProcess == Spec => []OneLiveProcess
<1>1. Init => TypeInv /\ LiveInv
  <2>1. Init => TypeInv
    BY QueueInitTypes
  <2>2. Init => LiveInv
    BY DEF Init, LiveInv
  <2> QED BY <2>1, <2>2
<1>2. TypeInv /\ LiveInv /\ [Next]_vars => TypeInv' /\ LiveInv'
  <2> SUFFICES ASSUME TypeInv, LiveInv, [Next]_vars PROVE TypeInv' /\ LiveInv'
    OBVIOUS
  <2>1. TypeInv'
    BY QueueStepTypes
  <2>2. CASE UNCHANGED vars
    BY <2>1, <2>2 DEF LiveInv, vars
  <2>3. CASE WorkerStep
    BY <2>1, <2>3, WorkerLive
  <2>4. CASE Next /\ ~WorkerStep
    BY <2>1, <2>4, OthersLive DEF Next
  <2> QED BY <2>2, <2>3, <2>4
<1>3. LiveInv => OneLiveProcess
  BY DEF LiveInv, OneLiveProcess
<1> QED BY <1>1, <1>2, <1>3, PTL DEF Spec
-----------------------------------------------------------------------------
(***************************************************************************)
(* The serialised queue: what the lists of steps look like.                *)
(***************************************************************************)

\* A thread at one of these has loaded a record that it will write back.
Held == {"save", "put", "stopwrite"}
Noting == {"load", "save", "signal"}
Recording == {"load", "save", "setrun", "put"}

\* Every save has its load right before it.
Paired(s) == \A i \in 1..(Len(s) - 1) : s[i + 1] \in Held => s[i] = "load"
Orderly(s) == Paired(s) /\ (s # <<>> => Head(s) \notin Held)

\* Where the worker is: before the process starts, after it has exited, and
\* recording the outcome, where the last five steps are setrun, load, put, load, save.
Starting(s) == EndsIn(s, Recording \cup {"spawn"}, {"spawn"})
Concluding(s) == EndsIn(s, {"load", "save", "final"}, {"final"})
Finishing(s) ==
    /\ s \in Seq(Recording)
    /\ \A i \in 1..Len(s) : /\ s[i] = "setrun" <=> Len(s) - i = 4
                            /\ s[i] = "put" <=> Len(s) - i = 2

\* A list that still sets the run's status.
SetsRun(s) == Len(s) >= 3 /\ s[Len(s) - 2] = "setrun"

\* The head and the rest of a list.
LEMMA Dropped ==
    ASSUME NEW L, NEW s \in Seq(L), s # <<>>
    PROVE  /\ Tail(s) \in Seq(L) /\ Len(Tail(s)) = Len(s) - 1
           /\ Len(s) \in Nat /\ Len(s) >= 1 /\ Head(s) = s[1] /\ s[1] \in L
           /\ \A i \in 1..(Len(s) - 1) : Tail(s)[i] = s[i + 1]
           /\ Tail(s) # <<>> => Head(Tail(s)) = s[2] /\ Len(s) >= 2
<1>1. Len(s) \in Nat /\ Len(s) >= 1 /\ Head(s) = s[1]
  OBVIOUS
<1>2. /\ Tail(s) \in Seq(L) /\ Len(Tail(s)) = Len(s) - 1
      /\ \A i \in 1..(Len(s) - 1) : Tail(s)[i] = s[i + 1]
  BY <1>1
<1>3. s[1] \in L
  BY <1>1
<1>4. ASSUME Tail(s) # <<>> PROVE Head(Tail(s)) = s[2] /\ Len(s) >= 2
  <2>1. Len(Tail(s)) >= 1 /\ Head(Tail(s)) = Tail(s)[1]
    BY <1>2, <1>4
  <2> QED BY <1>1, <1>2, <2>1
<1> QED BY <1>1, <1>2, <1>3, <1>4

\* The parts of two lists joined.
LEMMA Joined ==
    ASSUME NEW L, NEW a \in Seq(L), NEW b \in Seq(L)
    PROVE  /\ Len(a) \in Nat /\ Len(b) \in Nat /\ a \o b \in Seq(L)
           /\ Len(a \o b) = Len(a) + Len(b)
           /\ \A i \in 1..Len(a) : (a \o b)[i] = a[i]
           /\ \A i \in 1..Len(b) : (a \o b)[Len(a) + i] = b[i]
  BY ConcatProperties, LenProperties

\* Dropping a step keeps saves behind their loads.
LEMMA PairedTail ==
    ASSUME NEW s \in Seq(Labels), s # <<>>, Paired(s)
    PROVE  Paired(Tail(s)) /\ (Head(s) # "load" => Orderly(Tail(s)))
<1>1. /\ Tail(s) \in Seq(Labels) /\ Len(Tail(s)) = Len(s) - 1
      /\ Len(s) \in Nat /\ Len(s) >= 1 /\ Head(s) = s[1]
      /\ \A i \in 1..(Len(s) - 1) : Tail(s)[i] = s[i + 1]
      /\ Tail(s) # <<>> => Head(Tail(s)) = s[2] /\ Len(s) >= 2
  BY Dropped
<1>2. Paired(Tail(s))
  BY <1>1 DEF Paired
<1>3. ASSUME Head(s) # "load", Tail(s) # <<>> PROVE Head(Tail(s)) \notin Held
  <2>1. 1 \in 1..(Len(s) - 1) /\ 1 + 1 = 2
    BY <1>1, <1>3
  <2> QED BY <1>1, <1>3, <2>1 DEF Paired
<1> QED BY <1>2, <1>3 DEF Orderly

\* Lists with that order, one after the other.
LEMMA OrderlyConcat ==
    ASSUME NEW a \in Seq(Labels), NEW b \in Seq(Labels), Orderly(a), Orderly(b)
    PROVE  Orderly(a \o b)
<1>1. /\ Len(a) \in Nat /\ Len(b) \in Nat /\ a \o b \in Seq(Labels)
      /\ Len(a \o b) = Len(a) + Len(b)
      /\ \A i \in 1..Len(a) : (a \o b)[i] = a[i]
      /\ \A i \in 1..Len(b) : (a \o b)[Len(a) + i] = b[i]
  BY Joined
<1>2. /\ a # <<>> => Len(a) >= 1 /\ Head(a) = a[1]
      /\ b # <<>> => Len(b) >= 1 /\ Head(b) = b[1]
      /\ a \o b # <<>> => Len(a \o b) >= 1 /\ Head(a \o b) = (a \o b)[1]
      /\ a = <<>> => Len(a) = 0
  BY <1>1
<1>3. ASSUME NEW i \in 1..(Len(a \o b) - 1), (a \o b)[i + 1] \in Held
      PROVE  (a \o b)[i] = "load"
  <2>1. CASE i + 1 <= Len(a)
    <3>1. i \in 1..(Len(a) - 1) /\ i \in 1..Len(a) /\ i + 1 \in 1..Len(a)
      BY <1>1, <2>1
    <3> QED BY <1>1, <1>3, <3>1 DEF Orderly, Paired
  <2>2. CASE i = Len(a)
    <3>1. 1 \in 1..Len(b) /\ b # <<>> /\ (a \o b)[i + 1] = b[1]
      BY <1>1, <2>2
    <3> QED BY <1>2, <1>3, <3>1 DEF Orderly
  <2>3. CASE i > Len(a)
    <3>1. PICK j \in 1..(Len(b) - 1) : i = Len(a) + j
      <4>1. i - Len(a) \in 1..(Len(b) - 1) /\ i = Len(a) + (i - Len(a))
        BY <1>1, <2>3
      <4> QED BY <4>1
    <3>2. j \in 1..Len(b) /\ j + 1 \in 1..Len(b) /\ i + 1 = Len(a) + (j + 1)
      BY <1>1, <3>1
    <3>3. (a \o b)[i] = b[j] /\ (a \o b)[i + 1] = b[j + 1]
      BY <1>1, <3>1, <3>2
    <3> QED BY <1>3, <3>1, <3>3 DEF Orderly, Paired
  <2> QED BY <1>1, <2>1, <2>2, <2>3
<1>4. ASSUME a \o b # <<>> PROVE Head(a \o b) \notin Held
  <2>1. CASE a = <<>>
    <3>1. b # <<>> /\ 1 \in 1..Len(b) /\ Len(a) + 1 = 1
      BY <1>1, <1>2, <1>4, <2>1
    <3> QED BY <1>1, <1>2, <1>4, <3>1 DEF Orderly
  <2>2. CASE a # <<>>
    BY <1>1, <1>2, <1>4, <2>2 DEF Orderly
  <2> QED BY <2>1, <2>2
<1> QED BY <1>3, <1>4 DEF Orderly, Paired

\* Every program loads before it saves.
LEMMA ProgramOrder ==
    /\ \A l \in Labels \ Held : Orderly(<<l>>)
    /\ Orderly(LifecycleNoted) /\ Orderly(StartSteps)
    /\ \A item : Orderly(StopNoted(item))
    /\ \A output : Orderly(PollSteps(output))
    /\ \A output : Orderly((IF output THEN Touch ELSE <<>>) \o <<"final">>)
    /\ \A status \in RTerminal : Orderly(FinishSteps(status))
    /\ Orderly(Touch \o <<"terminate", "deadline">>)
    /\ Orderly(Touch \o <<"kill", "deadline">>)
    /\ Orderly(Touch \o Touch \o <<"expire", "exited">>)
<1>1. /\ Orderly(<<>>) /\ Orderly(Touch) /\ Orderly(Update)
      /\ Orderly(<<"terminate", "deadline">>) /\ Orderly(<<"kill", "deadline">>)
      /\ Orderly(<<"expire", "exited">>)
  BY DEF Orderly, Paired, Touch, Update, Held
<1>2. \A l \in Labels \ Held : Orderly(<<l>>)
  BY DEF Orderly, Paired
<1>3. /\ <<>> \in Seq(Labels) /\ Touch \in Seq(Labels) /\ Update \in Seq(Labels)
      /\ <<"terminate", "deadline">> \in Seq(Labels)
      /\ <<"kill", "deadline">> \in Seq(Labels) /\ <<"expire", "exited">> \in Seq(Labels)
      /\ \A l \in Labels : <<l>> \in Seq(Labels)
  BY ProgramTypes DEF Labels
<1>4. \A a, b \in Seq(Labels) : a \o b \in Seq(Labels)
  BY ConcatProperties
<1>5. /\ "spawn" \in Labels \ Held /\ "signal" \in Labels \ Held
      /\ "checkstop" \in Labels \ Held /\ "final" \in Labels \ Held
  BY DEF Labels, Held
<1>6. Orderly(Touch \o Touch) /\ Touch \o Touch \in Seq(Labels)
  BY <1>1, <1>3, <1>4, OrderlyConcat
<1>7. Orderly(LifecycleNoted)
  BY <1>6 DEF LifecycleNoted
<1>8. Orderly(StartSteps)
  <2>1. Orderly(Update \o Touch) /\ Update \o Touch \in Seq(Labels)
    BY <1>1, <1>3, <1>4, OrderlyConcat
  <2>2. Orderly(Update \o Touch \o Touch) /\ Update \o Touch \o Touch \in Seq(Labels)
    BY <1>1, <1>3, <1>4, <2>1, OrderlyConcat
  <2> QED BY <1>2, <1>3, <1>5, <2>2, OrderlyConcat DEF StartSteps
<1>9. ASSUME NEW item PROVE Orderly(StopNoted(item))
  BY <1>1, <1>2, <1>3, <1>5, <1>6, OrderlyConcat DEF StopNoted
<1>10. ASSUME NEW output PROVE Orderly(PollSteps(output))
  BY <1>1, <1>2, <1>3, <1>5, OrderlyConcat DEF PollSteps
<1>11. ASSUME NEW output PROVE Orderly((IF output THEN Touch ELSE <<>>) \o <<"final">>)
  BY <1>1, <1>2, <1>3, <1>5, OrderlyConcat
<1>12. ASSUME NEW status \in RTerminal PROVE Orderly(FinishSteps(status))
  <2> DEFINE a == CASE status = "cancelled" -> <<>>
                    [] status = "success" -> Touch
                    [] status = "failed" -> Touch \o Touch
  <2>1. Orderly(a) /\ a \in Seq(Labels)
    BY <1>1, <1>3, <1>6 DEF RTerminal
  <2>2. FinishSteps(status) = a \o Update \o Touch
    BY DEF FinishSteps
  <2> HIDE DEF a
  <2>3. Orderly(a \o Update) /\ a \o Update \in Seq(Labels)
    BY <1>1, <1>3, <1>4, <2>1, OrderlyConcat
  <2> QED BY <1>1, <1>3, <2>2, <2>3, OrderlyConcat
<1>13. /\ Orderly(Touch \o <<"terminate", "deadline">>)
       /\ Orderly(Touch \o <<"kill", "deadline">>)
  BY <1>1, <1>3, OrderlyConcat
<1>14. Orderly(Touch \o Touch \o <<"expire", "exited">>)
  BY <1>1, <1>3, <1>6, OrderlyConcat
<1> QED BY <1>2, <1>7, <1>8, <1>9, <1>10, <1>11, <1>12, <1>13, <1>14

\* The programs have the shapes the invariant speaks of.
LEMMA ProgramShapes ==
    /\ LifecycleNoted \in Seq(Noting) /\ StopNoted("running") \in Seq(Noting)
    /\ StopNoted("cancelled") \in Seq(Recording) /\ SetsRun(StopNoted("cancelled"))
    /\ Starting(StartSteps)
    /\ \A output : Concluding((IF output THEN Touch ELSE <<>>) \o <<"final">>)
<1>1. /\ Touch \in Seq(Noting) /\ <<"signal">> \in Seq(Noting)
      /\ Touch \in Seq(Recording) /\ Update \in Seq(Recording)
  BY DEF Touch, Update, Noting, Recording
<1>2. Touch \o Touch \in Seq(Noting) /\ Touch \o Touch \in Seq(Recording)
  BY <1>1, ConcatProperties
<1>3. LifecycleNoted \in Seq(Noting) /\ StopNoted("running") \in Seq(Noting)
  BY <1>1, <1>2, ConcatProperties DEF LifecycleNoted, StopNoted
<1>4. StopNoted("cancelled") = (Touch \o Touch) \o Update
  BY DEF StopNoted
<1>5. StopNoted("cancelled") \in Seq(Recording)
  BY <1>1, <1>2, <1>4, ConcatProperties
<1>6. SetsRun(StopNoted("cancelled"))
  <2> DEFINE a == Touch \o Touch
  <2>1. Len(Update) = 3 /\ Update[1] = "setrun" /\ 1 \in 1..3
    BY DEF Update
  <2>2. a \in Seq(Recording) /\ Update \in Seq(Recording)
    BY <1>1, <1>2
  <2> HIDE DEF a
  <2>3. /\ Len(a) \in Nat /\ Len(a \o Update) = Len(a) + Len(Update)
        /\ \A i \in 1..Len(Update) : (a \o Update)[Len(a) + i] = Update[i]
    BY <2>2, Joined
  <2>4. Len(a \o Update) = Len(a) + 3 /\ (a \o Update)[Len(a) + 1] = "setrun"
    BY <2>1, <2>3
  <2>5. SetsRun(a \o Update)
    BY <2>3, <2>4 DEF SetsRun
  <2> QED BY <1>4, <2>5 DEF a
<1>7. Starting(StartSteps)
  <2> DEFINE L == Recording \cup {"spawn"}
  <2>1. Touch \in Seq(L) /\ Update \in Seq(L)
    BY DEF Touch, Update, Recording
  <2>2. Update \o Touch \in Seq(L)
    BY <2>1, ConcatProperties
  <2>3. Update \o Touch \o Touch \in Seq(L)
    BY <2>1, <2>2, ConcatProperties
  <2>4. EndsIn(<<"spawn">>, L, {"spawn"})
    BY DEF EndsIn
  <2> HIDE DEF L
  <2>5. EndsIn(StartSteps, L, {"spawn"})
    BY <2>3, <2>4, EndsInConcat DEF StartSteps
  <2> QED BY <2>5 DEF Starting, L
<1>8. ASSUME NEW output PROVE Concluding((IF output THEN Touch ELSE <<>>) \o <<"final">>)
  <2> DEFINE L == {"load", "save", "final"}
  <2>1. Touch \in Seq(L) /\ <<>> \in Seq(L)
    BY DEF Touch
  <2>2. EndsIn(<<"final">>, L, {"final"})
    BY DEF EndsIn
  <2> HIDE DEF L
  <2>3. EndsIn((IF output THEN Touch ELSE <<>>) \o <<"final">>, L, {"final"})
    BY <2>1, <2>2, EndsInConcat
  <2> QED BY <2>3 DEF Concluding, L
<1> QED BY <1>3, <1>5, <1>6, <1>7, <1>8

\* Touches may come before the five steps that record an outcome.
LEMMA FinishShape ==
    ASSUME NEW status \in RTerminal
    PROVE  Finishing(FinishSteps(status)) /\ Len(FinishSteps(status)) >= 5
<1> DEFINE a == CASE status = "cancelled" -> <<>>
                  [] status = "success" -> Touch
                  [] status = "failed" -> Touch \o Touch
           f == (a \o Update) \o Touch
           n == Len(a)
<1>1. Touch \in Seq({"load", "save"}) /\ <<>> \in Seq({"load", "save"})
  BY DEF Touch
<1>2. Touch \o Touch \in Seq({"load", "save"})
  BY <1>1, ConcatProperties
<1>3. a \in Seq({"load", "save"})
  BY <1>1, <1>2 DEF RTerminal
<1>4. /\ Update \in Seq(Recording) /\ Len(Update) = 3
      /\ Update[1] = "setrun" /\ Update[2] = "load" /\ Update[3] = "put"
  BY DEF Update, Recording
<1>5. /\ Touch \in Seq(Recording) /\ Len(Touch) = 2
      /\ Touch[1] = "load" /\ Touch[2] = "save"
  BY DEF Touch, Recording
<1>6. FinishSteps(status) = f
  BY DEF FinishSteps
<1> HIDE DEF a
<1>7. a \in Seq(Recording) /\ n \in Nat
  <2>1. {"load", "save"} \subseteq Recording
    BY DEF Recording
  <2> QED BY <1>3, <2>1
<1>8. /\ f \in Seq(Recording) /\ Len(f) = n + 5
      /\ \A i \in 1..n : f[i] = a[i]
      /\ f[n + 1] = "setrun" /\ f[n + 2] = "load" /\ f[n + 3] = "put"
      /\ f[n + 4] = "load" /\ f[n + 5] = "save"
  <2> DEFINE g == a \o Update
  <2>1. a \in Seq(Recording) /\ Update \in Seq(Recording) /\ Touch \in Seq(Recording)
    BY <1>4, <1>5, <1>7
  <2>2. /\ g \in Seq(Recording) /\ Len(g) = Len(a) + Len(Update)
        /\ \A i \in 1..Len(a) : g[i] = a[i]
        /\ \A i \in 1..Len(Update) : g[Len(a) + i] = Update[i]
    BY <2>1, Joined
  <2>3. /\ g \in Seq(Recording) /\ Len(g) = n + 3
        /\ \A i \in 1..n : g[i] = a[i]
        /\ \A i \in 1..3 : g[n + i] = Update[i]
    BY <1>4, <2>2
  <2>4. g[n + 1] = "setrun" /\ g[n + 2] = "load" /\ g[n + 3] = "put"
    BY <1>4, <2>3
  <2> HIDE DEF g
  <2>5. /\ g \o Touch \in Seq(Recording) /\ Len(g \o Touch) = Len(g) + Len(Touch)
        /\ \A i \in 1..Len(g) : (g \o Touch)[i] = g[i]
        /\ \A i \in 1..Len(Touch) : (g \o Touch)[Len(g) + i] = Touch[i]
    <3>1. g \in Seq(Recording) /\ Touch \in Seq(Recording)
      BY <2>1, <2>2
    <3> QED BY <3>1, Joined
  <2>6. Len(g \o Touch) = n + 5
    BY <1>5, <1>7, <2>3, <2>5
  <2>7. \A i \in 1..n : (g \o Touch)[i] = a[i]
    BY <1>7, <2>3, <2>5
  <2>8. /\ (g \o Touch)[n + 1] = "setrun" /\ (g \o Touch)[n + 2] = "load"
        /\ (g \o Touch)[n + 3] = "put"
    BY <1>7, <2>3, <2>4, <2>5
  <2>9. 1 \in 1..Len(Touch) /\ 2 \in 1..Len(Touch) /\ Len(g) + 1 = n + 4 /\ Len(g) + 2 = n + 5
    BY <1>5, <1>7, <2>3
  <2>10. (g \o Touch)[n + 4] = "load" /\ (g \o Touch)[n + 5] = "save"
    BY <1>5, <2>5, <2>9
  <2> QED BY <2>5, <2>6, <2>7, <2>8, <2>10 DEF g
<1>9. \A i \in 1..n : f[i] \in {"load", "save"}
  BY <1>3, <1>8
<1> HIDE DEF n, f
<1>10. ASSUME NEW i \in 1..(n + 5)
       PROVE  (f[i] = "setrun" <=> (n + 5) - i = 4) /\ (f[i] = "put" <=> (n + 5) - i = 2)
  <2>1. CASE i \in 1..n
    BY <1>7, <1>9, <2>1
  <2>2. CASE i \notin 1..n
    <3>1. i = n + 1 \/ i = n + 2 \/ i = n + 3 \/ i = n + 4 \/ i = n + 5
      BY <1>7, <2>2
    <3> QED BY <1>7, <1>8, <3>1
  <2> QED BY <2>1, <2>2
<1> QED BY <1>6, <1>7, <1>8, <1>10 DEF Finishing

\* Dropping a step of the five.
LEMMA FinishTail ==
    ASSUME NEW s, Finishing(s), s # <<>>
    PROVE  /\ Finishing(Tail(s)) /\ Len(Tail(s)) = Len(s) - 1 /\ Len(s) \in Nat
           /\ Head(s) \in Recording
           /\ Head(s) = "setrun" <=> Len(s) = 5
           /\ Head(s) = "put" <=> Len(s) = 3
<1>1. /\ Tail(s) \in Seq(Recording) /\ Len(Tail(s)) = Len(s) - 1
      /\ Len(s) \in Nat /\ Len(s) >= 1 /\ Head(s) = s[1] /\ s[1] \in Recording
      /\ \A i \in 1..(Len(s) - 1) : Tail(s)[i] = s[i + 1]
  BY Dropped DEF Finishing
<1>2. ASSUME NEW i \in 1..Len(Tail(s))
      PROVE  /\ Tail(s)[i] = "setrun" <=> Len(Tail(s)) - i = 4
             /\ Tail(s)[i] = "put" <=> Len(Tail(s)) - i = 2
  <2>1. i + 1 \in 1..Len(s) /\ Tail(s)[i] = s[i + 1] /\ Len(Tail(s)) - i = Len(s) - (i + 1)
    BY <1>1
  <2> QED BY <2>1 DEF Finishing
<1>3. 1 \in 1..Len(s)
  BY <1>1
<1>4. (Head(s) = "setrun" <=> Len(s) - 1 = 4) /\ (Head(s) = "put" <=> Len(s) - 1 = 2)
  BY <1>1, <1>3 DEF Finishing
<1>5. (Len(s) - 1 = 4 <=> Len(s) = 5) /\ (Len(s) - 1 = 2 <=> Len(s) = 3)
  BY <1>1
<1>6. Finishing(Tail(s))
  BY <1>1, <1>2 DEF Finishing
<1> QED BY <1>1, <1>4, <1>5, <1>6

\* A step before the setrun leaves it on the list.
LEMMA SetsRunTail ==
    ASSUME NEW s \in Seq(Labels), SetsRun(s), Head(s) # "setrun"
    PROVE  SetsRun(Tail(s)) /\ Tail(s) # <<>>
<1>1. s # <<>>
  BY DEF SetsRun
<1>2. /\ Tail(s) \in Seq(Labels) /\ Len(Tail(s)) = Len(s) - 1 /\ Len(s) \in Nat
      /\ Head(s) = s[1] /\ \A i \in 1..(Len(s) - 1) : Tail(s)[i] = s[i + 1]
  BY <1>1, Dropped
<1>3. Len(s) # 3
  BY <1>2 DEF SetsRun
<1>4. Tail(s)[Len(s) - 3] = s[Len(s) - 2]
  <2>1. Len(s) - 3 \in 1..(Len(s) - 1) /\ (Len(s) - 3) + 1 = Len(s) - 2
    BY <1>2, <1>3 DEF SetsRun
  <2> QED BY <1>2, <2>1
<1>5. SetsRun(Tail(s))
  BY <1>2, <1>3, <1>4 DEF SetsRun
<1>6. Len(Tail(s)) # 0 /\ Len(<<>>) = 0
  BY <1>2 DEF SetsRun
<1> QED BY <1>5, <1>6

-----------------------------------------------------------------------------
(***************************************************************************)
(* The invariant of the serialised queue.                                  *)
(***************************************************************************)

\* What a thread holds is what is on disk.
HoldAt(s) ==
    /\ Paired(s.todo)
    /\ s.todo # <<>> /\ Head(s.todo) \in Held => s.loc = rec[s.run]
HoldInv == \A t \in Threads : HoldAt(thread[t])

\* Cancelled before execution.
NeverRuns(r) == rec[r].status = "cancelled" /\ starts[r] = 0

\* Where a request thread is, and what it may rely on there.
CallerAt(s) ==
    \/ s.todo = <<>>
    \/ s.todo = <<"create">> /\ rec[s.run].status = "absent"
    \/ s.todo = <<"stopload">>
    \/ s.todo = <<"stopwrite">> /\ rec[s.run].status \in {"pending", "running"}
    \/ /\ s.todo = <<"stopmark">> /\ s.to = "running"
       /\ rec[s.run].stop /\ rec[s.run].status \notin {"absent", "pending"}
    \/ s.todo = <<"stopmark">> /\ s.to = "cancelled" /\ NeverRuns(s.run)
    \/ s.todo \in Seq(Noting)
    \/ s.todo \in Seq(Recording) /\ s.to = "cancelled" /\ NeverRuns(s.run)

Creates(s, r) == s.run = r /\ s.todo = <<"create">>
Cancels(s, r) ==
    s.run = r /\ s.to = "cancelled" /\ (s.todo = <<"stopmark">> \/ SetsRun(s.todo))

CallerInv ==
    /\ \A c \in Callers : CallerAt(thread[c])
    /\ \A c, d \in Callers, r \in Runs :
          Creates(thread[c], r) /\ Creates(thread[d], r) => c = d

\* Where the worker is in the execution of its run.
BeforeStart(w) ==
    /\ Starting(w.todo) /\ w.to = "running" /\ rec[w.run].status = "running"
    /\ starts[w.run] = 0 /\ proc[w.run] = "none" /\ w.run \notin heard
    /\ run[w.run] \notin RTerminal
Executing(w) ==
    /\ InLoop(w.todo) \/ (Concluding(w.todo) /\ proc[w.run] # "live")
    /\ w.to = "running" /\ rec[w.run].status = "running"
    /\ run[w.run] \notin RTerminal /\ starts[w.run] = 1
Ending(w) ==
    /\ Finishing(w.todo) /\ w.to \in RTerminal /\ proc[w.run] # "live"
    /\ w.run \in heard => w.to = "cancelled"
    /\ Len(w.todo) < 5 => run[w.run] = w.to
    /\ rec[w.run].status = IF Len(w.todo) < 3 THEN QueueStatusForRun(w.to) ELSE "running"
WorkerAt(w) ==
    IF w.run = None THEN w.todo = <<>> ELSE BeforeStart(w) \/ Executing(w) \/ Ending(w)
WorkerInv == WorkerAt(thread[Worker])

\* At most one record is running, the worker's own while the API process is up.
SlotInv ==
    /\ up = "up" => \A r \in Runs : rec[r].status = "running" => thread[Worker].run = r
    /\ \A r, q \in Runs : rec[r].status = "running" /\ rec[q].status = "running" => r = q
    /\ up # "up" => \A t \in Threads : thread[t] = Idle
    /\ up # "up" /\ crashes = 0 => \A r \in Runs : rec[r].status = "absent"

\* What the record, the run and the history of one run say of each other.
RunFacts(r) ==
    /\ starts[r] <= 1 /\ rec[r].status # "paused"
    /\ rec[r].status \in {"absent", "pending"} =>
          run[r] \in {"absent", "queued"} /\ starts[r] = 0 /\ proc[r] = "none" /\ r \notin heard
    /\ rec[r].status = "done" => run[r] = "success"
    /\ rec[r].status = "error" => run[r] = "failed"
    /\ r \in refused => NeverRuns(r)
    /\ r \in heard => rec[r].stop

\* A record and a run that do not fit yet have a thread that will see to it.
Attended(r) ==
    /\ rec[r].status = "absent" /\ run[r] # "absent" => \E c \in Callers : Creates(thread[c], r)
    /\ rec[r].status = "cancelled" /\ run[r] # "cancelled" =>
          \E c \in Callers : Cancels(thread[c], r)

RunInv == (\A r \in Runs : RunFacts(r)) /\ (crashes = 0 => \A r \in Runs : Attended(r))

SerialInv == TypeInv /\ HoldInv /\ CallerInv /\ WorkerInv /\ SlotInv /\ RunInv /\ StopHonoured

\* How a record may change.
Forward(r) ==
    \/ rec'[r] = rec[r]
    \/ rec[r].status = "absent" /\ rec'[r].status = "pending"
    \/ /\ rec[r].status = "pending" /\ rec'[r].status = "running"
       /\ \A q \in Runs : rec[q].status # "running"
    \/ rec[r].status = "pending" /\ rec'[r].status = "cancelled"
    \/ /\ rec[r].status = "running" /\ rec'[r].status = "running"
       /\ rec[r].stop => rec'[r].stop
    \/ /\ rec[r].status = "running" /\ rec'[r].status \in QTerminal
       /\ rec'[r].stop = rec[r].stop

\* A step moves at most one record, forward.
RecordsForward == rec' = rec \/ \E r \in Runs : Forward(r) /\ rec' = [rec EXCEPT ![r] = rec'[r]]

\* Only t moves.
Alone(t) == \A u \in Threads \ {t} : thread'[u] = thread[u]

-----------------------------------------------------------------------------
(***************************************************************************)
(* What a step of one thread leaves alone.                                 *)
(***************************************************************************)

\* No other thread holds a record that a step changes.
LEMMA HoldKept ==
    ASSUME Serialised, HoldInv, NEW t \in Threads, Alone(t), HoldAt(thread[t])',
           rec' = rec \/ (Free(t) /\ up = "up")
    PROVE  HoldInv'
<1> SUFFICES ASSUME NEW u \in Threads, u # t PROVE HoldAt(thread[u])'
  BY DEF HoldInv
<1>1. thread'[u] = thread[u] /\ HoldAt(thread[u])
  BY DEF Alone, HoldInv
<1>2. CASE rec' = rec
  BY <1>1, <1>2 DEF HoldAt
<1>3. CASE Free(t) /\ up = "up"
  <2>1. thread[u].todo # <<>> => Head(thread[u].todo) \notin Held
    BY <1>3 DEF Free, Holding, At, Held
  <2> QED BY <1>1, <2>1 DEF HoldAt
<1> QED BY <1>2, <1>3

\* A request thread that does not move can go on relying on what it did.
LEMMA CallerKept ==
    ASSUME SerialInv, NEW u \in Callers, thread'[u] = thread[u],
           \A r \in Runs : Forward(r) /\ (NeverRuns(r) => starts'[r] = starts[r]),
           Holding(u) => rec'[thread[u].run] = rec[thread[u].run],
           \A r \in Runs : Creates(thread[u], r) => rec'[r] = rec[r],
           up = "up"
    PROVE  CallerAt(thread[u])'
<1> DEFINE s == thread[u]
           r == s.run
<1>1. CallerAt(s) /\ u \in Threads
  BY DEF SerialInv, CallerInv, Threads
<1>2. s.todo # <<>> => r \in Runs
  BY <1>1 DEF SerialInv, TypeInv, ThreadInv, WellFormed
<1>3. NeverRuns(r) /\ r \in Runs => NeverRuns(r)'
  BY DEF NeverRuns, Forward
<1>4. CASE s.todo = <<>>
  BY <1>4 DEF CallerAt
<1>5. CASE s.todo = <<"create">> /\ rec[r].status = "absent"
  <2>1. r \in Runs
    BY <1>2, <1>5
  <2> QED BY <1>5, <2>1 DEF CallerAt, Creates
<1>6. CASE s.todo = <<"stopload">>
  BY <1>6 DEF CallerAt
<1>7. CASE s.todo = <<"stopwrite">> /\ rec[r].status \in {"pending", "running"}
  <2>1. Holding(u)
    BY <1>7 DEF Holding, At
  <2> QED BY <1>7, <2>1 DEF CallerAt
<1>8. CASE s.todo = <<"stopmark">> /\ s.to = "running" /\ rec[r].stop
           /\ rec[r].status \notin {"absent", "pending"}
  <2>1. r \in Runs
    BY <1>2, <1>8
  <2>2. rec'[r].stop /\ rec'[r].status \notin {"absent", "pending"}
    BY <1>8, <2>1 DEF Forward, QTerminal
  <2> QED BY <1>8, <2>2 DEF CallerAt
<1>9. CASE s.todo = <<"stopmark">> /\ s.to = "cancelled" /\ NeverRuns(r)
  <2>1. r \in Runs
    BY <1>2, <1>9
  <2> QED BY <1>3, <1>9, <2>1 DEF CallerAt
<1>10. CASE s.todo \in Seq(Noting)
  BY <1>10 DEF CallerAt
<1>11. CASE s.todo \in Seq(Recording) /\ s.to = "cancelled" /\ NeverRuns(r)
  <2>1. s.todo = <<>> \/ r \in Runs
    BY <1>2
  <2> QED BY <1>3, <1>11, <2>1 DEF CallerAt
<1> QED BY <1>1, <1>4, <1>5, <1>6, <1>7, <1>8, <1>9, <1>10, <1>11 DEF CallerAt

\* A worker that does not move stays where it is.
LEMMA WorkerKept ==
    ASSUME SerialInv, thread'[Worker] = thread[Worker],
           \A r \in Runs : thread[Worker].run = r =>
              /\ rec'[r].status = rec[r].status /\ starts'[r] = starts[r]
              /\ proc[r] = "none" => proc'[r] = "none"
              /\ proc'[r] = "live" => proc[r] = "live"
              /\ r \in heard' => r \in heard \/ proc[r] = "live"
              /\ \/ run'[r] = run[r]
                 \/ rec[r].status = "cancelled" /\ run'[r] = "cancelled"
    PROVE  WorkerInv'
<1> DEFINE w == thread[Worker]
<1>0. Worker \in Threads /\ w.run \in Runs \cup {None} /\ WorkerAt(w)
  BY DEF SerialInv, TypeInv, ThreadInv, WellFormed, ThreadStates, Threads, WorkerInv
<1>1. CASE w.run = None
  BY <1>0, <1>1 DEF WorkerAt, WorkerInv
<1>2. CASE w.run # None
  <2>0. w.run \in Runs
    BY <1>0, <1>2
  <2>1. CASE BeforeStart(w)
    <3>1. BeforeStart(w)'
      BY <2>0, <2>1 DEF BeforeStart
    <3> QED BY <1>2, <3>1 DEF WorkerAt, WorkerInv
  <2>2. CASE Executing(w)
    <3>1. Executing(w)'
      BY <2>0, <2>2 DEF Executing
    <3> QED BY <1>2, <3>1 DEF WorkerAt, WorkerInv
  <2>3. CASE Ending(w)
    <3>1. ASSUME rec[w.run].status = "cancelled" PROVE w.to = "cancelled"
      BY <2>3, <3>1 DEF Ending, QueueStatusForRun, RTerminal
    <3>2. Ending(w)'
      BY <2>0, <2>3, <3>1 DEF Ending
    <3> QED BY <1>2, <3>2 DEF WorkerAt, WorkerInv
  <2> QED BY <1>0, <1>2, <2>1, <2>2, <2>3 DEF WorkerAt
<1> QED BY <1>1, <1>2

\* A step that leaves records and runs alone, and adds to the history only a stop of
\* what executes and a refusal of what never will.
Quiet ==
    /\ rec' = rec /\ run' = run /\ starts' = starts /\ up' = up /\ crashes' = crashes
    /\ \A r \in heard' : \/ r \in heard
                         \/ proc[r] = "live" /\ rec[r].status = "running" /\ rec[r].stop
    /\ \A r \in refused' : r \in refused \/ NeverRuns(r)
    /\ \A r \in Runs : proc'[r] # proc[r] => proc[r] = "live" /\ proc'[r] # "live"

\* A run that was stopped while its process was live is not over.
LEMMA QuietHonoured ==
    ASSUME SerialInv, TypeInv', Quiet, up = "up"
    PROVE  StopHonoured'
<1> SUFFICES ASSUME NEW r \in heard', run[r] \in RTerminal
             PROVE  run[r] = "cancelled" \/ (run[r] = "failed" /\ crashes > 0)
  BY DEF StopHonoured, Quiet
<1>1. CASE r \in heard
  BY <1>1 DEF SerialInv, StopHonoured
<1>2. CASE proc[r] = "live" /\ rec[r].status = "running"
  <2>1. r \in Runs
    BY DEF TypeInv, StoreType
  <2>2. thread[Worker].run = r /\ r # None
    BY <1>2, <2>1, NoneIsNoRun DEF SerialInv, SlotInv
  <2>3. WorkerAt(thread[Worker])
    BY DEF SerialInv, WorkerInv
  <2>4. run[r] \notin RTerminal
    BY <1>2, <2>2, <2>3 DEF WorkerAt, BeforeStart, Executing, Ending
  <2> QED BY <2>4
<1> QED BY <1>1, <1>2 DEF Quiet

\* A quiet step of a request thread keeps the invariant if the thread itself does.
LEMMA QuietCaller ==
    ASSUME Serialised, SerialInv, TypeInv', Quiet, up = "up", NEW c \in Callers, Alone(c),
           HoldAt(thread[c])', CallerAt(thread[c])',
           thread[c].todo # <<"create">>, thread'[c].todo # <<"create">>,
           \A r \in Runs : Cancels(thread[c], r) => Cancels(thread'[c], r)
    PROVE  SerialInv'
<1>0. c \in Threads /\ Worker \in Threads /\ c # Worker
  BY WorkerIsNoCaller DEF Threads
<1>1. HoldInv'
  BY <1>0, HoldKept DEF SerialInv, Quiet
<1>2. CallerInv'
  <2>1. \A u \in Callers : u # c => thread'[u] = thread[u] /\ CallerAt(thread[u])'
    BY CallerKept DEF Alone, Threads, Quiet, Forward
  <2>2. ASSUME NEW u \in Callers, NEW d \in Callers, NEW r \in Runs,
               Creates(thread'[u], r), Creates(thread'[d], r)
        PROVE  u = d
    <3>1. u # c /\ d # c
      BY <2>2 DEF Creates
    <3> QED BY <2>1, <2>2, <3>1 DEF SerialInv, CallerInv
  <2> QED BY <2>1, <2>2 DEF CallerInv
<1>3. WorkerInv'
  BY <1>0, WorkerKept DEF Quiet, Alone
<1>4. SlotInv'
  BY <1>0 DEF SerialInv, SlotInv, Quiet, Alone
<1>5. RunInv'
  <2>1. ASSUME NEW r \in Runs PROVE RunFacts(r)'
    BY DEF SerialInv, RunInv, RunFacts, NeverRuns, Quiet
  <2>2. ASSUME crashes = 0, NEW r \in Runs PROVE Attended(r)'
    <3>1. Attended(r)
      BY <2>2 DEF SerialInv, RunInv
    <3>2. \A d \in Callers : /\ Creates(thread[d], r) => Creates(thread'[d], r)
                             /\ Cancels(thread[d], r) => Cancels(thread'[d], r)
      <4> TAKE d \in Callers
      <4>1. CASE d = c
        BY <4>1 DEF Creates
      <4>2. CASE d # c
        BY <4>2 DEF Alone, Threads
      <4> QED BY <4>1, <4>2
    <3> QED BY <3>1, <3>2 DEF Attended, Quiet
  <2> QED BY <2>1, <2>2 DEF RunInv, Quiet
<1>6. StopHonoured'
  BY QuietHonoured
<1> QED BY <1>1, <1>2, <1>3, <1>4, <1>5, <1>6 DEF SerialInv

\* A quiet step of the worker keeps the invariant if the worker does and keeps its run.
LEMMA QuietWorker ==
    ASSUME Serialised, SerialInv, TypeInv', Quiet, up = "up", Alone(Worker),
           HoldAt(thread[Worker])', WorkerInv',
           \A r \in Runs : rec[r].status = "running" => thread'[Worker].run = r
    PROVE  SerialInv'
<1>0. Worker \in Threads /\ \A c \in Callers : c \in Threads /\ c # Worker
  BY WorkerIsNoCaller DEF Threads
<1>1. HoldInv'
  BY <1>0, HoldKept DEF SerialInv, Quiet
<1>2. \A c \in Callers : thread'[c] = thread[c]
  BY <1>0 DEF Alone
<1>3. CallerInv'
  <2>1. \A c \in Callers : CallerAt(thread[c])'
    BY <1>2, CallerKept DEF Quiet, Forward
  <2> QED BY <1>2, <2>1 DEF SerialInv, CallerInv
<1>4. SlotInv'
  BY DEF SerialInv, SlotInv, Quiet
<1>5. RunInv'
  <2>1. ASSUME NEW r \in Runs PROVE RunFacts(r)'
    BY DEF SerialInv, RunInv, RunFacts, NeverRuns, Quiet
  <2>2. ASSUME crashes = 0, NEW r \in Runs PROVE Attended(r)'
    BY <1>2, <2>2 DEF SerialInv, RunInv, Attended, Quiet
  <2> QED BY <2>1, <2>2 DEF RunInv, Quiet
<1>6. StopHonoured'
  BY QuietHonoured
<1> QED BY <1>1, <1>3, <1>4, <1>5, <1>6 DEF SerialInv

\* Loading a record makes it held; what was held is written back unchanged.
LEMMA HeldLoad ==
    ASSUME SerialInv, NEW t \in Threads, Load(t)
    PROVE  /\ Alone(t) /\ Quiet /\ up = "up" /\ HoldAt(thread[t])' /\ thread[t].todo # <<>>
           /\ Head(thread[t].todo) = "load" /\ thread'[t].todo = Tail(thread[t].todo)
           /\ thread'[t].run = thread[t].run /\ thread'[t].to = thread[t].to
<1> DEFINE s == thread[t]
<1>1. s \in ThreadStates /\ s.todo \in Seq(Labels) /\ thread \in [Threads -> ThreadStates]
  BY DEF SerialInv, TypeInv, ThreadInv, WellFormed, ThreadStates
<1>2. Alone(t) /\ Quiet /\ up = "up" /\ s.todo # <<>> /\ Head(s.todo) = "load"
  BY <1>1 DEF Load, Alone, Quiet, At, history
<1>3. thread'[t] = [s EXCEPT !.todo = Tail(s.todo), !.loc = rec[s.run]]
  BY <1>1 DEF Load, Rest
<1>4. /\ thread'[t].todo = Tail(s.todo) /\ thread'[t].loc = rec[s.run]
      /\ thread'[t].run = s.run /\ thread'[t].to = s.to
  BY <1>1, <1>3 DEF ThreadStates
<1>5. Paired(Tail(s.todo))
  BY <1>1, <1>2, PairedTail DEF SerialInv, HoldInv, HoldAt
<1> QED BY <1>2, <1>4, <1>5 DEF HoldAt, Quiet

\* A thread that takes a step other than a load holds nothing afterwards.
LEMMA StepDrops ==
    ASSUME SerialInv, NEW t \in Threads, NEW l, At(t, l), l # "load", Step(t)
    PROVE  /\ Alone(t) /\ HoldAt(thread[t])' /\ up = "up"
           /\ thread[t].todo # <<>> /\ Head(thread[t].todo) = l
           /\ \/ t # Worker /\ Tail(thread[t].todo) = <<>> /\ thread'[t] = Idle
              \/ /\ thread'[t].todo = Tail(thread[t].todo)
                 /\ thread'[t].run = thread[t].run /\ thread'[t].to = thread[t].to
<1> DEFINE s == thread[t]
<1>1. s \in ThreadStates /\ s.todo \in Seq(Labels) /\ thread \in [Threads -> ThreadStates]
  BY DEF SerialInv, TypeInv, ThreadInv, WellFormed, ThreadStates
<1>2. Alone(t) /\ up = "up" /\ s.todo # <<>> /\ Head(s.todo) = l
  BY <1>1 DEF Step, Alone, At
<1>3. Orderly(Tail(s.todo))
  BY <1>1, <1>2, PairedTail DEF SerialInv, HoldInv, HoldAt
<1>4. CASE t # Worker /\ Tail(s.todo) = <<>>
  <2>1. thread'[t] = Idle
    BY <1>1, <1>4 DEF Step, Rest
  <2>2. Idle.todo = <<>>
    BY DEF Idle
  <2>3. HoldAt(thread[t])'
    BY <2>1, <2>2 DEF HoldAt, Paired
  <2> QED BY <1>2, <1>4, <2>1, <2>3
<1>5. CASE ~(t # Worker /\ Tail(s.todo) = <<>>)
  <2>1. thread'[t] = [s EXCEPT !.todo = Tail(s.todo)]
    BY <1>1, <1>5 DEF Step, Rest
  <2>2. thread'[t].todo = Tail(s.todo) /\ thread'[t].run = s.run /\ thread'[t].to = s.to
    BY <1>1, <2>1 DEF ThreadStates
  <2>3. HoldAt(thread[t])'
    BY <1>3, <2>2 DEF HoldAt, Orderly
  <2> QED BY <1>2, <2>2, <2>3
<1> QED BY <1>4, <1>5

\* A save writes back what is there.
LEMMA HeldSave ==
    ASSUME SerialInv, NEW t \in Threads, Save(t)
    PROVE  rec' = rec /\ Quiet
<1>1. /\ thread[t].loc = rec[thread[t].run] /\ thread[t].run \in Runs
      /\ rec \in [Runs -> Records \cup {Absent}]
  BY AtOK DEF SerialInv, HoldInv, HoldAt, Save, At, Held, TypeInv, StoreType
<1>2. rec' = rec
  BY <1>1 DEF Save
<1> QED BY <1>2 DEF Save, Quiet, history

\* A thread given another program holds nothing.
LEMMA GotoDrops ==
    ASSUME SerialInv, NEW t \in Threads, NEW steps \in Seq(Labels), Orderly(steps), Goto(t, steps)
    PROVE  /\ Alone(t) /\ HoldAt(thread[t])' /\ thread'[t].todo = steps
           /\ thread'[t].run = thread[t].run /\ thread'[t].to = thread[t].to
<1>1. thread[t] \in ThreadStates /\ thread \in [Threads -> ThreadStates]
  BY DEF SerialInv, TypeInv, ThreadInv, WellFormed
<1>2. thread'[t] = [thread[t] EXCEPT !.todo = steps] /\ Alone(t)
  BY <1>1 DEF Goto, Alone
<1>3. /\ thread'[t].todo = steps /\ thread'[t].run = thread[t].run
      /\ thread'[t].to = thread[t].to
  BY <1>1, <1>2 DEF ThreadStates
<1> QED BY <1>2, <1>3 DEF HoldAt, Orderly

\* A thread that returns holds nothing.
LEMMA ReturnDrops ==
    ASSUME SerialInv, NEW t \in Threads, Return(t)
    PROVE  /\ Alone(t) /\ HoldAt(thread[t])' /\ thread'[t] = Idle
           /\ thread'[t].todo = <<>> /\ thread'[t].run = None
<1>1. thread \in [Threads -> ThreadStates]
  BY DEF SerialInv, TypeInv, ThreadInv
<1>2. thread'[t] = Idle /\ Alone(t) /\ Idle.todo = <<>> /\ Idle.run = None
  BY <1>1 DEF Return, Alone, Idle
<1> QED BY <1>2 DEF HoldAt, Paired

-----------------------------------------------------------------------------
(***************************************************************************)
(* The request threads                                                     *)
(***************************************************************************)

\* A request thread in the middle of a program is noting or recording.
LEMMA CallerMidway ==
    ASSUME SerialInv, NEW c \in Callers, NEW l \in Recording, At(c, l)
    PROVE  /\ thread[c].todo # <<>> /\ Head(thread[c].todo) = l
           /\ thread[c].run \in Runs /\ thread[c].todo \in Seq(Labels) /\ c \in Threads
           /\ thread[c].todo # <<"create">> /\ thread[c].todo # <<"stopmark">>
           /\ \/ thread[c].todo \in Seq(Noting) /\ l \in Noting
              \/ /\ thread[c].todo \in Seq(Recording) /\ thread[c].to = "cancelled"
                 /\ NeverRuns(thread[c].run)
<1> DEFINE s == thread[c]
<1>1. c \in Threads /\ s.todo # <<>> /\ Head(s.todo) = l /\ CallerAt(s)
  BY DEF At, Threads, SerialInv, CallerInv
<1>2. s.run \in Runs /\ s.todo \in Seq(Labels)
  BY <1>1, AtOK DEF SerialInv, TypeInv
<1>3. /\ s.todo # <<"create">> /\ s.todo # <<"stopload">> /\ s.todo # <<"stopwrite">>
      /\ s.todo # <<"stopmark">>
  BY <1>1 DEF Recording
<1>4. s.todo \in Seq(Noting) => l \in Noting
  BY <1>1, Dropped
<1> QED BY <1>1, <1>2, <1>3, <1>4 DEF CallerAt

\* Loading, and saving what was loaded.
LEMMA CallerTouch ==
    ASSUME Serialised, SerialInv, TypeInv', NEW c \in Callers,
           \/ Load(c)
           \/ Quiet /\ Step(c) /\ \E l \in {"save", "put"} : At(c, l)
    PROVE  SerialInv'
<1> DEFINE s == thread[c]
<1>1. PICK l \in {"load", "save", "put"} :
        /\ At(c, l) /\ Alone(c) /\ Quiet /\ up = "up" /\ HoldAt(thread[c])'
        /\ \/ Tail(s.todo) = <<>> /\ thread'[c] = Idle
           \/ /\ thread'[c].todo = Tail(s.todo) /\ thread'[c].run = s.run
              /\ thread'[c].to = s.to
  <2>0. c \in Threads
    BY DEF Threads
  <2>1. CASE Load(c)
    BY <2>0, <2>1, HeldLoad DEF Load
  <2>2. CASE Quiet /\ Step(c) /\ \E l \in {"save", "put"} : At(c, l)
    <3>1. PICK l \in {"save", "put"} : At(c, l)
      BY <2>2
    <3>2. l # "load" /\ l \in {"load", "save", "put"}
      BY <3>1
    <3> QED BY <2>0, <2>2, <3>1, <3>2, StepDrops
  <2> QED BY <2>1, <2>2
<1>2. l \in Recording /\ l # "setrun"
  BY DEF Recording
<1>3. /\ s.todo # <<>> /\ Head(s.todo) = l /\ s.run \in Runs /\ s.todo \in Seq(Labels)
      /\ s.todo # <<"create">> /\ s.todo # <<"stopmark">>
      /\ \/ s.todo \in Seq(Noting)
         \/ s.todo \in Seq(Recording) /\ s.to = "cancelled" /\ NeverRuns(s.run)
  BY <1>1, <1>2, CallerMidway
<1>4. /\ s.todo \in Seq(Noting) => Tail(s.todo) \in Seq(Noting)
      /\ s.todo \in Seq(Recording) => Tail(s.todo) \in Seq(Recording)
  BY <1>3, Dropped
<1>5. Idle.todo = <<>> /\ <<>> \in Seq(Noting)
  BY DEF Idle
<1>6. thread'[c].todo \in Seq(Noting) \/ (thread'[c].todo \in Seq(Recording)
        /\ thread'[c].to = "cancelled" /\ NeverRuns(thread'[c].run))
  BY <1>1, <1>3, <1>4, <1>5
<1>7. CallerAt(thread[c])'
  BY <1>1, <1>6 DEF CallerAt, NeverRuns, Quiet
<1>8. thread'[c].todo # <<"create">>
  <2>1. ASSUME NEW L, L = Noting \/ L = Recording, <<"create">> \in Seq(L) PROVE FALSE
    <3>1. <<"create">>[1] \in L
      BY <2>1, Dropped
    <3> QED BY <2>1, <3>1 DEF Noting, Recording
  <2> QED BY <1>6, <2>1
<1>9. ASSUME NEW r \in Runs, Cancels(thread[c], r) PROVE Cancels(thread'[c], r)
  <2>1. SetsRun(s.todo)
    BY <1>3, <1>9 DEF Cancels
  <2>2. SetsRun(Tail(s.todo)) /\ Tail(s.todo) # <<>>
    BY <1>2, <1>3, <2>1, SetsRunTail
  <2> QED BY <1>1, <1>9, <2>2 DEF Cancels
<1> QED BY <1>1, <1>3, <1>7, <1>8, <1>9, QuietCaller

\* The put of a cancelled run finds it cancelled already.
LEMMA CallerPut ==
    ASSUME Serialised, SerialInv, NEW c \in Callers, Put(c)
    PROVE  Quiet /\ rec' = rec
<1> DEFINE s == thread[c]
<1>1. /\ s.to = "cancelled" /\ NeverRuns(s.run) /\ s.run \in Runs /\ c \in Threads
  BY CallerMidway DEF Put, Recording, Noting
<1>2. s.loc = rec[s.run] /\ rec \in [Runs -> Records \cup {Absent}]
  BY <1>1 DEF SerialInv, HoldInv, HoldAt, Put, At, Held, TypeInv, StoreType
<1>3. QueueStatusForRun(s.to) = rec[s.run].status
  BY <1>1 DEF QueueStatusForRun, NeverRuns
<1>4. rec[s.run] \in Records
  BY <1>1, <1>2 DEF NeverRuns, Absent
<1>5. [s.loc EXCEPT !.status = QueueStatusForRun(s.to)] = rec[s.run]
  BY <1>2, <1>3, <1>4 DEF Records
<1>6. rec' = rec
  BY <1>1, <1>2, <1>5 DEF Put
<1> QED BY <1>6 DEF Put, Quiet, history

\* The manager's steps of a request thread.
LEMMA CallerManager ==
    ASSUME Serialised, SerialInv, TypeInv', NEW c \in Callers,
           Load(c) \/ Save(c) \/ Put(c)
    PROVE  SerialInv' /\ rec' = rec
<1>0. c \in Threads
  BY DEF Threads
<1>1. CASE Load(c)
  BY <1>1, CallerTouch DEF Load
<1>2. CASE Save(c)
  <2>1. Quiet /\ rec' = rec
    BY <1>0, <1>2, HeldSave
  <2> QED BY <1>2, <2>1, CallerTouch DEF Save
<1>3. CASE Put(c)
  <2>1. Quiet /\ rec' = rec
    BY <1>3, CallerPut
  <2> QED BY <1>3, <2>1, CallerTouch DEF Put
<1> QED BY <1>1, <1>2, <1>3

\* A cancelled run gets its status.
LEMMA CallerSetRun ==
    ASSUME Serialised, SerialInv, TypeInv', NEW c \in Callers, SetRun(c)
    PROVE  SerialInv' /\ rec' = rec
<1> DEFINE s == thread[c]
           r == s.run
<1>0. c \in Threads /\ Worker \in Threads /\ c # Worker
  BY WorkerIsNoCaller DEF Threads
<1>1. /\ At(c, "setrun") /\ rec' = rec /\ starts' = starts /\ heard' = heard
      /\ refused' = refused /\ up' = up /\ crashes' = crashes /\ proc' = proc
  BY DEF SetRun, history
<1>2. /\ s.todo # <<>> /\ Head(s.todo) = "setrun" /\ r \in Runs /\ s.todo \in Seq(Labels)
      /\ s.todo # <<"create">> /\ s.todo # <<"stopmark">>
      /\ s.todo \in Seq(Recording) /\ s.to = "cancelled" /\ NeverRuns(r)
  BY <1>1, CallerMidway DEF Recording, Noting
<1>3. run' = [run EXCEPT ![r] = "cancelled"] /\ run \in [Runs -> RStatus \cup {"absent"}]
  BY <1>2 DEF SetRun, SerialInv, TypeInv, StoreType
<1>4. /\ Alone(c) /\ HoldAt(thread[c])' /\ up = "up"
      /\ \/ thread'[c].todo = <<>>
         \/ thread'[c].todo = Tail(s.todo) /\ thread'[c].run = r /\ thread'[c].to = s.to
  BY <1>0, <1>1, StepDrops DEF SetRun, Idle
<1>5. CallerAt(thread[c])' /\ thread'[c].todo # <<"create">>
  <2>1. Tail(s.todo) \in Seq(Recording)
    BY <1>2, Dropped
  <2>2. <<"create">> \notin Seq(Recording)
    <3>1. ASSUME <<"create">> \in Seq(Recording) PROVE FALSE
      <4>1. <<"create">>[1] \in Recording
        BY <3>1, Dropped
      <4> QED BY <4>1 DEF Recording
    <3> QED BY <3>1
  <2>3. CASE thread'[c].todo = <<>>
    BY <2>3 DEF CallerAt
  <2>4. CASE thread'[c].todo = Tail(s.todo) /\ thread'[c].run = r /\ thread'[c].to = s.to
    <3>1. NeverRuns(thread[c].run)'
      BY <1>1, <1>2, <2>4 DEF NeverRuns
    <3> QED BY <1>2, <2>1, <2>2, <2>4, <3>1 DEF CallerAt
  <2> QED BY <1>4, <2>3, <2>4
<1>6. HoldInv'
  BY <1>0, <1>1, <1>4, HoldKept DEF SerialInv
<1>7. CallerInv'
  <2>1. \A u \in Callers : u # c => thread'[u] = thread[u] /\ CallerAt(thread[u])'
    BY <1>1, <1>4, CallerKept DEF Alone, Threads, Forward
  <2> QED BY <1>5, <2>1 DEF SerialInv, CallerInv, Creates
<1>8. WorkerInv'
  BY <1>0, <1>1, <1>2, <1>3, <1>4, WorkerKept DEF Alone, NeverRuns
<1>9. SlotInv'
  BY <1>0, <1>1, <1>4 DEF SerialInv, SlotInv, Alone
<1>10. RunInv'
  <2>1. ASSUME NEW q \in Runs PROVE RunFacts(q)'
    BY <1>1, <1>2, <1>3 DEF SerialInv, RunInv, RunFacts, NeverRuns
  <2>2. ASSUME crashes = 0, NEW q \in Runs PROVE Attended(q)'
    <3>1. CASE q = r
      BY <1>1, <1>2, <1>3, <3>1 DEF Attended, NeverRuns
    <3>2. CASE q # r
      <4>1. Attended(q) /\ run'[q] = run[q]
        BY <1>3, <2>2, <3>2 DEF SerialInv, RunInv
      <4>2. \A d \in Callers : d # c => thread'[d] = thread[d]
        BY <1>4 DEF Alone, Threads
      <4>3. ~Creates(thread[c], q) /\ ~Cancels(thread[c], q)
        BY <3>2 DEF Creates, Cancels
      <4> QED BY <1>1, <4>1, <4>2, <4>3 DEF Attended
    <3> QED BY <3>1, <3>2
  <2> QED BY <1>1, <2>1, <2>2 DEF RunInv
<1>11. StopHonoured'
  BY <1>1, <1>3 DEF SerialInv, StopHonoured, TypeInv, StoreType
<1> QED BY <1>1, <1>6, <1>7, <1>8, <1>9, <1>10, <1>11 DEF SerialInv

\* The record of the worker's run has been claimed.
LEMMA WorkerClaimed ==
    ASSUME SerialInv, thread[Worker].run \in Runs
    PROVE  rec[thread[Worker].run].status \notin {"absent", "pending"}
<1>1. WorkerAt(thread[Worker]) /\ thread[Worker].run # None
  BY NoneIsNoRun DEF SerialInv, WorkerInv
<1> QED BY <1>1 DEF WorkerAt, BeforeStart, Executing, Ending, QueueStatusForRun, RTerminal

\* A run that a thread is about to create has no record yet.
LEMMA CreatesAbsent ==
    ASSUME SerialInv, NEW u \in Callers, NEW r, Creates(thread[u], r)
    PROVE  rec[r].status = "absent"
<1>1. CallerAt(thread[u]) /\ thread[u].run = r /\ thread[u].todo = <<"create">>
  BY DEF SerialInv, CallerInv, Creates
<1>2. <<"create">> \notin Seq(Noting) /\ <<"create">> \notin Seq(Recording)
  <2>1. ASSUME NEW L, <<"create">> \in Seq(L) PROVE "create" \in L
    BY <2>1, Dropped
  <2> QED BY <2>1 DEF Noting, Recording
<1> QED BY <1>1, <1>2 DEF CallerAt

\* Creating a run.
LEMMA SerialEnqueue ==
    ASSUME Serialised, SerialInv, TypeInv', NEW c \in Callers, NEW r \in Runs, Enqueue(c, r)
    PROVE  SerialInv' /\ rec' = rec
<1>0. c \in Threads /\ Worker \in Threads /\ c # Worker
  BY WorkerIsNoCaller DEF Threads
<1>1. /\ rec' = rec /\ starts' = starts /\ heard' = heard /\ up = "up"
      /\ refused' = refused /\ up' = up /\ crashes' = crashes /\ proc' = proc
  BY DEF Enqueue, history
<1>2. /\ run[r] = "absent" /\ run' = [run EXCEPT ![r] = "queued"]
      /\ run \in [Runs -> RStatus \cup {"absent"}] /\ rec[r].status = "absent"
  BY DEF Enqueue, SerialInv, TypeInv, StoreType, OrderInv
<1>3. /\ thread[c] = Idle /\ thread[c] \in ThreadStates /\ Idle.todo = <<>>
      /\ thread \in [Threads -> ThreadStates]
  BY <1>0 DEF Enqueue, SerialInv, TypeInv, ThreadInv, Idle
<1>4. thread'[c] = [thread[c] EXCEPT !.todo = EnqueueSteps, !.run = r] /\ Alone(c)
  BY <1>0, <1>3 DEF Enqueue, Alone
<1>5. thread'[c].todo = <<"create">> /\ thread'[c].run = r
  BY <1>3, <1>4 DEF ThreadStates, EnqueueSteps
<1>6. HoldInv'
  <2>1. Orderly(<<"create">>)
    BY ProgramOrder DEF Labels, Held
  <2>2. HoldAt(thread[c])'
    BY <1>5, <2>1 DEF HoldAt, Orderly
  <2> QED BY <1>0, <1>1, <1>4, <2>2, HoldKept DEF SerialInv
<1>7. CallerInv'
  <2>1. \A u \in Callers : u # c => thread'[u] = thread[u] /\ CallerAt(thread[u])'
    BY <1>1, <1>4, CallerKept DEF Alone, Threads, Forward
  <2>2. CallerAt(thread[c])'
    BY <1>1, <1>2, <1>5 DEF CallerAt
  <2>3. \A u \in Callers : u # c => ~Creates(thread[u], r)
    <3> SUFFICES ASSUME NEW u \in Callers, Creates(thread[u], r) PROVE FALSE
      OBVIOUS
    <3>1. thread[u].todo # <<>> /\ u \in Threads
      BY DEF Creates, Threads
    <3>2. run[thread[u].run] # "absent"
      BY <3>1 DEF SerialInv, TypeInv, ThreadInv, WellFormed
    <3> QED BY <1>2, <3>2 DEF Creates
  <2>4. \A q \in Runs : Creates(thread'[c], q) => q = r
    BY <1>5 DEF Creates
  <2> QED BY <2>1, <2>2, <2>3, <2>4 DEF SerialInv, CallerInv
<1>8. WorkerInv'
  <2>1. thread[Worker].run # r
    BY <1>2, WorkerClaimed
  <2> QED BY <1>0, <1>1, <1>2, <1>4, <2>1, WorkerKept DEF Alone
<1>9. SlotInv'
  BY <1>0, <1>1, <1>4 DEF SerialInv, SlotInv, Alone
<1>10. RunInv'
  <2>1. ASSUME NEW q \in Runs PROVE RunFacts(q)'
    <3>1. CASE q = r
      BY <1>1, <1>2, <3>1 DEF SerialInv, RunInv, RunFacts, NeverRuns
    <3>2. CASE q # r
      BY <1>1, <1>2, <3>2 DEF SerialInv, RunInv, RunFacts, NeverRuns
    <3> QED BY <3>1, <3>2
  <2>2. ASSUME crashes = 0, NEW q \in Runs PROVE Attended(q)'
    <3>1. CASE q = r
      BY <1>1, <1>2, <1>5, <3>1 DEF Attended, Creates
    <3>2. CASE q # r
      <4>1. Attended(q) /\ run'[q] = run[q]
        BY <1>2, <2>2, <3>2 DEF SerialInv, RunInv
      <4>2. \A d \in Callers : d # c => thread'[d] = thread[d]
        BY <1>4 DEF Alone, Threads
      <4>3. ~Creates(thread[c], q) /\ ~Cancels(thread[c], q)
        BY <1>3 DEF Creates, Cancels, SetsRun
      <4> QED BY <1>1, <4>1, <4>2, <4>3 DEF Attended
    <3> QED BY <3>1, <3>2
  <2> QED BY <1>1, <2>1, <2>2 DEF RunInv
<1>11. StopHonoured'
  <2>1. ASSUME NEW q \in heard PROVE q # r /\ run'[q] = run[q]
    BY <1>2, <2>1 DEF SerialInv, RunInv, RunFacts, TypeInv, StoreType
  <2> QED BY <1>1, <2>1 DEF SerialInv, StopHonoured
<1> QED BY <1>1, <1>6, <1>7, <1>8, <1>9, <1>10, <1>11 DEF SerialInv

\* The record of a new run.
LEMMA SerialCreate ==
    ASSUME Serialised, SerialInv, TypeInv', NEW c \in Callers, CreateRecord(c)
    PROVE  SerialInv' /\ RecordsForward
<1> DEFINE r == thread[c].run
           s == [status |-> "pending", stop |-> FALSE]
<1>0. c \in Threads /\ Worker \in Threads /\ c # Worker
  BY WorkerIsNoCaller DEF Threads
<1>1. /\ run' = run /\ starts' = starts /\ heard' = heard /\ At(c, "create") /\ Free(c)
      /\ refused' = refused /\ up' = up /\ crashes' = crashes /\ proc' = proc /\ up = "up"
      /\ rec' = [rec EXCEPT ![r] = s]
  BY DEF CreateRecord, history, At
<1>2. /\ r \in Runs /\ thread[c].todo = <<"create">> /\ rec[r].status = "absent"
      /\ rec \in [Runs -> Records \cup {Absent}]
  <2>1. r \in Runs /\ thread[c].todo # <<>> /\ Head(thread[c].todo) = "create"
    BY <1>0, <1>1, AtOK DEF SerialInv, TypeInv, At
  <2>2. thread[c].todo \notin Seq(Noting) /\ thread[c].todo \notin Seq(Recording)
    <3>1. ASSUME NEW L, thread[c].todo \in Seq(L) PROVE "create" \in L
      BY <2>1, <3>1, Dropped
    <3> QED BY <3>1 DEF Noting, Recording
  <2>3. CallerAt(thread[c])
    BY DEF SerialInv, CallerInv
  <2> QED BY <2>1, <2>2, <2>3 DEF CallerAt, SerialInv, TypeInv, StoreType
<1>3. /\ rec'[r].status = "pending" /\ \A q \in Runs : q # r => rec'[q] = rec[q]
      /\ \A q \in Runs : Forward(q)
  BY <1>1, <1>2 DEF Forward
<1>4. RecordsForward
  BY <1>1, <1>2, <1>3 DEF RecordsForward
<1>5. /\ Alone(c) /\ HoldAt(thread[c])' /\ thread'[c].todo = LifecycleNoted
  BY <1>0, GotoDrops, ProgramTypes, ProgramOrder DEF CreateRecord
<1>6. HoldInv'
  BY <1>0, <1>1, <1>5, HoldKept DEF SerialInv
<1>7. CallerInv'
  <2>1. ASSUME NEW u \in Callers, u # c PROVE thread'[u] = thread[u] /\ CallerAt(thread[u])'
    <3>1. thread'[u] = thread[u] /\ ~Holding(u)
      BY <1>1, <1>5, <2>1 DEF Alone, Threads, Free
    <3>2. ~Creates(thread[u], r)
      BY <1>2, <2>1 DEF SerialInv, CallerInv, Creates
    <3>3. \A q \in Runs : Creates(thread[u], q) => rec'[q] = rec[q]
      BY <1>3, <3>2
    <3> QED BY <1>1, <1>3, <3>1, <3>3, CallerKept
  <2>2. CallerAt(thread[c])'
    BY <1>5, ProgramShapes DEF CallerAt
  <2>3. thread'[c].todo # <<"create">>
    <3>1. LifecycleNoted # <<"create">>
      BY DEF LifecycleNoted, Touch
    <3> QED BY <1>5, <3>1
  <2> QED BY <2>1, <2>2, <2>3 DEF SerialInv, CallerInv, Creates
<1>8. WorkerInv'
  <2>1. thread[Worker].run # r
    BY <1>2, WorkerClaimed
  <2> QED BY <1>0, <1>1, <1>3, <1>5, <2>1, WorkerKept DEF Alone
<1>9. SlotInv'
  BY <1>0, <1>1, <1>2, <1>3, <1>5 DEF SerialInv, SlotInv, Alone
<1>10. RunInv'
  <2>1. ASSUME NEW q \in Runs PROVE RunFacts(q)'
    <3>1. CASE q = r
      BY <1>1, <1>2, <1>3, <3>1 DEF SerialInv, RunInv, RunFacts, NeverRuns
    <3>2. CASE q # r
      BY <1>1, <1>3, <3>2 DEF SerialInv, RunInv, RunFacts, NeverRuns
    <3> QED BY <3>1, <3>2
  <2>2. ASSUME crashes = 0, NEW q \in Runs PROVE Attended(q)'
    <3>1. CASE q = r
      BY <1>3, <3>1 DEF Attended
    <3>2. CASE q # r
      <4>1. Attended(q) /\ rec'[q] = rec[q]
        BY <1>3, <2>2, <3>2 DEF SerialInv, RunInv
      <4>2. \A d \in Callers : d # c => thread'[d] = thread[d]
        BY <1>5 DEF Alone, Threads
      <4>3. ~Creates(thread[c], q) /\ ~Cancels(thread[c], q)
        BY <3>2 DEF Creates, Cancels
      <4> QED BY <1>1, <4>1, <4>2, <4>3 DEF Attended
    <3> QED BY <3>1, <3>2
  <2> QED BY <1>1, <2>1, <2>2 DEF RunInv
<1>11. StopHonoured'
  BY <1>1 DEF SerialInv, StopHonoured
<1> QED BY <1>4, <1>6, <1>7, <1>8, <1>9, <1>10, <1>11 DEF SerialInv

\* Asking for a stop, and reading the record for it.
LEMMA SerialStopRead ==
    ASSUME Serialised, SerialInv, TypeInv', NEW c \in Callers,
           StopLoad(c) \/ \E r \in Runs : ControlStop(c, r)
    PROVE  SerialInv' /\ rec' = rec
<1> DEFINE s == thread[c]
<1>0. c \in Threads /\ s \in ThreadStates /\ thread \in [Threads -> ThreadStates]
  BY DEF Threads, SerialInv, TypeInv, ThreadInv, WellFormed
<1>1. Quiet /\ up = "up" /\ rec' = rec
  BY DEF StopLoad, ControlStop, Quiet, history, At
<1>2. /\ s.todo = <<>> \/ s.todo = <<"stopload">>
      /\ s.todo # <<"create">> /\ \A r \in Runs : ~Cancels(thread[c], r)
  <2>1. s.todo = <<>> \/ s.todo = <<"stopload">>
    <3>1. CASE StopLoad(c)
      <4>1. s.todo # <<>> /\ Head(s.todo) = "stopload"
        BY <3>1 DEF StopLoad, At
      <4>2. s.todo \notin Seq(Noting) /\ s.todo \notin Seq(Recording)
        <5>1. ASSUME NEW L, s.todo \in Seq(L) PROVE "stopload" \in L
          BY <4>1, <5>1, Dropped
        <5> QED BY <5>1 DEF Noting, Recording
      <4>3. CallerAt(s)
        BY DEF SerialInv, CallerInv
      <4> QED BY <4>1, <4>2, <4>3 DEF CallerAt
    <3>2. CASE \E r \in Runs : ControlStop(c, r)
      BY <3>2 DEF ControlStop, Idle
    <3> QED BY <3>1, <3>2
  <2>2. ~SetsRun(<<>>) /\ ~SetsRun(<<"stopload">>)
    BY DEF SetsRun
  <2> QED BY <2>1, <2>2 DEF Cancels
<1>3. ASSUME NEW r \in Runs, ControlStop(c, r) PROVE SerialInv'
  <2>1. thread'[c] = [s EXCEPT !.todo = StopSteps, !.run = r] /\ Alone(c)
    BY <1>0, <1>3 DEF ControlStop, Alone
  <2>2. thread'[c].todo = <<"stopload">>
    BY <1>0, <2>1 DEF ThreadStates, StopSteps
  <2>3. Orderly(<<"stopload">>)
    BY ProgramOrder DEF Labels, Held
  <2>4. HoldAt(thread[c])' /\ CallerAt(thread[c])'
    BY <2>2, <2>3 DEF HoldAt, Orderly, CallerAt
  <2>5. thread'[c].todo # <<"create">>
    BY <2>2
  <2> QED BY <1>1, <1>2, <2>1, <2>4, <2>5, QuietCaller
<1>4. CASE StopLoad(c)
  <2>1. CASE rec[s.run].status \in {"pending", "paused", "running"}
    <3>1. thread'[c] = [s EXCEPT !.todo = <<"stopwrite">>, !.loc = rec[s.run]] /\ Alone(c)
      BY <1>0, <1>4, <2>1 DEF StopLoad, Alone
    <3>2. /\ thread'[c].todo = <<"stopwrite">> /\ thread'[c].loc = rec[s.run]
          /\ thread'[c].run = s.run
      BY <1>0, <3>1 DEF ThreadStates
    <3>3. HoldAt(thread[c])'
      BY <1>1, <3>2 DEF HoldAt, Paired
    <3>4. s.run \in Runs
      BY <1>0, <1>4, AtOK DEF StopLoad, SerialInv, TypeInv
    <3>5. rec[s.run].status # "paused"
      BY <3>4 DEF SerialInv, RunInv, RunFacts
    <3>6. CallerAt(thread[c])'
      BY <1>1, <2>1, <3>2, <3>5 DEF CallerAt
    <3>7. thread'[c].todo # <<"create">>
      BY <3>2
    <3> QED BY <1>1, <1>2, <3>1, <3>3, <3>6, <3>7, QuietCaller
  <2>2. CASE rec[s.run].status \notin {"pending", "paused", "running"}
    <3>1. Alone(c) /\ HoldAt(thread[c])' /\ thread'[c].todo = <<>>
      BY <1>0, <1>4, <2>2, ReturnDrops DEF StopLoad
    <3>2. CallerAt(thread[c])'
      BY <3>1 DEF CallerAt
    <3> QED BY <1>1, <1>2, <3>1, <3>2, QuietCaller
  <2> QED BY <2>1, <2>2
<1> QED BY <1>1, <1>3, <1>4

\* A stop is written: on a pending record as "cancelled", on a running one as a flag.
LEMMA SerialStopWrite ==
    ASSUME Serialised, SerialInv, TypeInv', NEW c \in Callers, StopWrite(c)
    PROVE  SerialInv' /\ RecordsForward
<1> DEFINE r == thread[c].run
           item == IF rec[r].status = "running" THEN "running" ELSE "cancelled"
<1>0. /\ c \in Threads /\ Worker \in Threads /\ c # Worker /\ thread[c] \in ThreadStates
      /\ thread \in [Threads -> ThreadStates] /\ rec \in [Runs -> Records \cup {Absent}]
  BY WorkerIsNoCaller DEF Threads, SerialInv, TypeInv, ThreadInv, WellFormed, StoreType
<1>1. /\ run' = run /\ starts' = starts /\ heard' = heard /\ At(c, "stopwrite") /\ Free(c)
      /\ refused' = refused /\ up' = up /\ crashes' = crashes /\ proc' = proc /\ up = "up"
  BY DEF StopWrite, history, At
<1>2. /\ r \in Runs /\ thread[c].todo = <<"stopwrite">>
      /\ rec[r].status \in {"pending", "running"} /\ thread[c].loc = rec[r]
  <2>1. r \in Runs /\ thread[c].todo # <<>> /\ Head(thread[c].todo) = "stopwrite"
    BY <1>0, <1>1, AtOK DEF SerialInv, TypeInv, At
  <2>2. thread[c].todo \notin Seq(Noting) /\ thread[c].todo \notin Seq(Recording)
    <3>1. ASSUME NEW L, thread[c].todo \in Seq(L) PROVE "stopwrite" \in L
      BY <2>1, <3>1, Dropped
    <3> QED BY <3>1 DEF Noting, Recording
  <2>3. CallerAt(thread[c])
    BY DEF SerialInv, CallerInv
  <2>4. thread[c].todo = <<"stopwrite">> /\ rec[r].status \in {"pending", "running"}
    BY <2>1, <2>2, <2>3 DEF CallerAt
  <2>5. thread[c].loc = rec[r]
    BY <1>0, <2>1 DEF SerialInv, HoldInv, HoldAt, Held
  <2> QED BY <2>1, <2>4, <2>5
<1>3. /\ rec' = [rec EXCEPT ![r] = [status |-> item, stop |-> TRUE]]
      /\ thread' = [thread EXCEPT ![c].todo = <<"stopmark">>, ![c].to = item]
  <2>1. item = "running" \/ CanTransition(r, "cancelled")
    BY <1>2 DEF CanTransition, QStatus, Allowed
  <2> QED BY <1>2, <2>1 DEF StopWrite
<1>4. /\ rec'[r].status = item /\ rec'[r].stop /\ \A q \in Runs : q # r => rec'[q] = rec[q]
  BY <1>0, <1>2, <1>3
<1>5. /\ Alone(c) /\ thread'[c].todo = <<"stopmark">> /\ thread'[c].to = item
      /\ thread'[c].run = r
  <2>1. Alone(c) /\ thread'[c] = [thread[c] EXCEPT !.todo = <<"stopmark">>, !.to = item]
    BY <1>0, <1>3 DEF Alone
  <2> QED BY <1>0, <2>1 DEF ThreadStates
<1>6. \A q \in Runs : Forward(q)
  BY <1>2, <1>4 DEF Forward
<1>7. RecordsForward
  <2> DEFINE s == [status |-> item, stop |-> TRUE]
  <2>1. rec' = [rec EXCEPT ![r] = s] /\ rec'[r] = s
    BY <1>0, <1>2, <1>3
  <2> HIDE DEF s
  <2> QED BY <1>2, <1>6, <2>1 DEF RecordsForward
<1>8. HoldInv'
  <2>1. Orderly(<<"stopmark">>)
    BY ProgramOrder DEF Labels, Held
  <2>2. HoldAt(thread[c])'
    BY <1>5, <2>1 DEF HoldAt, Orderly
  <2> QED BY <1>0, <1>1, <1>5, <2>2, HoldKept DEF SerialInv
<1>9. CallerInv'
  <2>1. ASSUME NEW u \in Callers, u # c PROVE thread'[u] = thread[u] /\ CallerAt(thread[u])'
    <3>1. thread'[u] = thread[u] /\ ~Holding(u)
      BY <1>1, <1>5, <2>1 DEF Alone, Threads, Free
    <3>2. ~Creates(thread[u], r)
      BY <1>2, CreatesAbsent
    <3>3. \A q \in Runs : Creates(thread[u], q) => rec'[q] = rec[q]
      BY <1>4, <3>2
    <3> QED BY <1>1, <1>6, <3>1, <3>3, CallerKept
  <2>2. CallerAt(thread[c])'
    <3>1. CASE rec[r].status = "running"
      BY <1>4, <1>5, <3>1 DEF CallerAt
    <3>2. CASE rec[r].status = "pending"
      <4>1. NeverRuns(r)'
        BY <1>1, <1>2, <1>4, <1>5, <3>2 DEF NeverRuns, SerialInv, RunInv, RunFacts
      <4> QED BY <1>4, <1>5, <3>2, <4>1 DEF CallerAt
    <3> QED BY <1>2, <3>1, <3>2
  <2>3. thread'[c].todo # <<"create">>
    BY <1>5
  <2> QED BY <2>1, <2>2, <2>3 DEF SerialInv, CallerInv, Creates
<1>10. WorkerInv'
  <2>1. thread[Worker].run = r => rec'[r].status = rec[r].status
    BY <1>2, <1>4, WorkerClaimed
  <2> QED BY <1>0, <1>1, <1>4, <1>5, <2>1, WorkerKept DEF Alone
<1>11. SlotInv'
  BY <1>0, <1>1, <1>2, <1>4, <1>5 DEF SerialInv, SlotInv, Alone
<1>12. RunInv'
  <2>1. ASSUME NEW q \in Runs PROVE RunFacts(q)'
    <3>1. CASE q = r
      BY <1>1, <1>2, <1>4, <3>1 DEF SerialInv, RunInv, RunFacts, NeverRuns
    <3>2. CASE q # r
      BY <1>1, <1>4, <3>2 DEF SerialInv, RunInv, RunFacts, NeverRuns
    <3> QED BY <3>1, <3>2
  <2>2. ASSUME crashes = 0, NEW q \in Runs PROVE Attended(q)'
    <3>1. CASE q = r
      BY <1>4, <1>5, <3>1 DEF Attended, Cancels
    <3>2. CASE q # r
      <4>1. Attended(q) /\ rec'[q] = rec[q]
        BY <1>4, <2>2, <3>2 DEF SerialInv, RunInv
      <4>2. \A d \in Callers : d # c => thread'[d] = thread[d]
        BY <1>5 DEF Alone, Threads
      <4>3. ~Creates(thread[c], q) /\ ~Cancels(thread[c], q)
        BY <3>2 DEF Creates, Cancels
      <4> QED BY <1>1, <4>1, <4>2, <4>3 DEF Attended
    <3> QED BY <3>1, <3>2
  <2> QED BY <1>1, <2>1, <2>2 DEF RunInv
<1>13. StopHonoured'
  BY <1>1 DEF SerialInv, StopHonoured
<1> QED BY <1>7, <1>8, <1>9, <1>10, <1>11, <1>12, <1>13 DEF SerialInv

\* The answer to the stop.
LEMMA SerialStopMark ==
    ASSUME Serialised, SerialInv, TypeInv', NEW c \in Callers, StopMark(c)
    PROVE  SerialInv' /\ rec' = rec
<1> DEFINE r == thread[c].run
           item == thread[c].to
<1>0. /\ c \in Threads /\ rec \in [Runs -> Records \cup {Absent}]
  BY DEF Threads, SerialInv, TypeInv, StoreType
<1>1. /\ run' = run /\ starts' = starts /\ up' = up /\ crashes' = crashes
      /\ proc' = proc /\ up = "up" /\ At(c, "stopmark")
  BY DEF StopMark, At
<1>2. /\ r \in Runs /\ thread[c].todo = <<"stopmark">>
      /\ \/ item = "running" /\ rec[r].stop /\ rec[r].status \notin {"absent", "pending"}
         \/ item = "cancelled" /\ NeverRuns(r)
  <2>1. r \in Runs /\ thread[c].todo # <<>> /\ Head(thread[c].todo) = "stopmark"
    BY <1>0, <1>1, AtOK DEF SerialInv, TypeInv, At
  <2>2. thread[c].todo \notin Seq(Noting) /\ thread[c].todo \notin Seq(Recording)
    <3>1. ASSUME NEW L, thread[c].todo \in Seq(L) PROVE "stopmark" \in L
      BY <2>1, <3>1, Dropped
    <3> QED BY <3>1 DEF Noting, Recording
  <2>3. CallerAt(thread[c])
    BY DEF SerialInv, CallerInv
  <2> QED BY <2>1, <2>2, <2>3 DEF CallerAt
<1>3. thread[c].todo # <<"create">>
  BY <1>2
<1>4. CASE CanTransition(r, item)
  <2>1. rec[r].status = item /\ rec[r] \in Records
    <3>1. CASE item = "running"
      <4>1. rec[r].status \in {"pending", "running"}
        BY <1>4, <3>1 DEF CanTransition, QStatus, Allowed
      <4> QED BY <1>0, <1>2, <3>1, <4>1 DEF Absent
    <3>2. CASE item = "cancelled"
      BY <1>0, <1>2, <3>2 DEF NeverRuns, Absent
    <3> QED BY <1>2, <3>1, <3>2
  <2>2. rec' = rec
    <3>1. [rec[r] EXCEPT !.status = item] = rec[r]
      BY <2>1 DEF Records
    <3>2. rec' = [rec EXCEPT ![r] = [rec[r] EXCEPT !.status = item]]
      BY <1>4 DEF StopMark
    <3> QED BY <1>0, <1>2, <3>1, <3>2
  <2>3. Quiet
    BY <1>1, <1>2, <1>4, <2>1, <2>2 DEF Quiet, StopMark
  <2>4. Goto(c, StopNoted(item))
    BY <1>4 DEF StopMark
  <2>5. /\ Alone(c) /\ HoldAt(thread[c])' /\ thread'[c].todo = StopNoted(item)
        /\ thread'[c].run = r /\ thread'[c].to = item
    BY <1>0, <2>4, GotoDrops, ProgramTypes, ProgramOrder
  <2>6. CASE item = "running"
    <3>1. thread'[c].todo \in Seq(Noting)
      BY <2>5, <2>6, ProgramShapes
    <3>2. CallerAt(thread[c])'
      BY <3>1 DEF CallerAt
    <3>3. thread'[c].todo # <<"create">>
      <4>1. ASSUME <<"create">> \in Seq(Noting) PROVE "create" \in Noting
        BY <4>1, Dropped
      <4> QED BY <3>1, <4>1 DEF Noting
    <3>4. \A q \in Runs : ~Cancels(thread[c], q)
      BY <2>6 DEF Cancels
    <3> QED BY <1>1, <1>3, <2>2, <2>3, <2>5, <3>2, <3>3, <3>4, QuietCaller
  <2>7. CASE item = "cancelled"
    <3>1. thread'[c].todo \in Seq(Recording) /\ SetsRun(thread'[c].todo)
      BY <2>5, <2>7, ProgramShapes
    <3>2. NeverRuns(r)'
      BY <1>1, <1>2, <2>2, <2>5, <2>7 DEF NeverRuns
    <3>3. CallerAt(thread[c])'
      BY <2>5, <2>7, <3>1, <3>2 DEF CallerAt
    <3>4. thread'[c].todo # <<"create">>
      <4>1. ASSUME <<"create">> \in Seq(Recording) PROVE "create" \in Recording
        BY <4>1, Dropped
      <4> QED BY <3>1, <4>1 DEF Recording
    <3>5. \A q \in Runs : Cancels(thread[c], q) => Cancels(thread'[c], q)
      BY <2>5, <3>1 DEF Cancels
    <3> QED BY <1>1, <1>3, <2>2, <2>3, <2>5, <3>3, <3>4, <3>5, QuietCaller
  <2> QED BY <1>2, <2>6, <2>7
<1>5. CASE ~CanTransition(r, item)
  <2>1. Quiet /\ rec' = rec /\ Return(c)
    BY <1>1, <1>5 DEF StopMark, Quiet
  <2>2. item # "cancelled"
    BY <1>2, <1>5 DEF CanTransition, NeverRuns, QStatus, Allowed
  <2>3. Alone(c) /\ HoldAt(thread[c])' /\ thread'[c].todo = <<>>
    BY <1>0, <2>1, ReturnDrops
  <2>4. CallerAt(thread[c])' /\ \A q \in Runs : ~Cancels(thread[c], q)
    BY <2>2, <2>3 DEF CallerAt, Cancels
  <2>5. thread'[c].todo # <<"create">>
    BY <2>3
  <2> QED BY <1>1, <1>3, <2>1, <2>3, <2>4, <2>5, QuietCaller
<1> QED BY <1>4, <1>5

\* The signal that ends a stop.
LEMMA SerialSignal ==
    ASSUME Serialised, SerialInv, TypeInv', NEW c \in Callers, StopSignal(c)
    PROVE  SerialInv' /\ rec' = rec
<1>0. c \in Threads /\ proc \in [Runs -> {"none", "live", "ok", "bad"}]
  BY DEF Threads, SerialInv, TypeInv, StoreType
<1>1. /\ Quiet /\ rec' = rec /\ up = "up"
  <2>1. \A r \in Runs : proc'[r] # proc[r] => proc[r] = "live" /\ proc'[r] # "live"
    BY <1>0 DEF StopSignal, StopTarget
  <2> QED BY <2>1 DEF StopSignal, Quiet, history, At
<1>2. Alone(c) /\ HoldAt(thread[c])' /\ thread'[c].todo = <<>>
  BY <1>0, ReturnDrops DEF StopSignal
<1>3. CallerAt(thread[c])' /\ thread'[c].todo # <<"create">>
  BY <1>2 DEF CallerAt
<1>4. thread[c].todo # <<>> /\ Head(thread[c].todo) = "signal" /\ CallerAt(thread[c])
  BY DEF StopSignal, At, SerialInv, CallerInv
<1>5. thread[c].todo \notin Seq(Recording) /\ thread[c].todo \in Seq(Noting)
  <2>1. ASSUME thread[c].todo \in Seq(Recording) PROVE "signal" \in Recording
    BY <1>4, <2>1, Dropped
  <2>2. thread[c].todo \notin Seq(Recording)
    BY <2>1 DEF Recording
  <2> QED BY <1>4, <2>2 DEF CallerAt
<1>6. thread[c].todo # <<"create">> /\ thread[c].todo # <<"stopmark">>
  BY <1>4
<1>7. ~SetsRun(thread[c].todo)
  <2>1. ASSUME SetsRun(thread[c].todo) PROVE "setrun" \in Noting
    BY <1>5, <2>1 DEF SetsRun
  <2> QED BY <2>1 DEF Noting
<1>8. \A q \in Runs : ~Cancels(thread[c], q)
  BY <1>6, <1>7 DEF Cancels
<1> QED BY <1>1, <1>2, <1>3, <1>6, <1>8, QuietCaller

-----------------------------------------------------------------------------
(***************************************************************************)
(* The worker                                                              *)
(***************************************************************************)

\* The worker at a step is somewhere in the execution of its run.
LEMMA WorkerPlace ==
    ASSUME SerialInv, NEW l, At(Worker, l)
    PROVE  /\ Worker \in Threads /\ thread[Worker] \in ThreadStates
           /\ thread \in [Threads -> ThreadStates]
           /\ thread[Worker].run \in Runs /\ thread[Worker].run # None /\ up = "up"
           /\ thread[Worker].todo # <<>> /\ Head(thread[Worker].todo) = l
           /\ thread[Worker].todo \in Seq(Labels)
           /\ \/ BeforeStart(thread[Worker])
              \/ Executing(thread[Worker])
              \/ Ending(thread[Worker])
<1>1. Worker \in Threads /\ up = "up" /\ thread[Worker].todo # <<>> /\ Head(thread[Worker].todo) = l
  BY DEF Threads, At
<1>2. /\ thread[Worker].run \in Runs /\ thread[Worker].todo \in Seq(Labels)
      /\ thread[Worker] \in ThreadStates /\ thread \in [Threads -> ThreadStates]
  BY <1>1, AtOK DEF SerialInv, TypeInv, ThreadInv
<1> QED BY <1>1, <1>2, NoneIsNoRun DEF SerialInv, WorkerInv, WorkerAt

\* Which steps belong to which part of the execution.
LEMMA WorkerLabels ==
    ASSUME SerialInv, NEW l, At(Worker, l)
    PROVE  /\ BeforeStart(thread[Worker]) => l \in Recording \cup {"spawn"}
           /\ Executing(thread[Worker]) => l \in LoopLabels \cup {"final"}
           /\ Executing(thread[Worker]) /\ l \notin {"load", "save", "final"} =>
                 InLoop(thread[Worker].todo)
           /\ Executing(thread[Worker]) /\ l = "final" => proc[thread[Worker].run] # "live"
           /\ Ending(thread[Worker]) => l \in Recording
<1> DEFINE w == thread[Worker]
<1>1. w.todo # <<>> /\ Head(w.todo) = l
  BY WorkerPlace
<1>2. \A L : w.todo \in Seq(L) => l \in L
  BY <1>1, Dropped
<1>3. BeforeStart(w) => l \in Recording \cup {"spawn"}
  BY <1>2 DEF BeforeStart, Starting, EndsIn
<1>4. InLoop(w.todo) => l \in LoopLabels
  BY <1>2 DEF InLoop, EndsIn
<1>5. Concluding(w.todo) => l \in {"load", "save", "final"}
  BY <1>2 DEF Concluding, EndsIn
<1>6. "final" \notin LoopLabels /\ "load" \in LoopLabels /\ "save" \in LoopLabels
  BY DEF LoopLabels, LoopEnds
<1>7. Ending(w) => l \in Recording
  BY <1>2 DEF Ending, Finishing
<1> QED BY <1>3, <1>4, <1>5, <1>6, <1>7 DEF Executing

\* The steps that do not lead from one part of the execution to another.
LEMMA WorkerTail ==
    ASSUME SerialInv, Quiet, NEW l, At(Worker, l),
           l \notin LoopEnds \cup {"spawn", "final", "setrun", "put"},
           thread'[Worker].todo = Tail(thread[Worker].todo),
           thread'[Worker].run = thread[Worker].run, thread'[Worker].to = thread[Worker].to
    PROVE  WorkerInv' /\ \A r \in Runs : rec[r].status = "running" => thread'[Worker].run = r
<1> DEFINE w == thread[Worker]
           s == thread'[Worker]
<1>1. /\ w.run \in Runs /\ w.run # None /\ up = "up" /\ w.todo # <<>> /\ Head(w.todo) = l
      /\ BeforeStart(w) \/ Executing(w) \/ Ending(w)
  BY WorkerPlace
<1>2. /\ rec' = rec /\ run' = run /\ starts' = starts
      /\ proc[w.run] = "none" => proc'[w.run] = "none"
      /\ proc'[w.run] = "live" => proc[w.run] = "live"
      /\ w.run \in heard' => w.run \in heard \/ proc[w.run] = "live"
  BY <1>1 DEF Quiet
<1>3. CASE BeforeStart(w)
  <2>1. Starting(Tail(w.todo))
    BY <1>1, <1>3, EndsInTail DEF BeforeStart, Starting
  <2>2. BeforeStart(thread[Worker])'
    BY <1>2, <1>3, <2>1 DEF BeforeStart
  <2> QED BY <1>1, <2>2 DEF WorkerInv, WorkerAt, SerialInv, SlotInv
<1>4. CASE Executing(w)
  <2>1. InLoop(w.todo) => InLoop(Tail(w.todo))
    BY <1>1, EndsInTail DEF InLoop
  <2>2. Concluding(w.todo) => Concluding(Tail(w.todo))
    BY <1>1, EndsInTail DEF Concluding
  <2>3. Executing(thread[Worker])'
    BY <1>2, <1>4, <2>1, <2>2 DEF Executing
  <2> QED BY <1>1, <2>3 DEF WorkerInv, WorkerAt, SerialInv, SlotInv
<1>5. CASE Ending(w)
  <2>1. /\ Finishing(Tail(w.todo)) /\ Len(Tail(w.todo)) = Len(w.todo) - 1
        /\ Len(w.todo) \in Nat /\ Len(w.todo) # 5 /\ Len(w.todo) # 3
    BY <1>1, <1>5, FinishTail DEF Ending
  <2>2. (Len(s.todo) < 5 <=> Len(w.todo) < 5) /\ (Len(s.todo) < 3 <=> Len(w.todo) < 3)
    <3> DEFINE n == Len(w.todo)
               m == Len(s.todo)
    <3>1. n \in Nat /\ n # 5 /\ n # 3 /\ m = n - 1
      BY <2>1
    <3> HIDE DEF n, m
    <3>2. (m < 5 <=> n < 5) /\ (m < 3 <=> n < 3)
      BY <3>1
    <3> QED BY <3>2 DEF n, m
  <2>3. Ending(thread[Worker])'
    BY <1>2, <1>5, <2>1, <2>2 DEF Ending
  <2> QED BY <1>1, <2>3 DEF WorkerInv, WorkerAt, SerialInv, SlotInv
<1> QED BY <1>1, <1>3, <1>4, <1>5

\* Touches, signals and the deadline's kill.
LEMMA SerialWorkerTail ==
    ASSUME Serialised, SerialInv, TypeInv',
           Load(Worker) \/ Save(Worker) \/ Terminate \/ Kill \/ Expire
    PROVE  SerialInv' /\ rec' = rec
<1> DEFINE w == thread[Worker]
<1>0. Worker \in Threads /\ proc \in [Runs -> {"none", "live", "ok", "bad"}]
  BY DEF Threads, SerialInv, TypeInv, StoreType
<1>1. PICK l \in {"load", "save", "terminate", "kill", "expire"} :
        /\ At(Worker, l) /\ Quiet /\ Alone(Worker) /\ HoldAt(thread[Worker])'
        /\ thread'[Worker].todo = Tail(w.todo) /\ thread'[Worker].run = w.run
        /\ thread'[Worker].to = w.to
  <2>1. CASE Load(Worker)
    BY <1>0, <2>1, HeldLoad DEF Load
  <2>2. CASE Save(Worker)
    BY <1>0, <2>2, HeldSave, StepDrops DEF Save
  <2>3. CASE Kill
    <3>1. Quiet
      BY <1>0, <2>3 DEF Kill, Quiet, history
    <3> QED BY <1>0, <2>3, <3>1, StepDrops DEF Kill
  <2>4. CASE Terminate \/ Expire
    <3>1. Quiet
      BY <1>0, <2>4 DEF Terminate, Expire, Quiet, history
    <3>2. PICK l \in {"terminate", "expire"} : At(Worker, l)
      BY <2>4 DEF Terminate, Expire
    <3>3. /\ w \in ThreadStates /\ thread \in [Threads -> ThreadStates]
          /\ w.todo \in Seq(Labels) /\ w.todo # <<>> /\ Head(w.todo) = l
      BY <3>2, WorkerPlace
    <3>4. /\ Alone(Worker)
          /\ \/ thread'[Worker] = [w EXCEPT !.todo = Tail(w.todo), !.asked = TRUE]
             \/ thread'[Worker] = [w EXCEPT !.todo = Tail(w.todo), !.late = TRUE]
      BY <1>0, <2>4, <3>3 DEF Terminate, Expire, Rest, Alone
    <3>5. /\ thread'[Worker].todo = Tail(w.todo) /\ thread'[Worker].run = w.run
          /\ thread'[Worker].to = w.to
      BY <3>3, <3>4 DEF ThreadStates
    <3>6. Orderly(Tail(w.todo))
      BY <1>0, <3>2, <3>3, PairedTail DEF SerialInv, HoldInv, HoldAt
    <3>7. HoldAt(thread[Worker])'
      BY <3>5, <3>6 DEF HoldAt, Orderly
    <3> QED BY <3>1, <3>2, <3>4, <3>5, <3>7
  <2> QED BY <2>1, <2>2, <2>3, <2>4
<1>2. l \notin LoopEnds \cup {"spawn", "final", "setrun", "put"}
  BY DEF LoopEnds
<1>3. WorkerInv' /\ \A r \in Runs : rec[r].status = "running" => thread'[Worker].run = r
  BY <1>1, <1>2, WorkerTail
<1>4. up = "up" /\ rec' = rec
  BY <1>1 DEF At, Quiet
<1> QED BY <1>1, <1>3, <1>4, QuietWorker

\* The turns of the polling loop.
LEMMA SerialLoop ==
    ASSUME Serialised, SerialInv, TypeInv',
           Poll \/ CheckStop \/ DeadlinePassed \/ DeadlineAhead \/ Exited
    PROVE  SerialInv' /\ rec' = rec
<1> DEFINE w == thread[Worker]
<1>1. Quiet /\ rec' = rec /\ proc' = proc /\ heard' = heard
  BY DEF Poll, CheckStop, DeadlinePassed, DeadlineAhead, Exited, Quiet, history
<1>2. PICK l \in LoopEnds : At(Worker, l)
  BY DEF Poll, CheckStop, DeadlinePassed, DeadlineAhead, Exited, LoopEnds
<1>3. Worker \in Threads /\ w.run \in Runs /\ w.run # None /\ up = "up"
  BY <1>2, WorkerPlace
<1>4. Executing(w)
  <2>1. l \notin Recording \cup {"spawn"}
    BY DEF LoopEnds, Recording
  <2> QED BY <1>2, <2>1, WorkerPlace, WorkerLabels
<1>5. PICK steps \in Seq(Labels) :
        /\ Goto(Worker, steps) /\ Orderly(steps)
        /\ InLoop(steps) \/ (Concluding(steps) /\ proc[w.run] # "live")
  <2>0. /\ \A l1 \in Labels : <<l1>> \in Seq(Labels)
        /\ \A l1 \in {"poll", "deadline", "exited"} : Orderly(<<l1>>) /\ <<l1>> \in Seq(Labels)
    BY ProgramTypes, ProgramOrder DEF Labels, Held
  <2>1. /\ Touch \o <<"terminate", "deadline">> \in Seq(Labels)
        /\ Touch \o <<"kill", "deadline">> \in Seq(Labels)
        /\ Touch \o Touch \o <<"expire", "exited">> \in Seq(Labels)
    <3>1. /\ <<"terminate", "deadline">> \in Seq(Labels)
          /\ <<"kill", "deadline">> \in Seq(Labels) /\ <<"expire", "exited">> \in Seq(Labels)
          /\ Touch \in Seq(Labels)
      BY ProgramTypes DEF Labels
    <3>2. Touch \o Touch \in Seq(Labels)
      BY <3>1, ConcatProperties
    <3> QED BY <3>1, <3>2, ConcatProperties
  <2>2. CASE Poll
    BY <2>2, ProgramTypes, ProgramOrder, InLoopLists DEF Poll
  <2>3. CASE CheckStop
    BY <2>0, <2>1, <2>3, ProgramOrder, InLoopLists DEF CheckStop
  <2>4. CASE DeadlinePassed
    BY <2>1, <2>4, ProgramOrder, InLoopLists DEF DeadlinePassed
  <2>5. CASE DeadlineAhead
    BY <2>0, <2>5, InLoopLists DEF DeadlineAhead
  <2>6. CASE Exited
    <3>1. CASE proc[w.run] = "live"
      BY <2>0, <2>6, <3>1, InLoopLists DEF Exited
    <3>2. CASE proc[w.run] # "live"
      <4>1. PICK output \in BOOLEAN :
              Goto(Worker, (IF output THEN Touch ELSE <<>>) \o <<"final">>)
        BY <2>6, <3>2 DEF Exited
      <4>2. (IF output THEN Touch ELSE <<>>) \o <<"final">> \in Seq(Labels)
        <5>1. Touch \in Seq(Labels) /\ <<>> \in Seq(Labels) /\ <<"final">> \in Seq(Labels)
          BY ProgramTypes DEF Labels
        <5> QED BY <5>1, ConcatProperties
      <4> QED BY <3>2, <4>1, <4>2, ProgramOrder, ProgramShapes
    <3> QED BY <3>1, <3>2
  <2> QED BY <2>2, <2>3, <2>4, <2>5, <2>6
<1>6. /\ Alone(Worker) /\ HoldAt(thread[Worker])' /\ thread'[Worker].todo = steps
      /\ thread'[Worker].run = w.run /\ thread'[Worker].to = w.to
  BY <1>3, <1>5, GotoDrops
<1>7. Executing(thread[Worker])'
  BY <1>1, <1>4, <1>5, <1>6 DEF Executing, Quiet
<1>8. WorkerInv' /\ \A r \in Runs : rec[r].status = "running" => thread'[Worker].run = r
  BY <1>3, <1>6, <1>7 DEF WorkerInv, WorkerAt, SerialInv, SlotInv
<1> QED BY <1>1, <1>3, <1>6, <1>8, QuietWorker

\* The stop flag and the exit code are turned into an outcome; so is a failed start.
LEMMA SerialFinal ==
    ASSUME Serialised, SerialInv, TypeInv',
           \/ Final
           \/ /\ At(Worker, "spawn") /\ Finish("failed")
              /\ UNCHANGED <<rec, run, proc, starts, heard, refused, up, crashes>>
    PROVE  SerialInv' /\ rec' = rec
<1> DEFINE w == thread[Worker]
<1>1. Quiet /\ rec' = rec /\ run' = run /\ proc' = proc /\ heard' = heard
  BY DEF Final, Quiet, history
<1>2. PICK l \in {"final", "spawn"} : At(Worker, l)
  BY DEF Final
<1>3. /\ Worker \in Threads /\ w.run \in Runs /\ w.run # None /\ up = "up"
      /\ w \in ThreadStates /\ thread \in [Threads -> ThreadStates]
  BY <1>2, WorkerPlace
<1>4. PICK status \in RTerminal :
        /\ Finish(status) /\ rec[w.run].status = "running" /\ proc[w.run] # "live"
        /\ w.run \in heard => status = "cancelled"
  <2>1. CASE Final
    <3>1. At(Worker, "final") /\ Finish(Outcome(w))
      BY <2>1 DEF Final
    <3>2. "final" \notin Recording \cup {"spawn"}
      BY DEF Recording
    <3>3. Executing(w) /\ proc[w.run] # "live"
      BY <3>1, <3>2, WorkerPlace, WorkerLabels
    <3>4. Outcome(w) \in RTerminal
      BY DEF Outcome, RTerminal
    <3>5. w.run \in heard => Outcome(w) = "cancelled"
      BY <1>3 DEF SerialInv, RunInv, RunFacts, Outcome
    <3> QED BY <3>1, <3>3, <3>4, <3>5 DEF Executing
  <2>2. CASE At(Worker, "spawn") /\ Finish("failed")
    <3>1. "spawn" \notin LoopLabels \cup {"final"} /\ "spawn" \notin Recording
      BY DEF LoopLabels, LoopEnds, Recording
    <3>2. BeforeStart(w)
      BY <2>2, <3>1, WorkerPlace, WorkerLabels
    <3> QED BY <2>2, <3>2 DEF BeforeStart, RTerminal
  <2> QED BY <2>1, <2>2
<1>5. Alone(Worker) /\ thread'[Worker] = [w EXCEPT !.todo = FinishSteps(status), !.to = status]
  BY <1>3, <1>4 DEF Finish, Alone
<1>6. /\ thread'[Worker].todo = FinishSteps(status) /\ thread'[Worker].run = w.run
      /\ thread'[Worker].to = status
  BY <1>3, <1>5 DEF ThreadStates
<1>7. HoldAt(thread[Worker])'
  BY <1>4, <1>6, ProgramOrder DEF HoldAt, Orderly
<1>8. Ending(thread[Worker])'
  <2>1. Finishing(FinishSteps(status)) /\ Len(FinishSteps(status)) >= 5
    BY <1>4, FinishShape
  <2>2. Len(FinishSteps(status)) \in Nat
    BY <2>1 DEF Finishing
  <2>3. ~(Len(FinishSteps(status)) < 5) /\ ~(Len(FinishSteps(status)) < 3)
    BY <2>1, <2>2
  <2> QED BY <1>1, <1>4, <1>6, <2>1, <2>3 DEF Ending
<1>9. WorkerInv' /\ \A r \in Runs : rec[r].status = "running" => thread'[Worker].run = r
  BY <1>3, <1>6, <1>8 DEF WorkerInv, WorkerAt, SerialInv, SlotInv
<1> QED BY <1>1, <1>3, <1>5, <1>7, <1>9, QuietWorker

\* The worker lets go of a run whose outcome is recorded.
LEMMA SerialFinally ==
    ASSUME Serialised, SerialInv, TypeInv', Finally
    PROVE  SerialInv' /\ rec' = rec
<1> DEFINE w == thread[Worker]
<1>0. Worker \in Threads
  BY DEF Threads
<1>1. Quiet /\ rec' = rec /\ up = "up" /\ w.run # None /\ w.todo = <<>>
  BY DEF Finally, Quiet, history
<1>2. Alone(Worker) /\ HoldAt(thread[Worker])' /\ thread'[Worker].todo = <<>>
      /\ thread'[Worker].run = None
  BY <1>0, ReturnDrops DEF Finally
<1>3. WorkerInv'
  BY <1>2 DEF WorkerInv, WorkerAt
<1>4. rec[w.run].status # "running"
  <2>1. BeforeStart(w) \/ Executing(w) \/ Ending(w)
    BY <1>1 DEF SerialInv, WorkerInv, WorkerAt
  <2>2. Ending(w)
    BY <1>1, <2>1 DEF BeforeStart, Executing, Starting, InLoop, Concluding, EndsIn
  <2>3. Len(w.todo) < 3
    BY <1>1
  <2> QED BY <2>2, <2>3 DEF Ending, QueueStatusForRun, RTerminal
<1>5. \A r \in Runs : rec[r].status # "running"
  BY <1>1, <1>4 DEF SerialInv, SlotInv
<1> QED BY <1>1, <1>2, <1>3, <1>5, QuietWorker

\* What the request threads rely on survives the worker's steps.
LEMMA CallersKept ==
    ASSUME Serialised, SerialInv, Alone(Worker), up = "up",
           \A r \in Runs : Forward(r) /\ (NeverRuns(r) => starts'[r] = starts[r]),
           \A r \in Runs : rec[r].status = "absent" => rec'[r] = rec[r],
           rec' = rec \/ Free(Worker)
    PROVE  CallerInv' /\ \A c \in Callers : thread'[c] = thread[c]
<1>1. \A c \in Callers : c \in Threads /\ thread'[c] = thread[c]
  BY WorkerIsNoCaller DEF Threads, Alone
<1>2. ASSUME NEW c \in Callers PROVE CallerAt(thread[c])'
  <2>1. Holding(c) => rec'[thread[c].run] = rec[thread[c].run]
    BY WorkerIsNoCaller, <1>1 DEF Free
  <2>2. \A r \in Runs : Creates(thread[c], r) => rec'[r] = rec[r]
    BY CreatesAbsent
  <2> QED BY <1>1, <2>1, <2>2, CallerKept
<1> QED BY <1>1, <1>2 DEF SerialInv, CallerInv

\* The process starts, once.
LEMMA SerialSpawn ==
    ASSUME Serialised, SerialInv, TypeInv', Spawn
    PROVE  SerialInv' /\ rec' = rec
<1> DEFINE w == thread[Worker]
           r == w.run
<1>1. At(Worker, "spawn") /\ rec' = rec
  BY DEF Spawn
<1>2. /\ Worker \in Threads /\ r \in Runs /\ r # None /\ up = "up"
      /\ starts \in [Runs -> 0..2] /\ proc \in [Runs -> {"none", "live", "ok", "bad"}]
  BY <1>1, WorkerPlace DEF SerialInv, TypeInv, StoreType
<1>3. BeforeStart(w)
  <2>1. "spawn" \notin LoopLabels \cup {"final"} /\ "spawn" \notin Recording
    BY DEF LoopLabels, LoopEnds, Recording
  <2> QED BY <1>1, <2>1, WorkerPlace, WorkerLabels
<1>4. CASE Finish("failed") /\ UNCHANGED <<proc, active, starts>>
  BY <1>1, <1>4, SerialFinal DEF Spawn
<1>5. CASE /\ proc' = [proc EXCEPT ![r] = "live"]
           /\ starts' = [starts EXCEPT ![r] = IF @ = 0 THEN 1 ELSE 2]
           /\ Goto(Worker, <<"poll">>)
  <2>1. /\ run' = run /\ heard' = heard /\ refused' = refused /\ up' = up
        /\ crashes' = crashes
    BY DEF Spawn
  <2>2. /\ starts'[r] = 1 /\ \A q \in Runs : q # r => starts'[q] = starts[q] /\ proc'[q] = proc[q]
    BY <1>2, <1>3, <1>5 DEF BeforeStart
  <2>3. <<"poll">> \in Seq(Labels) /\ Orderly(<<"poll">>)
    BY ProgramTypes, ProgramOrder DEF Labels, Held
  <2>4. /\ Alone(Worker) /\ HoldAt(thread[Worker])' /\ thread'[Worker].todo = <<"poll">>
        /\ thread'[Worker].run = r /\ thread'[Worker].to = w.to
    BY <1>2, <1>5, <2>3, GotoDrops
  <2>5. HoldInv'
    BY <1>1, <1>2, <2>4, HoldKept DEF SerialInv
  <2>6. CallerInv' /\ \A c \in Callers : thread'[c] = thread[c]
    <3>1. \A q \in Runs : Forward(q) /\ (NeverRuns(q) => starts'[q] = starts[q])
      BY <1>1, <1>3, <2>2 DEF Forward, NeverRuns, BeforeStart
    <3> QED BY <1>1, <1>2, <2>4, <3>1, CallersKept
  <2>7. Executing(thread[Worker])'
    BY <1>1, <1>3, <2>1, <2>2, <2>4, InLoopLists DEF Executing, BeforeStart
  <2>8. WorkerInv' /\ SlotInv'
    BY <1>1, <1>2, <2>1, <2>4, <2>7 DEF WorkerInv, WorkerAt, SerialInv, SlotInv
  <2>9. RunInv'
    <3>1. ASSUME NEW q \in Runs PROVE RunFacts(q)'
      <4>1. CASE q = r
        BY <1>1, <1>2, <1>3, <2>1, <2>2, <4>1 DEF SerialInv, RunInv, RunFacts, NeverRuns, BeforeStart
      <4>2. CASE q # r
        BY <1>1, <2>1, <2>2, <4>2 DEF SerialInv, RunInv, RunFacts, NeverRuns
      <4> QED BY <4>1, <4>2
    <3>2. ASSUME crashes = 0, NEW q \in Runs PROVE Attended(q)'
      BY <1>1, <2>1, <2>6, <3>2 DEF SerialInv, RunInv, Attended
    <3> QED BY <2>1, <3>1, <3>2 DEF RunInv
  <2>10. StopHonoured'
    BY <2>1 DEF SerialInv, StopHonoured
  <2> QED BY <1>1, <2>5, <2>6, <2>8, <2>9, <2>10 DEF SerialInv
<1> QED BY <1>4, <1>5 DEF Spawn

\* The worker claims the oldest pending run.
LEMMA SerialClaim ==
    ASSUME Serialised, SerialInv, TypeInv', ClaimNext
    PROVE  SerialInv' /\ RecordsForward
<1> DEFINE s == [status |-> "running", stop |-> FALSE]
<1>0. /\ Worker \in Threads /\ thread \in [Threads -> ThreadStates]
      /\ rec \in [Runs -> Records \cup {Absent}] /\ order \in Seq(Runs)
  BY DEF Threads, SerialInv, TypeInv, ThreadInv, StoreType, OrderInv
<1>1. /\ run' = run /\ starts' = starts /\ heard' = heard /\ Free(Worker) /\ up = "up"
      /\ refused' = refused /\ up' = up /\ crashes' = crashes /\ proc' = proc
      /\ thread[Worker].run = None
  BY DEF ClaimNext, history, Idle
<1>2. PICK r \in Runs :
        /\ rec[r].status = "pending" /\ rec' = [rec EXCEPT ![r] = s]
        /\ thread' = [thread EXCEPT ![Worker] =
              [Idle EXCEPT !.todo = StartSteps, !.run = r, !.to = "running"]]
  <2>1. PICK i \in Pending :
          /\ rec' = [rec EXCEPT ![order[i]] = s]
          /\ thread' = [thread EXCEPT ![Worker] =
                [Idle EXCEPT !.todo = StartSteps, !.run = order[i], !.to = "running"]]
    BY DEF ClaimNext
  <2>2. order[i] \in Runs /\ rec[order[i]].status = "pending"
    BY <1>0 DEF Pending
  <2> QED BY <2>1, <2>2
<1>3. \A q \in Runs : rec[q].status # "running"
  BY <1>1, NoneIsNoRun DEF SerialInv, SlotInv
<1>4. /\ rec'[r] = s /\ rec'[r].status = "running"
      /\ \A q \in Runs : q # r => rec'[q] = rec[q]
  BY <1>0, <1>2
<1> HIDE DEF s
<1>5. \A q \in Runs : Forward(q)
  BY <1>2, <1>3, <1>4 DEF Forward
<1>6. RecordsForward
  BY <1>2, <1>4, <1>5 DEF RecordsForward
<1>7. /\ Alone(Worker) /\ thread'[Worker].todo = StartSteps /\ thread'[Worker].run = r
      /\ thread'[Worker].to = "running"
  <2>1. /\ Alone(Worker)
        /\ thread'[Worker] = [Idle EXCEPT !.todo = StartSteps, !.run = r, !.to = "running"]
    BY <1>0, <1>2 DEF Alone
  <2>2. Idle \in ThreadStates
    BY IdleWellFormed DEF WellFormed
  <2> QED BY <2>1, <2>2 DEF ThreadStates
<1>8. HoldInv'
  <2>1. HoldAt(thread[Worker])'
    BY <1>7, ProgramOrder DEF HoldAt, Orderly
  <2> QED BY <1>0, <1>1, <1>7, <2>1, HoldKept DEF SerialInv
<1>9. CallerInv' /\ \A c \in Callers : thread'[c] = thread[c]
  BY <1>1, <1>2, <1>4, <1>5, <1>7, CallersKept
<1>10. RunFacts(r)
  BY DEF SerialInv, RunInv
<1>11. WorkerInv'
  <2>1. BeforeStart(thread[Worker])'
    BY <1>1, <1>2, <1>4, <1>7, <1>10, ProgramShapes DEF BeforeStart, RunFacts, RTerminal
  <2> QED BY <1>7, <2>1, NoneIsNoRun DEF WorkerInv, WorkerAt
<1>12. SlotInv'
  BY <1>1, <1>3, <1>4, <1>7 DEF SlotInv
<1>13. RunInv'
  <2>1. ASSUME NEW q \in Runs PROVE RunFacts(q)'
    <3>1. CASE q = r
      BY <1>1, <1>2, <1>4, <1>10, <3>1 DEF RunFacts, NeverRuns
    <3>2. CASE q # r
      BY <1>1, <1>4, <3>2 DEF SerialInv, RunInv, RunFacts, NeverRuns
    <3> QED BY <3>1, <3>2
  <2>2. ASSUME crashes = 0, NEW q \in Runs PROVE Attended(q)'
    <3>1. CASE q = r
      BY <1>4, <3>1 DEF Attended
    <3>2. CASE q # r
      BY <1>1, <1>4, <1>9, <2>2, <3>2 DEF SerialInv, RunInv, Attended
    <3> QED BY <3>1, <3>2
  <2> QED BY <1>1, <2>1, <2>2 DEF RunInv
<1>14. StopHonoured'
  BY <1>1 DEF SerialInv, StopHonoured
<1> QED BY <1>6, <1>8, <1>9, <1>11, <1>12, <1>13, <1>14 DEF SerialInv

\* The worker writes the status of its run.
LEMMA SerialWorkerSetRun ==
    ASSUME Serialised, SerialInv, TypeInv', SetRun(Worker)
    PROVE  SerialInv' /\ rec' = rec
<1> DEFINE w == thread[Worker]
           r == w.run
<1>1. /\ At(Worker, "setrun") /\ rec' = rec /\ starts' = starts /\ heard' = heard
      /\ refused' = refused /\ up' = up /\ crashes' = crashes /\ proc' = proc
  BY DEF SetRun, history
<1>2. /\ Worker \in Threads /\ r \in Runs /\ r # None /\ up = "up" /\ w.todo # <<>>
      /\ Head(w.todo) = "setrun" /\ run \in [Runs -> RStatus \cup {"absent"}]
  BY <1>1, WorkerPlace DEF SerialInv, TypeInv, StoreType
<1>3. BeforeStart(w) \/ Ending(w)
  <2>1. "setrun" \notin LoopLabels \cup {"final"}
    BY DEF LoopLabels, LoopEnds
  <2> QED BY <1>1, <2>1, WorkerPlace, WorkerLabels
<1>4. run'[r] = w.to /\ \A q \in Runs : q # r => run'[q] = run[q]
  BY <1>2 DEF SetRun
<1>5. /\ Alone(Worker) /\ HoldAt(thread[Worker])' /\ thread'[Worker].todo = Tail(w.todo)
      /\ thread'[Worker].run = r /\ thread'[Worker].to = w.to
  BY <1>1, <1>2, StepDrops DEF SetRun
<1>6. HoldInv'
  BY <1>1, <1>2, <1>5, HoldKept DEF SerialInv
<1>7. CallerInv' /\ \A c \in Callers : thread'[c] = thread[c]
  BY <1>1, <1>2, <1>5, CallersKept DEF Forward
<1>8. rec[r].status = "running" /\ (r \in heard => w.to = "cancelled") /\ WorkerInv'
  <2>1. CASE BeforeStart(w)
    <3>1. Starting(Tail(w.todo))
      BY <1>2, <2>1, EndsInTail DEF BeforeStart, Starting
    <3>2. BeforeStart(thread[Worker])'
      BY <1>1, <1>4, <1>5, <2>1, <3>1 DEF BeforeStart, RTerminal
    <3> QED BY <1>2, <1>5, <2>1, <3>2 DEF WorkerInv, WorkerAt, BeforeStart
  <2>2. CASE Ending(w)
    <3>1. /\ Finishing(Tail(w.todo)) /\ Len(Tail(w.todo)) = Len(w.todo) - 1
          /\ Len(w.todo) = 5
      BY <1>2, <2>2, FinishTail DEF Ending
    <3>2. Len(Tail(w.todo)) = 4 /\ ~(4 < 3) /\ ~(5 < 3) /\ 4 < 5
      BY <3>1
    <3>3. rec[r].status = "running"
      BY <2>2, <3>1, <3>2 DEF Ending
    <3>4. Ending(thread[Worker])'
      BY <1>1, <1>4, <1>5, <2>2, <3>1, <3>2, <3>3 DEF Ending
    <3> QED BY <1>2, <1>5, <2>2, <3>3, <3>4 DEF WorkerInv, WorkerAt, Ending
  <2> QED BY <1>3, <2>1, <2>2
<1>9. SlotInv'
  BY <1>1, <1>2, <1>5 DEF SerialInv, SlotInv
<1>10. RunInv'
  <2>1. ASSUME NEW q \in Runs PROVE RunFacts(q)'
    <3>1. CASE q = r
      BY <1>1, <1>8, <3>1 DEF SerialInv, RunInv, RunFacts, NeverRuns
    <3>2. CASE q # r
      BY <1>1, <1>4, <3>2 DEF SerialInv, RunInv, RunFacts, NeverRuns
    <3> QED BY <3>1, <3>2
  <2>2. ASSUME crashes = 0, NEW q \in Runs PROVE Attended(q)'
    <3>1. CASE q = r
      BY <1>1, <1>8, <3>1 DEF Attended
    <3>2. CASE q # r
      BY <1>1, <1>4, <1>7, <2>2, <3>2 DEF SerialInv, RunInv, Attended
    <3> QED BY <3>1, <3>2
  <2> QED BY <1>1, <2>1, <2>2 DEF RunInv
<1>11. StopHonoured'
  <2> SUFFICES ASSUME NEW q \in heard, run'[q] \in RTerminal
               PROVE  run'[q] = "cancelled" \/ (run'[q] = "failed" /\ crashes > 0)
    BY <1>1 DEF StopHonoured
  <2>1. q \in Runs
    BY DEF SerialInv, TypeInv, StoreType
  <2>2. CASE q = r
    BY <1>4, <1>8, <2>2
  <2>3. CASE q # r
    BY <1>4, <2>1, <2>3 DEF SerialInv, StopHonoured
  <2> QED BY <2>2, <2>3
<1> QED BY <1>1, <1>6, <1>7, <1>8, <1>9, <1>10, <1>11 DEF SerialInv

\* The worker writes the record: nothing new at the start, the outcome at the end.
LEMMA SerialWorkerPut ==
    ASSUME Serialised, SerialInv, TypeInv', Put(Worker)
    PROVE  SerialInv' /\ RecordsForward
<1> DEFINE w == thread[Worker]
           r == w.run
           s == [w.loc EXCEPT !.status = QueueStatusForRun(w.to)]
<1>1. /\ At(Worker, "put") /\ run' = run /\ starts' = starts /\ heard' = heard
      /\ refused' = refused /\ up' = up /\ crashes' = crashes /\ proc' = proc
      /\ Free(Worker) /\ rec' = [rec EXCEPT ![r] = s]
  BY DEF Put, history
<1>2. /\ Worker \in Threads /\ r \in Runs /\ r # None /\ up = "up" /\ w.todo # <<>>
      /\ Head(w.todo) = "put" /\ rec \in [Runs -> Records \cup {Absent}]
  BY <1>1, WorkerPlace DEF SerialInv, TypeInv, StoreType
<1>3. BeforeStart(w) \/ Ending(w)
  <2>1. "put" \notin LoopLabels \cup {"final"}
    BY DEF LoopLabels, LoopEnds
  <2> QED BY <1>1, <2>1, WorkerPlace, WorkerLabels
<1>4. w.loc = rec[r]
  BY <1>2 DEF SerialInv, HoldInv, HoldAt, Held
<1>5. rec[r].status = "running" /\ rec[r] \in Records
  <2>1. Ending(w) => Len(w.todo) = 3
    BY <1>2, FinishTail DEF Ending
  <2>2. ~(3 < 3)
    OBVIOUS
  <2>3. rec[r].status = "running"
    BY <1>3, <2>1, <2>2 DEF BeforeStart, Ending
  <2> QED BY <1>2, <2>3 DEF Absent
<1>6. s.status = QueueStatusForRun(w.to) /\ s.stop = rec[r].stop
  BY <1>4, <1>5 DEF Records
<1> HIDE DEF s
<1>7. /\ rec'[r] = s /\ \A q \in Runs : q # r => rec'[q] = rec[q]
  BY <1>1, <1>2
<1>8. /\ Alone(Worker) /\ HoldAt(thread[Worker])' /\ thread'[Worker].todo = Tail(w.todo)
      /\ thread'[Worker].run = r /\ thread'[Worker].to = w.to
  BY <1>1, <1>2, StepDrops DEF Put
<1>9. /\ QueueStatusForRun(w.to) \in QTerminal \cup {"running"}
      /\ QueueStatusForRun(w.to) # "running" => Ending(w)
  BY <1>3 DEF QueueStatusForRun, BeforeStart, Ending, RTerminal, QTerminal
<1>10. \A q \in Runs : Forward(q)
  BY <1>5, <1>6, <1>7, <1>9 DEF Forward
<1>11. RecordsForward
  BY <1>1, <1>2, <1>7, <1>10 DEF RecordsForward
<1>12. HoldInv'
  BY <1>1, <1>2, <1>8, HoldKept DEF SerialInv
<1>13. CallerInv' /\ \A c \in Callers : thread'[c] = thread[c]
  <2>1. \A q \in Runs : rec[q].status = "absent" => rec'[q] = rec[q]
    BY <1>5, <1>7
  <2> QED BY <1>1, <1>2, <1>8, <1>10, <2>1, CallersKept
<1>14. WorkerInv'
  <2>1. CASE BeforeStart(w)
    <3>1. Starting(Tail(w.todo))
      BY <1>2, <2>1, EndsInTail DEF BeforeStart, Starting
    <3>2. QueueStatusForRun(w.to) = "running"
      BY <2>1 DEF BeforeStart, QueueStatusForRun
    <3>3. BeforeStart(thread[Worker])'
      BY <1>1, <1>6, <1>7, <1>8, <2>1, <3>1, <3>2 DEF BeforeStart
    <3> QED BY <1>2, <1>8, <3>3 DEF WorkerInv, WorkerAt
  <2>2. CASE Ending(w)
    <3>1. /\ Finishing(Tail(w.todo)) /\ Len(Tail(w.todo)) = Len(w.todo) - 1
          /\ Len(w.todo) = 3
      BY <1>2, <2>2, FinishTail DEF Ending
    <3>2. Len(Tail(w.todo)) = 2 /\ 3 < 5 /\ 2 < 5 /\ 2 < 3
      BY <3>1
    <3>3. run[r] = w.to /\ w.to \in RTerminal /\ proc[r] # "live" /\ (r \in heard => w.to = "cancelled")
      BY <2>2, <3>1, <3>2 DEF Ending
    <3>4. rec'[r].status = QueueStatusForRun(w.to)
      BY <1>6, <1>7
    <3>5. Ending(thread[Worker])'
      BY <1>1, <1>8, <3>1, <3>2, <3>3, <3>4 DEF Ending
    <3> QED BY <1>2, <1>8, <3>5 DEF WorkerInv, WorkerAt
  <2> QED BY <1>3, <2>1, <2>2
<1>15. SlotInv'
  <2>1. \A q \in Runs : rec'[q].status = "running" => rec[q].status = "running"
    BY <1>5, <1>7
  <2> QED BY <1>1, <1>2, <1>8, <2>1 DEF SerialInv, SlotInv
<1>16. Ending(w) => run[r] = w.to /\ w.to \in RTerminal
  <2>1. Ending(w) => Len(w.todo) = 3
    BY <1>2, FinishTail DEF Ending
  <2>2. 3 < 5
    OBVIOUS
  <2> QED BY <2>1, <2>2 DEF Ending
<1>17. RunInv'
  <2>1. ASSUME NEW q \in Runs PROVE RunFacts(q)'
    <3>1. CASE q = r
      <4>1. RunFacts(r)
        BY <1>2 DEF SerialInv, RunInv
      <4>2. r \notin refused
        BY <1>5, <4>1 DEF RunFacts, NeverRuns
      <4>3. /\ QueueStatusForRun(w.to) = "done" => run[r] = "success"
            /\ QueueStatusForRun(w.to) = "error" => run[r] = "failed"
            /\ QueueStatusForRun(w.to) \notin {"absent", "pending", "paused"}
        BY <1>9, <1>16 DEF QueueStatusForRun, RTerminal, QTerminal
      <4> QED BY <1>1, <1>6, <1>7, <3>1, <4>1, <4>2, <4>3 DEF RunFacts
    <3>2. CASE q # r
      BY <1>1, <1>7, <3>2 DEF SerialInv, RunInv, RunFacts, NeverRuns
    <3> QED BY <3>1, <3>2
  <2>2. ASSUME crashes = 0, NEW q \in Runs PROVE Attended(q)'
    <3>1. CASE q = r
      <4>1. QueueStatusForRun(w.to) = "cancelled" => run[r] = "cancelled"
        BY <1>9, <1>16 DEF QueueStatusForRun, RTerminal
      <4>2. QueueStatusForRun(w.to) # "absent"
        BY <1>9 DEF QTerminal
      <4> QED BY <1>1, <1>6, <1>7, <3>1, <4>1, <4>2 DEF Attended
    <3>2. CASE q # r
      BY <1>1, <1>7, <1>13, <2>2, <3>2 DEF SerialInv, RunInv, Attended
    <3> QED BY <3>1, <3>2
  <2> QED BY <1>1, <2>1, <2>2 DEF RunInv
<1>18. StopHonoured'
  BY <1>1 DEF SerialInv, StopHonoured
<1> QED BY <1>11, <1>12, <1>13, <1>14, <1>15, <1>17, <1>18 DEF SerialInv

-----------------------------------------------------------------------------
(***************************************************************************)
(* Processes, crashes and starts                                           *)
(***************************************************************************)

\* A subprocess ends.
LEMMA SerialExit ==
    ASSUME SerialInv, TypeInv', NEW r \in Runs, ProcessExit(r)
    PROVE  SerialInv' /\ rec' = rec
<1>1. /\ rec' = rec /\ run' = run /\ starts' = starts /\ heard' = heard /\ thread' = thread
      /\ refused' = refused /\ up' = up /\ crashes' = crashes
  BY DEF ProcessExit, history
<1>2. \A q \in Runs : proc'[q] # proc[q] => proc[q] = "live" /\ proc'[q] # "live"
  BY DEF ProcessExit, SerialInv, TypeInv, StoreType
<1>3. HoldInv' /\ CallerInv' /\ SlotInv' /\ StopHonoured'
  BY <1>1 DEF SerialInv, HoldInv, HoldAt, CallerInv, CallerAt, NeverRuns, SlotInv, StopHonoured
<1>4. WorkerInv'
  BY <1>1, <1>2, WorkerKept
<1>5. RunInv'
  <2>1. ASSUME NEW q \in Runs PROVE RunFacts(q)'
    BY <1>1, <1>2 DEF SerialInv, RunInv, RunFacts, NeverRuns
  <2> QED BY <1>1, <2>1 DEF SerialInv, RunInv, Attended
<1> QED BY <1>1, <1>3, <1>4, <1>5 DEF SerialInv

\* Threads that do nothing rely on nothing.
LEMMA IdleInv ==
    ASSUME \A t \in Threads : thread'[t] = Idle
    PROVE  HoldInv' /\ CallerInv' /\ WorkerInv'
<1>1. Idle.todo = <<>> /\ Idle.run = None /\ Worker \in Threads /\ \A c \in Callers : c \in Threads
  BY DEF Idle, Threads
<1>2. HoldInv'
  BY <1>1 DEF HoldInv, HoldAt, Paired
<1>3. CallerInv'
  <2>1. <<>> # <<"create">>
    OBVIOUS
  <2> QED BY <1>1, <2>1 DEF CallerInv, CallerAt, Creates
<1>4. WorkerInv'
  BY <1>1 DEF WorkerInv, WorkerAt
<1> QED BY <1>2, <1>3, <1>4

\* The API process dies, with every thread.
LEMMA SerialCrash ==
    ASSUME SerialInv, TypeInv', Crash
    PROVE  SerialInv' /\ rec' = rec
<1>1. /\ rec' = rec /\ run' = run /\ starts' = starts /\ heard' = heard /\ proc' = proc
      /\ refused' = refused /\ up' = "down" /\ crashes' = crashes + 1 /\ crashes \in Nat
      /\ \A t \in Threads : thread'[t] = Idle
  BY CrashesIsNat DEF Crash, history, SerialInv, TypeInv, StoreType
<1>2. crashes' > 0 /\ crashes' # 0
  BY <1>1
<1>3. HoldInv' /\ CallerInv' /\ WorkerInv'
  BY <1>1, IdleInv
<1>4. SlotInv' /\ StopHonoured'
  BY <1>1, <1>2 DEF SerialInv, SlotInv, StopHonoured
<1>5. RunInv'
  BY <1>1, <1>2 DEF SerialInv, RunInv, RunFacts, NeverRuns
<1> QED BY <1>1, <1>3, <1>4, <1>5 DEF SerialInv

\* The API process starts and reconciles what it finds.
LEMMA SerialStart ==
    ASSUME SerialInv, TypeInv', StartStep
    PROVE  SerialInv' /\ RecordsForward
<1>1. /\ starts' = starts /\ heard' = heard /\ proc' = proc /\ thread' = thread
      /\ refused' = refused /\ crashes' = crashes /\ up # "up" /\ crashes \in Nat
      /\ \A t \in Threads : thread[t] = Idle
  BY DEF StartStep, Restart, StartWorker, ReconcileRun, ReconcileRecord, history,
     SerialInv, SlotInv, TypeInv, StoreType
<1>2. HoldInv' /\ CallerInv' /\ WorkerInv'
  BY <1>1, IdleInv
<1>3. /\ rec \in [Runs -> Records \cup {Absent}]
      /\ run \in [Runs -> RStatus \cup {"absent"}] /\ heard \subseteq Runs
  BY DEF SerialInv, TypeInv, StoreType
<1>4. CASE Restart \/ StartWorker
  <2>1. rec' = rec /\ run' = run
    BY <1>4 DEF Restart, StartWorker
  <2>2. up' = "up" => \A r \in Runs : rec[r].status # "running"
    BY <1>4 DEF Restart, StartWorker
  <2>3. SlotInv' /\ StopHonoured' /\ RunInv'
    BY <1>1, <2>1, <2>2 DEF SerialInv, SlotInv, StopHonoured, RunInv, RunFacts, NeverRuns, Attended
  <2> QED BY <1>2, <2>1, <2>3 DEF SerialInv, RecordsForward
<1>5. ASSUME NEW r \in Runs, ReconcileRun(r) PROVE SerialInv' /\ RecordsForward
  <2>1. /\ rec' = rec /\ up' = up /\ run'[r] = "failed" /\ rec[r].status = "running"
        /\ \A q \in Runs : q # r => run'[q] = run[q]
    BY <1>3, <1>5 DEF ReconcileRun
  <2>2. crashes # 0 /\ crashes > 0
    BY <1>1, <2>1 DEF SerialInv, SlotInv
  <2>3. SlotInv'
    BY <1>1, <2>1 DEF SerialInv, SlotInv
  <2>4. StopHonoured'
    BY <1>1, <1>3, <2>1, <2>2 DEF SerialInv, StopHonoured
  <2>5. ASSUME NEW q \in Runs PROVE RunFacts(q)'
    BY <1>1, <2>1 DEF SerialInv, RunInv, RunFacts, NeverRuns
  <2>6. RunInv'
    BY <1>1, <2>2, <2>5 DEF RunInv
  <2> QED BY <1>2, <2>1, <2>3, <2>4, <2>6 DEF SerialInv, RecordsForward
<1>6. ASSUME NEW r \in Runs, ReconcileRecord(r) PROVE SerialInv' /\ RecordsForward
  <2> DEFINE s == [rec[r] EXCEPT !.status = QueueStatusForRun(run[r])]
  <2>1. /\ run' = run /\ up' = up /\ rec[r].status = "running" /\ run[r] \in RTerminal
        /\ rec[r] \in Records /\ rec' = [rec EXCEPT ![r] = s]
    BY <1>3, <1>6 DEF ReconcileRecord, Absent
  <2>2. s.status = QueueStatusForRun(run[r]) /\ s.stop = rec[r].stop
    BY <2>1 DEF Records
  <2> HIDE DEF s
  <2>3. rec'[r] = s /\ \A q \in Runs : q # r => rec'[q] = rec[q]
    BY <1>3, <2>1
  <2>4. /\ s.status \in QTerminal
        /\ s.status = "done" => run[r] = "success"
        /\ s.status = "error" => run[r] = "failed"
    BY <2>1, <2>2 DEF QueueStatusForRun, RTerminal, QTerminal
  <2>5. RecordsForward
    BY <2>1, <2>2, <2>3, <2>4 DEF RecordsForward, Forward
  <2>6. crashes # 0
    BY <1>1, <2>1 DEF SerialInv, SlotInv
  <2>7. SlotInv'
    BY <1>1, <2>1, <2>3, <2>4, <2>6 DEF SerialInv, SlotInv, QTerminal
  <2>8. StopHonoured'
    BY <1>1, <2>1 DEF SerialInv, StopHonoured
  <2>9. ASSUME NEW q \in Runs PROVE RunFacts(q)'
    <3>1. CASE q = r
      <4>1. RunFacts(r)
        BY DEF SerialInv, RunInv
      <4>2. r \notin refused
        BY <2>1, <4>1 DEF RunFacts, NeverRuns
      <4> QED BY <1>1, <2>1, <2>2, <2>3, <2>4, <3>1, <4>1, <4>2 DEF RunFacts, QTerminal
    <3>2. CASE q # r
      BY <1>1, <2>1, <2>3, <3>2 DEF SerialInv, RunInv, RunFacts, NeverRuns
    <3> QED BY <3>1, <3>2
  <2>10. RunInv'
    BY <1>1, <2>6, <2>9 DEF RunInv
  <2> QED BY <1>2, <2>5, <2>7, <2>8, <2>10 DEF SerialInv
<1> QED BY <1>4, <1>5, <1>6 DEF StartStep

-----------------------------------------------------------------------------
(***************************************************************************)
(* The theorems of the serialised queue                                    *)
(***************************************************************************)

\* Nothing is running and nobody does anything when the queue is first started.
LEMMA SerialInit == Init => SerialInv
<1> SUFFICES ASSUME Init PROVE SerialInv
  OBVIOUS
<1>1. Idle.todo = <<>> /\ Idle.run = None /\ Worker \in Threads /\ \A c \in Callers : c \in Threads
  BY DEF Idle, Threads
<1>2. TypeInv
  BY QueueInitTypes
<1>3. HoldInv
  BY <1>1 DEF Init, HoldInv, HoldAt, Paired
<1>4. CallerInv
  <2>1. <<>> # <<"create">>
    OBVIOUS
  <2> QED BY <1>1, <2>1 DEF Init, CallerInv, CallerAt, Creates
<1>5. WorkerInv
  BY <1>1 DEF Init, WorkerInv, WorkerAt
<1>6. SlotInv /\ RunInv /\ StopHonoured
  BY DEF Init, SlotInv, RunInv, RunFacts, Attended, NeverRuns, StopHonoured, Absent
<1> QED BY <1>2, <1>3, <1>4, <1>5, <1>6 DEF SerialInv

\* Every step of the serialised queue keeps the invariant and moves records forward.
LEMMA SerialStep ==
    ASSUME Serialised, SerialInv, [Next]_vars
    PROVE  SerialInv' /\ RecordsForward
<1>0. TypeInv'
  BY QueueStepTypes DEF SerialInv
<1>1. CASE UNCHANGED vars
  <2>1. /\ rec' = rec /\ run' = run /\ starts' = starts /\ heard' = heard /\ thread' = thread
        /\ refused' = refused /\ up' = up /\ crashes' = crashes /\ proc' = proc
    BY <1>1 DEF vars, history
  <2>2. HoldInv' /\ CallerInv' /\ SlotInv' /\ StopHonoured'
    BY <2>1 DEF SerialInv, HoldInv, HoldAt, CallerInv, CallerAt, NeverRuns, SlotInv, StopHonoured
  <2>3. WorkerInv'
    BY <2>1, WorkerKept
  <2>4. RunInv'
    BY <2>1 DEF SerialInv, RunInv, RunFacts, NeverRuns, Attended
  <2> QED BY <1>0, <2>1, <2>2, <2>3, <2>4 DEF SerialInv, RecordsForward
<1>2. ASSUME NEW c \in Callers, CallerStep(c) PROVE SerialInv' /\ RecordsForward
  <2>1. CASE ManagerStep(c)
    BY <1>0, <2>1, CallerManager, CallerSetRun DEF ManagerStep, RecordsForward
  <2>2. CASE CreateRecord(c)
    BY <1>0, <2>2, SerialCreate
  <2>3. CASE StopLoad(c)
    BY <1>0, <2>3, SerialStopRead DEF RecordsForward
  <2>4. CASE StopWrite(c)
    BY <1>0, <2>4, SerialStopWrite
  <2>5. CASE StopMark(c)
    BY <1>0, <2>5, SerialStopMark DEF RecordsForward
  <2>6. CASE StopSignal(c)
    BY <1>0, <2>6, SerialSignal DEF RecordsForward
  <2> QED BY <1>2, <2>1, <2>2, <2>3, <2>4, <2>5, <2>6 DEF CallerStep
<1>3. ASSUME NEW c \in Callers, NEW r \in Runs, Enqueue(c, r) \/ ControlStop(c, r)
      PROVE  SerialInv' /\ RecordsForward
  BY <1>0, <1>3, SerialEnqueue, SerialStopRead DEF RecordsForward
<1>4. CASE WorkerStep
  <2>1. CASE Load(Worker) \/ Save(Worker) \/ Terminate \/ Kill \/ Expire
    BY <1>0, <2>1, SerialWorkerTail DEF RecordsForward
  <2>2. CASE Poll \/ CheckStop \/ DeadlinePassed \/ DeadlineAhead \/ Exited
    BY <1>0, <2>2, SerialLoop DEF RecordsForward
  <2>3. CASE Final
    BY <1>0, <2>3, SerialFinal DEF RecordsForward
  <2>4. CASE Finally
    BY <1>0, <2>4, SerialFinally DEF RecordsForward
  <2>5. CASE Spawn
    BY <1>0, <2>5, SerialSpawn DEF RecordsForward
  <2>6. CASE SetRun(Worker)
    BY <1>0, <2>6, SerialWorkerSetRun DEF RecordsForward
  <2>7. CASE ClaimNext
    BY <1>0, <2>7, SerialClaim
  <2>8. CASE Put(Worker)
    BY <1>0, <2>8, SerialWorkerPut
  <2> QED BY <1>4, <2>1, <2>2, <2>3, <2>4, <2>5, <2>6, <2>7, <2>8 DEF WorkerStep, ManagerStep
<1>5. ASSUME NEW r \in Runs, ProcessExit(r) PROVE SerialInv' /\ RecordsForward
  BY <1>0, <1>5, SerialExit DEF RecordsForward
<1>6. CASE Crash
  BY <1>0, <1>6, SerialCrash DEF RecordsForward
<1>7. CASE StartStep
  BY <1>0, <1>7, SerialStart
<1> QED BY <1>1, <1>2, <1>3, <1>4, <1>5, <1>6, <1>7 DEF Next

\* With load-save pairs that do not interleave, a run is executed at most once and not
\* at all once its log says "Task cancelled before execution": for every number of
\* runs, request threads and crashes.
THEOREM QueueExecutedAsReported == Serialised /\ Spec => []ExecutedAsReported
<1>1. SerialInv => ExecutedAsReported
  BY DEF SerialInv, RunInv, RunFacts, NeverRuns, ExecutedAsReported, StartedOnce,
     CancelledNeverRan, TypeInv, StoreType
<1>2. CASE Serialised
  <2>1. SerialInv /\ [Next]_vars => SerialInv'
    BY <1>2, SerialStep
  <2> QED BY <1>1, <2>1, SerialInit, PTL DEF Spec
<1> QED BY <1>2

\* A stop accepted while the process was live can be lost in one way only: if no thread
\* steps between another's load and save, it ends in "cancelled", or in "failed" when a
\* crash came between.  store.py does not keep threads out of that gap.
THEOREM QueueStopHonoured == Serialised /\ Spec => []StopHonoured
<1>1. SerialInv => StopHonoured
  BY DEF SerialInv
<1>2. CASE Serialised
  <2>1. SerialInv /\ [Next]_vars => SerialInv'
    BY <1>2, SerialStep
  <2> QED BY <1>1, <2>1, SerialInit, PTL DEF Spec
<1> QED BY <1>2

\* With load-save pairs that do not interleave, and until the first crash, the run store
\* and the queue agree on every run that no thread is working on.
THEOREM QueueStoresAgree == Serialised /\ Spec => []StoresAgree
<1>1. ASSUME SerialInv, crashes = 0, NEW r \in Runs, Settled(r), run[r] # "absent"
      PROVE  rec[r].status = QueueStatusForRun(run[r])
  <2>1. RunFacts(r) /\ Attended(r)
    BY <1>1 DEF SerialInv, RunInv
  <2>2. /\ \A c \in Callers : ~Creates(thread[c], r) /\ ~Cancels(thread[c], r)
        /\ thread[Worker].run # r
    BY <1>1 DEF Settled, Threads, Creates, Cancels
  <2>3. rec[r].status \notin {"absent", "running"}
    BY <1>1, <2>1, <2>2 DEF Attended, SerialInv, SlotInv
  <2>4. rec[r].status \in {"pending", "done", "error", "cancelled"}
    <3>1. rec[r] \in Records
      BY <1>1, <2>3 DEF SerialInv, TypeInv, StoreType, Absent
    <3> QED BY <2>1, <2>3, <3>1 DEF Records, QStatus, RunFacts
  <2> QED BY <1>1, <2>1, <2>2, <2>4 DEF RunFacts, Attended, QueueStatusForRun
<1>2. SerialInv => StoresAgree
  BY <1>1 DEF StoresAgree
<1>3. CASE Serialised
  <2>1. SerialInv /\ [Next]_vars => SerialInv'
    BY <1>3, SerialStep
  <2> QED BY <1>2, <2>1, SerialInit, PTL DEF Spec
<1> QED BY <1>3

\* The slot is taken by the one running record.
LEMMA RunningRunIs ==
    ASSUME SerialInv
    PROVE  /\ \A r \in Runs : rec[r].status = "running" => RunningRun = r
           /\ (\A r \in Runs : rec[r].status # "running") => RunningRun = None
<1>1. ASSUME NEW r \in Runs, rec[r].status = "running" PROVE RunningRun = r
  <2>1. {q \in Runs : rec[q].status = "running"} = {r}
    BY <1>1 DEF SerialInv, SlotInv
  <2> QED BY <2>1 DEF RunningRun
<1>2. ASSUME \A r \in Runs : rec[r].status # "running" PROVE RunningRun = None
  <2>1. {q \in Runs : rec[q].status = "running"} = {}
    BY <1>2
  <2> QED BY <2>1 DEF RunningRun
<1> QED BY <1>1, <1>2

\* The same of the next state.
LEMMA RunningRunWillBe ==
    ASSUME SerialInv'
    PROVE  /\ \A r \in Runs : rec'[r].status = "running" => RunningRun' = r
           /\ (\A r \in Runs : rec'[r].status # "running") => RunningRun' = None
<1>1. ASSUME NEW r \in Runs, rec'[r].status = "running" PROVE RunningRun' = r
  <2>1. {q \in Runs : rec'[q].status = "running"} = {r}
    BY <1>1 DEF SerialInv, SlotInv
  <2> QED BY <2>1 DEF RunningRun
<1>2. ASSUME \A r \in Runs : rec'[r].status # "running" PROVE RunningRun' = None
  <2>1. {q \in Runs : rec'[q].status = "running"} = {}
    BY <1>2
  <2> QED BY <2>1 DEF RunningRun
<1> QED BY <1>1, <1>2

\* The serialised queue implements the one execution slot: every step of the threads,
\* of a crash or of the reconciliation leaves the records alone, submits a run, gives
\* it the free slot, withdraws it while it is pending, or ends it and frees the slot.
THEOREM QueueImplementsSlot == Serialised /\ Spec => ImplementsQueueSlot
<1> DEFINE status == [r \in Runs |-> rec[r].status]
<1>1. Init => Slot!Init
  <2> SUFFICES ASSUME Init PROVE Slot!Init
    OBVIOUS
  <2>1. \A r \in Runs : rec[r].status = "absent"
    BY DEF Init, Absent
  <2>2. RunningRun = None
    BY <2>1, SerialInit, RunningRunIs
  <2> QED BY <2>1, <2>2 DEF Slot!Init
<1>2. ASSUME Serialised, SerialInv, [Next]_vars PROVE [Slot!Next]_<<status, RunningRun>>
  <2>1. SerialInv' /\ RecordsForward
    BY <1>2, SerialStep
  <2>2. CASE rec' = rec
    BY <2>2 DEF RunningRun
  <2>3. ASSUME NEW r \in Runs, Forward(r), rec' = [rec EXCEPT ![r] = rec'[r]]
        PROVE  [Slot!Next]_<<status, RunningRun>>
    <3>1. status' = [status EXCEPT ![r] = rec'[r].status] /\ status[r] = rec[r].status
          /\ \A q \in Runs : q # r => rec'[q] = rec[q]
      BY <1>2, <2>3 DEF SerialInv, TypeInv, StoreType
    <3>2. CASE rec'[r] = rec[r]
      <4>1. rec' = rec
        BY <1>2, <2>3, <3>2 DEF SerialInv, TypeInv, StoreType
      <4> QED BY <2>2, <4>1
    <3>3. CASE rec[r].status = "absent" /\ rec'[r].status = "pending"
      <4>1. RunningRun' = RunningRun
        <5>1. \A q \in Runs : rec'[q].status = "running" <=> rec[q].status = "running"
          BY <3>1, <3>3
        <5> QED BY <1>2, <2>1, <5>1, RunningRunIs, RunningRunWillBe
      <4>2. Slot!Submit(r)
        BY <3>1, <3>3, <4>1 DEF Slot!Submit
      <4> QED BY <4>2 DEF Slot!Next
    <3>4. CASE rec[r].status = "pending" /\ rec'[r].status = "cancelled"
      <4>1. RunningRun' = RunningRun
        <5>1. \A q \in Runs : rec'[q].status = "running" <=> rec[q].status = "running"
          BY <3>1, <3>4
        <5> QED BY <1>2, <2>1, <5>1, RunningRunIs, RunningRunWillBe
      <4>2. Slot!Withdraw(r)
        BY <3>1, <3>4, <4>1 DEF Slot!Withdraw
      <4> QED BY <4>2 DEF Slot!Next
    <3>5. CASE /\ rec[r].status = "pending" /\ rec'[r].status = "running"
               /\ \A q \in Runs : rec[q].status # "running"
      <4>1. RunningRun = None /\ RunningRun' = r
        BY <1>2, <2>1, <3>5, RunningRunIs, RunningRunWillBe
      <4>2. Slot!Take(r)
        BY <3>1, <3>5, <4>1 DEF Slot!Take
      <4> QED BY <4>2 DEF Slot!Next
    <3>6. CASE rec[r].status = "running" /\ rec'[r].status = "running"
      <4>1. RunningRun = r /\ RunningRun' = r
        BY <1>2, <2>1, <3>6, RunningRunIs, RunningRunWillBe
      <4>2. status' = status
        BY <3>1, <3>6
      <4> QED BY <4>1, <4>2
    <3>7. CASE rec[r].status = "running" /\ rec'[r].status \in QTerminal
      <4>1. RunningRun = r
        BY <1>2, <3>7, RunningRunIs
      <4>2. \A q \in Runs : rec'[q].status # "running"
        BY <1>2, <3>1, <3>7 DEF SerialInv, SlotInv, QTerminal
      <4>3. RunningRun' = None
        BY <2>1, <4>2, RunningRunWillBe
      <4>4. PICK end \in Slot!Over : rec'[r].status = end
        BY <3>7 DEF QTerminal, Slot!Over
      <4>5. Slot!Release(r, end)
        BY <3>1, <4>1, <4>3, <4>4 DEF Slot!Release
      <4> QED BY <4>4, <4>5 DEF Slot!Next
    <3> QED BY <2>3, <3>2, <3>3, <3>4, <3>5, <3>6, <3>7 DEF Forward
  <2> QED BY <2>1, <2>2, <2>3 DEF RecordsForward
<1>3. CASE Serialised
  <2>1. SerialInv /\ [Next]_vars => SerialInv'
    BY <1>3, SerialStep
  <2>2. SerialInv /\ [Next]_vars => [Slot!Next]_<<status, RunningRun>>
    BY <1>2, <1>3
  <2> QED BY <1>1, <2>1, <2>2, SerialInit, PTL DEF Spec, ImplementsQueueSlot, Slot!Spec
<1> QED BY <1>3
=============================================================================
