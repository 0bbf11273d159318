------------------------------ MODULE Campaign ------------------------------
(***************************************************************************)
(* The campaign loop (campaign_loop.py): a plan of slices, each dispatched *)
(* as one handoff, and continued only on that handoff's recorded result.   *)
(* advance_campaign holds a file lock, so there is one driver at a time;   *)
(* it dies anywhere, and the next one starts from the saved campaign.      *)
(*                                                                         *)
(* A bound campaign journals every dispatch and resumes an interrupted     *)
(* one; an unbound campaign stops at it.  The proposer is                  *)
(* next_hermes_decoupling_slice, which follows the plan; the callbacks     *)
(* that prepare and dispatch a slice and measure its progress may fail.    *)
(***************************************************************************)
EXTENDS Handoff, Sequences

CONSTANTS Plan,           \* the handoff of every slice
          MaxNoProgress   \* authority.max_no_progress

ASSUME PlanIsInjective ==
    /\ Plan \in Seq(Handoffs)
    /\ \A i, j \in DOMAIN Plan : Plan[i] = Plan[j] => i = j
ASSUME MaxNoProgressIsNat == MaxNoProgress \in Nat

VARIABLES saved,   \* the campaign file
          driver,  \* whoever holds the campaign's lock, and its copy of the campaign
          calls    \* history: how often each slice was handed to its dispatcher

campaignVars == <<saved, driver, calls>>
vars == <<handoffVars, campaignVars>>

-----------------------------------------------------------------------------
(* Records *)

Terminal == {"DONE", "BLOCKED", "ESCALATION_REQUIRED"}
Slices == DOMAIN Plan

\* slice: the current one, or 0; done: completed_slices; stale: no_progress_count;
\* seen: progress_fingerprints is not empty.
NewCampaign(bound) ==
    [status |-> "CONTINUE", bound |-> bound, slice |-> 0, done |-> <<>>, stale |-> 0, seen |-> FALSE,
     journal |-> [s \in Slices |-> [state |-> "NOT_DISPATCHED", decision |-> "none"]]]

NoDriver == [pc |-> "idle", mem |-> NewCampaign(FALSE)]

Init ==
    /\ HandoffInit
    /\ \E bound \in BOOLEAN : saved = NewCampaign(bound)
    /\ driver = NoDriver
    /\ calls = [s \in Slices |-> 0]

D(pc) == driver.pc = pc
Mem == driver.mem
Slice == Mem.slice
Journal == Mem.journal[Slice].state
Current == Plan[Slice]

\* _save, and on with the call, or the call returns.
Save(m, pc) == saved' = m /\ driver' = [pc |-> pc, mem |-> m]
Return(m) == saved' = m /\ driver' = NoDriver
Think(m, pc) == driver' = [pc |-> pc, mem |-> m] /\ UNCHANGED saved

Journalled(m, st) == [m EXCEPT !.journal[m.slice].state = st]

Decision(m) ==
    IF m.journal[m.slice].state \in {"NOT_DISPATCHED", "PREPARE_INTENT", "PREPARED"}
    THEN "BLOCKED_NO_DISPATCH" ELSE "BLOCKED_UNCERTAIN"

\* The except clause: a result that cannot be had blocks the campaign.
Unavailable(m) ==
    IF m.bound THEN [m EXCEPT !.status = "BLOCKED", !.journal[m.slice].decision = Decision(m)]
    ELSE [m EXCEPT !.status = "BLOCKED"]

-----------------------------------------------------------------------------
(* The driver: which slice *)

\* Mutant: a campaign that waits is left alone.
LoadIfRunning ==
    /\ D("idle") /\ saved.status = "CONTINUE"
    /\ Think(saved, "select")
    /\ UNCHANGED <<handoffVars, calls>>

\* advance_campaign takes the lock and reads the campaign.
Load ==
    /\ D("idle") /\ saved.status \notin Terminal
    /\ Think(saved, "select")
    /\ UNCHANGED <<handoffVars, calls>>

\* The plan is through.
PlanDone ==
    /\ D("select") /\ Slice = 0 /\ Len(Mem.done) = Len(Plan)
    /\ Return([Mem EXCEPT !.status = "DONE"])
    /\ UNCHANGED <<handoffVars, calls>>

SelectNext ==
    /\ D("select") /\ Slice = 0 /\ Len(Mem.done) < Len(Plan)
    /\ Save([Mem EXCEPT !.slice = Len(Mem.done) + 1], "dispatch")
    /\ UNCHANGED <<handoffVars, calls>>

\* The slice wants to write and its approval is not, or no longer, what it needs.
SelectBlocked ==
    /\ D("select") /\ Slice = 0 /\ Len(Mem.done) < Len(Plan)
    /\ Return([Mem EXCEPT !.status = "BLOCKED"])
    /\ UNCHANGED <<handoffVars, calls>>

\* A slice is under way: a bound campaign resumes it, an unbound one cannot know.
Resume ==
    /\ D("select") /\ Slice # 0
    /\ IF Mem.bound THEN Think(Mem, "dispatch") ELSE Return([Mem EXCEPT !.status = "BLOCKED"])
    /\ UNCHANGED <<handoffVars, calls>>

-----------------------------------------------------------------------------
(* The driver: dispatch *)

\* dispatch_handoff: the callback prepares and runs a handoff of its own; it may raise
\* after that.
DispatchUnbound ==
    /\ D("dispatch") /\ ~Mem.bound
    /\ packet' = packet \cup {Current}
    /\ calls' = [calls EXCEPT ![Slice] = @ + 1]
    /\ Think(Mem, "status") \/ Return(Unavailable(Mem))
    /\ UNCHANGED <<accepting, claim, state, result, receipt, seal, bundle, proc, ran, again, crashes>>

\* The write approval is read again, or the callback raises.
DispatchBlocked ==
    /\ D("dispatch")
    /\ Mem.bound => Journal \in {"NOT_DISPATCHED", "PREPARE_INTENT", "PREPARED"}
    /\ Return(Unavailable(Mem))
    /\ UNCHANGED <<handoffVars, calls>>

IntendPrepare ==
    /\ D("dispatch") /\ Mem.bound /\ Journal = "NOT_DISPATCHED"
    /\ Save(Journalled(Mem, "PREPARE_INTENT"), "dispatch")
    /\ UNCHANGED <<handoffVars, calls>>

\* prepare_campaign_handoff creates the packet, or finds the same one there.
Prepare ==
    /\ D("dispatch") /\ Mem.bound /\ Journal = "PREPARE_INTENT"
    /\ packet' = packet \cup {Current}
    /\ Think(Mem, "prepared")
    /\ UNCHANGED <<accepting, claim, state, result, receipt, seal, bundle, proc, ran, again, crashes, calls>>

Prepared ==
    /\ D("prepared")
    /\ Save(Journalled(Mem, "PREPARED"), "dispatch")
    /\ UNCHANGED <<handoffVars, calls>>

IntendDispatch ==
    /\ D("dispatch") /\ Mem.bound /\ Journal = "PREPARED"
    /\ Save(Journalled(Mem, "DISPATCH_INTENT"), "call")
    /\ UNCHANGED <<handoffVars, calls>>

\* dispatch_prepared accepts the handoff and answers, or raises before or after that.
Dispatch ==
    /\ D("call")
    /\ calls' = [calls EXCEPT ![Slice] = @ + 1]
    /\ \/ state' = [state EXCEPT ![Current] = IF @ = "none" THEN "accepted" ELSE @]
       \/ UNCHANGED state
    /\ \/ Think(Mem, "answered")
       \/ Return(Unavailable(Mem))
    /\ UNCHANGED <<packet, accepting, claim, result, receipt, seal, bundle, proc, ran, again, crashes>>

Answered ==
    /\ D("answered")
    /\ Save(Journalled(Mem, "ACCEPTED"), "status")
    /\ UNCHANGED <<handoffVars, calls>>

\* Mutant: an intent without an acceptance is dispatched again.
ReconcileReplays ==
    /\ D("dispatch") /\ Mem.bound /\ Journal = "DISPATCH_INTENT"
    /\ Think(Mem, IF StatusRaises(Current) \/ Reported(Current) = "prepared" THEN "call" ELSE "status")
    /\ UNCHANGED <<handoffVars, calls>>

\* A resumed intent: only an authoritative status tells whether the handoff was accepted.
Reconcile ==
    /\ D("dispatch") /\ Mem.bound /\ Journal = "DISPATCH_INTENT"
    /\ IF StatusRaises(Current) \/ Reported(Current) = "prepared" THEN Return(Unavailable(Mem))
       ELSE Save(Journalled(Mem, "ACCEPTED"), "status")
    /\ UNCHANGED <<handoffVars, calls>>

ResumeAccepted ==
    /\ D("dispatch") /\ Mem.bound /\ Journal = "ACCEPTED"
    /\ Think(Mem, "status")
    /\ UNCHANGED <<handoffVars, calls>>

-----------------------------------------------------------------------------
(* The driver: the result *)

\* load_status raises, or there is no result.
NoResult ==
    /\ D("status")
    /\ StatusRaises(Current) \/ result[Current] = "none"
    /\ IF ~StatusRaises(Current) /\ Mem.bound /\ Reported(Current) # "prepared"
       THEN Return([Mem EXCEPT !.status = "WAITING"])
       ELSE Return(Unavailable(Mem))
    /\ UNCHANGED <<handoffVars, calls>>

Decided(m, decision) ==
    IF m.bound THEN [m EXCEPT !.journal[m.slice] = [state |-> "TERMINAL", decision |-> decision]] ELSE m
Stopped == [Decided(Mem, "BLOCKED") EXCEPT !.status = "BLOCKED"]
Continued(stale) ==
    [Decided(Mem, IF Slice < Len(Plan) THEN "CONTINUE" ELSE "DONE") EXCEPT
        !.status = "CONTINUE", !.slice = 0, !.done = Append(@, Slice), !.stale = stale, !.seen = TRUE]

\* Mutant: any recorded result is good enough.
HasResultAnyOutcome == D("status") /\ ~StatusRaises(Current) /\ result[Current] # "none"

HasResult == D("status") /\ ~StatusRaises(Current) /\ result[Current] = "completed"

\* The result is not of the backend, the outcome or the acceptance that is required,
\* or nothing shows progress.
SliceFails ==
    /\ D("status") /\ ~StatusRaises(Current) /\ result[Current] # "none"
    /\ Return(Stopped)
    /\ UNCHANGED <<handoffVars, calls>>

SliceProgresses ==
    /\ HasResult
    /\ Return(Continued(0))
    /\ UNCHANGED <<handoffVars, calls>>

\* Evidence that was seen before.
SliceRepeats ==
    /\ HasResult /\ Mem.seen
    /\ Return(IF Mem.stale + 1 > MaxNoProgress THEN [Stopped EXCEPT !.stale = @ + 1]
              ELSE Continued(Mem.stale + 1))
    /\ UNCHANGED <<handoffVars, calls>>

-----------------------------------------------------------------------------

\* The driver dies; the lock goes with it.
DriverCrash ==
    /\ ~D("idle") /\ crashes < Crashes
    /\ crashes' = crashes + 1
    /\ driver' = NoDriver
    /\ UNCHANGED <<packet, accepting, claim, state, result, receipt, seal, bundle, proc, ran, again, saved, calls>>

Drive ==
    \/ Load \/ PlanDone \/ SelectNext \/ SelectBlocked \/ Resume
    \/ DispatchUnbound \/ DispatchBlocked \/ IntendPrepare \/ Prepare \/ Prepared
    \/ IntendDispatch \/ Dispatch \/ Answered \/ Reconcile \/ ResumeAccepted
    \/ NoResult \/ SliceFails \/ SliceProgresses \/ SliceRepeats

Next ==
    \/ HandoffNext /\ UNCHANGED campaignVars
    \/ Drive
    \/ DriverCrash

Execute(h) == \E p \in Procs : ExecuteLoad(p, h) /\ UNCHANGED campaignVars

\* The operator runs the campaign again while it waits, a process that has started goes
\* on, and somebody executes a dispatched handoff that nobody has claimed.
Fairness ==
    /\ WF_vars(Drive)
    /\ \A p \in Procs : WF_vars(Work(p) /\ UNCHANGED campaignVars)
    /\ \A h \in Handoffs : SF_vars(Execute(h))

Spec == Init /\ [][Next]_vars
FairSpec == Spec /\ Fairness

-----------------------------------------------------------------------------
(* Properties *)

Campaigns == [status : Terminal \cup {"CONTINUE", "WAITING"}, bound : BOOLEAN, slice : 0..Len(Plan),
              done : Seq(Slices), stale : 0..(MaxNoProgress + 1), seen : BOOLEAN,
              journal : [Slices -> [state : {"NOT_DISPATCHED", "PREPARE_INTENT", "PREPARED",
                                             "DISPATCH_INTENT", "ACCEPTED", "TERMINAL"},
                                    decision : {"none", "BLOCKED_NO_DISPATCH", "BLOCKED_UNCERTAIN",
                                                "BLOCKED", "CONTINUE", "DONE"}]]]

\* The files and the driver's copy are well formed, and a driver past its selection has a slice.
TypeOK ==
    /\ HandoffTypeOK
    /\ saved \in Campaigns
    /\ driver.mem \in Campaigns
    /\ driver.pc \in {"idle", "select", "dispatch", "prepared", "call", "answered", "status"}
    /\ driver.pc \in {"dispatch", "prepared", "call", "answered", "status"} => driver.mem.slice # 0
    /\ calls \in [Slices -> Nat]

\* However often the campaign is run again and wherever its driver died, a slice is
\* handed to its dispatcher at most once.
DispatchedOnce == \A s \in Slices : calls[s] <= 1

\* A journal that says nothing was dispatched is right.
NoDispatchIsTrue ==
    \A s \in Slices : saved.journal[s].decision = "BLOCKED_NO_DISPATCH" => calls[s] = 0

\* The journal accounts for the one dispatch of a slice, wherever the driver died.
DispatchJournalled == DispatchedOnce /\ NoDispatchIsTrue

\* The campaign goes through its plan in order, and counts a slice only on a completed
\* result that its one execution recorded, after at most one repeated call of the runner;
\* DONE is the whole plan.
DoneInOrder ==
    /\ \A i \in DOMAIN saved.done :
          /\ saved.done[i] = i
          /\ result[Plan[i]] = "completed" /\ ran[Plan[i]] = 1 /\ again[Plan[i]] <= 1
    /\ saved.status = "DONE" => Len(saved.done) = Len(Plan)

\* A handoff whose executor died before its result was recorded.
Abandoned(h) ==
    /\ h \in claim /\ result[h] = "none"
    /\ \A p \in Procs : proc[p].h = h => proc[p].pc = "claim"

\* A campaign ends, or waits for an execution that died.
Settles ==
    <>[](\/ saved.status \in Terminal
         \/ saved.status = "WAITING" /\ Abandoned(Plan[saved.slice]))

\* Handoffs, dispatched by a campaign or executed, accepted and finalized by anybody at any
\* time, implement HandoffOutcome: taken once, one outcome, one bundle that states it.
RefinesOutcome == Outcome!Spec

\* What the status of a handoff has once reported is not taken back.
ReportsStand == [][ReportStands]_vars
=============================================================================
