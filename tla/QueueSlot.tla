----------------------------- MODULE QueueSlot -----------------------------
(***************************************************************************)
(* What the run queue promises, without threads, files or processes: every *)
(* run is submitted once, moves only forward, and there is one execution   *)
(* slot, which a run takes when it starts and gives back when it is over.  *)
(***************************************************************************)
CONSTANTS Runs, None
VARIABLES status,  \* of each run: absent, pending, running or how it ended
          slot     \* the run being executed

Over == {"done", "error", "cancelled"}

Init == status = [r \in Runs |-> "absent"] /\ slot = None

Submit(r) ==
    /\ status[r] = "absent"
    /\ status' = [status EXCEPT ![r] = "pending"]
    /\ UNCHANGED slot

Take(r) ==
    /\ slot = None /\ status[r] = "pending"
    /\ status' = [status EXCEPT ![r] = "running"]
    /\ slot' = r

Withdraw(r) ==
    /\ status[r] = "pending"
    /\ status' = [status EXCEPT ![r] = "cancelled"]
    /\ UNCHANGED slot

Release(r, end) ==
    /\ slot = r
    /\ status' = [status EXCEPT ![r] = end]
    /\ slot' = None

Next ==
    \E r \in Runs :
      \/ Submit(r) \/ Take(r) \/ Withdraw(r)
      \/ \E end \in Over : Release(r, end)

Spec == Init /\ [][Next]_<<status, slot>>
=============================================================================
