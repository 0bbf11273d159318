--------------------------- MODULE CampaignProofs ---------------------------
(***************************************************************************)
(* Proofs about handoffs and the campaign that dispatches them, for every  *)
(* set of handoffs and processes, every plan and any number of crashes.    *)
(***************************************************************************)
EXTENDS Campaign, TLAPS

-----------------------------------------------------------------------------
(***************************************************************************)
(* The inductive invariant of the handoffs.                                *)
(***************************************************************************)

\* p executes handoff h, or finalizes what it executed.
Executes(p, h) == proc[p].h = h /\ ~proc[p].parent /\ proc[p].pc \notin {"idle", "claim"}

\* p has published the bundle of h and now writes that down.
Publishes(p, h) ==
    /\ proc[p].h = h /\ proc[p].write = "finalized"
    /\ proc[p].pc \in {"truncate", "rewrite", "finish"}

\* p finalizes h, which somebody else executed.
Finalizes(p, h) == proc[p].h = h /\ proc[p].parent /\ proc[p].pc # "idle"

Before == {"queue", "gate", "run", "retry", "result"}
Sealing == {"sealCheck", "sealCopy", "sealWrite", "publish"}
Closing == {"truncate", "rewrite", "finish"}

\* What a process relies on where it stands.
PlacedAt(s) ==
    /\ s.pc # "idle" => s.h \in packet
    /\ s.pc = "claim" => ~s.parent
    /\ s.pc \notin {"idle", "claim"} => s.h \in claim
    /\ s.parent => s.pc \in {"idle"} \cup Sealing \cup Closing
    /\ s.pc \in Before => ~s.parent /\ result[s.h] = "none"
    /\ s.pc \in {"queue", "gate", "run"} => ran[s.h] = 0 /\ again[s.h] = 0
    /\ s.pc = "retry" => ran[s.h] = 1 /\ again[s.h] = 0
    /\ s.pc = "result" => s.outcome \in Outcomes /\ (s.outcome = "completed" => ran[s.h] = 1)
    /\ s.pc \in {"receipt", "status"} \cup Sealing \cup Closing =>
          result[s.h] # "none" /\ result[s.h] = s.outcome
    /\ s.pc \in {"truncate", "rewrite"} =>
          s.write \in {"pending", "unsealed", "finalized"} /\ receipt[s.h] # "finalized"
    /\ s.pc \in Closing /\ s.parent => s.write = "finalized"
    /\ s.pc = "finish" => s.write = "finalized" /\ receipt[s.h] = "finalized"
Placed == \A p \in Procs : PlacedAt(proc[p])

\* A handoff has at most one executor and one publisher; a parent only finalizes what
\* its executor has left.
Alone ==
    /\ \A p, q \in Procs, h \in Handoffs : Executes(p, h) /\ Executes(q, h) => p = q
    /\ \A p, q \in Procs, h \in Handoffs : Publishes(p, h) /\ Publishes(q, h) => p = q
    /\ \A p \in Procs, h \in Handoffs : Publishes(p, h) => bundle[h] # "none"
    /\ \A p \in Procs, h \in Handoffs : Executes(p, h) =>
          /\ receipt[h] # "pending"
          /\ bundle[h] # "none" => Publishes(p, h)
          /\ \A q \in Procs : ~Finalizes(q, h)

\* What the files of one handoff say of each other.
Files ==
    \A h \in Handoffs :
        /\ h \notin claim => result[h] = "none" /\ ran[h] = 0 /\ again[h] = 0
        /\ result[h] = "none" => receipt[h] = "none" /\ bundle[h] = "none" /\ state[h] \notin Outcomes
        /\ result[h] = "completed" => ran[h] = 1
        /\ ran[h] <= 1 /\ again[h] <= ran[h]
        /\ bundle[h] # "none" => bundle[h] = result[h]
        /\ receipt[h] = "finalized" => bundle[h] # "none"
        /\ state[h] = "finalized" => receipt[h] = "finalized"

HandoffInv == HandoffTypeOK /\ Placed /\ Alone /\ Files

-----------------------------------------------------------------------------
(***************************************************************************)
(* The inductive invariant of the campaign.                                *)
(***************************************************************************)

\* The driver never works on anything but what is saved.
DriverHolds ==
    driver.pc # "idle" => driver.mem = saved /\ saved.status \notin Terminal

\* The plan is gone through slice by slice; nothing after the current one was touched.
Progress ==
    /\ Len(saved.done) <= Len(Plan)
    /\ \A i \in 1..Len(saved.done) : saved.done[i] = i
    /\ saved.slice \in {0, Len(saved.done) + 1}
    /\ \A s \in Slices : s > Len(saved.done) /\ s # saved.slice => calls[s] = 0
    /\ saved.status \notin Terminal => saved.stale <= MaxNoProgress

\* The dispatch of a slice and its record.
JournalKept ==
    /\ \A s \in Slices : saved.bound /\ calls[s] # 0 =>
          saved.journal[s].state \in {"DISPATCH_INTENT", "ACCEPTED", "TERMINAL"}
    /\ driver.pc = "call" =>
          saved.bound /\ calls[saved.slice] = 0 /\ saved.journal[saved.slice].state = "DISPATCH_INTENT"
    /\ driver.pc = "dispatch" /\ ~saved.bound => calls[saved.slice] = 0
    /\ driver.pc = "prepared" => calls[saved.slice] = 0
    /\ driver.pc \in {"prepared", "answered"} => saved.bound
    /\ \A s \in Slices : saved.journal[s].decision = "BLOCKED_NO_DISPATCH" =>
          saved.status \in Terminal /\ calls[s] = 0

CampaignInv == TypeOK /\ DriverHolds /\ Progress /\ JournalKept /\ DispatchJournalled /\ DoneInOrder

IInv == HandoffInv /\ CampaignInv

-----------------------------------------------------------------------------
(***************************************************************************)
(* What a step does to the processes.                                      *)
(***************************************************************************)

Process ==
    [pc : Pcs, h : Handoffs \cup {None}, parent : BOOLEAN, defer : BOOLEAN,
     outcome : {"none"} \cup Outcomes, copied : Receipts, write : Receipts]

\* p goes on with the same handoff; nobody else moves.
Moved(p, pc, outcome, write) ==
    /\ proc' \in [Procs -> Process]
    /\ \A q \in Procs : q # p => proc'[q] = proc[q]
    /\ proc'[p].pc = pc /\ proc'[p].outcome = outcome /\ proc'[p].write = write
    /\ proc'[p].h = proc[p].h /\ proc'[p].parent = proc[p].parent

\* p is through.
Left(p) ==
    /\ proc' \in [Procs -> Process]
    /\ \A q \in Procs : q # p => proc'[q] = proc[q]
    /\ proc'[p].pc = "idle" /\ ~proc'[p].parent

\* Go is such a move.
LEMMA GoMoves ==
    ASSUME NEW p \in Procs, NEW pc \in Pcs, proc \in [Procs -> Process], Go(p, pc)
    PROVE  Moved(p, pc, proc[p].outcome, proc[p].write)
BY DEF Go, Moved, Process

\* So is the move of a process that settles which receipt it writes next.
LEMMA WriteMoves ==
    ASSUME NEW p \in Procs, NEW pc \in Pcs, NEW w \in Receipts, proc \in [Procs -> Process],
           proc' = [proc EXCEPT ![p].pc = pc, ![p].write = w]
    PROVE  Moved(p, pc, proc[p].outcome, w)
BY DEF Moved, Process

\* A process that stops has left.
LEMMA StopLeaves ==
    ASSUME NEW p \in Procs, proc \in [Procs -> Process], Stop(p)
    PROVE  Left(p)
<1>1. Idle \in Process
  BY DEF Idle, Process, Pcs, Receipts
<1> QED BY <1>1 DEF Stop, Left, Idle

\* The roles of Alone, under a step that gives nobody a new one.
LEMMA AloneStays ==
    ASSUME Alone, UNCHANGED bundle,
           \A q \in Procs, h \in Handoffs :
               /\ Executes(q, h)' => Executes(q, h) /\ receipt'[h] # "pending"
               /\ Publishes(q, h)' => Publishes(q, h)
               /\ Finalizes(q, h)' => Finalizes(q, h)
               /\ Executes(q, h)' /\ Publishes(q, h) => Publishes(q, h)'
    PROVE  Alone'
BY DEF Alone

\* The claim makes the one executor.
LEMMA ClaimKeeps ==
    ASSUME NEW p \in Procs, HandoffInv, Claim(p)
    PROVE  HandoffInv'
<1>1. proc \in [Procs -> Process]
  BY DEF HandoffInv, HandoffTypeOK, Process
<1>2. \/ proc[p].h \notin claim /\ claim' = claim \cup {proc[p].h} /\ Moved(p, "queue", proc[p].outcome, proc[p].write)
      \/ UNCHANGED claim /\ Left(p)
  BY <1>1, GoMoves, StopLeaves DEF Claim, Pcs
<1> USE <1>1, <1>2 DEF HandoffInv, Moved, Left, Claim, At
<1>3. HandoffTypeOK'
  BY CrashesIsNat DEF HandoffTypeOK, Process, Placed, PlacedAt, Pcs, Outcomes, States,
         Receipts, Before, Sealing, Closing
<1>4. Placed'
  BY DEF Placed, PlacedAt, Files, Outcomes, Before, Sealing, Closing, Process, HandoffTypeOK,
         Alone, Executes, Publishes, Finalizes
<1>5. Alone'
  <2>1. CASE Left(p)
    <3>1. ASSUME NEW q \in Procs, NEW h \in Handoffs
          PROVE  /\ Executes(q, h)' => Executes(q, h) /\ receipt'[h] # "pending"
                 /\ Publishes(q, h)' => Publishes(q, h)
                 /\ Finalizes(q, h)' => Finalizes(q, h)
                 /\ Executes(q, h)' /\ Publishes(q, h) => Publishes(q, h)'
      BY <2>1 DEF Alone, Executes, Publishes, Finalizes
    <3> QED BY <3>1, AloneStays
  <2>2. CASE proc[p].h \notin claim /\ Moved(p, "queue", proc[p].outcome, proc[p].write)
    <3>1. ASSUME NEW q \in Procs
          PROVE  ~Executes(q, proc[p].h) /\ ~Publishes(q, proc[p].h) /\ ~Finalizes(q, proc[p].h)
      BY <2>2 DEF Placed, PlacedAt, Sealing, Closing, Executes, Publishes, Finalizes
    <3>2. receipt[proc[p].h] = "none" /\ bundle[proc[p].h] = "none"
      BY <2>2 DEF Placed, PlacedAt, Files, HandoffTypeOK
    <3>3. ASSUME NEW q \in Procs, NEW h \in Handoffs
          PROVE  /\ Executes(q, h)' => Executes(q, h) \/ (q = p /\ h = proc[p].h)
                 /\ Publishes(q, h)' <=> Publishes(q, h)
                 /\ Finalizes(q, h)' => Finalizes(q, h)
      BY <2>2 DEF Executes, Publishes, Finalizes, Process
    <3> QED BY <3>1, <3>2, <3>3 DEF Alone
  <2> QED BY <2>1, <2>2
<1>6. Files'
  BY DEF Placed, PlacedAt, Files, Outcomes, Before, Sealing, Closing, Process, HandoffTypeOK,
         Alone, Executes, Publishes, Finalizes
<1> QED BY <1>3, <1>4, <1>5, <1>6 DEF HandoffInv

\* The executor queues its handoff.
LEMMA QueueKeeps ==
    ASSUME NEW p \in Procs, HandoffInv, Queue(p)
    PROVE  HandoffInv'
<1>1. proc \in [Procs -> Process]
  BY DEF HandoffInv, HandoffTypeOK, Process
<1>2. Moved(p, "gate", proc[p].outcome, proc[p].write)
  BY <1>1, GoMoves DEF Queue, Pcs
<1> USE <1>1, <1>2 DEF HandoffInv, Moved, Left, Queue, At
<1>3. HandoffTypeOK'
  BY CrashesIsNat DEF HandoffTypeOK, Process, Placed, PlacedAt, Pcs, Outcomes, States,
         Receipts, Before, Sealing, Closing
<1>4. Placed'
  BY DEF Placed, PlacedAt, Files, Outcomes, Before, Sealing, Closing, Process, HandoffTypeOK,
         Alone, Executes, Publishes, Finalizes
<1>5. Alone'
  <2>1. ASSUME NEW q \in Procs, NEW h \in Handoffs
        PROVE  /\ Executes(q, h)' => Executes(q, h) /\ receipt'[h] # "pending"
               /\ Publishes(q, h)' => Publishes(q, h)
               /\ Finalizes(q, h)' => Finalizes(q, h)
               /\ Executes(q, h)' /\ Publishes(q, h) => Publishes(q, h)'
    BY DEF Placed, PlacedAt, Files, Outcomes, Before, Sealing, Closing, Process, HandoffTypeOK,
           Alone, Executes, Publishes, Finalizes
  <2> QED BY <2>1, AloneStays
<1>6. Files'
  BY DEF Placed, PlacedAt, Files, Outcomes, Before, Sealing, Closing, Process, HandoffTypeOK,
         Alone, Executes, Publishes, Finalizes
<1> QED BY <1>3, <1>4, <1>5, <1>6 DEF HandoffInv

\* The bind gate refuses.
LEMMA GateFailsKeeps ==
    ASSUME NEW p \in Procs, HandoffInv, GateFails(p)
    PROVE  HandoffInv'
<1>1. proc \in [Procs -> Process]
  BY DEF HandoffInv, HandoffTypeOK, Process
<1>2. Moved(p, "result", "failed", proc[p].write)
  BY <1>1 DEF GateFails, Moved, Process, Pcs, Outcomes
<1> USE <1>1, <1>2 DEF HandoffInv, Moved, Left, GateFails, At
<1>3. HandoffTypeOK'
  BY CrashesIsNat DEF HandoffTypeOK, Process, Placed, PlacedAt, Pcs, Outcomes, States,
         Receipts, Before, Sealing, Closing
<1>4. Placed'
  BY DEF Placed, PlacedAt, Files, Outcomes, Before, Sealing, Closing, Process, HandoffTypeOK,
         Alone, Executes, Publishes, Finalizes
<1>5. Alone'
  <2>1. ASSUME NEW q \in Procs, NEW h \in Handoffs
        PROVE  /\ Executes(q, h)' => Executes(q, h) /\ receipt'[h] # "pending"
               /\ Publishes(q, h)' => Publishes(q, h)
               /\ Finalizes(q, h)' => Finalizes(q, h)
               /\ Executes(q, h)' /\ Publishes(q, h) => Publishes(q, h)'
    BY DEF Placed, PlacedAt, Files, Outcomes, Before, Sealing, Closing, Process, HandoffTypeOK,
           Alone, Executes, Publishes, Finalizes
  <2> QED BY <2>1, AloneStays
<1>6. Files'
  BY DEF Placed, PlacedAt, Files, Outcomes, Before, Sealing, Closing, Process, HandoffTypeOK,
         Alone, Executes, Publishes, Finalizes
<1> QED BY <1>3, <1>4, <1>5, <1>6 DEF HandoffInv

\* The executor starts.
LEMMA StartKeeps ==
    ASSUME NEW p \in Procs, HandoffInv, Start(p)
    PROVE  HandoffInv'
<1>1. proc \in [Procs -> Process]
  BY DEF HandoffInv, HandoffTypeOK, Process
<1>2. Moved(p, "run", proc[p].outcome, proc[p].write)
  BY <1>1, GoMoves DEF Start, Pcs
<1> USE <1>1, <1>2 DEF HandoffInv, Moved, Left, Start, At
<1>3. HandoffTypeOK'
  BY CrashesIsNat DEF HandoffTypeOK, Process, Placed, PlacedAt, Pcs, Outcomes, States,
         Receipts, Before, Sealing, Closing
<1>4. Placed'
  BY DEF Placed, PlacedAt, Files, Outcomes, Before, Sealing, Closing, Process, HandoffTypeOK,
         Alone, Executes, Publishes, Finalizes
<1>5. Alone'
  <2>1. ASSUME NEW q \in Procs, NEW h \in Handoffs
        PROVE  /\ Executes(q, h)' => Executes(q, h) /\ receipt'[h] # "pending"
               /\ Publishes(q, h)' => Publishes(q, h)
               /\ Finalizes(q, h)' => Finalizes(q, h)
               /\ Executes(q, h)' /\ Publishes(q, h) => Publishes(q, h)'
    BY DEF Placed, PlacedAt, Files, Outcomes, Before, Sealing, Closing, Process, HandoffTypeOK,
           Alone, Executes, Publishes, Finalizes
  <2> QED BY <2>1, AloneStays
<1>6. Files'
  BY DEF Placed, PlacedAt, Files, Outcomes, Before, Sealing, Closing, Process, HandoffTypeOK,
         Alone, Executes, Publishes, Finalizes
<1> QED BY <1>3, <1>4, <1>5, <1>6 DEF HandoffInv

\* No runner can be called.
LEMMA DispatchFailsKeeps ==
    ASSUME NEW p \in Procs, HandoffInv, DispatchFails(p)
    PROVE  HandoffInv'
<1>1. proc \in [Procs -> Process]
  BY DEF HandoffInv, HandoffTypeOK, Process
<1>2. Moved(p, "result", "failed", proc[p].write)
  BY <1>1 DEF DispatchFails, Moved, Process, Pcs, Outcomes
<1> USE <1>1, <1>2 DEF HandoffInv, Moved, Left, DispatchFails, At
<1>3. HandoffTypeOK'
  BY CrashesIsNat DEF HandoffTypeOK, Process, Placed, PlacedAt, Pcs, Outcomes, States,
         Receipts, Before, Sealing, Closing
<1>4. Placed'
  BY DEF Placed, PlacedAt, Files, Outcomes, Before, Sealing, Closing, Process, HandoffTypeOK,
         Alone, Executes, Publishes, Finalizes
<1>5. Alone'
  <2>1. ASSUME NEW q \in Procs, NEW h \in Handoffs
        PROVE  /\ Executes(q, h)' => Executes(q, h) /\ receipt'[h] # "pending"
               /\ Publishes(q, h)' => Publishes(q, h)
               /\ Finalizes(q, h)' => Finalizes(q, h)
               /\ Executes(q, h)' /\ Publishes(q, h) => Publishes(q, h)'
    BY DEF Placed, PlacedAt, Before, Sealing, Closing, Alone, Executes, Publishes, Finalizes
  <2> QED BY <2>1, AloneStays
<1>6. Files'
  BY DEF Placed, PlacedAt, Files, Outcomes, Before, Sealing, Closing, Process, HandoffTypeOK,
         Alone, Executes, Publishes, Finalizes
<1> QED BY <1>3, <1>4, <1>5, <1>6 DEF HandoffInv

\* The runner is called by the handoff's only executor.
LEMMA RunKeeps ==
    ASSUME NEW p \in Procs, HandoffInv, Run(p)
    PROVE  HandoffInv'
<1>1. proc \in [Procs -> Process]
  BY DEF HandoffInv, HandoffTypeOK, Process
<1>2. \/ \E o \in Outcomes : Moved(p, "result", o, proc[p].write)
      \/ Moved(p, "retry", proc[p].outcome, proc[p].write)
  <2>1. CASE Go(p, "retry")
    BY <1>1, <2>1, GoMoves DEF Pcs
  <2>2. ASSUME NEW o \in Outcomes, proc' = [proc EXCEPT ![p].pc = "result", ![p].outcome = o]
        PROVE  Moved(p, "result", o, proc[p].write)
    BY <1>1, <2>2 DEF Moved, Process, Pcs
  <2> QED BY <2>1, <2>2 DEF Run
<1> USE <1>1, <1>2 DEF HandoffInv, Moved, Left, Run, At
<1>3. HandoffTypeOK'
  BY CrashesIsNat DEF HandoffTypeOK, Process, Placed, PlacedAt, Pcs, Outcomes, States,
         Receipts, Before, Sealing, Closing
<1>4. Placed'
  BY DEF Placed, PlacedAt, Files, Outcomes, Before, Sealing, Closing, Process, HandoffTypeOK,
         Alone, Executes, Publishes, Finalizes
<1>5. Alone'
  <2>1. ASSUME NEW q \in Procs, NEW h \in Handoffs
        PROVE  /\ Executes(q, h)' => Executes(q, h) /\ receipt'[h] # "pending"
               /\ Publishes(q, h)' => Publishes(q, h)
               /\ Finalizes(q, h)' => Finalizes(q, h)
               /\ Executes(q, h)' /\ Publishes(q, h) => Publishes(q, h)'
    BY DEF Placed, PlacedAt, Before, Sealing, Closing, Alone, Executes, Publishes, Finalizes
  <2> QED BY <2>1, AloneStays
<1>6. Files'
  BY DEF Placed, PlacedAt, Files, Outcomes, Before, Sealing, Closing, Process, HandoffTypeOK,
         Alone, Executes, Publishes, Finalizes
<1> QED BY <1>3, <1>4, <1>5, <1>6 DEF HandoffInv

\* It is called again, by the same executor.
LEMMA RetryKeeps ==
    ASSUME NEW p \in Procs, HandoffInv, Retry(p)
    PROVE  HandoffInv'
<1>1. proc \in [Procs -> Process]
  BY DEF HandoffInv, HandoffTypeOK, Process
<1>2. PICK o \in Outcomes : Moved(p, "result", o, proc[p].write)
  <2>1. PICK o \in Outcomes : proc' = [proc EXCEPT ![p].pc = "result", ![p].outcome = o]
    BY DEF Retry
  <2> QED BY <1>1, <2>1 DEF Moved, Process, Pcs
<1> USE <1>1, <1>2 DEF HandoffInv, Moved, Left, Retry, At
<1>3. HandoffTypeOK'
  BY CrashesIsNat DEF HandoffTypeOK, Process, Placed, PlacedAt, Pcs, Outcomes, States,
         Receipts, Before, Sealing, Closing
<1>4. Placed'
  BY DEF Placed, PlacedAt, Files, Outcomes, Before, Sealing, Closing, Process, HandoffTypeOK,
         Alone, Executes, Publishes, Finalizes
<1>5. Alone'
  <2>1. ASSUME NEW q \in Procs, NEW h \in Handoffs
        PROVE  /\ Executes(q, h)' => Executes(q, h) /\ receipt'[h] # "pending"
               /\ Publishes(q, h)' => Publishes(q, h)
               /\ Finalizes(q, h)' => Finalizes(q, h)
               /\ Executes(q, h)' /\ Publishes(q, h) => Publishes(q, h)'
    BY DEF Placed, PlacedAt, Before, Sealing, Closing, Alone, Executes, Publishes, Finalizes
  <2> QED BY <2>1, AloneStays
<1>6. Files'
  BY DEF Placed, PlacedAt, Files, Outcomes, Before, Sealing, Closing, Process, HandoffTypeOK,
         Alone, Executes, Publishes, Finalizes
<1> QED BY <1>3, <1>4, <1>5, <1>6 DEF HandoffInv

\* The executor writes the result.
LEMMA WriteResultKeeps ==
    ASSUME NEW p \in Procs, HandoffInv, WriteResult(p)
    PROVE  HandoffInv'
<1>1. proc \in [Procs -> Process]
  BY DEF HandoffInv, HandoffTypeOK, Process
<1>2. Moved(p, "receipt", proc[p].outcome, proc[p].write)
  BY <1>1, GoMoves DEF WriteResult, Pcs
<1> USE <1>1, <1>2 DEF HandoffInv, Moved, Left, WriteResult, At
<1>3. HandoffTypeOK'
  BY CrashesIsNat DEF HandoffTypeOK, Process, Placed, PlacedAt, Pcs, Outcomes, States,
         Receipts, Before, Sealing, Closing
<1>4. Placed'
  BY DEF Placed, PlacedAt, Files, Outcomes, Before, Sealing, Closing, Process, HandoffTypeOK,
         Alone, Executes, Publishes, Finalizes
<1>5. Alone'
  <2>1. ASSUME NEW q \in Procs, NEW h \in Handoffs
        PROVE  /\ Executes(q, h)' => Executes(q, h) /\ receipt'[h] # "pending"
               /\ Publishes(q, h)' => Publishes(q, h)
               /\ Finalizes(q, h)' => Finalizes(q, h)
               /\ Executes(q, h)' /\ Publishes(q, h) => Publishes(q, h)'
    BY DEF Placed, PlacedAt, Files, Outcomes, Before, Sealing, Closing, Process, HandoffTypeOK,
           Alone, Executes, Publishes, Finalizes
  <2> QED BY <2>1, AloneStays
<1>6. Files'
  BY DEF Placed, PlacedAt, Files, Outcomes, Before, Sealing, Closing, Process, HandoffTypeOK,
         Alone, Executes, Publishes, Finalizes
<1> QED BY <1>3, <1>4, <1>5, <1>6 DEF HandoffInv

\* The executor writes its first receipt.
LEMMA WriteReceiptKeeps ==
    ASSUME NEW p \in Procs, HandoffInv, WriteReceipt(p)
    PROVE  HandoffInv'
<1>1. proc \in [Procs -> Process]
  BY DEF HandoffInv, HandoffTypeOK, Process
<1>2. Moved(p, "status", proc[p].outcome, proc[p].write)
  BY <1>1, GoMoves DEF WriteReceipt, Pcs
<1> USE <1>1, <1>2 DEF HandoffInv, Moved, Left, WriteReceipt, At
<1>3. HandoffTypeOK'
  BY CrashesIsNat DEF HandoffTypeOK, Process, Placed, PlacedAt, Pcs, Outcomes, States,
         Receipts, Before, Sealing, Closing
<1>4. Placed'
  <2>1. proc[p].h \in Handoffs /\ receipt' = [receipt EXCEPT ![proc[p].h] = "plain"]
    BY DEF Placed, PlacedAt, HandoffTypeOK
  <2>2. PlacedAt(proc[p])'
    BY <2>1 DEF Placed, PlacedAt, Before, Sealing, Closing
  <2>3. ASSUME NEW q \in Procs, q # p
        PROVE  PlacedAt(proc[q])'
    <3>1. ASSUME proc[q].pc = "finish", proc[q].h = proc[p].h
          PROVE  FALSE
      <4>1. Executes(p, proc[p].h) /\ ~Publishes(p, proc[p].h)
        BY DEF Placed, PlacedAt, Sealing, Closing, Executes, Publishes
      <4>2. Publishes(q, proc[p].h)
        BY <3>1 DEF Placed, PlacedAt, Publishes
      <4> QED BY <2>1, <4>1, <4>2 DEF Alone
    <3>2. proc'[q] = proc[q] /\ PlacedAt(proc[q])
      BY <2>3 DEF Placed
    <3>3. proc[q].h \in Handoffs => receipt'[proc[q].h] \in {receipt[proc[q].h], "plain"}
      BY <2>1 DEF HandoffTypeOK
    <3>4. proc[q].pc # "idle" => proc[q].h \in Handoffs
      BY <3>2 DEF PlacedAt, HandoffTypeOK
    <3> QED BY <2>1, <3>1, <3>2, <3>3, <3>4 DEF PlacedAt, Before, Sealing, Closing, HandoffTypeOK
  <2> QED BY <2>2, <2>3 DEF Placed
<1>5. Alone'
  <2>1. ASSUME NEW q \in Procs, NEW h \in Handoffs
        PROVE  /\ Executes(q, h)' => Executes(q, h) /\ receipt'[h] # "pending"
               /\ Publishes(q, h)' => Publishes(q, h)
               /\ Finalizes(q, h)' => Finalizes(q, h)
               /\ Executes(q, h)' /\ Publishes(q, h) => Publishes(q, h)'
    BY DEF Placed, PlacedAt, Files, Outcomes, Before, Sealing, Closing, Process, HandoffTypeOK,
           Alone, Executes, Publishes, Finalizes
  <2> QED BY <2>1, AloneStays
<1>6. Files'
  BY DEF Placed, PlacedAt, Files, Outcomes, Before, Sealing, Closing, Process, HandoffTypeOK,
         Alone, Executes, Publishes, Finalizes
<1> QED BY <1>3, <1>4, <1>5, <1>6 DEF HandoffInv

\* The executor writes the outcome as state.
LEMMA WriteStatusKeeps ==
    ASSUME NEW p \in Procs, HandoffInv, WriteStatus(p)
    PROVE  HandoffInv'
<1>1. proc \in [Procs -> Process]
  BY DEF HandoffInv, HandoffTypeOK, Process
<1>2. \/ Moved(p, "truncate", proc[p].outcome, "pending")
      \/ Moved(p, "sealCheck", proc[p].outcome, "none")
  <2>1. CASE proc[p].defer
    <3>1. proc' = [proc EXCEPT ![p].pc = "truncate", ![p].write = "pending"]
      BY <2>1 DEF WriteStatus
    <3> QED BY <1>1, <3>1, WriteMoves DEF Pcs, Receipts
  <2>2. CASE ~proc[p].defer
    <3>1. proc' = [proc EXCEPT ![p].pc = "sealCheck", ![p].write = "none"]
      BY <2>2 DEF WriteStatus
    <3> QED BY <1>1, <3>1, WriteMoves DEF Pcs, Receipts
  <2> QED BY <2>1, <2>2
<1> USE <1>1, <1>2 DEF HandoffInv, Moved, Left, WriteStatus, At
<1>3. HandoffTypeOK'
  BY CrashesIsNat DEF HandoffTypeOK, Process, Placed, PlacedAt, Pcs, Outcomes, States,
         Receipts, Before, Sealing, Closing
<1>4. Placed'
  BY DEF Placed, PlacedAt, Files, Outcomes, Before, Sealing, Closing, Process, HandoffTypeOK,
         Alone, Executes, Publishes, Finalizes
<1>5. Alone'
  <2>1. ASSUME NEW q \in Procs, NEW h \in Handoffs
        PROVE  /\ Executes(q, h)' => Executes(q, h) /\ receipt'[h] # "pending"
               /\ Publishes(q, h)' => Publishes(q, h)
               /\ Finalizes(q, h)' => Finalizes(q, h)
               /\ Executes(q, h)' /\ Publishes(q, h) => Publishes(q, h)'
    BY DEF Placed, PlacedAt, Files, Outcomes, Before, Sealing, Closing, Process, HandoffTypeOK,
           Alone, Executes, Publishes, Finalizes
  <2> QED BY <2>1, AloneStays
<1>6. Files'
  BY DEF Placed, PlacedAt, Files, Outcomes, Before, Sealing, Closing, Process, HandoffTypeOK,
         Alone, Executes, Publishes, Finalizes
<1> QED BY <1>3, <1>4, <1>5, <1>6 DEF HandoffInv

\* A seal that is there ends the finalization.
LEMMA SealCheckKeeps ==
    ASSUME NEW p \in Procs, HandoffInv, SealCheck(p)
    PROVE  HandoffInv'
<1>1. proc \in [Procs -> Process]
  BY DEF HandoffInv, HandoffTypeOK, Process
<1>2. \/ Moved(p, "sealCopy", proc[p].outcome, proc[p].write)
      \/ ~proc[p].parent /\ Moved(p, "truncate", proc[p].outcome, "unsealed")
      \/ Left(p)
  BY <1>1, GoMoves, StopLeaves DEF SealCheck, Raise, Moved, Process, Pcs, Receipts
<1> USE <1>1, <1>2 DEF HandoffInv, Moved, Left, SealCheck, At
<1>3. HandoffTypeOK'
  BY CrashesIsNat DEF HandoffTypeOK, Process, Placed, PlacedAt, Pcs, Outcomes, States,
         Receipts, Before, Sealing, Closing
<1>4. Placed'
  BY DEF Placed, PlacedAt, Files, Outcomes, Before, Sealing, Closing, Process, HandoffTypeOK,
         Alone, Executes, Publishes, Finalizes
<1>5. Alone'
  <2>1. ASSUME NEW q \in Procs, NEW h \in Handoffs
        PROVE  /\ Executes(q, h)' => Executes(q, h) /\ receipt'[h] # "pending"
               /\ Publishes(q, h)' => Publishes(q, h)
               /\ Finalizes(q, h)' => Finalizes(q, h)
               /\ Executes(q, h)' /\ Publishes(q, h) => Publishes(q, h)'
    BY DEF Placed, PlacedAt, Files, Outcomes, Before, Sealing, Closing, Process, HandoffTypeOK,
           Alone, Executes, Publishes, Finalizes
  <2> QED BY <2>1, AloneStays
<1>6. Files'
  BY DEF Placed, PlacedAt, Files, Outcomes, Before, Sealing, Closing, Process, HandoffTypeOK,
         Alone, Executes, Publishes, Finalizes
<1> QED BY <1>3, <1>4, <1>5, <1>6 DEF HandoffInv

\* The receipt is copied into the seal.
LEMMA SealCopyKeeps ==
    ASSUME NEW p \in Procs, HandoffInv, SealCopy(p)
    PROVE  HandoffInv'
<1>1. proc \in [Procs -> Process]
  BY DEF HandoffInv, HandoffTypeOK, Process
<1>2. Moved(p, "sealWrite", proc[p].outcome, proc[p].write)
  <2>1. receipt[proc[p].h] \in Receipts
    BY DEF HandoffInv, HandoffTypeOK, Placed, PlacedAt, SealCopy, At
  <2> QED BY <1>1, <2>1 DEF SealCopy, Moved, Process, Pcs
<1> USE <1>1, <1>2 DEF HandoffInv, Moved, Left, SealCopy, At
<1>3. HandoffTypeOK'
  <2>1. proc[p].h \in Handoffs /\ receipt[proc[p].h] \in Receipts
    BY DEF HandoffTypeOK, Process, Placed, PlacedAt
  <2>2. seal' = [seal EXCEPT ![proc[p].h].copy = receipt[proc[p].h]] \/ UNCHANGED seal
    OBVIOUS
  <2>3. seal' \in [Handoffs -> [copy : Receipts, digest : Receipts]]
    BY <2>1, <2>2 DEF HandoffTypeOK
  <2> QED BY <2>3, CrashesIsNat DEF HandoffTypeOK, Process
<1>4. Placed'
  BY DEF Placed, PlacedAt, Files, Outcomes, Before, Sealing, Closing, Process, HandoffTypeOK,
         Alone, Executes, Publishes, Finalizes
<1>5. Alone'
  <2>1. ASSUME NEW q \in Procs, NEW h \in Handoffs
        PROVE  /\ Executes(q, h)' => Executes(q, h) /\ receipt'[h] # "pending"
               /\ Publishes(q, h)' => Publishes(q, h)
               /\ Finalizes(q, h)' => Finalizes(q, h)
               /\ Executes(q, h)' /\ Publishes(q, h) => Publishes(q, h)'
    BY DEF Placed, PlacedAt, Files, Outcomes, Before, Sealing, Closing, Process, HandoffTypeOK,
           Alone, Executes, Publishes, Finalizes
  <2> QED BY <2>1, AloneStays
<1>6. Files'
  BY DEF Placed, PlacedAt, Files, Outcomes, Before, Sealing, Closing, Process, HandoffTypeOK,
         Alone, Executes, Publishes, Finalizes
<1> QED BY <1>3, <1>4, <1>5, <1>6 DEF HandoffInv

\* The digest of the seal is written.
LEMMA SealWriteKeeps ==
    ASSUME NEW p \in Procs, HandoffInv, SealWrite(p)
    PROVE  HandoffInv'
<1>1. proc \in [Procs -> Process]
  BY DEF HandoffInv, HandoffTypeOK, Process
<1>2. Moved(p, "publish", proc[p].outcome, proc[p].write) \/ Left(p)
  BY <1>1, GoMoves, StopLeaves DEF SealWrite, Pcs
<1> USE <1>1, <1>2 DEF HandoffInv, Moved, Left, SealWrite, At
<1>3. HandoffTypeOK'
  <2>1. proc[p].h \in Handoffs /\ proc[p].copied \in Receipts
    BY DEF HandoffTypeOK, Process, Placed, PlacedAt
  <2>2. seal' = [seal EXCEPT ![proc[p].h].digest = proc[p].copied] \/ UNCHANGED seal
    OBVIOUS
  <2>3. seal' \in [Handoffs -> [copy : Receipts, digest : Receipts]]
    BY <2>1, <2>2 DEF HandoffTypeOK
  <2> QED BY <2>3, CrashesIsNat DEF HandoffTypeOK, Process
<1>4. Placed'
  BY DEF Placed, PlacedAt, Files, Outcomes, Before, Sealing, Closing, Process, HandoffTypeOK,
         Alone, Executes, Publishes, Finalizes
<1>5. Alone'
  <2>1. ASSUME NEW q \in Procs, NEW h \in Handoffs
        PROVE  /\ Executes(q, h)' => Executes(q, h) /\ receipt'[h] # "pending"
               /\ Publishes(q, h)' => Publishes(q, h)
               /\ Finalizes(q, h)' => Finalizes(q, h)
               /\ Executes(q, h)' /\ Publishes(q, h) => Publishes(q, h)'
    BY DEF Placed, PlacedAt, Files, Outcomes, Before, Sealing, Closing, Process, HandoffTypeOK,
           Alone, Executes, Publishes, Finalizes
  <2> QED BY <2>1, AloneStays
<1>6. Files'
  BY DEF Placed, PlacedAt, Files, Outcomes, Before, Sealing, Closing, Process, HandoffTypeOK,
         Alone, Executes, Publishes, Finalizes
<1> QED BY <1>3, <1>4, <1>5, <1>6 DEF HandoffInv

\* The first to publish is the only one.
LEMMA PublishKeeps ==
    ASSUME NEW p \in Procs, HandoffInv, Publish(p)
    PROVE  HandoffInv'
<1>1. proc \in [Procs -> Process]
  BY DEF HandoffInv, HandoffTypeOK, Process
<1>2. Moved(p, "truncate", proc[p].outcome, "finalized")
  BY <1>1, WriteMoves DEF Publish, Pcs, Receipts
<1> USE <1>1, <1>2 DEF HandoffInv, Moved, Left, Publish, At
<1>3. HandoffTypeOK'
  BY CrashesIsNat DEF HandoffTypeOK, Process, Placed, PlacedAt, Pcs, Outcomes, States,
         Receipts, Before, Sealing, Closing
<1>4. Placed'
  BY DEF Placed, PlacedAt, Files, Outcomes, Before, Sealing, Closing, Process, HandoffTypeOK,
         Alone, Executes, Publishes, Finalizes
<1>5. Alone'
  <2> DEFINE h0 == proc[p].h
  <2>1. h0 \in Handoffs /\ bundle[h0] = "none" /\ result[h0] # "none"
    BY DEF Placed, PlacedAt, Sealing, HandoffTypeOK
  <2>2. bundle' = [bundle EXCEPT ![h0] = result[h0]]
    OBVIOUS
  <2>3. Executes(p, h0) \/ Finalizes(p, h0)
    BY DEF Executes, Finalizes
  <2>4. \A q \in Procs : (Executes(q, h0) => q = p) /\ ~Publishes(q, h0)
    BY <2>1, <2>3 DEF Alone
  <2>5. ASSUME NEW q \in Procs, NEW h \in Handoffs
        PROVE  /\ Executes(q, h)' <=> Executes(q, h)
               /\ Publishes(q, h)' <=> Publishes(q, h) \/ (q = p /\ h = h0)
               /\ Finalizes(q, h)' <=> Finalizes(q, h)
    BY DEF Executes, Publishes, Finalizes, Process
  <2> QED BY <2>1, <2>2, <2>4, <2>5 DEF Alone, HandoffTypeOK
<1>6. Files'
  BY DEF Placed, PlacedAt, Files, Outcomes, Before, Sealing, Closing, Process, HandoffTypeOK,
         Alone, Executes, Publishes, Finalizes
<1> QED BY <1>3, <1>4, <1>5, <1>6 DEF HandoffInv

\* A bundle that is there, or a seal that is wrong, ends the finalization.
LEMMA PublishFailsKeeps ==
    ASSUME NEW p \in Procs, HandoffInv, PublishFails(p)
    PROVE  HandoffInv'
<1>1. proc \in [Procs -> Process]
  BY DEF HandoffInv, HandoffTypeOK, Process
<1>2. \/ bundle[proc[p].h] = "none" /\ ~proc[p].parent /\ Moved(p, "truncate", proc[p].outcome, "unsealed")
      \/ Left(p)
  BY <1>1, StopLeaves DEF PublishFails, Raise, Moved, Process, Pcs, Receipts
<1> USE <1>1, <1>2 DEF HandoffInv, Moved, Left, PublishFails, At
<1>3. HandoffTypeOK'
  BY CrashesIsNat DEF HandoffTypeOK, Process, Placed, PlacedAt, Pcs, Outcomes, States,
         Receipts, Before, Sealing, Closing
<1>4. Placed'
  BY DEF Placed, PlacedAt, Files, Outcomes, Before, Sealing, Closing, Process, HandoffTypeOK,
         Alone, Executes, Publishes, Finalizes
<1>5. Alone'
  <2>1. ASSUME NEW q \in Procs, NEW h \in Handoffs
        PROVE  /\ Executes(q, h)' => Executes(q, h) /\ receipt'[h] # "pending"
               /\ Publishes(q, h)' => Publishes(q, h)
               /\ Finalizes(q, h)' => Finalizes(q, h)
               /\ Executes(q, h)' /\ Publishes(q, h) => Publishes(q, h)'
    BY DEF Placed, PlacedAt, Files, Outcomes, Before, Sealing, Closing, Process, HandoffTypeOK,
           Alone, Executes, Publishes, Finalizes
  <2> QED BY <2>1, AloneStays
<1>6. Files'
  BY DEF Placed, PlacedAt, Files, Outcomes, Before, Sealing, Closing, Process, HandoffTypeOK,
         Alone, Executes, Publishes, Finalizes
<1> QED BY <1>3, <1>4, <1>5, <1>6 DEF HandoffInv

\* The receipt is truncated by the executor or the publisher.
LEMMA TruncateKeeps ==
    ASSUME NEW p \in Procs, HandoffInv, Truncate(p)
    PROVE  HandoffInv'
<1>1. proc \in [Procs -> Process]
  BY DEF HandoffInv, HandoffTypeOK, Process
<1>2. Moved(p, "rewrite", proc[p].outcome, proc[p].write)
  BY <1>1, GoMoves DEF Truncate, Pcs
<1> USE <1>1, <1>2 DEF HandoffInv, Moved, Left, Truncate, At
<1>3. HandoffTypeOK'
  BY CrashesIsNat DEF HandoffTypeOK, Process, Placed, PlacedAt, Pcs, Outcomes, States,
         Receipts, Before, Sealing, Closing
<1>4. Placed'
  BY DEF Placed, PlacedAt, Files, Outcomes, Before, Sealing, Closing, Process, HandoffTypeOK,
         Alone, Executes, Publishes, Finalizes
<1>5. Alone'
  <2>1. ASSUME NEW q \in Procs, NEW h \in Handoffs
        PROVE  /\ Executes(q, h)' => Executes(q, h) /\ receipt'[h] # "pending"
               /\ Publishes(q, h)' => Publishes(q, h)
               /\ Finalizes(q, h)' => Finalizes(q, h)
               /\ Executes(q, h)' /\ Publishes(q, h) => Publishes(q, h)'
    BY DEF Placed, PlacedAt, Files, Outcomes, Before, Sealing, Closing, Process, HandoffTypeOK,
           Alone, Executes, Publishes, Finalizes
  <2> QED BY <2>1, AloneStays
<1>6. Files'
  BY DEF Placed, PlacedAt, Files, Outcomes, Before, Sealing, Closing, Process, HandoffTypeOK,
         Alone, Executes, Publishes, Finalizes
<1> QED BY <1>3, <1>4, <1>5, <1>6 DEF HandoffInv

\* The receipt is written again.
LEMMA RewriteKeeps ==
    ASSUME NEW p \in Procs, HandoffInv, Rewrite(p)
    PROVE  HandoffInv'
<1>1. proc \in [Procs -> Process]
  BY DEF HandoffInv, HandoffTypeOK, Process
<1>2. \/ proc[p].write = "finalized" /\ Moved(p, "finish", proc[p].outcome, proc[p].write)
      \/ proc[p].write # "finalized" /\ Left(p)
  BY <1>1, GoMoves, StopLeaves DEF Rewrite, Pcs
<1> USE <1>1, <1>2 DEF HandoffInv, Moved, Left, Rewrite, At
<1>3. HandoffTypeOK'
  BY CrashesIsNat DEF HandoffTypeOK, Process, Placed, PlacedAt, Pcs, Outcomes, States,
         Receipts, Before, Sealing, Closing
<1>4. Placed'
  BY DEF Placed, PlacedAt, Files, Outcomes, Before, Sealing, Closing, Process, HandoffTypeOK,
         Alone, Executes, Publishes, Finalizes
<1>5. Alone'
  <2>1. ASSUME NEW q \in Procs, NEW h \in Handoffs
        PROVE  /\ Executes(q, h)' => Executes(q, h)
               /\ Publishes(q, h)' => Publishes(q, h)
               /\ Finalizes(q, h)' => Finalizes(q, h)
               /\ Executes(q, h)' /\ Publishes(q, h) => Publishes(q, h)'
    BY DEF Executes, Publishes, Finalizes
  <2>2. ASSUME NEW q \in Procs, NEW h \in Handoffs, Executes(q, h)'
        PROVE  receipt'[h] # "pending"
    <3>1. CASE h # proc[p].h
      BY <2>1, <2>2, <3>1 DEF Alone, HandoffTypeOK
    <3>2. CASE h = proc[p].h /\ proc[p].write = "finalized"
      BY <3>2 DEF HandoffTypeOK
    <3>3. CASE h = proc[p].h /\ proc[p].write # "finalized"
      <4>1. q # p /\ Executes(p, h)
        BY <2>2, <3>3 DEF Executes, Placed, PlacedAt, Closing
      <4> QED BY <2>1, <2>2, <4>1 DEF Alone
    <3> QED BY <3>1, <3>2, <3>3
  <2> QED BY <2>1, <2>2, AloneStays
<1>6. Files'
  BY DEF Placed, PlacedAt, Files, Outcomes, Before, Sealing, Closing, Process, HandoffTypeOK,
         Alone, Executes, Publishes, Finalizes
<1> QED BY <1>3, <1>4, <1>5, <1>6 DEF HandoffInv

\* The publisher writes the state.
LEMMA FinishKeeps ==
    ASSUME NEW p \in Procs, HandoffInv, Finish(p)
    PROVE  HandoffInv'
<1>1. proc \in [Procs -> Process]
  BY DEF HandoffInv, HandoffTypeOK, Process
<1>2. Left(p)
  BY <1>1, StopLeaves DEF Finish
<1> USE <1>1, <1>2 DEF HandoffInv, Moved, Left, Finish, At
<1>3. HandoffTypeOK'
  BY CrashesIsNat DEF HandoffTypeOK, Process, Placed, PlacedAt, Pcs, Outcomes, States,
         Receipts, Before, Sealing, Closing
<1>4. Placed'
  BY DEF Placed, PlacedAt, Files, Outcomes, Before, Sealing, Closing, Process, HandoffTypeOK,
         Alone, Executes, Publishes, Finalizes
<1>5. Alone'
  <2>1. ASSUME NEW q \in Procs, NEW h \in Handoffs
        PROVE  /\ Executes(q, h)' => Executes(q, h) /\ receipt'[h] # "pending"
               /\ Publishes(q, h)' => Publishes(q, h)
               /\ Finalizes(q, h)' => Finalizes(q, h)
               /\ Executes(q, h)' /\ Publishes(q, h) => Publishes(q, h)'
    BY DEF Placed, PlacedAt, Before, Sealing, Closing, Alone, Executes, Publishes, Finalizes
  <2> QED BY <2>1, AloneStays
<1>6. Files'
  BY DEF Placed, PlacedAt, Files, Outcomes, Before, Sealing, Closing, Process, HandoffTypeOK,
         Alone, Executes, Publishes, Finalizes
<1> QED BY <1>3, <1>4, <1>5, <1>6 DEF HandoffInv

\* A process dies.
LEMMA CrashKeeps ==
    ASSUME NEW p \in Procs, HandoffInv, Crash(p)
    PROVE  HandoffInv'
<1>1. proc \in [Procs -> Process]
  BY DEF HandoffInv, HandoffTypeOK, Process
<1>2. Left(p)
  BY <1>1, StopLeaves DEF Crash
<1> USE <1>1, <1>2 DEF HandoffInv, Moved, Left, Crash, At
<1>3. HandoffTypeOK'
  BY CrashesIsNat DEF HandoffTypeOK, Process, Placed, PlacedAt, Pcs, Outcomes, States,
         Receipts, Before, Sealing, Closing
<1>4. Placed'
  <2>1. \A q \in Procs : q # p => PlacedAt(proc[q])'
    BY DEF Placed, PlacedAt
  <2>2. PlacedAt(proc[p])'
    BY DEF PlacedAt, Before, Sealing, Closing
  <2> QED BY <2>1, <2>2 DEF Placed
<1>5. Alone'
  <2>1. ASSUME NEW q \in Procs, NEW h \in Handoffs
        PROVE  /\ Executes(q, h)' => Executes(q, h) /\ receipt'[h] # "pending"
               /\ Publishes(q, h)' => Publishes(q, h)
               /\ Finalizes(q, h)' => Finalizes(q, h)
               /\ Executes(q, h)' /\ Publishes(q, h) => Publishes(q, h)'
    BY DEF Placed, PlacedAt, Files, Outcomes, Before, Sealing, Closing, Process, HandoffTypeOK,
           Alone, Executes, Publishes, Finalizes
  <2> QED BY <2>1, AloneStays
<1>6. Files'
  BY DEF Placed, PlacedAt, Files, Outcomes, Before, Sealing, Closing, Process, HandoffTypeOK,
         Alone, Executes, Publishes, Finalizes
<1> QED BY <1>3, <1>4, <1>5, <1>6 DEF HandoffInv

\* execute-agent begins; it has no role yet.
LEMMA ExecuteLoadKeeps ==
    ASSUME NEW p \in Procs, NEW h \in Handoffs, HandoffInv, ExecuteLoad(p, h)
    PROVE  HandoffInv'
<1>1. PICK defer \in BOOLEAN :
          proc' = [proc EXCEPT ![p] = [Idle EXCEPT !.pc = "claim", !.h = h, !.defer = defer]]
  BY DEF ExecuteLoad
<1>2. proc' \in [Procs -> Process]
  <2>1. [Idle EXCEPT !.pc = "claim", !.h = h, !.defer = defer] \in Process
    BY DEF Idle, Process, Pcs, Receipts
  <2> QED BY <1>1, <2>1 DEF HandoffInv, HandoffTypeOK, Process
<1>3. /\ \A q \in Procs : q # p => proc'[q] = proc[q]
      /\ proc'[p].pc = "claim" /\ proc'[p].h = h /\ ~proc'[p].parent
  BY <1>1 DEF HandoffInv, HandoffTypeOK, Idle
<1> USE <1>2, <1>3 DEF HandoffInv, ExecuteLoad
<1>4. HandoffTypeOK'
  BY DEF HandoffTypeOK, Process
<1>5. Placed'
  BY DEF Placed, PlacedAt, Before, Sealing, Closing
<1>6. Alone'
  <2>1. ASSUME NEW q \in Procs, NEW k \in Handoffs
        PROVE  /\ Executes(q, k)' => Executes(q, k) /\ receipt'[k] # "pending"
               /\ Publishes(q, k)' => Publishes(q, k)
               /\ Finalizes(q, k)' => Finalizes(q, k)
               /\ Executes(q, k)' /\ Publishes(q, k) => Publishes(q, k)'
    BY DEF Alone, Executes, Publishes, Finalizes
  <2> QED BY <2>1, AloneStays
<1>7. Files'
  BY DEF Files
<1> QED BY <1>4, <1>5, <1>6, <1>7

\* finalize-agent begins: a receipt that is pending has no executor left.
LEMMA FinalizeLoadKeeps ==
    ASSUME NEW p \in Procs, NEW h \in Handoffs, HandoffInv, FinalizeLoad(p, h)
    PROVE  HandoffInv'
<1>1. proc' = [proc EXCEPT ![p] = [Idle EXCEPT !.pc = "sealCheck", !.h = h, !.parent = TRUE,
                                               !.outcome = result[h]]]
  BY DEF FinalizeLoad
<1>2. proc' \in [Procs -> Process]
  <2>1. [Idle EXCEPT !.pc = "sealCheck", !.h = h, !.parent = TRUE, !.outcome = result[h]] \in Process
    BY DEF Idle, Process, Pcs, Receipts, HandoffInv, HandoffTypeOK
  <2> QED BY <1>1, <2>1 DEF HandoffInv, HandoffTypeOK, Process
<1>3. /\ \A q \in Procs : q # p => proc'[q] = proc[q]
      /\ proc'[p].pc = "sealCheck" /\ proc'[p].h = h /\ proc'[p].parent
      /\ proc'[p].outcome = result[h]
  BY <1>1 DEF HandoffInv, HandoffTypeOK, Idle
<1> USE <1>2, <1>3 DEF HandoffInv, FinalizeLoad
<1>4. HandoffTypeOK'
  BY DEF HandoffTypeOK, Process
<1>5. h \in packet /\ h \in claim /\ result[h] # "none"
  BY DEF Files, Outcomes, HandoffTypeOK
<1>6. Placed'
  BY <1>5 DEF Placed, PlacedAt, Before, Sealing, Closing
<1>7. Alone'
  <2>1. \A q \in Procs : ~Executes(q, h)
    BY DEF Alone
  <2>2. ASSUME NEW q \in Procs, NEW k \in Handoffs
        PROVE  /\ Executes(q, k)' => Executes(q, k)
               /\ Publishes(q, k)' => Publishes(q, k)
               /\ Finalizes(q, k)' => Finalizes(q, k) \/ (q = p /\ k = h)
               /\ Executes(q, k)' /\ Publishes(q, k) => Publishes(q, k)'
    BY DEF Executes, Publishes, Finalizes
  <2> QED BY <2>1, <2>2 DEF Alone
<1>8. Files'
  BY DEF Files
<1> QED BY <1>4, <1>6, <1>7, <1>8

\* What accept-agent and the campaign's driver may do to handoffs: packets are added,
\* a state becomes "accepted", and a driver dies.
Offered ==
    /\ packet \subseteq packet' /\ packet' \subseteq Handoffs /\ accepting' \subseteq packet'
    /\ state' \in [Handoffs -> States]
    /\ \A h \in Handoffs : state'[h] \in {state[h], "accepted"}
    /\ crashes' \in 0..Crashes
    /\ UNCHANGED <<claim, result, receipt, seal, bundle, proc, ran, again>>

\* That leaves the invariant of the handoffs alone.
LEMMA OfferKeeps ==
    ASSUME HandoffInv, Offered
    PROVE  HandoffInv'
<1>1. HandoffTypeOK'
  BY DEF HandoffInv, HandoffTypeOK, Offered
<1>2. Placed'
  BY DEF HandoffInv, Placed, PlacedAt, Offered
<1>3. Alone'
  BY DEF HandoffInv, Alone, Executes, Publishes, Finalizes, Offered
<1>4. Files'
  BY DEF HandoffInv, Files, Outcomes, Offered
<1> QED BY <1>1, <1>2, <1>3, <1>4 DEF HandoffInv

\* accept-agent is such a step.
LEMMA AcceptOffers ==
    ASSUME NEW h \in Handoffs, HandoffInv, AcceptRead(h) \/ AcceptWrite(h)
    PROVE  Offered
BY DEF HandoffInv, HandoffTypeOK, AcceptRead, AcceptWrite, Offered, States

\* Every step of the handoffs keeps their invariant.
LEMMA HandoffKeeps ==
    ASSUME HandoffInv, HandoffNext
    PROVE  HandoffInv'
<1>1. ASSUME NEW h \in Handoffs, AcceptRead(h) \/ AcceptWrite(h)
      PROVE  HandoffInv'
  BY <1>1, AcceptOffers, OfferKeeps
<1>2. ASSUME NEW p \in Procs, Work(p)
      PROVE  HandoffInv'
  BY <1>2, ClaimKeeps, QueueKeeps, GateFailsKeeps, StartKeeps, DispatchFailsKeeps, RunKeeps,
     RetryKeeps, WriteResultKeeps, WriteReceiptKeeps, WriteStatusKeeps, SealCheckKeeps, SealCopyKeeps, SealWriteKeeps,
     PublishKeeps, PublishFailsKeeps, TruncateKeeps, RewriteKeeps, FinishKeeps DEF Work
<1>3. ASSUME NEW p \in Procs, Crash(p)
      PROVE  HandoffInv'
  BY <1>3, CrashKeeps
<1>4. ASSUME NEW p \in Procs, NEW h \in Handoffs, ExecuteLoad(p, h) \/ FinalizeLoad(p, h)
      PROVE  HandoffInv'
  BY <1>4, ExecuteLoadKeeps, FinalizeLoadKeeps
<1> QED BY <1>1, <1>2, <1>3, <1>4 DEF HandoffNext

\* Nothing has happened yet.
LEMMA HandoffInitInv == HandoffInit => HandoffInv
<1> SUFFICES ASSUME HandoffInit PROVE HandoffInv
  OBVIOUS
<1> USE DEF HandoffInit
<1>1. Idle \in Process /\ Idle.pc = "idle" /\ Idle.parent = FALSE
  BY DEF Idle, Process, Pcs, Receipts
<1>2. proc \in [Procs -> Process] /\ \A p \in Procs : proc[p] = Idle
  BY <1>1
<1>3. HandoffTypeOK
  <2>1. seal \in [Handoffs -> [copy : Receipts, digest : Receipts]]
    BY DEF NoSeal, Receipts
  <2> QED BY <1>2, <2>1, CrashesIsNat DEF HandoffTypeOK, Process, States, Receipts
<1>4. Placed
  BY <1>1, <1>2 DEF Placed, PlacedAt, Before, Sealing, Closing
<1>5. Alone
  BY <1>1, <1>2 DEF Alone, Executes, Publishes, Finalizes
<1>6. Files
  <2>1. ASSUME NEW h \in Handoffs
        PROVE  /\ state[h] = "none" /\ result[h] = "none" /\ receipt[h] = "none"
               /\ bundle[h] = "none" /\ ran[h] = 0 /\ again[h] = 0
               /\ ran[h] <= 1 /\ again[h] <= ran[h]
    OBVIOUS
  <2> HIDE DEF HandoffInit
  <2> QED BY <2>1 DEF Files, Outcomes
<1> QED BY <1>3, <1>4, <1>5, <1>6 DEF HandoffInv

-----------------------------------------------------------------------------
(***************************************************************************)
(* The records of the campaign.                                            *)
(***************************************************************************)

JournalStates == {"NOT_DISPATCHED", "PREPARE_INTENT", "PREPARED", "DISPATCH_INTENT", "ACCEPTED", "TERMINAL"}
Decisions == {"none", "BLOCKED_NO_DISPATCH", "BLOCKED_UNCERTAIN", "BLOCKED", "CONTINUE", "DONE"}

\* The slices are numbered from 1, and each has its handoff.
LEMMA PlanFacts ==
    /\ Len(Plan) \in Nat /\ Slices = 1..Len(Plan)
    /\ \A s \in Slices : Plan[s] \in Handoffs
BY PlanIsInjective DEF Slices

\* A new campaign is one.
LEMMA NewCampaignIs ==
    ASSUME NEW bound \in BOOLEAN
    PROVE  NewCampaign(bound) \in Campaigns
<1>1. <<>> \in Seq(Slices)
  OBVIOUS
<1>2. [s \in Slices |-> [state |-> "NOT_DISPATCHED", decision |-> "none"]]
        \in [Slices -> [state : JournalStates, decision : Decisions]]
  BY DEF JournalStates, Decisions
<1> QED BY <1>1, <1>2, PlanFacts, MaxNoProgressIsNat DEF NewCampaign, Campaigns, JournalStates, Decisions

\* n is campaign m but for its status, its journal and the count of repetitions.
SameWork(m, n) == n \in Campaigns /\ n.bound = m.bound /\ n.slice = m.slice /\ n.done = m.done

\* A record of the journal changes its state.
LEMMA JournalledIs ==
    ASSUME NEW m \in Campaigns, m.slice # 0, NEW st \in JournalStates
    PROVE  /\ SameWork(m, Journalled(m, st))
           /\ Journalled(m, st).status = m.status
           /\ Journalled(m, st).stale = m.stale
           /\ \A s \in Slices :
                 /\ Journalled(m, st).journal[s].decision = m.journal[s].decision
                 /\ Journalled(m, st).journal[s].state = IF s = m.slice THEN st ELSE m.journal[s].state
<1> DEFINE j == [m.journal EXCEPT ![m.slice].state = st]
<1>1. /\ m.slice \in Slices
      /\ m.journal \in [Slices -> [state : JournalStates, decision : Decisions]]
  BY PlanFacts DEF Campaigns, JournalStates, Decisions
<1>2. /\ j \in [Slices -> [state : JournalStates, decision : Decisions]]
      /\ \A s \in Slices : /\ j[s].decision = m.journal[s].decision
                           /\ j[s].state = IF s = m.slice THEN st ELSE m.journal[s].state
  BY <1>1
<1>3. Journalled(m, st) = [m EXCEPT !.journal = j]
  BY <1>1 DEF Journalled, Campaigns
<1> HIDE DEF j
<1> QED BY <1>2, <1>3 DEF Campaigns, SameWork, JournalStates, Decisions

\* A campaign whose result is not to be had is blocked, and a bound one says whether
\* it was dispatched.
LEMMA UnavailableIs ==
    ASSUME NEW m \in Campaigns, m.slice # 0
    PROVE  /\ SameWork(m, Unavailable(m))
           /\ Unavailable(m).status = "BLOCKED"
           /\ \A s \in Slices :
                 /\ Unavailable(m).journal[s].state = m.journal[s].state
                 /\ Unavailable(m).journal[s].decision =
                       IF m.bound /\ s = m.slice THEN Decision(m) ELSE m.journal[s].decision
<1>1. Decision(m) \in Decisions
  BY DEF Decision, Decisions
<1> DEFINE j == [m.journal EXCEPT ![m.slice].decision = Decision(m)]
<1>2. /\ m.slice \in Slices
      /\ m.journal \in [Slices -> [state : JournalStates, decision : Decisions]]
  BY PlanFacts DEF Campaigns, JournalStates, Decisions
<1>3. /\ j \in [Slices -> [state : JournalStates, decision : Decisions]]
      /\ \A s \in Slices : /\ j[s].state = m.journal[s].state
                           /\ j[s].decision = IF s = m.slice THEN Decision(m) ELSE m.journal[s].decision
  BY <1>1, <1>2
<1>4. m.bound => Unavailable(m) = [m EXCEPT !.status = "BLOCKED", !.journal = j]
  BY <1>2 DEF Unavailable, Campaigns
<1> HIDE DEF j
<1>5. CASE m.bound
  <2>1. Unavailable(m) \in Campaigns
    BY <1>3, <1>4, <1>5 DEF Campaigns, Terminal, JournalStates, Decisions
  <2>2. /\ Unavailable(m).journal = j /\ Unavailable(m).status = "BLOCKED"
        /\ Unavailable(m).bound = m.bound /\ Unavailable(m).slice = m.slice
        /\ Unavailable(m).done = m.done
    BY <1>4, <1>5 DEF Campaigns
  <2> QED BY <1>3, <1>5, <2>1, <2>2 DEF SameWork
<1>6. CASE ~m.bound
  BY <1>6 DEF Unavailable, Campaigns, SameWork, Terminal
<1> QED BY <1>5, <1>6

\* The journal of a slice that is through.
LEMMA DecidedIs ==
    ASSUME NEW m \in Campaigns, m.slice # 0, NEW d \in Decisions
    PROVE  /\ SameWork(m, Decided(m, d))
           /\ Decided(m, d).stale = m.stale
           /\ \A s \in Slices :
                 Decided(m, d).journal[s] = IF m.bound /\ s = m.slice
                                            THEN [state |-> "TERMINAL", decision |-> d] ELSE m.journal[s]
BY PlanFacts DEF Decided, Campaigns, SameWork, Terminal, Decisions

-----------------------------------------------------------------------------
(***************************************************************************)
(* The steps of the driver.                                                *)
(***************************************************************************)

\* What a driver past its selection works on.
LEMMA DriverAt ==
    ASSUME IInv, driver.pc # "idle"
    PROVE  /\ Mem = saved /\ saved \in Campaigns /\ saved.status \notin Terminal
           /\ driver.pc # "select" =>
                 /\ saved.slice # 0 /\ saved.slice \in Slices /\ saved.slice = Len(saved.done) + 1
                 /\ Current \in Handoffs
BY PlanFacts DEF IInv, CampaignInv, TypeOK, DriverHolds, Progress, Mem, Current, Slice, Campaigns

\* To the handoffs, all that the driver does is to offer them.
LEMMA DriveOffers ==
    ASSUME IInv, Drive \/ DriverCrash
    PROVE  Offered
<1> USE DEF IInv, HandoffInv, HandoffTypeOK, Offered, D
<1>1. CASE UNCHANGED handoffVars
  BY <1>1 DEF handoffVars
<1>2. CASE DispatchUnbound
  BY <1>2, DriverAt DEF DispatchUnbound
<1>3. CASE Prepare
  BY <1>3, DriverAt DEF Prepare
<1>4. CASE Dispatch
  BY <1>4, DriverAt DEF Dispatch, States
<1>5. CASE DriverCrash
  BY <1>5, CrashesIsNat DEF DriverCrash
<1> QED BY <1>1, <1>2, <1>3, <1>4, <1>5 DEF Drive, Load, PlanDone, SelectNext, SelectBlocked, Resume,
       DispatchBlocked, IntendPrepare, Prepared, IntendDispatch, Answered, Reconcile, ResumeAccepted,
       NoResult, SliceFails, SliceProgresses, SliceRepeats

\* Nobody drives.
LEMMA NoDriverIs == NoDriver.pc = "idle" /\ NoDriver.mem \in Campaigns
BY NewCampaignIs DEF NoDriver

DriverPcs == {"select", "dispatch", "prepared", "call", "answered", "status"}

\* The call returns, or goes on with what is saved.
Driven ==
    \/ driver' = NoDriver
    \/ /\ driver'.mem = saved' /\ driver'.pc \in DriverPcs /\ saved'.status \notin Terminal
       /\ driver'.pc # "select" => saved'.slice # 0

\* A slice is dispatched for the first time, or none is.
Called ==
    /\ calls' \in [Slices -> Nat]
    /\ \A s \in Slices : calls'[s] = calls[s] \/ (s = saved.slice /\ calls'[s] = 1)

\* A step that leaves the plan where it is.
LEMMA SameWorkKeeps ==
    ASSUME IInv, Offered, SameWork(saved, saved'), Driven, Called, JournalKept',
           \/ saved'.status \in Terminal \ {"DONE"}
           \/ saved'.status = saved.status /\ saved'.stale = saved.stale
           \/ saved'.status = "WAITING" /\ saved.status \notin Terminal /\ saved'.stale = saved.stale
    PROVE  IInv'
<1> USE DEF IInv, CampaignInv, SameWork
<1>1. HandoffInv'
  BY OfferKeeps
<1>2. TypeOK'
  BY <1>1, NoDriverIs DEF HandoffInv, TypeOK, Driven, Called, DriverPcs
<1>3. DriverHolds'
  BY NoDriverIs DEF DriverHolds, Driven
<1>4. Progress'
  BY DEF Progress, Called, Terminal
<1>5. DispatchJournalled'
  BY DEF DispatchJournalled, DispatchedOnce, NoDispatchIsTrue, JournalKept, Called, TypeOK
<1>6. DoneInOrder'
  BY DEF DoneInOrder, Offered, Terminal
<1> QED BY <1>1, <1>2, <1>3, <1>4, <1>5, <1>6

\* The driver takes the lock.
LEMMA LoadKeeps ==
    ASSUME IInv, Load
    PROVE  IInv'
<1>1. SameWork(saved, saved') /\ Called
  BY DEF IInv, CampaignInv, TypeOK, Load, Think, SameWork, Called
<1>2. Driven /\ JournalKept'
  BY DEF IInv, CampaignInv, JournalKept, Load, Think, Driven, DriverPcs
<1> QED BY <1>1, <1>2, DriveOffers, SameWorkKeeps DEF Drive, Load, Think

\* A slice that may not be written, and one that nobody can know of, block the campaign.
LEMMA SelectBlockedKeeps ==
    ASSUME IInv, D("select"), Return([Mem EXCEPT !.status = "BLOCKED"]), UNCHANGED calls, Drive
    PROVE  IInv'
<1>1. Mem = saved /\ saved \in Campaigns
  BY DriverAt DEF D
<1>2. SameWork(saved, saved') /\ Called /\ saved'.status = "BLOCKED" /\ saved'.journal = saved.journal
  BY <1>1 DEF IInv, CampaignInv, TypeOK, Return, SameWork, Called, Campaigns, Terminal
<1>3. Driven /\ JournalKept'
  BY <1>1, <1>2, NoDriverIs DEF IInv, CampaignInv, JournalKept, Return, Driven, SameWork, Terminal
<1> QED BY <1>2, <1>3, DriveOffers, SameWorkKeeps DEF Terminal

\* The driver goes on with what it has read.
LEMMA ThinkKeeps ==
    ASSUME IInv, NEW pc \in DriverPcs, driver.pc \notin {"idle"}, Think(Mem, pc), Called, Drive,
           pc # "select" => saved.slice # 0, JournalKept'
    PROVE  IInv'
<1>1. Mem = saved /\ saved \in Campaigns /\ saved.status \notin Terminal
  BY DriverAt
<1>2. SameWork(saved, saved') /\ UNCHANGED saved /\ Driven
  BY <1>1 DEF Think, SameWork, Driven
<1> QED BY <1>2, DriveOffers, SameWorkKeeps

\* A bound campaign resumes its slice.
LEMMA ResumeKeeps ==
    ASSUME IInv, Resume
    PROVE  IInv'
<1>1. Mem = saved /\ saved \in Campaigns
  BY DriverAt DEF Resume, D
<1>2. CASE saved.bound
  <2>1. JournalKept' /\ Called
    BY <1>1, <1>2 DEF IInv, CampaignInv, TypeOK, JournalKept, Resume, Think, Called
  <2> QED BY <1>1, <1>2, <2>1, ThinkKeeps DEF Resume, Drive, D, Slice, DriverPcs
<1>3. CASE ~saved.bound
  BY <1>1, <1>3, SelectBlockedKeeps DEF Resume, Drive
<1> QED BY <1>2, <1>3

\* A result that is not to be had blocks the campaign; a dispatch that may have happened
\* is in the journal by then.
LEMMA UnavailableKeeps ==
    ASSUME IInv, driver.pc \notin {"idle", "select"}, Return(Unavailable(Mem)), Called, Drive,
           saved.bound /\ calls'[saved.slice] # 0 =>
               saved.journal[saved.slice].state \in {"DISPATCH_INTENT", "ACCEPTED", "TERMINAL"}
    PROVE  IInv'
<1>1. Mem = saved /\ saved \in Campaigns /\ saved.slice # 0 /\ saved.slice \in Slices
  BY DriverAt
<1>2. /\ SameWork(saved, saved') /\ saved'.status = "BLOCKED"
      /\ \A s \in Slices :
            /\ saved'.journal[s].state = saved.journal[s].state
            /\ saved'.journal[s].decision =
                  IF saved.bound /\ s = saved.slice THEN Decision(saved) ELSE saved.journal[s].decision
  BY <1>1, UnavailableIs DEF Return
<1>3. Driven /\ driver'.pc = "idle"
  BY NoDriverIs DEF Return, Driven
<1>4. JournalKept'
  <2>1. ASSUME NEW s \in Slices, saved'.bound, calls'[s] # 0
        PROVE  saved'.journal[s].state \in {"DISPATCH_INTENT", "ACCEPTED", "TERMINAL"}
    BY <1>1, <1>2, <2>1 DEF IInv, CampaignInv, JournalKept, Called, SameWork
  <2>2. ASSUME NEW s \in Slices, saved'.journal[s].decision = "BLOCKED_NO_DISPATCH"
        PROVE  saved'.status \in Terminal /\ calls'[s] = 0
    <3>1. saved.journal[s].decision # "BLOCKED_NO_DISPATCH"
      BY DriverAt DEF IInv, CampaignInv, JournalKept
    <3>2. saved.bound /\ s = saved.slice /\ Decision(saved) = "BLOCKED_NO_DISPATCH"
      BY <1>2, <2>2, <3>1
    <3> QED BY <1>2, <3>2 DEF Decision, Terminal
  <2> QED BY <1>3, <2>1, <2>2 DEF JournalKept
<1> QED BY <1>2, <1>3, <1>4, DriveOffers, SameWorkKeeps DEF Terminal

\* The state of the current slice is journalled, which a dispatch that happened forbids
\* to undo, and the driver goes on.
LEMMA JournalledKeeps ==
    ASSUME IInv, NEW st \in JournalStates, NEW pc \in {"dispatch", "call", "status"}, Drive,
           driver.pc \notin {"idle", "select"}, Save(Journalled(Mem, st), pc), UNCHANGED calls,
           saved.bound, calls[saved.slice] # 0 => st \in {"DISPATCH_INTENT", "ACCEPTED", "TERMINAL"},
           pc = "call" => calls[saved.slice] = 0 /\ st = "DISPATCH_INTENT"
    PROVE  IInv'
<1>1. Mem = saved /\ saved \in Campaigns /\ saved.slice # 0 /\ saved.status \notin Terminal
      /\ saved.slice \in Slices
  BY DriverAt
<1>2. /\ SameWork(saved, saved') /\ saved'.status = saved.status /\ saved'.stale = saved.stale
      /\ \A s \in Slices :
            /\ saved'.journal[s].decision = saved.journal[s].decision
            /\ saved'.journal[s].state = IF s = saved.slice THEN st ELSE saved.journal[s].state
  BY <1>1, JournalledIs DEF Save
<1>3. Driven /\ Called /\ driver'.pc = pc
  BY <1>1, <1>2 DEF IInv, CampaignInv, TypeOK, Save, Driven, DriverPcs, SameWork, Called
<1>4. JournalKept'
  BY <1>1, <1>2, <1>3 DEF IInv, CampaignInv, JournalKept, SameWork
<1> QED BY <1>2, <1>3, <1>4, DriveOffers, SameWorkKeeps

\* A handoff that the callback prepares and runs itself.
LEMMA DispatchUnboundKeeps ==
    ASSUME IInv, DispatchUnbound
    PROVE  IInv'
<1>1. Mem = saved /\ saved \in Campaigns /\ saved.slice # 0 /\ saved.slice \in Slices
  BY DriverAt DEF DispatchUnbound, D
<1>2. calls[saved.slice] = 0 /\ ~saved.bound
  BY <1>1 DEF IInv, CampaignInv, JournalKept, DispatchUnbound, D
<1>3. Called
  BY <1>1, <1>2 DEF IInv, CampaignInv, TypeOK, DispatchUnbound, Called, Slice
<1>4. CASE Think(Mem, "status")
  <2>1. JournalKept'
    BY <1>1, <1>2, <1>3, <1>4, DriverAt
    DEF IInv, CampaignInv, JournalKept, DispatchUnbound, D, Think
  <2> QED BY <1>1, <1>3, <1>4, <2>1, ThinkKeeps DEF DispatchUnbound, Drive, D, DriverPcs
<1>5. CASE Return(Unavailable(Mem))
  BY <1>2, <1>3, <1>5, UnavailableKeeps DEF DispatchUnbound, Drive, D
<1> QED BY <1>4, <1>5 DEF DispatchUnbound

\* The approval is gone, or the callback fails, before anything was dispatched.
LEMMA DispatchBlockedKeeps ==
    ASSUME IInv, DispatchBlocked
    PROVE  IInv'
<1>1. Mem = saved /\ saved.slice \in Slices /\ driver.pc = "dispatch"
  BY DriverAt DEF DispatchBlocked, D
<1>2. Called
  BY DEF IInv, CampaignInv, TypeOK, DispatchBlocked, Called
<1>3. saved.bound /\ calls'[saved.slice] # 0 =>
          saved.journal[saved.slice].state \in {"DISPATCH_INTENT", "ACCEPTED", "TERMINAL"}
  BY <1>1 DEF IInv, CampaignInv, JournalKept, DispatchBlocked
<1> QED BY <1>1, <1>2, <1>3, UnavailableKeeps DEF DispatchBlocked, Drive

\* The steps that write the journal: the intent to prepare, the preparation, the
\* intent to dispatch, and the answer.
LEMMA JournalStepKeeps ==
    ASSUME IInv, IntendPrepare \/ Prepared \/ IntendDispatch \/ Answered
    PROVE  IInv'
<1>1. /\ Mem = saved /\ saved \in Campaigns /\ saved.slice \in Slices
      /\ driver.pc \in {"dispatch", "prepared", "answered"}
  BY DriverAt DEF IntendPrepare, Prepared, IntendDispatch, Answered, D
<1>2. saved.bound
  BY <1>1 DEF IInv, CampaignInv, JournalKept, IntendPrepare, Prepared, IntendDispatch, Answered, D
<1>3. calls[saved.slice] = 0 \/ Answered
  BY <1>1, <1>2 DEF IInv, CampaignInv, JournalKept, IntendPrepare, Prepared, IntendDispatch, D,
                    Journal, Slice
<1>4. \E st \in JournalStates, pc \in {"dispatch", "call", "status"} :
          /\ Save(Journalled(Mem, st), pc)
          /\ calls[saved.slice] # 0 => st \in {"DISPATCH_INTENT", "ACCEPTED", "TERMINAL"}
          /\ pc = "call" => calls[saved.slice] = 0 /\ st = "DISPATCH_INTENT"
  <2>1. CASE IntendPrepare
    BY <1>3, <2>1 DEF IntendPrepare, Answered, D, JournalStates
  <2>2. CASE Prepared
    BY <1>3, <2>2 DEF Prepared, Answered, D, JournalStates
  <2>3. CASE IntendDispatch
    BY <1>3, <2>3 DEF IntendDispatch, Answered, D, JournalStates
  <2>4. CASE Answered
    BY <2>4 DEF Answered, JournalStates
  <2> QED BY <2>1, <2>2, <2>3, <2>4
<1> QED BY <1>1, <1>2, <1>4, JournalledKeeps DEF IntendPrepare, Prepared, IntendDispatch, Answered, Drive

\* The packet is there before it is journalled.
LEMMA PrepareKeeps ==
    ASSUME IInv, Prepare
    PROVE  IInv'
<1>1. Mem = saved /\ saved.slice # 0 /\ saved.slice \in Slices
  BY DriverAt DEF Prepare, D
<1>2. Called /\ JournalKept'
  BY <1>1 DEF IInv, CampaignInv, TypeOK, JournalKept, Prepare, D, Journal, Slice, Think, Called
<1> QED BY <1>1, <1>2, ThinkKeeps DEF Prepare, Drive, D, DriverPcs

\* The one dispatch, which may fail after it happened.
LEMMA DispatchKeeps ==
    ASSUME IInv, Dispatch
    PROVE  IInv'
<1>1. Mem = saved /\ saved.slice # 0 /\ saved.slice \in Slices /\ saved.status \notin Terminal
  BY DriverAt DEF Dispatch, D
<1>2. /\ saved.bound /\ calls[saved.slice] = 0
      /\ saved.journal[saved.slice].state = "DISPATCH_INTENT"
  BY DEF IInv, CampaignInv, JournalKept, Dispatch, D
<1>3. Called
  BY <1>1, <1>2 DEF IInv, CampaignInv, TypeOK, Dispatch, Called, Slice
<1>4. CASE Think(Mem, "answered")
  <2>1. JournalKept'
    BY <1>1, <1>2, <1>3, <1>4 DEF IInv, CampaignInv, JournalKept, Think, Called
  <2> QED BY <1>1, <1>3, <1>4, <2>1, ThinkKeeps DEF Dispatch, Drive, D, DriverPcs
<1>5. CASE Return(Unavailable(Mem))
  BY <1>2, <1>3, <1>5, UnavailableKeeps DEF Dispatch, Drive, D
<1> QED BY <1>4, <1>5 DEF Dispatch

\* An interrupted dispatch is accepted by its status or not at all; it is never repeated.
LEMMA ReconcileKeeps ==
    ASSUME IInv, Reconcile
    PROVE  IInv'
<1>1. Mem = saved /\ saved.bound /\ saved.journal[saved.slice].state = "DISPATCH_INTENT"
  BY DriverAt DEF Reconcile, D, Journal, Slice
<1>2. Called
  BY DEF IInv, CampaignInv, TypeOK, Reconcile, Called
<1>3. CASE Return(Unavailable(Mem))
  BY <1>1, <1>2, <1>3, UnavailableKeeps DEF Reconcile, Drive, D
<1>4. CASE Save(Journalled(Mem, "ACCEPTED"), "status")
  BY <1>1, <1>4, JournalledKeeps DEF Reconcile, Drive, D, JournalStates
<1> QED BY <1>3, <1>4 DEF Reconcile

\* An accepted dispatch is resumed at its status.
LEMMA ResumeAcceptedKeeps ==
    ASSUME IInv, ResumeAccepted
    PROVE  IInv'
<1>1. Mem = saved /\ saved.slice # 0
  BY DriverAt DEF ResumeAccepted, D
<1>2. Called /\ JournalKept'
  BY <1>1 DEF IInv, CampaignInv, TypeOK, JournalKept, ResumeAccepted, Think, Called
<1> QED BY <1>1, <1>2, ThinkKeeps DEF ResumeAccepted, Drive, D, DriverPcs

\* The driver dies; what is saved is all that is left.
LEMMA DriverCrashKeeps ==
    ASSUME IInv, DriverCrash
    PROVE  IInv'
<1>1. SameWork(saved, saved') /\ Called /\ Driven /\ JournalKept'
  BY NoDriverIs DEF IInv, CampaignInv, TypeOK, JournalKept, DriverCrash, SameWork, Called, Driven
<1> QED BY <1>1, DriveOffers, SameWorkKeeps DEF DriverCrash

\* The campaign waits for a result, or is blocked by its absence.
LEMMA NoResultKeeps ==
    ASSUME IInv, NoResult
    PROVE  IInv'
<1>1. Mem = saved /\ saved \in Campaigns /\ saved.slice # 0 /\ saved.status \notin Terminal
      /\ saved.slice \in Slices
  BY DriverAt DEF NoResult, D
<1>2. Called
  BY DEF IInv, CampaignInv, TypeOK, NoResult, Called
<1>3. CASE Return([Mem EXCEPT !.status = "WAITING"])
  <2>1. /\ SameWork(saved, saved') /\ saved'.status = "WAITING" /\ saved'.stale = saved.stale
        /\ saved'.journal = saved.journal
    BY <1>1, <1>3 DEF Return, SameWork, Campaigns
  <2>2. Driven /\ JournalKept'
    BY <1>1, <1>3, <2>1, NoDriverIs DEF IInv, CampaignInv, JournalKept, NoResult, Return, Driven, SameWork
  <2> QED BY <1>1, <1>2, <2>1, <2>2, DriveOffers, SameWorkKeeps DEF NoResult, Drive
<1>4. CASE Return(Unavailable(Mem))
  <2>1. saved.bound /\ calls'[saved.slice] # 0 =>
            saved.journal[saved.slice].state \in {"DISPATCH_INTENT", "ACCEPTED", "TERMINAL"}
    BY <1>1 DEF IInv, CampaignInv, JournalKept, NoResult
  <2> QED BY <1>2, <1>4, <2>1, UnavailableKeeps DEF NoResult, Drive, D
<1> QED BY <1>3, <1>4 DEF NoResult

\* The campaign stops at a slice, with or without having counted a repetition.
LEMMA StoppedKeeps ==
    ASSUME IInv, D("status"), UNCHANGED calls, Drive,
           Return(Stopped) \/ Return([Stopped EXCEPT !.stale = @ + 1])
    PROVE  IInv'
<1>1. Mem = saved /\ saved \in Campaigns /\ saved.slice # 0 /\ saved.status \notin Terminal
      /\ saved.slice \in Slices /\ saved.stale <= MaxNoProgress
  BY DriverAt DEF D, IInv, CampaignInv, Progress
<1> DEFINE n == Decided(saved, "BLOCKED")
<1>2. /\ SameWork(saved, n) /\ n.stale = saved.stale
      /\ \A s \in Slices : n.journal[s] = IF saved.bound /\ s = saved.slice
                                          THEN [state |-> "TERMINAL", decision |-> "BLOCKED"]
                                          ELSE saved.journal[s]
  BY <1>1, DecidedIs DEF Decisions
<1>3. saved' = [n EXCEPT !.status = "BLOCKED"]
      \/ saved' = [n EXCEPT !.status = "BLOCKED", !.stale = @ + 1]
  <2>1. Stopped = [n EXCEPT !.status = "BLOCKED"]
    BY <1>1 DEF Stopped
  <2>2. [Stopped EXCEPT !.stale = @ + 1] = [n EXCEPT !.status = "BLOCKED", !.stale = @ + 1]
    BY <1>2, <2>1 DEF SameWork, Campaigns
  <2> QED BY <2>1, <2>2 DEF Return
<1> HIDE DEF n
<1>4. SameWork(saved, saved') /\ saved'.status = "BLOCKED" /\ saved'.journal = n.journal
  <2>1. n \in Campaigns /\ n.stale \in Nat /\ n.stale + 1 \in 0..(MaxNoProgress + 1) /\ "BLOCKED" \in Terminal
    BY <1>1, <1>2, MaxNoProgressIsNat DEF SameWork, Campaigns, Terminal
  <2>2. CASE saved' = [n EXCEPT !.status = "BLOCKED"]
    BY <1>2, <2>1, <2>2 DEF SameWork, Campaigns
  <2>3. CASE saved' = [n EXCEPT !.status = "BLOCKED", !.stale = @ + 1]
    BY <1>2, <2>1, <2>3 DEF SameWork, Campaigns
  <2> QED BY <1>3, <2>2, <2>3
<1>5. Called /\ Driven /\ driver'.pc = "idle"
  BY NoDriverIs DEF IInv, CampaignInv, TypeOK, Called, Return, Driven
<1>6. JournalKept'
  BY <1>1, <1>2, <1>4, <1>5 DEF IInv, CampaignInv, JournalKept, SameWork, Terminal
<1> QED BY <1>4, <1>5, <1>6, DriveOffers, SameWorkKeeps DEF Terminal

\* A slice that is completed is done, and the next one is up.
LEMMA ContinuedKeeps ==
    ASSUME IInv, HasResult, NEW stale \in 0..MaxNoProgress, Return(Continued(stale)), UNCHANGED calls, Drive
    PROVE  IInv'
<1>1. /\ Mem = saved /\ saved \in Campaigns /\ saved.slice # 0 /\ saved.status \notin Terminal
      /\ saved.slice \in Slices /\ saved.slice = Len(saved.done) + 1 /\ Current \in Handoffs
  BY DriverAt DEF HasResult, D
<1> DEFINE d == IF saved.slice < Len(Plan) THEN "CONTINUE" ELSE "DONE"
           n == Decided(saved, d)
<1>2. /\ SameWork(saved, n)
      /\ \A s \in Slices : n.journal[s] = IF saved.bound /\ s = saved.slice
                                          THEN [state |-> "TERMINAL", decision |-> d] ELSE saved.journal[s]
  BY <1>1, DecidedIs DEF Decisions
<1>3. saved' = [n EXCEPT !.status = "CONTINUE", !.slice = 0, !.done = Append(@, saved.slice),
                         !.stale = stale, !.seen = TRUE]
  BY <1>1 DEF Return, Continued, Slice
<1>4. d # "BLOCKED_NO_DISPATCH"
  OBVIOUS
<1> HIDE DEF n, d
<1>5. saved.done \in Seq(Slices) /\ Append(saved.done, saved.slice) \in Seq(Slices)
  BY <1>1 DEF Campaigns
<1>6. /\ saved'.status = "CONTINUE" /\ saved'.slice = 0 /\ saved'.done = Append(saved.done, saved.slice)
      /\ saved'.stale = stale /\ saved'.bound = saved.bound /\ saved'.journal = n.journal
  BY <1>2, <1>3 DEF SameWork, Campaigns
<1>7. saved' \in Campaigns
  <2>1. n \in Campaigns /\ Append(n.done, saved.slice) \in Seq(Slices)
    BY <1>2, <1>5 DEF SameWork
  <2>2. 0 \in 0..Len(Plan) /\ stale \in 0..(MaxNoProgress + 1)
    BY PlanFacts, MaxNoProgressIsNat
  <2> QED BY <1>3, <2>1, <2>2 DEF Campaigns
<1>8. driver' = NoDriver /\ driver'.pc = "idle"
  BY NoDriverIs DEF Return
<1>9. HandoffInv' /\ Offered
  BY DriveOffers, OfferKeeps DEF IInv
<1>10. TypeOK' /\ DriverHolds'
  BY <1>7, <1>8, <1>9, NoDriverIs DEF IInv, HandoffInv, CampaignInv, TypeOK, DriverHolds
<1>11. /\ Len(saved'.done) = Len(saved.done) + 1
       /\ \A i \in 1..Len(saved.done) : saved'.done[i] = saved.done[i]
       /\ saved'.done[saved.slice] = saved.slice
  BY <1>1, <1>5, <1>6
<1>12. Progress'
  BY <1>1, <1>5, <1>6, <1>11, PlanFacts, MaxNoProgressIsNat DEF IInv, CampaignInv, Progress
<1>13. JournalKept'
  BY <1>1, <1>2, <1>4, <1>6, <1>8 DEF IInv, CampaignInv, JournalKept
<1>14. DispatchJournalled'
  BY <1>13 DEF IInv, CampaignInv, JournalKept, DispatchJournalled, DispatchedOnce, NoDispatchIsTrue
<1>15. DoneInOrder'
  <2>1. /\ result[Plan[saved.slice]] = "completed"
        /\ ran[Plan[saved.slice]] = 1 /\ again[Plan[saved.slice]] <= 1
    BY <1>1, PlanFacts DEF HasResult, Current, Slice, IInv, HandoffInv, HandoffTypeOK, Files
  <2>2. DOMAIN saved'.done = 1..Len(saved'.done) /\ DOMAIN saved.done = 1..Len(saved.done)
    BY <1>5, <1>6
  <2> QED BY <1>1, <1>5, <1>6, <1>9, <1>11, <2>1, <2>2 DEF IInv, CampaignInv, DoneInOrder, Offered
<1> QED BY <1>9, <1>10, <1>12, <1>13, <1>14, <1>15 DEF IInv, CampaignInv

\* The steps at the result of a slice.
LEMMA ResultKeeps ==
    ASSUME IInv, SliceFails \/ SliceProgresses \/ SliceRepeats
    PROVE  IInv'
<1>1. CASE SliceFails
  BY <1>1, StoppedKeeps DEF SliceFails, Drive
<1>2. CASE SliceProgresses
  BY <1>2, ContinuedKeeps, MaxNoProgressIsNat DEF SliceProgresses, Drive
<1>3. CASE SliceRepeats
  <2>1. Mem.stale \in Nat
    BY <1>3, DriverAt, MaxNoProgressIsNat DEF SliceRepeats, HasResult, D, Campaigns
  <2>2. CASE Mem.stale + 1 > MaxNoProgress
    BY <1>3, <2>2, StoppedKeeps DEF SliceRepeats, HasResult, Drive
  <2>3. CASE ~(Mem.stale + 1 > MaxNoProgress)
    BY <1>3, <2>1, <2>3, ContinuedKeeps, MaxNoProgressIsNat DEF SliceRepeats, Drive
  <2> QED BY <2>2, <2>3
<1> QED BY <1>1, <1>2, <1>3

\* The plan is through, or the next slice is selected.
LEMMA SelectKeeps ==
    ASSUME IInv, PlanDone \/ SelectNext
    PROVE  IInv'
<1>1. Mem = saved /\ saved \in Campaigns /\ saved.slice = 0 /\ saved.status \notin Terminal
  BY DriverAt DEF PlanDone, SelectNext, D, Slice
<1>2. HandoffInv' /\ Offered
  BY DriveOffers, OfferKeeps DEF IInv, Drive
<1>3. CASE PlanDone
  <2>1. saved' = [saved EXCEPT !.status = "DONE"] /\ driver' = NoDriver /\ Len(saved.done) = Len(Plan)
        /\ UNCHANGED calls
    BY <1>1, <1>3 DEF PlanDone, Return
  <2>2. saved' \in Campaigns /\ saved'.status = "DONE" /\ saved'.slice = 0 /\ saved'.done = saved.done
        /\ saved'.stale = saved.stale /\ saved'.bound = saved.bound /\ saved'.journal = saved.journal
    BY <1>1, <2>1 DEF Campaigns, Terminal
  <2>3. TypeOK' /\ DriverHolds'
    BY <1>2, <2>1, <2>2, NoDriverIs DEF IInv, HandoffInv, CampaignInv, TypeOK, DriverHolds
  <2>4. Progress'
    BY <1>1, <2>1, <2>2 DEF IInv, CampaignInv, Progress, Terminal
  <2>5. JournalKept' /\ DispatchJournalled'
    BY <2>1, <2>2, NoDriverIs DEF IInv, CampaignInv, JournalKept, DispatchJournalled, DispatchedOnce,
                                  NoDispatchIsTrue, Terminal
  <2>6. DoneInOrder'
    BY <1>2, <2>1, <2>2 DEF IInv, CampaignInv, DoneInOrder, Offered
  <2> QED BY <1>2, <2>3, <2>4, <2>5, <2>6 DEF IInv, CampaignInv
<1>4. CASE SelectNext
  <2>1. /\ saved' = [saved EXCEPT !.slice = Len(saved.done) + 1] /\ UNCHANGED calls
        /\ driver' = [pc |-> "dispatch", mem |-> saved'] /\ Len(saved.done) < Len(Plan)
        /\ Len(saved.done) \in Nat
    BY <1>1, <1>4 DEF SelectNext, Save, Campaigns
  <2>2. saved' \in Campaigns /\ saved'.status = saved.status /\ saved'.slice = Len(saved.done) + 1
        /\ saved'.done = saved.done
        /\ saved'.stale = saved.stale /\ saved'.bound = saved.bound /\ saved'.journal = saved.journal
    BY <1>1, <2>1, PlanFacts DEF Campaigns
  <2>3. TypeOK' /\ DriverHolds'
    <3>1. driver'.pc = "dispatch" /\ driver'.mem = saved' /\ saved'.slice # 0
      BY <2>1, <2>2
    <3> QED BY <1>1, <1>2, <2>1, <2>2, <3>1 DEF IInv, HandoffInv, CampaignInv, TypeOK, DriverHolds
  <2>4. Progress'
    BY <1>1, <2>1, <2>2 DEF IInv, CampaignInv, Progress
  <2>5. calls[saved'.slice] = 0
    BY <1>1, <2>1, <2>2, PlanFacts DEF IInv, CampaignInv, Progress
  <2>6. JournalKept' /\ DispatchJournalled'
    BY <2>1, <2>2, <2>5 DEF IInv, CampaignInv, JournalKept, DispatchJournalled, DispatchedOnce,
                            NoDispatchIsTrue
  <2>7. DoneInOrder'
    BY <1>2, <2>1, <2>2 DEF IInv, CampaignInv, DoneInOrder, Offered
  <2> QED BY <1>2, <2>3, <2>4, <2>6, <2>7 DEF IInv, CampaignInv
<1> QED BY <1>3, <1>4

-----------------------------------------------------------------------------
(***************************************************************************)
(* What a step of the handoffs never takes back.                           *)
(***************************************************************************)

Recorded ==
    \A h \in Handoffs :
        /\ result[h] # "none" => result'[h] = result[h]
        /\ receipt[h] = "finalized" => receipt'[h] = "finalized"

\* A recorded result and a finalized receipt stay.
LEMMA HandoffRecords ==
    ASSUME HandoffInv, HandoffNext
    PROVE  Recorded
<1> USE DEF HandoffInv, Recorded
<1>1. CASE UNCHANGED <<result, receipt>>
  BY <1>1
<1>2. ASSUME NEW p \in Procs, WriteResult(p)
      PROVE  Recorded
  BY <1>2 DEF WriteResult, At, Placed, PlacedAt, Before, HandoffTypeOK
<1>3. ASSUME NEW p \in Procs, WriteReceipt(p)
      PROVE  Recorded
  <2>1. proc[p].h \in Handoffs /\ Executes(p, proc[p].h) /\ ~Publishes(p, proc[p].h)
    BY <1>3 DEF WriteReceipt, At, Placed, PlacedAt, Executes, Publishes, Sealing, Closing, HandoffTypeOK
  <2>2. receipt[proc[p].h] # "finalized"
    BY <2>1 DEF Alone, Files
  <2> QED BY <1>3, <2>1, <2>2 DEF WriteReceipt, HandoffTypeOK
<1>4. ASSUME NEW p \in Procs, Truncate(p) \/ Rewrite(p)
      PROVE  Recorded
  BY <1>4 DEF Truncate, Rewrite, At, Placed, PlacedAt, HandoffTypeOK
<1> QED BY <1>1, <1>2, <1>3, <1>4
    DEF HandoffNext, Work, AcceptRead, AcceptWrite, ExecuteLoad, FinalizeLoad, Claim, Queue, GateFails, Start,
        DispatchFails, Run, Retry, WriteStatus, SealCheck, SealCopy, SealWrite, Publish, PublishFails, Finish, Crash

\* A step of the handoffs alone leaves the campaign as it was; what it counted stays true.
LEMMA HandoffsLeaveCampaign ==
    ASSUME IInv, HandoffNext, UNCHANGED campaignVars
    PROVE  IInv'
<1>1. HandoffInv' /\ Recorded
  BY HandoffKeeps, HandoffRecords DEF IInv
<1>2. TypeOK' /\ DriverHolds' /\ Progress' /\ JournalKept' /\ DispatchJournalled'
  BY <1>1 DEF IInv, CampaignInv, HandoffInv, campaignVars, TypeOK, DriverHolds, Progress, JournalKept,
              DispatchJournalled, DispatchedOnce, NoDispatchIsTrue
<1>3. DoneInOrder'
  <2>1. ASSUME NEW i \in DOMAIN saved.done
        PROVE  saved.done[i] = i /\ Plan[i] \in Handoffs
    BY PlanFacts DEF IInv, CampaignInv, TypeOK, DoneInOrder, Campaigns, Progress
  <2>2. ASSUME NEW i \in DOMAIN saved.done
        PROVE  result'[Plan[i]] = "completed" /\ ran'[Plan[i]] = 1 /\ again'[Plan[i]] <= 1
    BY <1>1, <2>1 DEF IInv, CampaignInv, DoneInOrder, Recorded, HandoffInv, HandoffTypeOK, Files
  <2> QED BY <2>1, <2>2 DEF IInv, CampaignInv, DoneInOrder, campaignVars
<1> QED BY <1>1, <1>2, <1>3 DEF IInv, CampaignInv

\* The campaign starts with an empty record.
LEMMA InitInv == Init => IInv
<1> SUFFICES ASSUME Init PROVE IInv
  OBVIOUS
<1>1. HandoffInv
  BY HandoffInitInv DEF Init
<1>2. PICK bound \in BOOLEAN : saved = NewCampaign(bound)
  BY DEF Init
<1>3. /\ saved \in Campaigns /\ saved.status = "CONTINUE" /\ saved.slice = 0 /\ saved.stale = 0
      /\ saved.done = <<>>
      /\ \A s \in Slices : saved.journal[s].state = "NOT_DISPATCHED" /\ saved.journal[s].decision = "none"
  BY <1>2, NewCampaignIs DEF NewCampaign
<1>4. /\ driver.pc = "idle" /\ driver.mem \in Campaigns /\ calls \in [Slices -> Nat]
      /\ \A s \in Slices : calls[s] = 0
  BY NoDriverIs DEF Init
<1>5. TypeOK /\ DriverHolds
  BY <1>1, <1>3, <1>4 DEF HandoffInv, TypeOK, DriverHolds
<1>6. Progress
  BY <1>3, <1>4, PlanFacts, MaxNoProgressIsNat DEF Progress
<1>7. JournalKept
  BY <1>3, <1>4 DEF JournalKept
<1>8. DispatchJournalled
  BY <1>3, <1>4 DEF DispatchJournalled, DispatchedOnce, NoDispatchIsTrue
<1>9. DoneInOrder
  BY <1>3 DEF DoneInOrder
<1> QED BY <1>1, <1>5, <1>6, <1>7, <1>8, <1>9 DEF IInv, CampaignInv

\* Every step keeps the invariant.
LEMMA NextKeeps == IInv /\ [Next]_vars => IInv'
<1> SUFFICES ASSUME IInv, [Next]_vars PROVE IInv'
  OBVIOUS
<1>1. CASE HandoffNext /\ UNCHANGED campaignVars
  BY <1>1, HandoffsLeaveCampaign
<1>2. CASE Drive
  BY <1>2, LoadKeeps, SelectKeeps, SelectBlockedKeeps, ResumeKeeps, DispatchUnboundKeeps, DispatchBlockedKeeps,
     JournalStepKeeps, PrepareKeeps, DispatchKeeps, ReconcileKeeps, ResumeAcceptedKeeps, NoResultKeeps, ResultKeeps
  DEF Drive, SelectBlocked
<1>3. CASE DriverCrash
  BY <1>3, DriverCrashKeeps
<1>4. CASE UNCHANGED vars
  <2>1. Offered
    BY <1>4 DEF IInv, HandoffInv, HandoffTypeOK, Offered, vars, handoffVars
  <2>2. HandoffInv'
    BY <2>1, OfferKeeps DEF IInv
  <2> QED BY <1>4, <2>2
      DEF IInv, HandoffInv, CampaignInv, vars, handoffVars, campaignVars, TypeOK, DriverHolds, Progress, JournalKept,
          DispatchJournalled, DispatchedOnce, NoDispatchIsTrue, DoneInOrder
<1> QED BY <1>1, <1>2, <1>3, <1>4 DEF Next

\* The inductive invariant holds.
LEMMA Invariant == Spec => []IInv
BY InitInv, NextKeeps, PTL DEF Spec

\* A report is final exactly when a result is recorded or the receipt is finalized.
LEMMA FinalIs ==
    ASSUME HandoffInv, NEW h \in Handoffs
    PROVE  /\ Reported(h) \in Final <=> result[h] # "none"
           /\ Reported(h) = "finalized" <=> receipt[h] = "finalized"
BY DEF HandoffInv, HandoffTypeOK, Files, Reported, Final, Outcomes, States, Receipts

\* So a report that is final stays final.
LEMMA NextStands == IInv /\ [Next]_vars => [ReportStands]_vars
<1> SUFFICES ASSUME IInv, Next PROVE ReportStands
  BY DEF ReportStands, Reported, vars, handoffVars
<1>1. HandoffInv /\ HandoffInv'
  BY NextKeeps DEF IInv
<1>2. Recorded
  BY HandoffRecords, DriveOffers DEF IInv, Next, Offered, Recorded
<1>3. ASSUME NEW h \in Handoffs
      PROVE  /\ Reported(h)' \in Final <=> result'[h] # "none"
             /\ Reported(h)' = "finalized" <=> receipt'[h] = "finalized"
  BY <1>1 DEF HandoffInv, HandoffTypeOK, Files, Reported, Final, Outcomes, States, Receipts
<1> QED BY <1>1, <1>2, <1>3, FinalIs DEF ReportStands, Recorded

-----------------------------------------------------------------------------
(***************************************************************************)
(* The abstract handoff.                                                   *)
(***************************************************************************)

\* A claim takes the handoff.
LEMMA ClaimTakes ==
    ASSUME HandoffInv, NEW p \in Procs, Claim(p)
    PROVE  Outcome!Next \/ UNCHANGED <<claim, result, bundle>>
<1>1. CASE proc[p].h \in claim
  BY <1>1 DEF Claim
<1>2. CASE proc[p].h \notin claim
  <2>1. proc[p].h \in Handoffs /\ result[proc[p].h] = "none"
    BY <1>2 DEF HandoffInv, HandoffTypeOK, Placed, PlacedAt, Files, Claim, At
  <2>2. Outcome!Take(proc[p].h)
    BY <1>2, <2>1 DEF Outcome!Take, Claim, Phase
  <2> QED BY <2>1, <2>2 DEF Outcome!Next
<1> QED BY <1>1, <1>2

\* The result records the outcome.
LEMMA ResultRecords ==
    ASSUME HandoffInv, NEW p \in Procs, WriteResult(p)
    PROVE  Outcome!Next
<1>1. /\ proc[p].h \in Handoffs /\ result[proc[p].h] = "none" /\ proc[p].h \in claim
      /\ proc[p].outcome \in Outcomes
  BY DEF HandoffInv, HandoffTypeOK, Placed, PlacedAt, Before, WriteResult, At
<1>2. Outcome!Record(proc[p].h, proc[p].outcome)
  BY <1>1 DEF HandoffInv, HandoffTypeOK, Outcome!Record, WriteResult, Phase, Outcomes
<1> QED BY <1>1, <1>2 DEF Outcome!Next

\* The bundle publishes it.
LEMMA PublishPublishes ==
    ASSUME HandoffInv, NEW p \in Procs, Publish(p)
    PROVE  Outcome!Next
<1>1. proc[p].h \in Handoffs /\ result[proc[p].h] # "none" /\ bundle[proc[p].h] = "none"
  BY DEF HandoffInv, HandoffTypeOK, Placed, PlacedAt, Sealing, Publish, At
<1>2. Outcome!Publish(proc[p].h)
  BY <1>1 DEF Outcome!Publish, Outcome!Nothing, Publish, Phase
<1> QED BY <1>1, <1>2 DEF Outcome!Next

\* Nothing else touches what the abstract handoff shows.
LEMMA HandoffImplements ==
    ASSUME HandoffInv, HandoffNext
    PROVE  Outcome!Next \/ UNCHANGED <<claim, result, bundle>>
BY ClaimTakes, ResultRecords, PublishPublishes
DEF HandoffNext, Work, AcceptRead, AcceptWrite, ExecuteLoad, FinalizeLoad, Queue, GateFails, Start,
    DispatchFails, Run, Retry, WriteReceipt, WriteStatus, SealCheck, SealCopy, SealWrite, PublishFails,
    Truncate, Rewrite, Finish, Crash

\* Every step maps to a step of HandoffOutcome or to none.
LEMMA NextImplements == IInv /\ [Next]_vars => [Outcome!Next]_(Outcome!vars)
<1> SUFFICES ASSUME IInv, [Next]_vars PROVE Outcome!Next \/ UNCHANGED Outcome!vars
  OBVIOUS
<1>1. Outcome!Next \/ UNCHANGED <<claim, result, bundle>>
  BY HandoffImplements, DriveOffers DEF IInv, Next, Offered, vars, handoffVars
<1>2. CASE UNCHANGED <<claim, result, bundle>>
  BY <1>2 DEF Outcome!vars, Phase
<1> QED BY <1>1, <1>2

\* It starts as HandoffOutcome starts.
LEMMA InitImplements == Init => Outcome!Init
BY DEF Init, HandoffInit, Outcome!Init, Outcome!Nothing, Phase

-----------------------------------------------------------------------------
(***************************************************************************)
(* The theorems.                                                           *)
(***************************************************************************)

\* The files, the processes and the campaign stay well formed.
THEOREM CampaignType == Spec => []TypeOK
<1>1. IInv => TypeOK
  BY DEF IInv, CampaignInv
<1> QED BY <1>1, Invariant, PTL

\* commands/handoff.py: however execute-agent, accept-agent and finalize-agent are called,
\* and wherever they die, a handoff's runner is called by one execution only, before any
\* result, and called again only once, when the first call raised a TypeError.
THEOREM HandoffExecutedOnce == Spec => []ExecutedOnce
<1>1. IInv => ExecutedOnce
  BY DEF IInv, HandoffInv, Files, Placed, PlacedAt, Before, ExecutedOnce
<1> QED BY <1>1, Invariant, PTL

\* commands/handoff.py, trust_layer.py: a receipt or a state that says finalized has a
\* published bundle, which holds the recorded result.
THEOREM FinalizedHasEvidence == Spec => []EvidenceTrue
<1>1. IInv => EvidenceTrue
  BY DEF IInv, HandoffInv, Files, EvidenceTrue
<1> QED BY <1>1, Invariant, PTL

\* _handoff_status_payload: no step takes back an outcome or a finalization that was
\* reported, whatever is written over the state sidecar.
THEOREM StatusStands == Spec => ReportsStand
<1>1. IInv /\ [Next]_vars => [ReportStands]_vars
  BY NextStands
<1> QED BY <1>1, Invariant, PTL DEF Spec, ReportsStand

\* campaign_loop.py: a slice is handed to its dispatcher at most once, and the journal
\* says "no dispatch" only where there was none.
THEOREM CampaignJournalled == Spec => []DispatchJournalled
<1>1. IInv => DispatchJournalled
  BY DEF IInv, CampaignInv
<1> QED BY <1>1, Invariant, PTL

\* campaign_loop.py: the campaign goes through its plan in order, counting a slice only
\* on the completed result its one execution recorded, after one call of the runner or a
\* second one behind a TypeError.
THEOREM CampaignInOrder == Spec => []DoneInOrder
<1>1. IInv => DoneInOrder
  BY DEF IInv, CampaignInv
<1> QED BY <1>1, Invariant, PTL

\* Handoffs implement HandoffOutcome: one claim, then one outcome, then one bundle of it.
THEOREM HandoffsImplementOutcome == Spec => RefinesOutcome
<1>1. Init => Outcome!Init
  BY InitImplements
<1>2. IInv /\ [Next]_vars => [Outcome!Next]_(Outcome!vars)
  BY NextImplements
<1> QED BY <1>1, <1>2, Invariant, PTL DEF Spec, RefinesOutcome, Outcome!Spec
=============================================================================
