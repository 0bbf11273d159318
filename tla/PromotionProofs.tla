--------------------------- MODULE PromotionProofs ---------------------------
(***************************************************************************)
(* Proofs about promote-main, for any number of invocations, hosts,        *)
(* candidates, files, direct pushes and crashes.                           *)
(***************************************************************************)
EXTENDS Promotion, TLAPS

-----------------------------------------------------------------------------
(***************************************************************************)
(* The inductive invariant.                                                *)
(***************************************************************************)

\* The invocation has the lock of its host.
Locked == {"planning", "executing", "pushing", "refetch", "reconcile", "closeout",
           "reverting", "revertpush"}

\* It has pushed, and was answered.
Answered == {"refetch", "reconcile", "closeout"}

\* What the plan has found out: commit n is as the candidate c left main, where c edits.
Fits(c, n) ==
    /\ ~Merged(c, n)
    /\ EnvPath \notin cand[c].paths
    /\ \A f \in cand[c].paths : main[n].tree[f] = main[cand[c].base].tree[f]

\* The bundle that p promotes is the commit it put on main, after the one it expected.
IsPromoted(p) ==
    /\ landed[p] = proc[p].expected + 1
    /\ main[landed[p]].kind = "promote"
    /\ main[landed[p]].cand = proc[p].cand
    /\ main[landed[p]].gitops = proc[p].gitops

\* Where p stands, and what it knows of main and of its candidate.
Stands(p) ==
    LET s == proc[p]
    IN  /\ s.pc # "idle" => s.expected \in 1..Len(main)
        /\ s.pc = "begin" => s.cmd # "none"
        /\ s.pc \in {"planning", "planned", "executing", "pushing"} \cup Answered =>
              s.cmd \in {"dry-run", "push"}
        /\ s.cmd \in {"dry-run", "push"} => s.cand \in Cands /\ cand[s.cand] # Unborn
        /\ s.pc \in {"planned", "executing", "pushing"} => Fits(s.cand, s.expected)
        /\ s.pc = "pushing" => ~FindExistingPromotion(s.cand, s.gitops, s.expected, s.expected)
        /\ s.pc = "revertpush" =>
              /\ s.seen \in 1..Len(main) /\ main[s.expected].kind = "promote"
              /\ \E f \in Paths : main[s.expected].cand \in main[s.seen].tree[f]

\* What p has put on main and what its audit record says.
Accounts(p) ==
    /\ proc[p].pc \notin Answered \cup {"done", "dead"} => landed[p] = 0
    /\ proc[p].pc \in Answered => IsPromoted(p)
    /\ proc[p].pc # "done" => audit[p].status \in {"none", "ready"}

\* A lock file names its holder, and only the holder touches the compat lock.
Holds(p) ==
    /\ proc[p].pc \in Locked => lock[HostOf[p]] = p
    /\ proc[p].pc = "reconcile" => compat[HostOf[p]] <= proc[p].seen

\* A candidate left main at a commit that main has.
CandsBorn == \A c \in Cands : cand[c] # Unborn => cand[c].base \in 1..Len(main)

IInv ==
    /\ TypeOK /\ CandsBorn
    /\ \A p \in Procs : Stands(p) /\ Accounts(p) /\ Holds(p)
    /\ AuditIsTrue

-----------------------------------------------------------------------------
(***************************************************************************)
(* What is stable.                                                         *)
(***************************************************************************)

Process(n) == [pc : Pcs, cmd : {"none", "dry-run", "push", "revert"}, cand : Cands \cup {None},
               gitops : BOOLEAN, expected : 0..n, seen : 0..n]
Audits == [status : {"none", "ready", "rejected", "failed", "promoted"}, pushed : BOOLEAN]
Candidates == [base : Nat, paths : SUBSET Paths]

\* Main only grows, and a candidate is committed once.
Grows ==
    /\ main' \in Seq(Commits) /\ Len(main) <= Len(main')
    /\ \A i \in 1..Len(main) : main'[i] = main[i]
    /\ cand' \in [Cands -> Candidates]
    /\ \A c \in Cands : cand[c] # Unborn => cand'[c] = cand[c]

\* What TypeOK says, by name.
LEMMA TypeFacts ==
    ASSUME TypeOK
    PROVE  /\ main \in Seq(Commits) /\ Len(main) \in Nat /\ Len(main) >= 1
           /\ \A i \in 1..Len(main) : main[i] \in Commits
           /\ cand \in [Cands -> Candidates] /\ lock \in [Hosts -> Procs \cup {None}]
           /\ compat \in [Hosts -> 1..Len(main)] /\ proc \in [Procs -> Process(Len(main))]
           /\ audit \in [Procs -> Audits] /\ landed \in [Procs -> 0..Len(main)]
           /\ faults \in [elsewhere : Nat, crashes : Nat]
BY DEF TypeOK, Process, Audits, Candidates

\* A prefix of main says the same of a candidate for ever.
LEMMA FitsStays ==
    ASSUME TypeOK, CandsBorn, Grows, NEW c \in Cands, cand[c] # Unborn, NEW n \in 1..Len(main)
    PROVE  /\ Merged(c, n)' <=> Merged(c, n)
           /\ Fits(c, n)' <=> Fits(c, n)
<1>1. cand'[c] = cand[c] /\ cand[c].base \in 1..Len(main) /\ main'[cand[c].base] = main[cand[c].base]
  BY DEF CandsBorn, Grows
<1>2. \A i \in 1..n : main'[i] = main[i]
  BY TypeFacts DEF Grows
<1>3. main'[n] = main[n]
  BY DEF Grows
<1>4. Merged(c, n)' <=> Merged(c, n)
  BY <1>2 DEF Merged
<1> QED BY <1>1, <1>3, <1>4 DEF Fits

\* So does it of what was promoted.
LEMMA FoundStays ==
    ASSUME TypeOK, Grows, NEW c, NEW g, NEW e, NEW n \in 1..Len(main)
    PROVE  FindExistingPromotion(c, g, e, n)' <=> FindExistingPromotion(c, g, e, n)
<1>1. \A i \in 1..n : main'[i] = main[i]
  BY TypeFacts DEF Grows
<1> QED BY <1>1 DEF FindExistingPromotion

\* An invocation that does not move stands where it stood.
LEMMA StandsStays ==
    ASSUME TypeOK, CandsBorn, Grows, NEW q \in Procs, Stands(q), proc'[q] = proc[q]
    PROVE  Stands(q)'
<1> DEFINE s == proc[q]
<1>1. Len(main) \in Nat /\ Len(main') \in Nat /\ \A i \in 1..Len(main) : i \in 1..Len(main')
  BY TypeFacts DEF Grows
<1>2. s.pc # "idle" => s.expected \in 1..Len(main) /\ main'[s.expected] = main[s.expected]
  BY DEF Stands, Grows
<1>3. s.cmd \in {"dry-run", "push"} => s.cand \in Cands /\ cand[s.cand] # Unborn /\ cand'[s.cand] # Unborn
  BY DEF Stands, Grows
<1>4. s.pc \in {"planned", "executing", "pushing"} => Fits(s.cand, s.expected)'
  <2> SUFFICES ASSUME s.pc \in {"planned", "executing", "pushing"}
               PROVE  Fits(s.cand, s.expected)'
    OBVIOUS
  <2>1. /\ s.expected \in 1..Len(main) /\ s.cand \in Cands /\ cand[s.cand] # Unborn
        /\ Fits(s.cand, s.expected)
    BY DEF Stands
  <2>2. \A n \in 1..Len(main) : Fits(s.cand, n)' <=> Fits(s.cand, n)
    BY <2>1, FitsStays
  <2>3. s' = s
    OBVIOUS
  <2> QED BY <2>1, <2>2, <2>3 DEF Fits, Merged
<1>5. s.pc = "pushing" => ~FindExistingPromotion(s.cand, s.gitops, s.expected, s.expected)'
  <2> SUFFICES ASSUME s.pc = "pushing"
               PROVE  ~FindExistingPromotion(s.cand, s.gitops, s.expected, s.expected)'
    OBVIOUS
  <2>1. s.expected \in 1..Len(main) /\ ~FindExistingPromotion(s.cand, s.gitops, s.expected, s.expected)
    BY DEF Stands
  <2>2. \A i \in 1..s.expected : main'[i] = main[i]
    BY <1>1, <2>1 DEF Grows
  <2> QED BY <2>1, <2>2 DEF FindExistingPromotion
<1>6. s.pc = "revertpush" =>
          /\ s.seen \in 1..Len(main') /\ main'[s.expected].kind = "promote"
          /\ \E f \in Paths : main'[s.expected].cand \in main'[s.seen].tree[f]
  BY <1>1, <1>2 DEF Stands, Grows
<1> QED BY <1>1, <1>2, <1>3, <1>4, <1>5, <1>6 DEF Stands

-----------------------------------------------------------------------------
(***************************************************************************)
(* A step of one invocation.                                               *)
(***************************************************************************)

\* What AuditIsTrue says of p.
AuditOf(p) ==
    /\ audit[p].status \in {"rejected", "failed"} /\ ~audit[p].pushed => landed[p] = 0
    /\ audit[p].status = "promoted" => IsPromoted(p)

\* Nobody but p moves; it touches the lock of its host when that is free or its own,
\* and the compat lock only when it holds the lock.
Moves(p) ==
    /\ proc' \in [Procs -> Process(Len(main'))]
    /\ audit' \in [Procs -> Audits] /\ landed' \in [Procs -> 0..Len(main')]
    /\ \A q \in Procs : q # p => proc'[q] = proc[q] /\ audit'[q] = audit[q] /\ landed'[q] = landed[q]
    /\ lock' \in [Hosts -> Procs \cup {None}] /\ compat' \in [Hosts -> 1..Len(main')]
    /\ \A h \in Hosts : h # HostOf[p] => lock'[h] = lock[h] /\ compat'[h] = compat[h]
    /\ UNCHANGED lock \/ lock[HostOf[p]] \in {None, p}
    /\ UNCHANGED compat \/ lock[HostOf[p]] = p
    /\ faults' \in [elsewhere : Nat, crashes : Nat]

\* The others keep what they know and what they hold.
LEMMA MovesKeeps ==
    ASSUME IInv, Grows, NEW p \in Procs, Moves(p), CandsBorn',
           Stands(p)', Accounts(p)', Holds(p)', AuditOf(p)'
    PROVE  IInv'
<1> USE DEF IInv
<1>1. TypeOK'
  <2>1. main' # <<>>
    BY TypeFacts DEF Grows
  <2> QED BY <2>1 DEF Grows, Moves, TypeOK, Process, Audits, Candidates
<1>2. ASSUME NEW q \in Procs, q # p
      PROVE  Stands(q)' /\ Accounts(q)' /\ Holds(q)' /\ AuditOf(q)'
  <2>1. proc'[q] = proc[q] /\ audit'[q] = audit[q] /\ landed'[q] = landed[q]
    BY <1>2 DEF Moves
  <2>2. Stands(q)'
    BY <2>1, StandsStays
  <2>3. IsPromoted(q) => IsPromoted(q)'
    <3>1. ASSUME IsPromoted(q) PROVE main'[landed[q]] = main[landed[q]]
      <4>1. landed[q] \in 1..Len(main)
        BY <3>1, TypeFacts DEF IsPromoted, Process
      <4> QED BY <4>1 DEF Grows
    <3> QED BY <2>1, <3>1 DEF IsPromoted
  <2>4. Accounts(q)'
    BY <2>1, <2>3 DEF Accounts, Answered
  <2>5. AuditOf(q)
    BY DEF AuditIsTrue, AuditOf, IsPromoted
  <2>6. AuditOf(q)'
    BY <2>1, <2>3, <2>5 DEF AuditOf
  <2>7. Holds(q)'
    <3>1. CASE proc[q].pc \notin Locked
      BY <2>1, <3>1 DEF Holds, Locked
    <3>2. CASE proc[q].pc \in Locked
      <4>1. HostOf[q] \in Hosts /\ HostOf[p] \in Hosts /\ lock[HostOf[q]] = q /\ q # None
        BY <3>2, HostOfIsFunction, NoneIsNoOne DEF Holds
      <4>2. lock'[HostOf[q]] = lock[HostOf[q]] /\ compat'[HostOf[q]] = compat[HostOf[q]]
        BY <1>2, <4>1 DEF Moves
      <4> QED BY <2>1, <4>1, <4>2 DEF Holds
    <3> QED BY <3>1, <3>2
  <2> QED BY <2>2, <2>4, <2>6, <2>7
<1>3. AuditIsTrue'
  BY <1>2 DEF AuditIsTrue, AuditOf, IsPromoted
<1> QED BY <1>1, <1>2, <1>3

\* A step that leaves main and the candidates alone.
LEMMA StillGrows ==
    ASSUME IInv, UNCHANGED <<main, cand>>
    PROVE  Grows /\ CandsBorn'
BY TypeFacts DEF IInv, Grows, CandsBorn

\* p moves on; only its pc, its lock and its audit record change.
PcMoves(p, pc) ==
    /\ Go(p, pc) /\ UNCHANGED <<main, cand, compat, landed>>
    /\ faults' \in [elsewhere : Nat, crashes : Nat]
    /\ UNCHANGED audit \/ \E a \in Audits : audit' = [audit EXCEPT ![p] = a]
    /\ \/ UNCHANGED lock
       \/ LockFree(p) /\ Acquire(p)
       \/ proc[p].pc \in Locked /\ Release(p)

\* That is a move.
LEMMA PcMovesIs ==
    ASSUME IInv, NEW p \in Procs, NEW pc \in Pcs, PcMoves(p, pc)
    PROVE  /\ Moves(p)
           /\ proc'[p].pc = pc /\ proc'[p].cmd = proc[p].cmd /\ proc'[p].cand = proc[p].cand
           /\ proc'[p].gitops = proc[p].gitops /\ proc'[p].expected = proc[p].expected
           /\ proc'[p].seen = proc[p].seen
<1> USE DEF IInv, PcMoves
<1>1. /\ proc' \in [Procs -> Process(Len(main))] /\ \A q \in Procs : q # p => proc'[q] = proc[q]
      /\ proc'[p].pc = pc /\ proc'[p].cmd = proc[p].cmd /\ proc'[p].cand = proc[p].cand
      /\ proc'[p].gitops = proc[p].gitops /\ proc'[p].expected = proc[p].expected
      /\ proc'[p].seen = proc[p].seen
  <2>1. proc \in [Procs -> Process(Len(main))] /\ proc' = [proc EXCEPT ![p].pc = pc]
    BY TypeFacts DEF Go
  <2> QED BY <2>1 DEF Process
<1>2. audit' \in [Procs -> Audits] /\ \A q \in Procs : q # p => audit'[q] = audit[q]
  BY TypeFacts
<1>3. /\ lock' \in [Hosts -> Procs \cup {None}]
      /\ \A h \in Hosts : h # HostOf[p] => lock'[h] = lock[h]
      /\ UNCHANGED lock \/ lock[HostOf[p]] \in {None, p}
  <2>1. HostOf[p] \in Hosts /\ lock \in [Hosts -> Procs \cup {None}]
    BY TypeFacts, HostOfIsFunction
  <2>2. proc[p].pc \in Locked => lock[HostOf[p]] = p
    BY DEF Holds
  <2>3. CASE UNCHANGED lock
    BY <2>1, <2>3
  <2>4. CASE LockFree(p) /\ Acquire(p)
    BY <2>1, <2>4 DEF LockFree, Acquire
  <2>5. CASE proc[p].pc \in Locked /\ Release(p)
    BY <2>1, <2>2, <2>5 DEF Release
  <2> QED BY <2>3, <2>4, <2>5
<1> QED BY <1>1, <1>2, <1>3, TypeFacts DEF Moves

\* Where the new pc asks for nothing new, the invariant is kept.
LEMMA PcMovesKeeps ==
    ASSUME IInv, NEW p \in Procs, NEW pc \in Pcs, PcMoves(p, pc),
           Stands(p)', Accounts(p)', Holds(p)', AuditOf(p)'
    PROVE  IInv'
<1>1. Moves(p)
  BY PcMovesIs
<1>2. Grows /\ CandsBorn'
  BY StillGrows DEF PcMoves
<1> QED BY <1>1, <1>2, MovesKeeps

\* p ends: it has released its lock, and its record is true.
LEMMA DoneKeeps ==
    ASSUME IInv, NEW p \in Procs, PcMoves(p, "done"), proc[p].pc # "idle", AuditOf(p)'
    PROVE  IInv'
<1>1. /\ proc'[p].pc = "done" /\ proc'[p].cmd = proc[p].cmd /\ proc'[p].cand = proc[p].cand
      /\ proc'[p].expected = proc[p].expected
  BY PcMovesIs DEF Pcs
<1>2. Stands(p)'
  BY <1>1 DEF IInv, Stands, PcMoves, Answered
<1>3. Accounts(p)' /\ Holds(p)'
  BY <1>1 DEF Accounts, Answered, Holds, Locked
<1> QED BY <1>2, <1>3, PcMovesKeeps DEF Pcs

-----------------------------------------------------------------------------
(***************************************************************************)
(* The actions that leave main alone.                                      *)
(***************************************************************************)

\* A record that p leaves is true.
LEMMA LeaveKeeps ==
    ASSUME IInv, NEW p \in Procs, proc[p].pc \in Locked,
           NEW status \in {"ready", "rejected", "failed", "promoted"}, NEW pushed \in BOOLEAN,
           Leave(p, status, pushed), UNCHANGED <<main, cand, compat, landed, faults>>,
           status \in {"rejected", "failed"} /\ ~pushed => landed[p] = 0,
           status = "promoted" => IsPromoted(p)
    PROVE  IInv'
<1>1. audit' = [audit EXCEPT ![p] = [status |-> status, pushed |-> pushed]]
      /\ [status |-> status, pushed |-> pushed] \in Audits
  BY DEF Leave, Write, Audits
<1>2. PcMoves(p, "done")
  BY <1>1, TypeFacts DEF IInv, PcMoves, Leave
<1>3. audit'[p].status = status /\ audit'[p].pushed = pushed
  BY <1>1, TypeFacts DEF IInv
<1>4. IsPromoted(p) => IsPromoted(p)'
  BY <1>2, PcMovesIs DEF IsPromoted, Pcs
<1>5. AuditOf(p)'
  BY <1>3, <1>4 DEF AuditOf
<1> QED BY <1>2, <1>5, DoneKeeps DEF Locked

\* So is one that it leaves as it was.
LEMMA LeaveSilentKeeps ==
    ASSUME IInv, NEW p \in Procs, proc[p].pc \in Locked, Release(p), Go(p, "done"),
           UNCHANGED <<main, cand, compat, audit, landed, faults>>
    PROVE  IInv'
<1>1. PcMoves(p, "done")
  BY TypeFacts DEF IInv, PcMoves
<1>2. audit[p].status \in {"none", "ready"}
  BY DEF IInv, Accounts, Locked
<1>3. AuditOf(p)'
  BY <1>2 DEF AuditOf
<1> QED BY <1>1, <1>3, DoneKeeps DEF Locked

\* The command line names a main that is there, and a candidate.
LEMMA BeginWithKeeps ==
    ASSUME IInv, NEW p \in Procs, At(p, "idle"), NEW s \in Process(Len(main)),
           proc' = [proc EXCEPT ![p] = s], s.pc = "begin", s.cmd # "none", s.expected \in 1..Len(main),
           s.cmd \in {"dry-run", "push"} => s.cand \in Cands /\ cand[s.cand] # Unborn,
           UNCHANGED <<main, cand, lock, compat, audit, landed, faults>>
    PROVE  IInv'
<1>1. /\ proc' \in [Procs -> Process(Len(main))] /\ \A q \in Procs : q # p => proc'[q] = proc[q]
      /\ proc'[p] = s
  BY TypeFacts DEF IInv
<1>2. Grows /\ CandsBorn' /\ Moves(p)
  BY <1>1, StillGrows, TypeFacts DEF IInv, Moves
<1>3. Stands(p)'
  BY <1>1 DEF Stands, Answered
<1>4. landed[p] = 0 /\ audit[p].status \in {"none", "ready"}
  BY DEF IInv, Accounts, At, Answered
<1>5. Accounts(p)' /\ Holds(p)' /\ AuditOf(p)'
  BY <1>1, <1>4 DEF Accounts, Holds, AuditOf, Answered, Locked
<1> QED BY <1>2, <1>3, <1>5, MovesKeeps

\* A process from the command line is a process.
LEMMA BeginIsProcess ==
    ASSUME TypeOK, NEW s \in Process(Len(main)), NEW cmd \in {"dry-run", "push"}, NEW c \in Cands,
           NEW g \in BOOLEAN, NEW e \in 1..Len(main)
    PROVE  [s EXCEPT !.pc = "begin", !.cmd = cmd, !.cand = c, !.gitops = g, !.expected = e]
                \in Process(Len(main))
<1>1. e \in 0..Len(main)
  BY TypeFacts
<1> QED BY <1>1 DEF Process, Pcs

LEMMA IdleIsProcess ==
    ASSUME TypeOK
    PROVE  Idle \in Process(Len(main))
<1>1. 0 \in 0..Len(main)
  BY TypeFacts
<1> QED BY <1>1 DEF Process, Pcs, Idle

LEMMA BeginKeeps ==
    ASSUME IInv, NEW p \in Procs, Begin(p)
    PROVE  IInv'
<1>0. Idle \in Process(Len(main)) /\ Len(main) \in 1..Len(main) /\ TypeOK
  BY IdleIsProcess, TypeFacts DEF IInv
<1>1. ASSUME NEW cmd \in {"dry-run", "push"}, NEW c \in Cands, NEW g \in BOOLEAN, cand[c] # Unborn,
             proc' = [proc EXCEPT ![p] = [Idle EXCEPT !.pc = "begin", !.cmd = cmd,
                                 !.cand = c, !.gitops = g, !.expected = Len(main)]]
      PROVE  IInv'
  <2> DEFINE s == [Idle EXCEPT !.pc = "begin", !.cmd = cmd, !.cand = c, !.gitops = g,
                               !.expected = Len(main)]
  <2>1. s \in Process(Len(main))
    BY <1>0, BeginIsProcess
  <2>2. s.pc = "begin" /\ s.cmd = cmd /\ s.expected = Len(main) /\ s.cand = c
    BY DEF Idle
  <2>3. proc' = [proc EXCEPT ![p] = s]
    BY <1>1
  <2> HIDE DEF s
  <2>4. /\ s.cmd # "none" /\ s.expected \in 1..Len(main)
        /\ s.cmd \in {"dry-run", "push"} => s.cand \in Cands /\ cand[s.cand] # Unborn
    BY <1>0, <1>1, <2>2
  <2>5. At(p, "idle") /\ UNCHANGED <<main, cand, lock, compat, audit, landed, faults>>
    BY DEF Begin
  <2> QED BY <2>1, <2>2, <2>3, <2>4, <2>5, BeginWithKeeps
<1>2. ASSUME NEW e \in 1..Len(main),
             proc' = [proc EXCEPT ![p] = [Idle EXCEPT !.pc = "begin", !.cmd = "revert", !.expected = e]]
      PROVE  IInv'
  <2> DEFINE s == [Idle EXCEPT !.pc = "begin", !.cmd = "revert", !.expected = e]
  <2>1. s \in Process(Len(main))
    <3>1. Idle.cand = None /\ Idle.gitops \in BOOLEAN /\ e \in 0..Len(main)
      BY TypeFacts DEF Idle, IInv
    <3> QED BY <1>0, <3>1 DEF Process, Pcs
  <2>2. s.pc = "begin" /\ s.cmd = "revert" /\ s.expected = e
    BY DEF Idle
  <2>3. proc' = [proc EXCEPT ![p] = s]
    BY <1>2
  <2> HIDE DEF s
  <2> QED BY <2>1, <2>2, <2>3, BeginWithKeeps DEF Begin
<1> QED BY <1>1, <1>2 DEF Begin

\* The lock is taken.
LEMMA TakeLockKeeps ==
    ASSUME IInv, NEW p \in Procs, TakeLock(p)
    PROVE  IInv'
<1> DEFINE to == IF At(p, "planned") THEN "executing"
                 ELSE IF proc[p].cmd = "revert" THEN "reverting" ELSE "planning"
<1>1. to \in Pcs /\ PcMoves(p, to)
  BY TypeFacts DEF IInv, TakeLock, PcMoves, Pcs
<1>2. /\ proc'[p].pc = to /\ proc'[p].cmd = proc[p].cmd /\ proc'[p].cand = proc[p].cand
      /\ proc'[p].gitops = proc[p].gitops /\ proc'[p].expected = proc[p].expected
  BY <1>1, PcMovesIs
<1>3. lock'[HostOf[p]] = p
  BY TypeFacts, HostOfIsFunction DEF IInv, TakeLock, Acquire
<1>4. Holds(p)'
  BY <1>2, <1>3 DEF Holds
<1>5. Accounts(p)' /\ AuditOf(p)'
  BY <1>2 DEF IInv, Accounts, AuditOf, TakeLock, Answered
<1>6. Stands(p)'
  <2>1. Stands(p) /\ UNCHANGED <<main, cand>> /\ proc[p].pc \in {"begin", "planned"}
        /\ proc[p] \in Process(Len(main))
    BY TypeFacts DEF IInv, TakeLock
  <2>2. CASE At(p, "planned")
    <3>1. proc'[p].pc = "executing" /\ Fits(proc[p].cand, proc[p].expected)
      BY <1>2, <2>1, <2>2 DEF Stands, At
    <3> QED BY <1>2, <2>1, <2>2, <3>1 DEF Stands, At, Fits, Merged, Answered
  <2>3. CASE ~At(p, "planned") /\ proc[p].cmd = "revert"
    <3>1. proc'[p].pc = "reverting" /\ proc[p].expected \in 1..Len(main)
      BY <1>2, <2>1, <2>3 DEF Stands, At
    <3> QED BY <1>2, <2>1, <2>3, <3>1 DEF Stands, Answered
  <2>4. CASE ~At(p, "planned") /\ proc[p].cmd # "revert"
    <3>1. proc'[p].pc = "planning" /\ proc[p].expected \in 1..Len(main) /\ proc[p].cmd \in {"dry-run", "push"}
      BY <1>2, <2>1, <2>4 DEF Stands, At, Process
    <3> QED BY <1>2, <2>1, <2>4, <3>1 DEF Stands, Answered
  <2> QED BY <2>2, <2>3, <2>4
<1> QED BY <1>1, <1>4, <1>5, <1>6, PcMovesKeeps

\* The lock is held by somebody else.
LEMMA LockUnavailableKeeps ==
    ASSUME IInv, NEW p \in Procs, LockUnavailable(p)
    PROVE  IInv'
<1>1. UNCHANGED audit \/ audit' = [audit EXCEPT ![p] = [status |-> "rejected", pushed |-> FALSE]]
  BY DEF LockUnavailable, Write
<1>2. [status |-> "rejected", pushed |-> FALSE] \in Audits
  BY DEF Audits
<1>3. PcMoves(p, "done")
  BY <1>1, <1>2, TypeFacts DEF IInv, PcMoves, LockUnavailable
<1>4. landed[p] = 0 /\ audit[p].status \in {"none", "ready"}
  BY DEF IInv, Accounts, LockUnavailable, Answered
<1>5. AuditOf(p)'
  <2>1. audit'[p].status \in {"none", "ready", "rejected"} /\ landed'[p] = 0
    BY <1>1, <1>4, TypeFacts DEF IInv, LockUnavailable
  <2> QED BY <2>1 DEF AuditOf
<1> QED BY <1>3, <1>5, DoneKeeps DEF LockUnavailable

\* The plan's checks passed: on its main the candidate fits.
LEMMA PlanFits ==
    ASSUME IInv, NEW c \in Cands, cand[c] # Unborn, NEW e \in 1..Len(main), DeltaPaths(c, e) # {},
           EnvPath \notin DeltaPaths(c, e), StaleBaseOverlap(c, e) = {}
    PROVE  Fits(c, e)
<1>1. ~Merged(c, e)
  BY DEF DeltaPaths
<1>2. DeltaPaths(c, e) = cand[c].paths
  BY <1>1 DEF DeltaPaths
<1> QED BY <1>1, <1>2 DEF Fits, StaleBaseOverlap

LEMMA PlanRejectedKeeps ==
    ASSUME IInv, NEW p \in Procs, PlanRejected(p)
    PROVE  IInv'
<1>1. proc[p].pc \in Locked /\ landed[p] = 0
  BY DEF IInv, Accounts, PlanRejected, At, Answered, Locked
<1> QED BY <1>1, LeaveKeeps DEF PlanRejected

LEMMA PlanReadyKeeps ==
    ASSUME IInv, NEW p \in Procs, PlanReady(p)
    PROVE  IInv'
<1> DEFINE c == proc[p].cand
           e == proc[p].expected
           g == proc[p].gitops
<1>1. /\ proc[p].pc = "planning" /\ proc[p].pc \in Locked /\ landed[p] = 0
      /\ UNCHANGED <<main, cand, compat, landed, faults>>
  BY DEF IInv, Accounts, PlanReady, At, Answered, Locked
<1>2. CASE Leave(p, "ready", FALSE) \/ Leave(p, "rejected", FALSE)
  BY <1>1, <1>2, LeaveKeeps
<1>3. CASE Release(p) /\ Go(p, "planned") /\ Write(p, "ready", FALSE)
  <2>1. Stands(p) /\ e \in 1..Len(main) /\ c \in Cands /\ cand[c] # Unborn /\ proc[p].cmd \in {"dry-run", "push"}
    BY <1>1 DEF IInv, Stands
  <2>2. Fits(c, e)
    <3>1. DeltaPaths(c, e) # {} /\ EnvPath \notin DeltaPaths(c, e) /\ StaleBaseOverlap(c, e) = {}
      BY DEF PlanReady
    <3> QED BY <2>1, <3>1, PlanFits
  <2>3. /\ audit' = [audit EXCEPT ![p] = [status |-> "ready", pushed |-> FALSE]]
        /\ [status |-> "ready", pushed |-> FALSE] \in Audits
    BY <1>3 DEF Write, Audits
  <2>4. PcMoves(p, "planned")
    BY <1>1, <1>3, <2>3, TypeFacts DEF IInv, PcMoves
  <2>5. /\ proc'[p].pc = "planned" /\ proc'[p].cmd = proc[p].cmd /\ proc'[p].cand = proc[p].cand
        /\ proc'[p].gitops = proc[p].gitops /\ proc'[p].expected = proc[p].expected
    BY <2>4, PcMovesIs DEF Pcs
  <2>6. audit'[p].status = "ready"
    BY <2>3, TypeFacts DEF IInv
  <2>7. Stands(p)'
    BY <1>1, <2>1, <2>2, <2>5 DEF Stands, Fits, Merged, Answered
  <2>8. Accounts(p)' /\ Holds(p)' /\ AuditOf(p)'
    BY <1>1, <2>5, <2>6 DEF Accounts, Holds, AuditOf, Answered, Locked
  <2> QED BY <2>4, <2>7, <2>8, PcMovesKeeps DEF Pcs
<1> QED BY <1>2, <1>3 DEF PlanReady

LEMMA ExecuteFailsKeeps ==
    ASSUME IInv, NEW p \in Procs, ExecuteFails(p) \/ ExecuteRejected(p)
    PROVE  IInv'
<1>1. proc[p].pc \in Locked /\ landed[p] = 0
  BY DEF IInv, Accounts, ExecuteFails, ExecuteRejected, At, Answered, Locked
<1> QED BY <1>1, LeaveKeeps DEF ExecuteFails, ExecuteRejected

\* The bundle is not on the main that was planned on.
LEMMA ExecuteCommitKeeps ==
    ASSUME IInv, NEW p \in Procs, ExecuteCommit(p)
    PROVE  IInv'
<1>1. /\ proc[p].pc = "executing" /\ UNCHANGED <<main, cand, lock, compat, audit, landed, faults>>
      /\ ~FindExistingPromotion(proc[p].cand, proc[p].gitops, proc[p].expected, proc[p].expected)
  BY DEF ExecuteCommit, At
<1>2. PcMoves(p, "pushing")
  BY <1>1, TypeFacts DEF IInv, PcMoves, ExecuteCommit
<1>3. /\ proc'[p].pc = "pushing" /\ proc'[p].cmd = proc[p].cmd /\ proc'[p].cand = proc[p].cand
      /\ proc'[p].gitops = proc[p].gitops /\ proc'[p].expected = proc[p].expected
  BY <1>2, PcMovesIs DEF Pcs
<1>4. Stands(p)'
  <2>1. /\ Stands(p) /\ proc[p].expected \in 1..Len(main) /\ proc[p].cand \in Cands
        /\ cand[proc[p].cand] # Unborn /\ Fits(proc[p].cand, proc[p].expected)
        /\ proc[p].cmd \in {"dry-run", "push"}
    BY <1>1 DEF IInv, Stands
  <2> QED BY <1>1, <1>3, <2>1 DEF Stands, Fits, Merged, FindExistingPromotion, Answered
<1>5. Accounts(p)' /\ Holds(p)' /\ AuditOf(p)'
  BY <1>1, <1>3 DEF IInv, Accounts, Holds, AuditOf, Answered, Locked
<1> QED BY <1>2, <1>4, <1>5, PcMovesKeeps DEF Pcs

LEMMA PushRejectedKeeps ==
    ASSUME IInv, NEW p \in Procs, PushRejected(p)
    PROVE  IInv'
<1>1. proc[p].pc \in Locked
  BY DEF PushRejected, At, Locked
<1> QED BY <1>1, LeaveKeeps DEF PushRejected

\* p moves on with the main it has just fetched.
LEMMA FetchMoves ==
    ASSUME IInv, NEW p \in Procs, NEW pc \in Pcs,
           proc' = [proc EXCEPT ![p].pc = pc, ![p].seen = Len(main)],
           UNCHANGED <<main, cand, lock, compat, audit, landed, faults>>
    PROVE  /\ Moves(p) /\ Grows /\ CandsBorn'
           /\ proc'[p].pc = pc /\ proc'[p].cmd = proc[p].cmd /\ proc'[p].cand = proc[p].cand
           /\ proc'[p].gitops = proc[p].gitops /\ proc'[p].expected = proc[p].expected
           /\ proc'[p].seen = Len(main)
<1> DEFINE n == Len(main)
<1>1. n \in 0..Len(main) /\ proc \in [Procs -> Process(Len(main))]
  BY TypeFacts DEF IInv
<1>2. proc' = [proc EXCEPT ![p].pc = pc, ![p].seen = n]
  OBVIOUS
<1>3. /\ proc' \in [Procs -> Process(Len(main))] /\ \A q \in Procs : q # p => proc'[q] = proc[q]
      /\ proc'[p].pc = pc /\ proc'[p].cmd = proc[p].cmd /\ proc'[p].cand = proc[p].cand
      /\ proc'[p].gitops = proc[p].gitops /\ proc'[p].expected = proc[p].expected
      /\ proc'[p].seen = n
  <2> HIDE DEF n
  <2> DEFINE s == [proc[p] EXCEPT !.pc = pc, !.seen = n]
  <2>1. proc[p] \in Process(Len(main))
    BY <1>1
  <2>2. /\ s \in Process(Len(main)) /\ s.pc = pc /\ s.seen = n /\ s.cmd = proc[p].cmd
        /\ s.cand = proc[p].cand /\ s.gitops = proc[p].gitops /\ s.expected = proc[p].expected
    BY <1>1, <2>1 DEF Process
  <2>3. proc'[p] = s /\ (\A q \in Procs : q # p => proc'[q] = proc[q]) /\ DOMAIN proc' = Procs
        /\ proc' = [q \in Procs |-> proc'[q]]
    BY <1>1, <1>2
  <2> HIDE DEF s
  <2>4. proc' \in [Procs -> Process(Len(main))]
    BY <1>1, <2>2, <2>3
  <2> QED BY <2>2, <2>3, <2>4
<1>4. Grows /\ CandsBorn'
  BY StillGrows
<1> QED BY <1>3, <1>4, TypeFacts DEF IInv, Moves

\* What p has put on main stays there while nothing else of it changes.
LEMMA PromotedStays ==
    ASSUME NEW p \in Procs, IsPromoted(p), UNCHANGED <<main, landed>>,
           proc'[p].expected = proc[p].expected, proc'[p].cand = proc[p].cand,
           proc'[p].gitops = proc[p].gitops
    PROVE  IsPromoted(p)'
BY DEF IsPromoted

\* The main that is fetched is at least the one in the compat lock.
LEMMA RefetchKeeps ==
    ASSUME IInv, NEW p \in Procs, Refetch(p)
    PROVE  IInv'
<1>1. /\ proc[p].pc = "refetch" /\ UNCHANGED <<main, cand, lock, compat, audit, landed, faults>>
      /\ proc' = [proc EXCEPT ![p].pc = "reconcile", ![p].seen = Len(main)]
  BY DEF Refetch, At
<1>2. /\ Moves(p) /\ Grows /\ CandsBorn'
      /\ proc'[p].pc = "reconcile" /\ proc'[p].cmd = proc[p].cmd /\ proc'[p].cand = proc[p].cand
      /\ proc'[p].gitops = proc[p].gitops /\ proc'[p].expected = proc[p].expected
      /\ proc'[p].seen = Len(main)
  BY <1>1, FetchMoves DEF Pcs
<1>3. Stands(p)'
  BY <1>1, <1>2 DEF IInv, Stands, Answered
<1>4. Accounts(p)' /\ AuditOf(p)'
  <2>1. IsPromoted(p) /\ audit[p].status \in {"none", "ready"}
    BY <1>1 DEF IInv, Accounts, Answered
  <2>2. IsPromoted(p)'
    BY <1>1, <1>2, <2>1, PromotedStays
  <2> QED BY <1>1, <1>2, <2>1, <2>2 DEF Accounts, AuditOf, Answered
<1>5. Holds(p)'
  <2>1. lock[HostOf[p]] = p
    BY <1>1 DEF IInv, Holds, Locked
  <2>2. compat[HostOf[p]] \in 1..Len(main) /\ Len(main) \in Nat
    BY TypeFacts, HostOfIsFunction DEF IInv
  <2> QED BY <1>1, <1>2, <2>1, <2>2 DEF Holds, Locked
<1> QED BY <1>2, <1>3, <1>4, <1>5, MovesKeeps

\* What is written is no older than what was there: nobody else on the host has the lock.
LEMMA ReconcileForward ==
    ASSUME IInv, NEW p \in Procs, Reconcile(p)
    PROVE  \A h \in Hosts : compat'[h] >= compat[h]
<1>1. compat[HostOf[p]] <= proc[p].seen /\ compat' = [compat EXCEPT ![HostOf[p]] = proc[p].seen]
  BY DEF IInv, Holds, Reconcile, At
<1>2. compat \in [Hosts -> 1..Len(main)] /\ proc[p].seen \in Nat /\ Len(main) \in Nat
  BY TypeFacts DEF IInv, Process
<1> QED BY <1>1, <1>2

LEMMA ReconcileKeeps ==
    ASSUME IInv, NEW p \in Procs, Reconcile(p)
    PROVE  IInv'
<1>1. /\ proc[p].pc = "reconcile" /\ UNCHANGED <<main, cand, lock, audit, landed, faults>>
      /\ compat' = [compat EXCEPT ![HostOf[p]] = proc[p].seen] /\ proc' = [proc EXCEPT ![p].pc = "closeout"]
  BY DEF Reconcile, At, Go
<1>2. /\ proc' \in [Procs -> Process(Len(main))] /\ \A q \in Procs : q # p => proc'[q] = proc[q]
      /\ proc'[p].pc = "closeout" /\ proc'[p].cmd = proc[p].cmd /\ proc'[p].cand = proc[p].cand
      /\ proc'[p].gitops = proc[p].gitops /\ proc'[p].expected = proc[p].expected
  <2>1. proc \in [Procs -> Process(Len(main))]
    BY TypeFacts DEF IInv
  <2> QED BY <1>1, <2>1 DEF Process, Pcs
<1>3. lock[HostOf[p]] = p /\ compat[HostOf[p]] <= proc[p].seen /\ HostOf[p] \in Hosts
  BY <1>1, HostOfIsFunction DEF IInv, Holds, Locked
<1>4. proc[p].seen \in 1..Len(main) /\ compat \in [Hosts -> 1..Len(main)]
  <2>1. proc[p].seen \in 0..Len(main) /\ compat \in [Hosts -> 1..Len(main)] /\ Len(main) \in Nat
    BY TypeFacts DEF IInv, Process
  <2> QED BY <1>3, <2>1
<1>5. Grows /\ CandsBorn'
  BY <1>1, StillGrows
<1>6. Moves(p)
  BY <1>1, <1>2, <1>3, <1>4, TypeFacts DEF IInv, Moves
<1>7. Stands(p)'
  BY <1>1, <1>2 DEF IInv, Stands, Answered
<1>8. Accounts(p)' /\ AuditOf(p)'
  <2>1. IsPromoted(p) /\ audit[p].status \in {"none", "ready"}
    BY <1>1 DEF IInv, Accounts, Answered
  <2>2. IsPromoted(p)'
    BY <1>1, <1>2, <2>1, PromotedStays
  <2> QED BY <1>1, <1>2, <2>1, <2>2 DEF Accounts, AuditOf, Answered
<1>9. Holds(p)'
  BY <1>1, <1>2, <1>3 DEF Holds
<1> QED BY <1>5, <1>6, <1>7, <1>8, <1>9, MovesKeeps

LEMMA ReconcileSkippedKeeps ==
    ASSUME IInv, NEW p \in Procs, ReconcileSkipped(p)
    PROVE  IInv'
<1>1. proc[p].pc \in {"refetch", "reconcile"} /\ UNCHANGED <<main, cand, lock, compat, audit, landed, faults>>
  BY DEF ReconcileSkipped
<1>2. PcMoves(p, "closeout")
  BY <1>1, TypeFacts DEF IInv, PcMoves, ReconcileSkipped
<1>3. /\ proc'[p].pc = "closeout" /\ proc'[p].cmd = proc[p].cmd /\ proc'[p].cand = proc[p].cand
      /\ proc'[p].gitops = proc[p].gitops /\ proc'[p].expected = proc[p].expected
  BY <1>2, PcMovesIs DEF Pcs
<1>4. Stands(p)'
  BY <1>1, <1>3 DEF IInv, Stands, Answered
<1>5. Accounts(p)' /\ AuditOf(p)'
  <2>1. IsPromoted(p) /\ audit[p].status \in {"none", "ready"}
    BY <1>1 DEF IInv, Accounts, Answered
  <2>2. IsPromoted(p)'
    BY <1>1, <1>3, <2>1, PromotedStays
  <2> QED BY <1>1, <1>3, <2>1, <2>2 DEF Accounts, AuditOf, Answered
<1>6. Holds(p)'
  BY <1>1, <1>3 DEF IInv, Holds, Locked
<1> QED BY <1>2, <1>4, <1>5, <1>6, PcMovesKeeps DEF Pcs

LEMMA CloseoutKeeps ==
    ASSUME IInv, NEW p \in Procs, Closeout(p) \/ CloseoutRaises(p)
    PROVE  IInv'
<1>1. proc[p].pc \in Locked /\ IsPromoted(p)
  BY DEF IInv, Accounts, Closeout, CloseoutRaises, At, Answered, Locked
<1> QED BY <1>1, LeaveKeeps, LeaveSilentKeeps DEF Closeout, CloseoutRaises

LEMMA RevertStopsKeeps ==
    ASSUME IInv, NEW p \in Procs, RevertStops(p) \/ RevertPushFails(p)
    PROVE  IInv'
<1>1. proc[p].pc \in Locked
  BY DEF RevertStops, RevertPushFails, At, Locked
<1> QED BY <1>1, LeaveSilentKeeps DEF RevertStops, RevertPushFails

\* The revert has something to take out of the main it starts from.
LEMMA RevertCommitKeeps ==
    ASSUME IInv, NEW p \in Procs, RevertCommit(p)
    PROVE  IInv'
<1>1. /\ proc[p].pc = "reverting" /\ UNCHANGED <<main, cand, lock, compat, audit, landed, faults>>
      /\ proc' = [proc EXCEPT ![p].pc = "revertpush", ![p].seen = Len(main)]
      /\ main[proc[p].expected].kind = "promote"
      /\ \E f \in RevertPaths(proc[p].expected) : main[proc[p].expected].cand \in Tip[f]
  BY DEF RevertCommit, At
<1>2. /\ Moves(p) /\ Grows /\ CandsBorn'
      /\ proc'[p].pc = "revertpush" /\ proc'[p].cmd = proc[p].cmd /\ proc'[p].cand = proc[p].cand
      /\ proc'[p].gitops = proc[p].gitops /\ proc'[p].expected = proc[p].expected
      /\ proc'[p].seen = Len(main)
  BY <1>1, FetchMoves DEF Pcs
<1>3. Stands(p)'
  <2>1. Stands(p) /\ Len(main) \in 1..Len(main)
    BY TypeFacts DEF IInv
  <2>2. \E f \in Paths : main[proc[p].expected].cand \in main[Len(main)].tree[f]
    BY <1>1 DEF RevertPaths, Tip
  <2> QED BY <1>1, <1>2, <2>1, <2>2 DEF Stands, Answered
<1>4. Accounts(p)' /\ AuditOf(p)' /\ Holds(p)'
  BY <1>1, <1>2 DEF IInv, Accounts, AuditOf, Holds, Answered, Locked
<1> QED BY <1>2, <1>3, <1>4, MovesKeeps

\* A process that dies leaves its lock file.
LEMMA CrashKeeps ==
    ASSUME IInv, NEW p \in Procs, Crash(p)
    PROVE  IInv'
<1>1. faults' \in [elsewhere : Nat, crashes : Nat]
  <2>1. faults \in [elsewhere : Nat, crashes : Nat] /\ faults.crashes + 1 \in Nat
    BY TypeFacts DEF IInv
  <2> QED BY <2>1 DEF Crash
<1>2. PcMoves(p, "dead")
  BY <1>1 DEF PcMoves, Crash
<1>3. /\ proc'[p].pc = "dead" /\ proc'[p].cmd = proc[p].cmd /\ proc'[p].cand = proc[p].cand
      /\ proc'[p].gitops = proc[p].gitops /\ proc'[p].expected = proc[p].expected
  BY <1>2, PcMovesIs DEF Pcs
<1>4. Stands(p)'
  BY <1>3 DEF IInv, Stands, Crash, Alive, Answered
<1>5. Accounts(p)' /\ AuditOf(p)' /\ Holds(p)'
  BY <1>3 DEF IInv, Accounts, AuditOf, Holds, Crash, Alive, Answered, Locked
<1> QED BY <1>2, <1>4, <1>5, PcMovesKeeps DEF Pcs

-----------------------------------------------------------------------------
(***************************************************************************)
(* The actions that move main.                                             *)
(***************************************************************************)

\* One commit more.
LEMMA AppendGrows ==
    ASSUME IInv, NEW m \in Commits, main' = Append(main, m), UNCHANGED cand
    PROVE  /\ Grows /\ CandsBorn'
           /\ Len(main') = Len(main) + 1 /\ main'[Len(main) + 1] = m
<1>1. main \in Seq(Commits) /\ Len(main) \in Nat /\ cand \in [Cands -> Candidates]
  BY TypeFacts DEF IInv
<1>2. main' \in Seq(Commits) /\ Len(main') = Len(main) + 1 /\ main'[Len(main) + 1] = m
  BY <1>1
<1>3. \A i \in 1..Len(main) : main'[i] = main[i]
  BY <1>1
<1>4. Grows
  BY <1>1, <1>2, <1>3 DEF Grows
<1>5. CandsBorn'
  BY <1>1, <1>2 DEF IInv, CandsBorn
<1> QED BY <1>2, <1>4, <1>5

\* What is remembered of main stays a part of main.
LEMMA GrownTypes ==
    ASSUME TypeOK, Grows
    PROVE  /\ proc \in [Procs -> Process(Len(main'))] /\ compat \in [Hosts -> 1..Len(main')]
           /\ landed \in [Procs -> 0..Len(main')]
<1>1. Len(main) \in Nat /\ Len(main') \in Nat /\ Len(main) <= Len(main')
  BY TypeFacts DEF Grows
<1>2. \A i \in 0..Len(main) : i \in 0..Len(main')
  BY <1>1
<1>3. \A i \in 1..Len(main) : i \in 1..Len(main')
  BY <1>1
<1>4. ASSUME NEW s \in Process(Len(main)) PROVE s \in Process(Len(main'))
  BY <1>2 DEF Process
<1>5. proc \in [Procs -> Process(Len(main'))]
  BY <1>4, TypeFacts
<1> QED BY <1>2, <1>3, <1>5, TypeFacts

\* The synthetic commit and the revert are commits.
LEMMA TreesAreTrees ==
    ASSUME IInv, NEW n \in 1..Len(main)
    PROVE  /\ main[n].tree \in Trees
           /\ \A c \in Cands, g \in BOOLEAN : SyntheticTree(c, g, n) \in Trees
           /\ \A i \in 1..Len(main) : RevertTree(i, n) \in Trees
<1>1. main[n].tree \in Trees
  BY TypeFacts DEF IInv, Commits
<1>2. ASSUME NEW c \in Cands, NEW g \in BOOLEAN
      PROVE  SyntheticTree(c, g, n) \in Trees
  BY <1>1 DEF SyntheticTree, Trees, Edits
<1>3. ASSUME NEW i \in 1..Len(main)
      PROVE  RevertTree(i, n) \in Trees
  BY <1>1 DEF RevertTree, Trees
<1> QED BY <1>1, <1>2, <1>3

\* The push lands on the main that was planned on.
LEMMA AdvanceFacts ==
    ASSUME IInv, NEW p \in Procs, Advance(p), UNCHANGED cand
    PROVE  /\ proc[p].pc = "pushing" /\ Len(main) = proc[p].expected
           /\ Grows /\ CandsBorn' /\ Len(main') = Len(main) + 1
           /\ main'[Len(main) + 1].kind = "promote" /\ main'[Len(main) + 1].cand = proc[p].cand
           /\ main'[Len(main) + 1].gitops = proc[p].gitops
           /\ landed' = [landed EXCEPT ![p] = Len(main) + 1]
           /\ landed' \in [Procs -> 0..Len(main')]
<1> DEFINE c == proc[p].cand
           g == proc[p].gitops
           e == proc[p].expected
           tree == SyntheticTree(c, g, e)
           m == [kind |-> "promote", cand |-> c, gitops |-> g, tree |-> tree]
<1>1. /\ proc[p].pc = "pushing" /\ Len(main) = e /\ main' = Append(main, m)
      /\ landed' = [landed EXCEPT ![p] = Len(main) + 1]
  BY DEF Advance, At, FastForward
<1>2. c \in Cands /\ g \in BOOLEAN /\ e \in 1..Len(main)
  <2>1. Stands(p) /\ proc[p] \in Process(Len(main))
    BY TypeFacts DEF IInv
  <2> QED BY <1>1, <2>1 DEF Stands, Process
<1>3. m \in Commits
  <2>1. tree \in Trees
    BY <1>2, TreesAreTrees
  <2> HIDE DEF c, g, e, tree
  <2> QED BY <1>2, <2>1 DEF Commits
<1>4. m.kind = "promote" /\ m.cand = c /\ m.gitops = g
  OBVIOUS
<1> HIDE DEF m
<1>5. Grows /\ CandsBorn' /\ Len(main') = Len(main) + 1 /\ main'[Len(main) + 1] = m
  BY <1>1, <1>3, AppendGrows
<1>6. landed' \in [Procs -> 0..Len(main')]
  <2>1. landed \in [Procs -> 0..Len(main')]
    BY <1>5, GrownTypes DEF IInv
  <2>2. Len(main) + 1 \in 0..Len(main')
    BY <1>5, TypeFacts DEF IInv
  <2> QED BY <1>1, <2>1, <2>2
<1> QED BY <1>1, <1>4, <1>5, <1>6

LEMMA PushAcceptedKeeps ==
    ASSUME IInv, NEW p \in Procs, PushAccepted(p)
    PROVE  IInv'
<1>1. /\ Advance(p) /\ UNCHANGED <<cand, lock, compat, audit, faults>>
      /\ proc' = [proc EXCEPT ![p].pc = "refetch"]
  BY DEF PushAccepted, Go
<1>2. /\ proc[p].pc = "pushing" /\ Len(main) = proc[p].expected
      /\ Grows /\ CandsBorn' /\ Len(main') = Len(main) + 1
      /\ main'[Len(main) + 1].kind = "promote" /\ main'[Len(main) + 1].cand = proc[p].cand
      /\ main'[Len(main) + 1].gitops = proc[p].gitops
      /\ landed' = [landed EXCEPT ![p] = Len(main) + 1]
      /\ landed' \in [Procs -> 0..Len(main')]
  BY <1>1, AdvanceFacts
<1>3. /\ proc \in [Procs -> Process(Len(main'))] /\ compat \in [Hosts -> 1..Len(main')]
  BY <1>2, GrownTypes DEF IInv
<1>4. /\ proc' \in [Procs -> Process(Len(main'))] /\ \A q \in Procs : q # p => proc'[q] = proc[q]
      /\ proc'[p].pc = "refetch" /\ proc'[p].cmd = proc[p].cmd /\ proc'[p].cand = proc[p].cand
      /\ proc'[p].gitops = proc[p].gitops /\ proc'[p].expected = proc[p].expected
  BY <1>1, <1>3 DEF Process, Pcs
<1>5. landed'[p] = Len(main) + 1 /\ \A q \in Procs : q # p => landed'[q] = landed[q]
  BY <1>2, TypeFacts DEF IInv
<1>6. Moves(p)
  BY <1>1, <1>2, <1>3, <1>4, <1>5, TypeFacts DEF IInv, Moves
<1>7. Stands(p)'
  <2>1. Stands(p) /\ Len(main) \in Nat
    BY TypeFacts DEF IInv
  <2> QED BY <1>1, <1>2, <1>4, <2>1 DEF Stands, Answered
<1>8. Accounts(p)' /\ AuditOf(p)'
  <2>1. audit[p].status \in {"none", "ready"}
    BY <1>2 DEF IInv, Accounts
  <2>2. IsPromoted(p)'
    BY <1>2, <1>4, <1>5 DEF IsPromoted
  <2> QED BY <1>1, <1>4, <2>1, <2>2 DEF Accounts, AuditOf, Answered
<1>9. Holds(p)'
  BY <1>1, <1>2, <1>4 DEF IInv, Holds, Locked
<1> QED BY <1>2, <1>6, <1>7, <1>8, <1>9, MovesKeeps

\* p ends with a commit on main, and its record does not deny it.
LEMMA EndKeeps ==
    ASSUME IInv, NEW p \in Procs, proc[p].pc \in Locked, Grows, CandsBorn',
           Release(p), Go(p, "done"), UNCHANGED <<cand, compat, faults>>,
           landed' \in [Procs -> 0..Len(main')], \A q \in Procs : q # p => landed'[q] = landed[q],
           audit' \in [Procs -> Audits], \A q \in Procs : q # p => audit'[q] = audit[q],
           AuditOf(p)'
    PROVE  IInv'
<1>1. proc \in [Procs -> Process(Len(main'))] /\ compat \in [Hosts -> 1..Len(main')]
  BY GrownTypes DEF IInv
<1>2. /\ proc' \in [Procs -> Process(Len(main'))] /\ \A q \in Procs : q # p => proc'[q] = proc[q]
      /\ proc'[p].pc = "done" /\ proc'[p].cmd = proc[p].cmd /\ proc'[p].cand = proc[p].cand
      /\ proc'[p].expected = proc[p].expected
  BY <1>1 DEF Process, Pcs, Go
<1>3. /\ lock[HostOf[p]] = p /\ lock' \in [Hosts -> Procs \cup {None}]
      /\ \A h \in Hosts : h # HostOf[p] => lock'[h] = lock[h]
  BY TypeFacts, HostOfIsFunction DEF IInv, Holds, Release
<1>4. Moves(p)
  BY <1>1, <1>2, <1>3, TypeFacts DEF IInv, Moves
<1>5. Stands(p)'
  <2>1. proc[p].expected \in 1..Len(main) /\ Len(main) \in Nat /\ Len(main') \in Nat
        /\ Len(main) <= Len(main')
    BY TypeFacts DEF IInv, Stands, Locked, Grows
  <2>2. proc[p].cmd \in {"dry-run", "push"} => proc[p].cand \in Cands /\ cand[proc[p].cand] # Unborn
    BY DEF IInv, Stands
  <2> QED BY <1>2, <2>1, <2>2 DEF Stands, Answered
<1>6. Accounts(p)' /\ Holds(p)'
  BY <1>2 DEF Accounts, Holds, Answered, Locked
<1> QED BY <1>4, <1>5, <1>6, MovesKeeps

LEMMA PushUnansweredKeeps ==
    ASSUME IInv, NEW p \in Procs, PushUnanswered(p)
    PROVE  IInv'
<1>1. /\ Advance(p) /\ UNCHANGED <<cand, compat, faults>> /\ Release(p) /\ Go(p, "done")
      /\ audit' = [audit EXCEPT ![p] = [status |-> "failed", pushed |-> TRUE]]
  BY DEF PushUnanswered, Leave, Write
<1>2. /\ proc[p].pc = "pushing" /\ Grows /\ CandsBorn'
      /\ landed' = [landed EXCEPT ![p] = Len(main) + 1]
      /\ landed' \in [Procs -> 0..Len(main')]
  BY <1>1, AdvanceFacts
<1>3. \A q \in Procs : q # p => landed'[q] = landed[q]
  BY <1>2, TypeFacts DEF IInv
<1>4. /\ audit' \in [Procs -> Audits] /\ audit'[p].status = "failed" /\ audit'[p].pushed = TRUE
      /\ \A q \in Procs : q # p => audit'[q] = audit[q]
  <2>1. [status |-> "failed", pushed |-> TRUE] \in Audits
    BY DEF Audits
  <2> QED BY <1>1, <2>1, TypeFacts DEF IInv
<1>5. AuditOf(p)'
  BY <1>4 DEF AuditOf
<1> QED BY <1>1, <1>2, <1>3, <1>4, <1>5, EndKeeps DEF Locked

LEMMA RevertPushedKeeps ==
    ASSUME IInv, NEW p \in Procs, RevertPushed(p)
    PROVE  IInv'
<1> DEFINE i == proc[p].expected
           tree == RevertTree(i, proc[p].seen)
           m == [kind |-> "revert", cand |-> main[i].cand, gitops |-> main[i].gitops, tree |-> tree]
<1>1. /\ proc[p].pc = "revertpush" /\ Len(main) = proc[p].seen /\ main' = Append(main, m)
      /\ Release(p) /\ Go(p, "done") /\ landed' = [landed EXCEPT ![p] = Len(main) + 1]
      /\ UNCHANGED <<cand, compat, audit, faults>>
  BY DEF RevertPushed, At, FastForward
<1>2. i \in 1..Len(main) /\ proc[p].seen \in 1..Len(main)
  BY <1>1 DEF IInv, Stands
<1>3. m \in Commits
  <2>1. tree \in Trees
    BY <1>2, TreesAreTrees
  <2>2. main[i].cand \in Cands \cup {None} /\ main[i].gitops \in BOOLEAN
    BY <1>2, TypeFacts DEF IInv, Commits
  <2> HIDE DEF i, tree
  <2> QED BY <2>1, <2>2 DEF Commits
<1> HIDE DEF m
<1>4. Grows /\ CandsBorn' /\ Len(main') = Len(main) + 1
  BY <1>1, <1>3, AppendGrows
<1>5. landed' \in [Procs -> 0..Len(main')] /\ \A q \in Procs : q # p => landed'[q] = landed[q]
  <2>1. landed \in [Procs -> 0..Len(main')]
    BY <1>4, GrownTypes DEF IInv
  <2>2. Len(main) + 1 \in 0..Len(main')
    BY <1>4, TypeFacts DEF IInv
  <2> QED BY <1>1, <2>1, <2>2
<1>6. audit' \in [Procs -> Audits] /\ \A q \in Procs : q # p => audit'[q] = audit[q]
  BY <1>1, TypeFacts DEF IInv
<1>7. AuditOf(p)'
  <2>1. audit'[p].status \in {"none", "ready"}
    BY <1>1 DEF IInv, Accounts
  <2> QED BY <2>1 DEF AuditOf
<1> QED BY <1>1, <1>4, <1>5, <1>6, <1>7, EndKeeps DEF Locked

-----------------------------------------------------------------------------
(***************************************************************************)
(* The world.                                                              *)
(***************************************************************************)

\* No invocation moves, and no lock that one holds is taken from it.
LEMMA WorldKeeps ==
    ASSUME IInv, Grows, CandsBorn', UNCHANGED <<compat, proc, audit, landed>>,
           lock' \in [Hosts -> Procs \cup {None}], faults' \in [elsewhere : Nat, crashes : Nat],
           \A q \in Procs : proc[q].pc \in Locked => lock'[HostOf[q]] = lock[HostOf[q]]
    PROVE  IInv'
<1> USE DEF IInv
<1>1. TypeOK'
  <2>1. main' # <<>>
    BY TypeFacts DEF Grows
  <2>2. proc' \in [Procs -> Process(Len(main'))] /\ compat' \in [Hosts -> 1..Len(main')]
        /\ landed' \in [Procs -> 0..Len(main')]
    BY GrownTypes
  <2>3. audit' \in [Procs -> Audits]
    BY TypeFacts
  <2> QED BY <2>1, <2>2, <2>3 DEF Grows, TypeOK, Process, Audits, Candidates
<1>2. ASSUME NEW q \in Procs
      PROVE  Stands(q)' /\ Accounts(q)' /\ Holds(q)' /\ AuditOf(q)'
  <2>1. Stands(q)'
    BY StandsStays
  <2>2. IsPromoted(q) => IsPromoted(q)'
    <3>1. ASSUME IsPromoted(q) PROVE main'[landed[q]] = main[landed[q]]
      <4>1. landed[q] \in 1..Len(main)
        BY <3>1, TypeFacts DEF IsPromoted, Process
      <4> QED BY <4>1 DEF Grows
    <3> QED BY <3>1 DEF IsPromoted
  <2>3. Accounts(q)'
    BY <2>2 DEF Accounts, Answered
  <2>4. AuditOf(q)
    BY DEF AuditIsTrue, AuditOf, IsPromoted
  <2>5. AuditOf(q)'
    BY <2>2, <2>4 DEF AuditOf
  <2>6. Holds(q)'
    BY DEF Holds, Locked
  <2> QED BY <2>1, <2>3, <2>5, <2>6
<1>3. AuditIsTrue'
  BY <1>2 DEF AuditIsTrue, AuditOf, IsPromoted
<1> QED BY <1>1, <1>2, <1>3

\* The holder of a lock file that is removed is dead.
LEMMA RemoveStaleLockKeeps ==
    ASSUME IInv, NEW h \in Hosts, RemoveStaleLock(h)
    PROVE  IInv'
<1>1. /\ proc[lock[h]].pc = "dead" /\ lock' = [lock EXCEPT ![h] = None]
      /\ UNCHANGED <<main, cand, compat, proc, audit, landed, faults>>
  BY DEF RemoveStaleLock, At
<1>2. Grows /\ CandsBorn'
  BY <1>1, StillGrows
<1>3. ASSUME NEW q \in Procs, proc[q].pc \in Locked
      PROVE  lock'[HostOf[q]] = lock[HostOf[q]]
  <2>1. lock[HostOf[q]] = q /\ HostOf[q] \in Hosts
    BY <1>3, HostOfIsFunction DEF IInv, Holds
  <2>2. HostOf[q] # h
    BY <1>1, <1>3, <2>1 DEF Locked
  <2> QED BY <1>1, <2>1, <2>2, TypeFacts DEF IInv
<1>4. lock' \in [Hosts -> Procs \cup {None}] /\ faults' \in [elsewhere : Nat, crashes : Nat]
  BY <1>1, TypeFacts DEF IInv
<1> QED BY <1>1, <1>2, <1>3, <1>4, WorldKeeps

LEMMA AuthorKeeps ==
    ASSUME IInv, NEW c \in Cands, Author(c)
    PROVE  IInv'
<1>1. PICK edited \in SUBSET Paths \ {{}} :
          cand' = [cand EXCEPT ![c] = [base |-> Len(main), paths |-> edited]]
  BY DEF Author
<1>2. UNCHANGED <<main, lock, compat, proc, audit, landed, faults>> /\ cand[c] = Unborn
  BY DEF Author
<1>3. /\ cand' \in [Cands -> Candidates] /\ cand'[c].base = Len(main)
      /\ \A d \in Cands : d # c => cand'[d] = cand[d]
  <2> DEFINE n == Len(main)
  <2>1. n \in Nat /\ cand \in [Cands -> Candidates]
    BY TypeFacts DEF IInv
  <2>2. cand' = [cand EXCEPT ![c] = [base |-> n, paths |-> edited]]
    BY <1>1
  <2> HIDE DEF n
  <2>3. [base |-> n, paths |-> edited] \in Candidates
    BY <2>1 DEF Candidates
  <2>4. /\ cand' \in [Cands -> Candidates] /\ cand'[c].base = n
        /\ \A d \in Cands : d # c => cand'[d] = cand[d]
    BY <2>1, <2>2, <2>3
  <2> QED BY <2>4 DEF n
<1>4. Grows
  BY <1>2, <1>3, TypeFacts DEF IInv, Grows
<1>5. CandsBorn'
  <2>1. Len(main) \in 1..Len(main)
    BY TypeFacts DEF IInv
  <2> QED BY <1>2, <1>3, <2>1 DEF IInv, CandsBorn
<1> QED BY <1>2, <1>4, <1>5, WorldKeeps, TypeFacts DEF IInv

\* A commit from elsewhere: of kind other or merge, on top of what the tip has.
LEMMA ElsewhereFacts ==
    ASSUME IInv, Elsewhere
    PROVE  /\ Grows /\ CandsBorn' /\ UNCHANGED cand /\ Len(main') = Len(main) + 1
           /\ main'[Len(main')].kind \in {"other", "merge"}
           /\ \A f \in Paths : Tip[f] \subseteq main'[Len(main')].tree[f]
<1>1. Len(main) \in Nat /\ Len(main) \in Edits /\ Tip \in [Paths -> SUBSET Edits] /\ UNCHANGED cand
  <2>1. Len(main) \in 1..Len(main) /\ Len(main) \in Nat
    BY TypeFacts DEF IInv
  <2> QED BY <2>1, TreesAreTrees DEF Tip, Trees, Edits, Elsewhere
<1>2. ASSUME NEW m \in Commits, m.kind \in {"other", "merge"}, main' = Append(main, m),
             \A f \in Paths : Tip[f] \subseteq m.tree[f]
      PROVE  /\ Grows /\ CandsBorn' /\ Len(main') = Len(main) + 1
             /\ main'[Len(main')].kind \in {"other", "merge"}
             /\ \A f \in Paths : Tip[f] \subseteq main'[Len(main')].tree[f]
  <2>1. Grows /\ CandsBorn' /\ Len(main') = Len(main) + 1 /\ main'[Len(main) + 1] = m
    BY <1>1, <1>2, AppendGrows
  <2> QED BY <1>2, <2>1
<1>3. ASSUME NEW f \in Paths,
             main' = Append(main, [Root EXCEPT !.tree = [Tip EXCEPT ![f] = @ \cup {Len(main)}]])
      PROVE  /\ Grows /\ CandsBorn' /\ Len(main') = Len(main) + 1
             /\ main'[Len(main')].kind \in {"other", "merge"}
             /\ \A g \in Paths : Tip[g] \subseteq main'[Len(main')].tree[g]
  <2> DEFINE tree == [Tip EXCEPT ![f] = @ \cup {Len(main)}]
  <2>1. tree \in Trees /\ \A g \in Paths : Tip[g] \subseteq tree[g]
    BY <1>1 DEF Trees
  <2> DEFINE m == [Root EXCEPT !.tree = tree]
  <2>2. main' = Append(main, m)
    BY <1>3
  <2> HIDE DEF tree
  <2>3. m \in Commits /\ m.kind = "other" /\ m.tree = tree
    <3>1. [f0 \in Paths |-> {}] \in Trees
      BY DEF Trees
    <3>2. Root \in Commits /\ Root.kind = "other"
      BY <3>1 DEF Root, Commits
    <3> QED BY <2>1, <3>2 DEF Commits
  <2> HIDE DEF m
  <2> QED BY <1>2, <2>1, <2>2, <2>3
<1>4. ASSUME NEW c \in Cands,
             main' = Append(main, [kind |-> "merge", cand |-> c, gitops |-> FALSE,
                                   tree |-> [f \in Paths |-> IF f \in cand[c].paths
                                                THEN Tip[f] \cup {c} ELSE Tip[f]]])
      PROVE  /\ Grows /\ CandsBorn' /\ Len(main') = Len(main) + 1
             /\ main'[Len(main')].kind \in {"other", "merge"}
             /\ \A g \in Paths : Tip[g] \subseteq main'[Len(main')].tree[g]
  <2> DEFINE tree == [f \in Paths |-> IF f \in cand[c].paths THEN Tip[f] \cup {c} ELSE Tip[f]]
  <2>1. tree \in Trees /\ \A g \in Paths : Tip[g] \subseteq tree[g]
    BY <1>1 DEF Trees, Edits
  <2> DEFINE m == [kind |-> "merge", cand |-> c, gitops |-> FALSE, tree |-> tree]
  <2>2. main' = Append(main, m)
    BY <1>4
  <2> HIDE DEF tree
  <2>3. m \in Commits /\ m.kind = "merge" /\ m.tree = tree
    BY <2>1 DEF Commits
  <2> HIDE DEF m
  <2> QED BY <1>2, <2>1, <2>2, <2>3
<1> QED BY <1>1, <1>3, <1>4 DEF Elsewhere

LEMMA ElsewhereKeeps ==
    ASSUME IInv, Elsewhere
    PROVE  IInv'
<1>1. Grows /\ CandsBorn'
  BY ElsewhereFacts
<1>2. faults' \in [elsewhere : Nat, crashes : Nat]
  <2>1. faults \in [elsewhere : Nat, crashes : Nat] /\ faults.elsewhere + 1 \in Nat
    BY TypeFacts DEF IInv
  <2> QED BY <2>1 DEF Elsewhere
<1> QED BY <1>1, <1>2, WorldKeeps, TypeFacts DEF IInv, Elsewhere

-----------------------------------------------------------------------------
(***************************************************************************)
(* The invariant.                                                          *)
(***************************************************************************)

LEMMA InitHolds == Init => IInv
<1> SUFFICES ASSUME Init PROVE IInv
  OBVIOUS
<1>1. main = <<Root>> /\ Root \in Commits
  <2>1. [f \in Paths |-> {}] \in Trees
    BY DEF Trees
  <2> QED BY <2>1 DEF Init, Root, Commits
<1>2. main \in Seq(Commits) /\ main # <<>> /\ Len(main) = 1
  BY <1>1
<1>3. cand \in [Cands -> Candidates]
  <2>1. Unborn \in Candidates
    BY DEF Unborn, Candidates
  <2> QED BY <2>1 DEF Init
<1>4. compat \in [Hosts -> 1..Len(main)]
  <2>1. 1 \in 1..Len(main)
    BY <1>2
  <2> QED BY <2>1 DEF Init
<1>5. proc \in [Procs -> Process(Len(main))] /\ landed \in [Procs -> 0..Len(main)]
  <2>1. 0 \in 0..Len(main)
    BY <1>2
  <2>2. Idle \in Process(Len(main))
    BY <2>1 DEF Idle, Process, Pcs
  <2> QED BY <2>1, <2>2 DEF Init
<1>6. audit \in [Procs -> Audits]
  <2>1. NoAudit \in Audits
    BY DEF NoAudit, Audits
  <2> QED BY <2>1 DEF Init
<1>7. TypeOK
  BY <1>2, <1>3, <1>4, <1>5, <1>6 DEF TypeOK, Init, Process, Audits, Candidates
<1>8. CandsBorn
  BY DEF CandsBorn, Init
<1>9. ASSUME NEW p \in Procs PROVE Stands(p) /\ Accounts(p) /\ Holds(p) /\ AuditOf(p)
  <2>1. /\ proc[p].pc = "idle" /\ proc[p].cmd = "none" /\ landed[p] = 0 /\ audit[p].status = "none"
    BY DEF Init, Idle, NoAudit
  <2> QED BY <2>1 DEF Stands, Accounts, Holds, AuditOf, Answered, Locked
<1>10. AuditIsTrue
  BY <1>9 DEF AuditIsTrue, AuditOf, IsPromoted
<1> QED BY <1>7, <1>8, <1>9, <1>10 DEF IInv

LEMMA NextKeeps == IInv /\ [Next]_vars => IInv'
<1> SUFFICES ASSUME IInv, [Next]_vars PROVE IInv'
  OBVIOUS
<1>1. ASSUME NEW p \in Procs, Begin(p) \/ Run(p) \/ Crash(p) PROVE IInv'
  BY <1>1, BeginKeeps, TakeLockKeeps, LockUnavailableKeeps, PlanRejectedKeeps, PlanReadyKeeps,
     ExecuteFailsKeeps, ExecuteCommitKeeps, PushAcceptedKeeps, PushUnansweredKeeps,
     PushRejectedKeeps, RefetchKeeps, ReconcileKeeps, ReconcileSkippedKeeps, CloseoutKeeps,
     RevertStopsKeeps, RevertCommitKeeps, RevertPushedKeeps, CrashKeeps, Zenon DEF Run
<1>2. ASSUME NEW h \in Hosts, RemoveStaleLock(h) PROVE IInv'
  BY <1>2, RemoveStaleLockKeeps
<1>3. ASSUME NEW c \in Cands, Author(c) PROVE IInv'
  BY <1>3, AuthorKeeps
<1>4. CASE Elsewhere
  BY <1>4, ElsewhereKeeps
<1>5. CASE UNCHANGED vars
  <2>1. UNCHANGED <<main, cand, lock, compat, proc, audit, landed, faults>>
    BY <1>5 DEF vars
  <2>2. Grows /\ CandsBorn'
    BY <2>1, StillGrows
  <2> QED BY <2>1, <2>2, WorldKeeps, TypeFacts DEF IInv
<1> QED BY <1>1, <1>2, <1>3, <1>4, <1>5 DEF Next

LEMMA Invariant == Spec => []IInv
BY InitHolds, NextKeeps, PTL DEF Spec

-----------------------------------------------------------------------------
(***************************************************************************)
(* The theorems.                                                           *)
(***************************************************************************)

\* Every commit that a lock file, a process or a compat lock names is on main.
THEOREM PromotionType == Spec => []TypeOK
<1>1. IInv => TypeOK
  BY DEF IInv
<1> QED BY <1>1, Invariant, PTL

\* The audit record of an invocation never denies what it put on main, and what it calls
\* promoted is on main, right after the commit the operator expected
\* (execute_promote_main_push and the audit payloads it writes).
THEOREM AuditTrue == Spec => []AuditIsTrue
<1>1. IInv => AuditIsTrue
  BY DEF IInv
<1> QED BY <1>1, Invariant, PTL

\* The operator compat lock of a host never goes back
\* (_reconcile_operator_compat_lock_after_promotion under the promotion lock).
THEOREM CompatForward == Spec => CompatNeverRegresses
<1>1. IInv /\ [Next]_vars => [\A h \in Hosts : compat'[h] >= compat[h]]_vars
  <2> SUFFICES ASSUME IInv, [Next]_vars PROVE \A h \in Hosts : compat'[h] >= compat[h]
    OBVIOUS
  <2>1. CASE UNCHANGED compat
    <3>1. \A h \in Hosts : compat[h] \in Nat
      BY TypeFacts DEF IInv
    <3> QED BY <2>1, <3>1
  <2>2. ASSUME NEW p \in Procs, Reconcile(p) PROVE \A h \in Hosts : compat'[h] >= compat[h]
    BY <2>2, ReconcileForward
  <2>3. UNCHANGED compat \/ \E p \in Procs : Reconcile(p)
    BY Zenon DEF Next, Run, vars, Begin, TakeLock, LockUnavailable, PlanRejected, PlanReady, ExecuteFails,
       ExecuteRejected, ExecuteCommit, PushAccepted, PushUnanswered, PushRejected, Refetch,
       ReconcileSkipped, Closeout, CloseoutRaises, RevertStops, RevertCommit, RevertPushed,
       RevertPushFails, Crash, RemoveStaleLock, Author, Elsewhere
  <2> QED BY <2>1, <2>2, <2>3
<1> QED BY <1>1, Invariant, PTL DEF Spec, CompatNeverRegresses

-----------------------------------------------------------------------------
(***************************************************************************)
(* The ledger.                                                             *)
(***************************************************************************)

\* A push that lands is a promotion of the ledger: main is still the one that was planned
\* on, so what the plan found out holds of the tip.
LEMMA AdvancePromotes ==
    ASSUME IInv, NEW p \in Procs, Advance(p), UNCHANGED cand
    PROVE  Ledger!Promote(proc[p].cand, proc[p].gitops) /\ proc[p].cand \in Cands /\ proc[p].gitops \in BOOLEAN
<1> DEFINE c == proc[p].cand
           g == proc[p].gitops
           e == proc[p].expected
<1>1. proc[p].pc = "pushing" /\ Len(main) = e
  BY DEF Advance, At, FastForward
<1>2. /\ c \in Cands /\ g \in BOOLEAN /\ Fits(c, e) /\ ~FindExistingPromotion(c, g, e, e)
  <2>1. Stands(p) /\ proc[p] \in Process(Len(main))
    BY TypeFacts DEF IInv
  <2> QED BY <1>1, <2>1 DEF Stands, Process
<1>3. DeltaPaths(c, e) = cand[c].paths
  BY <1>2 DEF Fits, DeltaPaths
<1>4. SyntheticTree(c, g, e) = Ledger!Adds(c, cand[c].paths \cup (IF g THEN {EnvPath} ELSE {}))
  BY <1>1, <1>3 DEF SyntheticTree, Touched, Ledger!Adds, Ledger!Tip
<1>5. \A i \in 1..Len(main) : ~(main[i].kind = "promote" /\ main[i].cand = c /\ main[i].gitops = g)
  BY <1>1, <1>2 DEF FindExistingPromotion
<1>6. EnvPath \notin cand[c].paths /\ \A f \in cand[c].paths : Ledger!Tip[f] = main[cand[c].base].tree[f]
  BY <1>1, <1>2 DEF Fits, Ledger!Tip
<1>7. Ledger!Commit("promote", c, g, Ledger!Adds(c, cand[c].paths \cup (IF g THEN {EnvPath} ELSE {})))
  BY <1>4 DEF Ledger!Commit, Advance
<1> QED BY <1>2, <1>5, <1>6, <1>7 DEF Ledger!Promote

\* A revert that lands is a revert of the ledger.
LEMMA RevertPushedReverts ==
    ASSUME IInv, NEW p \in Procs, RevertPushed(p)
    PROVE  proc[p].expected \in 1..Len(main) /\ Ledger!Revert(proc[p].expected)
<1> DEFINE i == proc[p].expected
           out == RevertPaths(i)
<1>1. proc[p].pc = "revertpush" /\ Len(main) = proc[p].seen /\ UNCHANGED cand
  BY DEF RevertPushed, At, FastForward
<1>2. /\ i \in 1..Len(main) /\ main[i].kind = "promote"
      /\ \E f \in Paths : main[i].cand \in Ledger!Tip[f]
  BY <1>1 DEF IInv, Stands, Ledger!Tip
<1>3. out \in SUBSET Paths
  BY DEF RevertPaths
<1>4. RevertTree(i, proc[p].seen)
        = [f \in Paths |-> IF f \in out THEN Ledger!Tip[f] \ {main[i].cand} ELSE Ledger!Tip[f]]
  BY <1>1 DEF RevertTree, Ledger!Tip
<1>5. Ledger!Commit("revert", main[i].cand, main[i].gitops,
         [f \in Paths |-> IF f \in out THEN Ledger!Tip[f] \ {main[i].cand} ELSE Ledger!Tip[f]])
  BY <1>1, <1>4 DEF Ledger!Commit, RevertPushed
<1> HIDE DEF out
<1> QED BY <1>2, <1>3, <1>5 DEF Ledger!Revert

LEMMA AuthorAuthors ==
    ASSUME IInv, NEW c \in Cands, Author(c)
    PROVE  Ledger!Author(c)
<1>1. cand[c].base = 0 /\ UNCHANGED main /\ Len(main) \in 1..Len(main)
  BY TypeFacts DEF IInv, Author, Unborn
<1> QED BY <1>1 DEF Author, Ledger!Author

LEMMA ElsewhereIsElsewhere ==
    ASSUME IInv, Elsewhere
    PROVE  Ledger!Elsewhere
<1>1. Len(main) \in Nat /\ \A i \in 1..Len(main) : main'[i] = main[i]
  BY ElsewhereFacts, TypeFacts DEF IInv, Grows
<1> QED BY <1>1, ElsewhereFacts DEF Ledger!Elsewhere, Ledger!Tip, Tip

\* Whatever the invocations, the people who push to main and the crashes do, main moves
\* only as the ledger allows: a bundle is promoted at most once, never over a file that
\* main changed since its candidate left it.
THEOREM PromotionImplementsLedger == Spec => RefinesLedger
<1>1. Init => Ledger!Init
  BY DEF Init, Ledger!Init, Root, Ledger!Root, Unborn
<1>2. IInv /\ [Next]_vars => [Ledger!Next]_<<main, cand>>
  <2> SUFFICES ASSUME IInv, [Next]_vars PROVE [Ledger!Next]_<<main, cand>>
    OBVIOUS
  <2>1. \/ UNCHANGED <<main, cand>>
        \/ \E p \in Procs : Advance(p) /\ UNCHANGED cand
        \/ \E p \in Procs : RevertPushed(p)
        \/ \E c \in Cands : Author(c)
        \/ Elsewhere
    BY Zenon DEF Next, Run, vars, Begin, TakeLock, LockUnavailable, PlanRejected, PlanReady, ExecuteFails,
       ExecuteRejected, ExecuteCommit, PushAccepted, PushUnanswered, PushRejected, Refetch, Reconcile,
       ReconcileSkipped, Closeout, CloseoutRaises, RevertStops, RevertCommit,
       RevertPushFails, Crash, RemoveStaleLock
  <2>2. ASSUME NEW p \in Procs, Advance(p), UNCHANGED cand PROVE Ledger!Next
    BY <2>2, AdvancePromotes, Zenon DEF Ledger!Next
  <2>3. ASSUME NEW p \in Procs, RevertPushed(p) PROVE Ledger!Next
    BY <2>3, RevertPushedReverts, Zenon DEF Ledger!Next
  <2>4. ASSUME NEW c \in Cands, Author(c) PROVE Ledger!Next
    BY <2>4, AuthorAuthors, Zenon DEF Ledger!Next
  <2>5. CASE Elsewhere
    BY <2>5, ElsewhereIsElsewhere, Zenon DEF Ledger!Next
  <2> QED BY <2>1, <2>2, <2>3, <2>4, <2>5
<1> QED BY <1>1, <1>2, Invariant, PTL DEF Spec, RefinesLedger, Ledger!Spec
==============================================================================
