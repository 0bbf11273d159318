----------------------------- MODULE Promotion -----------------------------
(***************************************************************************)
(* promote-main and promote-main-revert (commands/promote_main.py): a      *)
(* command-line process plans a promotion under a lock file of its host,   *)
(* lets the lock go, takes it again, rechecks origin/main and pushes one   *)
(* synthetic commit whose parent is the main the operator expected.  The   *)
(* lock file is local, origin/main is shared by all hosts and by people    *)
(* who push to it directly, and the remote accepts a push only if it is a  *)
(* fast-forward.                                                           *)
(*                                                                         *)
(* A commit is named by its position on main.  The content of a file is    *)
(* the set of edits it holds.  A candidate is a branch commit: where it    *)
(* left main, and the files it edits.  Its GitOps commit, if the bundle    *)
(* has one, edits the environment file.                                    *)
(***************************************************************************)
EXTENDS Naturals, Sequences

CONSTANTS Procs,       \* invocations of the command line
          Hosts,       \* workspaces, each with its lock file and compat lock
          HostOf,      \* the workspace of an invocation
          Cands,       \* candidate branch commits (source_sha)
          Paths,       \* files
          EnvPath,     \* the deployment-state file that only GitOps commits may edit
          None,        \* no candidate, no process
          Elsewheres,  \* bound: commits that reach main without promote-main
          Crashes      \* bound: invocations that die

ASSUME HostOfIsFunction == HostOf \in [Procs -> Hosts]
ASSUME EnvPathIsPath == EnvPath \in Paths
ASSUME NoneIsNoOne == None \notin Procs /\ None \notin Cands
ASSUME CandsAreNoNumbers == Cands \cap Nat = {}
ASSUME BoundsAreNat == Elsewheres \in Nat /\ Crashes \in Nat

VARIABLES main,    \* the commits of origin/main, oldest first
          cand,    \* the candidates
          lock,    \* the process that holds each host's lock file
          compat,  \* the public main_sha of each host's operator compat lock
          proc,    \* the invocations
          audit,   \* the audit record of each invocation
          landed,  \* history: the commit each invocation put on main, 0 for none
          faults   \* commits from elsewhere and crashes so far

vars == <<main, cand, lock, compat, proc, audit, landed, faults>>

-----------------------------------------------------------------------------
(* Commits and candidates *)

Edits == Cands \cup Nat
Trees == [Paths -> SUBSET Edits]
Commits == [kind : {"other", "merge", "promote", "revert"}, cand : Cands \cup {None},
            gitops : BOOLEAN, tree : Trees]

Root == [kind |-> "other", cand |-> None, gitops |-> FALSE, tree |-> [p \in Paths |-> {}]]
Unborn == [base |-> 0, paths |-> {}]

Tip == main[Len(main)].tree

Merged(c, n) == \E i \in 1..n : main[i].kind = "merge" /\ main[i].cand = c

\* git merge-base source_sha <commit n of main>.  A promotion does not make the
\* source an ancestor of main; a merge of the branch does, and leaves no delta.
DeltaPaths(c, n) == IF Merged(c, n) THEN {} ELSE cand[c].paths

\* _stale_base_overlap_details: files that both main and the candidate changed
\* since the merge-base.
StaleBaseOverlap(c, n) ==
    {p \in DeltaPaths(c, n) : main[n].tree[p] # main[cand[c].base].tree[p]}

\* Mutant: only the Bundle-ID is looked for, which contains expected_main_sha.
FindByBundleIdOnly(c, gitops, expected, n) ==
    \E i \in 1..n : /\ main[i].kind = "promote" /\ main[i].cand = c
                    /\ main[i].gitops = gitops /\ i = expected + 1

\* _find_existing_promotion: the same Bundle-ID, which the second case includes,
\* or the same source and GitOps commits, anywhere in the log of commit n.
FindExistingPromotion(c, gitops, expected, n) ==
    \E i \in 1..n : main[i].kind = "promote" /\ main[i].cand = c /\ main[i].gitops = gitops

Touched(c, gitops, n) == DeltaPaths(c, n) \cup (IF gitops THEN {EnvPath} ELSE {})

\* git apply --index can succeed: no file already holds the edit.  Whether it does
\* on a file that differs from the merge-base depends on the hunks.
CanApply(c, gitops, n) == \A p \in Touched(c, gitops, n) : c \notin main[n].tree[p]

\* _materialize_synthetic_tree, _create_synthetic_commit: the candidate's patch on
\* top of commit n.
SyntheticTree(c, gitops, n) ==
    [p \in Paths |-> IF p \in Touched(c, gitops, n) THEN main[n].tree[p] \cup {c}
                     ELSE main[n].tree[p]]

\* git revert of commit i on top of commit n: its edits leave the files it touched.
RevertPaths(i) == {p \in Paths : main[i].tree[p] # main[i - 1].tree[p]}
RevertTree(i, n) ==
    [p \in Paths |-> IF p \in RevertPaths(i) THEN main[n].tree[p] \ {main[i].cand}
                     ELSE main[n].tree[p]]

-----------------------------------------------------------------------------
(* Processes *)

Pcs == {"idle", "begin", "planning", "planned", "executing", "pushing", "refetch",
        "reconcile", "closeout", "reverting", "revertpush", "done", "dead"}

Idle == [pc |-> "idle", cmd |-> "none", cand |-> None, gitops |-> FALSE,
         expected |-> 0, seen |-> 0]
NoAudit == [status |-> "none", pushed |-> FALSE]

Init ==
    /\ main = <<Root>>
    /\ cand = [c \in Cands |-> Unborn]
    /\ lock = [h \in Hosts |-> None]
    /\ compat = [h \in Hosts |-> 1]
    /\ proc = [p \in Procs |-> Idle]
    /\ audit = [p \in Procs |-> NoAudit]
    /\ landed = [p \in Procs |-> 0]
    /\ faults = [elsewhere |-> 0, crashes |-> 0]

At(p, pc) == proc[p].pc = pc
Go(p, pc) == proc' = [proc EXCEPT ![p].pc = pc]
Write(p, status, pushed) == audit' = [audit EXCEPT ![p] = [status |-> status, pushed |-> pushed]]

\* Mutant: the lock file opened without O_EXCL.
LockFreeAlways(p) == TRUE

LockFree(p) == lock[HostOf[p]] = None

Acquire(p) == lock' = [lock EXCEPT ![HostOf[p]] = p]

\* PromotionLock.__exit__, on every way out of the with block.
Release(p) == lock' = [lock EXCEPT ![HostOf[p]] = None]

\* The remote takes a push of a commit whose parent is commit n.
FastForward(n) == Len(main) = n

-----------------------------------------------------------------------------
(* promote-main *)

\* cmd_promote_main, cmd_promote_main_revert: the operator names a candidate and the
\* main it was checked against, or a commit to revert.  To name an older main is to
\* have begun when that was the tip.
Begin(p) ==
    /\ At(p, "idle")
    /\ \/ \E cmd \in {"dry-run", "push"}, c \in Cands, g \in BOOLEAN :
             /\ cand[c] # Unborn
             /\ proc' = [proc EXCEPT ![p] = [Idle EXCEPT !.pc = "begin", !.cmd = cmd,
                                 !.cand = c, !.gitops = g, !.expected = Len(main)]]
       \/ \E e \in 1..Len(main) :
             proc' = [proc EXCEPT ![p] = [Idle EXCEPT !.pc = "begin", !.cmd = "revert",
                                          !.expected = e]]
    /\ UNCHANGED <<main, cand, lock, compat, audit, landed, faults>>

\* with PromotionLock(...): in the plan, in the execution and in the revert.
TakeLock(p) ==
    /\ proc[p].pc \in {"begin", "planned"}
    /\ LockFree(p)
    /\ Acquire(p)
    /\ Go(p, IF At(p, "planned") THEN "executing"
             ELSE IF proc[p].cmd = "revert" THEN "reverting" ELSE "planning")
    /\ UNCHANGED <<main, cand, compat, audit, landed, faults>>

\* except PromotionLockError: nobody waits for the lock.
LockUnavailable(p) ==
    /\ proc[p].pc \in {"begin", "planned"}
    /\ ~LockFree(p)
    /\ Go(p, "done")
    /\ IF proc[p].cmd = "revert" THEN UNCHANGED audit ELSE Write(p, "rejected", FALSE)
    /\ UNCHANGED <<main, cand, lock, compat, landed, faults>>

Leave(p, status, pushed) ==
    /\ Release(p)
    /\ Go(p, "done")
    /\ Write(p, status, pushed)

\* plan_promote_main_dry_run with a rejection_reason: evidence, remote, branch,
\* ancestry, delta, environment or ticket check, failing fetch, drifted main,
\* overlap or failing patch.
PlanRejected(p) ==
    /\ At(p, "planning")
    /\ Leave(p, "rejected", FALSE)
    /\ UNCHANGED <<main, cand, compat, landed, faults>>

\* plan_promote_main_dry_run when every check passes; the push command then looks
\* for the bundle in the log of the main it was planned on.
PlanReady(p) ==
    LET c == proc[p].cand
        g == proc[p].gitops
        e == proc[p].expected
    IN  /\ At(p, "planning")
        /\ Len(main) = e
        /\ DeltaPaths(c, e) # {}
        /\ EnvPath \notin DeltaPaths(c, e)
        /\ StaleBaseOverlap(c, e) = {}
        /\ CanApply(c, g, e)
        /\ \/ /\ proc[p].cmd = "dry-run"
              /\ Leave(p, "ready", FALSE)
           \/ /\ proc[p].cmd = "push"
              /\ FindExistingPromotion(c, g, e, e)
              /\ Leave(p, "rejected", FALSE)
           \/ /\ proc[p].cmd = "push"
              /\ ~FindExistingPromotion(c, g, e, e)
              /\ Release(p)
              /\ Go(p, "planned")
              /\ Write(p, "ready", FALSE)
        /\ UNCHANGED <<main, cand, compat, landed, faults>>

\* execute_promote_main_push under the second lock: the fetch or the patch fails.
ExecuteFails(p) ==
    /\ At(p, "executing")
    /\ Leave(p, "failed", FALSE)
    /\ UNCHANGED <<main, cand, compat, landed, faults>>

\* origin/main drifted since the plan, or has the bundle already.
ExecuteRejected(p) ==
    /\ At(p, "executing")
    /\ \/ Len(main) # proc[p].expected
       \/ FindExistingPromotion(proc[p].cand, proc[p].gitops, proc[p].expected, Len(main))
    /\ Leave(p, "rejected", FALSE)
    /\ UNCHANGED <<main, cand, compat, landed, faults>>

\* The synthetic commit is made; its tree is the planned one.
ExecuteCommit(p) ==
    /\ At(p, "executing")
    /\ Len(main) = proc[p].expected
    /\ ~FindExistingPromotion(proc[p].cand, proc[p].gitops, proc[p].expected, Len(main))
    /\ Go(p, "pushing")
    /\ UNCHANGED <<main, cand, lock, compat, audit, landed, faults>>

\* The remote advances main to the synthetic commit.
Advance(p) ==
    LET c == proc[p].cand
        g == proc[p].gitops
        e == proc[p].expected
    IN  /\ At(p, "pushing")
        /\ FastForward(e)
        /\ main' = Append(main, [kind |-> "promote", cand |-> c, gitops |-> g,
                                 tree |-> SyntheticTree(c, g, e)])
        /\ landed' = [landed EXCEPT ![p] = Len(main) + 1]

PushAccepted(p) ==
    /\ Advance(p)
    /\ Go(p, "refetch")
    /\ UNCHANGED <<cand, lock, compat, audit, faults>>

\* Mutant: a push without an answer is not noted as attempted.
PushUnansweredUnmarked(p) ==
    /\ Advance(p)
    /\ Leave(p, "failed", FALSE)
    /\ UNCHANGED <<cand, compat, faults>>

\* The push lands and its answer is lost.
PushUnanswered(p) ==
    /\ Advance(p)
    /\ Leave(p, "failed", TRUE)
    /\ UNCHANGED <<cand, compat, faults>>

\* Not a fast-forward, or the remote cannot be reached.
PushRejected(p) ==
    /\ At(p, "pushing")
    /\ Leave(p, "failed", TRUE)
    /\ UNCHANGED <<main, cand, compat, landed, faults>>

\* _reconcile_operator_compat_lock_after_promotion, first half: both mains are
\* fetched again.
Refetch(p) ==
    /\ At(p, "refetch")
    /\ proc' = [proc EXCEPT ![p].pc = "reconcile", ![p].seen = Len(main)]
    /\ UNCHANGED <<main, cand, lock, compat, audit, landed, faults>>

\* Second half: the file is rewritten.
Reconcile(p) ==
    /\ At(p, "reconcile")
    /\ compat' = [compat EXCEPT ![HostOf[p]] = proc[p].seen]
    /\ Go(p, "closeout")
    /\ UNCHANGED <<main, cand, lock, audit, landed, faults>>

\* Another repository, no compat lock, or a failure, which is a warning only.
ReconcileSkipped(p) ==
    /\ proc[p].pc \in {"refetch", "reconcile"}
    /\ Go(p, "closeout")
    /\ UNCHANGED <<main, cand, lock, compat, audit, landed, faults>>

\* _candidate_worktree_closeout_payload writes its receipt, the audit record is
\* rewritten and the lock released.
Closeout(p) ==
    /\ At(p, "closeout")
    /\ Leave(p, "promoted", TRUE)
    /\ UNCHANGED <<main, cand, compat, landed, faults>>

\* It raises: the exception leaves the audit record as the plan wrote it.
CloseoutRaises(p) ==
    /\ At(p, "closeout")
    /\ Release(p)
    /\ Go(p, "done")
    /\ UNCHANGED <<main, cand, compat, audit, landed, faults>>

-----------------------------------------------------------------------------
(* promote-main-revert *)

\* The fetch fails, the commit is no synthetic promotion, or git revert conflicts or
\* has nothing to do.
RevertStops(p) ==
    /\ At(p, "reverting")
    /\ Release(p)
    /\ Go(p, "done")
    /\ UNCHANGED <<main, cand, compat, audit, landed, faults>>

RevertCommit(p) ==
    LET i == proc[p].expected
    IN  /\ At(p, "reverting")
        /\ main[i].kind = "promote"
        /\ \E f \in RevertPaths(i) : main[i].cand \in Tip[f]
        /\ proc' = [proc EXCEPT ![p].pc = "revertpush", ![p].seen = Len(main)]
        /\ UNCHANGED <<main, cand, lock, compat, audit, landed, faults>>

\* The push of the revert lands, whether or not the answer comes back.
RevertPushed(p) ==
    LET i == proc[p].expected
    IN  /\ At(p, "revertpush")
        /\ FastForward(proc[p].seen)
        /\ main' = Append(main, [kind |-> "revert", cand |-> main[i].cand,
                                 gitops |-> main[i].gitops,
                                 tree |-> RevertTree(i, proc[p].seen)])
        /\ Release(p)
        /\ Go(p, "done")
        /\ landed' = [landed EXCEPT ![p] = Len(main) + 1]
        /\ UNCHANGED <<cand, compat, audit, faults>>

RevertPushFails(p) ==
    /\ At(p, "revertpush")
    /\ Release(p)
    /\ Go(p, "done")
    /\ UNCHANGED <<main, cand, compat, audit, landed, faults>>

-----------------------------------------------------------------------------
(* The world *)

\* Somebody commits a candidate on a branch that starts at the tip of main.
Author(c) ==
    /\ cand[c] = Unborn
    /\ \E edited \in SUBSET Paths \ {{}} :
          cand' = [cand EXCEPT ![c] = [base |-> Len(main), paths |-> edited]]
    /\ UNCHANGED <<main, lock, compat, proc, audit, landed, faults>>

\* Somebody pushes to main directly, or merges a candidate's branch.
Elsewhere ==
    /\ faults.elsewhere < Elsewheres
    /\ faults' = [faults EXCEPT !.elsewhere = @ + 1]
    /\ \/ \E f \in Paths :
             main' = Append(main, [Root EXCEPT !.tree = [Tip EXCEPT ![f] = @ \cup {Len(main)}]])
       \/ \E c \in Cands :
             /\ cand[c] # Unborn /\ ~Merged(c, Len(main))
             /\ main' = Append(main, [kind |-> "merge", cand |-> c, gitops |-> FALSE,
                                      tree |-> [f \in Paths |-> IF f \in cand[c].paths
                                                   THEN Tip[f] \cup {c} ELSE Tip[f]]])
    /\ UNCHANGED <<cand, lock, compat, proc, audit, landed>>

Alive(p) == proc[p].pc \notin {"idle", "done", "dead"}

Crash(p) ==
    /\ Alive(p) /\ faults.crashes < Crashes
    /\ Go(p, "dead")
    /\ faults' = [faults EXCEPT !.crashes = @ + 1]
    /\ UNCHANGED <<main, cand, lock, compat, audit, landed>>

\* The operator removes the lock file of a dead process.
RemoveStaleLock(h) ==
    /\ lock[h] # None /\ At(lock[h], "dead")
    /\ lock' = [lock EXCEPT ![h] = None]
    /\ UNCHANGED <<main, cand, compat, proc, audit, landed, faults>>

Run(p) ==
    \/ TakeLock(p) \/ LockUnavailable(p) \/ PlanRejected(p) \/ PlanReady(p)
    \/ ExecuteFails(p) \/ ExecuteRejected(p) \/ ExecuteCommit(p)
    \/ PushAccepted(p) \/ PushUnanswered(p) \/ PushRejected(p)
    \/ Refetch(p) \/ Reconcile(p) \/ ReconcileSkipped(p) \/ Closeout(p) \/ CloseoutRaises(p)
    \/ RevertStops(p) \/ RevertCommit(p) \/ RevertPushed(p) \/ RevertPushFails(p)

Next ==
    \/ \E p \in Procs : Begin(p) \/ Run(p) \/ Crash(p)
    \/ \E h \in Hosts : RemoveStaleLock(h)
    \/ \E c \in Cands : Author(c)
    \/ Elsewhere

Spec == Init /\ [][Next]_vars

-----------------------------------------------------------------------------
(* Properties *)

\* Everything a process or a host remembers of main is a commit main has.
TypeOK ==
    /\ main \in Seq(Commits) /\ main # <<>>
    /\ cand \in [Cands -> [base : Nat, paths : SUBSET Paths]]
    /\ lock \in [Hosts -> Procs \cup {None}]
    /\ compat \in [Hosts -> 1..Len(main)]
    /\ proc \in [Procs -> [pc : Pcs, cmd : {"none", "dry-run", "push", "revert"},
                           cand : Cands \cup {None}, gitops : BOOLEAN,
                           expected : 0..Len(main), seen : 0..Len(main)]]
    /\ audit \in [Procs -> [status : {"none", "ready", "rejected", "failed", "promoted"},
                            pushed : BOOLEAN]]
    /\ landed \in [Procs -> 0..Len(main)]
    /\ faults \in [elsewhere : Nat, crashes : Nat]

\* The audit record never denies a promotion: an attempt recorded as rejected, or as
\* failed before its push, put nothing on main, and one recorded as promoted put its
\* bundle right after the main it expected.
AuditIsTrue ==
    \A p \in Procs :
        /\ audit[p].status \in {"rejected", "failed"} /\ ~audit[p].pushed => landed[p] = 0
        /\ audit[p].status = "promoted" =>
              /\ landed[p] = proc[p].expected + 1
              /\ main[landed[p]].kind = "promote"
              /\ main[landed[p]].cand = proc[p].cand
              /\ main[landed[p]].gitops = proc[p].gitops

\* The compat lock of a workspace never goes back to an older main: the fetch and the
\* rewrite of two promotions on a host do not interleave.
CompatNeverRegresses == [][\A h \in Hosts : compat'[h] >= compat[h]]_vars

Ledger == INSTANCE PromotionLedger

\* Whatever the interleaving, main moves only as the ledger allows.
RefinesLedger == Ledger!Spec
=============================================================================
