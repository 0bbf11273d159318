----------------------------- MODULE WriteScope -----------------------------
(***************************************************************************)
(* Write-Scope Authority: the durable records through which AMOF lets a    *)
(* worker mutate a repository (write_scope_approvals.py,                   *)
(* write_scope_bindings.py, write_scope_enforcement.py,                    *)
(* write_scope_recovery.py).                                               *)
(*                                                                         *)
(* Every record is a JSON file that is replaced atomically.  The locks of  *)
(* the code (_STORE_LOCK) are threading.RLock objects, one per module, so  *)
(* they exclude nothing between two amof processes; every amof command is  *)
(* a process of its own.  A step of this module is therefore one access to *)
(* a shared file, the workspace or git, and the values a process has read  *)
(* are kept in its locals loc[p] until it uses them.                       *)
(*                                                                         *)
(* Exclusive = TRUE is the usage in which two commands never overlap (a    *)
(* command starts only while the others rest: idle, or waiting for their   *)
(* worker); Exclusive = FALSE lets every file access interleave.           *)
(***************************************************************************)
EXTENDS FiniteSets

CONSTANTS
    Procs,       \* amof processes
    Proposals,   \* write-scope proposals a worker may submit
    Approvals,   \* approval ids (hash of proposal, operator, second, TTL)
    Bindings,    \* binding ids, each used for one bind
    Targets,     \* target ids; a target has one workspace
    Shas,        \* commits a workspace HEAD may point at
    Paths,       \* repository paths
    ProposalOf,  \* the proposal an approval id grants
    TargetOf,    \* body.target_id of a proposal
    BaseSha,     \* body.base_sha of a proposal
    ScopeOf,     \* allowed_roots minus denied_roots of a proposal
    NoApproval, NoBinding,
    Exclusive,   \* do two commands never overlap?
    Faults       \* may processes die and git subprocesses fail?

ASSUME ConstantsAssumption ==
    /\ ProposalOf \in [Approvals -> Proposals]
    /\ TargetOf \in [Proposals -> Targets]
    /\ BaseSha \in [Proposals -> Shas]
    /\ ScopeOf \in [Proposals -> SUBSET Paths]
    /\ NoApproval \notin Approvals
    /\ NoBinding \notin Bindings
    /\ Exclusive \in BOOLEAN
    /\ Faults \in BOOLEAN

VARIABLES
    proposals,   \* proposals/{id}.json: the stored proposals
    approval,    \* approvals/{id}.json: status, "none" when there is no file
    revocations, \* revocations/{id}.json: the approvals with a revocation file
    lapsed,      \* approvals whose expires_at is not after the current time
    bstatus,     \* bindings/{id}.json: status, "none" when there is no file
    bapproval,   \* bindings/{id}.json: approval_id
    receipts,    \* receipts/{id}.json
    needsNew,    \* approvals with a recover event "require_new_approval"
    head,        \* git rev-parse HEAD of each workspace
    dirty,       \* paths git status reports in each workspace
    pc,          \* where each process is
    loc          \* what each process has read and remembers

grants == <<proposals, revocations>>
bindings == <<bstatus, bapproval>>
evidence == <<receipts, needsNew>>
world == <<lapsed, head, dirty>>
store == <<approval, grants, bindings, evidence>>
vars == <<store, world, pc, loc>>

ApprovalTerminal == {"revoked", "expired", "consumed"}
ApprovalStatus == {"none", "approved"} \cup ApprovalTerminal
Live == {"active", "suspended"}
BindingTerminal == {"completed", "failed", "revoked"}
BindingStatus == {"none"} \cup Live \cup BindingTerminal
\* APPROVAL_BLOCKING_BINDING_STATUSES
Blocking == {"active", "completed", "suspended"}
Compliance == {"within_scope", "scope_exceeded", "base_sha_mismatch",
               "no_mutation", "partial"}

\* BINDING_LIFECYCLE_TRANSITIONS
BindingTransition(from, to) ==
    \/ from = "none" /\ to = "active"
    \/ from = "active" /\ to \in {"suspended"} \cup BindingTerminal
    \/ from = "suspended" /\ to \in BindingTerminal

ApprovalTarget(a) == TargetOf[ProposalOf[a]]
ApprovalBase(a) == BaseSha[ProposalOf[a]]
ApprovalScope(a) == ScopeOf[ProposalOf[a]]

Receipt == [binding: Bindings, approval: Approvals, compliance: Compliance,
            binding_status: BindingStatus, approval_status: ApprovalStatus,
            changed: SUBSET Paths, run_failed: BOOLEAN]

-----------------------------------------------------------------------------
(***************************************************************************)
(* Process locals.  ret and err are the places a subroutine returns to and *)
(* raises to; seen and bst the approval and binding status last read.      *)
(***************************************************************************)
Idle == [op |-> "none", a |-> NoApproval, b |-> NoBinding, seen |-> "none",
         bst |-> "none", want |-> "none", ret |-> "idle", err |-> "idle",
         changed |-> {}, failed |-> FALSE, stop |-> "none",
         compliance |-> "no_mutation", decision |-> "auto",
         diag |-> [dirty |-> {}, stale |-> FALSE, dead |-> FALSE,
                   receipt |-> FALSE]]

Ops == {"none", "approve", "read", "revoke", "run", "enforce", "finalize",
        "recover"}
Places == {"idle", "persist", "mint", "revoke", "revoke.approval", "bind",
           "bind.check", "bind.save", "working", "checkpoint", "authority",
           "scope", "classify", "reload", "settle", "transition",
           "transition.write", "consequence", "consume", "exception",
           "exception.reload", "receipt", "diagnose", "recover.suspend",
           "recover.reload", "recover.restore", "recover.git",
           "recover.fail", "recover.outcome"}
Stops == {"none", "base_sha", "authority"}
Decisions == {"auto", "restore", "accept-partial", "mark-failed"}
Local == [op: Ops, a: Approvals \cup {NoApproval},
          b: Bindings \cup {NoBinding}, seen: ApprovalStatus,
          bst: BindingStatus, want: BindingStatus, ret: Places, err: Places,
          changed: SUBSET Paths, failed: BOOLEAN, stop: Stops,
          compliance: Compliance, decision: Decisions,
          diag: [dirty: SUBSET Paths, stale: BOOLEAN, dead: BOOLEAN,
                 receipt: BOOLEAN]]

\* Between two commands, or while the worker of a run is at work.
Rest == {"idle", "working"}
MayBegin(p) == Exclusive => \A q \in Procs \ {p} : pc[q] \in Rest

Goto(p, place) == pc' = [pc EXCEPT ![p] = place]
Remember(p, l) == loc' = [loc EXCEPT ![p] = l]
\* The process returns to its shell: its memory is gone.
Exit(p) == Goto(p, "idle") /\ Remember(p, Idle)
\* A subroutine returns or raises; its continuation is forgotten.
Resume(p, l, place) ==
    IF place = "idle" THEN Exit(p)
    ELSE /\ Goto(p, place)
         /\ Remember(p, [l EXCEPT !.want = "none", !.ret = "idle"])
Return(p, l) == Resume(p, l, l.ret)
Raise(p, l) == Resume(p, l, l.err)

(***************************************************************************)
(* load_approval(evaluate_ttl, persist_expiry): one read; an approved      *)
(* record past its TTL is first rewritten as expired ("persist").          *)
(***************************************************************************)
LoadApproval(p, l, next) ==
    IF approval[l.a] = "approved" /\ l.a \in lapsed
    THEN /\ Goto(p, "persist")
         /\ Remember(p, [l EXCEPT !.seen = "expired", !.ret = next])
    ELSE /\ Goto(p, next)
         /\ Remember(p, [l EXCEPT !.seen = approval[l.a]])

\* load_scope_roots_for_binding: the same load, whose status is not looked at.
LoadScopeRoots(p, l, next) ==
    IF approval[l.a] = "approved" /\ l.a \in lapsed
    THEN Goto(p, "persist") /\ Remember(p, [l EXCEPT !.ret = next])
    ELSE Goto(p, next) /\ Remember(p, l)

PersistExpiry(p) ==
    /\ pc[p] = "persist"
    /\ approval' = [approval EXCEPT ![loc[p].a] = "expired"]
    /\ Return(p, loc[p])
    /\ UNCHANGED <<grants, bindings, evidence, world>>

(***************************************************************************)
(* transition_binding_status: read the record, check the lifecycle table,  *)
(* then replace the file.                                                  *)
(***************************************************************************)
StartTransition(p, l, to, ret, err) ==
    /\ Goto(p, "transition")
    /\ Remember(p, [l EXCEPT !.want = to, !.ret = ret, !.err = err])

TransitionRead(p) ==
    LET l == loc[p] IN
    /\ pc[p] = "transition"
    /\ IF BindingTransition(bstatus[l.b], l.want)
       THEN Goto(p, "transition.write") /\ UNCHANGED loc
       ELSE \* the handler of a second failure reloads the binding
            Raise(p, IF l.err = "exception.reload"
                     THEN [l EXCEPT !.bst = bstatus[l.b]] ELSE l)
    /\ UNCHANGED <<store, world>>

TransitionWrite(p) ==
    LET l == loc[p] IN
    /\ pc[p] = "transition.write"
    /\ bstatus' = [bstatus EXCEPT ![l.b] = l.want]
    /\ Return(p, [l EXCEPT !.bst = l.want])
    /\ UNCHANGED <<approval, grants, bapproval, evidence, world>>

-----------------------------------------------------------------------------
(***************************************************************************)
(* Proposals and grants.                                                   *)
(***************************************************************************)

\* save_proposal: idempotent, a stored proposal is never rewritten.
ImportResult(r) ==
    /\ r \notin proposals
    /\ proposals' = proposals \cup {r}
    /\ UNCHANGED <<approval, revocations, bindings, evidence, world, pc, loc>>

\* Mutant: path.exists() is not looked at, and a spent approval is minted again.
ApproveAgain(p, a) ==
    /\ pc[p] = "idle" /\ MayBegin(p)
    /\ ProposalOf[a] \in proposals
    /\ Goto(p, "mint") /\ Remember(p, [Idle EXCEPT !.op = "approve", !.a = a])
    /\ UNCHANGED <<store, world>>

\* approve_proposal up to path.exists(): an existing record is returned as is.
ApproveCheck(p, a) ==
    /\ pc[p] = "idle" /\ MayBegin(p)
    /\ ProposalOf[a] \in proposals
    /\ approval[a] = "none"
    /\ Goto(p, "mint") /\ Remember(p, [Idle EXCEPT !.op = "approve", !.a = a])
    /\ UNCHANGED <<store, world>>

ApproveWrite(p) ==
    /\ pc[p] = "mint"
    /\ approval' = [approval EXCEPT ![loc[p].a] = "approved"]
    /\ Exit(p)
    /\ UNCHANGED <<grants, bindings, evidence, world>>

\* list, show and audit load approvals; only the expiry they persist is a change.
ReadApproval(p, a) ==
    /\ pc[p] = "idle" /\ MayBegin(p)
    /\ approval[a] = "approved" /\ a \in lapsed
    /\ LoadApproval(p, [Idle EXCEPT !.op = "read", !.a = a], "idle")
    /\ UNCHANGED <<store, world>>

\* revoke_approval by an operator; enforcement enters "revoke" by itself.
RevokeBegin(p, a) ==
    /\ pc[p] = "idle" /\ MayBegin(p)
    /\ approval[a] # "none"
    /\ LoadApproval(p, [Idle EXCEPT !.op = "revoke", !.a = a], "revoke")
    /\ UNCHANGED <<store, world>>

AfterRevoke(p, l) ==
    IF l.op = "enforce" THEN Goto(p, "receipt") /\ Remember(p, l) ELSE Exit(p)

\* Already revoked: the existing revocation is returned.
RevokeAgain(p) ==
    /\ pc[p] = "revoke" /\ loc[p].seen = "revoked"
    /\ AfterRevoke(p, loc[p])
    /\ UNCHANGED <<store, world>>

\* Expired or consumed: refused.
RevokeRefused(p) ==
    /\ pc[p] = "revoke" /\ loc[p].seen \in {"expired", "consumed"}
    /\ Raise(p, loc[p])
    /\ UNCHANGED <<store, world>>

\* Mutant: the revocation file is never written.
RevokeWithoutRevocation(p) ==
    /\ pc[p] = "revoke" /\ loc[p].seen = "approved"
    /\ Goto(p, "revoke.approval") /\ UNCHANGED loc
    /\ UNCHANGED <<store, world>>

\* The revocation file is written before the approval says "revoked".
RevokeWriteRevocation(p) ==
    /\ pc[p] = "revoke" /\ loc[p].seen = "approved"
    /\ revocations' = revocations \cup {loc[p].a}
    /\ Goto(p, "revoke.approval") /\ UNCHANGED loc
    /\ UNCHANGED <<proposals, approval, bindings, evidence, world>>

RevokeWriteApproval(p) ==
    /\ pc[p] = "revoke.approval"
    /\ approval' = [approval EXCEPT ![loc[p].a] = "revoked"]
    /\ AfterRevoke(p, [loc[p] EXCEPT !.seen = "revoked"])
    /\ UNCHANGED <<grants, bindings, evidence, world>>

-----------------------------------------------------------------------------
(***************************************************************************)
(* prepare_execution_write_scope and create_binding: the bind gate.        *)
(***************************************************************************)
BindBegin(p, a) ==
    /\ pc[p] = "idle" /\ MayBegin(p)
    /\ approval[a] # "none"
    /\ \E b \in Bindings : bstatus[b] = "none"    \* bound: ids left
    /\ LoadApproval(p, [Idle EXCEPT !.op = "run", !.a = a], "bind")
    /\ UNCHANGED <<store, world>>

\* The grant must be active and HEAD the approved commit.
BindGate(p) ==
    LET l == loc[p] IN
    /\ pc[p] = "bind"
    /\ IF /\ l.seen = "approved" /\ l.a \notin lapsed
          /\ head[ApprovalTarget(l.a)] = ApprovalBase(l.a)
       THEN Goto(p, "bind.check") /\ UNCHANGED loc
       ELSE Exit(p)
    /\ UNCHANGED <<store, world>>

\* Mutant: a completed binding does not block its approval.
BlockedWhileLive(a) ==
    \E b \in Bindings : bstatus[b] \in Live /\ bapproval[b] = a

\* approval_has_blocking_binding
BlockedApproval(a) ==
    \E b \in Bindings : bstatus[b] \in Blocking /\ bapproval[b] = a

\* Mutant: a suspended binding does not hold its target.
BusyWhileActive(t) ==
    \E b \in Bindings : /\ bstatus[b] = "active"
                        /\ ApprovalTarget(bapproval[b]) = t

\* active_binding_for_target
BusyTarget(t) ==
    \E b \in Bindings : /\ bstatus[b] \in Live
                        /\ ApprovalTarget(bapproval[b]) = t

BindCheck(p) ==
    LET l == loc[p] IN
    /\ pc[p] = "bind.check"
    /\ IF BlockedApproval(l.a) \/ BusyTarget(ApprovalTarget(l.a))
       THEN Exit(p)
       ELSE Goto(p, "bind.save") /\ UNCHANGED loc
    /\ UNCHANGED <<store, world>>

\* Mutant: save_binding overwrites an existing record.
BindSaveOverwrites(p, b) ==
    /\ pc[p] = "bind.save"
    /\ bstatus' = [bstatus EXCEPT ![b] = "active"]
    /\ bapproval' = [bapproval EXCEPT ![b] = loc[p].a]
    /\ Goto(p, "working")
    /\ Remember(p, [loc[p] EXCEPT !.b = b, !.bst = "active"])
    /\ UNCHANGED <<approval, grants, evidence, world>>

\* save_binding under a new id; the worker may now mutate the workspace.
BindSave(p, b) ==
    /\ pc[p] = "bind.save"
    /\ bstatus[b] = "none"
    /\ bstatus' = [bstatus EXCEPT ![b] = "active"]
    /\ bapproval' = [bapproval EXCEPT ![b] = loc[p].a]
    /\ Goto(p, "working")
    /\ Remember(p, [loc[p] EXCEPT !.b = b, !.bst = "active"])
    /\ UNCHANGED <<approval, grants, evidence, world>>

\* The worker writes one path of the workspace, in or out of scope.
Mutate(p, path) ==
    LET t == ApprovalTarget(loc[p].a) IN
    /\ pc[p] = "working"
    /\ path \notin loc[p].changed
    /\ dirty' = [dirty EXCEPT ![t] = @ \cup {path}]
    /\ Remember(p, [loc[p] EXCEPT !.changed = @ \cup {path}])
    /\ UNCHANGED <<store, lapsed, head, pc>>

\* Mutant: a status that BINDING_STATUSES does not have.
FinalizeCancelled(p) ==
    /\ pc[p] = "working" /\ MayBegin(p)
    /\ loc[p].changed = {}
    /\ StartTransition(p, [loc[p] EXCEPT !.op = "finalize"], "cancelled", "idle", "idle")
    /\ UNCHANGED <<store, world>>

\* finalize_binding(success=False): readiness refused the run before any work.
FinalizeFailed(p) ==
    /\ pc[p] = "working" /\ MayBegin(p)
    /\ loc[p].changed = {}
    /\ StartTransition(p, [loc[p] EXCEPT !.op = "finalize"], "failed", "idle", "idle")
    /\ UNCHANGED <<store, world>>

-----------------------------------------------------------------------------
(***************************************************************************)
(* enforce_write_scope_mutations.  The run reports the paths it changed and*)
(* whether it failed; a dispatch that raised reports no path at all.       *)
(***************************************************************************)
EnforceBegin(p, changed, failed) ==
    /\ pc[p] = "working" /\ MayBegin(p)
    /\ changed = loc[p].changed \/ (Faults /\ changed = {} /\ failed)
    /\ Goto(p, "checkpoint")
    /\ Remember(p, [loc[p] EXCEPT !.op = "enforce", !.changed = changed,
                                  !.failed = failed,
                                  !.bst = bstatus[loc[p].b]])
    /\ UNCHANGED <<store, world>>

\* check_authority_checkpoint
Checkpoint(p) ==
    LET l == loc[p] IN
    /\ pc[p] = "checkpoint"
    /\ IF l.bst \in Live
       THEN LoadApproval(p, l, "authority")
       ELSE Goto(p, "scope") /\ Remember(p, [l EXCEPT !.stop = "authority"])
    /\ UNCHANGED <<store, world>>

StopReason(l) ==
    IF l.seen # "approved" \/ l.a \in lapsed THEN "authority"
    ELSE IF head[ApprovalTarget(l.a)] # ApprovalBase(l.a) THEN "base_sha"
    ELSE "none"

Authority(p) ==
    /\ pc[p] = "authority"
    /\ Goto(p, "scope")
    /\ Remember(p, [loc[p] EXCEPT !.stop = StopReason(loc[p])])
    /\ UNCHANGED <<store, world>>

ScopeRoots(p) ==
    /\ pc[p] = "scope"
    /\ LoadScopeRoots(p, loc[p], "classify")
    /\ UNCHANGED <<store, world>>

OutOfScope(l) == l.changed \ ApprovalScope(l.a)

ComplianceOf(l) ==
    CASE l.stop = "base_sha" -> "base_sha_mismatch"
      [] l.stop # "base_sha" /\ OutOfScope(l) # {} -> "scope_exceeded"
      [] l.stop # "base_sha" /\ l.changed = {} -> "no_mutation"
      [] OTHER -> IF l.stop = "authority" \/ l.failed THEN "partial"
                  ELSE "within_scope"

RunFailed(l) == l.failed \/ l.stop # "none" \/ OutOfScope(l) # {}

\* restore_paths is best effort: the paths in kept stay as they are.
Restore(t, paths, kept) ==
    /\ kept \subseteq paths /\ (kept # {} => Faults)
    /\ dirty' = [dirty EXCEPT ![t] = @ \ (paths \ kept)]
    /\ UNCHANGED <<lapsed, head>>

Classify(p, kept) ==
    LET l == loc[p] IN
    /\ pc[p] = "classify"
    /\ Restore(ApprovalTarget(l.a), OutOfScope(l), kept)
    /\ Goto(p, "reload")
    /\ Remember(p, [l EXCEPT !.compliance = ComplianceOf(l),
                             !.failed = RunFailed(l)])
    /\ UNCHANGED store

\* A git subprocess times out: the handoff catches it and fails the binding.
ClassifyRaises(p, kept) ==
    LET l == loc[p] IN
    /\ pc[p] = "classify" /\ Faults /\ OutOfScope(l) # {}
    /\ Restore(ApprovalTarget(l.a), OutOfScope(l), kept)
    /\ StartTransition(p, [l EXCEPT !.op = "finalize"], "failed", "idle", "idle")
    /\ UNCHANGED store

Reload(p) ==
    /\ pc[p] = "reload"
    /\ LoadApproval(p, loc[p], "settle")
    /\ UNCHANGED <<store, world>>

\* Mutant: the binding is left as it is.
SettleForgetsBinding(p) ==
    /\ pc[p] = "settle"
    /\ Goto(p, "consequence")
    /\ Remember(p, [loc[p] EXCEPT !.err = "exception"])
    /\ UNCHANGED <<store, world>>

\* The binding ends first ...
Settle(p) ==
    LET l == [loc[p] EXCEPT !.err = "exception"]
        want == IF l.compliance \in {"within_scope", "no_mutation"} /\ ~l.failed
                THEN "completed" ELSE "failed" IN
    /\ pc[p] = "settle"
    /\ IF l.bst \in Live
       THEN StartTransition(p, l, want, "consequence", "exception")
       ELSE Goto(p, "consequence") /\ Remember(p, l)
    /\ UNCHANGED <<store, world>>

\* Mutant: a partial run does not use up its approval.
ConsequenceKeepsPartial(p) ==
    LET l == loc[p] IN
    /\ pc[p] = "consequence"
    /\ CASE l.compliance = "within_scope" -> LoadApproval(p, l, "consume")
         [] l.compliance = "scope_exceeded" /\ l.seen = "approved"
              -> LoadApproval(p, l, "revoke")
         [] OTHER -> Goto(p, "receipt") /\ UNCHANGED loc
    /\ UNCHANGED <<store, world>>

\* ... then the grant is consumed, revoked for the breach, or left alone.
Consequence(p) ==
    LET l == loc[p] IN
    /\ pc[p] = "consequence"
    /\ CASE \/ l.compliance = "within_scope"
            \/ l.compliance = "partial" /\ l.seen = "approved"
              -> LoadApproval(p, l, "consume")
         [] l.compliance = "scope_exceeded" /\ l.seen = "approved"
              -> LoadApproval(p, l, "revoke")
         [] OTHER -> Goto(p, "receipt") /\ UNCHANGED loc
    /\ UNCHANGED <<store, world>>

\* Mutant: whatever the approval was, it is now consumed.
ConsumeUnchecked(p) ==
    /\ pc[p] = "consume"
    /\ approval' = [approval EXCEPT ![loc[p].a] = "consumed"]
    /\ Goto(p, "receipt") /\ Remember(p, [loc[p] EXCEPT !.seen = "consumed"])
    /\ UNCHANGED <<grants, bindings, evidence, world>>

\* Mutant: the receipt is written with the approval as it was loaded.
ConsumeForgotten(p) ==
    LET l == loc[p] IN
    /\ pc[p] = "consume"
    /\ IF l.seen = "approved"
       THEN /\ approval' = [approval EXCEPT ![l.a] = "consumed"]
            /\ Goto(p, "receipt") /\ UNCHANGED loc
       ELSE Raise(p, l) /\ UNCHANGED approval
    /\ UNCHANGED <<grants, bindings, evidence, world>>

\* consume_approval, transition_approval_status
Consume(p) ==
    LET l == loc[p] IN
    /\ pc[p] = "consume"
    /\ IF l.seen = "approved"
       THEN /\ approval' = [approval EXCEPT ![l.a] = "consumed"]
            /\ Goto(p, "receipt") /\ Remember(p, [l EXCEPT !.seen = "consumed"])
       ELSE Raise(p, l) /\ UNCHANGED approval
    /\ UNCHANGED <<grants, bindings, evidence, world>>

\* A refused transition fails the run, and the binding if it is still live.
Exception(p) ==
    LET l == [loc[p] EXCEPT !.failed = TRUE] IN
    /\ pc[p] = "exception"
    /\ IF l.bst \in Live
       THEN StartTransition(p, l, "failed", "exception.reload", "exception.reload")
       ELSE Goto(p, "exception.reload") /\ Remember(p, l)
    /\ UNCHANGED <<store, world>>

ExceptionReload(p) ==
    /\ pc[p] = "exception.reload"
    /\ LoadApproval(p, loc[p], "receipt")
    /\ UNCHANGED <<store, world>>

\* save_receipt; the result of the run is aligned with it and returned.
WriteReceipt(p) ==
    LET l == loc[p] IN
    /\ pc[p] = "receipt"
    /\ receipts' = receipts \cup
         {[binding |-> l.b, approval |-> l.a, compliance |-> l.compliance,
           binding_status |-> l.bst, approval_status |-> l.seen,
           changed |-> l.changed, run_failed |-> l.failed]}
    /\ Exit(p)
    /\ UNCHANGED <<approval, grants, bindings, needsNew, world>>

-----------------------------------------------------------------------------
(***************************************************************************)
(* recover_binding by an operator, on any binding that is not completed.   *)
(***************************************************************************)
RecoverBegin(p, b, decision) ==
    /\ pc[p] = "idle" /\ MayBegin(p)
    /\ bstatus[b] \in Live \cup {"failed"}
    /\ LoadApproval(p, [Idle EXCEPT !.op = "recover", !.a = bapproval[b],
                                    !.b = b, !.decision = decision], "diagnose")
    /\ UNCHANGED <<store, world>>

\* diagnose_binding_recovery; "auto" refuses to decide about a dirty workspace.
Diagnose(p) ==
    LET l == loc[p]
        t == ApprovalTarget(l.a)
        diag == [dirty |-> dirty[t], stale |-> head[t] # ApprovalBase(l.a),
                 dead |-> l.seen \in {"expired", "revoked"},
                 receipt |-> \E r \in receipts : r.binding = l.b] IN
    /\ pc[p] = "diagnose"
    /\ IF l.decision = "auto" /\ diag.dirty # {} /\ ~diag.dead /\ ~diag.stale
       THEN Exit(p)
       ELSE /\ Goto(p, "recover.suspend")
            /\ Remember(p, [l EXCEPT !.diag = diag,
                              !.decision = IF @ = "auto" THEN "mark-failed" ELSE @])
    /\ UNCHANGED <<store, world>>

RecoverSuspend(p) ==
    LET l == [loc[p] EXCEPT !.bst = bstatus[loc[p].b]] IN
    /\ pc[p] = "recover.suspend"
    /\ CASE l.bst = "completed" -> Exit(p)
         [] l.bst = "active" ->
              StartTransition(p, l, "suspended", "recover.reload", "idle")
         [] OTHER -> Goto(p, "recover.reload") /\ Remember(p, l)
    /\ UNCHANGED <<store, world>>

RecoverReload(p) ==
    /\ pc[p] = "recover.reload"
    /\ LoadApproval(p, loc[p], "recover.restore")
    /\ UNCHANGED <<store, world>>

RecoverRestore(p) ==
    LET l == loc[p] IN
    /\ pc[p] = "recover.restore"
    /\ IF l.decision = "restore" /\ l.diag.dirty # {}
       THEN LoadScopeRoots(p, l, "recover.git")
       ELSE Goto(p, "recover.fail") /\ UNCHANGED loc
    /\ UNCHANGED <<store, world>>

\* Every path that was dirty at the diagnosis is restored, whoever wrote it.
RecoverGit(p, kept) ==
    /\ pc[p] = "recover.git"
    /\ Restore(ApprovalTarget(loc[p].a), loc[p].diag.dirty, kept)
    /\ Goto(p, "recover.fail") /\ UNCHANGED loc
    /\ UNCHANGED store

\* restore_paths raised: manual_intervention_required, the binding stays suspended.
RecoverGitRaises(p, kept) ==
    /\ pc[p] = "recover.git" /\ Faults
    /\ Restore(ApprovalTarget(loc[p].a), loc[p].diag.dirty, kept)
    /\ Exit(p)
    /\ UNCHANGED store

RecoverFail(p) ==
    /\ pc[p] = "recover.fail"
    /\ IF loc[p].bst \in Live
       THEN StartTransition(p, loc[p], "failed", "recover.outcome", "idle")
       ELSE Goto(p, "recover.outcome") /\ UNCHANGED loc
    /\ UNCHANGED <<store, world>>

RequireNew(l) ==
    \/ l.seen \in ApprovalTerminal
    \/ /\ l.diag.dirty # {} \/ ~l.diag.receipt \/ l.diag.stale \/ l.diag.dead
       /\ ~ (/\ l.seen = "approved" /\ l.a \notin lapsed /\ l.diag.dirty = {}
             /\ ~l.diag.receipt /\ ~l.diag.stale)

\* The recover event records whether a new approval is required.
RecoverOutcome(p) ==
    /\ pc[p] = "recover.outcome"
    /\ needsNew' = IF RequireNew(loc[p]) THEN needsNew \cup {loc[p].a} ELSE needsNew
    /\ Exit(p)
    /\ UNCHANGED <<approval, grants, bindings, receipts, world>>

-----------------------------------------------------------------------------
(***************************************************************************)
(* What is outside a command: the clock, the repository, a killed process. *)
(***************************************************************************)
Lapse(a) ==
    /\ approval[a] # "none" /\ a \notin lapsed
    /\ lapsed' = lapsed \cup {a}
    /\ UNCHANGED <<store, head, dirty, pc, loc>>

MoveHead(t, s) ==
    /\ s # head[t]
    /\ head' = [head EXCEPT ![t] = s]
    /\ UNCHANGED <<store, lapsed, dirty, pc, loc>>

Crash(p) ==
    /\ Faults /\ pc[p] # "idle"
    /\ Exit(p)
    /\ UNCHANGED <<store, world>>

Init ==
    /\ proposals = {} /\ revocations = {} /\ lapsed = {}
    /\ approval = [a \in Approvals |-> "none"]
    /\ bstatus = [b \in Bindings |-> "none"]
    /\ bapproval = [b \in Bindings |-> NoApproval]
    /\ receipts = {} /\ needsNew = {}
    /\ head \in [Targets -> Shas]
    /\ dirty = [t \in Targets |-> {}]
    /\ pc = [p \in Procs |-> "idle"]
    /\ loc = [p \in Procs |-> Idle]

\* An operator starts a command.
Command(p) ==
    \/ \E a \in Approvals : ApproveCheck(p, a)
    \/ \E a \in Approvals : ReadApproval(p, a)
    \/ \E a \in Approvals : RevokeBegin(p, a)
    \/ \E a \in Approvals : BindBegin(p, a)
    \/ \E b \in Bindings, d \in Decisions : RecoverBegin(p, b, d)

\* The worker of a run ends, and the run is judged.
EndWork(p) ==
    \/ FinalizeFailed(p)
    \/ \E changed \in SUBSET Paths, failed \in BOOLEAN :
         EnforceBegin(p, changed, failed)

\* A command goes on.
Step(p) ==
    \/ PersistExpiry(p) \/ TransitionRead(p) \/ TransitionWrite(p)
    \/ ApproveWrite(p)
    \/ RevokeAgain(p) \/ RevokeRefused(p)
    \/ RevokeWriteRevocation(p) \/ RevokeWriteApproval(p)
    \/ BindGate(p) \/ BindCheck(p) \/ (\E b \in Bindings : BindSave(p, b))
    \/ Checkpoint(p) \/ Authority(p) \/ ScopeRoots(p)
    \/ (\E kept \in SUBSET Paths : Classify(p, kept) \/ ClassifyRaises(p, kept))
    \/ Reload(p) \/ Settle(p) \/ Consequence(p) \/ Consume(p)
    \/ Exception(p) \/ ExceptionReload(p) \/ WriteReceipt(p)
    \/ Diagnose(p) \/ RecoverSuspend(p) \/ RecoverReload(p) \/ RecoverRestore(p)
    \/ (\E kept \in SUBSET Paths : RecoverGit(p, kept) \/ RecoverGitRaises(p, kept))
    \/ RecoverFail(p) \/ RecoverOutcome(p)

Environment ==
    \/ \E r \in Proposals : ImportResult(r)
    \/ \E a \in Approvals : Lapse(a)
    \/ \E t \in Targets, s \in Shas : MoveHead(t, s)

Next ==
    \/ \E p \in Procs : Command(p) \/ EndWork(p) \/ Step(p) \/ Crash(p)
    \/ \E p \in Procs, path \in Paths : Mutate(p, path)
    \/ Environment

Spec == Init /\ [][Next]_vars

(***************************************************************************)
(* A command that has started goes on, and its worker ends (the runner is  *)
(* a subprocess with a timeout).  Nothing makes an operator start one.     *)
(***************************************************************************)
Fairness == \A p \in Procs : WF_vars(Step(p) \/ EndWork(p))

FairSpec == Spec /\ Fairness

-----------------------------------------------------------------------------
(***************************************************************************)
(* Properties.                                                             *)
(***************************************************************************)

\* Every variable keeps its type.
TypeOK ==
    /\ proposals \subseteq Proposals
    /\ approval \in [Approvals -> ApprovalStatus]
    /\ revocations \subseteq Approvals
    /\ lapsed \subseteq Approvals
    /\ bstatus \in [Bindings -> BindingStatus]
    /\ bapproval \in [Bindings -> Approvals \cup {NoApproval}]
    /\ receipts \subseteq Receipt
    /\ needsNew \subseteq Approvals
    /\ head \in [Targets -> Shas]
    /\ dirty \in [Targets -> SUBSET Paths]
    /\ pc \in [Procs -> Places]
    /\ loc \in [Procs -> Local]

\* Two live bindings never share a target (active_binding_for_target): a
\* workspace has one governed writer, whoever crashed, recovered or retried.
OneWriterPerTarget ==
    \A b, c \in Bindings :
        /\ bstatus[b] \in Live /\ bstatus[c] \in Live
        /\ ApprovalTarget(bapproval[b]) = ApprovalTarget(bapproval[c])
        => b = c

\* An approval carries at most one binding that is active, suspended or
\* completed (approval_has_blocking_binding): one grant, one successful run.
SingleUse ==
    \A b, c \in Bindings :
        /\ bstatus[b] \in Blocking /\ bstatus[c] \in Blocking
        /\ bapproval[b] = bapproval[c]
        => b = c

\* A revoked approval always has its revocation file: revoke_approval writes
\* that file first, and load_revocation of a revoked approval would raise.
RevokedHasRevocation ==
    \A a \in Approvals : approval[a] = "revoked" => a \in revocations

\* Once an approval is revoked, expired or consumed it keeps that status: no
\* command writes back a record it read earlier (ALLOWED transitions, "never
\* repaired").
ApprovalTerminalIsFinal ==
    [][\A a \in Approvals : approval[a] \in ApprovalTerminal
                            => approval'[a] = approval[a]]_vars

\* A completed or failed binding is never rewritten, by enforcement or recovery.
BindingTerminalIsFinal ==
    [][\A b \in Bindings : bstatus[b] \in BindingTerminal
                           => bstatus'[b] = bstatus[b]]_vars

\* A receipt states what the store holds when it is written, and the binding
\* it names is no longer live: enforcement never leaves a reservation behind.
ReceiptsAreTrue ==
    [][\A r \in receipts' \ receipts :
          /\ r.binding_status = bstatus[r.binding]
          /\ r.approval_status = approval[r.approval]
          /\ r.binding_status \notin Live]_vars

\* A grant under which a receipt reports changed paths is spent, unless the
\* run was stopped because HEAD had moved: no second run builds on the first.
ReceiptedMutationEndsGrant ==
    \A r \in receipts :
        r.changed # {} /\ r.compliance # "base_sha_mismatch"
        => approval[r.approval] \in ApprovalTerminal

\* A run is only reported as an in-scope success when its binding completed
\* and its approval was consumed by it.
SuccessIsConsumed ==
    \A r \in receipts :
        r.compliance = "within_scope" /\ ~r.run_failed
        => r.binding_status = "completed" /\ approval[r.approval] = "consumed"

\* A consumed approval was consumed for a run that has ended: one of its
\* bindings is completed or failed.
ConsumedByEndedRun ==
    \A a \in Approvals : approval[a] = "consumed"
        => \E b \in Bindings : bapproval[b] = a /\ bstatus[b] \in BindingTerminal

\* The accounts of a grant are in order: what receipts and approvals say of its
\* use is true of its bindings, after any sequence of failures and retries.
GrantAccounted == ReceiptedMutationEndsGrant /\ SuccessIsConsumed /\ ConsumedByEndedRun

\* Without faults every binding that is active or suspended gets out of it,
\* however enforcement, recovery, revocation and expiry interleave.
EveryBindingSettles ==
    \A b \in Bindings : bstatus[b] \in Live ~> bstatus[b] \notin Live

\* After recovery reported require_new_approval for an approval, no binding is
\* created under it.
RequiredApprovalIsNew ==
    [][\A b \in Bindings : bstatus[b] = "none" /\ bstatus'[b] = "active"
                           => bapproval'[b] \notin needsNew]_vars

\* A run without changes and without failure leaves its approval reusable:
\* its completed binding does not block a new bind.
NoMutationIsReusable ==
    \A r \in receipts :
        r.compliance = "no_mutation" /\ ~r.run_failed
        => ~BlockedApproval(r.approval)

(***************************************************************************)
(* The grant an operator sees: ended once its approval is terminal or past *)
(* its TTL, or once a run completed under it; reserved while a binding of  *)
(* it is live.                                                             *)
(***************************************************************************)
GrantOf(a) ==
    IF approval[a] = "none" THEN "none"
    ELSE IF \/ approval[a] \in ApprovalTerminal
            \/ a \in lapsed
            \/ \E b \in Bindings : bstatus[b] = "completed" /\ bapproval[b] = a
    THEN "ended"
    ELSE IF \E b \in Bindings : bstatus[b] \in Live /\ bapproval[b] = a
    THEN "reserved" ELSE "available"

Grant == INSTANCE WriteGrant WITH
    Target <- [a \in Approvals |-> ApprovalTarget(a)],
    grant <- [a \in Approvals |-> GrantOf(a)]

\* The stores, with crashes, recovery and expiry, keep the operator's view of
\* every grant: WriteScope implements WriteGrant.
ImplementsWriteGrant == Grant!GrantSpec
=============================================================================
