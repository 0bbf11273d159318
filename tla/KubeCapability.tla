--------------------------- MODULE KubeCapability ---------------------------
(***************************************************************************)
(* Governed access to a Kubernetes Deployment (kubernetes_capability.py    *)
(* with the live executor of kubernetes_live.py).  A proposal freezes what *)
(* may be done; an operator grants it for a while; an attempt binds to the *)
(* grant, reads the Deployment, patches it, reads it back, closes its      *)
(* binding, spends the grant and writes a receipt.  Attempts are           *)
(* processes of their own: they interleave at every file access and API    *)
(* call, die anywhere, and kubectl may time out after the patch landed.    *)
(*                                                                         *)
(* One proposal and one Deployment.  The proposal is a "read" grant (get), *)
(* a "mutate" grant (get, and the annotation patch) or an "exact" one (the *)
(* readiness patch, timeoutSeconds 1 to 3); an exact proposal may pin the  *)
(* resourceVersion that was reviewed.                                      *)
(***************************************************************************)
EXTENDS Naturals, FiniteSets

CONSTANTS Attempts,  \* invocations of execute_kubernetes_capability
          Grants,    \* approvals of the proposal
          None,      \* no grant, no attempt
          Changes,   \* bound: changes of the Deployment by somebody else
          Crashes,   \* bound: attempts that die
          Lapses     \* bound: grants whose time runs out

ASSUME NoneIsNothing == None \notin Attempts /\ None \notin Grants
ASSUME BoundsAreNat == Changes \in Nat /\ Crashes \in Nat /\ Lapses \in Nat

VARIABLES proposal,  \* what the proposal freezes
          deploy,    \* the Deployment in the cluster
          app,       \* the approval files, by status
          overdue,   \* grants whose expires_at has passed
          expiring,  \* grants that somebody read as expired and will store so
          revoking,  \* grants that a revocation has read as approved
          bind,      \* the binding file each attempt created
          att,       \* the attempts
          receipt,   \* the receipt each attempt wrote
          landed,    \* history: attempts whose patch changed the Deployment
          budget     \* changes by somebody else and crashes so far

files == <<app, overdue, expiring, revoking, bind, receipt>>
vars == <<proposal, deploy, files, att, landed, budget>>

-----------------------------------------------------------------------------
(* Records *)

Ops == {"get", "annotation", "readiness"}
Proposals == [kind : {"read", "mutate", "exact"}, pinned : BOOLEAN]

\* resourceVersion, the probe's timeoutSeconds, the annotation AMOF may set, and
\* everything else that a change of the object can touch.
Deployments == [rv : Nat, timeout : {1, 3}, note : {"old", "new"}, other : Nat]
Reviewed == [rv |-> 0, timeout |-> 1, note |-> "old", other |-> 0]

NoBinding == [status |-> "absent", grant |-> None, consumes |-> FALSE]
NoReceipt == [acceptance |-> "none", verified |-> FALSE, executed |-> FALSE, changed |-> FALSE]
Receipts == [acceptance : {"none", "PASS", "FAIL", "UNVERIFIED"}, verified : BOOLEAN,
             executed : BOOLEAN, changed : BOOLEAN]

\* classify_operation
InScope(op) ==
    \/ proposal.kind = "read" /\ op = "get"
    \/ proposal.kind = "mutate" /\ op \in {"get", "annotation"}
    \/ proposal.kind = "exact" /\ op = "readiness"

\* _evaluate_approval_ttl
Projected(g) == IF app[g] = "approved" /\ g \in overdue THEN "expired" ELSE app[g]

\* load_approval reads the file; if it is past its time and not stored as expired,
\* the reader writes it back later, whatever is in it by then.
Reads(g) == expiring' = IF app[g] = "approved" /\ g \in overdue THEN expiring \cup {g} ELSE expiring

\* _blocking_binding: an active binding, or a completed one that consumed the grant.
Blocking(g) ==
    \E b \in Attempts :
        /\ bind[b].grant = g
        /\ \/ bind[b].status = "active"
           \/ bind[b].status = "completed" /\ bind[b].consumes

Pcs == {"idle", "bind", "scope", "read", "patch", "readback", "finalize", "close", "consume",
        "spend", "receipt", "done", "dead"}

\* What the rest of the attempt will write: the binding's new status, whether it
\* consumes the grant, and the receipt.
Verdicts == [status : {"completed", "failed"}, consumes : BOOLEAN, receipt : Receipts]
NoVerdict == [status |-> "failed", consumes |-> FALSE, receipt |-> NoReceipt]

\* prior: history, the attempts that had bound to the grant when this one checked it.
Idle == [pc |-> "idle", op |-> "get", grant |-> None, binding |-> None,
         before |-> Reviewed, prior |-> {}, verdict |-> NoVerdict]

Init ==
    /\ proposal \in {q \in Proposals : q.pinned => q.kind = "exact"}
    /\ deploy = Reviewed
    /\ app = [g \in Grants |-> "absent"]
    /\ overdue = {}
    /\ expiring = {}
    /\ revoking = {}
    /\ bind = [a \in Attempts |-> NoBinding]
    /\ att = [a \in Attempts |-> Idle]
    /\ receipt = [a \in Attempts |-> NoReceipt]
    /\ landed = {}
    /\ budget = [changes |-> 0, crashes |-> 0]

At(a, pc) == att[a].pc = pc
Go(a, pc) == att' = [att EXCEPT ![a].pc = pc]
Decide(a, v) == att' = [att EXCEPT ![a].pc = "finalize", ![a].verdict = v, ![a].before = Reviewed]
End(a, pc) == att' = [att EXCEPT ![a].pc = pc, ![a].verdict = NoVerdict, ![a].before = Reviewed]

-----------------------------------------------------------------------------
(* Grants *)

\* approve_proposal
Approve(g) ==
    /\ app[g] = "absent"
    /\ app' = [app EXCEPT ![g] = "approved"]
    /\ UNCHANGED <<proposal, deploy, overdue, expiring, revoking, bind, att, receipt, landed, budget>>

\* expires_at passes.
TimePasses(g) ==
    /\ app[g] # "absent" /\ g \notin overdue /\ Cardinality(overdue) < Lapses
    /\ overdue' = overdue \cup {g}
    /\ UNCHANGED <<proposal, deploy, app, expiring, revoking, bind, att, receipt, landed, budget>>

\* load_approval, second half: the record that was read is stored as expired.
PersistExpiry(g) ==
    /\ g \in expiring
    /\ app' = [app EXCEPT ![g] = "expired"]
    /\ expiring' = expiring \ {g}
    /\ UNCHANGED <<proposal, deploy, overdue, revoking, bind, att, receipt, landed, budget>>

\* revoke_approval reads the approval, and refuses one that is not approved.
RevokeLoad(g) ==
    /\ app[g] # "absent"
    /\ Reads(g)
    /\ revoking' = IF Projected(g) = "approved" THEN revoking \cup {g} ELSE revoking
    /\ UNCHANGED <<proposal, deploy, app, overdue, bind, att, receipt, landed, budget>>

\* It writes what it read back, as revoked, and a revocation record beside it.
RevokeWrite(g) ==
    /\ g \in revoking
    /\ app' = [app EXCEPT ![g] = "revoked"]
    /\ revoking' = revoking \ {g}
    /\ UNCHANGED <<proposal, deploy, overdue, expiring, bind, att, receipt, landed, budget>>

-----------------------------------------------------------------------------
(* Attempts: authority *)

\* load_approval and the checks of create_binding.
BindCheck(a) ==
    /\ At(a, "idle")
    /\ \E op \in Ops, g \in Grants :
          /\ app[g] # "absent"
          /\ Reads(g)
          /\ att' = [att EXCEPT ![a] =
                 [Idle EXCEPT !.pc = IF Projected(g) = "approved" /\ ~Blocking(g)
                                     THEN "bind" ELSE "done",
                              !.op = op, !.grant = g, !.binding = a,
                              !.prior = {b \in Attempts : bind[b].grant = g}]]
    /\ UNCHANGED <<proposal, deploy, app, overdue, revoking, bind, receipt, landed, budget>>

\* create_binding writes its file.
BindWrite(a) ==
    /\ At(a, "bind")
    /\ bind' = [bind EXCEPT ![a] = [status |-> "active", grant |-> att[a].grant, consumes |-> FALSE]]
    /\ Go(a, "scope")
    /\ UNCHANGED <<proposal, deploy, app, overdue, expiring, revoking, receipt, landed, budget>>

\* execute with binding_id: an active binding, the caller's own, a dead one's, or one that
\* another attempt is still working on.
Rebind(a) ==
    /\ At(a, "idle")
    /\ \E op \in Ops, b \in Attempts :
          /\ bind[b].status # "absent"
          /\ Reads(bind[b].grant)
          /\ att' = [att EXCEPT ![a] =
                 IF bind[b].status = "active" /\ Projected(bind[b].grant) = "approved"
                 THEN [Idle EXCEPT !.pc = "scope", !.op = op, !.grant = bind[b].grant, !.binding = b]
                 ELSE [Idle EXCEPT !.pc = "done"]]
    /\ UNCHANGED <<proposal, deploy, app, overdue, revoking, bind, receipt, landed, budget>>

Receipt(acceptance, verified, executed) ==
    [acceptance |-> acceptance, verified |-> verified, executed |-> executed, changed |-> FALSE]

\* The scope check before the executor.
Scope(a) ==
    /\ At(a, "scope")
    /\ \/ InScope(att[a].op) /\ Go(a, "read")
       \/ /\ ~InScope(att[a].op)
          /\ Decide(a, [status |-> "failed", consumes |-> FALSE,
                        receipt |-> Receipt("FAIL", TRUE, FALSE)])
    /\ UNCHANGED <<proposal, deploy, files, landed, budget>>

-----------------------------------------------------------------------------
(* Attempts: the live executor *)

\* Mutant: a failed readiness attempt does not consume the grant either.
FailureKeepsGrant(op) ==
    [status |-> "failed", consumes |-> FALSE,
     receipt |-> IF op = "readiness" THEN Receipt("UNVERIFIED", FALSE, FALSE)
                 ELSE Receipt("FAIL", TRUE, FALSE)]

\* except KubernetesCapabilityError: what an error of the executor decides.
Failure(op) ==
    [status |-> "failed", consumes |-> op = "readiness",
     receipt |-> IF op = "readiness" THEN Receipt("UNVERIFIED", FALSE, FALSE)
                 ELSE Receipt("FAIL", TRUE, FALSE)]

Unverified(op) ==
    [status |-> "failed", consumes |-> op = "readiness",
     receipt |-> Receipt("UNVERIFIED", FALSE, op # "get")]

Success(op, changed) ==
    [status |-> "completed", consumes |-> op # "get" /\ changed,
     receipt |-> [Receipt("PASS", TRUE, TRUE) EXCEPT !.changed = op # "get" /\ changed]]

\* Mutant: the reviewed resourceVersion is not compared.
PreimageUnpinned(op, d) == op = "readiness" => d.timeout = 1

\* The pre-image is the reviewed one and the probe still has its old timeout.
Preimage(op, d) ==
    op = "readiness" => d.timeout = 1 /\ (proposal.pinned => d.rv = Reviewed.rv)

\* get_deployment, then the checks of the pre-image.
ReadBefore(a) ==
    LET op == att[a].op
    IN  /\ At(a, "read")
        /\ \/ /\ Preimage(op, deploy)
              /\ IF op = "get" THEN Decide(a, Success(op, FALSE))
                 ELSE att' = [att EXCEPT ![a].pc = "patch", ![a].before = deploy]
           \/ /\ ~Preimage(op, deploy)
              /\ Decide(a, Failure(op))
        /\ UNCHANGED <<proposal, deploy, files, landed, budget>>

\* Mutant: a failed patch is left to the read-back to judge.
TransportFailsReadsBack(a) ==
    /\ att[a].pc \in {"read", "patch", "readback"}
    /\ IF At(a, "patch") THEN Go(a, "readback") ELSE Decide(a, Failure(att[a].op))
    /\ UNCHANGED <<proposal, deploy, files, landed, budget>>

\* kubectl fails, times out or warns, before or after the API was reached.
TransportFails(a) ==
    /\ att[a].pc \in {"read", "patch", "readback"}
    /\ Decide(a, Failure(att[a].op))
    /\ UNCHANGED <<proposal, deploy, files, landed, budget>>

\* An executor that the caller supplied raises KubernetesCapabilityInterrupted.
Interrupted(a) ==
    /\ att[a].pc \in {"read", "patch", "readback"}
    /\ Decide(a, [Failure(att[a].op) EXCEPT !.receipt = Receipt("UNVERIFIED", FALSE, FALSE)])
    /\ UNCHANGED <<proposal, deploy, files, landed, budget>>

\* What the API server makes of the patch: the readiness patch tests the
\* resourceVersion that was read, the merge patch of the annotation tests nothing.
Accepts(a) == att[a].op = "readiness" => deploy.rv = att[a].before.rv
Patched(op) ==
    IF op = "readiness" THEN [deploy EXCEPT !.timeout = 3, !.rv = @ + 1]
    ELSE IF deploy.note = "new" THEN deploy
    ELSE [deploy EXCEPT !.note = "new", !.rv = @ + 1]

\* The API server applies the patch, and the answer comes back or does not.
Patch(a) ==
    /\ At(a, "patch")
    /\ Accepts(a)
    /\ deploy' = Patched(att[a].op)
    /\ landed' = IF Patched(att[a].op) # deploy THEN landed \cup {a} ELSE landed
    /\ \/ Go(a, "readback")
       \/ Decide(a, Failure(att[a].op))
    /\ UNCHANGED <<proposal, files, budget>>

\* verify_live_result and _readiness_result_is_safe: the expected change is there,
\* the resourceVersion advanced and, for the probe, nothing else changed.
Verify(op, before, after) ==
    /\ after.rv > before.rv
    /\ IF op = "readiness" THEN after.timeout = 3 /\ after.note = before.note
                                /\ after.other = before.other
       ELSE after.note = "new"

ReadBack(a) ==
    LET op == att[a].op
        before == att[a].before
    IN  /\ At(a, "readback")
        /\ \/ /\ Verify(op, before, deploy)
              /\ Decide(a, Success(op, IF op = "readiness" THEN TRUE
                                       ELSE deploy.note # before.note))
           \/ /\ ~Verify(op, before, deploy)
              /\ Decide(a, Unverified(op))
        /\ UNCHANGED <<proposal, deploy, files, landed, budget>>

-----------------------------------------------------------------------------
(* Attempts: the books *)

\* _finalize_binding loads the binding, and raises when it is not active any more.
Finalize(a) ==
    /\ At(a, "finalize")
    /\ IF bind[att[a].binding].status = "active" THEN Go(a, "close") ELSE End(a, "done")
    /\ UNCHANGED <<proposal, deploy, files, landed, budget>>

\* It writes what it loaded back, closed.
Close(a) ==
    LET b == att[a].binding
        v == att[a].verdict
    IN  /\ At(a, "close")
        /\ bind' = [bind EXCEPT ![b].status = v.status, ![b].consumes = v.consumes]
        /\ Go(a, IF v.consumes THEN "consume" ELSE "receipt")
        /\ UNCHANGED <<proposal, deploy, app, overdue, expiring, revoking, receipt, landed, budget>>

\* _transition_approval: load; it raises, and no receipt is written, when the grant
\* was revoked or expired meanwhile.
Consume(a) ==
    LET g == att[a].grant
    IN  /\ At(a, "consume")
        /\ Reads(g)
        /\ CASE Projected(g) = "consumed" -> Go(a, "receipt")
             [] Projected(g) = "approved" -> Go(a, "spend")
             [] OTHER -> End(a, "done")
        /\ UNCHANGED <<proposal, deploy, app, overdue, revoking, bind, receipt, landed, budget>>

Spend(a) ==
    /\ At(a, "spend")
    /\ app' = [app EXCEPT ![att[a].grant] = "consumed"]
    /\ Go(a, "receipt")
    /\ UNCHANGED <<proposal, deploy, overdue, expiring, revoking, bind, receipt, landed, budget>>

WriteReceipt(a) ==
    /\ At(a, "receipt")
    /\ receipt' = [receipt EXCEPT ![a] = att[a].verdict.receipt]
    /\ End(a, "done")
    /\ UNCHANGED <<proposal, deploy, app, overdue, expiring, revoking, bind, landed, budget>>

-----------------------------------------------------------------------------
(* The world *)

\* Somebody else changes the Deployment, or a controller its status.
Change ==
    /\ budget.changes < Changes
    /\ budget' = [budget EXCEPT !.changes = @ + 1]
    /\ \/ deploy' = [deploy EXCEPT !.rv = @ + 1]
       \/ deploy' = [deploy EXCEPT !.rv = @ + 1, !.other = @ + 1]
       \/ deploy.timeout = 3 /\ deploy' = [deploy EXCEPT !.rv = @ + 1, !.timeout = 1]
       \/ deploy.note = "new" /\ deploy' = [deploy EXCEPT !.rv = @ + 1, !.note = "old"]
    /\ UNCHANGED <<proposal, files, att, landed>>

Crash(a) ==
    /\ att[a].pc \notin {"idle", "done", "dead"} /\ budget.crashes < Crashes
    /\ budget' = [budget EXCEPT !.crashes = @ + 1]
    /\ End(a, "dead")
    /\ UNCHANGED <<proposal, deploy, files, landed>>

Next ==
    \/ \E g \in Grants : \/ Approve(g) \/ TimePasses(g) \/ PersistExpiry(g)
                         \/ RevokeLoad(g) \/ RevokeWrite(g)
    \/ \E a \in Attempts : \/ BindCheck(a) \/ BindWrite(a) \/ Rebind(a) \/ Scope(a)
                           \/ ReadBefore(a) \/ TransportFails(a)
                           \/ Interrupted(a) \/ Patch(a) \/ ReadBack(a)
                           \/ Finalize(a) \/ Close(a) \/ Consume(a) \/ Spend(a) \/ WriteReceipt(a)
                           \/ Crash(a)
    \/ Change

Spec == Init /\ [][Next]_vars

-----------------------------------------------------------------------------
(* Properties *)

\* The records are well formed; an attempt that settles does so on a binding of its own grant,
\* and only a grant that is past its time is on its way to being stored as expired.
TypeOK ==
    /\ proposal \in Proposals
    /\ deploy \in Deployments
    /\ app \in [Grants -> {"absent", "approved", "expired", "revoked", "consumed"}]
    /\ overdue \subseteq Grants /\ expiring \subseteq overdue
    /\ revoking \subseteq Grants
    /\ bind \in [Attempts -> [status : {"absent", "active", "completed", "failed"},
                              grant : Grants \cup {None}, consumes : BOOLEAN]]
    /\ att \in [Attempts -> [pc : Pcs, op : Ops, grant : Grants \cup {None},
                             binding : Attempts \cup {None}, before : Deployments,
                             prior : SUBSET Attempts, verdict : Verdicts]]
    /\ \A a \in Attempts : att[a].pc \in {"finalize", "close", "consume", "spend", "receipt"} =>
          bind[att[a].binding].grant = att[a].grant
    /\ receipt \in [Attempts -> Receipts]
    /\ landed \subseteq Attempts
    /\ budget \in [changes : Nat, crashes : Nat]

Passed(a) == receipt[a].acceptance = "PASS" /\ receipt[a].changed

\* However many grants, attempts and retries there are, and wherever they die, a
\* readiness change that was reviewed at one resourceVersion reaches the cluster at
\* most once, also when somebody takes it back in between.
ReviewedOnce == proposal.pinned => \A a, b \in landed : a = b

\* A PASS receipt of a readiness patch is about the attempt's own patch: another
\* attempt's, found at the read-back, never counts.
PassIsOwn == \A a \in Attempts : Passed(a) /\ att[a].op = "readiness" => a \in landed

\* An attempt that patched successfully, or a readiness attempt whose outcome is
\* unknown, has ended its grant before its receipt can be seen.
SettledEndsGrant ==
    \A a \in Attempts :
        \/ Passed(a)
        \/ att[a].op = "readiness" /\ receipt[a].acceptance = "UNVERIFIED"
        => app[att[a].grant] # "approved"

\* Another attempt was let in on the binding of b, and may close it too, over b's own closing.
Shared(b) == \E r \in Attempts \ {b} : att[r].binding = b

\* A grant is good for one successful patch: of two attempts, one of which had bound
\* before the other checked the grant, at most one passes with a change; unless the binding
\* of the first was shared.
SingleUse ==
    \A a \in Attempts : \A b \in att[a].prior \ {a} :
        ~Shared(b) => ~(Passed(a) /\ Passed(b))

\* One grant, one change, over retries, crashes and grants of the same proposal.
OneChangePerGrant == ReviewedOnce /\ SingleUse

\* "Once the executor has been entered, a timeout or malformed read-back cannot prove
\* whether the patch reached the API. Never retry this grant": no patch lands under a
\* binding that was made after another binding of the grant had its patch land.
NeverRetried ==
    \A a \in landed : \A b \in att[a].prior \ {a} :
        ~(b \in landed /\ att[a].op = "readiness" /\ att[b].op = "readiness")

\* "Interrupted or unverified execution yields UNVERIFIED": a receipt that says the
\* operation was verified and not executed is of an attempt that changed nothing.
FailureIsVerified ==
    \A a \in Attempts : receipt[a].verified /\ ~receipt[a].executed => a \notin landed
=============================================================================
