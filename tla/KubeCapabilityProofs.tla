------------------------ MODULE KubeCapabilityProofs ------------------------
(***************************************************************************)
(* Proofs about the governed Kubernetes capability, for any number of      *)
(* attempts, grants, changes by others, crashes and lapses.                *)
(***************************************************************************)
EXTENDS KubeCapability, TLAPS

-----------------------------------------------------------------------------
(***************************************************************************)
(* The inductive invariant.                                                *)
(***************************************************************************)

\* The attempt is under way on a binding; it has closed that binding.
Settling == {"consume", "spend", "receipt"}
Live == {"scope", "read", "patch", "readback", "finalize", "close"} \cup Settling

Final == {"completed", "failed"}
Ended(g) == app[g] \notin {"absent", "approved"}

\* An attempt works on a binding that exists; its own it creates once.
Bound(a) ==
    /\ att[a].pc = "idle" => att[a].binding = None
    /\ att[a].pc \in {"idle", "bind"} => bind[a].status = "absent"
    /\ att[a].pc = "bind" =>
          att[a].binding = a /\ att[a].grant \in Grants /\ app[att[a].grant] # "absent"
    /\ att[a].pc \in Live =>
          /\ att[a].binding \in Attempts /\ bind[att[a].binding].status # "absent"
          /\ bind[att[a].binding].grant = att[a].grant
    /\ IF bind[a].status = "absent" THEN bind[a].grant = None
       ELSE att[a].binding = a /\ bind[a].grant \in Grants /\ app[bind[a].grant] # "absent"

\* What it has found out on the way to the API server.
Entered(a) ==
    /\ att[a].pc \in {"read", "patch", "readback"} => InScope(att[a].op)
    /\ att[a].pc = "patch" => Preimage(att[a].op, att[a].before)
    /\ att[a].pc = "readback" /\ att[a].op = "readiness" => a \in landed

\* What its verdict rests on, and what has become of its binding and its grant.  A binding
\* that is not shared is only closed by the attempt that created it.
Decided(a) ==
    LET v == att[a].verdict
    IN  /\ att[a].pc \in {"finalize", "close"} \cup Settling =>
              /\ v.receipt.acceptance = "PASS" /\ att[a].op = "readiness" => a \in landed
              /\ v.receipt.changed => v.status = "completed" /\ v.consumes
              /\ v.receipt.acceptance = "UNVERIFIED" /\ att[a].op = "readiness" => v.consumes
        /\ att[a].pc = "close" /\ att[a].binding = a /\ ~Shared(a) => bind[a].status = "active"
        /\ att[a].pc \in Settling /\ att[a].binding = a /\ ~Shared(a) =>
              bind[a].status = v.status /\ bind[a].consumes = v.consumes
        /\ att[a].pc \in {"consume", "spend"} => v.consumes
        /\ att[a].pc = "receipt" /\ v.consumes => Ended(att[a].grant)

\* What its receipt stands for.
Receipted(a) ==
    receipt[a].acceptance # "none" =>
        /\ att[a].pc = "done" /\ att[a].grant \in Grants
        /\ receipt[a].acceptance = "PASS" /\ att[a].op = "readiness" => a \in landed
        /\ receipt[a].changed => Ended(att[a].grant)
        /\ receipt[a].acceptance = "UNVERIFIED" /\ att[a].op = "readiness" => Ended(att[a].grant)
        /\ receipt[a].changed /\ att[a].binding = a /\ ~Shared(a) =>
              bind[a].status = "completed" /\ bind[a].consumes

\* The bindings that it found on its grant are closed, and none has used the grant up.
Checked(a) ==
    att[a].pc \in {"bind"} \cup Live \/ receipt[a].acceptance # "none" =>
        \A b \in att[a].prior : ~Shared(b) =>
            bind[b].status \in Final /\ ~(bind[b].status = "completed" /\ bind[b].consumes)

Good(a) == Bound(a) /\ Entered(a) /\ Decided(a) /\ Receipted(a) /\ Checked(a)

\* A change reviewed at one resourceVersion is a readiness change, and the resourceVersion
\* that was reviewed is gone once anything has landed.
Pinned ==
    /\ proposal.pinned => proposal.kind = "exact"
    /\ landed # {} => deploy.rv > 0
    /\ ReviewedOnce

IInv == TypeOK /\ Pinned /\ \A a \in Attempts : Good(a)

-----------------------------------------------------------------------------
(***************************************************************************)
(* What is stable.                                                         *)
(***************************************************************************)

Bindings == [status : {"absent", "active", "completed", "failed"}, grant : Grants \cup {None},
             consumes : BOOLEAN]
Process == [pc : Pcs, op : Ops, grant : Grants \cup {None}, binding : Attempts \cup {None},
            before : Deployments, prior : SUBSET Attempts, verdict : Verdicts]

\* TypeOK without what it says of bindings.
Typed ==
    /\ proposal \in Proposals /\ deploy \in Deployments
    /\ app \in [Grants -> {"absent", "approved", "expired", "revoked", "consumed"}]
    /\ overdue \subseteq Grants /\ expiring \subseteq overdue /\ revoking \subseteq Grants
    /\ bind \in [Attempts -> Bindings] /\ att \in [Attempts -> Process]
    /\ receipt \in [Attempts -> Receipts] /\ landed \subseteq Attempts
    /\ budget \in [changes : Nat, crashes : Nat]

LEMMA TypeFacts ==
    ASSUME IInv
    PROVE  Typed /\ Pinned /\ \A a \in Attempts : Good(a)
BY DEF IInv, TypeOK, Typed, Bindings, Process

\* Grants end once, bindings that are not shared are closed once, and nothing that landed
\* and nobody who was let in is forgotten.
Advances ==
    /\ proposal' = proposal /\ landed \subseteq landed'
    /\ \A g \in Grants : (app[g] # "absent" => app'[g] # "absent") /\ (Ended(g) => Ended(g)')
    /\ \A b \in Attempts : bind[b].status # "absent" =>
          bind'[b].status # "absent" /\ bind'[b].grant = bind[b].grant
    /\ \A b \in Attempts : Shared(b) => Shared(b)'
    /\ \A b \in Attempts : bind[b].status \in Final /\ ~Shared(b)' => bind'[b] = bind[b]

\* An attempt that does not move keeps what it knows.
LEMMA GoodStays ==
    ASSUME IInv, Advances, NEW q \in Attempts, att'[q] = att[q], receipt'[q] = receipt[q],
           bind[q].status = "absent" \/ ~Shared(q)' => bind'[q] = bind[q]
    PROVE  Good(q)'
<1> DEFINE b == att[q].binding
           v == att[q].verdict
<1>1. Typed /\ Good(q) /\ att[q] \in Process /\ receipt[q] \in Receipts
  BY TypeFacts DEF Typed
<1>2. b \in Attempts /\ bind[b].status # "absent" => bind[b].grant \in Grants
  BY TypeFacts DEF Good, Bound
<1>3. Bound(q)'
  <2>1. /\ att[q].pc = "idle" => att[q].binding = None
        /\ att[q].pc \in {"idle", "bind"} => bind'[q].status = "absent"
        /\ att[q].pc = "bind" =>
              att[q].binding = q /\ att[q].grant \in Grants /\ app'[att[q].grant] # "absent"
    BY <1>1 DEF Good, Bound, Advances
  <2>2. att[q].pc \in Live =>
            b \in Attempts /\ bind'[b].status # "absent" /\ bind'[b].grant = att[q].grant
    BY <1>1 DEF Good, Bound, Advances
  <2>3. IF bind'[q].status = "absent" THEN bind'[q].grant = None
        ELSE att[q].binding = q /\ bind'[q].grant \in Grants /\ app'[bind'[q].grant] # "absent"
    BY <1>1 DEF Good, Bound, Advances
  <2> QED BY <2>1, <2>2, <2>3 DEF Bound
<1>4. Entered(q)'
  BY <1>1 DEF Good, Entered, Advances, InScope, Preimage
<1>5. Decided(q)'
  <2>1. ASSUME ~Shared(q)', att[q].binding = q
        PROVE  /\ att[q].pc = "close" => bind'[q].status = "active"
               /\ att[q].pc \in Settling => bind'[q].status = v.status /\ bind'[q].consumes = v.consumes
    <3>1. ~Shared(q) /\ bind'[q] = bind[q]
      BY <2>1 DEF Advances
    <3> QED BY <1>1, <2>1, <3>1 DEF Good, Decided
  <2>2. ASSUME att[q].pc = "receipt", v.consumes
        PROVE  Ended(att[q].grant)'
    <3>1. Ended(att[q].grant) /\ att[q].grant \in Grants
      BY <1>1, <1>2, <2>2 DEF Good, Decided, Bound, Live, Settling
    <3> QED BY <3>1 DEF Advances, Ended
  <2>3. ASSUME att[q].pc \in {"finalize", "close"} \cup Settling
        PROVE  /\ v.receipt.acceptance = "PASS" /\ att[q].op = "readiness" => q \in landed'
               /\ v.receipt.changed => v.status = "completed" /\ v.consumes
               /\ v.receipt.acceptance = "UNVERIFIED" /\ att[q].op = "readiness" => v.consumes
    BY <1>1, <2>3 DEF Good, Decided, Advances
  <2>4. att[q].pc \in {"consume", "spend"} => v.consumes
    BY <1>1 DEF Good, Decided
  <2> QED BY <2>1, <2>2, <2>3, <2>4 DEF Decided, Ended
<1>6. Receipted(q)'
  <2>1. ASSUME receipt[q].acceptance # "none"
        PROVE  /\ att[q].pc = "done" /\ att[q].grant \in Grants
               /\ Ended(att[q].grant) => Ended(att[q].grant)'
    BY <1>1, <2>1 DEF Good, Receipted, Advances, Ended
  <2>2. ASSUME ~Shared(q)', att[q].binding = q, receipt[q].acceptance # "none", receipt[q].changed
        PROVE  bind'[q].status = "completed" /\ bind'[q].consumes
    <3>1. ~Shared(q) /\ bind'[q] = bind[q]
      BY <2>2 DEF Advances
    <3> QED BY <1>1, <2>2, <3>1 DEF Good, Receipted
  <2> QED BY <1>1, <2>1, <2>2 DEF Good, Receipted, Advances, Ended
<1>7. Checked(q)'
  <2>1. att[q].prior \subseteq Attempts
    BY <1>1 DEF Process
  <2>2. ASSUME NEW c \in att[q].prior, ~Shared(c)',
               att[q].pc \in {"bind"} \cup Live \/ receipt[q].acceptance # "none"
        PROVE  bind'[c].status \in Final /\ ~(bind'[c].status = "completed" /\ bind'[c].consumes)
    <3>1. ~Shared(c) /\ c \in Attempts
      BY <2>1, <2>2 DEF Advances
    <3>2. bind[c].status \in Final /\ ~(bind[c].status = "completed" /\ bind[c].consumes)
      BY <1>1, <2>2, <3>1 DEF Good, Checked
    <3> QED BY <2>2, <3>1, <3>2 DEF Advances
  <2> QED BY <2>2 DEF Checked
<1> QED BY <1>3, <1>4, <1>5, <1>6, <1>7 DEF Good

\* What an attempt knows about the bindings that it found stays true.
LEMMA CheckedStays ==
    ASSUME IInv, Advances, NEW a \in Attempts, att'[a].prior = att[a].prior, att[a].pc \in {"bind"} \cup Live
    PROVE  Checked(a)'
<1>1. Good(a) /\ att[a].prior \subseteq Attempts
  BY TypeFacts DEF Typed, Process
<1>2. ASSUME NEW c \in att[a].prior, ~Shared(c)'
      PROVE  bind'[c].status \in Final /\ ~(bind'[c].status = "completed" /\ bind'[c].consumes)
  <2>1. ~Shared(c) /\ c \in Attempts
    BY <1>1, <1>2 DEF Advances
  <2>2. bind[c].status \in Final /\ ~(bind[c].status = "completed" /\ bind[c].consumes)
    BY <1>1, <2>1 DEF Good, Checked
  <2> QED BY <1>2, <2>1, <2>2 DEF Advances
<1> QED BY <1>2 DEF Checked

\* A step of one attempt keeps the invariant if it leaves that attempt good.
LEMMA StepKeeps ==
    ASSUME IInv, Advances, Typed', Pinned', NEW a \in Attempts, Good(a)',
           \A q \in Attempts : q # a => att'[q] = att[q] /\ receipt'[q] = receipt[q]
                                        /\ (bind[q].status = "absent" \/ ~Shared(q)' => bind'[q] = bind[q])
    PROVE  IInv'
<1>1. \A q \in Attempts : Good(q)'
  BY GoodStays
<1>2. TypeOK'
  <2>1. \A q \in Attempts : att'[q].pc \in {"finalize", "close", "consume", "spend", "receipt"} =>
            bind'[att'[q].binding].grant = att'[q].grant
    BY <1>1 DEF Good, Bound, Live, Settling
  <2> QED BY <2>1 DEF TypeOK, Typed, Bindings, Process
<1> QED BY <1>1, <1>2 DEF IInv

\* So does a step of none.
LEMMA WorldKeeps ==
    ASSUME IInv, Advances, Typed', Pinned', UNCHANGED <<att, bind, receipt>>
    PROVE  IInv'
<1>1. \A q \in Attempts : Good(q)'
  BY GoodStays
<1>2. TypeOK'
  <2>1. \A q \in Attempts : att'[q].pc \in {"finalize", "close", "consume", "spend", "receipt"} =>
            bind'[att'[q].binding].grant = att'[q].grant
    BY <1>1 DEF Good, Bound, Live, Settling
  <2> QED BY <2>1 DEF TypeOK, Typed, Bindings, Process
<1> QED BY <1>1, <1>2 DEF IInv

\* A step that leaves the proposal, the Deployment and its history alone.
LEMMA PinnedStays ==
    ASSUME Pinned, UNCHANGED <<proposal, deploy, landed>>
    PROVE  Pinned'
BY DEF Pinned, ReviewedOnce

-----------------------------------------------------------------------------
(***************************************************************************)
(* Grants and the world.                                                   *)
(***************************************************************************)

LEMMA ApproveKeeps ==
    ASSUME IInv, NEW g \in Grants, Approve(g)
    PROVE  IInv'
<1>1. Typed' /\ Advances
  BY TypeFacts DEF Approve, Typed, Advances, Ended, Shared
<1> QED BY <1>1, TypeFacts, PinnedStays, WorldKeeps DEF Approve

LEMMA TimePassesKeeps ==
    ASSUME IInv, NEW g \in Grants, TimePasses(g)
    PROVE  IInv'
<1>1. Typed' /\ Advances
  BY TypeFacts DEF TimePasses, Typed, Advances, Ended, Shared
<1> QED BY <1>1, TypeFacts, PinnedStays, WorldKeeps DEF TimePasses

LEMMA PersistExpiryKeeps ==
    ASSUME IInv, NEW g \in Grants, PersistExpiry(g)
    PROVE  IInv'
<1>1. Typed' /\ Advances
  BY TypeFacts DEF PersistExpiry, Typed, Advances, Ended, Shared
<1> QED BY <1>1, TypeFacts, PinnedStays, WorldKeeps DEF PersistExpiry

\* A reader finds a grant expired only when its time is over.
LEMMA ReadsTyped ==
    ASSUME Typed, NEW g \in Grants, Reads(g)
    PROVE  expiring' \subseteq overdue
BY DEF Typed, Reads

LEMMA RevokeLoadKeeps ==
    ASSUME IInv, NEW g \in Grants, RevokeLoad(g)
    PROVE  IInv'
<1>1. expiring' \subseteq overdue
  BY TypeFacts, ReadsTyped DEF RevokeLoad
<1>2. Typed' /\ Advances
  BY <1>1, TypeFacts DEF RevokeLoad, Typed, Advances, Ended, Shared
<1> QED BY <1>2, TypeFacts, PinnedStays, WorldKeeps DEF RevokeLoad

LEMMA RevokeWriteKeeps ==
    ASSUME IInv, NEW g \in Grants, RevokeWrite(g)
    PROVE  IInv'
<1>1. Typed' /\ Advances
  BY TypeFacts DEF RevokeWrite, Typed, Advances, Ended, Shared
<1> QED BY <1>1, TypeFacts, PinnedStays, WorldKeeps DEF RevokeWrite

\* Whoever changes the Deployment, its resourceVersion grows.
LEMMA ChangeKeeps ==
    ASSUME IInv, Change
    PROVE  IInv'
<1>1. deploy' \in Deployments /\ deploy'.rv > deploy.rv
  <2> DEFINE n == deploy.rv + 1
             m == deploy.other + 1
  <2>1. deploy \in Deployments /\ n \in Nat /\ m \in Nat /\ n > deploy.rv
    BY TypeFacts DEF Typed, Deployments
  <2>2. \/ deploy' = [deploy EXCEPT !.rv = n]
        \/ deploy' = [deploy EXCEPT !.rv = n, !.other = m]
        \/ deploy' = [deploy EXCEPT !.rv = n, !.timeout = 1]
        \/ deploy' = [deploy EXCEPT !.rv = n, !.note = "old"]
    BY DEF Change
  <2> HIDE DEF n, m
  <2>3. CASE deploy' = [deploy EXCEPT !.rv = n]
    BY <2>1, <2>3 DEF Deployments
  <2>4. CASE deploy' = [deploy EXCEPT !.rv = n, !.other = m]
    BY <2>1, <2>4 DEF Deployments
  <2>5. CASE deploy' = [deploy EXCEPT !.rv = n, !.timeout = 1]
    BY <2>1, <2>5 DEF Deployments
  <2>6. CASE deploy' = [deploy EXCEPT !.rv = n, !.note = "old"]
    BY <2>1, <2>6 DEF Deployments
  <2> QED BY <2>2, <2>3, <2>4, <2>5, <2>6
<1>2. budget' \in [changes : Nat, crashes : Nat]
  <2>1. budget \in [changes : Nat, crashes : Nat] /\ budget.changes + 1 \in Nat
    BY TypeFacts DEF Typed
  <2> QED BY <2>1 DEF Change
<1>3. Typed' /\ Advances
  BY <1>1, <1>2, TypeFacts DEF Change, Typed, Advances, Ended, Shared, files
<1>4. Pinned'
  <2>1. deploy.rv \in Nat /\ deploy'.rv \in Nat
    BY <1>1, TypeFacts DEF Typed, Deployments
  <2> QED BY <1>1, <2>1, TypeFacts DEF Change, Pinned, ReviewedOnce
<1> QED BY <1>3, <1>4, WorldKeeps DEF Change, files

-----------------------------------------------------------------------------
(***************************************************************************)
(* How an attempt moves.                                                   *)
(***************************************************************************)

\* The others stay, and what the attempt is about stays.
Moved(a, pc) ==
    /\ att' \in [Attempts -> Process] /\ \A q \in Attempts : q # a => att'[q] = att[q]
    /\ att'[a].pc = pc /\ att'[a].op = att[a].op /\ att'[a].grant = att[a].grant
    /\ att'[a].binding = att[a].binding /\ att'[a].prior = att[a].prior

\* It stays with the binding that it has.
LEMMA MovedShares ==
    ASSUME NEW a \in Attempts, NEW pc, Moved(a, pc)
    PROVE  \A b \in Attempts : Shared(b)' <=> Shared(b)
<1>1. \A q \in Attempts : att'[q].binding = att[q].binding
  BY DEF Moved
<1> QED BY <1>1 DEF Shared

LEMMA GoMoves ==
    ASSUME IInv, NEW a \in Attempts, NEW pc \in Pcs, Go(a, pc)
    PROVE  Moved(a, pc) /\ att'[a].before = att[a].before /\ att'[a].verdict = att[a].verdict
<1>1. att \in [Attempts -> Process] /\ att' = [att EXCEPT ![a].pc = pc]
  BY TypeFacts DEF Typed, Go
<1> QED BY <1>1 DEF Moved, Process

\* One attempt is replaced.
LEMMA ReplaceMoves ==
    ASSUME IInv, NEW a \in Attempts, NEW s \in Process, att' = [att EXCEPT ![a] = s]
    PROVE  /\ att' \in [Attempts -> Process] /\ att'[a] = s
           /\ \A q \in Attempts : q # a => att'[q] = att[q]
BY TypeFacts DEF Typed

LEMMA VerdictMoves ==
    ASSUME IInv, NEW a \in Attempts, NEW pc \in Pcs, NEW v \in Verdicts,
           att' = [att EXCEPT ![a].pc = pc, ![a].verdict = v, ![a].before = Reviewed]
    PROVE  Moved(a, pc) /\ att'[a].verdict = v
<1> DEFINE s == [att[a] EXCEPT !.pc = pc, !.verdict = v, !.before = Reviewed]
<1>1. att[a] \in Process /\ Reviewed \in Deployments /\ att \in [Attempts -> Process]
  BY TypeFacts DEF Typed, Reviewed, Deployments
<1>2. /\ s \in Process /\ s.pc = pc /\ s.verdict = v /\ s.op = att[a].op /\ s.grant = att[a].grant
      /\ s.binding = att[a].binding /\ s.prior = att[a].prior
  BY <1>1 DEF Process
<1>3. att' = [att EXCEPT ![a] = s]
  BY <1>1
<1> HIDE DEF s
<1> QED BY <1>2, <1>3, ReplaceMoves DEF Moved

LEMMA NoVerdictIsVerdict == NoVerdict \in Verdicts
BY DEF NoVerdict, NoReceipt, Verdicts, Receipts

LEMMA DecideMoves ==
    ASSUME IInv, NEW a \in Attempts, NEW v \in Verdicts, Decide(a, v)
    PROVE  Moved(a, "finalize") /\ att'[a].verdict = v
BY VerdictMoves DEF Decide, Pcs

LEMMA EndMoves ==
    ASSUME IInv, NEW a \in Attempts, NEW pc \in {"done", "dead"}, End(a, pc)
    PROVE  Moved(a, pc)
BY VerdictMoves, NoVerdictIsVerdict DEF End, Pcs

\* Only the attempt, and who has read which grant, has changed.
Quiet == UNCHANGED <<proposal, deploy, app, overdue, revoking, bind, receipt, landed>>

LEMMA QuietAdvances ==
    ASSUME IInv, Quiet, expiring' \subseteq overdue, att' \in [Attempts -> Process],
           budget' \in [changes : Nat, crashes : Nat], \A b \in Attempts : Shared(b) => Shared(b)'
    PROVE  Advances /\ Typed' /\ Pinned'
<1>1. Typed /\ Pinned
  BY TypeFacts
<1>2. Advances
  BY DEF Quiet, Advances, Ended
<1>3. Typed'
  BY <1>1 DEF Quiet, Typed
<1>4. Pinned'
  BY <1>1, PinnedStays DEF Quiet
<1> QED BY <1>2, <1>3, <1>4

\* An attempt that stops asks for nothing.
LEMMA StopIsGood ==
    ASSUME IInv, NEW a \in Attempts, NEW pc \in {"done", "dead"}, Moved(a, pc),
           UNCHANGED <<app, bind, receipt>>, att[a].pc # "done"
    PROVE  Good(a)'
<1>1. Good(a) /\ receipt'[a].acceptance = "none"
  BY TypeFacts DEF Good, Receipted
<1>2. Bound(a)'
  BY <1>1 DEF Good, Bound, Moved, Live, Settling
<1>3. Entered(a)' /\ Decided(a)' /\ Receipted(a)' /\ Checked(a)'
  BY <1>1 DEF Entered, Decided, Receipted, Checked, Moved, Live, Settling
<1> QED BY <1>2, <1>3 DEF Good

\* A verdict that says PASS is, for a readiness patch, about the attempt's own; one with a
\* change closes the binding as completed and uses the grant up, and one that is not sure
\* ends the grant.
Rests(a, v) ==
    /\ v.receipt.acceptance = "PASS" /\ att[a].op = "readiness" => a \in landed
    /\ v.receipt.changed => v.status = "completed" /\ v.consumes
    /\ v.receipt.acceptance = "UNVERIFIED" /\ att[a].op = "readiness" => v.consumes

LEMMA DecideIsGood ==
    ASSUME IInv, Advances, NEW a \in Attempts, att[a].pc \in {"scope", "read", "patch", "readback"},
           NEW v \in Verdicts, Decide(a, v), Rests(a, v), landed \subseteq landed',
           UNCHANGED <<app, bind, receipt>>
    PROVE  Good(a)'
<1>1. Good(a) /\ receipt'[a].acceptance = "none"
  BY TypeFacts DEF Good, Receipted
<1>2. Moved(a, "finalize") /\ att'[a].verdict = v
  BY DecideMoves
<1>3. Bound(a)'
  BY <1>1, <1>2 DEF Good, Bound, Moved, Live, Settling
<1>4. Entered(a)' /\ Receipted(a)'
  BY <1>1, <1>2 DEF Entered, Receipted, Moved
<1>5. Decided(a)'
  BY <1>2 DEF Decided, Moved, Settling, Rests
<1>6. Checked(a)'
  BY <1>2, CheckedStays DEF Moved, Live
<1> QED BY <1>3, <1>4, <1>5, <1>6 DEF Good

\* The verdicts of the executor.
LEMMA VerdictsRest ==
    ASSUME NEW op \in Ops
    PROVE  /\ Failure(op) \in Verdicts /\ Unverified(op) \in Verdicts
           /\ Failure(op).receipt.acceptance # "PASS" /\ ~Failure(op).receipt.changed
           /\ Unverified(op).receipt.acceptance # "PASS" /\ ~Unverified(op).receipt.changed
           /\ op = "readiness" => Failure(op).consumes /\ Unverified(op).consumes
<1>1. CASE op = "readiness"
  BY <1>1 DEF Failure, Unverified, Verdicts, Receipts, Receipt
<1>2. CASE op # "readiness"
  BY <1>2 DEF Failure, Unverified, Verdicts, Receipts, Receipt
<1> QED BY <1>1, <1>2

LEMMA SuccessRests ==
    ASSUME NEW op \in Ops, NEW changed \in BOOLEAN
    PROVE  /\ Success(op, changed) \in Verdicts /\ Success(op, changed).status = "completed"
           /\ Success(op, changed).receipt.acceptance = "PASS"
           /\ Success(op, changed).receipt.changed => Success(op, changed).consumes
<1>1. CASE op # "get" /\ changed
  BY <1>1 DEF Success, Verdicts, Receipts, Receipt
<1>2. CASE ~(op # "get" /\ changed)
  BY <1>2 DEF Success, Verdicts, Receipts, Receipt
<1> QED BY <1>1, <1>2

\* A quiet step of a to a verdict keeps the invariant.
LEMMA QuietDecideKeeps ==
    ASSUME IInv, NEW a \in Attempts, att[a].pc \in {"scope", "read", "patch", "readback"},
           NEW v \in Verdicts, Decide(a, v), Rests(a, v),
           UNCHANGED <<proposal, deploy, files, landed, budget>>
    PROVE  IInv'
<1>1. Quiet /\ expiring' \subseteq overdue /\ budget' \in [changes : Nat, crashes : Nat]
  BY TypeFacts DEF Quiet, Typed, files
<1>2. Moved(a, "finalize")
  BY DecideMoves
<1>3. Advances /\ Typed' /\ Pinned'
  BY <1>1, <1>2, QuietAdvances, MovedShares DEF Moved
<1>4. Good(a)'
  BY <1>3, DecideIsGood DEF files
<1> QED BY <1>1, <1>2, <1>3, <1>4, StepKeeps DEF Quiet, Moved

-----------------------------------------------------------------------------
(***************************************************************************)
(* The steps of an attempt.                                                *)
(***************************************************************************)

LEMMA ScopeKeeps ==
    ASSUME IInv, NEW a \in Attempts, Scope(a)
    PROVE  IInv'
<1>1. att[a].pc = "scope" /\ UNCHANGED <<proposal, deploy, files, landed, budget>>
  BY DEF Scope, At
<1>2. CASE InScope(att[a].op) /\ Go(a, "read")
  <2>1. Moved(a, "read")
    BY <1>2, GoMoves DEF Pcs
  <2>2. Quiet /\ expiring' \subseteq overdue /\ budget' \in [changes : Nat, crashes : Nat]
    BY <1>1, TypeFacts DEF Quiet, Typed, files
  <2>3. Advances /\ Typed' /\ Pinned'
    BY <2>1, <2>2, QuietAdvances, MovedShares DEF Moved
  <2>4. Good(a)'
    <3>1. Good(a) /\ receipt'[a].acceptance = "none" /\ UNCHANGED <<app, bind, proposal>>
      BY <1>1, TypeFacts DEF Good, Receipted, files
    <3>2. Bound(a)' /\ Checked(a)'
      BY <1>1, <2>3, <2>1, <3>1, CheckedStays DEF Good, Bound, Moved, Live, Settling
    <3>3. Entered(a)' /\ Decided(a)' /\ Receipted(a)'
      BY <1>2, <2>1, <3>1 DEF Entered, Decided, Receipted, Moved, Settling, InScope
    <3> QED BY <3>2, <3>3 DEF Good
  <2> QED BY <2>1, <2>2, <2>3, <2>4, StepKeeps DEF Quiet, Moved
<1>3. ASSUME NEW v, v = [status |-> "failed", consumes |-> FALSE, receipt |-> Receipt("FAIL", TRUE, FALSE)],
             Decide(a, v)
      PROVE  IInv'
  <2>1. v \in Verdicts /\ Rests(a, v)
    BY <1>3 DEF Verdicts, Receipts, Receipt, Rests
  <2> QED BY <1>1, <1>3, <2>1, QuietDecideKeeps
<1> QED BY <1>2, <1>3 DEF Scope

LEMMA ReadBeforeKeeps ==
    ASSUME IInv, NEW a \in Attempts, ReadBefore(a)
    PROVE  IInv'
<1> DEFINE op == att[a].op
<1>1. /\ att[a].pc = "read" /\ op \in Ops /\ deploy \in Deployments
      /\ UNCHANGED <<proposal, deploy, files, landed, budget>>
  BY TypeFacts DEF ReadBefore, At, Typed, Process
<1>2. CASE op = "get" /\ Decide(a, Success(op, FALSE))
  <2>1. Success(op, FALSE) \in Verdicts /\ Rests(a, Success(op, FALSE))
    BY <1>1, <1>2, SuccessRests DEF Rests
  <2> QED BY <1>1, <1>2, <2>1, QuietDecideKeeps
<1>3. CASE Decide(a, Failure(op))
  <2>1. Failure(op) \in Verdicts /\ Rests(a, Failure(op))
    BY <1>1, VerdictsRest DEF Rests
  <2> QED BY <1>1, <1>3, <2>1, QuietDecideKeeps
<1>4. CASE Preimage(op, deploy) /\ att' = [att EXCEPT ![a].pc = "patch", ![a].before = deploy]
  <2> DEFINE s == [att[a] EXCEPT !.pc = "patch", !.before = deploy]
  <2>1. att[a] \in Process /\ att \in [Attempts -> Process]
    BY TypeFacts DEF Typed
  <2>2. /\ s \in Process /\ s.pc = "patch" /\ s.before = deploy /\ s.op = att[a].op
        /\ s.grant = att[a].grant /\ s.binding = att[a].binding /\ s.prior = att[a].prior
    BY <1>1, <2>1 DEF Process, Pcs
  <2>3. att' = [att EXCEPT ![a] = s]
    BY <1>4, <2>1
  <2> HIDE DEF s
  <2>4. Moved(a, "patch") /\ att'[a].before = deploy
    BY <2>2, <2>3, ReplaceMoves DEF Moved
  <2>5. Quiet /\ expiring' \subseteq overdue /\ budget' \in [changes : Nat, crashes : Nat]
    BY <1>1, TypeFacts DEF Quiet, Typed, files
  <2>6. Advances /\ Typed' /\ Pinned'
    BY <2>4, <2>5, QuietAdvances, MovedShares DEF Moved
  <2>7. Good(a)'
    <3>1. Good(a) /\ receipt'[a].acceptance = "none" /\ UNCHANGED <<app, bind, proposal>>
      BY <1>1, TypeFacts DEF Good, Receipted, files
    <3>2. Bound(a)' /\ Checked(a)'
      BY <1>1, <2>4, <2>6, <3>1, CheckedStays DEF Good, Bound, Moved, Live, Settling
    <3>3. Entered(a)'
      BY <1>1, <1>4, <2>4, <3>1 DEF Good, Entered, Moved, InScope, Preimage
    <3>4. Decided(a)' /\ Receipted(a)'
      BY <2>4, <3>1 DEF Decided, Receipted, Moved, Settling
    <3> QED BY <3>2, <3>3, <3>4 DEF Good
  <2> QED BY <2>4, <2>5, <2>6, <2>7, StepKeeps DEF Quiet, Moved
<1> QED BY <1>2, <1>3, <1>4 DEF ReadBefore

LEMMA TransportFailsKeeps ==
    ASSUME IInv, NEW a \in Attempts, TransportFails(a)
    PROVE  IInv'
<1>1. att[a].op \in Ops
  BY TypeFacts DEF Typed, Process
<1>2. Failure(att[a].op) \in Verdicts /\ Rests(a, Failure(att[a].op))
  BY <1>1, VerdictsRest DEF Rests
<1> QED BY <1>2, QuietDecideKeeps DEF TransportFails

LEMMA InterruptedKeeps ==
    ASSUME IInv, NEW a \in Attempts, Interrupted(a)
    PROVE  IInv'
<1> DEFINE f == Failure(att[a].op)
           r == Receipt("UNVERIFIED", FALSE, FALSE)
           v == [f EXCEPT !.receipt = r]
<1>1. att[a].op \in Ops
  BY TypeFacts DEF Typed, Process
<1>2. f \in Verdicts /\ (att[a].op = "readiness" => f.consumes)
  BY <1>1, VerdictsRest
<1>3. r \in Receipts /\ r.acceptance = "UNVERIFIED" /\ ~r.changed
  BY DEF Receipt, Receipts
<1>4. Decide(a, v)
  BY DEF Interrupted
<1> HIDE DEF f, r
<1>5. v \in Verdicts /\ v.receipt = r /\ v.consumes = f.consumes
  BY <1>2, <1>3 DEF Verdicts
<1> HIDE DEF v
<1>6. Rests(a, v)
  BY <1>2, <1>3, <1>5 DEF Rests
<1> QED BY <1>4, <1>5, <1>6, QuietDecideKeeps DEF Interrupted

LEMMA ReadBackKeeps ==
    ASSUME IInv, NEW a \in Attempts, ReadBack(a)
    PROVE  IInv'
<1> DEFINE op == att[a].op
           changed == IF op = "readiness" THEN TRUE ELSE deploy.note # att[a].before.note
<1>1. /\ att[a].pc = "readback" /\ op \in Ops /\ UNCHANGED <<proposal, deploy, files, landed, budget>>
  BY TypeFacts DEF ReadBack, At, Typed, Process
<1>2. CASE Decide(a, Success(op, changed))
  <2>1. op = "readiness" => a \in landed
    BY <1>1, TypeFacts DEF Good, Entered
  <2>2. changed \in BOOLEAN
    OBVIOUS
  <2>3. Decide(a, Success(op, changed))
    BY <1>2
  <2> HIDE DEF changed
  <2>4. Success(op, changed) \in Verdicts /\ Rests(a, Success(op, changed))
    BY <1>1, <2>1, <2>2, SuccessRests DEF Rests
  <2> QED BY <1>1, <2>3, <2>4, QuietDecideKeeps
<1>3. CASE Decide(a, Unverified(op))
  <2>1. Unverified(op) \in Verdicts /\ Rests(a, Unverified(op))
    BY <1>1, VerdictsRest DEF Rests
  <2> QED BY <1>1, <1>3, <2>1, QuietDecideKeeps
<1> QED BY <1>2, <1>3 DEF ReadBack

LEMMA CrashKeeps ==
    ASSUME IInv, NEW a \in Attempts, Crash(a)
    PROVE  IInv'
<1>1. Moved(a, "dead")
  BY EndMoves DEF Crash
<1>2. budget' \in [changes : Nat, crashes : Nat]
  <2>1. budget \in [changes : Nat, crashes : Nat] /\ budget.crashes + 1 \in Nat
    BY TypeFacts DEF Typed
  <2> QED BY <2>1 DEF Crash
<1>3. Quiet /\ expiring' \subseteq overdue
  BY TypeFacts DEF Crash, Quiet, Typed, files
<1>4. Advances /\ Typed' /\ Pinned'
  BY <1>1, <1>2, <1>3, QuietAdvances, MovedShares DEF Moved
<1>5. Good(a)'
  BY <1>1, <1>3, StopIsGood DEF Crash, Quiet
<1> QED BY <1>1, <1>3, <1>4, <1>5, StepKeeps DEF Quiet, Moved

\* What the API server makes of a patch.
LEMMA PatchedFacts ==
    ASSUME Typed, NEW op \in Ops
    PROVE  /\ Patched(op) \in Deployments
           /\ Patched(op) # deploy => Patched(op).rv = deploy.rv + 1
           /\ op = "readiness" => Patched(op) # deploy
<1> DEFINE n == deploy.rv + 1
<1>1. deploy \in Deployments /\ n \in Nat /\ n # deploy.rv
  BY DEF Typed, Deployments
<1>2. Patched(op) = IF op = "readiness" THEN [deploy EXCEPT !.timeout = 3, !.rv = n]
                    ELSE IF deploy.note = "new" THEN deploy
                    ELSE [deploy EXCEPT !.note = "new", !.rv = n]
  BY DEF Patched
<1> SUFFICES /\ Patched(op) \in Deployments
             /\ Patched(op) # deploy => Patched(op).rv = n
             /\ op = "readiness" => Patched(op) # deploy
  OBVIOUS
<1> HIDE DEF n
<1>3. CASE op = "readiness"
  <2>1. Patched(op) \in Deployments /\ Patched(op).rv = n
    BY <1>1, <1>2, <1>3 DEF Deployments
  <2> QED BY <1>1, <2>1
<1>4. CASE op # "readiness" /\ deploy.note = "new"
  BY <1>1, <1>2, <1>4
<1>5. CASE op # "readiness" /\ deploy.note # "new"
  BY <1>1, <1>2, <1>5 DEF Deployments
<1> QED BY <1>3, <1>4, <1>5

\* A patch lands.  Where the proposal is pinned, the resourceVersion that was reviewed is the
\* one that was read and the one that the API server tests, so nothing landed before.
LEMMA PatchKeeps ==
    ASSUME IInv, NEW a \in Attempts, Patch(a)
    PROVE  IInv'
<1> DEFINE op == att[a].op
<1>1. /\ att[a].pc = "patch" /\ op \in Ops /\ Typed /\ Pinned /\ Good(a) /\ Accepts(a)
      /\ UNCHANGED <<proposal, files, budget>>
  BY TypeFacts DEF Patch, At, Typed, Process
<1>2. /\ deploy' = Patched(op) /\ deploy' \in Deployments /\ deploy.rv \in Nat
      /\ deploy' # deploy => deploy'.rv = deploy.rv + 1
      /\ op = "readiness" => deploy' # deploy
  BY <1>1, PatchedFacts DEF Patch, Typed, Deployments
<1>3. landed' = (IF deploy' # deploy THEN landed \cup {a} ELSE landed) /\ landed \subseteq landed'
  BY <1>2 DEF Patch
<1>4. Pinned'
  <2>1. ASSUME proposal.pinned PROVE landed = {}
    <3>1. op = "readiness"
      BY <1>1, <2>1 DEF Good, Entered, Pinned, InScope
    <3>2. deploy.rv = 0
      BY <1>1, <2>1, <3>1 DEF Good, Entered, Preimage, Accepts, Reviewed
    <3> QED BY <1>1, <3>2 DEF Pinned
  <2>2. landed' # {} => deploy'.rv > 0
    BY <1>1, <1>2, <1>3 DEF Pinned
  <2> QED BY <1>1, <1>3, <2>1, <2>2 DEF Pinned, ReviewedOnce
<1>5. CASE Go(a, "readback")
  <2>1. Moved(a, "readback")
    BY <1>5, GoMoves DEF Pcs
  <2>2. Advances /\ Typed'
    BY <1>1, <1>2, <1>3, <2>1, MovedShares DEF Advances, Typed, Moved, files, Ended
  <2>3. Good(a)'
    <3>1. receipt'[a].acceptance = "none" /\ UNCHANGED <<app, bind, proposal>>
      BY <1>1 DEF Good, Receipted, files
    <3>2. Bound(a)' /\ Checked(a)'
      BY <1>1, <2>2, <2>1, <3>1, CheckedStays DEF Good, Bound, Moved, Live, Settling
    <3>3. Entered(a)'
      BY <1>1, <1>2, <1>3, <2>1, <3>1 DEF Good, Entered, Moved, InScope
    <3>4. Decided(a)' /\ Receipted(a)'
      BY <2>1, <3>1 DEF Decided, Receipted, Moved, Settling
    <3> QED BY <3>2, <3>3, <3>4 DEF Good
  <2> QED BY <1>1, <1>4, <2>1, <2>2, <2>3, StepKeeps DEF Moved, files
<1>6. CASE Decide(a, Failure(op))
  <2>1. Failure(op) \in Verdicts /\ Rests(a, Failure(op))
    BY <1>1, VerdictsRest DEF Rests
  <2>2. Moved(a, "finalize")
    BY <1>6, <2>1, DecideMoves
  <2>3. Advances /\ Typed'
    BY <1>1, <1>2, <1>3, <2>2, MovedShares DEF Advances, Typed, Moved, files, Ended
  <2>4. Good(a)'
    BY <1>1, <1>3, <1>6, <2>1, <2>3, DecideIsGood DEF files
  <2> QED BY <1>1, <1>4, <2>2, <2>3, <2>4, StepKeeps DEF Moved, files
<1> QED BY <1>5, <1>6 DEF Patch

\* A new attempt is an attempt.
LEMMA StartIsProcess ==
    ASSUME NEW pc \in Pcs, NEW op \in Ops, NEW g \in Grants, NEW b \in Attempts, NEW prior \in SUBSET Attempts
    PROVE  /\ [Idle EXCEPT !.pc = pc, !.op = op, !.grant = g, !.binding = b, !.prior = prior] \in Process
           /\ [Idle EXCEPT !.pc = pc, !.op = op, !.grant = g, !.binding = b] \in Process
           /\ [Idle EXCEPT !.pc = pc] \in Process
<1>1. Idle \in Process
  <2>1. Reviewed \in Deployments
    BY DEF Reviewed, Deployments
  <2> QED BY <2>1, NoVerdictIsVerdict DEF Idle, Process, Pcs, Ops
<1> QED BY <1>1 DEF Process

\* A new attempt that has bound to a grant knows that no binding is in the way.
LEMMA BindCheckKeeps ==
    ASSUME IInv, NEW a \in Attempts, BindCheck(a)
    PROVE  IInv'
<1>1. PICK op \in Ops, g \in Grants :
          /\ app[g] # "absent" /\ Reads(g)
          /\ att' = [att EXCEPT ![a] =
                 [Idle EXCEPT !.pc = IF Projected(g) = "approved" /\ ~Blocking(g)
                                     THEN "bind" ELSE "done",
                              !.op = op, !.grant = g, !.binding = a,
                              !.prior = {b \in Attempts : bind[b].grant = g}]]
  BY DEF BindCheck
<1> DEFINE pc == IF Projected(g) = "approved" /\ ~Blocking(g) THEN "bind" ELSE "done"
           prior == {b \in Attempts : bind[b].grant = g}
           s == [Idle EXCEPT !.pc = pc, !.op = op, !.grant = g, !.binding = a, !.prior = prior]
<1>2. /\ att[a].pc = "idle" /\ Quiet /\ expiring' \subseteq overdue
      /\ budget' \in [changes : Nat, crashes : Nat]
  BY <1>1, TypeFacts, ReadsTyped DEF BindCheck, At, Quiet, Typed
<1>3. /\ s \in Process /\ s.pc = pc /\ s.op = op /\ s.grant = g /\ s.binding = a /\ s.prior = prior
      /\ att' = [att EXCEPT ![a] = s]
  <2>1. pc \in Pcs /\ prior \in SUBSET Attempts
    BY DEF Pcs
  <2>2. att' = [att EXCEPT ![a] = s]
    BY <1>1
  <2> HIDE DEF pc, prior
  <2>3. s \in Process
    BY <2>1, StartIsProcess
  <2>4. s.pc = pc /\ s.op = op /\ s.grant = g /\ s.binding = a /\ s.prior = prior
    BY DEF Idle
  <2> QED BY <2>2, <2>3, <2>4
<1> HIDE DEF s
<1>4. /\ att' \in [Attempts -> Process] /\ att'[a] = s
      /\ \A q \in Attempts : q # a => att'[q] = att[q]
  BY <1>3, ReplaceMoves
<1>5. Advances /\ Typed' /\ Pinned'
  <2>1. att[a].binding = None
    BY <1>2, TypeFacts DEF Good, Bound
  <2>2. \A b \in Attempts : Shared(b) => Shared(b)'
    BY <1>4, <2>1, NoneIsNothing DEF Shared
  <2> QED BY <1>2, <1>4, <2>2, QuietAdvances
<1>6. Good(a) /\ bind[a].status = "absent" /\ bind[a].grant = None /\ receipt[a].acceptance = "none"
  BY <1>2, TypeFacts DEF Good, Bound, Receipted
<1>7. pc \in {"bind", "done"}
  OBVIOUS
<1>8. Bound(a)'
  BY <1>1, <1>2, <1>3, <1>4, <1>6, <1>7 DEF Bound, Quiet, Live, Settling
<1>9. Checked(a)'
  <2>1. ASSUME pc = "bind", NEW b \in prior
        PROVE  bind[b].status \in Final /\ ~(bind[b].status = "completed" /\ bind[b].consumes)
    <3>1. ~Blocking(g) /\ b \in Attempts /\ bind[b].grant = g /\ g # None /\ bind[b] \in Bindings
      BY <2>1, NoneIsNothing, TypeFacts DEF Typed
    <3>2. bind[b].status # "absent"
      BY <3>1, TypeFacts DEF Good, Bound
    <3> QED BY <3>1, <3>2 DEF Blocking, Bindings, Final
  <2> QED BY <1>2, <1>3, <1>4, <1>6, <1>7, <2>1 DEF Checked, Quiet, Live, Settling
<1>10. Entered(a)' /\ Decided(a)' /\ Receipted(a)'
  BY <1>2, <1>3, <1>4, <1>6, <1>7 DEF Entered, Decided, Receipted, Quiet, Settling
<1> QED BY <1>2, <1>4, <1>5, <1>8, <1>9, <1>10, StepKeeps DEF Quiet, Good

LEMMA RebindKeeps ==
    ASSUME IInv, NEW a \in Attempts, Rebind(a)
    PROVE  IInv'
<1>1. PICK op \in Ops, b \in Attempts :
          /\ bind[b].status # "absent" /\ Reads(bind[b].grant)
          /\ att' = [att EXCEPT ![a] =
                 IF bind[b].status = "active" /\ Projected(bind[b].grant) = "approved"
                 THEN [Idle EXCEPT !.pc = "scope", !.op = op, !.grant = bind[b].grant, !.binding = b]
                 ELSE [Idle EXCEPT !.pc = "done"]]
  BY DEF Rebind
<1> DEFINE g == bind[b].grant
           s == att'[a]
<1>2. g \in Grants /\ Reads(g)
  BY <1>1, TypeFacts DEF Good, Bound
<1>3. /\ att[a].pc = "idle" /\ Quiet /\ expiring' \subseteq overdue
      /\ budget' \in [changes : Nat, crashes : Nat]
  BY <1>2, TypeFacts, ReadsTyped DEF Rebind, At, Quiet, Typed
<1>4. /\ att' \in [Attempts -> Process] /\ \A q \in Attempts : q # a => att'[q] = att[q]
      /\ \/ s.pc = "scope" /\ s.op = op /\ s.grant = g /\ s.binding = b /\ s.prior = {}
         \/ s.pc = "done"
  <2>1. \E n \in Process :
            /\ att' = [att EXCEPT ![a] = n]
            /\ \/ n.pc = "scope" /\ n.op = op /\ n.grant = g /\ n.binding = b /\ n.prior = {}
               \/ n.pc = "done"
    <3>1. CASE bind[b].status = "active" /\ Projected(g) = "approved"
      <4> DEFINE n == [Idle EXCEPT !.pc = "scope", !.op = op, !.grant = g, !.binding = b]
      <4>1. att' = [att EXCEPT ![a] = n]
        BY <1>1, <3>1
      <4> HIDE DEF g
      <4>2. n \in Process
        BY <1>2, StartIsProcess DEF Pcs
      <4>3. n.pc = "scope" /\ n.op = op /\ n.grant = g /\ n.binding = b /\ n.prior = {}
        BY DEF Idle
      <4> QED BY <4>1, <4>2, <4>3
    <3>2. CASE ~(bind[b].status = "active" /\ Projected(g) = "approved")
      <4> DEFINE n == [Idle EXCEPT !.pc = "done"]
      <4>1. att' = [att EXCEPT ![a] = n]
        BY <1>1, <3>2
      <4>2. n \in Process
        BY <1>2, StartIsProcess DEF Pcs
      <4>3. n.pc = "done"
        BY DEF Idle
      <4> QED BY <4>1, <4>2, <4>3
    <3> QED BY <3>1, <3>2
  <2> QED BY <2>1, ReplaceMoves
<1> HIDE DEF s
<1>5. Good(a) /\ att[a].binding = None /\ bind[a].status = "absent" /\ bind[a].grant = None
      /\ receipt[a].acceptance = "none"
  BY <1>3, TypeFacts DEF Good, Bound, Receipted
<1>6. Advances /\ Typed' /\ Pinned'
  <2>1. \A c \in Attempts : Shared(c) => Shared(c)'
    BY <1>4, <1>5, NoneIsNothing DEF Shared
  <2> QED BY <1>3, <1>4, <2>1, QuietAdvances
<1>7. att'[a] = s
  BY DEF s
<1>8. Bound(a)'
  BY <1>1, <1>3, <1>4, <1>5, <1>7 DEF Bound, Quiet, Live, Settling
<1>9. Checked(a)' /\ Entered(a)' /\ Decided(a)' /\ Receipted(a)'
  BY <1>3, <1>4, <1>5, <1>7 DEF Checked, Entered, Decided, Receipted, Quiet, Settling, Live
<1> QED BY <1>3, <1>4, <1>6, <1>8, <1>9, StepKeeps DEF Quiet, Good

\* The binding file is new.
LEMMA BindWriteKeeps ==
    ASSUME IInv, NEW a \in Attempts, BindWrite(a)
    PROVE  IInv'
<1> DEFINE n == [status |-> "active", grant |-> att[a].grant, consumes |-> FALSE]
<1>1. /\ att[a].pc = "bind" /\ bind' = [bind EXCEPT ![a] = n] /\ Go(a, "scope")
      /\ UNCHANGED <<proposal, deploy, app, overdue, expiring, revoking, receipt, landed, budget>>
  BY DEF BindWrite, At
<1>2. /\ Typed /\ Pinned /\ Good(a) /\ bind[a].status = "absent" /\ att[a].binding = a
      /\ att[a].grant \in Grants /\ app[att[a].grant] # "absent" /\ receipt[a].acceptance = "none"
  BY <1>1, TypeFacts DEF Good, Bound, Receipted
<1>3. Moved(a, "scope")
  BY <1>1, GoMoves DEF Pcs
<1>4. n \in Bindings /\ n.status = "active" /\ n.grant = att[a].grant
  BY <1>2 DEF Bindings
<1> HIDE DEF n
<1>5. /\ bind' \in [Attempts -> Bindings] /\ bind'[a] = n
      /\ \A q \in Attempts : q # a => bind'[q] = bind[q]
  BY <1>1, <1>2, <1>4 DEF Typed
<1>6. Advances
  BY <1>1, <1>2, <1>3, <1>5, MovedShares DEF Advances, Ended, Final
<1>7. Typed' /\ Pinned'
  BY <1>1, <1>2, <1>3, <1>5, PinnedStays DEF Typed, Moved
<1>8. Bound(a)'
  BY <1>1, <1>2, <1>3, <1>4, <1>5 DEF Bound, Moved
<1>9. Checked(a)'
  BY <1>1, <1>3, <1>6, CheckedStays DEF Moved
<1>10. Entered(a)' /\ Decided(a)' /\ Receipted(a)'
  BY <1>1, <1>2, <1>3 DEF Entered, Decided, Receipted, Moved, Settling
<1> QED BY <1>1, <1>3, <1>5, <1>6, <1>7, <1>8, <1>9, <1>10, StepKeeps DEF Good, Moved

\* The binding is loaded, and found active.
LEMMA FinalizeKeeps ==
    ASSUME IInv, NEW a \in Attempts, Finalize(a)
    PROVE  IInv'
<1> DEFINE b == att[a].binding
<1>1. att[a].pc = "finalize" /\ UNCHANGED <<proposal, deploy, files, landed, budget>>
  BY DEF Finalize, At
<1>2. Quiet /\ expiring' \subseteq overdue /\ budget' \in [changes : Nat, crashes : Nat]
  BY <1>1, TypeFacts DEF Quiet, Typed, files
<1>3. CASE End(a, "done")
  <2>1. Moved(a, "done")
    BY <1>3, EndMoves
  <2>2. Advances /\ Typed' /\ Pinned'
    BY <1>2, <2>1, QuietAdvances, MovedShares DEF Moved
  <2>3. Good(a)'
    BY <1>1, <1>2, <2>1, StopIsGood DEF Quiet
  <2> QED BY <1>2, <2>1, <2>2, <2>3, StepKeeps DEF Quiet, Moved
<1>4. CASE bind[b].status = "active" /\ Go(a, "close")
  <2>1. Moved(a, "close") /\ att'[a].verdict = att[a].verdict
    BY <1>4, GoMoves DEF Pcs
  <2>2. Advances /\ Typed' /\ Pinned'
    BY <1>2, <2>1, QuietAdvances, MovedShares DEF Moved
  <2>3. Good(a)'
    <3>1. Good(a) /\ receipt'[a].acceptance = "none" /\ UNCHANGED <<app, bind, landed>>
      BY <1>1, TypeFacts DEF Good, Receipted, files
    <3>2. Bound(a)' /\ Checked(a)'
      BY <1>1, <2>1, <2>2, <3>1, CheckedStays DEF Good, Bound, Moved, Live, Settling
    <3>3. Decided(a)'
      BY <1>1, <1>4, <2>1, <3>1 DEF Good, Decided, Moved, Settling
    <3>4. Entered(a)' /\ Receipted(a)'
      BY <2>1, <3>1 DEF Entered, Receipted, Moved
    <3> QED BY <3>2, <3>3, <3>4 DEF Good
  <2> QED BY <1>2, <2>1, <2>2, <2>3, StepKeeps DEF Quiet, Moved
<1> QED BY <1>3, <1>4 DEF Finalize

\* It is closed: one that is not shared, by the attempt that created it, and once.
LEMMA CloseKeeps ==
    ASSUME IInv, NEW a \in Attempts, Close(a)
    PROVE  IInv'
<1> DEFINE b == att[a].binding
           v == att[a].verdict
           pc == IF v.consumes THEN "consume" ELSE "receipt"
           n == [bind[b] EXCEPT !.status = v.status, !.consumes = v.consumes]
<1>1. /\ att[a].pc = "close"
      /\ bind' = [bind EXCEPT ![b].status = v.status, ![b].consumes = v.consumes] /\ Go(a, pc)
      /\ UNCHANGED <<proposal, deploy, app, overdue, expiring, revoking, receipt, landed, budget>>
  BY DEF Close, At
<1>2. /\ Typed /\ Pinned /\ Good(a) /\ b \in Attempts /\ bind[b].grant = att[a].grant
      /\ bind[b].status # "absent" /\ v \in Verdicts /\ receipt[a].acceptance = "none"
  BY <1>1, TypeFacts DEF Good, Bound, Receipted, Live, Typed, Process
<1>3. v.status \in Final /\ v.consumes \in BOOLEAN /\ bind[b] \in Bindings /\ bind \in [Attempts -> Bindings]
  BY <1>2 DEF Verdicts, Final, Typed
<1>4. n \in Bindings /\ n.status = v.status /\ n.consumes = v.consumes /\ n.grant = bind[b].grant
  BY <1>3 DEF Bindings, Final
<1>5. bind' = [bind EXCEPT ![b] = n]
  BY <1>1, <1>2, <1>3
<1>6. pc \in Pcs /\ Go(a, pc) /\ pc \in {"consume", "receipt"} /\ (pc = "consume" <=> v.consumes)
  BY <1>1 DEF Pcs
<1> HIDE DEF n, pc
<1>7. /\ bind' \in [Attempts -> Bindings] /\ bind'[b] = n
      /\ \A q \in Attempts : q # b => bind'[q] = bind[q]
  BY <1>2, <1>3, <1>4, <1>5
<1>8. Moved(a, pc) /\ att'[a].verdict = v /\ \A q \in Attempts : Shared(q)' <=> Shared(q)
  BY <1>6, GoMoves, MovedShares
<1>9. ~Shared(b) => b = a /\ bind[b].status = "active"
  BY <1>1, <1>2 DEF Shared, Good, Decided
<1>10. Advances
  BY <1>1, <1>2, <1>3, <1>4, <1>7, <1>8, <1>9 DEF Advances, Ended, Final
<1>11. Typed' /\ Pinned'
  BY <1>1, <1>2, <1>7, <1>8, PinnedStays DEF Typed, Moved
<1>12. Bound(a)'
  <2>1. IF bind'[a].status = "absent" THEN bind'[a].grant = None
        ELSE att[a].binding = a /\ bind'[a].grant \in Grants /\ app'[bind'[a].grant] # "absent"
    BY <1>1, <1>2, <1>3, <1>4, <1>7 DEF Good, Bound, Final
  <2>2. bind'[b].status # "absent" /\ bind'[b].grant = att[a].grant
    BY <1>2, <1>3, <1>4, <1>7 DEF Final
  <2> QED BY <1>2, <1>6, <1>8, <2>1, <2>2 DEF Bound, Moved
<1>13. Decided(a)'
  <2>1. /\ v.receipt.acceptance = "PASS" /\ att[a].op = "readiness" => a \in landed
        /\ v.receipt.changed => v.status = "completed" /\ v.consumes
        /\ v.receipt.acceptance = "UNVERIFIED" /\ att[a].op = "readiness" => v.consumes
    BY <1>1, <1>2 DEF Good, Decided
  <2>2. bind'[b].status = v.status /\ bind'[b].consumes = v.consumes
    BY <1>4, <1>7
  <2> QED BY <1>1, <1>6, <1>8, <2>1, <2>2 DEF Decided, Moved
<1>14. Checked(a)'
  BY <1>1, <1>8, <1>10, CheckedStays DEF Moved, Live
<1>15. Entered(a)' /\ Receipted(a)'
  BY <1>1, <1>2, <1>6, <1>8 DEF Entered, Receipted, Moved
<1>16. \A q \in Attempts : q # a /\ (bind[q].status = "absent" \/ ~Shared(q)') => bind'[q] = bind[q]
  BY <1>2, <1>7, <1>8, <1>9
<1> QED BY <1>1, <1>8, <1>10, <1>11, <1>12, <1>13, <1>14, <1>15, <1>16, StepKeeps DEF Good, Moved

\* The grant is looked at again.
LEMMA ConsumeKeeps ==
    ASSUME IInv, NEW a \in Attempts, Consume(a)
    PROVE  IInv'
<1> DEFINE g == att[a].grant
<1>1. att[a].pc = "consume" /\ Reads(g)
      /\ UNCHANGED <<proposal, deploy, app, overdue, revoking, bind, receipt, landed, budget>>
  BY DEF Consume, At
<1>2. /\ Typed /\ Good(a) /\ g \in Grants /\ receipt[a].acceptance = "none"
  <2>1. Good(a) /\ att[a].binding \in Attempts /\ Good(att[a].binding)
    BY <1>1, TypeFacts DEF Good, Bound, Live, Settling
  <2> QED BY <1>1, <2>1, TypeFacts DEF Good, Bound, Receipted, Live, Settling
<1>3. Quiet /\ expiring' \subseteq overdue /\ budget' \in [changes : Nat, crashes : Nat]
  BY <1>1, <1>2, ReadsTyped DEF Quiet, Typed
<1>4. CASE End(a, "done")
  <2>1. Moved(a, "done")
    BY <1>4, EndMoves
  <2>2. Advances /\ Typed' /\ Pinned'
    BY <1>3, <2>1, QuietAdvances, MovedShares DEF Moved
  <2>3. Good(a)'
    BY <1>1, <2>1, StopIsGood
  <2> QED BY <1>1, <2>1, <2>2, <2>3, StepKeeps DEF Moved
<1>5. ASSUME NEW pc \in {"receipt", "spend"}, Go(a, pc), pc = "receipt" => Ended(g)
      PROVE  IInv'
  <2>1. Moved(a, pc) /\ att'[a].verdict = att[a].verdict
    BY <1>5, GoMoves DEF Pcs
  <2>2. Advances /\ Typed' /\ Pinned'
    BY <1>3, <2>1, QuietAdvances, MovedShares DEF Moved
  <2>3. Good(a)'
    <3>1. Bound(a)' /\ Checked(a)'
      BY <1>1, <1>2, <1>5, <2>1, <2>2, CheckedStays DEF Good, Bound, Moved, Live, Settling
    <3>2. Decided(a)'
      <4>1. Shared(a)' <=> Shared(a)
        BY <2>1, MovedShares
      <4> QED BY <1>1, <1>2, <1>5, <2>1, <4>1 DEF Good, Decided, Moved, Settling, Ended
    <3>3. Entered(a)' /\ Receipted(a)'
      BY <1>1, <1>2, <1>5, <2>1 DEF Entered, Receipted, Moved
    <3> QED BY <3>1, <3>2, <3>3 DEF Good
  <2> QED BY <1>1, <2>1, <2>2, <2>3, StepKeeps DEF Moved
<1>6. Projected(g) = "consumed" => Ended(g)
  BY DEF Projected, Ended
<1>7. \/ Projected(g) = "consumed" /\ Go(a, "receipt")
      \/ Go(a, "spend")
      \/ End(a, "done")
  BY DEF Consume
<1> QED BY <1>4, <1>5, <1>6, <1>7

LEMMA SpendKeeps ==
    ASSUME IInv, NEW a \in Attempts, Spend(a)
    PROVE  IInv'
<1> DEFINE g == att[a].grant
<1>1. /\ att[a].pc = "spend" /\ app' = [app EXCEPT ![g] = "consumed"] /\ Go(a, "receipt")
      /\ UNCHANGED <<proposal, deploy, overdue, expiring, revoking, bind, receipt, landed, budget>>
  BY DEF Spend, At
<1>2. /\ Typed /\ Pinned /\ Good(a) /\ g \in Grants /\ receipt[a].acceptance = "none"
  <2>1. Good(a) /\ att[a].binding \in Attempts /\ Good(att[a].binding)
    BY <1>1, TypeFacts DEF Good, Bound, Live, Settling
  <2> QED BY <1>1, <2>1, TypeFacts DEF Good, Bound, Receipted, Live, Settling
<1>3. Moved(a, "receipt") /\ att'[a].verdict = att[a].verdict
  BY <1>1, GoMoves DEF Pcs
<1>4. Advances /\ Typed' /\ app'[g] = "consumed"
  BY <1>1, <1>2, <1>3, MovedShares DEF Advances, Typed, Moved, Ended
<1>5. Pinned'
  BY <1>1, <1>2, PinnedStays
<1>6. Bound(a)'
  <2>1. IF bind[a].status = "absent" THEN bind[a].grant = None
        ELSE att[a].binding = a /\ bind[a].grant \in Grants /\ app'[bind[a].grant] # "absent"
    BY <1>2, <1>4 DEF Good, Bound, Advances
  <2>2. /\ att[a].binding \in Attempts /\ bind[att[a].binding].status # "absent"
        /\ bind[att[a].binding].grant = att[a].grant
    BY <1>1, <1>2 DEF Good, Bound, Live, Settling
  <2> QED BY <1>1, <1>3, <2>1, <2>2 DEF Bound, Moved
<1>7. Decided(a)'
  <2>1. Shared(a)' <=> Shared(a)
    BY <1>3, MovedShares
  <2> QED BY <1>1, <1>2, <1>3, <1>4, <2>1 DEF Good, Decided, Moved, Settling, Ended
<1>8. Checked(a)' /\ Entered(a)' /\ Receipted(a)'
  BY <1>1, <1>2, <1>3, <1>4, CheckedStays DEF Entered, Receipted, Moved, Live, Settling
<1> QED BY <1>1, <1>3, <1>4, <1>5, <1>6, <1>7, <1>8, StepKeeps DEF Good, Moved

\* The receipt is seen only when the binding is closed and, where it must be, the grant over.
LEMMA WriteReceiptKeeps ==
    ASSUME IInv, NEW a \in Attempts, WriteReceipt(a)
    PROVE  IInv'
<1> DEFINE v == att[a].verdict
           b == att[a].binding
<1>1. /\ att[a].pc = "receipt" /\ receipt' = [receipt EXCEPT ![a] = v.receipt] /\ End(a, "done")
      /\ UNCHANGED <<proposal, deploy, app, overdue, expiring, revoking, bind, landed, budget>>
  BY DEF WriteReceipt, At
<1>2. /\ Typed /\ Pinned /\ Good(a) /\ v \in Verdicts /\ v.receipt \in Receipts /\ v.status \in Final
  BY TypeFacts DEF Typed, Process, Verdicts, Final
<1>3. /\ receipt' \in [Attempts -> Receipts] /\ receipt'[a] = v.receipt
      /\ \A q \in Attempts : q # a => receipt'[q] = receipt[q]
  BY <1>1, <1>2 DEF Typed
<1>4. Moved(a, "done")
  BY <1>1, EndMoves
<1>5. Advances /\ (Shared(a)' <=> Shared(a))
  BY <1>1, <1>4, MovedShares DEF Advances, Ended
<1>6. Typed' /\ Pinned'
  BY <1>1, <1>2, <1>3, <1>4, PinnedStays DEF Typed, Moved
<1>7. Bound(a)'
  BY <1>1, <1>2, <1>4 DEF Good, Bound, Moved, Live, Settling
<1>8. Receipted(a)'
  <2>1. /\ b \in Attempts /\ bind[b].status # "absent" /\ bind[b].grant = att[a].grant
        /\ v.consumes => Ended(att[a].grant)
        /\ b = a /\ ~Shared(a) => bind[a].status = v.status /\ bind[a].consumes = v.consumes
        /\ v.receipt.acceptance = "PASS" /\ att[a].op = "readiness" => a \in landed
        /\ v.receipt.changed => v.status = "completed" /\ v.consumes
        /\ v.receipt.acceptance = "UNVERIFIED" /\ att[a].op = "readiness" => v.consumes
    BY <1>1, <1>2 DEF Good, Bound, Decided, Live, Settling
  <2>3. att[a].grant \in Grants
    BY <2>1, TypeFacts DEF Good, Bound
  <2>2. Ended(att[a].grant) => Ended(att[a].grant)'
    BY <1>1, <1>4 DEF Ended, Moved
  <2> QED BY <1>1, <1>3, <1>4, <1>5, <2>1, <2>2, <2>3 DEF Receipted, Moved
<1>9. Checked(a)'
  BY <1>1, <1>4, <1>5, CheckedStays DEF Moved, Live, Settling
<1>10. Entered(a)' /\ Decided(a)'
  BY <1>4 DEF Entered, Decided, Moved, Settling
<1> QED BY <1>1, <1>3, <1>4, <1>5, <1>6, <1>7, <1>8, <1>9, <1>10, StepKeeps DEF Good, Moved

-----------------------------------------------------------------------------
(***************************************************************************)
(* The invariant and the theorems.                                         *)
(***************************************************************************)

LEMMA InitHolds == Init => IInv
<1> SUFFICES ASSUME Init PROVE IInv
  OBVIOUS
<1>1. Reviewed \in Deployments /\ NoBinding \in Bindings /\ NoReceipt \in Receipts
  BY DEF Reviewed, Deployments, NoBinding, Bindings, NoReceipt, Receipts
<1>2. Idle \in Process
  BY <1>1, NoVerdictIsVerdict DEF Idle, Process, Pcs, Ops
<1>3. Typed
  BY <1>1, <1>2 DEF Init, Typed
<1>4. Pinned
  BY DEF Init, Pinned, ReviewedOnce
<1>5. ASSUME NEW a \in Attempts
      PROVE  Good(a)
  <2>1. /\ att[a].pc = "idle" /\ att[a].binding = None /\ bind[a].status = "absent" /\ bind[a].grant = None
        /\ receipt[a].acceptance = "none"
    BY DEF Init, Idle, NoBinding, NoReceipt
  <2> QED BY <2>1 DEF Good, Bound, Entered, Decided, Receipted, Checked, Live, Settling
<1>6. TypeOK
  <2>1. \A a \in Attempts : att[a].pc = "idle"
    BY DEF Init, Idle
  <2> QED BY <1>3, <2>1 DEF Typed, TypeOK, Bindings, Process
<1> QED BY <1>4, <1>5, <1>6 DEF IInv

LEMMA NextKeeps == IInv /\ [Next]_vars => IInv'
<1> SUFFICES ASSUME IInv, [Next]_vars PROVE IInv'
  OBVIOUS
<1>1. ASSUME NEW g \in Grants,
             Approve(g) \/ TimePasses(g) \/ PersistExpiry(g) \/ RevokeLoad(g) \/ RevokeWrite(g)
      PROVE  IInv'
  BY <1>1, ApproveKeeps, TimePassesKeeps, PersistExpiryKeeps, RevokeLoadKeeps, RevokeWriteKeeps
<1>2. ASSUME NEW a \in Attempts,
             \/ BindCheck(a) \/ BindWrite(a) \/ Rebind(a) \/ Scope(a)
             \/ ReadBefore(a) \/ TransportFails(a)
             \/ Interrupted(a) \/ Patch(a) \/ ReadBack(a)
             \/ Finalize(a) \/ Close(a) \/ Consume(a) \/ Spend(a) \/ WriteReceipt(a)
             \/ Crash(a)
      PROVE  IInv'
  BY <1>2, BindCheckKeeps, BindWriteKeeps, RebindKeeps, ScopeKeeps, ReadBeforeKeeps,
     TransportFailsKeeps, InterruptedKeeps, PatchKeeps, ReadBackKeeps, FinalizeKeeps, CloseKeeps,
     ConsumeKeeps, SpendKeeps, WriteReceiptKeeps, CrashKeeps, Zenon
<1>3. CASE Change
  BY <1>3, ChangeKeeps
<1>4. CASE UNCHANGED vars
  <2>1. Advances /\ Typed' /\ Pinned'
    BY <1>4, TypeFacts, PinnedStays DEF vars, files, Advances, Typed, Ended, Shared
  <2> QED BY <1>4, <2>1, WorldKeeps DEF vars, files
<1> QED BY <1>1, <1>2, <1>3, <1>4 DEF Next

LEMMA Invariant == Spec => []IInv
BY InitHolds, NextKeeps, PTL DEF Spec

\* The records are well formed, and an attempt settles on a binding of its own grant.
THEOREM KubeCapabilityType == Spec => []TypeOK
<1>1. IInv => TypeOK
  BY DEF IInv
<1> QED BY <1>1, Invariant, PTL

\* A readiness change that was reviewed at one resourceVersion lands at most once, and of
\* two attempts, one of which had bound to the grant before the other checked it and let
\* nobody in on its binding, at most one passes with a change (create_binding, _blocking_binding, _finalize_binding and the
\* pre-image checks of the live executor).
THEOREM OneChange == Spec => []OneChangePerGrant
<1>1. IInv => OneChangePerGrant
  <2> SUFFICES ASSUME IInv PROVE OneChangePerGrant
    OBVIOUS
  <2>1. ReviewedOnce
    BY TypeFacts DEF Pinned
  <2>2. ASSUME NEW a \in Attempts, NEW b \in att[a].prior \ {a}, ~Shared(b), Passed(a), Passed(b)
        PROVE  FALSE
    <3>1. b \in Attempts
      BY TypeFacts DEF Typed, Process
    <3>2. bind[b].status \in Final /\ ~(bind[b].status = "completed" /\ bind[b].consumes)
      BY <2>2, TypeFacts DEF Good, Checked, Passed
    <3>3. att[b].binding = b
      BY <3>1, <3>2, TypeFacts DEF Good, Bound, Final
    <3>4. bind[b].status = "completed" /\ bind[b].consumes
      BY <2>2, <3>1, <3>3, TypeFacts DEF Good, Receipted, Passed
    <3> QED BY <3>2, <3>4
  <2> QED BY <2>1, <2>2 DEF OneChangePerGrant, SingleUse
<1> QED BY <1>1, Invariant, PTL

\* A PASS receipt of a readiness patch is about a patch of the attempt's own that landed
\* (verify_live_result after apply in execute_kubernetes_capability).
THEOREM PassOwn == Spec => []PassIsOwn
<1>1. IInv => PassIsOwn
  BY TypeFacts DEF PassIsOwn, Passed, Good, Receipted
<1> QED BY <1>1, Invariant, PTL

\* When the receipt of a change, or of a readiness attempt whose outcome is unknown, can be
\* seen, the grant is over (_finalize_binding, then _transition_approval, then the
\* receipt).
THEOREM SettledEnds == Spec => []SettledEndsGrant
<1>1. IInv => SettledEndsGrant
  BY TypeFacts DEF SettledEndsGrant, Passed, Good, Receipted, Ended
<1> QED BY <1>1, Invariant, PTL
==============================================================================
