------------------------ MODULE WriteScopeExclusive ------------------------
(***************************************************************************)
(* Proofs about WriteScope when two commands never overlap (Exclusive):    *)
(* what a command has read is still true when it writes, so grants are     *)
(* single-use, a target has one writer, and ended records stay ended,      *)
(* whatever crashes.                                                       *)
(***************************************************************************)
EXTENDS WriteScopeProofs

\* Where a load goes on, where a transition returns to, where either raises to.
LoadPlaces == {"idle", "revoke", "bind", "authority", "classify", "settle",
               "consume", "receipt", "diagnose", "recover.restore",
               "recover.git"}
TransitionReturns == {"idle", "consequence", "exception.reload",
                      "recover.reload", "recover.outcome"}
RaisePlaces == {"idle", "exception", "exception.reload"}

\* No binding blocks approval a, and none is live on its target.
Free(a, bs, ba) ==
    \A b \in Bindings :
        /\ bs[b] \in Blocking => ba[b] # a
        /\ bs[b] \in Live => ApprovalTarget(ba[b]) # ApprovalTarget(a)

\* What a command has read about approvals ap and bindings bs, ba still holds
\* when it is about to write.
Fresh(place, l, ap, bs, ba) ==
    /\ l.err \in RaisePlaces
    /\ place \in {"transition", "transition.write"} => l.ret \in TransitionReturns
    /\ place = "persist" => l.ret \in LoadPlaces
    /\ place = "persist" /\ l.ret \in {"revoke", "consume"} => l.seen = "expired"
    /\ place \in {"persist", "revoke.approval"} => ap[l.a] = "approved"
    /\ place = "mint" => ap[l.a] = "none"
    /\ place \in {"revoke", "consume"} => l.seen = ap[l.a]
    /\ place = "bind.save" => Free(l.a, bs, ba)
    /\ place = "transition.write" => BindingTransition(bs[l.b], l.want)

AllFresh == \A p \in Procs : Fresh(pc[p], loc[p], approval, bstatus, bapproval)

\* At most one command is under way.
Quiet == \A p, q \in Procs : p # q => pc[p] \in Rest \/ pc[q] \in Rest

\* The inductive invariant of the exclusive regime.
ExclInv == Quiet /\ AllFresh /\ OneWriterPerTarget /\ SingleUse

OthersRest(p) == \A q \in Procs \ {p} : pc[q] \in Rest

Alone(p) == CtlType /\ AllFresh /\ OthersRest(p)

-----------------------------------------------------------------------------
\* The one command under way moves to a fresh place.
LEMMA FreshMove ==
    ASSUME NEW p \in Procs, Alone(p), NEW place, NEW l,
           Fresh(place, l, approval', bstatus', bapproval'),
           pc' = [pc EXCEPT ![p] = place], loc' = [loc EXCEPT ![p] = l]
    PROVE  Quiet' /\ AllFresh'
<1>1. /\ pc'[p] = place /\ loc'[p] = l
      /\ \A q \in Procs \ {p} : /\ pc'[q] = pc[q] /\ loc'[q] = loc[q]
                                /\ pc[q] \in Rest
  BY DEF Alone, CtlType, OthersRest
<1>2. Quiet'
  BY <1>1 DEF Quiet
<1>3. ASSUME NEW q \in Procs
      PROVE  Fresh(pc'[q], loc'[q], approval', bstatus', bapproval')
  <2>1. CASE q = p
    BY <1>1, <2>1
  <2>2. CASE q # p
    <3>1. Fresh(pc[q], loc[q], approval, bstatus, bapproval)
      BY DEF Alone, AllFresh
    <3> QED
      BY <1>1, <2>2, <3>1 DEF Fresh, Rest
  <2> QED
    BY <2>1, <2>2
<1> QED
  BY <1>2, <1>3 DEF AllFresh

LEMMA FreshIdle == \A ap, bs, ba : Fresh("idle", Idle, ap, bs, ba)
BY DEF Fresh, Idle, RaisePlaces

LEMMA FreshExit ==
    ASSUME NEW p \in Procs, Alone(p), Exit(p)
    PROVE  Quiet' /\ AllFresh'
BY FreshIdle, FreshMove DEF Exit, Goto, Remember

LEMMA FreshGoto ==
    ASSUME NEW p \in Procs, Alone(p), NEW place,
           Fresh(place, loc[p], approval', bstatus', bapproval'),
           Goto(p, place), UNCHANGED loc
    PROVE  Quiet' /\ AllFresh'
<1>1. loc' = [loc EXCEPT ![p] = loc[p]]
  BY DEF Alone, CtlType
<1> QED
  BY <1>1, FreshMove DEF Goto

LEMMA FreshLoad ==
    ASSUME NEW p \in Procs, Alone(p), UNCHANGED approval,
           NEW l \in Local, NEW next \in LoadPlaces, l.err \in RaisePlaces,
           LoadApproval(p, l, next)
    PROVE  Quiet' /\ AllFresh'
<1>1. CASE approval[l.a] = "approved" /\ l.a \in lapsed
  <2> DEFINE m == [l EXCEPT !.seen = "expired", !.ret = next]
  <2>1. m.a = l.a /\ m.err = l.err /\ m.ret = next /\ m.seen = "expired"
    BY DEF Local
  <2> HIDE DEF m
  <2>2. Fresh("persist", m, approval', bstatus', bapproval')
    BY <1>1, <2>1 DEF Fresh
  <2> QED
    BY <1>1, <2>2, FreshMove DEF LoadApproval, Goto, Remember, m
<1>2. CASE ~(approval[l.a] = "approved" /\ l.a \in lapsed)
  <2> DEFINE m == [l EXCEPT !.seen = approval[l.a]]
  <2>1. m.a = l.a /\ m.err = l.err /\ m.seen = approval[l.a]
    BY DEF Local
  <2> HIDE DEF m
  <2>2. Fresh(next, m, approval', bstatus', bapproval')
    BY <2>1 DEF Fresh, LoadPlaces
  <2> QED
    BY <1>2, <2>2, FreshMove DEF LoadApproval, Goto, Remember, m
<1> QED
  BY <1>1, <1>2

LEMMA FreshLoadScopeRoots ==
    ASSUME NEW p \in Procs, Alone(p), UNCHANGED approval,
           NEW l \in Local, NEW next \in {"classify", "recover.git"},
           l.err \in RaisePlaces, LoadScopeRoots(p, l, next)
    PROVE  Quiet' /\ AllFresh'
<1>1. CASE approval[l.a] = "approved" /\ l.a \in lapsed
  <2> DEFINE m == [l EXCEPT !.ret = next]
  <2>1. m.a = l.a /\ m.err = l.err /\ m.ret = next
    BY DEF Local
  <2> HIDE DEF m
  <2>2. Fresh("persist", m, approval', bstatus', bapproval')
    BY <1>1, <2>1 DEF Fresh, LoadPlaces
  <2> QED
    BY <1>1, <2>2, FreshMove DEF LoadScopeRoots, Goto, Remember, m
<1>2. CASE ~(approval[l.a] = "approved" /\ l.a \in lapsed)
  <2>1. Fresh(next, l, approval', bstatus', bapproval')
    BY DEF Fresh
  <2> QED
    BY <1>2, <2>1, FreshMove DEF LoadScopeRoots, Goto, Remember
<1> QED
  BY <1>1, <1>2

LEMMA FreshStart ==
    ASSUME NEW p \in Procs, Alone(p), NEW l \in Local, NEW to,
           NEW ret \in TransitionReturns, NEW err \in RaisePlaces,
           StartTransition(p, l, to, ret, err)
    PROVE  Quiet' /\ AllFresh'
<1> DEFINE m == [l EXCEPT !.want = to, !.ret = ret, !.err = err]
<1>1. m.ret = ret /\ m.err = err
  BY DEF Local
<1> HIDE DEF m
<1>2. Fresh("transition", m, approval', bstatus', bapproval')
  BY <1>1 DEF Fresh
<1> QED
  BY <1>2, FreshMove DEF StartTransition, Goto, Remember, m

LEMMA FreshResume ==
    ASSUME NEW p \in Procs, Alone(p), NEW l \in Local,
           NEW place \in LoadPlaces \cup TransitionReturns \cup RaisePlaces,
           l.err \in RaisePlaces,
           place \in {"revoke", "consume"} => l.seen = approval'[l.a],
           Resume(p, l, place)
    PROVE  Quiet' /\ AllFresh'
<1> DEFINE m == [l EXCEPT !.want = "none", !.ret = "idle"]
<1>1. m.a = l.a /\ m.err = l.err /\ m.seen = l.seen
  BY DEF Local
<1> HIDE DEF m
<1>2. Fresh(place, m, approval', bstatus', bapproval')
  BY <1>1 DEF Fresh, LoadPlaces, TransitionReturns, RaisePlaces
<1>3. CASE place = "idle"
  BY <1>3, FreshExit DEF Resume
<1>4. CASE place # "idle"
  BY <1>2, <1>4, FreshMove DEF Resume, Goto, Remember, m
<1> QED
  BY <1>3, <1>4

\* Places at which a command holds nothing that must still be true.
NeutralPlaces ==
    Places \ {"persist", "mint", "revoke", "revoke.approval", "consume",
              "bind.save", "transition", "transition.write"}

LEMMA FreshNeutral ==
    ASSUME NEW place \in NeutralPlaces, NEW l, l.err \in RaisePlaces
    PROVE  \A ap, bs, ba : Fresh(place, l, ap, bs, ba)
BY DEF Fresh, NeutralPlaces

LEMMA AloneAt ==
    ASSUME TypeInv, ExclInv, NEW p \in Procs
    PROVE  /\ loc[p] \in Local /\ loc[p].err \in RaisePlaces
           /\ WellPlaced(pc[p], loc[p], bstatus, revocations)
           /\ Fresh(pc[p], loc[p], approval, bstatus, bapproval)
           /\ pc[p] \notin Rest => Alone(p)
           /\ Exclusive /\ MayBegin(p) => Alone(p)
<1>1. Fresh(pc[p], loc[p], approval, bstatus, bapproval)
  BY DEF ExclInv, AllFresh
<1>2. pc[p] \notin Rest => OthersRest(p)
  BY DEF ExclInv, Quiet, OthersRest
<1>3. Exclusive /\ MayBegin(p) => OthersRest(p)
  BY DEF MayBegin, OthersRest
<1> QED
  BY <1>1, <1>2, <1>3, PlacedAt DEF Fresh, Alone, ExclInv

LEMMA CommandFresh ==
    ASSUME Exclusive, TypeInv, ExclInv, NEW p \in Procs, Command(p)
    PROVE  Quiet' /\ AllFresh'
<1>1. ASSUME NEW a \in Approvals, ApproveCheck(p, a)  PROVE Quiet' /\ AllFresh'
  <2> DEFINE m == [Idle EXCEPT !.op = "approve", !.a = a]
  <2>1. /\ Alone(p) /\ Goto(p, "mint") /\ Remember(p, m)
        /\ approval' = approval /\ approval[a] = "none"
    BY <1>1, AloneAt DEF ApproveCheck, store
  <2>2. m.a = a /\ m.err = "idle"
    BY FreshLocals DEF Ops
  <2> HIDE DEF m
  <2>3. Fresh("mint", m, approval', bstatus', bapproval')
    BY <2>1, <2>2 DEF Fresh, RaisePlaces
  <2> QED
    BY <2>1, <2>3, FreshMove DEF Goto, Remember
<1>2. ASSUME NEW a \in Approvals, ReadApproval(p, a)  PROVE Quiet' /\ AllFresh'
  <2> DEFINE m == [Idle EXCEPT !.op = "read", !.a = a]
  <2>1. Alone(p) /\ LoadApproval(p, m, "idle") /\ UNCHANGED approval
    BY <1>2, AloneAt DEF ReadApproval, store
  <2>2. m \in Local /\ m.err \in RaisePlaces
    BY FreshLocals DEF Ops, RaisePlaces
  <2> HIDE DEF m
  <2> QED
    BY <2>1, <2>2, FreshLoad DEF LoadPlaces
<1>3. ASSUME NEW a \in Approvals, RevokeBegin(p, a)  PROVE Quiet' /\ AllFresh'
  <2> DEFINE m == [Idle EXCEPT !.op = "revoke", !.a = a]
  <2>1. Alone(p) /\ LoadApproval(p, m, "revoke") /\ UNCHANGED approval
    BY <1>3, AloneAt DEF RevokeBegin, store
  <2>2. m \in Local /\ m.err \in RaisePlaces
    BY FreshLocals DEF Ops, RaisePlaces
  <2> HIDE DEF m
  <2> QED
    BY <2>1, <2>2, FreshLoad DEF LoadPlaces
<1>4. ASSUME NEW a \in Approvals, BindBegin(p, a)  PROVE Quiet' /\ AllFresh'
  <2> DEFINE m == [Idle EXCEPT !.op = "run", !.a = a]
  <2>1. Alone(p) /\ LoadApproval(p, m, "bind") /\ UNCHANGED approval
    BY <1>4, AloneAt DEF BindBegin, store
  <2>2. m \in Local /\ m.err \in RaisePlaces
    BY FreshLocals DEF Ops, RaisePlaces
  <2> HIDE DEF m
  <2> QED
    BY <2>1, <2>2, FreshLoad DEF LoadPlaces
<1>5. ASSUME NEW b \in Bindings, NEW d \in Decisions, RecoverBegin(p, b, d)
      PROVE  Quiet' /\ AllFresh'
  <2> DEFINE m == [Idle EXCEPT !.op = "recover", !.a = bapproval[b],
                               !.b = b, !.decision = d]
  <2>1. Alone(p) /\ LoadApproval(p, m, "diagnose") /\ UNCHANGED approval
    BY <1>5, AloneAt DEF RecoverBegin, store
  <2>2. bapproval[b] \in Approvals
    BY <1>5 DEF RecoverBegin, Live, TypeInv, StoreInv, BindingInv
  <2>3. m \in Local /\ m.err \in RaisePlaces
    BY <2>2, ConstantsAssumption
    DEF Idle, Local, Places, Ops, ApprovalStatus, BindingStatus, Live, Stops,
        Compliance, Decisions, RaisePlaces
  <2> HIDE DEF m
  <2> QED
    BY <2>1, <2>3, FreshLoad DEF LoadPlaces
<1> QED
  BY <1>1, <1>2, <1>3, <1>4, <1>5 DEF Command

LEMMA EndWorkFresh ==
    ASSUME Exclusive, TypeInv, ExclInv, NEW p \in Procs, EndWork(p)
    PROVE  Quiet' /\ AllFresh'
<1> DEFINE l == loc[p]
<1>0. l \in Local /\ l.err \in RaisePlaces
  BY AloneAt
<1>1. CASE FinalizeFailed(p)
  <2> DEFINE m == [l EXCEPT !.op = "finalize"]
  <2>1. Alone(p) /\ StartTransition(p, m, "failed", "idle", "idle")
    BY <1>1, AloneAt DEF FinalizeFailed
  <2>2. m \in Local
    BY <1>0 DEF Local, Ops
  <2> HIDE DEF m
  <2> QED
    BY <2>1, <2>2, FreshStart DEF TransitionReturns, RaisePlaces
<1>2. ASSUME NEW changed \in SUBSET Paths, NEW failed \in BOOLEAN,
             EnforceBegin(p, changed, failed)
      PROVE  Quiet' /\ AllFresh'
  <2> DEFINE m == [l EXCEPT !.op = "enforce", !.changed = changed,
                            !.failed = failed, !.bst = bstatus[l.b]]
  <2>1. Alone(p) /\ Goto(p, "checkpoint") /\ Remember(p, m)
    BY <1>2, AloneAt DEF EnforceBegin
  <2>2. m.err = l.err
    BY <1>0 DEF Local
  <2> HIDE DEF m
  <2>3. Fresh("checkpoint", m, approval', bstatus', bapproval')
    BY <1>0, <2>2, FreshNeutral DEF NeutralPlaces, Places
  <2> QED
    BY <2>1, <2>3, FreshMove DEF Goto, Remember
<1> QED
  BY <1>1, <1>2 DEF EndWork

LEMMA StoreStepFresh ==
    ASSUME TypeInv, ExclInv, NEW p \in Procs,
           \/ PersistExpiry(p) \/ TransitionRead(p) \/ TransitionWrite(p)
           \/ ApproveWrite(p) \/ RevokeAgain(p) \/ RevokeRefused(p)
           \/ RevokeWriteRevocation(p) \/ RevokeWriteApproval(p)
    PROVE  Quiet' /\ AllFresh'
<1> DEFINE l == loc[p]
<1>1. /\ l \in Local /\ l.err \in RaisePlaces
      /\ WellPlaced(pc[p], l, bstatus, revocations)
      /\ Fresh(pc[p], l, approval, bstatus, bapproval)
      /\ pc[p] \notin Rest => Alone(p)
      /\ approval \in [Approvals -> ApprovalStatus]
  BY AloneAt, PlacedAt DEF StoreType
<1>2. pc[p] \in {"persist", "transition", "transition.write", "mint", "revoke",
                 "revoke.approval"}
  BY DEF PersistExpiry, TransitionRead, TransitionWrite, ApproveWrite,
         RevokeAgain, RevokeRefused, RevokeWriteRevocation, RevokeWriteApproval
<1>0. Alone(p) /\ l.a \in Approvals
  BY <1>1, <1>2 DEF Rest, WellPlaced
<1>3. CASE PersistExpiry(p)
  <2>1. /\ pc[p] = "persist" /\ Resume(p, l, l.ret)
        /\ approval' = [approval EXCEPT ![l.a] = "expired"]
    BY <1>3 DEF PersistExpiry, Return
  <2>2. /\ l.ret \in LoadPlaces
        /\ l.ret \in {"revoke", "consume"} => l.seen = approval'[l.a]
    BY <1>0, <1>1, <2>1 DEF Fresh
  <2> HIDE DEF l
  <2> QED
    BY <1>0, <1>1, <2>1, <2>2, FreshResume
<1>4. CASE TransitionRead(p)
  <2>1. pc[p] = "transition" /\ UNCHANGED bstatus
    BY <1>4 DEF TransitionRead, store, bindings
  <2>2. CASE BindingTransition(bstatus[l.b], l.want)
    <3>1. Goto(p, "transition.write") /\ UNCHANGED loc
      BY <1>4, <2>2 DEF TransitionRead
    <3>2. Fresh("transition.write", l, approval', bstatus', bapproval')
      BY <1>1, <2>1, <2>2 DEF Fresh
    <3> QED
      BY <1>0, <3>1, <3>2, FreshGoto
  <2>3. CASE ~BindingTransition(bstatus[l.b], l.want)
    <3> DEFINE m == IF l.err = "exception.reload"
                    THEN [l EXCEPT !.bst = bstatus[l.b]] ELSE l
    <3>1. Resume(p, m, m.err)
      BY <1>4, <2>3 DEF TransitionRead, Raise
    <3>2. bstatus[l.b] \in BindingStatus
      BY <1>1, <2>1, PlacedAt
      DEF WellPlaced, NeedsBinding, BindingPlaces, Places, StoreType
    <3>3. m \in Local /\ m.err = l.err
      BY <1>1, <3>2 DEF Local
    <3> HIDE DEF m
    <3> QED
      BY <1>0, <1>1, <3>1, <3>3, FreshResume DEF RaisePlaces
  <2> QED
    BY <2>2, <2>3
<1>5. CASE TransitionWrite(p)
  <2> DEFINE m == [l EXCEPT !.bst = l.want]
  <2>1. pc[p] = "transition.write" /\ Resume(p, m, m.ret)
    BY <1>5 DEF TransitionWrite, Return
  <2>2. m \in Local /\ m.err = l.err /\ m.ret = l.ret
    BY <1>1 DEF Local
  <2>3. l.ret \in TransitionReturns
    BY <1>1, <2>1 DEF Fresh
  <2> HIDE DEF m
  <2> QED
    BY <1>0, <1>1, <2>1, <2>2, <2>3, FreshResume DEF TransitionReturns
<1>6. CASE ApproveWrite(p)
  BY <1>0, <1>6, FreshExit DEF ApproveWrite
<1>7. CASE RevokeAgain(p)
  <2>1. Fresh("receipt", l, approval', bstatus', bapproval')
    BY <1>1, FreshNeutral DEF NeutralPlaces, Places
  <2> QED
    BY <1>0, <1>7, <2>1, FreshExit, FreshMove
    DEF RevokeAgain, AfterRevoke, Goto, Remember
<1>8. CASE RevokeRefused(p)
  <2>1. Resume(p, l, l.err)
    BY <1>8 DEF RevokeRefused, Raise
  <2> HIDE DEF l
  <2> QED
    BY <1>0, <1>1, <2>1, FreshResume DEF RaisePlaces
<1>9. CASE RevokeWriteRevocation(p)
  <2>1. /\ pc[p] = "revoke" /\ l.seen = "approved" /\ UNCHANGED approval
        /\ Goto(p, "revoke.approval") /\ UNCHANGED loc
    BY <1>9 DEF RevokeWriteRevocation
  <2>2. Fresh("revoke.approval", l, approval', bstatus', bapproval')
    BY <1>1, <2>1 DEF Fresh
  <2> QED
    BY <1>0, <2>1, <2>2, FreshGoto
<1>10. CASE RevokeWriteApproval(p)
  <2> DEFINE m == [l EXCEPT !.seen = "revoked"]
  <2>1. AfterRevoke(p, m)
    BY <1>10 DEF RevokeWriteApproval
  <2>2. m.err = l.err
    BY <1>1 DEF Local
  <2> HIDE DEF m
  <2>3. Fresh("receipt", m, approval', bstatus', bapproval')
    BY <1>1, <2>2, FreshNeutral DEF NeutralPlaces, Places
  <2> QED
    BY <1>0, <2>1, <2>3, FreshExit, FreshMove DEF AfterRevoke, Goto, Remember
<1> QED
  BY <1>3, <1>4, <1>5, <1>6, <1>7, <1>8, <1>9, <1>10

LEMMA BindFresh ==
    ASSUME TypeInv, ExclInv, NEW p \in Procs,
           BindGate(p) \/ BindCheck(p) \/ \E b \in Bindings : BindSave(p, b)
    PROVE  Quiet' /\ AllFresh'
<1> DEFINE l == loc[p]
<1>0. Alone(p) /\ l \in Local /\ l.err \in RaisePlaces
  BY AloneAt DEF BindGate, BindCheck, BindSave, Rest
<1>1. CASE BindGate(p)
  <2>1. Fresh("bind.check", l, approval', bstatus', bapproval')
    BY <1>0, FreshNeutral DEF NeutralPlaces, Places
  <2> QED
    BY <1>0, <1>1, <2>1, FreshExit, FreshGoto DEF BindGate
<1>2. CASE BindCheck(p)
  <2>1. UNCHANGED <<approval, bstatus, bapproval>>
    BY <1>2 DEF BindCheck, store, bindings
  <2>2. CASE BlockedApproval(l.a) \/ BusyTarget(ApprovalTarget(l.a))
    BY <1>0, <1>2, <2>2, FreshExit DEF BindCheck
  <2>3. CASE ~(BlockedApproval(l.a) \/ BusyTarget(ApprovalTarget(l.a)))
    <3>1. Free(l.a, bstatus, bapproval)
      BY <2>3 DEF Free, BlockedApproval, BusyTarget
    <3>2. Fresh("bind.save", l, approval', bstatus', bapproval')
      BY <1>0, <2>1, <3>1 DEF Fresh
    <3> QED
      BY <1>0, <1>2, <2>3, <3>2, FreshGoto DEF BindCheck
  <2> QED
    BY <2>2, <2>3
<1>3. ASSUME NEW b \in Bindings, BindSave(p, b)
      PROVE  Quiet' /\ AllFresh'
  <2> DEFINE m == [l EXCEPT !.b = b, !.bst = "active"]
  <2>1. Goto(p, "working") /\ Remember(p, m)
    BY <1>3 DEF BindSave
  <2>2. m.err = l.err
    BY <1>0 DEF Local
  <2> HIDE DEF m
  <2>3. Fresh("working", m, approval', bstatus', bapproval')
    BY <1>0, <2>2, FreshNeutral DEF NeutralPlaces, Places
  <2> QED
    BY <1>0, <2>1, <2>3, FreshMove DEF Goto, Remember
<1> QED
  BY <1>1, <1>2, <1>3

LEMMA JudgeFresh ==
    ASSUME TypeInv, ExclInv, NEW p \in Procs,
           \/ Checkpoint(p) \/ Authority(p) \/ ScopeRoots(p)
           \/ \E kept \in SUBSET Paths : Classify(p, kept) \/ ClassifyRaises(p, kept)
           \/ Reload(p)
    PROVE  Quiet' /\ AllFresh'
<1> DEFINE l == loc[p]
<1>0. Alone(p) /\ l \in Local /\ l.err \in RaisePlaces
  BY AloneAt
  DEF Checkpoint, Authority, ScopeRoots, Classify, ClassifyRaises, Reload, Rest
<1>1. CASE Checkpoint(p)
  <2>1. CASE l.bst \in Live
    <3>1. LoadApproval(p, l, "authority") /\ UNCHANGED approval
      BY <1>1, <2>1 DEF Checkpoint, store
    <3> HIDE DEF l
    <3> QED
      BY <1>0, <3>1, FreshLoad DEF LoadPlaces
  <2>2. CASE l.bst \notin Live
    <3> DEFINE m == [l EXCEPT !.stop = "authority"]
    <3>1. Goto(p, "scope") /\ Remember(p, m)
      BY <1>1, <2>2 DEF Checkpoint
    <3>2. m.err = l.err
      BY <1>0 DEF Local
    <3> HIDE DEF m
    <3>3. Fresh("scope", m, approval', bstatus', bapproval')
      BY <1>0, <3>2, FreshNeutral DEF NeutralPlaces, Places
    <3> QED
      BY <1>0, <3>1, <3>3, FreshMove DEF Goto, Remember
  <2> QED
    BY <2>1, <2>2
<1>2. CASE Authority(p)
  <2> DEFINE m == [l EXCEPT !.stop = StopReason(l)]
  <2>1. Goto(p, "scope") /\ Remember(p, m)
    BY <1>2 DEF Authority
  <2>2. m.err = l.err
    BY <1>0 DEF Local
  <2> HIDE DEF m
  <2>3. Fresh("scope", m, approval', bstatus', bapproval')
    BY <1>0, <2>2, FreshNeutral DEF NeutralPlaces, Places
  <2> QED
    BY <1>0, <2>1, <2>3, FreshMove DEF Goto, Remember
<1>3. CASE ScopeRoots(p)
  <2>1. LoadScopeRoots(p, l, "classify") /\ UNCHANGED approval
    BY <1>3 DEF ScopeRoots, store
  <2> HIDE DEF l
  <2> QED
    BY <1>0, <2>1, FreshLoadScopeRoots
<1>4. ASSUME NEW kept \in SUBSET Paths, Classify(p, kept)
      PROVE  Quiet' /\ AllFresh'
  <2> DEFINE m == [l EXCEPT !.compliance = ComplianceOf(l), !.failed = RunFailed(l)]
  <2>1. Goto(p, "reload") /\ Remember(p, m)
    BY <1>4 DEF Classify
  <2>2. m.err = l.err
    BY <1>0 DEF Local
  <2> HIDE DEF m
  <2>3. Fresh("reload", m, approval', bstatus', bapproval')
    BY <1>0, <2>2, FreshNeutral DEF NeutralPlaces, Places
  <2> QED
    BY <1>0, <2>1, <2>3, FreshMove DEF Goto, Remember
<1>5. ASSUME NEW kept \in SUBSET Paths, ClassifyRaises(p, kept)
      PROVE  Quiet' /\ AllFresh'
  <2> DEFINE m == [l EXCEPT !.op = "finalize"]
  <2>1. StartTransition(p, m, "failed", "idle", "idle")
    BY <1>5 DEF ClassifyRaises
  <2>2. m \in Local
    BY <1>0 DEF Local, Ops
  <2> HIDE DEF m
  <2> QED
    BY <1>0, <2>1, <2>2, FreshStart DEF TransitionReturns, RaisePlaces
<1>6. CASE Reload(p)
  <2>1. LoadApproval(p, l, "settle") /\ UNCHANGED approval
    BY <1>6 DEF Reload, store
  <2> HIDE DEF l
  <2> QED
    BY <1>0, <2>1, FreshLoad DEF LoadPlaces
<1> QED
  BY <1>1, <1>2, <1>3, <1>4, <1>5, <1>6

LEMMA SettleFresh ==
    ASSUME TypeInv, ExclInv, NEW p \in Procs,
           \/ Settle(p) \/ Consequence(p) \/ Consume(p)
           \/ Exception(p) \/ ExceptionReload(p) \/ WriteReceipt(p)
    PROVE  Quiet' /\ AllFresh'
<1> DEFINE l == loc[p]
<1>0. Alone(p) /\ l \in Local /\ l.err \in RaisePlaces
  BY AloneAt
  DEF Settle, Consequence, Consume, Exception, ExceptionReload, WriteReceipt, Rest
<1>1. CASE Settle(p)
  <2> DEFINE m == [l EXCEPT !.err = "exception"]
             want == IF /\ m.compliance \in {"within_scope", "no_mutation"}
                        /\ ~m.failed THEN "completed" ELSE "failed"
  <2>1. IF m.bst \in Live
        THEN StartTransition(p, m, want, "consequence", "exception")
        ELSE Goto(p, "consequence") /\ Remember(p, m)
    BY <1>1 DEF Settle
  <2>2. m \in Local /\ m.err = "exception"
    BY <1>0 DEF Local, Places
  <2> HIDE DEF m, want
  <2>3. Fresh("consequence", m, approval', bstatus', bapproval')
    BY <2>2, FreshNeutral DEF NeutralPlaces, Places, RaisePlaces
  <2>4. CASE m.bst \in Live
    BY <1>0, <2>1, <2>2, <2>4, FreshStart DEF TransitionReturns, RaisePlaces
  <2>5. CASE m.bst \notin Live
    BY <1>0, <2>1, <2>3, <2>5, FreshMove DEF Goto, Remember
  <2> QED
    BY <2>4, <2>5
<1>2. CASE Consequence(p)
  <2>1. UNCHANGED approval
    BY <1>2 DEF Consequence, store
  <2>2. \/ LoadApproval(p, l, "consume")
        \/ LoadApproval(p, l, "revoke")
        \/ Goto(p, "receipt") /\ UNCHANGED loc
    BY <1>2 DEF Consequence, LoadApproval, Goto
  <2>3. Fresh("receipt", l, approval', bstatus', bapproval')
    BY <1>0, FreshNeutral DEF NeutralPlaces, Places
  <2>4. CASE LoadApproval(p, l, "consume") \/ LoadApproval(p, l, "revoke")
    <3> HIDE DEF l
    <3> QED
      BY <1>0, <2>1, <2>4, FreshLoad DEF LoadPlaces
  <2>5. CASE Goto(p, "receipt") /\ UNCHANGED loc
    BY <1>0, <2>3, <2>5, FreshGoto
  <2> QED
    BY <2>2, <2>4, <2>5
<1>3. CASE Consume(p)
  <2>1. CASE l.seen = "approved"
    <3> DEFINE m == [l EXCEPT !.seen = "consumed"]
    <3>1. Goto(p, "receipt") /\ Remember(p, m)
      BY <1>3, <2>1 DEF Consume
    <3>2. m.err = l.err
      BY <1>0 DEF Local
    <3> HIDE DEF m
    <3>3. Fresh("receipt", m, approval', bstatus', bapproval')
      BY <1>0, <3>2, FreshNeutral DEF NeutralPlaces, Places
    <3> QED
      BY <1>0, <3>1, <3>3, FreshMove DEF Goto, Remember
  <2>2. CASE l.seen # "approved"
    <3>1. Resume(p, l, l.err)
      BY <1>3, <2>2 DEF Consume, Raise
    <3> HIDE DEF l
    <3> QED
      BY <1>0, <3>1, FreshResume DEF RaisePlaces
  <2> QED
    BY <2>1, <2>2
<1>4. CASE Exception(p)
  <2> DEFINE m == [l EXCEPT !.failed = TRUE]
  <2>1. IF m.bst \in Live
        THEN StartTransition(p, m, "failed", "exception.reload", "exception.reload")
        ELSE Goto(p, "exception.reload") /\ Remember(p, m)
    BY <1>4 DEF Exception
  <2>2. m \in Local /\ m.err = l.err
    BY <1>0 DEF Local
  <2> HIDE DEF m
  <2>3. Fresh("exception.reload", m, approval', bstatus', bapproval')
    BY <1>0, <2>2, FreshNeutral DEF NeutralPlaces, Places
  <2>4. CASE m.bst \in Live
    BY <1>0, <2>1, <2>2, <2>4, FreshStart DEF TransitionReturns, RaisePlaces
  <2>5. CASE m.bst \notin Live
    BY <1>0, <2>1, <2>3, <2>5, FreshMove DEF Goto, Remember
  <2> QED
    BY <2>4, <2>5
<1>5. CASE ExceptionReload(p)
  <2>1. LoadApproval(p, l, "receipt") /\ UNCHANGED approval
    BY <1>5 DEF ExceptionReload, store
  <2> HIDE DEF l
  <2> QED
    BY <1>0, <2>1, FreshLoad DEF LoadPlaces
<1>6. CASE WriteReceipt(p)
  BY <1>0, <1>6, FreshExit DEF WriteReceipt
<1> QED
  BY <1>1, <1>2, <1>3, <1>4, <1>5, <1>6

LEMMA RecoverFresh ==
    ASSUME TypeInv, ExclInv, NEW p \in Procs,
           \/ Diagnose(p) \/ RecoverSuspend(p) \/ RecoverReload(p)
           \/ RecoverRestore(p)
           \/ \E kept \in SUBSET Paths : RecoverGit(p, kept) \/ RecoverGitRaises(p, kept)
           \/ RecoverFail(p) \/ RecoverOutcome(p)
    PROVE  Quiet' /\ AllFresh'
<1> DEFINE l == loc[p]
<1>0. Alone(p) /\ l \in Local /\ l.err \in RaisePlaces
  BY AloneAt
  DEF Diagnose, RecoverSuspend, RecoverReload, RecoverRestore, RecoverGit,
      RecoverGitRaises, RecoverFail, RecoverOutcome, Rest
<1>1. CASE Diagnose(p)
  <2> DEFINE t == ApprovalTarget(l.a)
             diag == [dirty |-> dirty[t], stale |-> head[t] # ApprovalBase(l.a),
                      dead |-> l.seen \in {"expired", "revoked"},
                      receipt |-> \E r \in receipts : r.binding = l.b]
             m == [l EXCEPT !.diag = diag,
                     !.decision = IF @ = "auto" THEN "mark-failed" ELSE @]
  <2>1. Exit(p) \/ (Goto(p, "recover.suspend") /\ Remember(p, m))
    BY <1>1 DEF Diagnose, Exit
  <2> HIDE DEF diag
  <2>2. m.err = l.err
    BY <1>0 DEF Local
  <2> HIDE DEF m
  <2>3. Fresh("recover.suspend", m, approval', bstatus', bapproval')
    BY <1>0, <2>2, FreshNeutral DEF NeutralPlaces, Places
  <2> QED
    BY <1>0, <2>1, <2>3, FreshExit, FreshMove DEF Goto, Remember
<1>2. CASE RecoverSuspend(p)
  <2> DEFINE m == [l EXCEPT !.bst = bstatus[l.b]]
  <2>1. \/ Exit(p)
        \/ StartTransition(p, m, "suspended", "recover.reload", "idle")
        \/ Goto(p, "recover.reload") /\ Remember(p, m)
    BY <1>2 DEF RecoverSuspend, Exit, StartTransition
  <2>2. bstatus[l.b] \in BindingStatus
    BY <1>2, PlacedAt
    DEF RecoverSuspend, WellPlaced, NeedsBinding, BindingPlaces, Places, StoreType
  <2>3. m \in Local /\ m.err = l.err
    BY <1>0, <2>2 DEF Local
  <2> HIDE DEF m
  <2>4. Fresh("recover.reload", m, approval', bstatus', bapproval')
    BY <1>0, <2>3, FreshNeutral DEF NeutralPlaces, Places
  <2>5. CASE Exit(p)
    BY <1>0, <2>5, FreshExit
  <2>6. CASE StartTransition(p, m, "suspended", "recover.reload", "idle")
    BY <1>0, <2>3, <2>6, FreshStart DEF TransitionReturns, RaisePlaces
  <2>7. CASE Goto(p, "recover.reload") /\ Remember(p, m)
    BY <1>0, <2>4, <2>7, FreshMove DEF Goto, Remember
  <2> QED
    BY <2>1, <2>5, <2>6, <2>7
<1>3. CASE RecoverReload(p)
  <2>1. LoadApproval(p, l, "recover.restore") /\ UNCHANGED approval
    BY <1>3 DEF RecoverReload, store
  <2> HIDE DEF l
  <2> QED
    BY <1>0, <2>1, FreshLoad DEF LoadPlaces
<1>4. CASE RecoverRestore(p)
  <2>1. /\ UNCHANGED approval
        /\ \/ LoadScopeRoots(p, l, "recover.git")
           \/ Goto(p, "recover.fail") /\ UNCHANGED loc
    BY <1>4 DEF RecoverRestore, LoadScopeRoots, Goto, store
  <2>2. Fresh("recover.fail", l, approval', bstatus', bapproval')
    BY <1>0, FreshNeutral DEF NeutralPlaces, Places
  <2>3. CASE LoadScopeRoots(p, l, "recover.git")
    <3> HIDE DEF l
    <3> QED
      BY <1>0, <2>1, <2>3, FreshLoadScopeRoots
  <2>4. CASE Goto(p, "recover.fail") /\ UNCHANGED loc
    BY <1>0, <2>2, <2>4, FreshGoto
  <2> QED
    BY <2>1, <2>3, <2>4
<1>5. ASSUME NEW kept \in SUBSET Paths, RecoverGit(p, kept)
      PROVE  Quiet' /\ AllFresh'
  <2>1. Fresh("recover.fail", l, approval', bstatus', bapproval')
    BY <1>0, FreshNeutral DEF NeutralPlaces, Places
  <2> QED
    BY <1>0, <1>5, <2>1, FreshGoto DEF RecoverGit
<1>6. ASSUME NEW kept \in SUBSET Paths, RecoverGitRaises(p, kept)
      PROVE  Quiet' /\ AllFresh'
  BY <1>0, <1>6, FreshExit DEF RecoverGitRaises
<1>7. CASE RecoverFail(p)
  <2>1. Fresh("recover.outcome", l, approval', bstatus', bapproval')
    BY <1>0, FreshNeutral DEF NeutralPlaces, Places
  <2>2. CASE l.bst \in Live
    <3>1. StartTransition(p, l, "failed", "recover.outcome", "idle")
      BY <1>7, <2>2 DEF RecoverFail
    <3> HIDE DEF l
    <3> QED
      BY <1>0, <3>1, FreshStart DEF TransitionReturns, RaisePlaces
  <2>3. CASE l.bst \notin Live
    BY <1>0, <1>7, <2>1, <2>3, FreshGoto DEF RecoverFail
  <2> QED
    BY <2>2, <2>3
<1>8. CASE RecoverOutcome(p)
  BY <1>0, <1>8, FreshExit DEF RecoverOutcome
<1> QED
  BY <1>1, <1>2, <1>3, <1>4, <1>5, <1>6, <1>7, <1>8

-----------------------------------------------------------------------------
(***************************************************************************)
(* Steps that happen while another command may be under way.               *)
(***************************************************************************)
LEMMA CrashFresh ==
    ASSUME CtlType, Quiet, AllFresh, NEW p \in Procs, Crash(p)
    PROVE  Quiet' /\ AllFresh'
<1>1. /\ pc'[p] = "idle" /\ loc'[p] = Idle
      /\ \A q \in Procs \ {p} : pc'[q] = pc[q] /\ loc'[q] = loc[q]
      /\ UNCHANGED <<approval, bstatus, bapproval>>
  BY DEF Crash, Exit, Goto, Remember, CtlType, store, bindings
<1>2. Quiet'
  BY <1>1 DEF Quiet, Rest
<1>3. AllFresh'
  BY <1>1, FreshIdle DEF AllFresh
<1> QED
  BY <1>2, <1>3

LEMMA MutateFresh ==
    ASSUME CtlType, Quiet, AllFresh, NEW p \in Procs, NEW path \in Paths,
           Mutate(p, path)
    PROVE  Quiet' /\ AllFresh'
<1> DEFINE m == [loc[p] EXCEPT !.changed = @ \cup {path}]
<1>1. m.err = loc[p].err
  BY DEF CtlType, Local
<1>2. /\ UNCHANGED <<pc, approval, bstatus, bapproval>> /\ pc[p] = "working"
      /\ loc'[p] = m
      /\ \A q \in Procs \ {p} : loc'[q] = loc[q]
  BY DEF Mutate, Remember, CtlType, store, bindings
<1> HIDE DEF m
<1>3. Fresh("working", m, approval, bstatus, bapproval)
  BY <1>1, FreshNeutral DEF AllFresh, Fresh, NeutralPlaces, Places
<1>4. Quiet'
  BY <1>2 DEF Quiet
<1>5. AllFresh'
  BY <1>2, <1>3 DEF AllFresh
<1> QED
  BY <1>4, <1>5

LEMMA EnvironmentFresh ==
    ASSUME Quiet, AllFresh, Environment \/ UNCHANGED vars
    PROVE  Quiet' /\ AllFresh'
<1>1. UNCHANGED <<pc, loc, approval, bstatus, bapproval>>
  BY DEF Environment, ImportResult, Lapse, MoveHead, vars, store, bindings
<1> QED
  BY <1>1 DEF Quiet, AllFresh

-----------------------------------------------------------------------------
(***************************************************************************)
(* What a step does to the records.                                        *)
(***************************************************************************)

\* The changes of a binding file the lifecycle table allows.
BindingStep(b) ==
    \/ bstatus'[b] = bstatus[b] /\ bapproval'[b] = bapproval[b]
    \/ /\ BindingTransition(bstatus[b], bstatus'[b])
       /\ bstatus[b] # "none" /\ bapproval'[b] = bapproval[b]

\* A step changes the binding files along the table, or saves one new binding
\* of an approval that is free.
BindingsStep ==
    \/ \A b \in Bindings : BindingStep(b)
    \/ \E b \in Bindings, a \in Approvals :
         /\ bstatus[b] = "none" /\ Free(a, bstatus, bapproval)
         /\ bstatus' = [bstatus EXCEPT ![b] = "active"]
         /\ bapproval' = [bapproval EXCEPT ![b] = a]

LEMMA SameBindings ==
    ASSUME UNCHANGED <<bstatus, bapproval>>
    PROVE  BindingsStep
BY DEF BindingsStep, BindingStep

LEMMA StepBindings ==
    ASSUME TypeInv, ExclInv, NEW p \in Procs, Step(p)
    PROVE  BindingsStep
<1>0. /\ loc[p] \in Local /\ WellPlaced(pc[p], loc[p], bstatus, revocations)
      /\ Fresh(pc[p], loc[p], approval, bstatus, bapproval)
      /\ bstatus \in [Bindings -> BindingStatus]
  BY AloneAt, PlacedAt DEF StoreType
<1>1. CASE TransitionWrite(p)
  <2>1. /\ pc[p] = "transition.write" /\ UNCHANGED bapproval
        /\ bstatus' = [bstatus EXCEPT ![loc[p].b] = loc[p].want]
    BY <1>1 DEF TransitionWrite
  <2>2. /\ loc[p].b \in Bindings /\ bstatus[loc[p].b] # "none"
        /\ BindingTransition(bstatus[loc[p].b], loc[p].want)
    BY <1>0, <2>1 DEF WellPlaced, NeedsBinding, BindingPlaces, Places, Fresh
  <2> QED
    BY <1>0, <2>1, <2>2 DEF BindingsStep, BindingStep
<1>2. ASSUME NEW b \in Bindings, BindSave(p, b)
      PROVE  BindingsStep
  <2>1. /\ pc[p] = "bind.save" /\ bstatus[b] = "none"
        /\ bstatus' = [bstatus EXCEPT ![b] = "active"]
        /\ bapproval' = [bapproval EXCEPT ![b] = loc[p].a]
    BY <1>2 DEF BindSave
  <2>2. loc[p].a \in Approvals /\ Free(loc[p].a, bstatus, bapproval)
    BY <1>0, <2>1 DEF WellPlaced, Fresh
  <2> QED
    BY <2>1, <2>2 DEF BindingsStep
<1>3. CASE \/ PersistExpiry(p) \/ TransitionRead(p) \/ ApproveWrite(p)
           \/ RevokeAgain(p) \/ RevokeRefused(p)
           \/ RevokeWriteRevocation(p) \/ RevokeWriteApproval(p)
           \/ BindGate(p) \/ BindCheck(p)
  <2>1. UNCHANGED <<bstatus, bapproval>>
    BY <1>3
    DEF PersistExpiry, TransitionRead, ApproveWrite, RevokeAgain, RevokeRefused,
        RevokeWriteRevocation, RevokeWriteApproval, BindGate, BindCheck,
        store, bindings
  <2> QED
    BY <2>1, SameBindings
<1>4. CASE \/ Checkpoint(p) \/ Authority(p) \/ ScopeRoots(p)
           \/ (\E kept \in SUBSET Paths : Classify(p, kept) \/ ClassifyRaises(p, kept))
           \/ Reload(p) \/ Settle(p) \/ Consequence(p) \/ Consume(p)
           \/ Exception(p) \/ ExceptionReload(p) \/ WriteReceipt(p)
  <2>1. UNCHANGED <<bstatus, bapproval>>
    BY <1>4
    DEF Checkpoint, Authority, ScopeRoots, Classify, ClassifyRaises, Reload,
        Settle, Consequence, Consume, Exception, ExceptionReload, WriteReceipt,
        store, bindings
  <2> QED
    BY <2>1, SameBindings
<1>5. CASE \/ Diagnose(p) \/ RecoverSuspend(p) \/ RecoverReload(p)
           \/ RecoverRestore(p)
           \/ (\E kept \in SUBSET Paths : RecoverGit(p, kept) \/ RecoverGitRaises(p, kept))
           \/ RecoverFail(p) \/ RecoverOutcome(p)
  <2>1. UNCHANGED <<bstatus, bapproval>>
    BY <1>5
    DEF Diagnose, RecoverSuspend, RecoverReload, RecoverRestore, RecoverGit,
        RecoverGitRaises, RecoverFail, RecoverOutcome, store, bindings
  <2> QED
    BY <2>1, SameBindings
<1> QED
  BY <1>1, <1>2, <1>3, <1>4, <1>5 DEF Step

LEMMA NextBindings ==
    ASSUME TypeInv, ExclInv, [Next]_vars
    PROVE  BindingsStep
<1>1. ASSUME NEW p \in Procs, Command(p) \/ EndWork(p) \/ Crash(p)
      PROVE  UNCHANGED <<bstatus, bapproval>>
  BY <1>1
  DEF Command, EndWork, ApproveCheck, ReadApproval, RevokeBegin, BindBegin,
      RecoverBegin, FinalizeFailed, EnforceBegin, Crash, store, bindings
<1>2. ASSUME NEW p \in Procs, NEW path \in Paths, Mutate(p, path)
      PROVE  UNCHANGED <<bstatus, bapproval>>
  BY <1>2 DEF Mutate, store, bindings
<1>3. CASE Environment \/ UNCHANGED vars
  BY <1>3, SameBindings
  DEF Environment, ImportResult, Lapse, MoveHead, vars, store, bindings
<1> QED
  BY <1>1, <1>2, <1>3, StepBindings, SameBindings DEF Next

\* The lifecycle table and the bind check keep reservations apart.
LEMMA BindingsStepSafe ==
    ASSUME TypeInv, OneWriterPerTarget, SingleUse, BindingsStep
    PROVE  OneWriterPerTarget' /\ SingleUse'
<1>0. /\ bstatus \in [Bindings -> BindingStatus]
      /\ bapproval \in [Bindings -> Approvals \cup {NoApproval}]
  BY DEF TypeInv, StoreInv, StoreType
<1>1. CASE \A b \in Bindings : BindingStep(b)
  <2>1. \A b \in Bindings :
          /\ bstatus'[b] \in Live => bstatus[b] \in Live
          /\ bstatus'[b] \in Blocking => bstatus[b] \in Blocking
          /\ bapproval'[b] = bapproval[b]
    BY <1>1 DEF BindingStep, BindingTransition, Live, Blocking, BindingTerminal
  <2> QED
    BY <2>1 DEF OneWriterPerTarget, SingleUse
<1>2. ASSUME NEW b \in Bindings, NEW a \in Approvals,
             Free(a, bstatus, bapproval),
             bstatus' = [bstatus EXCEPT ![b] = "active"],
             bapproval' = [bapproval EXCEPT ![b] = a]
      PROVE  OneWriterPerTarget' /\ SingleUse'
  <2>1. /\ bstatus'[b] = "active" /\ bapproval'[b] = a
        /\ \A c \in Bindings \ {b} : /\ bstatus'[c] = bstatus[c]
                                     /\ bapproval'[c] = bapproval[c]
    BY <1>0, <1>2
  <2>2. OneWriterPerTarget'
    BY <1>2, <2>1 DEF OneWriterPerTarget, Free
  <2>3. SingleUse'
    BY <1>2, <2>1 DEF SingleUse, Free
  <2> QED
    BY <2>2, <2>3
<1> QED
  BY <1>1, <1>2 DEF BindingsStep

\* The changes of an approval file the code's transition table allows.
ApprovalStep(a) ==
    \/ approval'[a] = approval[a]
    \/ approval[a] = "none" /\ approval'[a] = "approved"
    \/ approval[a] = "approved" /\ approval'[a] \in ApprovalTerminal

LEMMA NextApprovals ==
    ASSUME TypeInv, ExclInv, [Next]_vars
    PROVE  \A a \in Approvals : ApprovalStep(a)
<1>0. approval \in [Approvals -> ApprovalStatus]
  BY DEF TypeInv, StoreInv, StoreType
<1>1. ASSUME NEW p \in Procs, NEW s,
             approval' = [approval EXCEPT ![loc[p].a] = s],
             \/ pc[p] = "mint" /\ s = "approved"
             \/ pc[p] \in {"persist", "revoke.approval"} /\ s \in ApprovalTerminal
             \/ /\ pc[p] = "consume" /\ loc[p].seen = "approved"
                /\ s \in ApprovalTerminal
      PROVE  \A a \in Approvals : ApprovalStep(a)
  <2>1. Fresh(pc[p], loc[p], approval, bstatus, bapproval)
    BY AloneAt
  <2>2. \/ approval[loc[p].a] = "none" /\ s = "approved"
        \/ approval[loc[p].a] = "approved" /\ s \in ApprovalTerminal
    BY <1>1, <2>1 DEF Fresh
  <2> QED
    BY <1>0, <1>1, <2>2 DEF ApprovalStep
<1>2. ASSUME NEW p \in Procs, PersistExpiry(p)
      PROVE  \A a \in Approvals : ApprovalStep(a)
  BY <1>1, <1>2 DEF PersistExpiry, ApprovalTerminal
<1>3. ASSUME NEW p \in Procs, ApproveWrite(p)
      PROVE  \A a \in Approvals : ApprovalStep(a)
  BY <1>1, <1>3 DEF ApproveWrite
<1>4. ASSUME NEW p \in Procs, RevokeWriteApproval(p)
      PROVE  \A a \in Approvals : ApprovalStep(a)
  BY <1>1, <1>4 DEF RevokeWriteApproval, ApprovalTerminal
<1>5. ASSUME NEW p \in Procs, Consume(p)
      PROVE  \A a \in Approvals : ApprovalStep(a)
  <2>1. CASE loc[p].seen = "approved"
    BY <1>1, <1>5, <2>1 DEF Consume, ApprovalTerminal
  <2>2. CASE loc[p].seen # "approved"
    BY <1>5, <2>2 DEF Consume, ApprovalStep
  <2> QED
    BY <2>1, <2>2
<1>6. CASE UNCHANGED approval
  BY <1>6 DEF ApprovalStep
<1>7. ASSUME NEW p \in Procs, Step(p)
      PROVE  \/ PersistExpiry(p) \/ ApproveWrite(p) \/ RevokeWriteApproval(p)
             \/ Consume(p) \/ UNCHANGED approval
  <2>1. CASE \/ TransitionRead(p) \/ TransitionWrite(p)
             \/ RevokeAgain(p) \/ RevokeRefused(p) \/ RevokeWriteRevocation(p)
             \/ BindGate(p) \/ BindCheck(p) \/ (\E b \in Bindings : BindSave(p, b))
    BY <2>1
    DEF TransitionRead, TransitionWrite, RevokeAgain, RevokeRefused,
        RevokeWriteRevocation, BindGate, BindCheck, BindSave, store
  <2>2. CASE \/ Checkpoint(p) \/ Authority(p) \/ ScopeRoots(p)
             \/ (\E kept \in SUBSET Paths : Classify(p, kept) \/ ClassifyRaises(p, kept))
             \/ Reload(p) \/ Settle(p) \/ Consequence(p)
             \/ Exception(p) \/ ExceptionReload(p) \/ WriteReceipt(p)
    BY <2>2
    DEF Checkpoint, Authority, ScopeRoots, Classify, ClassifyRaises, Reload,
        Settle, Consequence, Exception, ExceptionReload, WriteReceipt, store
  <2>3. CASE \/ Diagnose(p) \/ RecoverSuspend(p) \/ RecoverReload(p)
             \/ RecoverRestore(p)
             \/ (\E kept \in SUBSET Paths : RecoverGit(p, kept) \/ RecoverGitRaises(p, kept))
             \/ RecoverFail(p) \/ RecoverOutcome(p)
    BY <2>3
    DEF Diagnose, RecoverSuspend, RecoverReload, RecoverRestore, RecoverGit,
        RecoverGitRaises, RecoverFail, RecoverOutcome, store
  <2> QED
    BY <1>7, <2>1, <2>2, <2>3 DEF Step
<1>8. ASSUME NEW p \in Procs, Command(p) \/ EndWork(p) \/ Crash(p)
      PROVE  UNCHANGED approval
  BY <1>8
  DEF Command, EndWork, ApproveCheck, ReadApproval, RevokeBegin, BindBegin,
      RecoverBegin, FinalizeFailed, EnforceBegin, Crash, store
<1>9. ASSUME NEW p \in Procs, NEW path \in Paths, Mutate(p, path)
      PROVE  UNCHANGED approval
  BY <1>9 DEF Mutate, store
<1>10. CASE Environment \/ UNCHANGED vars
  BY <1>6, <1>10 DEF Environment, ImportResult, Lapse, MoveHead, vars, store
<1> QED
  BY <1>2, <1>3, <1>4, <1>5, <1>6, <1>7, <1>8, <1>9, <1>10 DEF Next

-----------------------------------------------------------------------------
(***************************************************************************)
(* The invariant, and the theorems of the exclusive regime.                *)
(***************************************************************************)
LEMMA ExclInvInit == Init => ExclInv
<1> SUFFICES ASSUME Init PROVE ExclInv
  OBVIOUS
<1>1. Quiet
  BY DEF Init, Quiet, Rest
<1>2. AllFresh
  BY FreshIdle DEF Init, AllFresh
<1>3. OneWriterPerTarget /\ SingleUse
  BY DEF Init, OneWriterPerTarget, SingleUse, Live, Blocking
<1> QED
  BY <1>1, <1>2, <1>3 DEF ExclInv

LEMMA ExclInvNext ==
    ASSUME Exclusive, TypeInv, ExclInv, [Next]_vars
    PROVE  ExclInv'
<1>0. CtlType /\ Quiet /\ AllFresh /\ OneWriterPerTarget /\ SingleUse
  BY DEF TypeInv, ExclInv
<1>1. Quiet' /\ AllFresh'
  <2>1. ASSUME NEW p \in Procs, Step(p) PROVE Quiet' /\ AllFresh'
    BY <2>1, StoreStepFresh, BindFresh, JudgeFresh, SettleFresh, RecoverFresh
    DEF Step
  <2>2. ASSUME NEW p \in Procs, Command(p) \/ EndWork(p) \/ Crash(p)
        PROVE  Quiet' /\ AllFresh'
    BY <1>0, <2>2, CommandFresh, EndWorkFresh, CrashFresh
  <2>3. ASSUME NEW p \in Procs, NEW path \in Paths, Mutate(p, path)
        PROVE  Quiet' /\ AllFresh'
    BY <1>0, <2>3, MutateFresh
  <2>4. CASE Environment \/ UNCHANGED vars
    BY <1>0, <2>4, EnvironmentFresh
  <2> QED
    BY <2>1, <2>2, <2>3, <2>4 DEF Next
<1>2. OneWriterPerTarget' /\ SingleUse'
  BY <1>0, NextBindings, BindingsStepSafe
<1> QED
  BY <1>1, <1>2 DEF ExclInv

\* The invariant holds as long as two commands never overlap.
LEMMA ExclInvHolds == ASSUME Exclusive PROVE Spec => []ExclInv
<1>1. TypeInv /\ ExclInv /\ [Next]_vars => ExclInv'
  BY ExclInvNext
<1> QED
  BY <1>1, ExclInvInit, TypeInvHolds, PTL DEF Spec

\* active_binding_for_target gives a workspace one governed writer, for any
\* number of processes, approvals and bindings, with crashes and recovery.
THEOREM ExclusiveOneWriter == ASSUME Exclusive PROVE Spec => []OneWriterPerTarget
<1>1. ExclInv => OneWriterPerTarget
  BY DEF ExclInv
<1> QED
  BY <1>1, ExclInvHolds, PTL

\* approval_has_blocking_binding makes a grant single-use.
THEOREM ExclusiveSingleUse == ASSUME Exclusive PROVE Spec => []SingleUse
<1>1. ExclInv => SingleUse
  BY DEF ExclInv
<1> QED
  BY <1>1, ExclInvHolds, PTL

\* An approval that was revoked, expired or consumed keeps that status: no
\* command writes back what it read before a crash, a recovery or the clock.
THEOREM ExclusiveApprovalFinal ==
    ASSUME Exclusive PROVE Spec => ApprovalTerminalIsFinal
<1>1. TypeInv /\ ExclInv /\ [Next]_vars
      => [\A a \in Approvals : approval[a] \in ApprovalTerminal
                               => approval'[a] = approval[a]]_vars
  BY NextApprovals DEF ApprovalStep, ApprovalTerminal
<1> QED
  BY <1>1, TypeInvHolds, ExclInvHolds, PTL DEF Spec, ApprovalTerminalIsFinal

\* A binding that ended is never rewritten by enforcement or recovery.
THEOREM ExclusiveBindingFinal ==
    ASSUME Exclusive PROVE Spec => BindingTerminalIsFinal
<1>1. TypeInv /\ ExclInv /\ [Next]_vars
      => [\A b \in Bindings : bstatus[b] \in BindingTerminal
                              => bstatus'[b] = bstatus[b]]_vars
  <2> SUFFICES ASSUME TypeInv, ExclInv, [Next]_vars, NEW b \in Bindings,
                      bstatus[b] \in BindingTerminal
               PROVE  bstatus'[b] = bstatus[b]
    OBVIOUS
  <2>1. BindingsStep /\ bstatus \in [Bindings -> BindingStatus]
    BY NextBindings DEF TypeInv, StoreInv, StoreType
  <2> QED
    BY <2>1 DEF BindingsStep, BindingStep, BindingTransition, BindingTerminal
<1> QED
  BY <1>1, TypeInvHolds, ExclInvHolds, PTL DEF Spec, BindingTerminalIsFinal
-----------------------------------------------------------------------------
(***************************************************************************)
(* What enforcement relies on, and the accounts of a grant.                *)
(***************************************************************************)

\* The place a command is at, or goes on to once an expiry is persisted, and the
\* status of its approval there.
Stage(place, l) == IF place = "persist" THEN l.ret ELSE place
Standing(place, l, ap) == IF place = "persist" THEN "expired" ELSE ap[l.a]

\* The places of enforcement before and after the binding is settled.
Judging == {"checkpoint", "authority", "scope", "classify", "reload", "settle"}
Settled == {"consequence", "consume", "exception", "exception.reload", "receipt"}
Revoking == {"revoke", "revoke.approval"}

\* What a command knows of its approval and its binding: the approval is there,
\* and the binding is one of that approval.
Knows(place, l, ap, ba) ==
    /\ place \notin {"idle", "mint"} => ap[l.a] # "none"
    /\ l.b \in Bindings => ba[l.b] = l.a

\* What was judged fits what is reported: without changes there is no mutation.
Honest(l) == l.compliance = "no_mutation" => l.changed = {}

\* What enforcement relies on at stage at, when its approval stands at st.
Enforces(at, l, st, bs) ==
    /\ at \in Judging \cup Settled => l.op = "enforce" /\ l.bst = bs[l.b]
    /\ at = "authority" => l.bst \in Live
    /\ at \in {"scope", "classify"} /\ l.stop = "none" => l.bst \in Live
    /\ at \in {"reload", "settle"} => Honest(l) /\ (~l.failed => l.bst \in Live)
    /\ at \in {"settle", "consequence", "consume", "receipt"} => l.seen = st
    /\ at \in Settled => Honest(l) /\ l.bst \in BindingTerminal
    /\ at \in {"consequence", "consume"} =>
         /\ l.err = "exception"
         /\ l.compliance = "within_scope" /\ ~l.failed => l.bst = "completed"
    /\ at \in Revoking =>
         \/ l.op # "enforce" /\ l.err = "idle"
         \/ /\ l.op = "enforce" /\ l.bst = bs[l.b] /\ l.bst \in BindingTerminal
            /\ l.err = "exception" /\ l.compliance = "scope_exceeded"
    /\ at \in {"exception", "exception.reload"} => st \in ApprovalTerminal
    /\ at = "exception.reload" => l.failed
    /\ at = "receipt" =>
         /\ l.changed # {} /\ l.compliance # "base_sha_mismatch"
            => st \in ApprovalTerminal
         /\ l.compliance = "within_scope" /\ ~l.failed
            => l.bst = "completed" /\ st = "consumed"

\* A transition is the last of its command that can be refused, or the one that
\* settles the binding, which never is.
Settles(place, l, ap, bs) ==
    place \in {"transition", "transition.write"} =>
      \/ l.ret \notin Settled /\ l.err = "idle"
      \/ /\ l.ret = "consequence" /\ l.op = "enforce" /\ l.err = "exception"
         /\ l.bst = bs[l.b] /\ l.bst \in Live /\ l.want \in BindingTerminal
         /\ l.seen = ap[l.a] /\ Honest(l)
         /\ l.compliance = "within_scope" /\ ~l.failed => l.want = "completed"

Accounts(place, l, ap, bs, ba) ==
    /\ Knows(place, l, ap, ba)
    /\ Enforces(Stage(place, l), l, Standing(place, l, ap), bs)
    /\ Settles(place, l, ap, bs)

AllAccount == \A p \in Procs : Accounts(pc[p], loc[p], approval, bstatus, bapproval)

\* Only a minted grant lapses or is bound.
Minted ==
    /\ \A a \in lapsed : approval[a] # "none"
    /\ \A b \in Bindings : bstatus[b] # "none" => approval[bapproval[b]] # "none"

\* The inductive invariant behind the accounts of a grant.
GrantInv == AllAccount /\ Minted /\ GrantAccounted

\* A step deletes no approval and gives no binding to another one.
Forward ==
    /\ \A a \in Approvals : approval[a] # "none" => approval'[a] # "none"
    /\ \A b \in Bindings : bstatus[b] # "none" => bapproval'[b] = bapproval[b]

LEMMA NextForward ==
    ASSUME TypeInv, ExclInv, [Next]_vars
    PROVE  Forward
<1>1. \A a \in Approvals : approval[a] # "none" => approval'[a] # "none"
  BY NextApprovals DEF ApprovalStep, ApprovalTerminal
<1>2. bapproval \in [Bindings -> Approvals \cup {NoApproval}]
  BY DEF TypeInv, StoreInv, StoreType
<1>3. \A b \in Bindings : bstatus[b] # "none" => bapproval'[b] = bapproval[b]
  BY <1>2, NextBindings DEF BindingsStep, BindingStep
<1> QED
  BY <1>1, <1>3 DEF Forward

\* What a step of a process starts from.
Ready == TypeInv /\ ExclInv /\ AllAccount /\ Minted /\ Forward

LEMMA ReadyAt ==
    ASSUME Ready, NEW p \in Procs
    PROVE  /\ loc[p] \in Local /\ pc[p] \in Places /\ CtlType /\ StoreType
           /\ Accounts(pc[p], loc[p], approval, bstatus, bapproval)
           /\ Fresh(pc[p], loc[p], approval, bstatus, bapproval)
           /\ WellPlaced(pc[p], loc[p], bstatus, revocations)
           /\ pc[p] \notin Rest => OthersRest(p)
           /\ Exclusive /\ MayBegin(p) => OthersRest(p)
<1>1. TypeInv /\ ExclInv
  BY DEF Ready
<1>2. Accounts(pc[p], loc[p], approval, bstatus, bapproval)
  BY DEF Ready, AllAccount
<1>3. pc[p] \notin Rest => OthersRest(p)
  BY <1>1, AloneAt DEF Alone
<1>4. Exclusive /\ MayBegin(p) => OthersRest(p)
  BY DEF MayBegin, OthersRest
<1> QED
  BY <1>1, <1>2, <1>3, <1>4, AloneAt, PlacedAt DEF WellPlaced

\* Places at which a command holds nothing of what enforcement relies on.
Plain == Places \ (Judging \cup Settled \cup Revoking
                   \cup {"persist", "transition", "transition.write"})

LEMMA PlainAccounts ==
    ASSUME NEW place \in Plain, NEW l, NEW ap, NEW bs, NEW ba,
           Knows(place, l, ap, ba)
    PROVE  Accounts(place, l, ap, bs, ba)
<1>1. Stage(place, l) = place /\ Standing(place, l, ap) = ap[l.a]
  BY DEF Plain, Stage, Standing
<1>2. Enforces(place, l, ap[l.a], bs)
  BY DEF Plain, Enforces, Judging, Settled, Revoking
<1>3. Settles(place, l, ap, bs)
  BY DEF Plain, Settles
<1> QED
  BY <1>1, <1>2, <1>3 DEF Accounts

LEMMA IdleAccounts == \A ap, bs, ba : Accounts("idle", Idle, ap, bs, ba)
<1> SUFFICES ASSUME NEW ap, NEW bs, NEW ba
             PROVE  Accounts("idle", Idle, ap, bs, ba)
  OBVIOUS
<1>1. "idle" \in Plain
  BY DEF Plain, Places, Judging, Settled, Revoking
<1>2. Knows("idle", Idle, ap, ba)
  BY ConstantsAssumption DEF Knows, Idle
<1> QED
  BY <1>1, <1>2, PlainAccounts

\* A process at rest still knows what it knew.
LEMMA RestKnows ==
    ASSUME Ready, NEW q \in Procs, pc[q] \in Rest
    PROVE  Accounts(pc[q], loc[q], approval', bstatus', bapproval')
<1>1. /\ Knows(pc[q], loc[q], approval, bapproval) /\ pc[q] \in Plain
      /\ WellPlaced(pc[q], loc[q], bstatus, revocations)
  BY ReadyAt DEF Accounts, Plain, Places, Rest, Judging, Settled, Revoking
<1>2. Knows(pc[q], loc[q], approval', bapproval')
  BY <1>1 DEF Knows, WellPlaced, Ready, Forward
<1> QED
  BY <1>1, <1>2, PlainAccounts

\* The one command under way moves on.
LEMMA AccountMove ==
    ASSUME Ready, NEW p \in Procs, OthersRest(p), NEW place, NEW l,
           Accounts(place, l, approval', bstatus', bapproval'),
           pc' = [pc EXCEPT ![p] = place], loc' = [loc EXCEPT ![p] = l]
    PROVE  AllAccount'
<1>1. /\ pc'[p] = place /\ loc'[p] = l
      /\ \A q \in Procs \ {p} : /\ pc'[q] = pc[q] /\ loc'[q] = loc[q]
                                /\ pc[q] \in Rest
  BY DEF Ready, TypeInv, CtlType, OthersRest
<1>2. ASSUME NEW q \in Procs
      PROVE  Accounts(pc'[q], loc'[q], approval', bstatus', bapproval')
  <2>1. CASE q = p
    BY <1>1, <2>1
  <2>2. CASE q # p
    BY <1>1, <2>2, RestKnows
  <2> QED
    BY <2>1, <2>2
<1> QED
  BY <1>2 DEF AllAccount

LEMMA AccountExit ==
    ASSUME Ready, NEW p \in Procs, OthersRest(p), Exit(p)
    PROVE  AllAccount'
BY IdleAccounts, AccountMove DEF Exit, Goto, Remember

\* A command that forgets or remembers something else keeps these.
Same(m, l) ==
    /\ m.a = l.a /\ m.b = l.b /\ m.op = l.op /\ m.bst = l.bst
    /\ m.err = l.err /\ m.changed = l.changed /\ m.failed = l.failed
    /\ m.stop = l.stop /\ m.compliance = l.compliance

\* A load arrives at next, perhaps by way of "persist", with the status of the
\* approval as it will be there.
LEMMA LoadArrives ==
    ASSUME NEW p \in Procs, NEW l \in Local, NEW next,
           next \notin {"persist", "transition", "transition.write"},
           LoadApproval(p, l, next)
    PROVE  \E place, m :
             /\ pc' = [pc EXCEPT ![p] = place] /\ loc' = [loc EXCEPT ![p] = m]
             /\ place \in {"persist", next} /\ Stage(place, m) = next
             /\ Same(m, l) /\ Standing(place, m, approval) = m.seen
             /\ \/ m.seen = approval[l.a]
                \/ m.seen = "expired" /\ approval[l.a] = "approved"
<1>1. CASE approval[l.a] = "approved" /\ l.a \in lapsed
  <2> DEFINE m == [l EXCEPT !.seen = "expired", !.ret = next]
  <2>1. Same(m, l) /\ m.ret = next /\ m.seen = "expired"
    BY DEF Local, Same
  <2>2. pc' = [pc EXCEPT ![p] = "persist"] /\ loc' = [loc EXCEPT ![p] = m]
    BY <1>1 DEF LoadApproval, Goto, Remember
  <2> HIDE DEF m
  <2> QED
    BY <1>1, <2>1, <2>2 DEF Stage, Standing
<1>2. CASE ~(approval[l.a] = "approved" /\ l.a \in lapsed)
  <2> DEFINE m == [l EXCEPT !.seen = approval[l.a]]
  <2>1. Same(m, l) /\ m.seen = approval[l.a]
    BY DEF Local, Same
  <2>2. pc' = [pc EXCEPT ![p] = next] /\ loc' = [loc EXCEPT ![p] = m]
    BY <1>2 DEF LoadApproval, Goto, Remember
  <2> HIDE DEF m
  <2> QED
    BY <2>1, <2>2 DEF Stage, Standing, Same
<1> QED
  BY <1>1, <1>2

\* The accounts of a command that has arrived.
LEMMA ArrivedAccounts ==
    ASSUME NEW place, NEW m, NEW l, NEW next, NEW ap, NEW bs, NEW ba,
           place \in {"persist", next}, Stage(place, m) = next, Same(m, l),
           next \notin {"transition", "transition.write"},
           ap[l.a] # "none", l.b \in Bindings => ba[l.b] = l.a,
           Enforces(next, m, Standing(place, m, ap), bs)
    PROVE  Accounts(place, m, ap, bs, ba)
<1>1. Knows(place, m, ap, ba)
  BY DEF Knows, Same
<1>2. Settles(place, m, ap, bs)
  BY DEF Settles
<1> QED
  BY <1>1, <1>2 DEF Accounts

LEMMA PlainEnforces ==
    ASSUME NEW at \in Plain, NEW l, NEW st, NEW bs
    PROVE  Enforces(at, l, st, bs)
BY DEF Plain, Enforces, Judging, Settled, Revoking

\* A load on the way to a plain place.
LEMMA AccountLoadPlain ==
    ASSUME Ready, NEW p \in Procs, OthersRest(p), NEW l \in Local,
           NEW next \in Plain, LoadApproval(p, l, next),
           approval[l.a] # "none", l.b \in Bindings => bapproval[l.b] = l.a,
           UNCHANGED <<approval, bstatus, bapproval>>
    PROVE  AllAccount'
<1>1. next \notin {"persist", "transition", "transition.write"}
  BY DEF Plain
<1>2. PICK place, m :
             /\ pc' = [pc EXCEPT ![p] = place] /\ loc' = [loc EXCEPT ![p] = m]
             /\ place \in {"persist", next} /\ Stage(place, m) = next
             /\ Same(m, l)
  BY <1>1, LoadArrives
<1>3. Enforces(next, m, Standing(place, m, approval'), bstatus')
  BY PlainEnforces
<1>4. Accounts(place, m, approval', bstatus', bapproval')
  BY <1>1, <1>2, <1>3, ArrivedAccounts
<1> QED
  BY <1>2, <1>4, AccountMove

\* The scope roots are loaded on the way to classify or to git.
LEMMA RootsArrive ==
    ASSUME NEW p \in Procs, NEW l \in Local, NEW next,
           next \notin {"persist", "transition", "transition.write"},
           LoadScopeRoots(p, l, next)
    PROVE  \E place, m :
             /\ pc' = [pc EXCEPT ![p] = place] /\ loc' = [loc EXCEPT ![p] = m]
             /\ place \in {"persist", next} /\ Stage(place, m) = next
             /\ Same(m, l)
<1>1. CASE approval[l.a] = "approved" /\ l.a \in lapsed
  <2> DEFINE m == [l EXCEPT !.ret = next]
  <2>1. Same(m, l) /\ m.ret = next
    BY DEF Local, Same
  <2>2. pc' = [pc EXCEPT ![p] = "persist"] /\ loc' = [loc EXCEPT ![p] = m]
    BY <1>1 DEF LoadScopeRoots, Goto, Remember
  <2> HIDE DEF m
  <2> QED
    BY <2>1, <2>2 DEF Stage
<1>2. CASE ~(approval[l.a] = "approved" /\ l.a \in lapsed)
  <2>1. pc' = [pc EXCEPT ![p] = next] /\ loc' = [loc EXCEPT ![p] = l]
    BY <1>2 DEF LoadScopeRoots, Goto, Remember
  <2> QED
    BY <2>1 DEF Stage, Same
<1> QED
  BY <1>1, <1>2

\* A subroutine returns or raises.
LEMMA AccountResume ==
    ASSUME Ready, NEW p \in Procs, OthersRest(p), NEW l \in Local, NEW place,
           place \notin {"persist", "transition", "transition.write"},
           Resume(p, l, place),
           approval'[l.a] # "none", l.b \in Bindings => bapproval'[l.b] = l.a,
           \A m : Same(m, l) /\ m.seen = l.seen
                  => Enforces(place, m, approval'[l.a], bstatus')
    PROVE  AllAccount'
<1>1. CASE place = "idle"
  BY <1>1, AccountExit DEF Resume
<1>2. CASE place # "idle"
  <2> DEFINE m == [l EXCEPT !.want = "none", !.ret = "idle"]
  <2>1. Same(m, l) /\ m.seen = l.seen
    BY DEF Local, Same
  <2>2. pc' = [pc EXCEPT ![p] = place] /\ loc' = [loc EXCEPT ![p] = m]
    BY <1>2 DEF Resume, Goto, Remember
  <2> HIDE DEF m
  <2>3. Stage(place, m) = place /\ Standing(place, m, approval') = approval'[l.a]
    BY <2>1 DEF Stage, Standing, Same
  <2>4. Accounts(place, m, approval', bstatus', bapproval')
    BY <2>1, <2>3, ArrivedAccounts
  <2> QED
    BY <2>2, <2>4, AccountMove
<1> QED
  BY <1>1, <1>2

\* A transition is started that may be refused.
LEMMA AccountStart ==
    ASSUME Ready, NEW p \in Procs, OthersRest(p), NEW l \in Local, NEW to,
           NEW ret, ret \notin Settled, StartTransition(p, l, to, ret, "idle"),
           approval[l.a] # "none", l.b \in Bindings => bapproval[l.b] = l.a,
           UNCHANGED <<approval, bstatus, bapproval>>
    PROVE  AllAccount'
<1> DEFINE m == [l EXCEPT !.want = to, !.ret = ret, !.err = "idle"]
<1>1. m.a = l.a /\ m.b = l.b /\ m.ret = ret /\ m.err = "idle"
  BY DEF Local
<1>2. pc' = [pc EXCEPT ![p] = "transition"] /\ loc' = [loc EXCEPT ![p] = m]
  BY DEF StartTransition, Goto, Remember
<1> HIDE DEF m
<1>3. Knows("transition", m, approval', bapproval')
  BY <1>1 DEF Knows
<1>4. Enforces("transition", m, Standing("transition", m, approval'), bstatus')
  BY DEF Enforces, Judging, Settled, Revoking
<1>5. Settles("transition", m, approval', bstatus')
  BY <1>1 DEF Settles
<1>6. Accounts("transition", m, approval', bstatus', bapproval')
  BY <1>3, <1>4, <1>5 DEF Accounts, Stage
<1> QED
  BY <1>2, <1>6, AccountMove

LEMMA CommandAccounts ==
    ASSUME Exclusive, Ready, NEW p \in Procs, Command(p)
    PROVE  AllAccount'
<1>0. UNCHANGED <<approval, bstatus, bapproval>>
  BY DEF Command, ApproveCheck, ReadApproval, RevokeBegin, BindBegin,
         RecoverBegin, store, bindings
<1>1. ASSUME NEW a \in Approvals, ApproveCheck(p, a)  PROVE AllAccount'
  <2> DEFINE m == [Idle EXCEPT !.op = "approve", !.a = a]
  <2>1. /\ OthersRest(p)
        /\ pc' = [pc EXCEPT ![p] = "mint"] /\ loc' = [loc EXCEPT ![p] = m]
    BY <1>1, ReadyAt DEF ApproveCheck, Goto, Remember
  <2>2. m.b \notin Bindings
    BY FreshLocals DEF Ops
  <2> HIDE DEF m
  <2>3. Accounts("mint", m, approval', bstatus', bapproval')
    BY <2>2, PlainAccounts
    DEF Knows, Plain, Places, Judging, Settled, Revoking
  <2> QED
    BY <2>1, <2>3, AccountMove
<1>2. ASSUME NEW a \in Approvals, NEW op \in Ops, NEW next \in Plain,
             MayBegin(p), approval[a] # "none",
             LoadApproval(p, [Idle EXCEPT !.op = op, !.a = a], next)
      PROVE  AllAccount'
  <2> DEFINE m == [Idle EXCEPT !.op = op, !.a = a]
  <2>1. OthersRest(p) /\ LoadApproval(p, m, next)
    BY <1>2, ReadyAt
  <2>2. m \in Local /\ m.a = a /\ m.b \notin Bindings
    BY FreshLocals
  <2> HIDE DEF m
  <2> QED
    BY <1>0, <1>2, <2>1, <2>2, AccountLoadPlain
<1>3. ASSUME NEW a \in Approvals, ReadApproval(p, a)  PROVE AllAccount'
  <2>1. /\ MayBegin(p) /\ approval[a] # "none"
        /\ LoadApproval(p, [Idle EXCEPT !.op = "read", !.a = a], "idle")
    BY <1>3 DEF ReadApproval
  <2> QED
    BY <1>2, <2>1 DEF Ops, Plain, Places, Judging, Settled, Revoking
<1>4. ASSUME NEW a \in Approvals, BindBegin(p, a)  PROVE AllAccount'
  <2>1. /\ MayBegin(p) /\ approval[a] # "none"
        /\ LoadApproval(p, [Idle EXCEPT !.op = "run", !.a = a], "bind")
    BY <1>4 DEF BindBegin
  <2> QED
    BY <1>2, <2>1 DEF Ops, Plain, Places, Judging, Settled, Revoking
<1>5. ASSUME NEW a \in Approvals, RevokeBegin(p, a)  PROVE AllAccount'
  <2> DEFINE l == [Idle EXCEPT !.op = "revoke", !.a = a]
  <2>1. OthersRest(p) /\ approval[a] # "none" /\ LoadApproval(p, l, "revoke")
    BY <1>5, ReadyAt DEF RevokeBegin
  <2>2. /\ l \in Local /\ l.a = a /\ l.b \notin Bindings
        /\ l.op = "revoke" /\ l.err = "idle"
    <3>1. "revoke" \in Ops
      BY DEF Ops
    <3> QED
      BY <3>1, FreshLocals
  <2> HIDE DEF l
  <2>3. PICK place, m :
             /\ pc' = [pc EXCEPT ![p] = place] /\ loc' = [loc EXCEPT ![p] = m]
             /\ place \in {"persist", "revoke"} /\ Stage(place, m) = "revoke"
             /\ Same(m, l)
    BY <2>1, <2>2, LoadArrives
  <2>4. Enforces("revoke", m, Standing(place, m, approval'), bstatus')
    BY <2>2, <2>3 DEF Enforces, Same, Judging, Settled, Revoking
  <2>5. Accounts(place, m, approval', bstatus', bapproval')
    BY <1>0, <2>1, <2>2, <2>3, <2>4, ArrivedAccounts
  <2> QED
    BY <2>1, <2>3, <2>5, AccountMove
<1>6. ASSUME NEW b \in Bindings, NEW d \in Decisions, RecoverBegin(p, b, d)
      PROVE  AllAccount'
  <2> DEFINE m == [Idle EXCEPT !.op = "recover", !.a = bapproval[b],
                               !.b = b, !.decision = d]
  <2>1. /\ OthersRest(p) /\ bstatus[b] # "none"
        /\ LoadApproval(p, m, "diagnose")
    BY <1>6, ReadyAt DEF RecoverBegin, Live
  <2>2. bapproval[b] \in Approvals /\ approval[bapproval[b]] # "none"
    BY <2>1 DEF Ready, TypeInv, StoreInv, BindingInv, Minted
  <2>3. m \in Local /\ m.a = bapproval[b] /\ m.b = b
    BY <2>2, ConstantsAssumption
    DEF Idle, Local, Places, Ops, ApprovalStatus, BindingStatus, Live, Stops,
        Compliance, Decisions
  <2>4. "diagnose" \in Plain
    BY DEF Plain, Places, Judging, Settled, Revoking
  <2> HIDE DEF m
  <2> QED
    BY <1>0, <2>1, <2>2, <2>3, <2>4, AccountLoadPlain
<1> QED
  BY <1>1, <1>3, <1>4, <1>5, <1>6 DEF Command

LEMMA EndWorkAccounts ==
    ASSUME Exclusive, Ready, NEW p \in Procs, EndWork(p)
    PROVE  AllAccount'
<1> DEFINE l == loc[p]
<1>0. /\ UNCHANGED <<approval, bstatus, bapproval>> /\ pc[p] = "working"
      /\ OthersRest(p)
  BY ReadyAt DEF EndWork, FinalizeFailed, EnforceBegin, store, bindings
<1>1. /\ l \in Local /\ approval[l.a] # "none"
      /\ l.b \in Bindings /\ bapproval[l.b] = l.a
  BY <1>0, ReadyAt
  DEF Accounts, Knows, WellPlaced, NeedsBinding, BindingPlaces, Places
<1>2. CASE FinalizeFailed(p)
  <2> DEFINE m == [l EXCEPT !.op = "finalize"]
  <2>1. StartTransition(p, m, "failed", "idle", "idle")
    BY <1>2 DEF FinalizeFailed
  <2>2. m \in Local /\ m.a = l.a /\ m.b = l.b
    BY <1>1 DEF Local, Ops
  <2> HIDE DEF m, l
  <2> QED
    BY <1>0, <1>1, <2>1, <2>2, AccountStart DEF Settled
<1>3. ASSUME NEW changed \in SUBSET Paths, NEW failed \in BOOLEAN,
             EnforceBegin(p, changed, failed)
      PROVE  AllAccount'
  <2> DEFINE m == [l EXCEPT !.op = "enforce", !.changed = changed,
                            !.failed = failed, !.bst = bstatus[l.b]]
  <2>1. pc' = [pc EXCEPT ![p] = "checkpoint"] /\ loc' = [loc EXCEPT ![p] = m]
    BY <1>3 DEF EnforceBegin, Goto, Remember
  <2>2. m.a = l.a /\ m.b = l.b /\ m.op = "enforce" /\ m.bst = bstatus[l.b]
    BY <1>1 DEF Local
  <2> HIDE DEF m, l
  <2>3. Enforces("checkpoint", m, Standing("checkpoint", m, approval'), bstatus')
    BY <1>0, <2>2 DEF Enforces, Judging, Settled, Revoking
  <2>4. Accounts("checkpoint", m, approval', bstatus', bapproval')
    BY <1>0, <1>1, <2>2, <2>3 DEF Accounts, Knows, Settles, Stage
  <2> QED
    BY <1>0, <2>1, <2>4, AccountMove
<1> QED
  BY <1>2, <1>3 DEF EndWork

\* A command that is not at rest, and what it relies on where it stands.
LEMMA UnderWay ==
    ASSUME Ready, NEW p \in Procs, pc[p] \notin Rest, pc[p] # "persist"
    PROVE  /\ OthersRest(p) /\ loc[p] \in Local /\ loc[p].a \in Approvals
           /\ pc[p] # "mint" => approval[loc[p].a] # "none"
           /\ loc[p].b \in Bindings => bapproval[loc[p].b] = loc[p].a
           /\ Enforces(pc[p], loc[p], approval[loc[p].a], bstatus)
           /\ Settles(pc[p], loc[p], approval, bstatus)
BY ReadyAt DEF Accounts, Knows, Stage, Standing, Rest, WellPlaced

LEMMA PersistAccounts ==
    ASSUME Ready, NEW p \in Procs, PersistExpiry(p)
    PROVE  AllAccount'
<1> DEFINE l == loc[p]
<1>1. /\ pc[p] = "persist" /\ Resume(p, l, l.ret)
      /\ approval' = [approval EXCEPT ![l.a] = "expired"]
      /\ UNCHANGED <<bstatus, bapproval>>
  BY DEF PersistExpiry, Return, bindings
<1>2. /\ OthersRest(p) /\ l \in Local /\ l.a \in Approvals
      /\ l.b \in Bindings => bapproval[l.b] = l.a
      /\ Enforces(l.ret, l, "expired", bstatus)
  BY <1>1, ReadyAt DEF Accounts, Knows, Stage, Standing, Rest, WellPlaced
<1>3. approval'[l.a] = "expired"
  BY <1>1, <1>2, ReadyAt DEF StoreType
<1>4. l.ret \notin {"persist", "transition", "transition.write"}
  BY <1>1, ReadyAt DEF Fresh, LoadPlaces
<1>5. ASSUME NEW m, Same(m, l), m.seen = l.seen
      PROVE  Enforces(l.ret, m, approval'[l.a], bstatus')
  BY <1>1, <1>2, <1>3, <1>5 DEF Same, Enforces, Honest
<1> HIDE DEF l
<1> QED
  BY <1>1, <1>2, <1>3, <1>4, <1>5, AccountResume

LEMMA TransitionAccounts ==
    ASSUME Ready, NEW p \in Procs, TransitionRead(p) \/ TransitionWrite(p)
    PROVE  AllAccount'
<1> DEFINE l == loc[p]
<1>0. pc[p] \in {"transition", "transition.write"}
  BY DEF TransitionRead, TransitionWrite
<1>1. /\ OthersRest(p) /\ l \in Local /\ approval[l.a] # "none"
      /\ l.b \in Bindings /\ bapproval[l.b] = l.a /\ bstatus[l.b] # "none"
      /\ Settles(pc[p], l, approval, bstatus)
  BY <1>0, UnderWay, ReadyAt
  DEF Rest, WellPlaced, NeedsBinding, BindingPlaces, Places
<1>2. CASE TransitionRead(p)
  <2>1. UNCHANGED <<approval, bstatus, bapproval>> /\ pc[p] = "transition"
    BY <1>2 DEF TransitionRead, store, bindings
  <2>2. CASE BindingTransition(bstatus[l.b], l.want)
    <3>1. /\ pc' = [pc EXCEPT ![p] = "transition.write"]
          /\ loc' = [loc EXCEPT ![p] = l]
      BY <1>2, <2>2, ReadyAt DEF TransitionRead, Goto, CtlType
    <3>2. Settles("transition.write", l, approval', bstatus')
      BY <1>1, <2>1 DEF Settles
    <3>3. Enforces("transition.write", l,
                   Standing("transition.write", l, approval'), bstatus')
      BY DEF Enforces, Judging, Settled, Revoking
    <3>4. Accounts("transition.write", l, approval', bstatus', bapproval')
      BY <1>1, <2>1, <3>2, <3>3 DEF Accounts, Knows, Stage
    <3> QED
      BY <1>1, <3>1, <3>4, AccountMove
  <2>3. CASE ~BindingTransition(bstatus[l.b], l.want)
    <3>1. l.err = "idle"
      BY <1>1, <2>1, <2>3
      DEF Settles, BindingTransition, Live, BindingTerminal
    <3>2. Exit(p)
      BY <1>2, <2>3, <3>1 DEF TransitionRead, Raise, Resume
    <3> QED
      BY <1>1, <3>2, AccountExit
  <2> QED
    BY <2>2, <2>3
<1>3. CASE TransitionWrite(p)
  <2> DEFINE k == [l EXCEPT !.bst = l.want]
  <2>1. /\ pc[p] = "transition.write" /\ Resume(p, k, k.ret)
        /\ bstatus' = [bstatus EXCEPT ![l.b] = l.want]
        /\ UNCHANGED <<approval, bapproval>>
    BY <1>3 DEF TransitionWrite, Return
  <2>2. /\ k.a = l.a /\ k.b = l.b /\ k.op = l.op /\ k.bst = l.want
        /\ k.err = l.err /\ k.changed = l.changed /\ k.failed = l.failed
        /\ k.compliance = l.compliance /\ k.seen = l.seen /\ k.ret = l.ret
        /\ k \in Local
    BY <1>1 DEF Local
  <2>3. bstatus'[l.b] = l.want
    BY <1>1, <2>1, ReadyAt DEF StoreType
  <2>4. l.ret \in TransitionReturns
    BY <2>1, ReadyAt DEF Fresh
  <2> HIDE DEF k
  <2>5. CASE l.ret \notin Settled /\ l.err = "idle"
    <3>1. l.ret \in Plain
      BY <2>4, <2>5
      DEF TransitionReturns, Settled, Plain, Places, Judging, Revoking
    <3>2. l.ret \notin {"persist", "transition", "transition.write"}
      BY <3>1 DEF Plain
    <3>3. ASSUME NEW m PROVE Enforces(l.ret, m, approval'[l.a], bstatus')
      BY <3>1, PlainEnforces
    <3> QED
      BY <1>1, <2>1, <2>2, <3>2, <3>3, AccountResume
  <2>6. CASE ~(l.ret \notin Settled /\ l.err = "idle")
    <3>1. /\ l.ret = "consequence" /\ l.op = "enforce" /\ l.err = "exception"
          /\ l.want \in BindingTerminal /\ l.seen = approval[l.a] /\ Honest(l)
          /\ l.compliance = "within_scope" /\ ~l.failed => l.want = "completed"
      BY <1>1, <2>1, <2>6 DEF Settles
    <3>2. ASSUME NEW m, Same(m, k), m.seen = k.seen
          PROVE  Enforces("consequence", m, approval'[k.a], bstatus')
      BY <2>1, <2>2, <2>3, <3>1, <3>2
      DEF Same, Enforces, Honest, Judging, Settled, Revoking
    <3> QED
      BY <1>1, <2>1, <2>2, <3>1, <3>2, AccountResume
  <2> QED
    BY <2>5, <2>6
<1> QED
  BY <1>2, <1>3

LEMMA GrantAccounts ==
    ASSUME Ready, NEW p \in Procs,
           \/ ApproveWrite(p) \/ RevokeAgain(p) \/ RevokeRefused(p)
           \/ RevokeWriteRevocation(p) \/ RevokeWriteApproval(p)
    PROVE  AllAccount'
<1> DEFINE l == loc[p]
<1>0. pc[p] \in {"mint", "revoke", "revoke.approval"}
  BY DEF ApproveWrite, RevokeAgain, RevokeRefused, RevokeWriteRevocation,
         RevokeWriteApproval
<1>1. /\ OthersRest(p) /\ l \in Local /\ l.a \in Approvals
      /\ pc[p] # "mint" => approval[l.a] # "none"
      /\ l.b \in Bindings => bapproval[l.b] = l.a
      /\ Enforces(pc[p], l, approval[l.a], bstatus)
      /\ Fresh(pc[p], l, approval, bstatus, bapproval)
  BY <1>0, UnderWay, ReadyAt DEF Rest
<1>2. CASE ApproveWrite(p)
  BY <1>1, <1>2, AccountExit DEF ApproveWrite
\* Enforcement goes on to the receipt with k, an operator is done.
<1>3. ASSUME NEW k, Same(k, l), pc[p] \in Revoking, AfterRevoke(p, k),
             k.seen = approval'[l.a], k.seen = "revoked",
             UNCHANGED <<bstatus, bapproval>>
      PROVE  AllAccount'
  <2>1. CASE l.op # "enforce"
    BY <1>1, <1>3, <2>1, AccountExit DEF AfterRevoke, Same
  <2>2. CASE l.op = "enforce"
    <3>1. pc' = [pc EXCEPT ![p] = "receipt"] /\ loc' = [loc EXCEPT ![p] = k]
      BY <1>3, <2>2 DEF AfterRevoke, Same, Goto, Remember
    <3>2. /\ l.bst = bstatus[l.b] /\ l.bst \in BindingTerminal
          /\ l.compliance = "scope_exceeded"
      BY <1>1, <1>3, <2>2 DEF Enforces
    <3>3. Enforces("receipt", k, "revoked", bstatus')
      BY <1>3, <2>2, <3>2
      DEF Enforces, Same, Honest, Judging, Settled, Revoking, ApprovalTerminal
    <3>4. Stage("receipt", k) = "receipt"
          /\ Standing("receipt", k, approval') = "revoked"
      BY <1>3 DEF Stage, Standing, Same
    <3>5. Accounts("receipt", k, approval', bstatus', bapproval')
      BY <1>1, <1>3, <3>3, <3>4 DEF Accounts, Knows, Settles, Same
    <3> QED
      BY <1>1, <3>1, <3>5, AccountMove
  <2> QED
    BY <2>1, <2>2
<1>4. CASE RevokeAgain(p)
  <2>1. /\ pc[p] \in Revoking /\ l.seen = "revoked" /\ AfterRevoke(p, l)
        /\ approval' = approval /\ UNCHANGED <<bstatus, bapproval>>
        /\ approval[l.a] = "revoked"
    BY <1>1, <1>4 DEF RevokeAgain, Revoking, store, bindings, Fresh
  <2> QED
    BY <1>3, <2>1 DEF Same
<1>5. CASE RevokeRefused(p)
  <2>1. /\ pc[p] = "revoke" /\ l.seen \in {"expired", "consumed"}
        /\ Resume(p, l, l.err) /\ UNCHANGED <<approval, bstatus, bapproval>>
    BY <1>5 DEF RevokeRefused, Raise, store, bindings
  <2>2. approval[l.a] \in ApprovalTerminal
    BY <1>1, <2>1 DEF Fresh, ApprovalTerminal
  <2>3. CASE l.op # "enforce"
    <3>1. l.err = "idle"
      BY <1>1, <2>1, <2>3 DEF Enforces, Revoking
    <3> QED
      BY <1>1, <2>1, <3>1, AccountExit DEF Resume
  <2>4. CASE l.op = "enforce"
    <3>1. /\ l.err = "exception" /\ l.bst = bstatus[l.b]
          /\ l.bst \in BindingTerminal /\ l.compliance = "scope_exceeded"
      BY <1>1, <2>1, <2>4 DEF Enforces, Revoking
    <3>2. ASSUME NEW m, Same(m, l), m.seen = l.seen
          PROVE  Enforces("exception", m, approval'[l.a], bstatus')
      BY <2>1, <2>2, <2>4, <3>1, <3>2
      DEF Enforces, Same, Honest, Judging, Settled, Revoking
    <3> HIDE DEF l
    <3> QED
      BY <1>0, <1>1, <2>1, <3>1, <3>2, AccountResume
  <2> QED
    BY <2>3, <2>4
<1>6. CASE RevokeWriteRevocation(p)
  <2>1. /\ pc[p] = "revoke" /\ UNCHANGED <<approval, bstatus, bapproval>>
        /\ pc' = [pc EXCEPT ![p] = "revoke.approval"]
        /\ loc' = [loc EXCEPT ![p] = l]
    BY <1>6, ReadyAt DEF RevokeWriteRevocation, Goto, CtlType, bindings
  <2>2. Enforces("revoke.approval", l, approval'[l.a], bstatus')
    BY <1>1, <2>1 DEF Enforces, Judging, Settled, Revoking
  <2>3. Accounts("revoke.approval", l, approval', bstatus', bapproval')
    BY <1>1, <2>1, <2>2 DEF Accounts, Knows, Settles, Stage, Standing
  <2> QED
    BY <1>1, <2>1, <2>3, AccountMove
<1>7. CASE RevokeWriteApproval(p)
  <2> DEFINE k == [l EXCEPT !.seen = "revoked"]
  <2>1. /\ pc[p] \in Revoking /\ AfterRevoke(p, k)
        /\ approval'[l.a] = "revoked" /\ UNCHANGED <<bstatus, bapproval>>
    BY <1>1, <1>7, ReadyAt
    DEF RevokeWriteApproval, Revoking, bindings, StoreType
  <2>2. Same(k, l) /\ k.seen = "revoked"
    BY <1>1 DEF Local, Same
  <2> HIDE DEF k
  <2> QED
    BY <1>3, <2>1, <2>2
<1> QED
  BY <1>2, <1>4, <1>5, <1>6, <1>7

LEMMA BindAccounts ==
    ASSUME Ready, NEW p \in Procs,
           BindGate(p) \/ BindCheck(p) \/ \E b \in Bindings : BindSave(p, b)
    PROVE  AllAccount'
<1> DEFINE l == loc[p]
<1>0. pc[p] \in {"bind", "bind.check", "bind.save"}
  BY DEF BindGate, BindCheck, BindSave
<1>1. /\ OthersRest(p) /\ l \in Local /\ l.a \in Approvals
      /\ approval[l.a] # "none"
      /\ l.b \in Bindings => bapproval[l.b] = l.a
  BY <1>0, UnderWay DEF Rest
<1>2. CASE BindGate(p) \/ BindCheck(p)
  <2>1. /\ UNCHANGED <<approval, bstatus, bapproval>>
        /\ \/ Exit(p)
           \/ \E place \in {"bind.check", "bind.save"} :
                Goto(p, place) /\ UNCHANGED loc
    BY <1>2 DEF BindGate, BindCheck, Exit, Goto, store, bindings
  <2>2. CASE Exit(p)
    BY <1>1, <2>2, AccountExit
  <2>3. ASSUME NEW place \in {"bind.check", "bind.save"},
               Goto(p, place), UNCHANGED loc
        PROVE  AllAccount'
    <3>1. pc' = [pc EXCEPT ![p] = place] /\ loc' = [loc EXCEPT ![p] = l]
      BY <2>3, ReadyAt DEF Goto, CtlType
    <3>2. Accounts(place, l, approval', bstatus', bapproval')
      BY <1>1, <2>1, PlainAccounts
      DEF Knows, Plain, Places, Judging, Settled, Revoking
    <3> QED
      BY <1>1, <3>1, <3>2, AccountMove
  <2> QED
    BY <2>1, <2>2, <2>3
<1>3. ASSUME NEW b \in Bindings, BindSave(p, b)
      PROVE  AllAccount'
  <2> DEFINE m == [l EXCEPT !.b = b, !.bst = "active"]
  <2>1. /\ pc' = [pc EXCEPT ![p] = "working"] /\ loc' = [loc EXCEPT ![p] = m]
        /\ UNCHANGED approval /\ bapproval'[b] = l.a
    BY <1>3, ReadyAt DEF BindSave, Goto, Remember, StoreType
  <2>2. m.a = l.a /\ m.b = b
    BY <1>1 DEF Local
  <2> HIDE DEF m
  <2>3. Accounts("working", m, approval', bstatus', bapproval')
    BY <1>1, <2>1, <2>2, PlainAccounts
    DEF Knows, Plain, Places, Judging, Settled, Revoking
  <2> QED
    BY <1>1, <2>1, <2>3, AccountMove
<1> QED
  BY <1>2, <1>3

LEMMA JudgeAccounts ==
    ASSUME Ready, NEW p \in Procs,
           \/ Checkpoint(p) \/ Authority(p) \/ ScopeRoots(p)
           \/ \E kept \in SUBSET Paths : Classify(p, kept) \/ ClassifyRaises(p, kept)
           \/ Reload(p)
    PROVE  AllAccount'
<1> DEFINE l == loc[p]
<1>0. /\ pc[p] \in {"checkpoint", "authority", "scope", "classify", "reload"}
      /\ UNCHANGED <<approval, bstatus, bapproval>>
  BY DEF Checkpoint, Authority, ScopeRoots, Classify, ClassifyRaises, Reload,
         store, bindings
<1>1. /\ OthersRest(p) /\ l \in Local /\ l.a \in Approvals
      /\ approval[l.a] # "none"
      /\ l.b \in Bindings => bapproval[l.b] = l.a
      /\ Enforces(pc[p], l, approval[l.a], bstatus)
      /\ l.op = "enforce" /\ l.bst = bstatus[l.b]
  BY <1>0, UnderWay DEF Rest, Enforces, Judging
\* It moves on without a load.
<1>2. ASSUME NEW place \in {"scope", "reload"}, NEW m,
             pc' = [pc EXCEPT ![p] = place], loc' = [loc EXCEPT ![p] = m],
             m.a = l.a, m.b = l.b, Enforces(place, m, approval[l.a], bstatus)
      PROVE  AllAccount'
  <2>1. Stage(place, m) = place /\ Standing(place, m, approval') = approval[l.a]
    BY <1>0, <1>2 DEF Stage, Standing
  <2>2. Accounts(place, m, approval', bstatus', bapproval')
    BY <1>0, <1>1, <1>2, <2>1 DEF Accounts, Knows, Settles
  <2> QED
    BY <1>1, <1>2, <2>2, AccountMove
<1>3. CASE Checkpoint(p)
  <2>1. CASE l.bst \in Live
    <3>1. LoadApproval(p, l, "authority")
      BY <1>3, <2>1 DEF Checkpoint
    <3> HIDE DEF l
    <3>2. PICK place, m :
             /\ pc' = [pc EXCEPT ![p] = place] /\ loc' = [loc EXCEPT ![p] = m]
             /\ place \in {"persist", "authority"}
             /\ Stage(place, m) = "authority" /\ Same(m, l)
      BY <1>1, <3>1, LoadArrives
    <3>3. Enforces("authority", m, Standing(place, m, approval'), bstatus')
      BY <1>0, <1>1, <2>1, <3>2
      DEF Enforces, Same, Judging, Settled, Revoking
    <3>4. Accounts(place, m, approval', bstatus', bapproval')
      BY <1>0, <1>1, <3>2, <3>3, ArrivedAccounts
    <3> QED
      BY <1>1, <3>2, <3>4, AccountMove
  <2>2. CASE l.bst \notin Live
    <3> DEFINE m == [l EXCEPT !.stop = "authority"]
    <3>1. pc' = [pc EXCEPT ![p] = "scope"] /\ loc' = [loc EXCEPT ![p] = m]
      BY <1>3, <2>2 DEF Checkpoint, Goto, Remember
    <3>2. /\ m.a = l.a /\ m.b = l.b /\ m.op = l.op /\ m.bst = l.bst
          /\ m.stop = "authority"
      BY <1>1 DEF Local
    <3> HIDE DEF m
    <3>3. Enforces("scope", m, approval[l.a], bstatus)
      BY <1>1, <3>2 DEF Enforces, Judging, Settled, Revoking
    <3> QED
      BY <1>2, <3>1, <3>2, <3>3
  <2> QED
    BY <2>1, <2>2
<1>4. CASE Authority(p)
  <2> DEFINE m == [l EXCEPT !.stop = StopReason(l)]
  <2>1. /\ pc[p] = "authority"
        /\ pc' = [pc EXCEPT ![p] = "scope"] /\ loc' = [loc EXCEPT ![p] = m]
    BY <1>4 DEF Authority, Goto, Remember
  <2>2. m.a = l.a /\ m.b = l.b /\ m.op = l.op /\ m.bst = l.bst
    BY <1>1 DEF Local
  <2>3. l.bst \in Live
    BY <1>1, <2>1 DEF Enforces
  <2> HIDE DEF m
  <2>4. Enforces("scope", m, approval[l.a], bstatus)
    BY <1>1, <2>2, <2>3 DEF Enforces, Judging, Settled, Revoking
  <2> QED
    BY <1>2, <2>1, <2>2, <2>4
<1>5. CASE ScopeRoots(p)
  <2>1. pc[p] = "scope" /\ LoadScopeRoots(p, l, "classify")
    BY <1>5 DEF ScopeRoots
  <2>2. l.stop = "none" => l.bst \in Live
    BY <1>1, <2>1 DEF Enforces
  <2> HIDE DEF l
  <2>3. PICK place, m :
           /\ pc' = [pc EXCEPT ![p] = place] /\ loc' = [loc EXCEPT ![p] = m]
           /\ place \in {"persist", "classify"}
           /\ Stage(place, m) = "classify" /\ Same(m, l)
    BY <1>1, <2>1, RootsArrive
  <2>4. Enforces("classify", m, Standing(place, m, approval'), bstatus')
    BY <1>0, <1>1, <2>2, <2>3
    DEF Enforces, Same, Judging, Settled, Revoking
  <2>5. Accounts(place, m, approval', bstatus', bapproval')
    BY <1>0, <1>1, <2>3, <2>4, ArrivedAccounts
  <2> QED
    BY <1>1, <2>3, <2>5, AccountMove
<1>6. ASSUME NEW kept \in SUBSET Paths, Classify(p, kept)
      PROVE  AllAccount'
  <2> DEFINE m == [l EXCEPT !.compliance = ComplianceOf(l), !.failed = RunFailed(l)]
  <2>1. /\ pc[p] = "classify"
        /\ pc' = [pc EXCEPT ![p] = "reload"] /\ loc' = [loc EXCEPT ![p] = m]
    BY <1>6 DEF Classify, Goto, Remember
  <2>2. /\ m.a = l.a /\ m.b = l.b /\ m.op = l.op /\ m.bst = l.bst
        /\ m.changed = l.changed
        /\ m.compliance = ComplianceOf(l) /\ m.failed = RunFailed(l)
    BY <1>1 DEF Local
  <2>3. l.stop = "none" => l.bst \in Live
    BY <1>1, <2>1 DEF Enforces
  <2> HIDE DEF m
  <2>4. Honest(m)
    <3>1. CASE l.stop = "base_sha"
      BY <2>2, <3>1 DEF Honest, ComplianceOf
    <3>2. CASE l.stop # "base_sha" /\ OutOfScope(l) # {}
      BY <2>2, <3>2 DEF Honest, ComplianceOf, OutOfScope
    <3>3. CASE l.stop # "base_sha" /\ OutOfScope(l) = {} /\ l.changed # {}
      BY <2>2, <3>3 DEF Honest, ComplianceOf
    <3>4. CASE l.changed = {}
      BY <2>2, <3>4 DEF Honest
    <3> QED
      BY <3>1, <3>2, <3>3, <3>4
  <2>5. ~m.failed => l.stop = "none"
    BY <2>2 DEF RunFailed
  <2>6. Enforces("reload", m, approval[l.a], bstatus)
    BY <1>1, <2>2, <2>3, <2>4, <2>5 DEF Enforces, Judging, Settled, Revoking
  <2> QED
    BY <1>2, <2>1, <2>2, <2>6
<1>7. ASSUME NEW kept \in SUBSET Paths, ClassifyRaises(p, kept)
      PROVE  AllAccount'
  <2> DEFINE m == [l EXCEPT !.op = "finalize"]
  <2>1. StartTransition(p, m, "failed", "idle", "idle")
    BY <1>7 DEF ClassifyRaises
  <2>2. m \in Local /\ m.a = l.a /\ m.b = l.b
    BY <1>1 DEF Local, Ops
  <2> HIDE DEF m, l
  <2> QED
    BY <1>0, <1>1, <2>1, <2>2, AccountStart DEF Settled
<1>8. CASE Reload(p)
  <2>1. pc[p] = "reload" /\ LoadApproval(p, l, "settle")
    BY <1>8 DEF Reload
  <2>2. Honest(l) /\ (~l.failed => l.bst \in Live)
    BY <1>1, <2>1 DEF Enforces
  <2> HIDE DEF l
  <2>3. PICK place, m :
           /\ pc' = [pc EXCEPT ![p] = place] /\ loc' = [loc EXCEPT ![p] = m]
           /\ place \in {"persist", "settle"} /\ Stage(place, m) = "settle"
           /\ Same(m, l) /\ Standing(place, m, approval) = m.seen
    BY <1>1, <2>1, LoadArrives
  <2>4. Enforces("settle", m, m.seen, bstatus')
    BY <1>0, <1>1, <2>2, <2>3
    DEF Enforces, Same, Honest, Judging, Settled, Revoking
  <2>5. Standing(place, m, approval') = m.seen
    BY <1>0, <2>3 DEF Standing
  <2>6. Accounts(place, m, approval', bstatus', bapproval')
    BY <1>0, <1>1, <2>3, <2>4, <2>5, ArrivedAccounts
  <2> QED
    BY <1>1, <2>3, <2>6, AccountMove
<1> QED
  BY <1>3, <1>4, <1>5, <1>6, <1>7, <1>8

LEMMA SettleAccounts ==
    ASSUME Ready, NEW p \in Procs,
           \/ Settle(p) \/ Consequence(p) \/ Consume(p)
           \/ Exception(p) \/ ExceptionReload(p) \/ WriteReceipt(p)
    PROVE  AllAccount'
<1> DEFINE l == loc[p]
<1>0. /\ pc[p] \in {"settle"} \cup Settled
      /\ UNCHANGED <<bstatus, bapproval>>
  BY DEF Settle, Consequence, Consume, Exception, ExceptionReload, WriteReceipt,
         Settled, store, bindings
<1>1. /\ OthersRest(p) /\ l \in Local /\ l.a \in Approvals
      /\ approval[l.a] # "none"
      /\ l.b \in Bindings => bapproval[l.b] = l.a
      /\ Enforces(pc[p], l, approval[l.a], bstatus)
      /\ l.op = "enforce" /\ l.bst = bstatus[l.b] /\ Honest(l)
      /\ approval[l.a] \in ApprovalStatus /\ bstatus[l.b] \in BindingStatus
  <2>1. pc[p] \notin Rest \cup {"persist", "mint"} /\ pc[p] \in Judging \cup Settled
    BY <1>0 DEF Rest, Judging, Settled
  <2>2. l.b \in Bindings
    BY <2>1, ReadyAt
    DEF WellPlaced, NeedsBinding, BindingPlaces, Places, Judging, Settled
  <2> QED
    BY <1>0, <2>1, <2>2, UnderWay, ReadyAt DEF Enforces, StoreType
<1>2. approval[l.a] = "approved" \/ approval[l.a] \in ApprovalTerminal
  BY <1>1 DEF ApprovalStatus
<1>3. l.bst \in Live \/ l.bst \in BindingTerminal
  <2>1. bstatus[l.b] # "none"
    BY <1>0, ReadyAt
    DEF WellPlaced, NeedsBinding, BindingPlaces, Places, Settled
  <2> QED
    BY <1>1, <2>1 DEF BindingStatus
\* It moves on without a load.
<1>4. ASSUME NEW place \in Settled, NEW m,
             pc' = [pc EXCEPT ![p] = place], loc' = [loc EXCEPT ![p] = m],
             m.a = l.a, m.b = l.b, approval'[l.a] # "none",
             Enforces(place, m, approval'[l.a], bstatus)
      PROVE  AllAccount'
  <2>1. Stage(place, m) = place /\ Standing(place, m, approval') = approval'[l.a]
    BY <1>4 DEF Stage, Standing, Settled
  <2>2. Accounts(place, m, approval', bstatus', bapproval')
    BY <1>0, <1>1, <1>4, <2>1 DEF Accounts, Knows, Settles, Settled
  <2> QED
    BY <1>1, <1>4, <2>2, AccountMove
<1>5. CASE Settle(p)
  <2> DEFINE k == [l EXCEPT !.err = "exception"]
             want == IF /\ k.compliance \in {"within_scope", "no_mutation"}
                        /\ ~k.failed THEN "completed" ELSE "failed"
  <2>1. /\ pc[p] = "settle" /\ UNCHANGED approval
        /\ IF k.bst \in Live
           THEN StartTransition(p, k, want, "consequence", "exception")
           ELSE Goto(p, "consequence") /\ Remember(p, k)
    BY <1>5 DEF Settle, store
  <2>2. /\ k \in Local /\ k.err = "exception"
        /\ k.a = l.a /\ k.b = l.b /\ k.op = l.op /\ k.bst = l.bst
        /\ k.changed = l.changed /\ k.failed = l.failed
        /\ k.compliance = l.compliance /\ k.seen = l.seen
    BY <1>1 DEF Local, Places
  <2>3. l.seen = approval[l.a] /\ (~l.failed => l.bst \in Live)
    BY <1>1, <2>1 DEF Enforces
  <2>4. /\ want \in BindingTerminal
        /\ l.compliance = "within_scope" /\ ~l.failed => want = "completed"
    BY <2>2 DEF BindingTerminal
  <2> HIDE DEF k, want
  <2>5. CASE k.bst \in Live
    <3> DEFINE m == [k EXCEPT !.want = want, !.ret = "consequence", !.err = "exception"]
    <3>1. pc' = [pc EXCEPT ![p] = "transition"] /\ loc' = [loc EXCEPT ![p] = m]
      BY <2>1, <2>5 DEF StartTransition, Goto, Remember
    <3>2. /\ m.want = want /\ m.ret = "consequence" /\ m.err = "exception"
          /\ m.a = l.a /\ m.b = l.b /\ m.op = l.op /\ m.bst = l.bst
          /\ m.changed = l.changed /\ m.failed = l.failed
          /\ m.compliance = l.compliance /\ m.seen = l.seen
      BY <2>2 DEF Local
    <3> HIDE DEF m
    <3>3. Settles("transition", m, approval', bstatus')
      BY <1>0, <1>1, <2>1, <2>2, <2>3, <2>4, <2>5, <3>2 DEF Settles, Honest
    <3>4. Enforces("transition", m, Standing("transition", m, approval'), bstatus')
      BY DEF Enforces, Judging, Settled, Revoking
    <3>5. Accounts("transition", m, approval', bstatus', bapproval')
      BY <1>0, <1>1, <2>1, <3>2, <3>3, <3>4 DEF Accounts, Knows, Stage
    <3> QED
      BY <1>1, <3>1, <3>5, AccountMove
  <2>6. CASE k.bst \notin Live
    <3>1. pc' = [pc EXCEPT ![p] = "consequence"] /\ loc' = [loc EXCEPT ![p] = k]
      BY <2>1, <2>6 DEF Goto, Remember
    <3>2. Enforces("consequence", k, approval'[l.a], bstatus)
      BY <1>1, <1>3, <2>1, <2>2, <2>3, <2>6
      DEF Enforces, Honest, Judging, Settled, Revoking
    <3> QED
      BY <1>1, <1>4, <2>1, <2>2, <3>1, <3>2 DEF Settled
  <2> QED
    BY <2>5, <2>6
<1>6. CASE Consequence(p)
  <2>1. pc[p] = "consequence" /\ UNCHANGED approval
    BY <1>6 DEF Consequence, store
  <2>2. /\ l.seen = approval[l.a] /\ l.bst \in BindingTerminal
        /\ l.err = "exception"
        /\ l.compliance = "within_scope" /\ ~l.failed => l.bst = "completed"
    BY <1>1, <2>1 DEF Enforces, Settled
  <2>3. \/ LoadApproval(p, l, "consume")
        \/ LoadApproval(p, l, "revoke") /\ l.compliance = "scope_exceeded"
        \/ /\ Goto(p, "receipt") /\ UNCHANGED loc
           /\ l.compliance # "within_scope"
           /\ l.compliance \in {"partial", "scope_exceeded"} => l.seen # "approved"
    <3>1. CASE \/ l.compliance = "within_scope"
               \/ l.compliance = "partial" /\ l.seen = "approved"
      BY <1>6, <3>1 DEF Consequence
    <3>2. CASE l.compliance = "scope_exceeded" /\ l.seen = "approved"
      BY <1>6, <3>2 DEF Consequence
    <3>3. CASE ~(\/ l.compliance = "within_scope"
                 \/ l.compliance = "partial" /\ l.seen = "approved"
                 \/ l.compliance = "scope_exceeded" /\ l.seen = "approved")
      BY <1>6, <3>3 DEF Consequence
    <3> QED
      BY <3>1, <3>2, <3>3
  <2>4. ASSUME NEW next \in {"consume", "revoke"}, LoadApproval(p, l, next),
               next = "revoke" => l.compliance = "scope_exceeded"
        PROVE  AllAccount'
    <3> HIDE DEF l
    <3>1. PICK place, m :
             /\ pc' = [pc EXCEPT ![p] = place] /\ loc' = [loc EXCEPT ![p] = m]
             /\ place \in {"persist", next} /\ Stage(place, m) = next
             /\ Same(m, l) /\ Standing(place, m, approval) = m.seen
      BY <1>1, <2>4, LoadArrives
    <3>2. Enforces(next, m, m.seen, bstatus')
      BY <1>0, <1>1, <2>2, <2>4, <3>1
      DEF Enforces, Same, Honest, Judging, Settled, Revoking
    <3>3. Standing(place, m, approval') = m.seen
      BY <2>1, <3>1 DEF Standing
    <3>4. Accounts(place, m, approval', bstatus', bapproval')
      BY <1>0, <1>1, <2>1, <3>1, <3>2, <3>3, ArrivedAccounts
    <3> QED
      BY <1>1, <3>1, <3>4, AccountMove
  <2>5. CASE /\ Goto(p, "receipt") /\ UNCHANGED loc
             /\ l.compliance # "within_scope"
             /\ l.compliance \in {"partial", "scope_exceeded"} => l.seen # "approved"
    <3>1. pc' = [pc EXCEPT ![p] = "receipt"] /\ loc' = [loc EXCEPT ![p] = l]
      BY <2>5, ReadyAt DEF Goto, CtlType
    <3>2. l.changed # {} /\ l.compliance # "base_sha_mismatch"
          => approval[l.a] \in ApprovalTerminal
      <4>1. l.compliance \in Compliance
        BY <1>1 DEF Local
      <4> QED
        BY <1>1, <1>2, <2>2, <2>5, <4>1 DEF Honest, Compliance
    <3>3. Enforces("receipt", l, approval'[l.a], bstatus)
      BY <1>1, <2>1, <2>2, <2>5, <3>2 DEF Enforces, Judging, Settled, Revoking
    <3> QED
      BY <1>1, <1>4, <2>1, <3>1, <3>3 DEF Settled
  <2> QED
    BY <2>3, <2>4, <2>5
<1>7. CASE Consume(p)
  <2>1. pc[p] = "consume"
    BY <1>7 DEF Consume
  <2>2. /\ l.seen = approval[l.a] /\ l.bst \in BindingTerminal
        /\ l.err = "exception"
        /\ l.compliance = "within_scope" /\ ~l.failed => l.bst = "completed"
    BY <1>1, <2>1 DEF Enforces, Settled
  <2>3. CASE l.seen = "approved"
    <3> DEFINE m == [l EXCEPT !.seen = "consumed"]
    <3>1. /\ pc' = [pc EXCEPT ![p] = "receipt"] /\ loc' = [loc EXCEPT ![p] = m]
          /\ approval'[l.a] = "consumed"
      BY <1>1, <1>7, <2>3, ReadyAt DEF Consume, Goto, Remember, StoreType
    <3>2. Same(m, l) /\ m.seen = "consumed"
      BY <1>1 DEF Local, Same
    <3> HIDE DEF m
    <3>3. Enforces("receipt", m, "consumed", bstatus)
      BY <1>1, <2>2, <3>2
      DEF Enforces, Same, Honest, Judging, Settled, Revoking, ApprovalTerminal
    <3> QED
      BY <1>4, <3>1, <3>2, <3>3 DEF Settled, Same
  <2>4. CASE l.seen # "approved"
    <3>1. Resume(p, l, "exception") /\ UNCHANGED approval
      BY <1>7, <2>2, <2>4 DEF Consume, Raise
    <3>2. ASSUME NEW m, Same(m, l), m.seen = l.seen
          PROVE  Enforces("exception", m, approval'[l.a], bstatus')
      BY <1>0, <1>1, <1>2, <2>2, <2>4, <3>1, <3>2
      DEF Enforces, Same, Honest, Judging, Settled, Revoking
    <3> HIDE DEF l
    <3> QED
      BY <1>0, <1>1, <3>1, <3>2, AccountResume
  <2> QED
    BY <2>3, <2>4
<1>8. CASE Exception(p)
  <2> DEFINE m == [l EXCEPT !.failed = TRUE]
  <2>1. /\ pc[p] = "exception" /\ UNCHANGED approval
        /\ m.bst \notin Live
           => Goto(p, "exception.reload") /\ Remember(p, m)
    BY <1>8 DEF Exception, store
  <2>2. /\ m.a = l.a /\ m.b = l.b /\ m.op = l.op /\ m.bst = l.bst
        /\ m.failed = TRUE
        /\ m.changed = l.changed /\ m.compliance = l.compliance
    BY <1>1 DEF Local
  <2>3. l.bst \in BindingTerminal /\ approval[l.a] \in ApprovalTerminal
    BY <1>1, <2>1 DEF Enforces, Settled
  <2> HIDE DEF m
  <2>4. pc' = [pc EXCEPT ![p] = "exception.reload"] /\ loc' = [loc EXCEPT ![p] = m]
    BY <2>1, <2>2, <2>3 DEF Live, BindingTerminal, Goto, Remember
  <2>5. Enforces("exception.reload", m, approval'[l.a], bstatus)
    BY <1>1, <2>1, <2>2, <2>3 DEF Enforces, Honest, Judging, Settled, Revoking
  <2> QED
    BY <1>1, <1>4, <2>1, <2>2, <2>4, <2>5 DEF Settled
<1>9. CASE ExceptionReload(p)
  <2>1. /\ pc[p] = "exception.reload" /\ LoadApproval(p, l, "receipt")
        /\ UNCHANGED approval
    BY <1>9 DEF ExceptionReload, store
  <2>2. /\ l.bst \in BindingTerminal /\ l.failed
        /\ approval[l.a] \in ApprovalTerminal
    BY <1>1, <2>1 DEF Enforces, Settled
  <2> HIDE DEF l
  <2>3. PICK place, m :
           /\ pc' = [pc EXCEPT ![p] = place] /\ loc' = [loc EXCEPT ![p] = m]
           /\ place \in {"persist", "receipt"} /\ Stage(place, m) = "receipt"
           /\ Same(m, l) /\ Standing(place, m, approval) = m.seen
           /\ m.seen = approval[l.a] \/ m.seen = "expired"
    BY <1>1, <2>1, LoadArrives
  <2>4. Enforces("receipt", m, m.seen, bstatus')
    BY <1>0, <1>1, <2>2, <2>3
    DEF Enforces, Same, Honest, Judging, Settled, Revoking, ApprovalTerminal
  <2>5. Standing(place, m, approval') = m.seen
    BY <2>1, <2>3 DEF Standing
  <2>6. Accounts(place, m, approval', bstatus', bapproval')
    BY <1>0, <1>1, <2>1, <2>3, <2>4, <2>5, ArrivedAccounts
  <2> QED
    BY <1>1, <2>3, <2>6, AccountMove
<1>10. CASE WriteReceipt(p)
  BY <1>1, <1>10, AccountExit DEF WriteReceipt
<1> QED
  BY <1>5, <1>6, <1>7, <1>8, <1>9, <1>10

LEMMA RecoverAccounts ==
    ASSUME Ready, NEW p \in Procs,
           \/ Diagnose(p) \/ RecoverSuspend(p) \/ RecoverReload(p)
           \/ RecoverRestore(p)
           \/ \E kept \in SUBSET Paths : RecoverGit(p, kept) \/ RecoverGitRaises(p, kept)
           \/ RecoverFail(p) \/ RecoverOutcome(p)
    PROVE  AllAccount'
<1> DEFINE l == loc[p]
           After == {"recover.suspend", "recover.reload", "recover.restore",
                     "recover.git", "recover.fail", "recover.outcome"}
<1>0. /\ pc[p] \in {"diagnose"} \cup After
      /\ UNCHANGED <<approval, bstatus, bapproval>>
  BY DEF Diagnose, RecoverSuspend, RecoverReload, RecoverRestore, RecoverGit,
         RecoverGitRaises, RecoverFail, RecoverOutcome, store, bindings
<1>1. /\ OthersRest(p) /\ l \in Local
      /\ approval[l.a] # "none"
      /\ l.b \in Bindings => bapproval[l.b] = l.a
  BY <1>0, UnderWay DEF Rest
<1>2. After \subseteq Plain
  BY DEF Plain, Places, Judging, Settled, Revoking
<1>3. ASSUME NEW place \in After, NEW m, m.a = l.a, m.b = l.b,
             pc' = [pc EXCEPT ![p] = place], loc' = [loc EXCEPT ![p] = m]
      PROVE  AllAccount'
  <2>1. Accounts(place, m, approval', bstatus', bapproval')
    BY <1>0, <1>1, <1>2, <1>3, PlainAccounts DEF Knows
  <2> QED
    BY <1>1, <1>3, <2>1, AccountMove
<1>4. ASSUME NEW place \in After, Goto(p, place), UNCHANGED loc
      PROVE  AllAccount'
  <2>1. pc' = [pc EXCEPT ![p] = place] /\ loc' = [loc EXCEPT ![p] = l]
    BY <1>4, ReadyAt DEF Goto, CtlType
  <2> QED
    BY <1>3, <2>1
<1>5. CASE Diagnose(p)
  <2> DEFINE t == ApprovalTarget(l.a)
             diag == [dirty |-> dirty[t], stale |-> head[t] # ApprovalBase(l.a),
                      dead |-> l.seen \in {"expired", "revoked"},
                      receipt |-> \E r \in receipts : r.binding = l.b]
             m == [l EXCEPT !.diag = diag,
                     !.decision = IF @ = "auto" THEN "mark-failed" ELSE @]
  <2>1. Exit(p) \/ (Goto(p, "recover.suspend") /\ Remember(p, m))
    BY <1>5 DEF Diagnose, Exit
  <2> HIDE DEF diag
  <2>2. m.a = l.a /\ m.b = l.b
    BY <1>1 DEF Local
  <2> HIDE DEF m
  <2> QED
    BY <1>1, <1>3, <2>1, <2>2, AccountExit DEF Goto, Remember
<1>6. CASE RecoverSuspend(p)
  <2> DEFINE m == [l EXCEPT !.bst = bstatus[l.b]]
  <2>1. \/ Exit(p)
        \/ StartTransition(p, m, "suspended", "recover.reload", "idle")
        \/ Goto(p, "recover.reload") /\ Remember(p, m)
    BY <1>6 DEF RecoverSuspend, Exit, StartTransition
  <2>2. m \in Local /\ m.a = l.a /\ m.b = l.b
    <3>1. bstatus[l.b] \in BindingStatus
      BY <1>6, ReadyAt
      DEF RecoverSuspend, WellPlaced, NeedsBinding, BindingPlaces, Places, StoreType
    <3> QED
      BY <1>1, <3>1 DEF Local
  <2> HIDE DEF m, l
  <2>3. CASE Exit(p)
    BY <1>1, <2>3, AccountExit
  <2>4. CASE StartTransition(p, m, "suspended", "recover.reload", "idle")
    BY <1>0, <1>1, <2>2, <2>4, AccountStart DEF Settled
  <2>5. CASE Goto(p, "recover.reload") /\ Remember(p, m)
    BY <1>3, <2>2, <2>5 DEF Goto, Remember
  <2> QED
    BY <2>1, <2>3, <2>4, <2>5
<1>7. CASE RecoverReload(p)
  <2>1. LoadApproval(p, l, "recover.restore") /\ "recover.restore" \in Plain
    BY <1>2, <1>7 DEF RecoverReload
  <2> HIDE DEF l
  <2> QED
    BY <1>0, <1>1, <2>1, AccountLoadPlain
<1>8. CASE RecoverRestore(p)
  <2>1. \/ LoadScopeRoots(p, l, "recover.git")
        \/ Goto(p, "recover.fail") /\ UNCHANGED loc
    BY <1>8 DEF RecoverRestore, LoadScopeRoots, Goto
  <2>2. CASE LoadScopeRoots(p, l, "recover.git")
    <3> HIDE DEF l
    <3>1. PICK place, m :
             /\ pc' = [pc EXCEPT ![p] = place] /\ loc' = [loc EXCEPT ![p] = m]
             /\ place \in {"persist", "recover.git"}
             /\ Stage(place, m) = "recover.git" /\ Same(m, l)
      BY <1>1, <2>2, RootsArrive
    <3>2. Enforces("recover.git", m, Standing(place, m, approval'), bstatus')
      BY <1>2, PlainEnforces
    <3>3. Accounts(place, m, approval', bstatus', bapproval')
      BY <1>0, <1>1, <3>1, <3>2, ArrivedAccounts
    <3> QED
      BY <1>1, <3>1, <3>3, AccountMove
  <2> QED
    BY <1>4, <2>1, <2>2
<1>9. ASSUME NEW kept \in SUBSET Paths, RecoverGit(p, kept)
      PROVE  AllAccount'
  BY <1>4, <1>9 DEF RecoverGit
<1>10. ASSUME NEW kept \in SUBSET Paths, RecoverGitRaises(p, kept)
       PROVE  AllAccount'
  BY <1>1, <1>10, AccountExit DEF RecoverGitRaises
<1>11. CASE RecoverFail(p)
  <2>1. CASE l.bst \in Live
    <3>1. StartTransition(p, l, "failed", "recover.outcome", "idle")
      BY <1>11, <2>1 DEF RecoverFail
    <3> HIDE DEF l
    <3> QED
      BY <1>0, <1>1, <3>1, AccountStart DEF Settled
  <2>2. CASE l.bst \notin Live
    BY <1>4, <1>11, <2>2 DEF RecoverFail
  <2> QED
    BY <2>1, <2>2
<1>12. CASE RecoverOutcome(p)
  BY <1>1, <1>12, AccountExit DEF RecoverOutcome
<1> QED
  BY <1>5, <1>6, <1>7, <1>8, <1>9, <1>10, <1>11, <1>12

\* Steps that happen while another command may be under way.
LEMMA OutsideAccounts ==
    ASSUME Ready, UNCHANGED <<approval, bstatus, bapproval>>,
           \/ \E p \in Procs : Crash(p)
           \/ \E p \in Procs, path \in Paths : Mutate(p, path)
           \/ UNCHANGED <<pc, loc>>
    PROVE  AllAccount'
<1>0. /\ CtlType
      /\ \A q \in Procs : Accounts(pc[q], loc[q], approval, bstatus, bapproval)
  BY DEF Ready, AllAccount, TypeInv
<1>1. ASSUME NEW p \in Procs, Crash(p)  PROVE AllAccount'
  <2>1. /\ pc'[p] = "idle" /\ loc'[p] = Idle
        /\ \A q \in Procs \ {p} : pc'[q] = pc[q] /\ loc'[q] = loc[q]
    BY <1>0, <1>1 DEF Crash, Exit, Goto, Remember, CtlType
  <2> QED
    BY <1>0, <2>1, IdleAccounts DEF AllAccount
<1>2. ASSUME NEW p \in Procs, NEW path \in Paths, Mutate(p, path)
      PROVE  AllAccount'
  <2> DEFINE m == [loc[p] EXCEPT !.changed = @ \cup {path}]
  <2>1. m.a = loc[p].a /\ m.b = loc[p].b
    BY ReadyAt DEF Local
  <2>2. /\ UNCHANGED pc /\ pc[p] = "working" /\ loc'[p] = m
        /\ \A q \in Procs \ {p} : loc'[q] = loc[q]
    BY <1>0, <1>2 DEF Mutate, Remember, CtlType
  <2> HIDE DEF m
  <2>3. Accounts("working", m, approval, bstatus, bapproval)
    <3>1. Knows("working", m, approval, bapproval)
      BY <1>0, <2>1, <2>2 DEF Accounts, Knows
    <3> QED
      BY <3>1, PlainAccounts DEF Plain, Places, Judging, Settled, Revoking
  <2> QED
    BY <1>0, <2>2, <2>3 DEF AllAccount
<1>3. CASE UNCHANGED <<pc, loc>>
  BY <1>0, <1>3 DEF AllAccount
<1> QED
  BY <1>1, <1>2, <1>3

LEMMA NextAccounts ==
    ASSUME Exclusive, Ready, [Next]_vars
    PROVE  AllAccount'
<1>1. ASSUME NEW p \in Procs, Step(p) PROVE AllAccount'
  BY <1>1, PersistAccounts, TransitionAccounts, GrantAccounts, BindAccounts,
     JudgeAccounts, SettleAccounts, RecoverAccounts
  DEF Step
<1>2. ASSUME NEW p \in Procs, Crash(p) PROVE AllAccount'
  BY <1>2, OutsideAccounts DEF Crash, store, bindings
<1>3. ASSUME NEW p \in Procs, NEW path \in Paths, Mutate(p, path)
      PROVE  AllAccount'
  BY <1>3, OutsideAccounts DEF Mutate, store, bindings
<1>4. CASE Environment \/ UNCHANGED vars
  BY <1>4, OutsideAccounts
  DEF Environment, ImportResult, Lapse, MoveHead, vars, store, bindings
<1> QED
  BY <1>1, <1>2, <1>3, <1>4, CommandAccounts, EndWorkAccounts DEF Next

-----------------------------------------------------------------------------
(***************************************************************************)
(* A step writes one record, or time passes for one grant.                 *)
(***************************************************************************)
WritesApproval(a, s) ==
    /\ approval' = [approval EXCEPT ![a] = s]
    /\ \/ approval[a] = "none" /\ s = "approved"
       \/ approval[a] = "approved" /\ s \in ApprovalTerminal
    /\ s = "consumed" => \E b \in Bindings : /\ bapproval[b] = a
                                             /\ bstatus[b] \in BindingTerminal
    /\ UNCHANGED <<lapsed, bstatus, bapproval>>

WritesBinding(b, s) ==
    /\ bstatus[b] # "none" /\ BindingTransition(bstatus[b], s)
    /\ bstatus' = [bstatus EXCEPT ![b] = s]
    /\ UNCHANGED <<approval, lapsed, bapproval>>

Binds(b, a) ==
    /\ bstatus[b] = "none" /\ approval[a] # "none" /\ Free(a, bstatus, bapproval)
    /\ bstatus' = [bstatus EXCEPT ![b] = "active"]
    /\ bapproval' = [bapproval EXCEPT ![b] = a]
    /\ UNCHANGED <<approval, lapsed>>

Lapses(a) ==
    /\ approval[a] # "none" /\ lapsed' = lapsed \cup {a}
    /\ UNCHANGED <<approval, bstatus, bapproval>>

WritesOne ==
    \/ UNCHANGED <<approval, lapsed, bstatus, bapproval>>
    \/ \E a \in Approvals, s \in ApprovalStatus : WritesApproval(a, s)
    \/ \E b \in Bindings, s \in BindingStatus : WritesBinding(b, s)
    \/ \E b \in Bindings, a \in Approvals : Binds(b, a)
    \/ \E a \in Approvals : Lapses(a)

LEMMA NextWritesOne ==
    ASSUME Ready, [Next]_vars
    PROVE  WritesOne
<1>1. ASSUME NEW p \in Procs, PersistExpiry(p) PROVE WritesOne
  <2>1. /\ loc[p].a \in Approvals /\ approval[loc[p].a] = "approved"
    BY <1>1, ReadyAt DEF PersistExpiry, WellPlaced, Fresh
  <2>2. WritesApproval(loc[p].a, "expired")
    BY <1>1, <2>1
    DEF PersistExpiry, WritesApproval, ApprovalTerminal, bindings, world
  <2> QED
    BY <2>1, <2>2 DEF WritesOne, ApprovalStatus, ApprovalTerminal
<1>2. ASSUME NEW p \in Procs, ApproveWrite(p) PROVE WritesOne
  <2>1. /\ loc[p].a \in Approvals /\ approval[loc[p].a] = "none"
    BY <1>2, ReadyAt DEF ApproveWrite, WellPlaced, Fresh
  <2>2. WritesApproval(loc[p].a, "approved")
    BY <1>2, <2>1 DEF ApproveWrite, WritesApproval, bindings, world
  <2> QED
    BY <2>1, <2>2 DEF WritesOne, ApprovalStatus
<1>3. ASSUME NEW p \in Procs, RevokeWriteApproval(p) PROVE WritesOne
  <2>1. /\ loc[p].a \in Approvals /\ approval[loc[p].a] = "approved"
    BY <1>3, ReadyAt DEF RevokeWriteApproval, WellPlaced, Fresh
  <2>2. WritesApproval(loc[p].a, "revoked")
    BY <1>3, <2>1
    DEF RevokeWriteApproval, WritesApproval, ApprovalTerminal, bindings, world
  <2> QED
    BY <2>1, <2>2 DEF WritesOne, ApprovalStatus, ApprovalTerminal
<1>4. ASSUME NEW p \in Procs, Consume(p) PROVE WritesOne
  <2>1. pc[p] = "consume" /\ UNCHANGED <<lapsed, bstatus, bapproval>>
    BY <1>4 DEF Consume, bindings, world
  <2>2. /\ loc[p].a \in Approvals /\ loc[p].b \in Bindings
        /\ bapproval[loc[p].b] = loc[p].a
        /\ bstatus[loc[p].b] \in BindingTerminal
        /\ loc[p].seen = approval[loc[p].a]
    BY <2>1, ReadyAt, UnderWay
    DEF WellPlaced, NeedsBinding, BindingPlaces, Places, Rest, Enforces, Settled
  <2>3. CASE loc[p].seen = "approved"
    <3>1. WritesApproval(loc[p].a, "consumed")
      BY <1>4, <2>1, <2>2, <2>3 DEF Consume, WritesApproval, ApprovalTerminal
    <3> QED
      BY <2>2, <3>1 DEF WritesOne, ApprovalStatus, ApprovalTerminal
  <2>4. CASE loc[p].seen # "approved"
    BY <1>4, <2>1, <2>4 DEF Consume, WritesOne
  <2> QED
    BY <2>3, <2>4
<1>5. ASSUME NEW p \in Procs, TransitionWrite(p) PROVE WritesOne
  <2>1. /\ loc[p].b \in Bindings /\ bstatus[loc[p].b] # "none"
        /\ BindingTransition(bstatus[loc[p].b], loc[p].want)
        /\ loc[p].want \in BindingStatus
    BY <1>5, ReadyAt
    DEF TransitionWrite, WellPlaced, NeedsBinding, BindingPlaces, Places, Fresh,
        Local
  <2>2. WritesBinding(loc[p].b, loc[p].want)
    BY <1>5, <2>1 DEF TransitionWrite, WritesBinding, world
  <2> QED
    BY <2>1, <2>2 DEF WritesOne
<1>6. ASSUME NEW p \in Procs, NEW b \in Bindings, BindSave(p, b) PROVE WritesOne
  <2>1. /\ loc[p].a \in Approvals /\ approval[loc[p].a] # "none"
        /\ Free(loc[p].a, bstatus, bapproval)
    BY <1>6, ReadyAt, UnderWay DEF BindSave, Rest, Fresh
  <2>2. Binds(b, loc[p].a)
    BY <1>6, <2>1 DEF BindSave, Binds, world
  <2> QED
    BY <2>1, <2>2 DEF WritesOne
<1>7. CASE UNCHANGED <<approval, lapsed, bstatus, bapproval>>
  BY <1>7 DEF WritesOne
<1>8. ASSUME NEW p \in Procs, Step(p)
      PROVE  \/ PersistExpiry(p) \/ ApproveWrite(p) \/ RevokeWriteApproval(p)
             \/ Consume(p) \/ TransitionWrite(p)
             \/ (\E b \in Bindings : BindSave(p, b))
             \/ UNCHANGED <<approval, lapsed, bstatus, bapproval>>
  <2>1. CASE \/ TransitionRead(p)
             \/ RevokeAgain(p) \/ RevokeRefused(p) \/ RevokeWriteRevocation(p)
             \/ BindGate(p) \/ BindCheck(p)
    BY <2>1
    DEF TransitionRead, RevokeAgain, RevokeRefused, RevokeWriteRevocation,
        BindGate, BindCheck, store, bindings, world
  <2>2. CASE \/ Checkpoint(p) \/ Authority(p) \/ ScopeRoots(p)
             \/ (\E kept \in SUBSET Paths : Classify(p, kept) \/ ClassifyRaises(p, kept))
             \/ Reload(p) \/ Settle(p) \/ Consequence(p)
             \/ Exception(p) \/ ExceptionReload(p) \/ WriteReceipt(p)
    BY <2>2
    DEF Checkpoint, Authority, ScopeRoots, Classify, ClassifyRaises, Restore,
        Reload, Settle, Consequence, Exception, ExceptionReload, WriteReceipt,
        store, bindings, world
  <2>3. CASE \/ Diagnose(p) \/ RecoverSuspend(p) \/ RecoverReload(p)
             \/ RecoverRestore(p)
             \/ (\E kept \in SUBSET Paths : RecoverGit(p, kept) \/ RecoverGitRaises(p, kept))
             \/ RecoverFail(p) \/ RecoverOutcome(p)
    BY <2>3
    DEF Diagnose, RecoverSuspend, RecoverReload, RecoverRestore, RecoverGit,
        RecoverGitRaises, Restore, RecoverFail, RecoverOutcome, store, bindings,
        world
  <2> QED
    BY <1>8, <2>1, <2>2, <2>3 DEF Step
<1>9. ASSUME NEW p \in Procs, Command(p) \/ EndWork(p) \/ Crash(p)
      PROVE  UNCHANGED <<approval, lapsed, bstatus, bapproval>>
  BY <1>9
  DEF Command, EndWork, ApproveCheck, ReadApproval, RevokeBegin, BindBegin,
      RecoverBegin, FinalizeFailed, EnforceBegin, Crash, store, bindings, world
<1>10. ASSUME NEW p \in Procs, NEW path \in Paths, Mutate(p, path)
       PROVE  UNCHANGED <<approval, lapsed, bstatus, bapproval>>
  BY <1>10 DEF Mutate, store, bindings
<1>11. ASSUME NEW a \in Approvals, Lapse(a) PROVE WritesOne
  BY <1>11 DEF Lapse, WritesOne, Lapses, store, bindings
<1>12. CASE \/ \E r \in Proposals : ImportResult(r)
            \/ \E t \in Targets, s \in Shas : MoveHead(t, s)
            \/ UNCHANGED vars
  BY <1>7, <1>12 DEF ImportResult, MoveHead, vars, store, bindings, world
<1> QED
  BY <1>1, <1>2, <1>3, <1>4, <1>5, <1>6, <1>7, <1>8, <1>9, <1>10, <1>11, <1>12
  DEF Next, Environment

LEMMA MintedNext ==
    ASSUME Ready, WritesOne
    PROVE  Minted'
<1>0. Minted /\ Forward /\ StoreType /\ BindingInv
  BY DEF Ready, TypeInv, StoreInv
<1>1. ASSUME NEW a \in lapsed' PROVE approval'[a] # "none"
  <2>1. a \in Approvals /\ approval[a] # "none"
    BY <1>0, <1>1
    DEF WritesOne, WritesApproval, WritesBinding, Binds, Lapses, Minted, StoreType
  <2> QED
    BY <1>0, <2>1 DEF Forward
<1>2. ASSUME NEW b \in Bindings, bstatus'[b] # "none"
      PROVE  approval'[bapproval'[b]] # "none"
  <2>1. /\ bapproval'[b] \in Approvals /\ approval[bapproval'[b]] # "none"
    <3>1. CASE bstatus[b] # "none"
      BY <1>0, <3>1 DEF Forward, Minted, BindingInv
    <3>2. CASE bstatus[b] = "none"
      BY <1>0, <1>2, <3>2
      DEF WritesOne, WritesApproval, WritesBinding, Binds, Lapses, StoreType
    <3> QED
      BY <3>1, <3>2
  <2> QED
    BY <1>0, <2>1 DEF Forward
<1> QED
  BY <1>1, <1>2 DEF Minted

-----------------------------------------------------------------------------
(***************************************************************************)
(* Receipts, and the accounts of a grant.                                  *)
(***************************************************************************)

\* What is true of a receipt when it is written.
TrueReceipt(r) ==
    /\ r.approval \in Approvals
    /\ r.binding_status = bstatus[r.binding]
    /\ r.binding_status \in BindingTerminal
    /\ r.approval_status = approval[r.approval]
    /\ r.changed # {} /\ r.compliance # "base_sha_mismatch"
       => approval[r.approval] \in ApprovalTerminal
    /\ r.compliance = "within_scope" /\ ~r.run_failed
       => r.binding_status = "completed" /\ approval[r.approval] = "consumed"

LEMMA NewReceipts ==
    ASSUME Ready, [Next]_vars
    PROVE  \A r \in receipts' \ receipts : TrueReceipt(r) /\ UNCHANGED approval
<1>1. ASSUME NEW p \in Procs, WriteReceipt(p),
             NEW r \in receipts' \ receipts
      PROVE  TrueReceipt(r) /\ UNCHANGED approval
  <2> DEFINE l == loc[p]
  <2>1. /\ pc[p] = "receipt" /\ UNCHANGED approval
        /\ r = [binding |-> l.b, approval |-> l.a, compliance |-> l.compliance,
                binding_status |-> l.bst, approval_status |-> l.seen,
                changed |-> l.changed, run_failed |-> l.failed]
    BY <1>1 DEF WriteReceipt
  <2>2. l.a \in Approvals /\ Enforces("receipt", l, approval[l.a], bstatus)
    BY <2>1, UnderWay DEF Rest
  <2>3. /\ r.binding = l.b /\ r.approval = l.a /\ r.compliance = l.compliance
        /\ r.binding_status = l.bst /\ r.approval_status = l.seen
        /\ r.changed = l.changed /\ r.run_failed = l.failed
    BY <2>1
  <2> HIDE DEF l
  <2> QED
    BY <2>1, <2>2, <2>3 DEF TrueReceipt, Enforces, Settled
<1>2. ASSUME NEW p \in Procs, Step(p)
      PROVE  WriteReceipt(p) \/ UNCHANGED receipts
  <2>1. CASE \/ PersistExpiry(p) \/ TransitionRead(p) \/ TransitionWrite(p)
             \/ ApproveWrite(p) \/ RevokeAgain(p) \/ RevokeRefused(p)
             \/ RevokeWriteRevocation(p) \/ RevokeWriteApproval(p)
             \/ BindGate(p) \/ BindCheck(p) \/ (\E b \in Bindings : BindSave(p, b))
    BY <2>1
    DEF PersistExpiry, TransitionRead, TransitionWrite, ApproveWrite, RevokeAgain,
        RevokeRefused, RevokeWriteRevocation, RevokeWriteApproval, BindGate,
        BindCheck, BindSave, store, evidence
  <2>2. CASE \/ Checkpoint(p) \/ Authority(p) \/ ScopeRoots(p)
             \/ (\E kept \in SUBSET Paths : Classify(p, kept) \/ ClassifyRaises(p, kept))
             \/ Reload(p) \/ Settle(p) \/ Consequence(p) \/ Consume(p)
             \/ Exception(p) \/ ExceptionReload(p)
    BY <2>2
    DEF Checkpoint, Authority, ScopeRoots, Classify, ClassifyRaises, Reload,
        Settle, Consequence, Consume, Exception, ExceptionReload, store, evidence
  <2>3. CASE \/ Diagnose(p) \/ RecoverSuspend(p) \/ RecoverReload(p)
             \/ RecoverRestore(p)
             \/ (\E kept \in SUBSET Paths : RecoverGit(p, kept) \/ RecoverGitRaises(p, kept))
             \/ RecoverFail(p) \/ RecoverOutcome(p)
    BY <2>3
    DEF Diagnose, RecoverSuspend, RecoverReload, RecoverRestore, RecoverGit,
        RecoverGitRaises, RecoverFail, RecoverOutcome, store, evidence
  <2> QED
    BY <1>2, <2>1, <2>2, <2>3 DEF Step
<1>3. ASSUME NEW p \in Procs, Command(p) \/ EndWork(p) \/ Crash(p)
      PROVE  UNCHANGED receipts
  BY <1>3
  DEF Command, EndWork, ApproveCheck, ReadApproval, RevokeBegin, BindBegin,
      RecoverBegin, FinalizeFailed, EnforceBegin, Crash, store, evidence
<1>4. ASSUME NEW p \in Procs, NEW path \in Paths, Mutate(p, path)
      PROVE  UNCHANGED receipts
  BY <1>4 DEF Mutate, store, evidence
<1>5. ASSUME Environment \/ UNCHANGED vars
      PROVE  UNCHANGED receipts
  BY <1>5 DEF Environment, ImportResult, Lapse, MoveHead, vars, store, evidence
<1>6. (receipts' = receipts) \/ \E p \in Procs : WriteReceipt(p)
  <2>1. CASE \E p \in Procs : Command(p) \/ EndWork(p) \/ Step(p) \/ Crash(p)
    BY <1>2, <1>3, <2>1
  <2>2. CASE \E p \in Procs, path \in Paths : Mutate(p, path)
    BY <1>4, <2>2
  <2> QED
    BY <1>5, <2>1, <2>2 DEF Next
<1> QED
  BY <1>1, <1>6

LEMMA AccountedNext ==
    ASSUME Ready, GrantAccounted, [Next]_vars
    PROVE  GrantAccounted'
<1>0. /\ StoreType /\ WritesOne
      /\ \A r \in receipts' \ receipts : TrueReceipt(r) /\ UNCHANGED approval
      /\ \A a \in Approvals : ApprovalStep(a)
  BY NextWritesOne, NewReceipts, NextApprovals DEF Ready, TypeInv, StoreInv
<1>1. \A a \in Approvals :
        /\ approval[a] \in ApprovalTerminal => approval'[a] = approval[a]
        /\ approval[a] = "consumed" => approval'[a] = "consumed"
  BY <1>0 DEF ApprovalStep, ApprovalTerminal
<1>2. \A r \in receipts : r.approval \in Approvals
  BY <1>0 DEF StoreType, Receipt
<1>3. ReceiptedMutationEndsGrant'
  <2> SUFFICES ASSUME NEW r \in receipts', r.changed # {},
                      r.compliance # "base_sha_mismatch"
               PROVE  approval'[r.approval] \in ApprovalTerminal
    BY DEF ReceiptedMutationEndsGrant
  <2>1. CASE r \in receipts
    BY <1>1, <1>2, <2>1 DEF GrantAccounted, ReceiptedMutationEndsGrant
  <2>2. CASE r \notin receipts
    BY <1>0, <2>2 DEF TrueReceipt
  <2> QED
    BY <2>1, <2>2
<1>4. SuccessIsConsumed'
  <2> SUFFICES ASSUME NEW r \in receipts', r.compliance = "within_scope",
                      ~r.run_failed
               PROVE  /\ r.binding_status = "completed"
                      /\ approval'[r.approval] = "consumed"
    BY DEF SuccessIsConsumed
  <2>1. CASE r \in receipts
    BY <1>1, <1>2, <2>1 DEF GrantAccounted, SuccessIsConsumed
  <2>2. CASE r \notin receipts
    BY <1>0, <2>2 DEF TrueReceipt
  <2> QED
    BY <2>1, <2>2
<1>5. ConsumedByEndedRun'
  <2> SUFFICES ASSUME NEW a \in Approvals, approval'[a] = "consumed"
               PROVE  \E b \in Bindings : /\ bapproval'[b] = a
                                          /\ bstatus'[b] \in BindingTerminal
    BY DEF ConsumedByEndedRun
  <2>1. \E b \in Bindings : bapproval[b] = a /\ bstatus[b] \in BindingTerminal
    <3>1. CASE approval[a] = "consumed"
      BY <3>1 DEF GrantAccounted, ConsumedByEndedRun
    <3>2. CASE approval[a] # "consumed"
      <4>1. PICK c \in Approvals, s \in ApprovalStatus : WritesApproval(c, s)
        BY <1>0, <3>2 DEF WritesOne, WritesBinding, Binds, Lapses
      <4>2. c = a /\ s = "consumed"
        BY <1>0, <3>2, <4>1 DEF WritesApproval, StoreType
      <4> QED
        BY <4>1, <4>2 DEF WritesApproval
    <3> QED
      BY <3>1, <3>2
  <2>2. PICK b \in Bindings : bapproval[b] = a /\ bstatus[b] \in BindingTerminal
    BY <2>1
  <2>3. bapproval'[b] = a
    BY <2>2 DEF Ready, Forward, BindingTerminal
  <2>4. bstatus'[b] = bstatus[b]
    <3>1. CASE UNCHANGED bstatus
      BY <3>1
    <3>2. ASSUME NEW c \in Bindings, NEW s, WritesBinding(c, s)
          PROVE  bstatus'[b] = bstatus[b]
      <4>1. c # b
        BY <2>2, <3>2
        DEF WritesBinding, BindingTransition, BindingTerminal
      <4> QED
        BY <1>0, <3>2, <4>1 DEF WritesBinding, StoreType
    <3>3. ASSUME NEW c \in Bindings, NEW d \in Approvals, Binds(c, d)
          PROVE  bstatus'[b] = bstatus[b]
      BY <1>0, <2>2, <3>3 DEF Binds, StoreType, BindingTerminal
    <3> QED
      BY <1>0, <3>1, <3>2, <3>3 DEF WritesOne, WritesApproval, Lapses
  <2> QED
    BY <2>2, <2>3, <2>4
<1> QED
  BY <1>3, <1>4, <1>5 DEF GrantAccounted

LEMMA GrantInvInit == Init => GrantInv
<1> SUFFICES ASSUME Init PROVE GrantInv
  OBVIOUS
<1>1. AllAccount
  BY IdleAccounts DEF Init, AllAccount
<1>2. Minted
  BY DEF Init, Minted
<1>3. GrantAccounted
  BY DEF Init, GrantAccounted, ReceiptedMutationEndsGrant, SuccessIsConsumed,
         ConsumedByEndedRun
<1> QED
  BY <1>1, <1>2, <1>3 DEF GrantInv

LEMMA ReadyNow ==
    ASSUME TypeInv, ExclInv, GrantInv, [Next]_vars
    PROVE  Ready
BY NextForward DEF Ready, GrantInv

LEMMA GrantInvHolds == ASSUME Exclusive PROVE Spec => []GrantInv
<1>1. ASSUME TypeInv, ExclInv, GrantInv, [Next]_vars PROVE GrantInv'
  <2>1. Ready /\ GrantAccounted
    BY <1>1, ReadyNow DEF GrantInv
  <2> QED
    BY <1>1, <2>1, NextAccounts, NextWritesOne, MintedNext, AccountedNext
    DEF GrantInv
<1> QED
  BY <1>1, GrantInvInit, TypeInvHolds, ExclInvHolds, PTL DEF Spec

\* The accounts of a grant are in order: a run that changed something ends it, a
\* reported success consumed it, and it was consumed for a run that has ended.
THEOREM ExclusiveGrantAccounted == ASSUME Exclusive PROVE Spec => []GrantAccounted
<1>1. GrantInv => GrantAccounted
  BY DEF GrantInv
<1> QED
  BY <1>1, GrantInvHolds, PTL

\* A receipt states what the store holds when it is written, and its binding is
\* no longer live, whatever was refused, expired or crashed before.
THEOREM ExclusiveReceiptsTrue == ASSUME Exclusive PROVE Spec => ReceiptsAreTrue
<1>1. TypeInv /\ ExclInv /\ GrantInv /\ [Next]_vars
      => [\A r \in receipts' \ receipts :
            /\ r.binding_status = bstatus[r.binding]
            /\ r.approval_status = approval[r.approval]
            /\ r.binding_status \notin Live]_vars
  BY ReadyNow, NewReceipts DEF TrueReceipt, Live, BindingTerminal
<1> QED
  BY <1>1, TypeInvHolds, ExclInvHolds, GrantInvHolds, PTL
  DEF Spec, ReceiptsAreTrue

-----------------------------------------------------------------------------
(***************************************************************************)
(* The records implement the grants an operator sees (WriteGrant).         *)
(***************************************************************************)
Completed(a) == \E b \in Bindings : bstatus[b] = "completed" /\ bapproval[b] = a
Reserved(a) == \E b \in Bindings : bstatus[b] \in Live /\ bapproval[b] = a
Over(a) == approval[a] \in ApprovalTerminal \/ a \in lapsed \/ Completed(a)

LEMMA GrantIs ==
    ASSUME NEW a \in Approvals
    PROVE  /\ approval[a] = "none" => GrantOf(a) = "none"
           /\ approval[a] # "none" /\ Over(a) => GrantOf(a) = "ended"
           /\ approval[a] # "none" /\ ~Over(a) /\ Reserved(a)
              => GrantOf(a) = "reserved"
           /\ approval[a] # "none" /\ ~Over(a) /\ ~Reserved(a)
              => GrantOf(a) = "available"
BY DEF GrantOf, Over, Completed, Reserved

LEMMA GrantBecomes ==
    ASSUME NEW a \in Approvals
    PROVE  /\ (approval[a] = "none")' => GrantOf(a)' = "none"
           /\ (approval[a] # "none" /\ Over(a))' => GrantOf(a)' = "ended"
           /\ (approval[a] # "none" /\ ~Over(a) /\ Reserved(a))'
              => GrantOf(a)' = "reserved"
           /\ (approval[a] # "none" /\ ~Over(a) /\ ~Reserved(a))'
              => GrantOf(a)' = "available"
BY DEF GrantOf, Over, Completed, Reserved

\* A grant whose records are untouched stands as it stood.
LEMMA GrantStays ==
    ASSUME NEW a \in Approvals, approval'[a] = approval[a],
           a \in lapsed' <=> a \in lapsed,
           \A b \in Bindings :
             \/ bstatus'[b] = bstatus[b] /\ bapproval'[b] = bapproval[b]
             \/ /\ bapproval[b] = a => bstatus[b] = "none"
                /\ bapproval'[b] # a
    PROVE  GrantOf(a)' = GrantOf(a)
<1>1. Completed(a)' <=> Completed(a)
  BY DEF Completed
<1>2. Reserved(a)' <=> Reserved(a)
  BY DEF Reserved, Live
<1>3. Over(a)' <=> Over(a)
  BY <1>1 DEF Over
<1> QED
  BY <1>2, <1>3, GrantIs, GrantBecomes

GrantView == [a \in Approvals |-> GrantOf(a)]

\* One grant moves as WriteGrant allows, and the others stand.
GrantMoves(a) ==
    /\ \A c \in Approvals \ {a} : GrantOf(c)' = GrantOf(c)
    /\ \/ GrantOf(a)' = GrantOf(a)
       \/ GrantOf(a) = "none" /\ GrantOf(a)' = "available"
       \/ /\ GrantOf(a) = "available" /\ GrantOf(a)' = "reserved"
          /\ \A c \in Approvals :
               ApprovalTarget(c) = ApprovalTarget(a) => GrantOf(c) # "reserved"
       \/ GrantOf(a) = "reserved" /\ GrantOf(a)' = "available"
       \/ GrantOf(a) \in {"available", "reserved"} /\ GrantOf(a)' = "ended"

LEMMA ApprovalMoves ==
    ASSUME Ready, NEW a \in Approvals, NEW s, WritesApproval(a, s)
    PROVE  GrantMoves(a)
<1>0. /\ approval'[a] = s
      /\ \A c \in Approvals \ {a} : approval'[c] = approval[c]
      /\ UNCHANGED <<lapsed, bstatus, bapproval>>
  BY ReadyAt DEF WritesApproval, Ready, TypeInv, StoreInv, StoreType
<1>1. \A c \in Approvals \ {a} : GrantOf(c)' = GrantOf(c)
  BY <1>0, GrantStays
<1>2. CASE approval[a] = "none" /\ s = "approved"
  <2>1. GrantOf(a) = "none"
    BY <1>2, GrantIs
  <2>2. ~Over(a)' /\ ~Reserved(a)'
    BY <1>0, <1>2
    DEF Over, Completed, Reserved, Ready, Minted, Live, ApprovalTerminal
  <2> QED
    BY <1>0, <1>1, <1>2, <2>1, <2>2, GrantBecomes DEF GrantMoves
<1>3. CASE approval[a] = "approved" /\ s \in ApprovalTerminal
  <2>1. Over(a)' /\ s # "none"
    BY <1>0, <1>3 DEF Over, ApprovalTerminal
  <2>2. GrantOf(a)' = "ended"
    BY <1>0, <2>1, GrantBecomes
  <2>3. GrantOf(a) \in {"available", "reserved", "ended"}
    BY <1>3, GrantIs
  <2> QED
    BY <1>1, <2>2, <2>3 DEF GrantMoves
<1> QED
  BY <1>2, <1>3 DEF WritesApproval

LEMMA LapseMoves ==
    ASSUME Ready, NEW a \in Approvals, Lapses(a)
    PROVE  GrantMoves(a)
<1>0. /\ approval[a] # "none" /\ lapsed' = lapsed \cup {a}
      /\ UNCHANGED <<approval, bstatus, bapproval>>
  BY DEF Lapses
<1>1. \A c \in Approvals \ {a} : GrantOf(c)' = GrantOf(c)
  BY <1>0, GrantStays
<1>2. GrantOf(a)' = "ended"
  BY <1>0, GrantBecomes DEF Over
<1>3. GrantOf(a) \in {"available", "reserved", "ended"}
  BY <1>0, GrantIs
<1> QED
  BY <1>1, <1>2, <1>3 DEF GrantMoves

LEMMA BindingMoves ==
    ASSUME Ready, NEW b \in Bindings, NEW s, WritesBinding(b, s)
    PROVE  GrantMoves(bapproval[b])
<1> DEFINE a == bapproval[b]
<1>0. /\ bstatus[b] \in Live /\ a \in Approvals /\ approval[a] # "none"
      /\ s \in {"suspended"} \cup BindingTerminal
      /\ bstatus'[b] = s
      /\ \A c \in Bindings \ {b} : bstatus'[c] = bstatus[c]
      /\ UNCHANGED <<approval, lapsed, bapproval>>
  BY DEF WritesBinding, BindingTransition, Live, BindingTerminal, Ready, Minted,
         TypeInv, StoreInv, StoreType, BindingInv
<1>1. \A c \in Approvals \ {a} : GrantOf(c)' = GrantOf(c)
  <2> SUFFICES ASSUME NEW c \in Approvals \ {a} PROVE GrantOf(c)' = GrantOf(c)
    OBVIOUS
  <2> QED
    BY <1>0, GrantStays
<1>2. Over(a) => Over(a)'
  BY <1>0 DEF Over, Completed, Live
<1>3. CASE Over(a)
  BY <1>0, <1>1, <1>2, <1>3, GrantIs, GrantBecomes DEF GrantMoves
<1>4. CASE ~Over(a)
  <2>1. GrantOf(a) = "reserved"
    BY <1>0, <1>4, GrantIs DEF Reserved
  <2>2. CASE s = "completed"
    <3>1. Over(a)'
      BY <1>0, <2>2 DEF Over, Completed
    <3> QED
      BY <1>0, <1>1, <2>1, <3>1, GrantBecomes DEF GrantMoves
  <2>3. CASE s # "completed"
    <3>1. ~Over(a)'
      BY <1>0, <1>4, <2>3 DEF Over, Completed
    <3> QED
      BY <1>0, <1>1, <2>1, <3>1, GrantBecomes DEF GrantMoves
  <2> QED
    BY <2>2, <2>3
<1> QED
  BY <1>3, <1>4

LEMMA BindMoves ==
    ASSUME Ready, NEW b \in Bindings, NEW a \in Approvals, Binds(b, a)
    PROVE  GrantMoves(a)
<1>0. /\ bstatus[b] = "none" /\ approval[a] # "none"
      /\ Free(a, bstatus, bapproval)
      /\ bstatus'[b] = "active" /\ bapproval'[b] = a
      /\ \A c \in Bindings \ {b} : bstatus'[c] = bstatus[c] /\ bapproval'[c] = bapproval[c]
      /\ UNCHANGED <<approval, lapsed>>
  BY DEF Binds, Ready, TypeInv, StoreInv, StoreType
<1>1. \A c \in Approvals \ {a} : GrantOf(c)' = GrantOf(c)
  BY <1>0, GrantStays
<1>2. ~Completed(a) /\ ~Completed(a)'
  BY <1>0 DEF Completed, Free, Blocking
<1>3. Over(a)' <=> Over(a)
  BY <1>0, <1>2 DEF Over
<1>4. CASE Over(a)
  BY <1>0, <1>1, <1>3, <1>4, GrantIs, GrantBecomes DEF GrantMoves
<1>5. CASE ~Over(a)
  <2>1. \A c \in Approvals :
          ApprovalTarget(c) = ApprovalTarget(a) => ~Reserved(c)
    BY <1>0 DEF Reserved, Free
  <2>2. \A c \in Approvals :
          ApprovalTarget(c) = ApprovalTarget(a) => GrantOf(c) # "reserved"
    BY <2>1, GrantIs
  <2>3. GrantOf(a) = "available"
    BY <1>0, <1>5, <2>1, GrantIs
  <2>4. Reserved(a)'
    BY <1>0 DEF Reserved, Live
  <2>5. GrantOf(a)' = "reserved"
    BY <1>0, <1>3, <1>5, <2>4, GrantBecomes
  <2> QED
    BY <1>1, <2>2, <2>3, <2>5 DEF GrantMoves
<1> QED
  BY <1>4, <1>5

\* What GrantMoves says is a step of WriteGrant.
LEMMA MovesImplement ==
    ASSUME NEW a \in Approvals, GrantMoves(a)
    PROVE  [Grant!GrantNext]_GrantView
<1>1. GrantView' = [GrantView EXCEPT ![a] = GrantOf(a)']
  BY DEF GrantView, GrantMoves
<1>2. GrantView[a] = GrantOf(a)
  BY DEF GrantView
<1>3. CASE GrantOf(a)' = GrantOf(a)
  BY <1>1, <1>2, <1>3 DEF GrantView
<1>4. CASE GrantOf(a)' # GrantOf(a)
  <2>1. \/ Grant!Mint(a) \/ Grant!Reserve(a) \/ Grant!Release(a) \/ Grant!End(a)
    <3>1. CASE GrantOf(a) = "none" /\ GrantOf(a)' = "available"
      BY <1>1, <1>2, <3>1 DEF Grant!Mint, Grant!Set, GrantView
    <3>2. CASE /\ GrantOf(a) = "available" /\ GrantOf(a)' = "reserved"
               /\ \A c \in Approvals :
                    ApprovalTarget(c) = ApprovalTarget(a) => GrantOf(c) # "reserved"
      BY <1>1, <1>2, <3>2 DEF Grant!Reserve, Grant!Set, GrantView
    <3>3. CASE GrantOf(a) = "reserved" /\ GrantOf(a)' = "available"
      BY <1>1, <1>2, <3>3 DEF Grant!Release, Grant!Set, GrantView
    <3>4. CASE GrantOf(a) \in {"available", "reserved"} /\ GrantOf(a)' = "ended"
      BY <1>1, <1>2, <3>4 DEF Grant!End, Grant!Set, GrantView
    <3> QED
      BY <1>4, <3>1, <3>2, <3>3, <3>4 DEF GrantMoves
  <2> QED
    BY <2>1 DEF Grant!GrantNext
<1> QED
  BY <1>3, <1>4

LEMMA StepImplements ==
    ASSUME TypeInv, ExclInv, GrantInv, [Next]_vars
    PROVE  [Grant!GrantNext]_GrantView
<1>0. Ready /\ WritesOne
  BY ReadyNow, NextWritesOne
<1>1. CASE UNCHANGED <<approval, lapsed, bstatus, bapproval>>
  <2>1. \A a \in Approvals : GrantOf(a)' = GrantOf(a)
    BY <1>1, GrantStays
  <2> QED
    BY <2>1 DEF GrantView
<1>2. ASSUME NEW a \in Approvals, GrantMoves(a)
      PROVE  [Grant!GrantNext]_GrantView
  BY <1>2, MovesImplement
<1>3. ASSUME NEW b \in Bindings, NEW s, WritesBinding(b, s)
      PROVE  bapproval[b] \in Approvals
  BY <1>0, <1>3 DEF WritesBinding, Ready, TypeInv, StoreInv, BindingInv
<1> QED
  BY <1>0, <1>1, <1>2, <1>3, ApprovalMoves, LapseMoves, BindingMoves, BindMoves
  DEF WritesOne

\* The files of write-scope authority implement WriteGrant: a grant is minted
\* once, reserved by one run of one target at a time, given back only by a run
\* that failed without it having ended, and ends for good.
THEOREM ExclusiveImplementsGrant ==
    ASSUME Exclusive PROVE Spec => ImplementsWriteGrant
<1>1. Init => Grant!GrantInit
  <2>1. Init => \A a \in Approvals : GrantOf(a) = "none"
    BY GrantIs DEF Init
  <2> QED
    BY <2>1 DEF Grant!GrantInit
<1>2. TypeInv /\ ExclInv /\ GrantInv /\ [Next]_vars => [Grant!GrantNext]_GrantView
  BY StepImplements
<1> QED
  BY <1>1, <1>2, TypeInvHolds, ExclInvHolds, GrantInvHolds, PTL
  DEF Spec, ImplementsWriteGrant, Grant!GrantSpec, GrantView
=============================================================================
