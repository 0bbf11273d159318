-------------------------- MODULE WriteScopeProofs --------------------------
(***************************************************************************)
(* Proofs about WriteScope for every set of processes, approvals, bindings,*)
(* targets, commits and paths.                                             *)
(***************************************************************************)
EXTENDS WriteScope, TLAPS

\* Places of a command that has a binding to work on.
BindingPlaces ==
    Places \ {"idle", "persist", "mint", "revoke", "revoke.approval", "bind",
              "bind.check", "bind.save"}

\* Places a subroutine may return or raise to.
ReturnPlaces == Places \ {"revoke.approval", "transition", "transition.write"}

NeedsBinding(place, l) ==
    \/ place \in BindingPlaces
    \/ l.ret \in BindingPlaces
    \/ l.err \in BindingPlaces
    \/ l.op \in {"enforce", "finalize", "recover"}

\* A command at place with locals l, when the binding statuses are bs and the
\* revocation files rv: it names an approval, and a stored binding if it needs
\* one; it rewrites an approval as revoked only after the revocation file.
WellPlaced(place, l, bs, rv) ==
    /\ place \in Places
    /\ l \in Local
    /\ l.ret \in ReturnPlaces /\ l.err \in ReturnPlaces
    /\ place # "idle" => l.a \in Approvals
    /\ NeedsBinding(place, l) => l.b \in Bindings
    /\ l.b \in Bindings => bs[l.b] # "none"
    /\ place \in {"transition", "transition.write"} => l.want # "none"
    /\ place = "revoke.approval" => l.a \in rv

ProcInv == \A p \in Procs : WellPlaced(pc[p], loc[p], bstatus, revocations)

BindingInv == \A b \in Bindings : bstatus[b] # "none" => bapproval[b] \in Approvals

StoreType ==
    /\ proposals \subseteq Proposals
    /\ approval \in [Approvals -> ApprovalStatus]
    /\ revocations \subseteq Approvals
    /\ lapsed \subseteq Approvals
    /\ bstatus \in [Bindings -> BindingStatus]
    /\ bapproval \in [Bindings -> Approvals \cup {NoApproval}]
    /\ receipts \subseteq Receipt
    /\ needsNew \subseteq Approvals
    /\ head \in [Targets -> Shas]
    /\ dirty \in [Targets -> SUBSET Paths]

CtlType == pc \in [Procs -> Places] /\ loc \in [Procs -> Local]

StoreInv == StoreType /\ BindingInv /\ RevokedHasRevocation

\* The inductive invariant behind type correctness and RevokedHasRevocation.
TypeInv == StoreInv /\ CtlType /\ ProcInv

\* Bindings are never deleted, and neither are revocation files.
Grows == /\ \A b \in Bindings : bstatus[b] # "none" => bstatus'[b] # "none"
         /\ revocations \subseteq revocations'

-----------------------------------------------------------------------------
(***************************************************************************)
(* What the helpers that move a process do to the invariant.               *)
(***************************************************************************)

\* A process that moves to a well-placed state keeps every process well placed.
LEMMA MoveOK ==
    ASSUME CtlType, ProcInv, Grows, NEW p \in Procs, NEW place, NEW l,
           WellPlaced(place, l, bstatus', revocations'),
           pc' = [pc EXCEPT ![p] = place], loc' = [loc EXCEPT ![p] = l]
    PROVE  CtlType' /\ ProcInv'
<1>1. CtlType'
  BY DEF CtlType, WellPlaced
<1>2. ASSUME NEW q \in Procs
      PROVE  WellPlaced(pc'[q], loc'[q], bstatus', revocations')
  <2>1. CASE q = p
    BY <2>1 DEF CtlType
  <2>2. CASE q # p
    <3>1. pc'[q] = pc[q] /\ loc'[q] = loc[q]
      BY <2>2 DEF CtlType
    <3>2. WellPlaced(pc[q], loc[q], bstatus, revocations)
      BY DEF ProcInv
    <3> QED
      BY <3>1, <3>2 DEF WellPlaced, Grows
  <2> QED
    BY <2>1, <2>2
<1> QED
  BY <1>1, <1>2 DEF ProcInv

\* Idle locals are well placed at "idle".
LEMMA IdleOK == \A bs, rv : WellPlaced("idle", Idle, bs, rv)
BY ConstantsAssumption
DEF WellPlaced, Idle, Local, Places, ReturnPlaces, NeedsBinding,
    BindingPlaces, Ops, ApprovalStatus, BindingStatus, Live, Stops, Compliance, Decisions

\* Leaving a command.
LEMMA ExitOK ==
    ASSUME CtlType, ProcInv, Grows, NEW p \in Procs, Exit(p)
    PROVE  CtlType' /\ ProcInv'
BY IdleOK, MoveOK DEF Exit, Goto, Remember

\* Returning from a subroutine, or raising out of it.
LEMMA ResumeOK ==
    ASSUME CtlType, ProcInv, Grows, NEW p \in Procs, NEW l, NEW place,
           WellPlaced(place, [l EXCEPT !.want = "none", !.ret = "idle"],
                      bstatus', revocations'),
           Resume(p, l, place)
    PROVE  CtlType' /\ ProcInv'
BY ExitOK, MoveOK DEF Resume, Goto, Remember

\* A load leaves a command well placed, on the way through "persist" or not.
LEMMA LoadOK ==
    ASSUME CtlType, ProcInv, approval \in [Approvals -> ApprovalStatus],
           UNCHANGED <<bstatus, revocations>>,
           NEW p \in Procs, NEW l, NEW next,
           WellPlaced(next, l, bstatus, revocations),
           l.a \in Approvals, next \in ReturnPlaces,
           LoadApproval(p, l, next)
    PROVE  CtlType' /\ ProcInv'
<1>0. Grows /\ l \in Local
  BY DEF Grows, WellPlaced
<1>1. CASE approval[l.a] = "approved" /\ l.a \in lapsed
  <2> DEFINE m == [l EXCEPT !.seen = "expired", !.ret = next]
  <2>1. /\ m \in Local
        /\ m.a = l.a /\ m.b = l.b /\ m.op = l.op /\ m.err = l.err
        /\ m.want = l.want /\ m.ret = next
    BY <1>0 DEF Local, WellPlaced, ApprovalStatus, ApprovalTerminal
  <2>2. WellPlaced("persist", m, bstatus', revocations')
    BY <2>1 DEF WellPlaced, NeedsBinding, Places, BindingPlaces
  <2> QED
    BY <1>0, <1>1, <2>2, MoveOK DEF LoadApproval, Goto, Remember
<1>2. CASE ~(approval[l.a] = "approved" /\ l.a \in lapsed)
  <2> DEFINE m == [l EXCEPT !.seen = approval[l.a]]
  <2>1. /\ m \in Local
        /\ m.a = l.a /\ m.b = l.b /\ m.op = l.op /\ m.err = l.err
        /\ m.want = l.want /\ m.ret = l.ret
    BY <1>0 DEF Local
  <2>2. WellPlaced(next, m, bstatus', revocations')
    BY <2>1 DEF WellPlaced, NeedsBinding
  <2> QED
    BY <1>0, <1>2, <2>2, MoveOK DEF LoadApproval, Goto, Remember
<1> QED
  BY <1>1, <1>2

\* The same for the load of the scope roots.
LEMMA LoadScopeRootsOK ==
    ASSUME CtlType, ProcInv, UNCHANGED <<bstatus, revocations>>,
           NEW p \in Procs, NEW l, NEW next,
           WellPlaced(next, l, bstatus, revocations),
           l.a \in Approvals, next \in ReturnPlaces,
           LoadScopeRoots(p, l, next)
    PROVE  CtlType' /\ ProcInv'
<1>0. Grows /\ l \in Local
  BY DEF Grows, WellPlaced
<1>1. CASE approval[l.a] = "approved" /\ l.a \in lapsed
  <2> DEFINE m == [l EXCEPT !.ret = next]
  <2>1. /\ m \in Local
        /\ m.a = l.a /\ m.b = l.b /\ m.op = l.op /\ m.err = l.err
        /\ m.want = l.want /\ m.ret = next
    BY <1>0 DEF Local, WellPlaced
  <2>2. WellPlaced("persist", m, bstatus', revocations')
    BY <2>1 DEF WellPlaced, NeedsBinding, Places, BindingPlaces
  <2> QED
    BY <1>0, <1>1, <2>2, MoveOK DEF LoadScopeRoots, Goto, Remember
<1>2. CASE ~(approval[l.a] = "approved" /\ l.a \in lapsed)
  <2>1. WellPlaced(next, l, bstatus', revocations')
    OBVIOUS
  <2> QED
    BY <1>0, <1>2, <2>1, MoveOK DEF LoadScopeRoots, Goto, Remember
<1> QED
  BY <1>1, <1>2

\* Entering transition_binding_status with a binding.
LEMMA StartTransitionOK ==
    ASSUME CtlType, ProcInv, UNCHANGED <<bstatus, revocations>>,
           NEW p \in Procs, NEW l, NEW to \in BindingStatus \ {"none"},
           NEW ret \in ReturnPlaces, NEW err \in ReturnPlaces,
           l \in Local, l.a \in Approvals, l.b \in Bindings,
           bstatus[l.b] # "none",
           StartTransition(p, l, to, ret, err)
    PROVE  CtlType' /\ ProcInv'
<1> DEFINE m == [l EXCEPT !.want = to, !.ret = ret, !.err = err]
<1>1. /\ m \in Local /\ m.a = l.a /\ m.b = l.b /\ m.want = to
      /\ m.ret = ret /\ m.err = err
  BY DEF Local, ReturnPlaces
<1>2. WellPlaced("transition", m, bstatus', revocations')
  BY <1>1 DEF WellPlaced, Places
<1> QED
  BY <1>2, MoveOK DEF Grows, StartTransition, Goto, Remember

-----------------------------------------------------------------------------
(***************************************************************************)
(* Every step keeps the invariant.                                         *)
(***************************************************************************)

LEMMA SameStore ==
    ASSUME StoreInv, UNCHANGED <<store, world>>
    PROVE  StoreInv' /\ Grows /\ UNCHANGED <<bstatus, revocations>>
BY DEF StoreInv, StoreType, BindingInv, RevokedHasRevocation, Grows,
       store, world, grants, bindings, evidence

\* The locals of a fresh command.
LEMMA FreshLocals ==
    ASSUME NEW op \in Ops, NEW a \in Approvals
    PROVE  /\ [Idle EXCEPT !.op = op, !.a = a] \in Local
           /\ [Idle EXCEPT !.op = op, !.a = a].a = a
           /\ [Idle EXCEPT !.op = op, !.a = a].b \notin Bindings
           /\ [Idle EXCEPT !.op = op, !.a = a].op = op
           /\ [Idle EXCEPT !.op = op, !.a = a].ret = "idle"
           /\ [Idle EXCEPT !.op = op, !.a = a].err = "idle"
BY ConstantsAssumption
DEF Idle, Local, Places, Ops, ApprovalStatus, BindingStatus, Live, Stops,
    Compliance, Decisions

LEMMA FreshPlaced ==
    ASSUME NEW op \in {"approve", "read", "revoke", "run"}, NEW a \in Approvals,
           NEW place \in {"idle", "mint", "revoke", "bind"}, NEW bs, NEW rv
    PROVE  WellPlaced(place, [Idle EXCEPT !.op = op, !.a = a], bs, rv)
<1>1. op \in Ops
  BY DEF Ops
<1> QED
  BY <1>1, FreshLocals
  DEF WellPlaced, NeedsBinding, BindingPlaces, Places, ReturnPlaces

LEMMA CommandKeeps ==
    ASSUME TypeInv, NEW p \in Procs, Command(p)
    PROVE  TypeInv'
<1>0. /\ StoreInv /\ CtlType /\ ProcInv
      /\ approval \in [Approvals -> ApprovalStatus]
  BY DEF TypeInv, StoreInv, StoreType
<1>1. ASSUME NEW a \in Approvals, ApproveCheck(p, a)  PROVE TypeInv'
  <2>1. StoreInv' /\ Grows
    BY <1>0, <1>1, SameStore DEF ApproveCheck
  <2>2. WellPlaced("mint", [Idle EXCEPT !.op = "approve", !.a = a],
                   bstatus', revocations')
    BY FreshPlaced
  <2>3. CtlType' /\ ProcInv'
    BY <1>0, <1>1, <2>1, <2>2, MoveOK DEF ApproveCheck, Goto, Remember
  <2> QED
    BY <2>1, <2>3 DEF TypeInv
<1>2. ASSUME NEW a \in Approvals, ReadApproval(p, a)  PROVE TypeInv'
  <2> DEFINE l == [Idle EXCEPT !.op = "read", !.a = a]
  <2>1. StoreInv' /\ UNCHANGED <<bstatus, revocations>>
    BY <1>0, <1>2, SameStore DEF ReadApproval
  <2>2. WellPlaced("idle", l, bstatus, revocations) /\ l.a \in Approvals
    BY FreshPlaced, FreshLocals DEF Ops
  <2>3. LoadApproval(p, l, "idle") /\ "idle" \in ReturnPlaces
    BY <1>2 DEF ReadApproval, ReturnPlaces, Places
  <2> HIDE DEF l
  <2>4. CtlType' /\ ProcInv'
    BY <1>0, <2>1, <2>2, <2>3, LoadOK
  <2> QED
    BY <2>1, <2>4 DEF TypeInv
<1>3. ASSUME NEW a \in Approvals, RevokeBegin(p, a)  PROVE TypeInv'
  <2> DEFINE l == [Idle EXCEPT !.op = "revoke", !.a = a]
  <2>1. StoreInv' /\ UNCHANGED <<bstatus, revocations>>
    BY <1>0, <1>3, SameStore DEF RevokeBegin
  <2>2. WellPlaced("revoke", l, bstatus, revocations) /\ l.a \in Approvals
    BY FreshPlaced, FreshLocals DEF Ops
  <2>3. LoadApproval(p, l, "revoke") /\ "revoke" \in ReturnPlaces
    BY <1>3 DEF RevokeBegin, ReturnPlaces, Places
  <2> HIDE DEF l
  <2>4. CtlType' /\ ProcInv'
    BY <1>0, <2>1, <2>2, <2>3, LoadOK
  <2> QED
    BY <2>1, <2>4 DEF TypeInv
<1>4. ASSUME NEW a \in Approvals, BindBegin(p, a)  PROVE TypeInv'
  <2> DEFINE l == [Idle EXCEPT !.op = "run", !.a = a]
  <2>1. StoreInv' /\ UNCHANGED <<bstatus, revocations>>
    BY <1>0, <1>4, SameStore DEF BindBegin
  <2>2. WellPlaced("bind", l, bstatus, revocations) /\ l.a \in Approvals
    BY FreshPlaced, FreshLocals DEF Ops
  <2>3. LoadApproval(p, l, "bind") /\ "bind" \in ReturnPlaces
    BY <1>4 DEF BindBegin, ReturnPlaces, Places
  <2> HIDE DEF l
  <2>4. CtlType' /\ ProcInv'
    BY <1>0, <2>1, <2>2, <2>3, LoadOK
  <2> QED
    BY <2>1, <2>4 DEF TypeInv
<1>5. ASSUME NEW b \in Bindings, NEW d \in Decisions, RecoverBegin(p, b, d)
      PROVE  TypeInv'
  <2> DEFINE l == [Idle EXCEPT !.op = "recover", !.a = bapproval[b],
                               !.b = b, !.decision = d]
  <2>1. StoreInv' /\ UNCHANGED <<bstatus, revocations>>
    BY <1>0, <1>5, SameStore DEF RecoverBegin
  <2>2. bstatus[b] # "none" /\ bapproval[b] \in Approvals
    BY <1>0, <1>5 DEF RecoverBegin, Live, StoreInv, BindingInv
  <2>3. /\ l \in Local /\ l.a = bapproval[b] /\ l.b = b
        /\ l.ret = "idle" /\ l.err = "idle"
    BY <2>2, ConstantsAssumption
    DEF Idle, Local, Places, Ops, ApprovalStatus, BindingStatus, Live, Stops,
        Compliance, Decisions
  <2>4. WellPlaced("diagnose", l, bstatus, revocations)
    BY <2>2, <2>3 DEF WellPlaced, Places, ReturnPlaces
  <2>5. LoadApproval(p, l, "diagnose") /\ "diagnose" \in ReturnPlaces
    BY <1>5 DEF RecoverBegin, ReturnPlaces, Places
  <2> HIDE DEF l
  <2>6. CtlType' /\ ProcInv'
    BY <1>0, <2>1, <2>2, <2>3, <2>4, <2>5, LoadOK
  <2> QED
    BY <2>1, <2>6 DEF TypeInv
<1> QED
  BY <1>1, <1>2, <1>3, <1>4, <1>5 DEF Command

\* What the invariant says of one process.
LEMMA PlacedAt ==
    ASSUME TypeInv, NEW p \in Procs
    PROVE  /\ StoreInv /\ StoreType /\ CtlType /\ ProcInv
           /\ WellPlaced(pc[p], loc[p], bstatus, revocations)
           /\ loc[p] \in Local
BY DEF TypeInv, ProcInv, WellPlaced, StoreInv

\* A process that only moves on.
LEMMA GotoOK ==
    ASSUME CtlType, ProcInv, Grows, NEW p \in Procs, NEW place,
           WellPlaced(place, loc[p], bstatus', revocations'),
           Goto(p, place), UNCHANGED loc
    PROVE  CtlType' /\ ProcInv'
<1>1. loc' = [loc EXCEPT ![p] = loc[p]]
  BY DEF CtlType
<1> QED
  BY <1>1, MoveOK DEF Goto

\* Returning or raising to a place that was remembered as a continuation.
LEMMA ContinueOK ==
    ASSUME CtlType, ProcInv, Grows, NEW p \in Procs, NEW l \in Local,
           NEW place \in ReturnPlaces, l.a \in Approvals, l.err \in ReturnPlaces,
           \/ place \in BindingPlaces \/ l.err \in BindingPlaces
              \/ l.op \in {"enforce", "finalize", "recover"} => l.b \in Bindings,
           l.b \in Bindings => bstatus'[l.b] # "none",
           Resume(p, l, place)
    PROVE  CtlType' /\ ProcInv'
<1> DEFINE m == [l EXCEPT !.want = "none", !.ret = "idle"]
<1>1. /\ m \in Local /\ m.a = l.a /\ m.b = l.b /\ m.op = l.op
      /\ m.err = l.err /\ m.ret = "idle"
  BY DEF Local, Places, BindingStatus
<1>2. WellPlaced(place, m, bstatus', revocations')
  BY <1>1 DEF WellPlaced, NeedsBinding, ReturnPlaces, Places, BindingPlaces
<1> QED
  BY <1>2, ResumeOK

LEMMA SubroutineKeeps ==
    ASSUME TypeInv, NEW p \in Procs,
           PersistExpiry(p) \/ TransitionRead(p) \/ TransitionWrite(p)
    PROVE  TypeInv'
<1> DEFINE l == loc[p]
<1>0. /\ StoreInv /\ StoreType /\ CtlType /\ ProcInv
      /\ WellPlaced(pc[p], l, bstatus, revocations) /\ l \in Local
  BY PlacedAt
<1>1. CASE PersistExpiry(p)
  <2>1. pc[p] = "persist" /\ Resume(p, l, l.ret)
    BY <1>1 DEF PersistExpiry, Return
  <2>2. /\ approval' = [approval EXCEPT ![l.a] = "expired"]
        /\ UNCHANGED <<proposals, revocations, bstatus, bapproval,
                       receipts, needsNew, lapsed, head, dirty>>
    BY <1>1 DEF PersistExpiry, grants, bindings, evidence, world
  <2>3. StoreInv' /\ Grows
    BY <1>0, <2>2 DEF StoreInv, StoreType, BindingInv, RevokedHasRevocation,
       Grows, ApprovalStatus, ApprovalTerminal
  <2>4. CtlType' /\ ProcInv'
    <3> HIDE DEF l
    <3> QED BY <1>0, <2>1, <2>2, <2>3, ContinueOK DEF WellPlaced, NeedsBinding
  <2> QED
    BY <2>3, <2>4 DEF TypeInv
<1>2. CASE TransitionRead(p)
  <2>1. pc[p] = "transition"
    BY <1>2 DEF TransitionRead
  <2>2. StoreInv' /\ Grows /\ UNCHANGED <<bstatus, revocations>>
    BY <1>0, <1>2, SameStore DEF TransitionRead
  <2>3. l.b \in Bindings /\ bstatus[l.b] \in BindingStatus /\ bstatus[l.b] # "none"
    BY <1>0, <2>1 DEF WellPlaced, NeedsBinding, StoreType, BindingPlaces, Places
  <2>4. CASE BindingTransition(bstatus[l.b], l.want)
    <3>1. Goto(p, "transition.write") /\ UNCHANGED loc
      BY <1>2, <2>4 DEF TransitionRead
    <3>2. WellPlaced("transition.write", l, bstatus', revocations')
      BY <1>0, <2>1, <2>2, <2>3 DEF WellPlaced, Places
    <3>3. CtlType' /\ ProcInv'
      BY <1>0, <2>2, <3>1, <3>2, GotoOK
    <3> QED
      BY <2>2, <3>3 DEF TypeInv
  <2>5. CASE ~BindingTransition(bstatus[l.b], l.want)
    <3> DEFINE m == IF l.err = "exception.reload"
                    THEN [l EXCEPT !.bst = bstatus[l.b]] ELSE l
    <3>1. Resume(p, m, m.err)
      BY <1>2, <2>5 DEF TransitionRead, Raise
    <3>2. m \in Local /\ m.a = l.a /\ m.b = l.b /\ m.op = l.op /\ m.err = l.err
      BY <1>0, <2>3 DEF Local
    <3>3. m.a \in Approvals /\ m.b \in Bindings /\ m.err \in ReturnPlaces
      BY <1>0, <2>1, <2>3, <3>2 DEF WellPlaced
    <3>4. bstatus'[m.b] # "none"
      BY <2>2, <2>3, <3>2
    <3> HIDE DEF m
    <3>5. CtlType' /\ ProcInv'
      BY <1>0, <2>2, <3>1, <3>2, <3>3, <3>4, ContinueOK
    <3> QED
      BY <2>2, <3>5 DEF TypeInv
  <2> QED
    BY <2>4, <2>5
<1>3. CASE TransitionWrite(p)
  <2> DEFINE m == [l EXCEPT !.bst = l.want]
  <2>1. pc[p] = "transition.write" /\ Resume(p, m, m.ret)
    BY <1>3 DEF TransitionWrite, Return
  <2>2. l.b \in Bindings /\ l.want \in BindingStatus /\ l.want # "none"
    BY <1>0, <2>1 DEF WellPlaced, NeedsBinding, Local, BindingPlaces, Places
  <2>3. /\ bstatus' = [bstatus EXCEPT ![l.b] = l.want]
        /\ UNCHANGED <<proposals, approval, revocations, bapproval,
                       receipts, needsNew, lapsed, head, dirty>>
    BY <1>3 DEF TransitionWrite, grants, evidence, world
  <2>4. bstatus[l.b] # "none"
    BY <1>0, <2>2 DEF WellPlaced
  <2>5. StoreType' /\ BindingInv' /\ Grows
    BY <1>0, <2>2, <2>3, <2>4
    DEF StoreInv, StoreType, BindingInv, Grows
  <2>6. StoreInv'
    BY <1>0, <2>3, <2>5 DEF StoreInv, RevokedHasRevocation
  <2>7. /\ m \in Local /\ m.a = l.a /\ m.b = l.b /\ m.op = l.op
        /\ m.err = l.err /\ m.ret = l.ret
    BY <1>0, <2>2 DEF Local
  <2>8. /\ m.a \in Approvals /\ m.b \in Bindings
        /\ m.err \in ReturnPlaces /\ m.ret \in ReturnPlaces
    BY <1>0, <2>1, <2>2, <2>7 DEF WellPlaced
  <2>9. bstatus'[m.b] # "none"
    BY <1>0, <2>2, <2>3, <2>7 DEF StoreType
  <2> HIDE DEF m
  <2>10. CtlType' /\ ProcInv'
    BY <1>0, <2>1, <2>5, <2>7, <2>8, <2>9, ContinueOK
  <2> QED
    BY <2>6, <2>10 DEF TypeInv
<1> QED
  BY <1>1, <1>2, <1>3

LEMMA GrantKeeps ==
    ASSUME TypeInv, NEW p \in Procs,
           \/ ApproveWrite(p) \/ RevokeAgain(p) \/ RevokeRefused(p)
           \/ RevokeWriteRevocation(p) \/ RevokeWriteApproval(p)
    PROVE  TypeInv'
<1> DEFINE l == loc[p]
<1>0. /\ StoreInv /\ StoreType /\ CtlType /\ ProcInv
      /\ WellPlaced(pc[p], l, bstatus, revocations) /\ l \in Local
  BY PlacedAt
<1>1. CASE ApproveWrite(p)
  <2>1. StoreInv' /\ Grows
    BY <1>0, <1>1 DEF ApproveWrite, StoreInv, StoreType, BindingInv, Grows,
       RevokedHasRevocation, ApprovalStatus, grants, bindings, evidence, world
  <2>2. CtlType' /\ ProcInv'
    BY <1>0, <1>1, <2>1, ExitOK DEF ApproveWrite
  <2> QED
    BY <2>1, <2>2 DEF TypeInv
<1>2. CASE RevokeAgain(p)
  <2>1. StoreInv' /\ Grows /\ UNCHANGED <<bstatus, revocations>>
    BY <1>0, <1>2, SameStore DEF RevokeAgain
  <2>2. CASE l.op = "enforce"
    <3>1. WellPlaced("receipt", l, bstatus', revocations')
      BY <1>0, <1>2, <2>1, <2>2 DEF WellPlaced, NeedsBinding, RevokeAgain, Places
    <3>2. CtlType' /\ ProcInv'
      BY <1>0, <1>2, <2>1, <2>2, <3>1, MoveOK
      DEF RevokeAgain, AfterRevoke, Goto, Remember
    <3> QED
      BY <2>1, <3>2 DEF TypeInv
  <2>3. CASE l.op # "enforce"
    <3>1. CtlType' /\ ProcInv'
      BY <1>0, <1>2, <2>1, <2>3, ExitOK DEF RevokeAgain, AfterRevoke
    <3> QED
      BY <2>1, <3>1 DEF TypeInv
  <2> QED
    BY <2>2, <2>3
<1>3. CASE RevokeRefused(p)
  <2>1. StoreInv' /\ Grows /\ UNCHANGED <<bstatus, revocations>>
    BY <1>0, <1>3, SameStore DEF RevokeRefused
  <2>2. pc[p] = "revoke" /\ Resume(p, l, l.err)
    BY <1>3 DEF RevokeRefused, Raise
  <2>3. CtlType' /\ ProcInv'
    <3> HIDE DEF l
    <3> QED BY <1>0, <2>1, <2>2, ContinueOK DEF WellPlaced, NeedsBinding
  <2> QED
    BY <2>1, <2>3 DEF TypeInv
<1>4. CASE RevokeWriteRevocation(p)
  <2>1. /\ pc[p] = "revoke" /\ l.a \in Approvals
        /\ revocations' = revocations \cup {l.a}
        /\ UNCHANGED <<proposals, approval, bstatus, bapproval,
                       receipts, needsNew, lapsed, head, dirty>>
    BY <1>0, <1>4
    DEF RevokeWriteRevocation, WellPlaced, bindings, evidence, world
  <2>2. StoreInv' /\ Grows
    BY <1>0, <2>1
    DEF StoreInv, StoreType, BindingInv, RevokedHasRevocation, Grows
  <2>3. WellPlaced("revoke.approval", l, bstatus', revocations')
    BY <1>0, <2>1 DEF WellPlaced, NeedsBinding, Places, BindingPlaces
  <2>4. CtlType' /\ ProcInv'
    BY <1>0, <1>4, <2>2, <2>3, GotoOK DEF RevokeWriteRevocation
  <2> QED
    BY <2>2, <2>4 DEF TypeInv
<1>5. CASE RevokeWriteApproval(p)
  <2> DEFINE m == [l EXCEPT !.seen = "revoked"]
  <2>1. /\ pc[p] = "revoke.approval" /\ l.a \in revocations
        /\ approval' = [approval EXCEPT ![l.a] = "revoked"]
        /\ UNCHANGED <<proposals, revocations, bstatus, bapproval,
                       receipts, needsNew, lapsed, head, dirty>>
        /\ AfterRevoke(p, m)
    BY <1>0, <1>5
    DEF RevokeWriteApproval, WellPlaced, grants, bindings, evidence, world
  <2>2. StoreInv' /\ Grows
    BY <1>0, <2>1
    DEF StoreInv, StoreType, BindingInv, RevokedHasRevocation, Grows,
        ApprovalStatus, ApprovalTerminal
  <2>3. /\ m \in Local /\ m.a = l.a /\ m.b = l.b /\ m.op = l.op
        /\ m.err = l.err /\ m.ret = l.ret /\ m.want = l.want
    BY <1>0 DEF Local, ApprovalStatus, ApprovalTerminal
  <2> HIDE DEF m
  <2>4. m.op = "enforce" => WellPlaced("receipt", m, bstatus', revocations')
    BY <1>0, <2>1, <2>3 DEF WellPlaced, NeedsBinding, Places
  <2>5. CtlType' /\ ProcInv'
    BY <1>0, <2>1, <2>2, <2>4, MoveOK, ExitOK DEF AfterRevoke, Goto, Remember
  <2> QED
    BY <2>2, <2>5 DEF TypeInv
<1> QED
  BY <1>1, <1>2, <1>3, <1>4, <1>5

LEMMA BindKeeps ==
    ASSUME TypeInv, NEW p \in Procs,
           \/ BindGate(p) \/ BindCheck(p)
           \/ \E b \in Bindings : BindSave(p, b)
    PROVE  TypeInv'
<1> DEFINE l == loc[p]
<1>0. /\ StoreInv /\ StoreType /\ CtlType /\ ProcInv
      /\ WellPlaced(pc[p], l, bstatus, revocations) /\ l \in Local
  BY PlacedAt
<1>1. CASE BindGate(p)
  <2>1. StoreInv' /\ Grows /\ UNCHANGED <<bstatus, revocations>>
    BY <1>0, <1>1, SameStore DEF BindGate
  <2>2. pc[p] = "bind"
    BY <1>1 DEF BindGate
  <2>3. WellPlaced("bind.check", l, bstatus', revocations')
    BY <1>0, <2>1, <2>2 DEF WellPlaced, NeedsBinding, Places, BindingPlaces
  <2>4. CtlType' /\ ProcInv'
    BY <1>0, <1>1, <2>1, <2>3, ExitOK, GotoOK DEF BindGate
  <2> QED
    BY <2>1, <2>4 DEF TypeInv
<1>2. CASE BindCheck(p)
  <2>1. StoreInv' /\ Grows /\ UNCHANGED <<bstatus, revocations>>
    BY <1>0, <1>2, SameStore DEF BindCheck
  <2>2. pc[p] = "bind.check"
    BY <1>2 DEF BindCheck
  <2>3. WellPlaced("bind.save", l, bstatus', revocations')
    BY <1>0, <2>1, <2>2 DEF WellPlaced, NeedsBinding, Places, BindingPlaces
  <2>4. CtlType' /\ ProcInv'
    BY <1>0, <1>2, <2>1, <2>3, ExitOK, GotoOK DEF BindCheck
  <2> QED
    BY <2>1, <2>4 DEF TypeInv
<1>3. ASSUME NEW b \in Bindings, BindSave(p, b)
      PROVE  TypeInv'
  <2> DEFINE m == [l EXCEPT !.b = b, !.bst = "active"]
  <2>1. /\ pc[p] = "bind.save" /\ l.a \in Approvals
        /\ bstatus' = [bstatus EXCEPT ![b] = "active"]
        /\ bapproval' = [bapproval EXCEPT ![b] = l.a]
        /\ UNCHANGED <<proposals, approval, revocations, receipts,
                       needsNew, lapsed, head, dirty>>
        /\ Goto(p, "working") /\ Remember(p, m)
    BY <1>0, <1>3 DEF BindSave, WellPlaced, grants, evidence, world
  <2>2. StoreType' /\ BindingInv' /\ Grows
    BY <1>0, <2>1
    DEF StoreInv, StoreType, BindingInv, Grows, BindingStatus, Live
  <2>3. StoreInv'
    BY <1>0, <2>1, <2>2 DEF StoreInv, RevokedHasRevocation
  <2>4. /\ m \in Local /\ m.a = l.a /\ m.b = b
        /\ m.err = l.err /\ m.ret = l.ret
    BY <1>0 DEF Local, BindingStatus, Live
  <2>5. bstatus'[b] # "none"
    BY <1>0, <2>1 DEF StoreType
  <2> HIDE DEF m
  <2>6. WellPlaced("working", m, bstatus', revocations')
    BY <1>0, <2>1, <2>4, <2>5 DEF WellPlaced, Places
  <2>7. CtlType' /\ ProcInv'
    BY <1>0, <2>1, <2>2, <2>6, MoveOK DEF Goto, Remember
  <2> QED
    BY <2>3, <2>7 DEF TypeInv
<1> QED
  BY <1>1, <1>2, <1>3

LEMMA WorkKeeps ==
    ASSUME TypeInv, NEW p \in Procs,
           EndWork(p) \/ \E path \in Paths : Mutate(p, path)
    PROVE  TypeInv'
<1> DEFINE l == loc[p]
<1>0. /\ StoreInv /\ StoreType /\ CtlType /\ ProcInv
      /\ WellPlaced(pc[p], l, bstatus, revocations) /\ l \in Local
  BY PlacedAt
<1>a. pc[p] = "working" => /\ l.a \in Approvals /\ l.b \in Bindings
                           /\ bstatus[l.b] # "none"
                           /\ bstatus[l.b] \in BindingStatus
  BY <1>0 DEF WellPlaced, NeedsBinding, BindingPlaces, Places, StoreType
<1>1. CASE FinalizeFailed(p)
  <2> DEFINE m == [l EXCEPT !.op = "finalize"]
  <2>1. StoreInv' /\ UNCHANGED <<bstatus, revocations>>
    BY <1>0, <1>1, SameStore DEF FinalizeFailed
  <2>2. pc[p] = "working" /\ StartTransition(p, m, "failed", "idle", "idle")
    BY <1>1 DEF FinalizeFailed
  <2>3. m \in Local /\ m.a = l.a /\ m.b = l.b
    BY <1>0 DEF Local, Ops
  <2>4. "idle" \in ReturnPlaces /\ "failed" \in BindingStatus \ {"none"}
    BY DEF ReturnPlaces, Places, BindingStatus, BindingTerminal
  <2> HIDE DEF m
  <2>5. CtlType' /\ ProcInv'
    BY <1>0, <1>a, <2>1, <2>2, <2>3, <2>4, StartTransitionOK
  <2> QED
    BY <2>1, <2>5 DEF TypeInv
<1>2. ASSUME NEW changed \in SUBSET Paths, NEW failed \in BOOLEAN,
             EnforceBegin(p, changed, failed)
      PROVE  TypeInv'
  <2> DEFINE m == [l EXCEPT !.op = "enforce", !.changed = changed,
                            !.failed = failed, !.bst = bstatus[l.b]]
  <2>1. StoreInv' /\ Grows /\ UNCHANGED <<bstatus, revocations>>
    BY <1>0, <1>2, SameStore DEF EnforceBegin
  <2>2. pc[p] = "working" /\ Goto(p, "checkpoint") /\ Remember(p, m)
    BY <1>2 DEF EnforceBegin
  <2>3. /\ m \in Local /\ m.a = l.a /\ m.b = l.b
        /\ m.ret = l.ret /\ m.err = l.err
    BY <1>0, <1>a, <2>2 DEF Local, Ops
  <2> HIDE DEF m
  <2>4. WellPlaced("checkpoint", m, bstatus', revocations')
    BY <1>0, <1>a, <2>1, <2>2, <2>3 DEF WellPlaced, Places
  <2>5. CtlType' /\ ProcInv'
    BY <1>0, <2>1, <2>2, <2>4, MoveOK DEF Goto, Remember
  <2> QED
    BY <2>1, <2>5 DEF TypeInv
<1>3. ASSUME NEW path \in Paths, Mutate(p, path)
      PROVE  TypeInv'
  <2> DEFINE m == [l EXCEPT !.changed = @ \cup {path}]
  <2>1. /\ pc[p] = "working" /\ Remember(p, m) /\ UNCHANGED pc
        /\ dirty' = [dirty EXCEPT ![ApprovalTarget(l.a)] = @ \cup {path}]
        /\ UNCHANGED <<proposals, approval, revocations, bstatus, bapproval,
                       receipts, needsNew, lapsed, head>>
    BY <1>3 DEF Mutate, store, grants, bindings, evidence
  <2>2. StoreInv' /\ Grows
    BY <1>0, <2>1
    DEF StoreInv, StoreType, BindingInv, RevokedHasRevocation, Grows
  <2>3. /\ m \in Local /\ m.a = l.a /\ m.b = l.b
        /\ m.ret = l.ret /\ m.err = l.err
    BY <1>0 DEF Local
  <2> HIDE DEF m
  <2>4. WellPlaced("working", m, bstatus', revocations')
    BY <1>0, <1>a, <2>1, <2>3 DEF WellPlaced, Places
  <2>5. pc' = [pc EXCEPT ![p] = "working"]
    BY <1>0, <2>1 DEF CtlType
  <2>6. CtlType' /\ ProcInv'
    BY <1>0, <2>1, <2>2, <2>4, <2>5, MoveOK DEF Remember
  <2> QED
    BY <2>2, <2>6 DEF TypeInv
<1> QED
  BY <1>1, <1>2, <1>3 DEF EndWork

LEMMA EnvironmentKeeps ==
    ASSUME TypeInv, Environment
    PROVE  TypeInv'
<1>0. StoreInv /\ StoreType /\ CtlType /\ ProcInv
  BY DEF TypeInv, StoreInv
<1>1. /\ UNCHANGED <<approval, revocations, bindings, evidence, dirty, pc, loc>>
      /\ proposals' \subseteq Proposals /\ lapsed' \subseteq Approvals
      /\ head' \in [Targets -> Shas]
  <2>1. ASSUME NEW r \in Proposals, ImportResult(r) PROVE <1>1
    BY <1>0, <2>1 DEF ImportResult, StoreType, world
  <2>2. ASSUME NEW a \in Approvals, Lapse(a) PROVE <1>1
    BY <1>0, <2>2 DEF Lapse, StoreType, store, grants
  <2>3. ASSUME NEW t \in Targets, NEW s \in Shas, MoveHead(t, s) PROVE <1>1
    BY <1>0, <2>3 DEF MoveHead, StoreType, store, grants
  <2> QED
    BY <2>1, <2>2, <2>3 DEF Environment
<1>2. StoreInv'
  BY <1>0, <1>1
  DEF StoreInv, StoreType, BindingInv, RevokedHasRevocation, bindings, evidence
<1>3. CtlType' /\ ProcInv'
  BY <1>0, <1>1 DEF CtlType, ProcInv, bindings
<1> QED
  BY <1>2, <1>3 DEF TypeInv

\* Restoring paths touches the workspace only.
LEMMA RestoreKeeps ==
    ASSUME StoreInv, NEW t, NEW paths, NEW kept, Restore(t, paths, kept),
           UNCHANGED store
    PROVE  StoreInv' /\ Grows /\ UNCHANGED <<bstatus, revocations>>
<1>1. dirty' \in [Targets -> SUBSET Paths]
  BY DEF Restore, StoreInv, StoreType
<1> QED
  BY <1>1
  DEF Restore, StoreInv, StoreType, BindingInv, RevokedHasRevocation, Grows,
      store, grants, bindings, evidence

LEMMA JudgeKeeps ==
    ASSUME TypeInv, NEW p \in Procs,
           \/ Checkpoint(p) \/ Authority(p) \/ ScopeRoots(p)
           \/ \E kept \in SUBSET Paths : Classify(p, kept) \/ ClassifyRaises(p, kept)
           \/ Reload(p)
    PROVE  TypeInv'
<1> DEFINE l == loc[p]
<1>0. /\ StoreInv /\ StoreType /\ CtlType /\ ProcInv
      /\ WellPlaced(pc[p], l, bstatus, revocations) /\ l \in Local
  BY PlacedAt
<1>a. pc[p] \in BindingPlaces => /\ l.a \in Approvals /\ l.b \in Bindings
                                /\ bstatus[l.b] # "none"
                                /\ bstatus[l.b] \in BindingStatus
  BY <1>0 DEF WellPlaced, NeedsBinding, BindingPlaces, StoreType
<1>b. /\ {"idle", "exception", "exception.reload", "consequence", "recover.reload",
          "recover.outcome"} \subseteq ReturnPlaces
      /\ {"failed", "completed", "suspended"} \subseteq BindingStatus \ {"none"}
  BY DEF ReturnPlaces, Places, BindingStatus, BindingTerminal, Live
<1>1. CASE Checkpoint(p)
  <2>1. StoreInv' /\ Grows /\ UNCHANGED <<bstatus, revocations>>
    BY <1>0, <1>1, SameStore DEF Checkpoint
  <2>2. pc[p] = "checkpoint"
    BY <1>1 DEF Checkpoint
  <2>3. CASE l.bst \in Live
    <3>1. LoadApproval(p, l, "authority")
      BY <1>1, <2>3 DEF Checkpoint
    <3>2. /\ WellPlaced("authority", l, bstatus, revocations)
          /\ l.a \in Approvals /\ "authority" \in ReturnPlaces
      BY <1>0, <2>2 DEF WellPlaced, NeedsBinding, Places, BindingPlaces, ReturnPlaces
    <3>3. CtlType' /\ ProcInv'
      <4> HIDE DEF l
      <4> QED BY <1>0, <2>1, <3>1, <3>2, LoadOK DEF StoreType
    <3> QED
      BY <2>1, <3>3 DEF TypeInv
  <2>4. CASE l.bst \notin Live
    <3> DEFINE m == [l EXCEPT !.stop = "authority"]
    <3>1. Goto(p, "scope") /\ Remember(p, m)
      BY <1>1, <2>4 DEF Checkpoint
    <3>2. /\ m \in Local /\ m.a = l.a /\ m.b = l.b
          /\ m.ret = l.ret /\ m.err = l.err
      BY <1>0 DEF Local, Stops
    <3> HIDE DEF m
    <3>3. WellPlaced("scope", m, bstatus', revocations')
      BY <1>0, <1>a, <2>1, <2>2, <3>2 DEF WellPlaced, Places, BindingPlaces
    <3>4. CtlType' /\ ProcInv'
      BY <1>0, <2>1, <3>1, <3>3, MoveOK DEF Goto, Remember
    <3> QED
      BY <2>1, <3>4 DEF TypeInv
  <2> QED
    BY <2>3, <2>4
<1>2. CASE Authority(p)
  <2> DEFINE m == [l EXCEPT !.stop = StopReason(l)]
  <2>1. StoreInv' /\ Grows /\ UNCHANGED <<bstatus, revocations>>
    BY <1>0, <1>2, SameStore DEF Authority
  <2>2. pc[p] = "authority" /\ Goto(p, "scope") /\ Remember(p, m)
    BY <1>2 DEF Authority
  <2>3. StopReason(l) \in Stops
    BY DEF StopReason, Stops
  <2>4. /\ m \in Local /\ m.a = l.a /\ m.b = l.b
        /\ m.ret = l.ret /\ m.err = l.err
    BY <1>0, <2>3 DEF Local
  <2> HIDE DEF m
  <2>5. WellPlaced("scope", m, bstatus', revocations')
    BY <1>0, <1>a, <2>1, <2>2, <2>4 DEF WellPlaced, Places, BindingPlaces
  <2>6. CtlType' /\ ProcInv'
    BY <1>0, <2>1, <2>2, <2>5, MoveOK DEF Goto, Remember
  <2> QED
    BY <2>1, <2>6 DEF TypeInv
<1>3. CASE ScopeRoots(p)
  <2>1. StoreInv' /\ UNCHANGED <<bstatus, revocations>>
    BY <1>0, <1>3, SameStore DEF ScopeRoots
  <2>2. pc[p] = "scope" /\ LoadScopeRoots(p, l, "classify")
    BY <1>3 DEF ScopeRoots
  <2>3. /\ WellPlaced("classify", l, bstatus, revocations)
        /\ l.a \in Approvals /\ "classify" \in ReturnPlaces
    BY <1>0, <2>2
    DEF WellPlaced, NeedsBinding, Places, BindingPlaces, ReturnPlaces
  <2>4. CtlType' /\ ProcInv'
    <3> HIDE DEF l
    <3> QED BY <1>0, <2>1, <2>2, <2>3, LoadScopeRootsOK DEF StoreType
  <2> QED
    BY <2>1, <2>4 DEF TypeInv
<1>4. ASSUME NEW kept \in SUBSET Paths, Classify(p, kept)
      PROVE  TypeInv'
  <2> DEFINE m == [l EXCEPT !.compliance = ComplianceOf(l), !.failed = RunFailed(l)]
  <2>1. /\ pc[p] = "classify" /\ Goto(p, "reload") /\ Remember(p, m)
        /\ Restore(ApprovalTarget(l.a), OutOfScope(l), kept) /\ UNCHANGED store
    BY <1>4 DEF Classify
  <2>2. StoreInv' /\ Grows /\ UNCHANGED <<bstatus, revocations>>
    BY <1>0, <2>1, RestoreKeeps
  <2>3. ComplianceOf(l) \in Compliance /\ RunFailed(l) \in BOOLEAN
    BY <1>0 DEF ComplianceOf, RunFailed, Compliance, Local
  <2>4. /\ m \in Local /\ m.a = l.a /\ m.b = l.b
        /\ m.ret = l.ret /\ m.err = l.err
    BY <1>0, <2>3 DEF Local
  <2> HIDE DEF m
  <2>5. WellPlaced("reload", m, bstatus', revocations')
    BY <1>0, <1>a, <2>1, <2>2, <2>4 DEF WellPlaced, Places, BindingPlaces
  <2>6. CtlType' /\ ProcInv'
    BY <1>0, <2>1, <2>2, <2>5, MoveOK DEF Goto, Remember
  <2> QED
    BY <2>2, <2>6 DEF TypeInv
<1>5. ASSUME NEW kept \in SUBSET Paths, ClassifyRaises(p, kept)
      PROVE  TypeInv'
  <2> DEFINE m == [l EXCEPT !.op = "finalize"]
  <2>1. /\ pc[p] = "classify" /\ StartTransition(p, m, "failed", "idle", "idle")
        /\ Restore(ApprovalTarget(l.a), OutOfScope(l), kept) /\ UNCHANGED store
    BY <1>5 DEF ClassifyRaises
  <2>2. StoreInv' /\ UNCHANGED <<bstatus, revocations>>
    BY <1>0, <2>1, RestoreKeeps
  <2>3. m \in Local /\ m.a = l.a /\ m.b = l.b
    BY <1>0 DEF Local, Ops
  <2>4. m.a \in Approvals /\ m.b \in Bindings /\ bstatus[m.b] # "none"
    BY <1>a, <2>1, <2>3 DEF BindingPlaces, Places
  <2> HIDE DEF m
  <2>5. CtlType' /\ ProcInv'
    BY <1>0, <1>b, <2>1, <2>2, <2>3, <2>4, StartTransitionOK
  <2> QED
    BY <2>2, <2>5 DEF TypeInv
<1>6. CASE Reload(p)
  <2>1. StoreInv' /\ UNCHANGED <<bstatus, revocations>>
    BY <1>0, <1>6, SameStore DEF Reload
  <2>2. pc[p] = "reload" /\ LoadApproval(p, l, "settle")
    BY <1>6 DEF Reload
  <2>3. /\ WellPlaced("settle", l, bstatus, revocations)
        /\ l.a \in Approvals /\ "settle" \in ReturnPlaces
    BY <1>0, <2>2
    DEF WellPlaced, NeedsBinding, Places, BindingPlaces, ReturnPlaces
  <2>4. CtlType' /\ ProcInv'
    <3> HIDE DEF l
    <3> QED BY <1>0, <2>1, <2>2, <2>3, LoadOK DEF StoreType
  <2> QED
    BY <2>1, <2>4 DEF TypeInv
<1> QED
  BY <1>1, <1>2, <1>3, <1>4, <1>5, <1>6

LEMMA SettleKeeps ==
    ASSUME TypeInv, NEW p \in Procs,
           \/ Settle(p) \/ Consequence(p) \/ Consume(p)
           \/ Exception(p) \/ ExceptionReload(p) \/ WriteReceipt(p)
    PROVE  TypeInv'
<1> DEFINE l == loc[p]
<1>0. /\ StoreInv /\ StoreType /\ CtlType /\ ProcInv
      /\ WellPlaced(pc[p], l, bstatus, revocations) /\ l \in Local
  BY PlacedAt
<1>a. pc[p] \in BindingPlaces => /\ l.a \in Approvals /\ l.b \in Bindings
                                /\ bstatus[l.b] # "none"
                                /\ bstatus[l.b] \in BindingStatus
  BY <1>0 DEF WellPlaced, NeedsBinding, BindingPlaces, StoreType
<1>b. /\ {"idle", "exception", "exception.reload", "consequence", "recover.reload",
          "recover.outcome"} \subseteq ReturnPlaces
      /\ {"failed", "completed", "suspended"} \subseteq BindingStatus \ {"none"}
  BY DEF ReturnPlaces, Places, BindingStatus, BindingTerminal, Live
<1>1. CASE Settle(p)
  <2> DEFINE m == [l EXCEPT !.err = "exception"]
             want == IF /\ m.compliance \in {"within_scope", "no_mutation"}
                        /\ ~m.failed THEN "completed" ELSE "failed"
  <2>1. StoreInv' /\ Grows /\ UNCHANGED <<bstatus, revocations>>
    BY <1>0, <1>1, SameStore DEF Settle
  <2>2. /\ pc[p] = "settle"
        /\ IF m.bst \in Live
           THEN StartTransition(p, m, want, "consequence", "exception")
           ELSE Goto(p, "consequence") /\ Remember(p, m)
    BY <1>1 DEF Settle
  <2>3. /\ m \in Local /\ m.a = l.a /\ m.b = l.b
        /\ m.ret = l.ret /\ m.err = "exception"
    BY <1>0 DEF Local, Places
  <2>4. want \in BindingStatus \ {"none"}
    BY <1>b
  <2>5. m.a \in Approvals /\ m.b \in Bindings /\ bstatus[m.b] # "none"
    BY <1>a, <2>2, <2>3 DEF BindingPlaces, Places
  <2> HIDE DEF m, want
  <2>6. WellPlaced("consequence", m, bstatus', revocations')
    BY <1>0, <1>b, <2>1, <2>3, <2>5 DEF WellPlaced, Places
  <2>7. CtlType' /\ ProcInv'
    <3>1. CASE m.bst \in Live
      BY <1>0, <1>b, <2>1, <2>2, <2>3, <2>4, <2>5, <3>1, StartTransitionOK
    <3>2. CASE m.bst \notin Live
      BY <1>0, <2>1, <2>2, <2>6, <3>2, MoveOK DEF Goto, Remember
    <3> QED
      BY <3>1, <3>2
  <2> QED
    BY <2>1, <2>7 DEF TypeInv
<1>2. CASE Consequence(p)
  <2>1. StoreInv' /\ Grows /\ UNCHANGED <<bstatus, revocations>>
    BY <1>0, <1>2, SameStore DEF Consequence
  <2>2. pc[p] = "consequence"
    BY <1>2 DEF Consequence
  <2>3. /\ WellPlaced("consume", l, bstatus, revocations)
        /\ WellPlaced("revoke", l, bstatus, revocations)
        /\ WellPlaced("receipt", l, bstatus', revocations')
    BY <1>0, <1>a, <2>1, <2>2 DEF WellPlaced, Places, BindingPlaces
  <2>4. /\ l.a \in Approvals
        /\ {"consume", "revoke"} \subseteq ReturnPlaces
    BY <1>a, <2>2 DEF BindingPlaces, Places, ReturnPlaces
  <2>5. \/ LoadApproval(p, l, "consume")
        \/ LoadApproval(p, l, "revoke")
        \/ Goto(p, "receipt") /\ UNCHANGED loc
    BY <1>2 DEF Consequence, LoadApproval, Goto
  <2>6. CtlType' /\ ProcInv'
    <3> HIDE DEF l
    <3>1. CASE LoadApproval(p, l, "consume")
      BY <1>0, <2>1, <2>3, <2>4, <3>1, LoadOK DEF StoreType
    <3>2. CASE LoadApproval(p, l, "revoke")
      BY <1>0, <2>1, <2>3, <2>4, <3>2, LoadOK DEF StoreType
    <3>3. CASE Goto(p, "receipt") /\ UNCHANGED loc
      BY <1>0, <2>1, <2>3, <3>3, GotoOK DEF l
    <3> QED
      BY <2>5, <3>1, <3>2, <3>3
  <2> QED
    BY <2>1, <2>6 DEF TypeInv
<1>3. CASE Consume(p)
  <2>1. /\ pc[p] = "consume"
        /\ UNCHANGED <<proposals, revocations, bstatus, bapproval,
                       receipts, needsNew, lapsed, head, dirty>>
    BY <1>3 DEF Consume, grants, bindings, evidence, world
  <2>2. approval' \in {approval, [approval EXCEPT ![l.a] = "consumed"]}
    BY <1>3 DEF Consume
  <2>3. StoreInv' /\ Grows
    BY <1>0, <2>1, <2>2
    DEF StoreInv, StoreType, BindingInv, RevokedHasRevocation, Grows,
        ApprovalStatus, ApprovalTerminal
  <2>4. CASE l.seen = "approved"
    <3> DEFINE m == [l EXCEPT !.seen = "consumed"]
    <3>1. Goto(p, "receipt") /\ Remember(p, m)
      BY <1>3, <2>4 DEF Consume
    <3>2. /\ m \in Local /\ m.a = l.a /\ m.b = l.b
          /\ m.ret = l.ret /\ m.err = l.err
      BY <1>0 DEF Local, ApprovalStatus, ApprovalTerminal
    <3> HIDE DEF m
    <3>3. WellPlaced("receipt", m, bstatus', revocations')
      BY <1>0, <1>a, <2>1, <3>2 DEF WellPlaced, Places, BindingPlaces
    <3>4. CtlType' /\ ProcInv'
      BY <1>0, <2>3, <3>1, <3>3, MoveOK DEF Goto, Remember
    <3> QED
      BY <2>3, <3>4 DEF TypeInv
  <2>5. CASE l.seen # "approved"
    <3>1. Resume(p, l, l.err)
      BY <1>3, <2>5 DEF Consume, Raise
    <3>2. CtlType' /\ ProcInv'
      <4> HIDE DEF l
      <4> QED BY <1>0, <2>1, <2>3, <3>1, ContinueOK DEF WellPlaced, NeedsBinding
    <3> QED
      BY <2>3, <3>2 DEF TypeInv
  <2> QED
    BY <2>4, <2>5
<1>4. CASE Exception(p)
  <2> DEFINE m == [l EXCEPT !.failed = TRUE]
  <2>1. StoreInv' /\ Grows /\ UNCHANGED <<bstatus, revocations>>
    BY <1>0, <1>4, SameStore DEF Exception
  <2>2. /\ pc[p] = "exception"
        /\ IF m.bst \in Live
           THEN StartTransition(p, m, "failed", "exception.reload", "exception.reload")
           ELSE Goto(p, "exception.reload") /\ Remember(p, m)
    BY <1>4 DEF Exception
  <2>3. /\ m \in Local /\ m.a = l.a /\ m.b = l.b
        /\ m.ret = l.ret /\ m.err = l.err
    BY <1>0 DEF Local
  <2>4. m.a \in Approvals /\ m.b \in Bindings /\ bstatus[m.b] # "none"
    BY <1>a, <2>2, <2>3 DEF BindingPlaces, Places
  <2> HIDE DEF m
  <2>5. WellPlaced("exception.reload", m, bstatus', revocations')
    BY <1>0, <2>1, <2>3, <2>4 DEF WellPlaced, Places
  <2>6. CtlType' /\ ProcInv'
    <3>1. CASE m.bst \in Live
      BY <1>0, <1>b, <2>1, <2>2, <2>3, <2>4, <3>1, StartTransitionOK
    <3>2. CASE m.bst \notin Live
      BY <1>0, <2>1, <2>2, <2>5, <3>2, MoveOK DEF Goto, Remember
    <3> QED
      BY <3>1, <3>2
  <2> QED
    BY <2>1, <2>6 DEF TypeInv
<1>5. CASE ExceptionReload(p)
  <2>1. StoreInv' /\ UNCHANGED <<bstatus, revocations>>
    BY <1>0, <1>5, SameStore DEF ExceptionReload
  <2>2. pc[p] = "exception.reload" /\ LoadApproval(p, l, "receipt")
    BY <1>5 DEF ExceptionReload
  <2>3. /\ WellPlaced("receipt", l, bstatus, revocations)
        /\ l.a \in Approvals /\ "receipt" \in ReturnPlaces
    BY <1>0, <2>2
    DEF WellPlaced, NeedsBinding, Places, BindingPlaces, ReturnPlaces
  <2>4. CtlType' /\ ProcInv'
    <3> HIDE DEF l
    <3> QED BY <1>0, <2>1, <2>2, <2>3, LoadOK DEF StoreType
  <2> QED
    BY <2>1, <2>4 DEF TypeInv
<1>6. CASE WriteReceipt(p)
  <2> DEFINE r == [binding |-> l.b, approval |-> l.a, compliance |-> l.compliance,
                   binding_status |-> l.bst, approval_status |-> l.seen,
                   changed |-> l.changed, run_failed |-> l.failed]
  <2>1. /\ pc[p] = "receipt" /\ Exit(p) /\ receipts' = receipts \cup {r}
        /\ UNCHANGED <<proposals, approval, revocations, bstatus, bapproval,
                       needsNew, lapsed, head, dirty>>
    BY <1>6 DEF WriteReceipt, grants, bindings, world
  <2>2. r \in Receipt
    BY <1>0, <1>a, <2>1 DEF Receipt, Local, BindingPlaces, Places
  <2>3. StoreInv' /\ Grows
    BY <1>0, <2>1, <2>2
    DEF StoreInv, StoreType, BindingInv, RevokedHasRevocation, Grows
  <2>4. CtlType' /\ ProcInv'
    BY <1>0, <2>1, <2>3, ExitOK
  <2> QED
    BY <2>3, <2>4 DEF TypeInv
<1> QED
  BY <1>1, <1>2, <1>3, <1>4, <1>5, <1>6

LEMMA RecoverKeeps ==
    ASSUME TypeInv, NEW p \in Procs,
           \/ Diagnose(p) \/ RecoverSuspend(p) \/ RecoverReload(p)
           \/ RecoverRestore(p)
           \/ \E kept \in SUBSET Paths : RecoverGit(p, kept) \/ RecoverGitRaises(p, kept)
           \/ RecoverFail(p) \/ RecoverOutcome(p)
    PROVE  TypeInv'
<1> DEFINE l == loc[p]
<1>0. /\ StoreInv /\ StoreType /\ CtlType /\ ProcInv
      /\ WellPlaced(pc[p], l, bstatus, revocations) /\ l \in Local
  BY PlacedAt
<1>a. pc[p] \in BindingPlaces => /\ l.a \in Approvals /\ l.b \in Bindings
                                /\ bstatus[l.b] # "none"
                                /\ bstatus[l.b] \in BindingStatus
  BY <1>0 DEF WellPlaced, NeedsBinding, BindingPlaces, StoreType
<1>b. /\ {"idle", "exception", "exception.reload", "consequence", "recover.reload",
          "recover.outcome"} \subseteq ReturnPlaces
      /\ {"failed", "completed", "suspended"} \subseteq BindingStatus \ {"none"}
  BY DEF ReturnPlaces, Places, BindingStatus, BindingTerminal, Live
<1>1. CASE Diagnose(p)
  <2> DEFINE t == ApprovalTarget(l.a)
             diag == [dirty |-> dirty[t], stale |-> head[t] # ApprovalBase(l.a),
                      dead |-> l.seen \in {"expired", "revoked"},
                      receipt |-> \E r \in receipts : r.binding = l.b]
             m == [l EXCEPT !.diag = diag,
                     !.decision = IF @ = "auto" THEN "mark-failed" ELSE @]
  <2>1. StoreInv' /\ Grows /\ UNCHANGED <<bstatus, revocations>>
    BY <1>0, <1>1, SameStore DEF Diagnose
  <2>2. pc[p] = "diagnose"
    BY <1>1 DEF Diagnose
  <2>3. l.a \in Approvals /\ t \in Targets
    BY <1>a, <2>2, ConstantsAssumption DEF BindingPlaces, Places, ApprovalTarget
  <2>4. diag \in [dirty: SUBSET Paths, stale: BOOLEAN, dead: BOOLEAN,
                  receipt: BOOLEAN]
    BY <1>0, <2>3 DEF StoreType
  <2>5. Exit(p) \/ (Goto(p, "recover.suspend") /\ Remember(p, m))
    BY <1>1 DEF Diagnose, Exit
  <2> HIDE DEF diag
  <2>6. /\ m \in Local /\ m.a = l.a /\ m.b = l.b
        /\ m.ret = l.ret /\ m.err = l.err
    BY <1>0, <2>4 DEF Local, Decisions
  <2> HIDE DEF m
  <2>7. WellPlaced("recover.suspend", m, bstatus', revocations')
    BY <1>0, <1>a, <2>1, <2>2, <2>6 DEF WellPlaced, Places, BindingPlaces
  <2>8. CtlType' /\ ProcInv'
    BY <1>0, <2>1, <2>5, <2>7, ExitOK, MoveOK DEF Goto, Remember
  <2> QED
    BY <2>1, <2>8 DEF TypeInv
<1>2. CASE RecoverSuspend(p)
  <2> DEFINE m == [l EXCEPT !.bst = bstatus[l.b]]
  <2>1. StoreInv' /\ Grows /\ UNCHANGED <<bstatus, revocations>>
    BY <1>0, <1>2, SameStore DEF RecoverSuspend
  <2>2. pc[p] = "recover.suspend"
    BY <1>2 DEF RecoverSuspend
  <2>3. \/ Exit(p)
        \/ StartTransition(p, m, "suspended", "recover.reload", "idle")
        \/ Goto(p, "recover.reload") /\ Remember(p, m)
    BY <1>2 DEF RecoverSuspend, Exit, StartTransition
  <2>4. /\ m \in Local /\ m.a = l.a /\ m.b = l.b
        /\ m.ret = l.ret /\ m.err = l.err
    BY <1>0, <1>a, <2>2 DEF Local, BindingPlaces, Places
  <2>5. m.a \in Approvals /\ m.b \in Bindings /\ bstatus[m.b] # "none"
    BY <1>a, <2>2, <2>4 DEF BindingPlaces, Places
  <2> HIDE DEF m
  <2>6. WellPlaced("recover.reload", m, bstatus', revocations')
    BY <1>0, <2>1, <2>4, <2>5 DEF WellPlaced, Places
  <2>7. CtlType' /\ ProcInv'
    <3>1. CASE Exit(p)
      BY <1>0, <2>1, <3>1, ExitOK
    <3>2. CASE StartTransition(p, m, "suspended", "recover.reload", "idle")
      BY <1>0, <1>b, <2>1, <2>4, <2>5, <3>2, StartTransitionOK
    <3>3. CASE Goto(p, "recover.reload") /\ Remember(p, m)
      BY <1>0, <2>1, <2>6, <3>3, MoveOK DEF Goto, Remember
    <3> QED
      BY <2>3, <3>1, <3>2, <3>3
  <2> QED
    BY <2>1, <2>7 DEF TypeInv
<1>3. CASE RecoverReload(p)
  <2>1. StoreInv' /\ UNCHANGED <<bstatus, revocations>>
    BY <1>0, <1>3, SameStore DEF RecoverReload
  <2>2. pc[p] = "recover.reload" /\ LoadApproval(p, l, "recover.restore")
    BY <1>3 DEF RecoverReload
  <2>3. /\ WellPlaced("recover.restore", l, bstatus, revocations)
        /\ l.a \in Approvals /\ "recover.restore" \in ReturnPlaces
    BY <1>0, <2>2
    DEF WellPlaced, NeedsBinding, Places, BindingPlaces, ReturnPlaces
  <2>4. CtlType' /\ ProcInv'
    <3> HIDE DEF l
    <3> QED BY <1>0, <2>1, <2>2, <2>3, LoadOK DEF StoreType
  <2> QED
    BY <2>1, <2>4 DEF TypeInv
<1>4. CASE RecoverRestore(p)
  <2>1. StoreInv' /\ Grows /\ UNCHANGED <<bstatus, revocations>>
    BY <1>0, <1>4, SameStore DEF RecoverRestore
  <2>2. pc[p] = "recover.restore"
    BY <1>4 DEF RecoverRestore
  <2>3. /\ WellPlaced("recover.git", l, bstatus, revocations)
        /\ WellPlaced("recover.fail", l, bstatus', revocations')
        /\ l.a \in Approvals /\ "recover.git" \in ReturnPlaces
    BY <1>0, <1>a, <2>1, <2>2 DEF WellPlaced, Places, BindingPlaces, ReturnPlaces
  <2>4. \/ LoadScopeRoots(p, l, "recover.git")
        \/ Goto(p, "recover.fail") /\ UNCHANGED loc
    BY <1>4 DEF RecoverRestore, LoadScopeRoots, Goto
  <2>5. CtlType' /\ ProcInv'
    <3>1. CASE LoadScopeRoots(p, l, "recover.git")
      <4> HIDE DEF l
      <4> QED BY <1>0, <2>1, <2>3, <3>1, LoadScopeRootsOK
    <3>2. CASE Goto(p, "recover.fail") /\ UNCHANGED loc
      BY <1>0, <2>1, <2>3, <3>2, GotoOK
    <3> QED
      BY <2>4, <3>1, <3>2
  <2> QED
    BY <2>1, <2>5 DEF TypeInv
<1>5. ASSUME NEW kept \in SUBSET Paths, RecoverGit(p, kept)
      PROVE  TypeInv'
  <2>1. StoreInv' /\ Grows /\ UNCHANGED <<bstatus, revocations>>
    BY <1>0, <1>5, RestoreKeeps DEF RecoverGit
  <2>2. pc[p] = "recover.git"
    BY <1>5 DEF RecoverGit
  <2>3. WellPlaced("recover.fail", l, bstatus', revocations')
    BY <1>0, <1>a, <2>1, <2>2 DEF WellPlaced, Places, BindingPlaces
  <2>4. CtlType' /\ ProcInv'
    BY <1>0, <1>5, <2>1, <2>3, GotoOK DEF RecoverGit
  <2> QED
    BY <2>1, <2>4 DEF TypeInv
<1>6. ASSUME NEW kept \in SUBSET Paths, RecoverGitRaises(p, kept)
      PROVE  TypeInv'
  <2>1. StoreInv' /\ Grows
    BY <1>0, <1>6, RestoreKeeps DEF RecoverGitRaises
  <2>2. CtlType' /\ ProcInv'
    BY <1>0, <1>6, <2>1, ExitOK DEF RecoverGitRaises
  <2> QED
    BY <2>1, <2>2 DEF TypeInv
<1>7. CASE RecoverFail(p)
  <2>1. StoreInv' /\ Grows /\ UNCHANGED <<bstatus, revocations>>
    BY <1>0, <1>7, SameStore DEF RecoverFail
  <2>2. pc[p] = "recover.fail"
    BY <1>7 DEF RecoverFail
  <2>3. /\ l.a \in Approvals /\ l.b \in Bindings /\ bstatus[l.b] # "none"
        /\ WellPlaced("recover.outcome", l, bstatus', revocations')
    BY <1>0, <1>a, <2>1, <2>2 DEF WellPlaced, Places, BindingPlaces
  <2>4. CtlType' /\ ProcInv'
    <3>1. CASE l.bst \in Live
      <4>1. StartTransition(p, l, "failed", "recover.outcome", "idle")
        BY <1>7, <3>1 DEF RecoverFail
      <4> HIDE DEF l
      <4> QED BY <1>0, <1>b, <2>1, <2>3, <4>1, StartTransitionOK
    <3>2. CASE l.bst \notin Live
      BY <1>0, <1>7, <2>1, <2>3, <3>2, GotoOK DEF RecoverFail
    <3> QED
      BY <3>1, <3>2
  <2> QED
    BY <2>1, <2>4 DEF TypeInv
<1>8. CASE RecoverOutcome(p)
  <2>1. /\ pc[p] = "recover.outcome" /\ Exit(p)
        /\ needsNew' \in {needsNew, needsNew \cup {l.a}}
        /\ UNCHANGED <<proposals, approval, revocations, bstatus, bapproval,
                       receipts, lapsed, head, dirty>>
    BY <1>8 DEF RecoverOutcome, grants, bindings, world
  <2>2. l.a \in Approvals
    BY <1>a, <2>1 DEF BindingPlaces, Places
  <2>3. StoreInv' /\ Grows
    BY <1>0, <2>1, <2>2
    DEF StoreInv, StoreType, BindingInv, RevokedHasRevocation, Grows
  <2>4. CtlType' /\ ProcInv'
    BY <1>0, <2>1, <2>3, ExitOK
  <2> QED
    BY <2>3, <2>4 DEF TypeInv
<1> QED
  BY <1>1, <1>2, <1>3, <1>4, <1>5, <1>6, <1>7, <1>8

-----------------------------------------------------------------------------
(***************************************************************************)
(* The invariant, and what follows from it in every regime.                *)
(***************************************************************************)

LEMMA TypeInvInit == Init => TypeInv
<1> SUFFICES ASSUME Init PROVE TypeInv
  OBVIOUS
<1>1. StoreInv
  BY DEF Init, StoreInv, StoreType, BindingInv, RevokedHasRevocation,
         ApprovalStatus, BindingStatus
<1>2. \A p \in Procs : pc[p] = "idle" /\ loc[p] = Idle
  BY DEF Init
<1>3. ProcInv
  BY <1>2, IdleOK DEF ProcInv
<1>4. Idle \in Local /\ "idle" \in Places
  BY IdleOK DEF WellPlaced
<1>5. CtlType
  BY <1>4 DEF Init, CtlType
<1> QED
  BY <1>1, <1>3, <1>5 DEF TypeInv

LEMMA TypeInvNext == TypeInv /\ [Next]_vars => TypeInv'
<1> SUFFICES ASSUME TypeInv, [Next]_vars PROVE TypeInv'
  OBVIOUS
<1>1. CASE UNCHANGED vars
  <2>1. StoreInv'
    BY <1>1, SameStore DEF vars, TypeInv
  <2>2. CtlType' /\ ProcInv'
    BY <1>1
    DEF vars, store, bindings, grants, TypeInv, CtlType, ProcInv
  <2> QED
    BY <2>1, <2>2 DEF TypeInv
<1>2. ASSUME NEW p \in Procs, Command(p) PROVE TypeInv'
  BY <1>2, CommandKeeps
<1>3. ASSUME NEW p \in Procs, EndWork(p) PROVE TypeInv'
  BY <1>3, WorkKeeps
<1>4. ASSUME NEW p \in Procs, Step(p) PROVE TypeInv'
  BY <1>4, SubroutineKeeps, GrantKeeps, BindKeeps, JudgeKeeps, SettleKeeps,
     RecoverKeeps DEF Step
<1>5. ASSUME NEW p \in Procs, Crash(p) PROVE TypeInv'
  <2>1. StoreInv' /\ Grows
    BY <1>5, SameStore DEF Crash, TypeInv
  <2>2. CtlType' /\ ProcInv'
    BY <1>5, <2>1, ExitOK DEF Crash, TypeInv
  <2> QED
    BY <2>1, <2>2 DEF TypeInv
<1>6. ASSUME NEW p \in Procs, NEW path \in Paths, Mutate(p, path) PROVE TypeInv'
  BY <1>6, WorkKeeps
<1>7. CASE Environment
  BY <1>7, EnvironmentKeeps
<1> QED
  BY <1>1, <1>2, <1>3, <1>4, <1>5, <1>6, <1>7 DEF Next

\* The inductive invariant holds whatever commands overlap, crash or fail.
LEMMA TypeInvHolds == Spec => []TypeInv
BY TypeInvInit, TypeInvNext, PTL DEF Spec

\* Type correctness of the stores and of every command, for every instance and
\* in both regimes.
THEOREM TypeCorrect == Spec => []TypeOK
<1>1. TypeInv => TypeOK
  BY DEF TypeInv, StoreInv, StoreType, CtlType, TypeOK
<1> QED
  BY <1>1, TypeInvHolds, PTL

\* revoke_approval leaves no revoked approval without its revocation file,
\* even when commands overlap and a process dies between the two writes.
THEOREM RevocationFirst == Spec => []RevokedHasRevocation
<1>1. TypeInv => RevokedHasRevocation
  BY DEF TypeInv, StoreInv
<1> QED
  BY <1>1, TypeInvHolds, PTL
=============================================================================
