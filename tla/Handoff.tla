------------------------------- MODULE Handoff -------------------------------
(***************************************************************************)
(* Handoffs (commands/handoff.py over trust_layer.py): a packet in the     *)
(* outbox is accepted, executed once by whoever claims it, and its result  *)
(* is sealed, signed and published, by the executor itself or, when that   *)
(* was deferred, by a trusted parent later.  Every file is written by      *)
(* itself, processes interleave between the writes and die at any of them, *)
(* and execute-agent, accept-agent and finalize-agent may be called at any *)
(* time and any number of times.                                           *)
(***************************************************************************)
EXTENDS Naturals

CONSTANTS Handoffs,
          Procs,     \* processes that run execute-agent or finalize-agent
          None,      \* no handoff
          ByHand,    \* bound: handoffs that somebody calls accept-agent on
          Crashes    \* bound: processes that die

ASSUME NoneIsNoHandoff == None \notin Handoffs
ASSUME CrashesIsNat == Crashes \in Nat

VARIABLES packet,    \* handoffs with a packet in the outbox
          accepting, \* handoffs that an accept-agent found without a state
          claim,     \* handoffs with a claim file
          state,     \* the state sidecars
          result,    \* the result files
          receipt,   \* the receipt files
          seal,      \* the evidence seals: a copy of the receipt, and its digest
          bundle,    \* the published evidence bundles, by the result they hold
          proc,      \* the processes
          ran,       \* history: calls of the runner by the executor
          again,     \* history: calls of it by the except clause of the first
          crashes    \* processes that died

handoffVars == <<packet, accepting, claim, state, result, receipt, seal, bundle, proc, ran, again, crashes>>

-----------------------------------------------------------------------------
(* Records *)

Outcomes == {"completed", "failed"}
States == {"none", "accepted", "queued", "execution_started", "finalized"} \cup Outcomes
Receipts == {"none", "torn", "plain", "pending", "unsealed", "finalized"}
NoSeal == [copy |-> "none", digest |-> "none"]

\* defer: AMOF_HANDOFF_DEFER_FINALIZATION; write: the receipt it is about to write.
Idle == [pc |-> "idle", h |-> None, parent |-> FALSE, defer |-> FALSE,
         outcome |-> "none", copied |-> "none", write |-> "none"]

Pcs == {"idle", "claim", "queue", "gate", "run", "retry", "result", "receipt", "status",
        "sealCheck", "sealCopy", "sealWrite", "publish", "truncate", "rewrite", "finish"}

HandoffInit ==
    /\ packet = {}
    /\ accepting = {}
    /\ claim = {}
    /\ state = [h \in Handoffs |-> "none"]
    /\ result = [h \in Handoffs |-> "none"]
    /\ receipt = [h \in Handoffs |-> "none"]
    /\ seal = [h \in Handoffs |-> NoSeal]
    /\ bundle = [h \in Handoffs |-> "none"]
    /\ proc = [p \in Procs |-> Idle]
    /\ ran = [h \in Handoffs |-> 0]
    /\ again = [h \in Handoffs |-> 0]
    /\ crashes = 0

At(p, pc) == proc[p].pc = pc
Go(p, pc) == proc' = [proc EXCEPT ![p].pc = pc]
Stop(p) == proc' = [proc EXCEPT ![p] = Idle]

-----------------------------------------------------------------------------
(* What others see *)

\* verify_evidence_seal
SealVerifies(h) == seal[h].digest # "none" /\ seal[h].copy = seal[h].digest

\* Mutant: the state sidecar alone decides.
ReportedFromState(h) == IF state[h] = "none" THEN "prepared" ELSE state[h]

\* _handoff_status_payload: the lifecycle it reports.
Reported(h) ==
    CASE state[h] = "finalized" \/ receipt[h] = "finalized" -> "finalized"
      [] OTHER -> IF result[h] # "none" THEN result[h]
                  ELSE IF state[h] \in Outcomes THEN "result_missing"
                  ELSE IF state[h] = "none" THEN "prepared" ELSE state[h]

\* _verify_consumed_execution_result: a result needs its receipt, and a finalized one
\* its seal and its bundle.
StatusRaises(h) ==
    /\ result[h] # "none"
    /\ \/ receipt[h] \in {"none", "torn"}
       \/ Reported(h) = "finalized" /\ ~(SealVerifies(h) /\ bundle[h] # "none")

-----------------------------------------------------------------------------
(* accept-agent *)

AcceptRead(h) ==
    /\ h \in packet \cap ByHand /\ state[h] = "none"
    /\ accepting' = accepting \cup {h}
    /\ UNCHANGED <<packet, claim, state, result, receipt, seal, bundle, proc, ran, again, crashes>>

AcceptWrite(h) ==
    /\ h \in accepting
    /\ state' = [state EXCEPT ![h] = "accepted"]
    /\ accepting' = accepting \ {h}
    /\ UNCHANGED <<packet, claim, result, receipt, seal, bundle, proc, ran, again, crashes>>

-----------------------------------------------------------------------------
(* execute-agent *)

\* The packet is there and its state allows an execution.
ExecuteLoad(p, h) ==
    /\ At(p, "idle")
    /\ h \in packet /\ state[h] \in {"none", "accepted"}
    /\ \E defer \in BOOLEAN :
          proc' = [proc EXCEPT ![p] = [Idle EXCEPT !.pc = "claim", !.h = h, !.defer = defer]]
    /\ UNCHANGED <<packet, accepting, claim, state, result, receipt, seal, bundle, ran, again, crashes>>

\* Mutant: a claim that is there already is taken over.
ClaimAnyway(p) ==
    /\ At(p, "claim")
    /\ claim' = claim \cup {proc[p].h}
    /\ Go(p, "queue")
    /\ UNCHANGED <<packet, accepting, state, result, receipt, seal, bundle, ran, again, crashes>>

\* _claim_execution_once: O_EXCL, and a claim is never given back.
Claim(p) ==
    /\ At(p, "claim")
    /\ \/ /\ proc[p].h \notin claim
          /\ claim' = claim \cup {proc[p].h}
          /\ Go(p, "queue")
       \/ /\ proc[p].h \in claim
          /\ Stop(p)
          /\ UNCHANGED claim
    /\ UNCHANGED <<packet, accepting, state, result, receipt, seal, bundle, ran, again, crashes>>

Queue(p) ==
    /\ At(p, "queue")
    /\ state' = [state EXCEPT ![proc[p].h] = "queued"]
    /\ Go(p, "gate")
    /\ UNCHANGED <<packet, accepting, claim, result, receipt, seal, bundle, ran, again, crashes>>

\* Mutant: a refused execution gives its claim back.
GateFailsUnclaimed(p) ==
    /\ At(p, "gate")
    /\ claim' = claim \ {proc[p].h}
    /\ proc' = [proc EXCEPT ![p].pc = "result", ![p].outcome = "failed"]
    /\ UNCHANGED <<packet, accepting, state, result, receipt, seal, bundle, ran, again, crashes>>

\* The write-scope bind gate: without its binding the runner is never started.
GateFails(p) ==
    /\ At(p, "gate")
    /\ proc' = [proc EXCEPT ![p].pc = "result", ![p].outcome = "failed"]
    /\ UNCHANGED <<packet, accepting, claim, state, result, receipt, seal, bundle, ran, again, crashes>>

Start(p) ==
    /\ At(p, "gate")
    /\ state' = [state EXCEPT ![proc[p].h] = "execution_started"]
    /\ Go(p, "run")
    /\ UNCHANGED <<packet, accepting, claim, result, receipt, seal, bundle, ran, again, crashes>>

\* The dispatch raises before the runner is called: no such backend, no usable selection.
DispatchFails(p) ==
    /\ At(p, "run")
    /\ proc' = [proc EXCEPT ![p].pc = "result", ![p].outcome = "failed"]
    /\ UNCHANGED <<packet, accepting, claim, state, result, receipt, seal, bundle, ran, again, crashes>>

\* The runner works and returns, or raises, which counts as a failure; but a TypeError,
\* wherever in the run it comes from, is taken for a runner that knows no validation gates.
Run(p) ==
    /\ At(p, "run")
    /\ ran' = [ran EXCEPT ![proc[p].h] = @ + 1]
    /\ \/ \E o \in Outcomes : proc' = [proc EXCEPT ![p].pc = "result", ![p].outcome = o]
       \/ Go(p, "retry")
    /\ UNCHANGED <<packet, accepting, claim, state, result, receipt, seal, bundle, again, crashes>>

\* Then it is called without them, and whatever that raises counts.
Retry(p) ==
    /\ At(p, "retry")
    /\ again' = [again EXCEPT ![proc[p].h] = @ + 1]
    /\ \E o \in Outcomes : proc' = [proc EXCEPT ![p].pc = "result", ![p].outcome = o]
    /\ UNCHANGED <<packet, accepting, claim, state, result, receipt, seal, bundle, ran, crashes>>

WriteResult(p) ==
    /\ At(p, "result")
    /\ result' = [result EXCEPT ![proc[p].h] = proc[p].outcome]
    /\ Go(p, "receipt")
    /\ UNCHANGED <<packet, accepting, claim, state, receipt, seal, bundle, ran, again, crashes>>

WriteReceipt(p) ==
    /\ At(p, "receipt")
    /\ receipt' = [receipt EXCEPT ![proc[p].h] = "plain"]
    /\ Go(p, "status")
    /\ UNCHANGED <<packet, accepting, claim, state, result, seal, bundle, ran, again, crashes>>

\* The state follows, and then the seal, or the note that a parent shall do it.
WriteStatus(p) ==
    /\ At(p, "status")
    /\ state' = [state EXCEPT ![proc[p].h] = proc[p].outcome]
    /\ proc' = [proc EXCEPT ![p].pc = IF proc[p].defer THEN "truncate" ELSE "sealCheck",
                            ![p].write = IF proc[p].defer THEN "pending" ELSE "none"]
    /\ UNCHANGED <<packet, accepting, claim, result, receipt, seal, bundle, ran, again, crashes>>

-----------------------------------------------------------------------------
(* finalize-agent, and what it shares with execute-agent *)

\* Only a deferred receipt that agrees with the state qualifies.
FinalizeLoad(p, h) ==
    /\ At(p, "idle")
    /\ state[h] \in Outcomes /\ receipt[h] = "pending" /\ result[h] = state[h]
    /\ proc' = [proc EXCEPT ![p] = [Idle EXCEPT !.pc = "sealCheck", !.h = h, !.parent = TRUE,
                                               !.outcome = result[h]]]
    /\ UNCHANGED <<packet, accepting, claim, state, result, receipt, seal, bundle, ran, again, crashes>>

\* Mutant: an integrity error does not stop the finalization.
RaiseIgnored(p) == proc' = [proc EXCEPT ![p].pc = "truncate", ![p].write = "finalized"]

\* A TrustIntegrityError: the executor keeps its result and says so in the receipt, a
\* parent leaves everything as it is.
Raise(p) ==
    IF proc[p].parent THEN Stop(p)
    ELSE proc' = [proc EXCEPT ![p].pc = "truncate", ![p].write = "unsealed"]

\* seal_evidence_artifacts: nothing may be there yet.
SealCheck(p) ==
    /\ At(p, "sealCheck")
    /\ IF seal[proc[p].h] = NoSeal THEN Go(p, "sealCopy") ELSE Raise(p)
    /\ UNCHANGED <<packet, accepting, claim, state, result, receipt, seal, bundle, ran, again, crashes>>

SealCopy(p) ==
    /\ At(p, "sealCopy")
    /\ seal' = [seal EXCEPT ![proc[p].h].copy = receipt[proc[p].h]]
    /\ proc' = [proc EXCEPT ![p].pc = "sealWrite", ![p].copied = receipt[proc[p].h]]
    /\ UNCHANGED <<packet, accepting, claim, state, result, receipt, bundle, ran, again, crashes>>

\* The seal's own receipt is created exclusively; FileExistsError is no integrity error.
SealWrite(p) ==
    /\ At(p, "sealWrite")
    /\ \/ /\ seal[proc[p].h].digest = "none"
          /\ seal' = [seal EXCEPT ![proc[p].h].digest = proc[p].copied]
          /\ Go(p, "publish")
       \/ /\ seal[proc[p].h].digest # "none"
          /\ Stop(p)
          /\ UNCHANGED seal
    /\ UNCHANGED <<packet, accepting, claim, state, result, receipt, bundle, ran, again, crashes>>

\* finalize_signed_evidence_bundle: the bundle is written and signed aside and renamed
\* to its place, which must be free.
Publish(p) ==
    LET h == proc[p].h
    IN  /\ At(p, "publish")
        /\ SealVerifies(h) /\ bundle[h] = "none"
        /\ bundle' = [bundle EXCEPT ![h] = result[h]]
        /\ proc' = [proc EXCEPT ![p].pc = "truncate", ![p].write = "finalized"]
        /\ UNCHANGED <<packet, accepting, claim, state, result, receipt, seal, ran, again, crashes>>

\* The seal does not verify, there is no usable signing key, or, which is raised to
\* whoever called, there is a bundle already.
PublishFails(p) ==
    /\ At(p, "publish")
    /\ IF bundle[proc[p].h] = "none" THEN Raise(p) ELSE Stop(p)
    /\ UNCHANGED <<packet, accepting, claim, state, result, receipt, seal, bundle, ran, again, crashes>>

\* _write_operator_only_json opens with O_TRUNC and then writes.
Truncate(p) ==
    /\ At(p, "truncate")
    /\ receipt' = [receipt EXCEPT ![proc[p].h] = "torn"]
    /\ Go(p, "rewrite")
    /\ UNCHANGED <<packet, accepting, claim, state, result, seal, bundle, ran, again, crashes>>

Rewrite(p) ==
    /\ At(p, "rewrite")
    /\ receipt' = [receipt EXCEPT ![proc[p].h] = proc[p].write]
    /\ IF proc[p].write = "finalized" THEN Go(p, "finish") ELSE Stop(p)
    /\ UNCHANGED <<packet, accepting, claim, state, result, seal, bundle, ran, again, crashes>>

Finish(p) ==
    /\ At(p, "finish")
    /\ state' = [state EXCEPT ![proc[p].h] = "finalized"]
    /\ Stop(p)
    /\ UNCHANGED <<packet, accepting, claim, result, receipt, seal, bundle, ran, again, crashes>>

-----------------------------------------------------------------------------

Crash(p) ==
    /\ ~At(p, "idle") /\ crashes < Crashes
    /\ crashes' = crashes + 1
    /\ Stop(p)
    /\ UNCHANGED <<packet, accepting, claim, state, result, receipt, seal, bundle, ran, again>>

\* The steps of a process that is under way.
Work(p) ==
    \/ Claim(p) \/ Queue(p) \/ GateFails(p) \/ Start(p) \/ DispatchFails(p) \/ Run(p) \/ Retry(p)
    \/ WriteResult(p) \/ WriteReceipt(p) \/ WriteStatus(p)
    \/ SealCheck(p) \/ SealCopy(p) \/ SealWrite(p)
    \/ Publish(p) \/ PublishFails(p)
    \/ Truncate(p) \/ Rewrite(p) \/ Finish(p)

HandoffNext ==
    \/ \E h \in Handoffs : AcceptRead(h) \/ AcceptWrite(h)
    \/ \E p \in Procs : \/ Work(p) \/ Crash(p)
                        \/ \E h \in Handoffs : ExecuteLoad(p, h) \/ FinalizeLoad(p, h)

-----------------------------------------------------------------------------
(* Properties *)

HandoffTypeOK ==
    /\ packet \subseteq Handoffs /\ accepting \subseteq packet /\ claim \subseteq packet
    /\ state \in [Handoffs -> States]
    /\ result \in [Handoffs -> {"none"} \cup Outcomes]
    /\ receipt \in [Handoffs -> Receipts]
    /\ seal \in [Handoffs -> [copy : Receipts, digest : Receipts]]
    /\ bundle \in [Handoffs -> {"none"} \cup Outcomes]
    /\ proc \in [Procs -> [pc : Pcs, h : Handoffs \cup {None}, parent : BOOLEAN, defer : BOOLEAN,
                           outcome : {"none"} \cup Outcomes, copied : Receipts, write : Receipts]]
    /\ ran \in [Handoffs -> Nat] /\ again \in [Handoffs -> Nat]
    /\ crashes \in 0..Crashes

\* Whatever is called however often, whoever dies where, and although accept-agent can
\* put "accepted" over any later state, a handoff's runner is called by one execution
\* only, once, and a second time only by the except clause of that call (a TypeError may
\* come out of a run whose worker had started: hermes_opensandbox.py:875); and no runner
\* is called for a handoff whose result is recorded.
ExecutedOnce ==
    /\ \A h \in Handoffs : ran[h] <= 1 /\ again[h] <= ran[h]
    /\ \A p \in Procs : proc[p].pc \in {"run", "retry"} => result[proc[p].h] = "none"

\* A receipt or a state that says finalized is backed by a published bundle with the
\* recorded result.
EvidenceTrue ==
    \A h \in Handoffs :
        receipt[h] = "finalized" \/ state[h] = "finalized" => bundle[h] # "none" /\ bundle[h] = result[h]

\* Once a handoff is reported with an outcome it is never again reported as under way,
\* and once finalized always finalized, whatever the state sidecar says.
Final == Outcomes \cup {"finalized", "result_missing"}
ReportStands ==
    \A h \in Handoffs :
        /\ Reported(h) \in Final => Reported(h)' \in Final
        /\ Reported(h) = "finalized" => Reported(h)' = "finalized"

\* The abstract handoff this one implements.
Phase(h) == IF result[h] # "none" THEN "recorded" ELSE IF h \in claim THEN "taken" ELSE "open"
Outcome == INSTANCE HandoffOutcome
               WITH phase <- [h \in Handoffs |-> Phase(h)], outcome <- result, published <- bundle
=============================================================================
