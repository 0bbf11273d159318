------------------------------- MODULE Runner -------------------------------
(***************************************************************************)
(* One run of an execution backend (execution_backends/: the `run` of      *)
(* hermes_opensandbox.py, claude_code.py, cursor_agent.py, amof_native.py, *)
(* with workspace_state.py and result_io.py), not bound to a write scope:  *)
(* it is refused, or its worker is started, and what the worker left in    *)
(* the workspace is collected, judged, restored and tried again.           *)
(*                                                                         *)
(* Three backends start a worker that may touch any file whatever it was   *)
(* told; the native one runs the loop of NativeLoop.  The workspace is     *)
(* looked at with `git status`, which may fail, and then shows nothing.    *)
(* Nobody else writes in the workspace.                                    *)
(***************************************************************************)
EXTENDS NativeLoop

VARIABLES before,  \* preexisting_changed_paths
          blind,   \* history: a look at the workspace missed a changed file
          att,     \* the replans used, and (history) the attempts
          result   \* the terminal result

vars == <<cfg, pc, file, late, loop, fp, ckpt, out, before, blind, att, result>>

Native == cfg.backend = "native"
Dirty == {p \in Paths : file[p] # Head}

\* _changed_paths: a repository whose `git status` fails is passed over with all its files.
Looks == SUBSET Dirty
Look(seen) == blind' = (blind \/ seen # Dirty)

\* Nothing compares the changes of a writable run of the other backends with its grant.
MayWrite == IF ~cfg.writable THEN {} ELSE IF Native THEN Granted ELSE Paths
Overstep(changed) == changed \ MayWrite

\* wants: a proposal is required.  edit: AMOF_FIRST_EDIT_PATH.  gate: AMOF_READ_STALL_GATE.
\* The native profiles other than the general one need matching grants.
Configs ==
    {c \in [backend : {"hermes", "claude", "cursor", "native"},
            profile : {"cli", "general", "workspace", "exact", "document"},
            writable : BOOLEAN, wants : BOOLEAN, edit : BOOLEAN, gate : BOOLEAN] :
        /\ c.backend = "native" <=> c.profile # "cli"
        /\ c.profile \in {"workspace", "exact", "document"} => c.writable
        /\ c.wants => ~c.writable
        /\ c.edit => c.profile \in {"workspace", "exact"}
        /\ c.gate => c.profile = "workspace"}

NoResult == [status |-> "none", stop |-> "none"]

Init ==
    /\ cfg \in Configs
    /\ file \in [Paths -> Contents]
    /\ pc = "start" /\ late = {} /\ loop = NewLoop /\ fp = NoFingerprint /\ ckpt = NoFingerprint
    /\ out = NoOutcome /\ before = {} /\ blind = FALSE /\ att = [ro |-> FALSE, prop |-> FALSE, n |-> 0] /\ result = NoResult

-----------------------------------------------------------------------------
(* Starting *)

Finish(status, stop) == pc' = "done" /\ result' = [status |-> status, stop |-> stop]

\* _blocked_result: no transport, no credential, no dispatch, an unresolved grant or target.
Refuse ==
    /\ pc = "start"
    /\ Finish("blocked", "unavailable")
    /\ UNCHANGED <<cfg, file, late, loop, fp, ckpt, out, before, blind, att>>

\* A read-only run does not find the workspace clean.
Unclean ==
    /\ pc = "start" /\ ~cfg.writable /\ Dirty # {}
    /\ Finish("blocked", "read_only_workspace_not_clean")
    /\ UNCHANGED <<cfg, file, late, loop, fp, ckpt, out, before, blind, att>>

Attempt(a) ==
    /\ pc' = IF Native THEN "turn" ELSE "worker"
    /\ loop' = NewLoop /\ fp' = NoFingerprint /\ ckpt' = NoFingerprint /\ out' = NoOutcome
    /\ att' = [a EXCEPT !.n = @ + 1]

Start ==
    /\ pc = "start"
    /\ \E seen \in Looks :
          /\ cfg.writable \/ seen = {}
          /\ before' = seen /\ Look(seen)
    /\ Attempt(att)
    /\ UNCHANGED <<cfg, file, late, result>>

\* Every git is given ten seconds; that it took longer is raised out of `run`.
GitTimesOut ==
    /\ pc \in {"start", "collect"}
    /\ pc' = "raised"
    /\ UNCHANGED <<cfg, file, late, loop, fp, ckpt, out, before, blind, att, result>>

-----------------------------------------------------------------------------
(* The worker of the other backends *)

WorkerWrites(p, c) ==
    /\ pc = "worker"
    /\ file' = [file EXCEPT ![p] = c]
    /\ UNCHANGED <<cfg, pc, late, loop, fp, ckpt, out, before, blind, att, result>>

AtWorker(b) == pc = "worker" /\ cfg.backend = b
Stays == UNCHANGED <<cfg, file, loop, fp, ckpt, before, blind, att, result>>

\* subprocess.run of hermes behind _RemoteIALOpenAIAdapter: its exit code, or an exception.
HermesEnds ==
    /\ AtWorker("hermes")
    /\ \/ Ended("completed", "completed")
       \/ \E stop \in {"hermes_process_failed", "hermes_runtime_exception"} : Ended("failed", stop)
    /\ Stays /\ UNCHANGED late

\* The process is killed, its children are not.  What was captured until then is bytes, and
\* written out as text: that raises, out of `run`, unless there is nothing.
HermesTimesOut ==
    /\ AtWorker("hermes")
    /\ Ended("failed", "timeout") \/ (pc' = "raised" /\ UNCHANGED out)
    /\ late' = Paths
    /\ Stays

\* The exit code, an exception, or is_error in what _parse_cli_envelope reads.
ClaudeEnds ==
    /\ AtWorker("claude")
    /\ \/ Ended("completed", "completed")
       \/ \E stop \in {"claude_process_failed", "claude_runtime_exception"} : Ended("failed", stop)
    /\ Stays /\ UNCHANGED late

ClaudeTimesOut ==
    /\ AtWorker("claude")
    /\ Ended("failed", "timeout")
    /\ late' = Paths
    /\ Stays

\* What the SDK says.  There is no timeout here: an agent that expired says so itself.
CursorEnds ==
    /\ AtWorker("cursor")
    /\ \/ Ended("completed", "completed")
       \/ Ended("blocked", "cursor_agent_dispatch_unavailable")
       \/ \E stop \in {"cancelled", "timeout", "cursor_agent_run_failed", "cursor_agent_runtime_exception"} :
             Ended("failed", stop)
    /\ Stays /\ UNCHANGED late

WorkerEnds == HermesEnds \/ HermesTimesOut \/ ClaudeEnds \/ ClaudeTimesOut \/ CursorEnds

\* What was left running.
LateWrite(p, c) ==
    /\ p \in late
    /\ file' = [file EXCEPT ![p] = c]
    /\ UNCHANGED <<cfg, pc, late, loop, fp, ckpt, out, before, blind, att, result>>

-----------------------------------------------------------------------------
(* What it left; changed: _changed_paths_delta of the look *)

Judging == pc = "collect" /\ out.status = "completed"
Kept == UNCHANGED <<cfg, file, late, loop, fp, ckpt, out, before, att>>

\* The attempt did not complete: nothing is restored.
Report ==
    /\ pc = "collect" /\ out.status # "completed"
    /\ Finish(out.status, out.stop)
    /\ Kept /\ UNCHANGED blind

\* _changed_paths_outside_grants; of a read-only run every change is outside.
OutsideGrant(changed) ==
    /\ Judging /\ Native /\ Overstep(changed) # {}
    /\ Finish("failed", "write_outside_grant")
    /\ Kept

\* infer_validation_status of what the worker wrote.  The other backends ask before they look
\* for changes that a read-only run may not make, and then leave them.
Invalid(changed) ==
    /\ Judging /\ (Native => Overstep(changed) = {})
    /\ Finish("failed", "validation_failed")
    /\ Kept

\* _restore_read_only_paths, whose failures are not looked at.
Restore(changed) ==
    \E kept \in SUBSET changed :
        file' = [p \in Paths |-> IF p \in changed \ kept THEN Head ELSE file[p]]

\* Mutant: every change is restored and tried again.
MutatedForever(changed) ==
    /\ Judging /\ ~Native /\ Overstep(changed) # {}
    /\ Restore(changed)
    /\ pc' = "worker"
    /\ UNCHANGED <<cfg, late, loop, fp, ckpt, out, before, att, result>>

\* Mutant: the replan starts from the workspace as it was left.
MutatedRebased(changed) ==
    /\ Judging /\ ~Native /\ Overstep(changed) # {} /\ ~att.ro
    /\ Restore(changed)
    /\ before' = {p \in Paths : file'[p] # Head}
    /\ Attempt([att EXCEPT !.ro = TRUE])
    /\ UNCHANGED <<cfg, late, result>>

\* The changes of a read-only run are restored, and it is replanned once; or a git of the
\* restoration takes too long.
Mutated(changed) ==
    /\ Judging /\ ~Native /\ Overstep(changed) # {}
    /\ Restore(changed)
    /\ \/ att.ro /\ Finish("failed", "read_only_mutation_detected") /\ UNCHANGED <<loop, fp, ckpt, out, att>>
       \/ ~att.ro /\ Attempt([att EXCEPT !.ro = TRUE]) /\ UNCHANGED result
       \/ pc' = "raised" /\ UNCHANGED <<loop, fp, ckpt, out, att, result>>
    /\ UNCHANGED <<cfg, late, before>>

\* The proposal that was asked for is missing: one replan.
Missing(changed) ==
    /\ Judging /\ Overstep(changed) = {} /\ cfg.wants
    /\ IF att.prop
       THEN Finish("blocked", "write_scope_proposal_required") /\ UNCHANGED <<loop, fp, ckpt, out, att>>
       ELSE Attempt([att EXCEPT !.prop = TRUE]) /\ UNCHANGED result
    /\ UNCHANGED <<cfg, file, late, before>>

Accept(changed) ==
    /\ Judging /\ Overstep(changed) = {}
    /\ Finish("completed", out.stop)
    /\ Kept

Verdicts(changed) ==
    OutsideGrant(changed) \/ Invalid(changed) \/ Mutated(changed) \/ Missing(changed) \/ Accept(changed)

NativeStep == Native /\ LoopStep /\ UNCHANGED <<before, blind, att, result>>
Judge == Report \/ \E seen \in Looks : Look(seen) /\ Verdicts(seen \ before)
Finished == pc \in {"done", "raised"} /\ UNCHANGED vars

Next == \/ Refuse \/ Unclean \/ Start \/ NativeStep \/ WorkerEnds \/ Judge \/ GitTimesOut \/ Finished
        \/ \E p \in Paths, c \in Contents : WorkerWrites(p, c) \/ LateWrite(p, c)

\* This process takes its steps, and a worker ends or is timed out.
Spec ==
    /\ Init /\ [][Next]_vars
    /\ WF_vars(Refuse \/ Unclean \/ Start \/ NativeStep \/ Judge)
    /\ WF_vars(WorkerEnds)

-----------------------------------------------------------------------------
(* Properties *)

\* The records are well formed; there is a result exactly when the run has ended with one, and
\* a run takes at most three attempts.
TypeOK ==
    /\ cfg \in Configs
    /\ pc \in {"start", "worker", "turn", "answer", "tools", "budget", "collect", "done", "raised"}
    /\ LoopTypeOK
    /\ before \subseteq Paths /\ blind \in BOOLEAN
    /\ att \in [ro : BOOLEAN, prop : BOOLEAN, n : 0..3]
    /\ result.status \in {"none", "blocked", "failed", "completed"}
    /\ (result.status # "none") <=> (pc = "done")

\* "Read-only" and the grant are kept by looking, not by prevention.  If no look missed a
\* file, a completed read-only run of any backend leaves a clean workspace, and a completed
\* native run leaves every file outside its grant that was clean before as git has it: over
\* replans, restores that fail, and writes that come late.  What was dirty before is not
\* compared, and the writable runs of the other backends are not held to a grant at all.
CompletedWithinGrant ==
    result.status = "completed" /\ ~blind =>
        /\ ~cfg.writable => Dirty = {}
        /\ Native => Dirty \subseteq before \cup Granted

\* The native profiles without a shell are confined by prevention: no step touches a file
\* outside the grant, whether git sees it or not, in runs that fail or raise too, and not by
\* a write that is carried out after the run has ended.
GovernedOnly ==
    [][Native /\ cfg.profile # "general" => \A p \in Paths \ Granted : file'[p] = file[p]]_vars

\* A run that is replanned, restored and extended ends: with its result, or with an exception.
Ends == <>(pc \in {"done", "raised"})
=============================================================================
