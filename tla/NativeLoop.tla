----------------------------- MODULE NativeLoop -----------------------------
(***************************************************************************)
(* The model loop of the native backend (execution_backends/amof_native.py *)
(* and native_loop_budget.py): the model is called turn by turn, its tool  *)
(* calls are carried out and fingerprinted, and at the end of its budget   *)
(* the loop stops, asks a read-only model for one last answer, or is       *)
(* extended because the fingerprint has moved since the last checkpoint.   *)
(*                                                                         *)
(* The fingerprint's digests are hash chains: each is here the number of   *)
(* links, and two of them differ when the numbers do.  Only the digest of  *)
(* the granted files is one of contents, which can come back.              *)
(***************************************************************************)
EXTENDS Integers, FiniteSets

CONSTANTS Paths,         \* the files of the workspace
          Granted,       \* the ones a writable run may write
          Contents,      \* what a file can hold
          Head,          \* what git has of every file
          Base,          \* policy.base_turn_limit
          Increment,     \* policy.extension_increment
          MaxExtensions, \* policy.max_extension_count
          Absolute,      \* policy.absolute_turn_limit
          StallReads,    \* repeated reads that the stall gate allows: 6 in the code
          CallsPerTurn   \* bound: tool calls of one answer

ASSUME GrantIsOfPaths == Granted \subseteq Paths /\ Head \in Contents
\* LoopBudgetPolicy.validate
ASSUME PolicyIsValid ==
    /\ Base \in Nat \ {0} /\ Increment \in Nat \ {0} /\ MaxExtensions \in Nat
    /\ Absolute \in Base..(3 * Base)
ASSUME BoundsAreNat == StallReads \in Nat /\ CallsPerTurn \in Nat \ {0}

VARIABLES cfg,     \* the run: its backend, its profile, what it may and must do
          pc,
          file,    \* the workspace
          late,    \* the files that may still be written from outside this process: by a governed
                   \* write that was not answered, by the children of a process that was killed
          loop,    \* the loop's own state, and its LoopBudgetState
          fp,      \* budget_state.fingerprint
          ckpt,    \* budget_state.checkpoint_fingerprint, if loop.marked
          out      \* how the attempt ended

loopVars == <<loop, fp, ckpt>>

-----------------------------------------------------------------------------
(* Records *)

\* obs: tool_outcome_signature; ok, bad: the shell's results; fails: failure_signature; tree: {}
\* or one digest; moves: history, how often there was a write, a good validation or a change
\* of the granted files between two observations.
NoFingerprint ==
    [obs |-> 0, writes |-> 0, ok |-> 0, bad |-> 0, fails |-> 0, noise |-> 0, seen |-> {},
     phase |-> "init", tree |-> {}, moves |-> 0]

\* before: obs at the end of the turn before; stall: write_or_checkpoint_turn.
NewLoop ==
    [turn |-> 0, limit |-> Base, exts |-> 0, synth |-> FALSE, marked |-> FALSE, before |-> -1,
     calls |-> 0, stall |-> FALSE, reads |-> {}, repeats |-> 0, edited |-> FALSE]

NoOutcome == [status |-> "none", stop |-> "none"]
Ended(status, stop) == pc' = "collect" /\ out' = [status |-> status, stop |-> stop]

Least(a, b) == IF a < b THEN a ELSE b
Shells(f) == f.ok + f.bad

\* _grant_tree_digest: a read-only run has no grants.
Tree(files) == {[p \in (IF cfg.writable THEN Granted ELSE {}) |-> files[p]]}

-----------------------------------------------------------------------------
(* native_loop_budget.py *)

\* Mutant: trying is enough.
VerdictOfEffort(f, base, before) == IF f.obs = base.obs THEN "NO_PROGRESS" ELSE "MATERIAL_PROGRESS"

\* evaluate_progress.  The fingerprint never comes back to a value it had before, so that
\* the look for oscillation sees only a last turn that observed nothing.
Verdict(f, base, before) ==
    LET write    == f.writes # base.writes
        grant    == f.tree # {} /\ f.tree # base.tree
        advanced == write \/ grant
        okUp     == f.ok > base.ok
        evidence == f.seen # base.seen
        failure  == f.fails # base.fails
        worse    == f.noise > base.noise \/ (failure /\ f.bad > base.bad)
        material == \/ advanced /\ (Shells(f) # Shells(base) \/ failure)
                    \/ f.phase = "validation_ok" /\ base.phase # "validation_ok"
    IN  CASE f.obs = before \/ f.obs = base.obs -> "NO_PROGRESS"
          [] ~advanced /\ ~okUp /\ ~evidence /\ worse -> "NO_PROGRESS"
          [] material -> "MATERIAL_PROGRESS"
          [] ~material /\ (advanced \/ Shells(f) # Shells(base)) -> "PARTIAL_PROGRESS"
          [] OTHER -> IF evidence THEN "EVIDENCE_PROGRESS" ELSE "NO_PROGRESS"

\* workspace_write_extension_eligible
WorkspaceEligible == cfg.profile = "workspace" /\ loop.marked /\ fp.writes > ckpt.writes

\* Mutant: extensions are only bounded by their number.
NextLimitUncapped == loop.limit + Increment
NextLimit == Least(loop.limit + Increment, Absolute)

\* decide_extension
ExtensionGranted ==
    /\ loop.marked
    /\ Verdict(fp, ckpt, loop.before) \in
          {"MATERIAL_PROGRESS"} \cup (IF WorkspaceEligible THEN {"PARTIAL_PROGRESS"} ELSE {})
    /\ loop.exts < MaxExtensions
    /\ NextLimit > loop.limit

\* decide_readonly_synthesis, against an empty fingerprint
SynthesisDue ==
    /\ fp.seen # {}
    /\ Verdict(fp, NoFingerprint, -1) # "NO_PROGRESS"
    /\ Least(loop.turn + 1, Absolute) > loop.limit

-----------------------------------------------------------------------------
(* Tools *)

\* observe_tool_result, and the digest of the files after it.
Observed(f, kind, p, files) ==
    LET moved == kind \in {"write", "ok"} \/ (f.tree # {} /\ Tree(files) # f.tree)
        fresh == kind = "read" /\ p \notin f.seen
    IN  [f EXCEPT !.obs = @ + 1,
                  !.writes = @ + (IF kind = "write" THEN 1 ELSE 0),
                  !.ok = @ + (IF kind = "ok" THEN 1 ELSE 0),
                  !.bad = @ + (IF kind = "bad" THEN 1 ELSE 0),
                  !.fails = @ + (IF kind \in {"bad", "noise", "error"} THEN 1 ELSE 0),
                  !.noise = @ + (IF kind = "noise" THEN 1 ELSE 0),
                  !.seen = IF fresh THEN @ \cup {p} ELSE @,
                  !.phase = CASE kind = "write" -> "implementation"
                              [] kind = "ok" -> "validation_ok"
                              [] fresh /\ @ = "init" -> "evidence"
                              [] OTHER -> @,
                  !.tree = Tree(files),
                  !.moves = @ + (IF moved THEN 1 ELSE 0)]

Calling == pc = "tools" /\ loop.calls < CallsPerTurn
Called == [loop EXCEPT !.calls = @ + 1]

\* read_file, list_dir and glob.  An output that speaks of missing files, package.json or
\* node_modules counts as path noise.
ReadTool(p) ==
    /\ Calling /\ cfg.profile # "document" /\ ~loop.stall /\ ~(cfg.edit /\ loop.turn = 1)
    /\ \E kind \in {"read", "noise"} : fp' = Observed(fp, kind, p, file)
    /\ loop' = IF cfg.gate
               THEN [Called EXCEPT !.reads = @ \cup {p}, !.repeats = IF p \in loop.reads THEN @ + 1 ELSE @]
               ELSE Called
    /\ UNCHANGED <<cfg, pc, file, late, ckpt, out>>

\* write_file and replace_text: the parent writes, and answers.  The code profiles replace
\* text that is there, and only by other text.
WriteTool(p, c) ==
    /\ Calling /\ cfg.writable /\ p \in Granted
    /\ cfg.profile \in {"exact", "workspace"} => c # file[p]
    /\ file' = [file EXCEPT ![p] = c]
    /\ \E kind \in {"write", "noise"} : fp' = Observed(fp, kind, p, file')
    /\ loop' = [Called EXCEPT !.edited = TRUE, !.stall = FALSE, !.reads = {}, !.repeats = 0]
    /\ IF cfg.profile = "document" THEN Ended("completed", "exact_document_written") ELSE UNCHANGED <<pc, out>>
    /\ UNCHANGED <<cfg, late, ckpt>>

\* Mutant: the grant is looked at only when the parent answers.
WriteTimesOutUnchecked(p) ==
    /\ Calling /\ cfg.writable
    /\ late' = late \cup {p}
    /\ fp' = Observed(fp, "error", p, file)
    /\ loop' = Called
    /\ UNCHANGED <<cfg, pc, file, ckpt, out>>

\* Its answer does not come in time: the model sees an error, the write may still happen.
WriteTimesOut(p) ==
    /\ Calling /\ cfg.writable /\ p \in Granted
    /\ late' = late \cup {p}
    /\ fp' = Observed(fp, "error", p, file)
    /\ loop' = Called
    /\ UNCHANGED <<cfg, pc, file, ckpt, out>>

\* run_shell, in the general profile only; it is not confined to the grant.
ShellTool(p, c) ==
    /\ Calling /\ cfg.profile = "general"
    /\ file' = [file EXCEPT ![p] = c]
    /\ \E kind \in {"ok", "bad", "noise"} : fp' = Observed(fp, kind, p, file')
    /\ loop' = Called
    /\ UNCHANGED <<cfg, pc, late, ckpt, out>>

\* A call that is refused: outside the grant or the profile, or not what this turn is for.
ToolError(p) ==
    /\ Calling
    /\ \E kind \in {"noise", "error"} : fp' = Observed(fp, kind, p, file)
    /\ loop' = Called
    /\ UNCHANGED <<cfg, pc, file, late, ckpt, out>>

\* TimeoutExpired of a shell command is not caught; the shell is killed, its children are not.
ShellTimesOut ==
    /\ Calling /\ cfg.profile = "general"
    /\ pc' = "raised"
    /\ late' = Paths
    /\ UNCHANGED <<cfg, file, loop, fp, ckpt, out>>

-----------------------------------------------------------------------------
(* Turns *)

\* _run_model_loop: the deadline, and the call of the model.
Turn ==
    /\ pc = "turn"
    /\ loop' = [loop EXCEPT !.turn = @ + 1, !.calls = 0, !.stall = @ \/ (cfg.gate /\ loop.repeats >= StallReads)]
    /\ pc' = "answer"
    /\ UNCHANGED <<cfg, file, late, fp, ckpt, out>>

\* The deadline is past, or the call times out or fails.
TurnFails ==
    /\ pc \in {"turn", "answer"}
    /\ \E stop \in {"timeout", "remote_ial_total_timeout", "grant_enforcement_failed"} : Ended("failed", stop)
    /\ UNCHANGED <<cfg, file, late, loop, fp, ckpt>>

AnswerTools ==
    /\ pc = "answer"
    /\ IF loop.synth THEN Ended("failed", "synthesis_not_completed") ELSE pc' = "tools" /\ UNCHANGED out
    /\ UNCHANGED <<cfg, file, late, loop, fp, ckpt>>

\* Prose ends the loop.
AnswerText ==
    /\ pc = "answer"
    /\ CASE loop.stall -> Ended("failed", "workspace_read_stall_checkpoint")
         [] ~loop.stall /\ cfg.edit /\ loop.turn = 1 -> Ended("failed", "first_edit_not_requested")
         [] OTHER -> \/ Ended("completed", "completed")
                     \/ loop.synth /\ Ended("failed", "synthesis_not_completed")
    /\ UNCHANGED <<cfg, file, late, loop, fp, ckpt>>

\* Turns that stop the loop before its budget is looked at.  An answer with tool calls has
\* one at least, and each of them was observed.
TurnStops ==
    /\ pc = "tools" /\ loop.calls > 0
    /\ \/ cfg.edit /\ loop.turn = 1 /\ ~loop.edited /\ Ended("failed", "first_edit_not_completed")
       \/ ~(cfg.edit /\ loop.turn = 1 /\ ~loop.edited) /\ loop.stall /\ Ended("failed", "workspace_read_stall_checkpoint")
    /\ UNCHANGED <<cfg, file, late, loop, fp, ckpt>>

\* note_turn_complete
TurnComplete ==
    /\ pc = "tools" /\ loop.calls > 0 /\ ~loop.stall /\ ~(cfg.edit /\ loop.turn = 1 /\ ~loop.edited)
    /\ pc' = "budget"
    /\ IF ~loop.marked /\ loop.turn >= Base - Increment
       THEN loop' = [loop EXCEPT !.marked = TRUE] /\ ckpt' = fp
       ELSE UNCHANGED <<loop, ckpt>>
    /\ UNCHANGED <<cfg, file, late, fp, out>>

NextTurn(l) == pc' = "turn" /\ loop' = [l EXCEPT !.before = fp.obs] /\ UNCHANGED out

\* There is budget left.
WithinBudget ==
    /\ pc = "budget" /\ loop.turn < loop.limit /\ loop.turn < Absolute
    /\ NextTurn(loop)
    /\ UNCHANGED <<cfg, file, late, fp, ckpt>>

\* The ceiling, the deadline, or a host without budget for more.
BudgetEnds ==
    /\ pc = "budget" /\ loop.turn >= loop.limit
    /\ IF loop.turn >= Absolute THEN Ended("failed", "absolute_turn_limit")
       ELSE \/ Ended("failed", "timeout")
            \/ cfg.writable /\ Ended("failed", "campaign_budget_unavailable")
    /\ UNCHANGED <<cfg, file, late, loop, fp, ckpt>>

Exhausted == pc = "budget" /\ loop.turn >= loop.limit /\ loop.turn < Absolute

\* A read-only loop is given one turn to answer, or stopped.
Synthesize ==
    /\ Exhausted /\ ~cfg.writable
    /\ IF SynthesisDue
       THEN NextTurn([loop EXCEPT !.synth = TRUE, !.limit = Least(loop.turn + 1, Absolute)])
       ELSE Ended("failed", "base_budget_no_progress") /\ UNCHANGED loop
    /\ UNCHANGED <<cfg, file, late, fp, ckpt>>

\* A writable one is extended, and must then show something new, or stopped.
Extend ==
    /\ Exhausted /\ cfg.writable
    /\ IF ExtensionGranted
       THEN /\ NextTurn([loop EXCEPT !.limit = NextLimit, !.exts = @ + 1])
            /\ ckpt' = fp
       ELSE /\ Ended("failed", IF loop.exts = 0 THEN "base_budget_no_progress" ELSE "extension_budget_no_progress")
            /\ UNCHANGED <<loop, ckpt>>
    /\ UNCHANGED <<cfg, file, late, fp>>

Tool == \/ \E p \in Paths : ReadTool(p) \/ WriteTimesOut(p) \/ ToolError(p)
        \/ \E p \in Paths, c \in Contents : WriteTool(p, c) \/ ShellTool(p, c)
        \/ ShellTimesOut

LoopStep == \/ Turn \/ TurnFails \/ AnswerTools \/ AnswerText \/ Tool \/ TurnStops \/ TurnComplete
            \/ WithinBudget \/ BudgetEnds \/ Synthesize \/ Extend

-----------------------------------------------------------------------------
(* Properties of the loop *)

Fingerprints ==
    [obs : Nat, writes : Nat, ok : Nat, bad : Nat, fails : Nat, noise : Nat, seen : SUBSET Paths,
     phase : {"init", "evidence", "implementation", "validation_ok"},
     tree : SUBSET (UNION {[G -> Contents] : G \in {Granted, {}}}), moves : Nat]

LoopTypeOK ==
    /\ file \in [Paths -> Contents]
    /\ late \subseteq Paths
    /\ loop \in [turn : Nat, limit : Nat, exts : Nat, synth : BOOLEAN,
                 marked : BOOLEAN, before : Int, calls : 0..CallsPerTurn, stall : BOOLEAN,
                 reads : SUBSET Paths, repeats : Nat, edited : BOOLEAN]
    /\ fp \in Fingerprints /\ ckpt \in Fingerprints

\* A loop never takes more turns than its budget: the base, what its extensions and its
\* one synthesis turn have added, and never more than the absolute ceiling.
TurnsBounded ==
    /\ loop.turn <= loop.limit /\ loop.limit <= Absolute
    /\ loop.limit <= Base + loop.exts * Increment + (IF loop.synth THEN 1 ELSE 0)
    /\ loop.synth => loop.exts = 0

\* "Extensions require machine-observable progress": every extension was preceded by a
\* write, a good validation or a change of the granted files of its own, whatever the model
\* says and however often it reads or fails.  (A file written back to what it was counts:
\* the digests are compared with the checkpoint, and every write is a link of its chain.)
ExtensionsEarned == loop.exts <= fp.moves
=============================================================================
