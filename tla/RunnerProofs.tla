---------------------------- MODULE RunnerProofs ----------------------------
(***************************************************************************)
(* Proofs about the native loop's budget and about what a run of any       *)
(* backend may change, for every set of files, every grant and policy.     *)
(***************************************************************************)
EXTENDS Runner, TLAPS

-----------------------------------------------------------------------------
(***************************************************************************)
(* The inductive invariant.                                                *)
(***************************************************************************)

Statuses == {"none", "blocked", "failed", "completed"}

\* TypeOK, and how an attempt that has ended has an outcome; every attempt but the first
\* is a replan.
Typed ==
    /\ TypeOK
    /\ out.status \in Statuses /\ (pc = "collect" => out.status # "none")
    /\ att.n <= (IF pc = "start" THEN 0 ELSE 1) + (IF att.ro THEN 1 ELSE 0) + (IF att.prop THEN 1 ELSE 0)

\* The turns that are left; only a writable loop is extended, only a read-only one
\* synthesizes, and after that it calls no tool.
Budgeted ==
    /\ TurnsBounded
    /\ pc = "turn" => loop.turn < loop.limit
    /\ loop.exts # 0 => cfg.writable
    /\ loop.synth => ~cfg.writable
    /\ pc \in {"tools", "budget"} => ~loop.synth

\* f is g, but for what moves no extension.
Unmoved(f, g) ==
    /\ f.writes = g.writes /\ f.ok = g.ok /\ f.tree = g.tree
    /\ f.phase = "validation_ok" => g.phase = "validation_ok"

\* The moves count what decide_extension looks at, and the checkpoint those that
\* extensions were given for; where there is one, the files have a digest to compare.
Earned ==
    /\ loop.exts <= ckpt.moves /\ ckpt.moves <= fp.moves
    /\ loop.marked \/ loop.calls > 0 => fp.tree # {}
    /\ loop.marked /\ fp.moves = ckpt.moves => Unmoved(fp, ckpt)

\* The native profiles without a shell.
Confined == Native /\ cfg.profile # "general"

\* Only a granted write outlives a run that can still complete, or that is confined; a
\* read-only run that was started saw nothing.
Watched ==
    /\ \/ late = {}
       \/ cfg.writable /\ Native /\ late \subseteq Granted
       \/ pc = "collect" /\ out.status # "completed"
       \/ pc = "raised"
       \/ pc = "done" /\ result.status # "completed"
    /\ Confined => late \subseteq Granted
    /\ pc = "worker" => ~Native
    /\ ~cfg.writable => before = {}

\* The inductive invariant.
IInv ==
    /\ Typed /\ Budgeted /\ Earned /\ Watched
    /\ CompletedWithinGrant

-----------------------------------------------------------------------------
(***************************************************************************)
(* The fingerprint.                                                        *)
(***************************************************************************)

Kinds == {"read", "noise", "write", "error", "ok", "bad"}

\* The digest of the granted files is one.
LEMMA TreeIs ==
    ASSUME NEW files \in [Paths -> Contents]
    PROVE  Tree(files) \in SUBSET (UNION {[G -> Contents] : G \in {Granted, {}}})
<1>1. \A p \in Granted : p \in Paths
  BY GrantIsOfPaths
<1>2. [p \in Granted |-> files[p]] \in [Granted -> Contents]
  BY <1>1
<1>3. [p \in {} |-> files[p]] \in [{} -> Contents]
  OBVIOUS
<1> QED BY <1>2, <1>3 DEF Tree

\* Observing a tool's result keeps the fingerprint well formed and counts what is new.
LEMMA ObservedIs ==
    ASSUME NEW f \in Fingerprints, NEW kind \in Kinds, NEW p \in Paths, NEW files \in [Paths -> Contents]
    PROVE  /\ Observed(f, kind, p, files) \in Fingerprints
           /\ Observed(f, kind, p, files).moves >= f.moves
           /\ Observed(f, kind, p, files).tree # {}
           /\ f.tree # {} /\ Observed(f, kind, p, files).moves = f.moves
                => Unmoved(Observed(f, kind, p, files), f)
<1> DEFINE g == Observed(f, kind, p, files)
           moved == kind \in {"write", "ok"} \/ (f.tree # {} /\ Tree(files) # f.tree)
           fresh == kind = "read" /\ p \notin f.seen
<1>1. /\ g.obs = f.obs + 1
      /\ g.writes = f.writes + (IF kind = "write" THEN 1 ELSE 0)
      /\ g.ok = f.ok + (IF kind = "ok" THEN 1 ELSE 0)
      /\ g.tree = Tree(files)
      /\ g.moves = f.moves + (IF moved THEN 1 ELSE 0)
      /\ g.phase = CASE kind = "write" -> "implementation"
                     [] kind = "ok" -> "validation_ok"
                     [] fresh /\ f.phase = "init" -> "evidence"
                     [] OTHER -> f.phase
  BY DEF Observed, Fingerprints
<1>2. g.phase \in {"init", "evidence", "implementation", "validation_ok"}
  BY <1>1 DEF Fingerprints
<1>3. g \in Fingerprints
  <2> DEFINE bad == f.bad + (IF kind = "bad" THEN 1 ELSE 0)
             fails == f.fails + (IF kind \in {"bad", "noise", "error"} THEN 1 ELSE 0)
             noise == f.noise + (IF kind = "noise" THEN 1 ELSE 0)
             seen == IF fresh THEN f.seen \cup {p} ELSE f.seen
  <2>1. /\ g.obs \in Nat /\ g.writes \in Nat /\ g.ok \in Nat /\ g.moves \in Nat
        /\ bad \in Nat /\ fails \in Nat /\ noise \in Nat /\ seen \in SUBSET Paths
    BY <1>1 DEF Fingerprints
  <2>2. g.tree \in SUBSET (UNION {[G -> Contents] : G \in {Granted, {}}})
    BY <1>1, TreeIs
  <2>3. g = [f EXCEPT !.obs = g.obs, !.writes = g.writes, !.ok = g.ok, !.bad = bad, !.fails = fails,
                      !.noise = noise, !.seen = seen, !.phase = g.phase, !.tree = g.tree, !.moves = g.moves]
    BY <1>1 DEF Observed
  <2> DEFINE obs == g.obs  writes == g.writes  ok == g.ok  phase == g.phase  tree == g.tree  moves == g.moves
  <2> HIDE DEF obs, writes, ok, bad, fails, noise, seen, phase, tree, moves
  <2>4. ASSUME obs \in Nat, writes \in Nat, ok \in Nat, bad \in Nat, fails \in Nat, noise \in Nat,
               seen \in SUBSET Paths, phase \in {"init", "evidence", "implementation", "validation_ok"},
               tree \in SUBSET (UNION {[G -> Contents] : G \in {Granted, {}}}), moves \in Nat
        PROVE  [f EXCEPT !.obs = obs, !.writes = writes, !.ok = ok, !.bad = bad, !.fails = fails,
                         !.noise = noise, !.seen = seen, !.phase = phase, !.tree = tree, !.moves = moves]
                 \in Fingerprints
    BY <2>4 DEF Fingerprints
  <2> USE DEF obs, writes, ok, phase, tree, moves
  <2> HIDE DEF g
  <2> QED BY <1>2, <2>1, <2>2, <2>3, <2>4, Zenon
<1>4. g.moves >= f.moves /\ (g.moves = f.moves => ~moved)
  BY <1>1 DEF Fingerprints
<1>5. f.tree # {} /\ ~moved => Unmoved(g, f)
  BY <1>1 DEF Unmoved, Fingerprints
<1>6. g.tree # {}
  BY <1>1 DEF Tree
<1> QED BY <1>3, <1>4, <1>5, <1>6

-----------------------------------------------------------------------------
(***************************************************************************)
(* Steps while an attempt is running.                                      *)
(***************************************************************************)

Loops == [turn : Nat, limit : Nat, exts : Nat, synth : BOOLEAN,
          marked : BOOLEAN, before : Int, calls : 0..CallsPerTurn, stall : BOOLEAN,
          reads : SUBSET Paths, repeats : Nat, edited : BOOLEAN]

Running == {"worker", "turn", "answer", "tools", "budget"}

\* An attempt goes on, ends or raises; the run is the same.
Goes ==
    /\ pc \in Running /\ pc' \in Running \cup {"collect", "raised"}
    /\ pc' = "worker" => pc = "worker"
    /\ UNCHANGED <<cfg, before, blind, att, result>>
    /\ out'.status \in Statuses /\ (pc' = "collect" => out'.status # "none")
    /\ \/ UNCHANGED late
       \/ cfg.writable /\ Native /\ late' \subseteq late \cup Granted
       \/ late' \subseteq Paths /\ ~Confined /\ (pc' = "raised" \/ (pc' = "collect" /\ out'.status # "completed"))

\* Such a step has to respect the files, the budget and the checkpoint.
LEMMA GoesKeeps ==
    ASSUME IInv, Goes, LoopTypeOK', Budgeted', Earned'
    PROVE  IInv'
<1> USE DEF IInv, Goes, Running
<1>1. Typed'
  BY DEF Typed, TypeOK
<1>2. late = {} \/ (cfg.writable /\ Native /\ late \subseteq Granted)
  BY DEF Watched
<1>3. result.status = "none"
  BY DEF Typed, TypeOK
<1>4. Watched'
  BY <1>2, <1>3 DEF Watched, Native, Confined
<1>5. CompletedWithinGrant'
  BY <1>3 DEF CompletedWithinGrant
<1> QED BY <1>1, <1>4, <1>5

\* What is well formed and does not change.
LEMMA TypeFacts ==
    ASSUME IInv
    PROVE  /\ loop \in Loops /\ fp \in Fingerprints /\ ckpt \in Fingerprints /\ file \in [Paths -> Contents]
           /\ late \subseteq Paths /\ cfg \in Configs /\ out.status \in Statuses
           /\ cfg.writable \in BOOLEAN
BY DEF IInv, Typed, TypeOK, LoopTypeOK, Loops, Configs

\* The loop's budget is as before.
SameBudget ==
    /\ loop' \in Loops /\ loop'.turn = loop.turn /\ loop'.limit = loop.limit
    /\ loop'.exts = loop.exts /\ loop'.synth = loop.synth

\* An attempt that ends, or a worker that writes.
LEMMA EndKeeps ==
    ASSUME IInv, Goes, UNCHANGED <<loop, fp, ckpt>>, file' \in [Paths -> Contents],
           pc' \in {pc, "collect", "raised"}
    PROVE  IInv'
<1>1. LoopTypeOK'
  BY TypeFacts, GrantIsOfPaths DEF LoopTypeOK, Loops, Goes
<1>2. Budgeted' /\ Earned'
  BY DEF IInv, Goes, Budgeted, TurnsBounded, Earned, Unmoved
<1> QED BY <1>1, <1>2, GoesKeeps

\* A tool was called, and observed.
Tooled ==
    /\ pc = "tools" /\ Native /\ SameBudget /\ loop'.marked = loop.marked /\ UNCHANGED ckpt
    /\ file' \in [Paths -> Contents]
    /\ \E kind \in Kinds, p \in Paths : fp' = Observed(fp, kind, p, file')

\* The observation is all that the extensions look at.
LEMMA ToolKeeps ==
    ASSUME IInv, Goes, Tooled, pc' \in {"tools", "collect"}
    PROVE  IInv'
<1>1. /\ fp' \in Fingerprints /\ fp'.moves >= fp.moves /\ fp'.tree # {}
      /\ fp.tree # {} /\ fp'.moves = fp.moves => Unmoved(fp', fp)
  BY TypeFacts, ObservedIs DEF Tooled
<1>2. LoopTypeOK'
  BY <1>1, TypeFacts, GrantIsOfPaths DEF LoopTypeOK, Loops, Goes, Tooled, SameBudget
<1>3. Budgeted'
  BY DEF IInv, Goes, Budgeted, TurnsBounded, Tooled, SameBudget
<1>4. Earned'
  <2>1. /\ loop.exts \in Nat /\ ckpt.moves \in Nat /\ fp.moves \in Nat /\ fp'.moves \in Nat
        /\ loop'.exts = loop.exts /\ loop'.marked = loop.marked /\ ckpt' = ckpt
    BY <1>1, TypeFacts DEF Fingerprints, Loops, Tooled, SameBudget
  <2>2. loop.exts <= ckpt.moves /\ ckpt.moves <= fp'.moves
    BY <1>1, <2>1 DEF IInv, Earned
  <2>3. ASSUME loop.marked, fp'.moves = ckpt.moves
        PROVE  Unmoved(fp', ckpt)
    <3>1. fp'.moves = fp.moves /\ fp.moves = ckpt.moves /\ fp.tree # {}
      BY <1>1, <2>1, <2>3 DEF IInv, Earned
    <3> QED BY <1>1, <2>3, <3>1 DEF IInv, Earned, Unmoved
  <2> QED BY <1>1, <2>1, <2>2, <2>3 DEF Earned, Unmoved
<1> QED BY <1>2, <1>3, <1>4, GoesKeeps

\* A call is counted.
LEMMA CalledIs ==
    ASSUME loop \in Loops, Calling
    PROVE  /\ Called \in Loops /\ Called.turn = loop.turn /\ Called.limit = loop.limit
           /\ Called.exts = loop.exts /\ Called.synth = loop.synth /\ Called.marked = loop.marked
BY BoundsAreNat DEF Called, Calling, Loops

\* The tools of the loop.
LEMMA ToolsKeep ==
    ASSUME IInv, Native, Tool, UNCHANGED <<before, blind, att, result>>
    PROVE  IInv'
<1>1. /\ loop \in Loops /\ fp \in Fingerprints /\ file \in [Paths -> Contents]
      /\ late \subseteq Paths /\ out.status \in Statuses /\ CallsPerTurn \in Nat
  BY TypeFacts, BoundsAreNat
<1>2. ASSUME NEW p \in Paths, ReadTool(p)
      PROVE  IInv'
  <2>1. SameBudget /\ loop'.marked = loop.marked
    <3>1. /\ Called \in Loops /\ Called.turn = loop.turn /\ Called.limit = loop.limit
          /\ Called.exts = loop.exts /\ Called.synth = loop.synth /\ Called.marked = loop.marked
      BY <1>1, <1>2, CalledIs DEF ReadTool
    <3>2. CASE loop' = Called
      BY <3>1, <3>2 DEF SameBudget
    <3>3. CASE loop' = [Called EXCEPT !.reads = @ \cup {p}, !.repeats = IF p \in loop.reads THEN @ + 1 ELSE @]
      <4> DEFINE r == Called.reads \cup {p}
                 k == IF p \in loop.reads THEN Called.repeats + 1 ELSE Called.repeats
      <4>1. r \in SUBSET Paths /\ k \in Nat
        BY <3>1 DEF Loops
      <4>2. loop' = [Called EXCEPT !.reads = r, !.repeats = k]
        BY <3>3
      <4> HIDE DEF r, k
      <4> QED BY <3>1, <4>1, <4>2 DEF SameBudget, Loops
    <3> QED BY <1>2, <3>2, <3>3 DEF ReadTool
  <2>2. Goes /\ Tooled
    BY <1>1, <1>2, <2>1 DEF ReadTool, Calling, Goes, Tooled, Running, Kinds
  <2> QED BY <1>2, <2>2, ToolKeeps DEF ReadTool, Calling
<1>3. ASSUME NEW p \in Paths, WriteTimesOut(p)
      PROVE  IInv'
  <2>1. SameBudget /\ loop'.marked = loop.marked
    BY <1>1, <1>3 DEF WriteTimesOut, Calling, Called, SameBudget, Loops
  <2>2. Goes /\ Tooled
    BY <1>1, <1>3, <2>1 DEF WriteTimesOut, Calling, Goes, Tooled, Running, Kinds
  <2> QED BY <1>3, <2>2, ToolKeeps DEF WriteTimesOut, Calling
<1>4. ASSUME NEW p \in Paths, ToolError(p)
      PROVE  IInv'
  <2>1. SameBudget /\ loop'.marked = loop.marked
    BY <1>1, <1>4 DEF ToolError, Calling, Called, SameBudget, Loops
  <2>2. Goes /\ Tooled
    BY <1>1, <1>4, <2>1 DEF ToolError, Calling, Goes, Tooled, Running, Kinds
  <2> QED BY <1>4, <2>2, ToolKeeps DEF ToolError, Calling
<1>5. ASSUME NEW p \in Paths, NEW c \in Contents, WriteTool(p, c)
      PROVE  IInv'
  <2>1. SameBudget /\ loop'.marked = loop.marked
    <3>1. /\ Called \in Loops /\ Called.turn = loop.turn /\ Called.limit = loop.limit
          /\ Called.exts = loop.exts /\ Called.synth = loop.synth /\ Called.marked = loop.marked
      BY <1>1, <1>5, CalledIs DEF WriteTool
    <3>2. loop' = [Called EXCEPT !.edited = TRUE, !.stall = FALSE, !.reads = {}, !.repeats = 0]
      BY <1>5 DEF WriteTool
    <3> QED BY <3>1, <3>2 DEF SameBudget, Loops
  <2>2. Goes /\ pc' \in {"tools", "collect"}
    BY <1>1, <1>5 DEF WriteTool, Calling, Goes, Running, Ended, Statuses
  <2>3. Tooled
    BY <1>1, <1>5, <2>1 DEF WriteTool, Calling, Tooled, Kinds
  <2> QED BY <2>2, <2>3, ToolKeeps
<1>6. ASSUME NEW p \in Paths, NEW c \in Contents, ShellTool(p, c)
      PROVE  IInv'
  <2>1. SameBudget /\ loop'.marked = loop.marked
    BY <1>1, <1>6 DEF ShellTool, Calling, Called, SameBudget, Loops
  <2>2. Goes /\ Tooled
    BY <1>1, <1>6, <2>1 DEF ShellTool, Calling, Goes, Tooled, Running, Kinds
  <2> QED BY <1>6, <2>2, ToolKeeps DEF ShellTool, Calling
<1>7. CASE ShellTimesOut
  <2>1. Goes
    BY <1>1, <1>7 DEF ShellTimesOut, Calling, Goes, Running, Confined
  <2> QED BY <1>1, <1>7, <2>1, EndKeeps DEF ShellTimesOut
<1> QED BY <1>2, <1>3, <1>4, <1>5, <1>6, <1>7 DEF Tool

-----------------------------------------------------------------------------
(***************************************************************************)
(* Turns and the budget.                                                   *)
(***************************************************************************)

\* An extension is only granted for a write, a validation or a change of the granted
\* files since the checkpoint.
LEMMA GrantIsEarned ==
    ASSUME IInv, ExtensionGranted
    PROVE  fp.moves # ckpt.moves
<1> SUFFICES ASSUME fp.moves = ckpt.moves PROVE FALSE
  OBVIOUS
<1>1. /\ fp.writes = ckpt.writes /\ fp.tree = ckpt.tree
      /\ fp.phase = "validation_ok" => ckpt.phase = "validation_ok"
  BY DEF IInv, Earned, Unmoved, ExtensionGranted
<1>2. Verdict(fp, ckpt, loop.before) # "MATERIAL_PROGRESS"
  BY <1>1 DEF Verdict
<1>3. ~WorkspaceEligible
  BY <1>1, TypeFacts DEF WorkspaceEligible, Fingerprints
<1> QED BY <1>2, <1>3 DEF ExtensionGranted

\* A turn is counted.
LEMMA TurnKeeps ==
    ASSUME IInv, Turn, UNCHANGED <<before, blind, att, result>>
    PROVE  IInv'
<1>1. Goes
  BY TypeFacts DEF Turn, Goes, Running
<1> DEFINE st == loop.stall \/ (cfg.gate /\ loop.repeats >= StallReads)
<1>2. loop' = [loop EXCEPT !.turn = @ + 1, !.calls = 0, !.stall = st] /\ st \in BOOLEAN
  BY TypeFacts, Zenon DEF Turn, Loops
<1> HIDE DEF st
<1>3. /\ loop' \in Loops /\ loop'.turn = loop.turn + 1 /\ loop'.limit = loop.limit
      /\ loop'.exts = loop.exts /\ loop'.synth = loop.synth /\ loop'.marked = loop.marked /\ loop'.calls = 0
  <2>1. loop \in Loops /\ loop.turn + 1 \in Nat /\ 0 \in 0..CallsPerTurn
    BY TypeFacts, BoundsAreNat DEF Loops
  <2> QED BY <1>2, <2>1 DEF Loops
<1>4. LoopTypeOK'
  BY <1>3, TypeFacts DEF LoopTypeOK, Loops, Turn
<1>5. Budgeted'
  BY <1>3, TypeFacts, PolicyIsValid DEF IInv, Budgeted, TurnsBounded, Turn, Loops
<1>6. Earned'
  BY <1>3 DEF IInv, Earned, Unmoved, Turn
<1> QED BY <1>1, <1>4, <1>5, <1>6, GoesKeeps

\* The steps that end the loop.
LEMMA LoopEndKeeps ==
    ASSUME IInv, UNCHANGED <<cfg, file, late, loop, fp, ckpt, before, blind, att, result>>, pc \in Running,
           NEW status \in {"failed", "completed"}, NEW stop, Ended(status, stop)
    PROVE  IInv'
<1>1. Goes
  BY DEF Ended, Goes, Running, Statuses
<1> QED BY <1>1, TypeFacts, EndKeeps DEF Ended

\* An answer that calls tools is not the synthesis.
LEMMA AnswerKeeps ==
    ASSUME IInv, AnswerTools \/ AnswerText, UNCHANGED <<before, blind, att, result>>
    PROVE  IInv'
<1>1. CASE AnswerTools /\ ~loop.synth
  <2>1. Goes
    BY <1>1, TypeFacts DEF AnswerTools, Goes, Running
  <2>2. LoopTypeOK' /\ Budgeted' /\ Earned'
    BY <1>1 DEF AnswerTools, IInv, Typed, TypeOK, LoopTypeOK, Budgeted, TurnsBounded, Earned, Unmoved
  <2> QED BY <2>1, <2>2, GoesKeeps
<1>2. CASE AnswerTools /\ loop.synth
  BY <1>2, LoopEndKeeps DEF AnswerTools, Running
<1>3. CASE AnswerText
  <2>1. \/ Ended("failed", "workspace_read_stall_checkpoint")
        \/ Ended("failed", "first_edit_not_requested")
        \/ Ended("completed", "completed")
        \/ Ended("failed", "synthesis_not_completed")
    BY <1>3, Zenon DEF AnswerText
  <2> QED BY <1>3, <2>1, LoopEndKeeps DEF AnswerText, Running
<1> QED BY <1>1, <1>2, <1>3

\* The checkpoint is taken.
LEMMA TurnCompleteKeeps ==
    ASSUME IInv, TurnComplete, UNCHANGED <<before, blind, att, result>>
    PROVE  IInv'
<1>1. Goes
  BY TypeFacts DEF TurnComplete, Goes, Running
<1>2. /\ SameBudget
      /\ ckpt' = fp \/ (UNCHANGED ckpt /\ loop'.marked = loop.marked)
  <2>1. CASE UNCHANGED loop
    BY <2>1, TypeFacts DEF TurnComplete, SameBudget
  <2>2. CASE loop' = [loop EXCEPT !.marked = TRUE]
    BY <2>2, TypeFacts DEF TurnComplete, SameBudget, Loops
  <2> QED BY <2>1, <2>2 DEF TurnComplete
<1>3. LoopTypeOK'
  BY <1>2, TypeFacts DEF LoopTypeOK, SameBudget, Loops, TurnComplete
<1>4. Budgeted'
  BY <1>2 DEF IInv, Budgeted, TurnsBounded, TurnComplete, SameBudget
<1>5. Earned'
  <2>1. loop'.exts = loop.exts /\ UNCHANGED fp /\ loop.exts \in Nat /\ ckpt.moves \in Nat /\ fp.moves \in Nat
        /\ fp.tree # {}
    BY <1>2, TypeFacts DEF SameBudget, TurnComplete, Loops, Fingerprints, IInv, Earned
  <2> QED BY <1>2, <2>1 DEF IInv, Earned, Unmoved
<1> QED BY <1>1, <1>3, <1>4, <1>5, GoesKeeps

\* The next turn of a loop whose limit leaves one.
LEMMA NextTurnKeeps ==
    ASSUME IInv, pc = "budget", NEW l \in Loops, NextTurn(l), UNCHANGED <<cfg, file, late, fp, before, blind, att, result>>,
           ckpt' \in Fingerprints, Earned',
           l.turn = loop.turn, l.turn < l.limit, l.limit <= Absolute,
           l.limit <= Base + l.exts * Increment + (IF l.synth THEN 1 ELSE 0),
           l.synth => l.exts = 0, l.exts # 0 => cfg.writable, l.synth => ~cfg.writable
    PROVE  IInv'
<1>1. Goes
  BY TypeFacts DEF NextTurn, Goes, Running
<1>2. /\ loop' \in Loops /\ loop'.turn = l.turn /\ loop'.limit = l.limit
      /\ loop'.exts = l.exts /\ loop'.synth = l.synth /\ pc' = "turn"
  <2>1. fp.obs \in Int
    BY TypeFacts DEF Fingerprints
  <2> QED BY <2>1 DEF NextTurn, Loops
<1>3. LoopTypeOK'
  BY <1>2, TypeFacts DEF LoopTypeOK, Loops
<1>4. Budgeted'
  <2>1. l.turn \in Nat /\ l.limit \in Nat
    BY DEF Loops
  <2> QED BY <1>2, <2>1 DEF Budgeted, TurnsBounded
<1> QED BY <1>1, <1>3, <1>4, GoesKeeps

\* There is budget left.
LEMMA WithinBudgetKeeps ==
    ASSUME IInv, WithinBudget, UNCHANGED <<before, blind, att, result>>
    PROVE  IInv'
<1>1. Earned'
  BY TypeFacts DEF IInv, Earned, Unmoved, WithinBudget, NextTurn, Loops
<1> QED BY <1>1, TypeFacts, NextTurnKeeps DEF WithinBudget, IInv, Budgeted, TurnsBounded

\* A read-only loop is given one turn more, once.
LEMMA SynthesizeKeeps ==
    ASSUME IInv, Synthesize, UNCHANGED <<before, blind, att, result>>
    PROVE  IInv'
<1>1. CASE ~SynthesisDue
  BY <1>1, LoopEndKeeps DEF Synthesize, Exhausted, Running
<1>2. CASE SynthesisDue
  <2> DEFINE lim == Least(loop.turn + 1, Absolute)
             l == [loop EXCEPT !.synth = TRUE, !.limit = lim]
  <2>1. /\ loop \in Loops /\ loop.turn \in Nat /\ loop.limit \in Nat /\ loop.exts = 0 /\ ~loop.synth
        /\ loop.turn = loop.limit /\ loop.limit <= Base + loop.exts * Increment
    <3>1. /\ loop \in Loops /\ loop.turn \in Nat /\ loop.limit \in Nat /\ loop.exts \in Nat
          /\ loop.turn >= loop.limit /\ loop.turn <= loop.limit
      BY TypeFacts DEF Synthesize, Exhausted, IInv, Budgeted, TurnsBounded, Loops
    <3>2. loop.exts = 0 /\ ~loop.synth /\ loop.limit <= Base + loop.exts * Increment + 0
      BY DEF Synthesize, Exhausted, IInv, Budgeted, TurnsBounded
    <3> QED BY <3>1, <3>2, PolicyIsValid
  <2>2. lim \in Nat /\ loop.turn < lim /\ lim <= Absolute /\ lim <= loop.turn + 1
    BY <1>2, <2>1, PolicyIsValid DEF Synthesize, SynthesisDue, Least
  <2>3. loop.limit <= Base
    BY <2>1, PolicyIsValid
  <2> HIDE DEF lim
  <2>4. l \in Loops /\ l.turn = loop.turn /\ l.limit = lim /\ l.exts = 0 /\ l.synth
        /\ l.marked = loop.marked /\ l.calls = loop.calls
    BY <2>1, <2>2 DEF Loops
  <2>5. NextTurn(l)
    BY <1>2 DEF Synthesize, lim
  <2> HIDE DEF l
  <2>6. loop'.exts = loop.exts /\ loop'.marked = loop.marked /\ loop'.calls = loop.calls
    BY <2>1, <2>4, <2>5 DEF NextTurn, Loops
  <2>7. Earned'
    BY <2>6 DEF IInv, Earned, Unmoved, Synthesize
  <2>8. l.limit <= Base + l.exts * Increment + (IF l.synth THEN 1 ELSE 0)
    BY <2>1, <2>2, <2>3, <2>4, PolicyIsValid
  <2> QED BY <2>1, <2>2, <2>4, <2>5, <2>7, <2>8, TypeFacts, NextTurnKeeps DEF Synthesize, Exhausted
<1> QED BY <1>1, <1>2

\* A writable loop is given an increment for each move that it was not given one for.
LEMMA ExtendKeeps ==
    ASSUME IInv, Extend, UNCHANGED <<before, blind, att, result>>
    PROVE  IInv'
<1>1. CASE ~ExtensionGranted
  BY <1>1, LoopEndKeeps DEF Extend, Exhausted, Running
<1>2. CASE ExtensionGranted
  <2> DEFINE l == [loop EXCEPT !.limit = NextLimit, !.exts = @ + 1]
  <2>1. /\ loop \in Loops /\ loop.turn \in Nat /\ loop.limit \in Nat /\ loop.exts \in Nat /\ ~loop.synth
        /\ loop.turn <= loop.limit /\ loop.limit <= Base + loop.exts * Increment
    <3>1. /\ loop \in Loops /\ loop.turn \in Nat /\ loop.limit \in Nat /\ loop.exts \in Nat
          /\ loop.turn <= loop.limit
      BY TypeFacts DEF IInv, Budgeted, TurnsBounded, Loops
    <3>2. ~loop.synth /\ loop.limit <= Base + loop.exts * Increment + 0
      BY DEF Extend, Exhausted, IInv, Budgeted, TurnsBounded
    <3>3. loop.exts * Increment \in Nat
      BY <3>1, PolicyIsValid
    <3> QED BY <3>1, <3>2, <3>3, PolicyIsValid
  <2>2. NextLimit \in Nat /\ loop.limit < NextLimit /\ NextLimit <= Absolute /\ NextLimit <= loop.limit + Increment
    BY <1>2, <2>1, PolicyIsValid DEF ExtensionGranted, NextLimit, Least
  <2>3. l \in Loops /\ l.turn = loop.turn /\ l.limit = NextLimit /\ l.exts = loop.exts + 1 /\ ~l.synth
    <3>1. loop.exts + 1 \in Nat
      BY <2>1
    <3> QED BY <2>1, <2>2, <3>1 DEF Loops
  <2>4. NextTurn(l) /\ ckpt' = fp /\ UNCHANGED fp
    BY <1>2 DEF Extend
  <2> HIDE DEF l
  <2>5. loop'.exts = loop.exts + 1
    BY <2>3, <2>4 DEF NextTurn, Loops
  <2>6. Earned'
    <3>1. loop.exts \in Nat /\ ckpt.moves \in Nat /\ fp.moves \in Nat /\ fp.tree # {}
      BY <1>2, TypeFacts DEF Loops, Fingerprints, IInv, Earned, ExtensionGranted
    <3>2. loop.exts + 1 <= fp.moves
      BY <1>2, <3>1, GrantIsEarned DEF IInv, Earned
    <3> QED BY <2>4, <2>5, <3>1, <3>2 DEF Earned, Unmoved
  <2>7. NextLimit <= Base + (loop.exts + 1) * Increment
    <3>1. (loop.exts + 1) * Increment = loop.exts * Increment + Increment
      BY <2>1, PolicyIsValid
    <3>2. loop.exts * Increment \in Nat
      BY <2>1, PolicyIsValid
    <3> QED BY <2>1, <2>2, <3>1, <3>2, PolicyIsValid
  <2>8. l.limit <= Base + l.exts * Increment + (IF l.synth THEN 1 ELSE 0)
    BY <2>1, <2>2, <2>3, <2>7, PolicyIsValid
  <2>9. l.turn < l.limit
    BY <2>1, <2>2, <2>3
  <2> QED BY <2>2, <2>3, <2>4, <2>6, <2>8, <2>9, TypeFacts, NextTurnKeeps DEF Extend, Exhausted
<1> QED BY <1>1, <1>2

\* Every step of the loop.
LEMMA LoopStepKeeps ==
    ASSUME IInv, Native, LoopStep, UNCHANGED <<before, blind, att, result>>
    PROVE  IInv'
<1>1. CASE TurnFails
  BY <1>1, LoopEndKeeps DEF TurnFails, Running
<1>2. CASE TurnStops
  BY <1>2, LoopEndKeeps DEF TurnStops, Running
<1>3. CASE BudgetEnds
  BY <1>3, LoopEndKeeps DEF BudgetEnds, Running
<1> QED BY <1>1, <1>2, <1>3, TurnKeeps, AnswerKeeps, ToolsKeep, TurnCompleteKeeps, WithinBudgetKeeps,
           SynthesizeKeeps, ExtendKeeps DEF LoopStep

-----------------------------------------------------------------------------
(***************************************************************************)
(* Workers, attempts and results.                                          *)
(***************************************************************************)

\* The worker of another backend writes, ends or is timed out.
LEMMA WorkerKeeps ==
    ASSUME IInv, WorkerEnds \/ \E p \in Paths, c \in Contents : WorkerWrites(p, c)
    PROVE  IInv'
<1>1. CASE WorkerEnds
  <2>1. UNCHANGED <<cfg, file, loop, fp, ckpt, before, blind, att, result>> /\ pc = "worker"
    BY <1>1 DEF WorkerEnds, HermesEnds, HermesTimesOut, ClaudeEnds, ClaudeTimesOut, CursorEnds, Stays, AtWorker
  <2>2. \/ pc' = "collect" /\ out'.status \in {"failed", "completed", "blocked"} /\ UNCHANGED late
        \/ pc' = "collect" /\ out'.status = "failed" /\ late' = Paths
        \/ pc' = "raised" /\ UNCHANGED out /\ late' = Paths
    BY <1>1 DEF WorkerEnds, HermesEnds, HermesTimesOut, ClaudeEnds, ClaudeTimesOut, CursorEnds, Ended
  <2>3. Goes
    BY <2>1, <2>2, TypeFacts DEF Goes, Running, Statuses, IInv, Watched, Confined
  <2> QED BY <2>1, <2>2, <2>3, TypeFacts, EndKeeps
<1>2. ASSUME NEW p \in Paths, NEW c \in Contents, WorkerWrites(p, c)
      PROVE  IInv'
  <2>1. Goes
    BY <1>2, TypeFacts DEF WorkerWrites, Goes, Running
  <2> QED BY <1>2, <2>1, TypeFacts, EndKeeps DEF WorkerWrites
<1> QED BY <1>1, <1>2

\* A new loop has its whole budget and nothing to show.
LEMMA NewLoopIs ==
    /\ NewLoop \in Loops /\ NoFingerprint \in Fingerprints
    /\ NewLoop.turn = 0 /\ NewLoop.limit = Base /\ NewLoop.exts = 0 /\ NewLoop.synth = FALSE
    /\ NewLoop.marked = FALSE /\ NewLoop.calls = 0
    /\ NoFingerprint.moves = 0
BY PolicyIsValid, BoundsAreNat DEF NewLoop, NoFingerprint, Loops, Fingerprints

\* The budget, the checkpoint and the files of a new attempt.
LEMMA FreshIs ==
    ASSUME loop = NewLoop, fp = NoFingerprint, ckpt = NoFingerprint
    PROVE  /\ TurnsBounded /\ loop.turn < loop.limit /\ loop.exts = 0 /\ ~loop.synth /\ Earned
           /\ loop \in Loops /\ fp \in Fingerprints /\ ckpt \in Fingerprints
<1>1. 0 * Increment = 0 /\ 0 < Base /\ 0 <= Base /\ Base <= Absolute /\ Base <= Base + 0 * Increment + 0
  BY PolicyIsValid
<1> QED BY <1>1, NewLoopIs DEF TurnsBounded, Earned, Unmoved

\* An attempt is started, at first or as a replan.
LEMMA AttemptKeeps ==
    ASSUME IInv, NEW a \in [ro : BOOLEAN, prop : BOOLEAN, n : 0..3], Attempt(a), UNCHANGED <<cfg, late, result>>,
           blind' \in BOOLEAN, pc = "start" \/ Judging, file' \in [Paths -> Contents],
           before' \subseteq Paths, ~cfg.writable => before' = {},
           a.n <= (IF a.ro THEN 1 ELSE 0) + (IF a.prop THEN 1 ELSE 0)
    PROVE  IInv'
<1>1. loop' = NewLoop /\ fp' = NoFingerprint /\ ckpt' = NoFingerprint /\ out' = NoOutcome
      /\ pc' \in {"turn", "worker"} /\ (pc' = "worker" => ~Native)
  BY DEF Attempt
<1>2. /\ TurnsBounded' /\ loop'.turn < loop'.limit /\ loop'.exts = 0 /\ ~loop'.synth /\ Earned'
      /\ loop' \in Loops /\ fp' \in Fingerprints /\ ckpt' \in Fingerprints
  <2>1. 0 * Increment = 0 /\ 0 < Base /\ 0 <= Base /\ Base <= Absolute /\ Base <= Base + 0 * Increment + 0
    BY PolicyIsValid
  <2> QED BY <1>1, <2>1, NewLoopIs DEF TurnsBounded, Earned, Unmoved
<1>3. result.status = "none" /\ UNCHANGED result
  BY DEF IInv, Typed, TypeOK, Judging
<1>4. /\ att'.n = a.n + 1 /\ att'.ro = a.ro /\ att'.prop = a.prop
      /\ att' \in [ro : BOOLEAN, prop : BOOLEAN, n : 0..3]
  <2>1. a.n + 1 \in 0..3
    OBVIOUS
  <2> QED BY <2>1 DEF Attempt
<1>5. Typed'
  <2>1. LoopTypeOK'
    BY <1>2, TypeFacts DEF LoopTypeOK, Loops
  <2>2. out'.status = "none"
    BY <1>1 DEF NoOutcome
  <2>3. att'.n <= 1 + (IF att'.ro THEN 1 ELSE 0) + (IF att'.prop THEN 1 ELSE 0)
    BY <1>4
  <2> QED BY <1>1, <1>3, <1>4, <2>1, <2>2, <2>3, TypeFacts DEF Typed, TypeOK, Statuses
<1>6. Budgeted'
  BY <1>1, <1>2 DEF Budgeted
<1>7. Watched'
  BY <1>1, <1>3 DEF IInv, Watched, Native, Confined, Judging
<1>8. CompletedWithinGrant'
  BY <1>1, <1>3 DEF CompletedWithinGrant
<1> QED BY <1>2, <1>5, <1>6, <1>7, <1>8 DEF IInv

\* The run ends with a result; one that is completed has not overstepped, if git was right.
LEMMA FinishKeeps ==
    ASSUME IInv, NEW status \in {"blocked", "failed", "completed"}, NEW stop,
           Finish(status, stop), UNCHANGED <<cfg, late, loop, fp, ckpt, out, before, att>>,
           pc \in {"start", "collect"}, file' \in [Paths -> Contents], blind' \in BOOLEAN,
           status = "completed" => Judging /\ UNCHANGED file /\ (~blind' => Overstep(Dirty \ before) = {})
    PROVE  IInv'
<1>1. pc' = "done" /\ result'.status = status
  BY DEF Finish
<1>2. Typed'
  <2>1. LoopTypeOK'
    BY TypeFacts DEF LoopTypeOK, Loops
  <2>2. att \in [ro : BOOLEAN, prop : BOOLEAN, n : 0..3] /\ before \subseteq Paths
        /\ att.n <= 1 + (IF att.ro THEN 1 ELSE 0) + (IF att.prop THEN 1 ELSE 0)
    BY DEF IInv, Typed, TypeOK
  <2> QED BY <1>1, <2>1, <2>2, TypeFacts DEF Typed, TypeOK
<1>3. Budgeted' /\ Earned'
  BY <1>1 DEF IInv, Budgeted, TurnsBounded, Earned, Unmoved
<1>4. Watched'
  BY <1>1 DEF IInv, Watched, Native, Confined, Judging
<1>5. CompletedWithinGrant'
  <2> SUFFICES ASSUME status = "completed", ~blind'
               PROVE  (~cfg.writable => Dirty' = {}) /\ (Native => Dirty' \subseteq before \cup Granted)
    BY <1>1 DEF CompletedWithinGrant, Native
  <2>1. Dirty' = Dirty /\ Dirty \ before \subseteq MayWrite
    BY DEF Overstep, Dirty
  <2>2. ~cfg.writable => before = {} /\ MayWrite = {}
    BY DEF IInv, Watched, MayWrite
  <2>3. cfg.writable /\ Native => MayWrite = Granted
    BY DEF MayWrite
  <2> QED BY <2>1, <2>2, <2>3
<1> QED BY <1>2, <1>3, <1>4, <1>5 DEF IInv

\* A git that takes too long ends the run with an exception.
LEMMA RaiseKeeps ==
    ASSUME IInv, pc \in {"start", "collect"}, pc' = "raised", file' \in [Paths -> Contents], blind' \in BOOLEAN,
           UNCHANGED <<cfg, late, loop, fp, ckpt, out, before, att, result>>
    PROVE  IInv'
<1>1. Typed'
  <2>1. LoopTypeOK'
    BY TypeFacts DEF LoopTypeOK, Loops
  <2>2. att \in [ro : BOOLEAN, prop : BOOLEAN, n : 0..3] /\ before \subseteq Paths /\ result.status = "none"
        /\ att.n <= 1 + (IF att.ro THEN 1 ELSE 0) + (IF att.prop THEN 1 ELSE 0)
    BY DEF IInv, Typed, TypeOK
  <2> QED BY <2>1, <2>2, TypeFacts DEF Typed, TypeOK
<1>2. Budgeted' /\ Earned' /\ Watched'
  BY DEF IInv, Budgeted, TurnsBounded, Earned, Unmoved, Watched, Native, Confined
<1>3. CompletedWithinGrant'
  BY DEF IInv, Typed, TypeOK, CompletedWithinGrant
<1> QED BY <1>1, <1>2, <1>3 DEF IInv

\* What was left running writes: files that may be written, or after a run that failed.
LEMMA LateWriteKeeps ==
    ASSUME IInv, NEW p \in Paths, NEW c \in Contents, LateWrite(p, c)
    PROVE  IInv'
<1> USE DEF LateWrite
<1>1. Typed'
  BY DEF IInv, Typed, TypeOK, LoopTypeOK
<1>2. Budgeted' /\ Earned' /\ Watched'
  BY DEF IInv, Budgeted, TurnsBounded, Earned, Unmoved, Watched, Native, Confined
<1>3. \A q \in Paths : q # p => (q \in Dirty' <=> q \in Dirty)
  BY TypeFacts DEF Dirty
<1>4. CompletedWithinGrant'
  <2> SUFFICES ASSUME result.status = "completed", ~blind
               PROVE  (~cfg.writable => Dirty' = {}) /\ (Native => Dirty' \subseteq before \cup Granted)
    BY DEF CompletedWithinGrant, Native
  <2>1. cfg.writable /\ Native /\ p \in Granted
    BY DEF IInv, Watched, Typed, TypeOK
  <2>2. Dirty \subseteq before \cup Granted /\ Dirty' \subseteq Paths
    BY <2>1 DEF IInv, CompletedWithinGrant, Dirty
  <2> QED BY <1>3, <2>1, <2>2
<1> QED BY <1>1, <1>2, <1>4 DEF IInv

\* The run is refused, or started on a workspace that it may use.
LEMMA StartKeeps ==
    ASSUME IInv, Refuse \/ Unclean \/ Start
    PROVE  IInv'
<1>1. blind \in BOOLEAN /\ file \in [Paths -> Contents]
  BY TypeFacts DEF IInv, Typed, TypeOK
<1>2. CASE Refuse
  BY <1>1, <1>2, FinishKeeps DEF Refuse
<1>3. CASE Unclean
  BY <1>1, <1>3, FinishKeeps DEF Unclean
<1>4. CASE Start
  <2>1. att \in [ro : BOOLEAN, prop : BOOLEAN, n : 0..3]
        /\ att.n <= (IF att.ro THEN 1 ELSE 0) + (IF att.prop THEN 1 ELSE 0)
    BY <1>4 DEF IInv, Typed, TypeOK, Start
  <2>2. before' \subseteq Paths /\ (~cfg.writable => before' = {}) /\ blind' \in BOOLEAN
    BY <1>1, <1>4 DEF Start, Looks, Look, Dirty
  <2> QED BY <1>1, <1>4, <2>1, <2>2, AttemptKeeps DEF Start
<1> QED BY <1>2, <1>3, <1>4

\* A replan is one of two.
LEMMA ReplanKeeps ==
    ASSUME IInv, Judging, file' \in [Paths -> Contents], blind' \in BOOLEAN,
           UNCHANGED <<cfg, late, before, result>>,
           \/ ~att.ro /\ Attempt([att EXCEPT !.ro = TRUE])
           \/ ~att.prop /\ Attempt([att EXCEPT !.prop = TRUE])
    PROVE  IInv'
<1>1. /\ att \in [ro : BOOLEAN, prop : BOOLEAN, n : 0..3] /\ before \subseteq Paths
      /\ att.n <= 1 + (IF att.ro THEN 1 ELSE 0) + (IF att.prop THEN 1 ELSE 0)
      /\ ~cfg.writable => before = {}
  BY DEF IInv, Typed, TypeOK, Watched, Judging
<1>2. CASE ~att.ro /\ Attempt([att EXCEPT !.ro = TRUE])
  <2> DEFINE a == [att EXCEPT !.ro = TRUE]
  <2>1. a \in [ro : BOOLEAN, prop : BOOLEAN, n : 0..3]
        /\ a.n <= (IF a.ro THEN 1 ELSE 0) + (IF a.prop THEN 1 ELSE 0)
    <3>1. a \in [ro : BOOLEAN, prop : BOOLEAN, n : 0..3] /\ a.n = att.n /\ a.ro = TRUE /\ a.prop = att.prop
      BY <1>1
    <3>2. att.n \in Nat /\ att.n <= 1 + (IF att.prop THEN 1 ELSE 0)
      <4>1. (IF att.ro THEN 1 ELSE 0) = 0
        BY <1>2
      <4> QED BY <1>1, <4>1
    <3>3. (IF a.ro THEN 1 ELSE 0) = 1
      BY <3>1
    <3> HIDE DEF a
    <3> QED BY <3>1, <3>2, <3>3
  <2> HIDE DEF a
  <2> QED BY <1>1, <1>2, <2>1, AttemptKeeps DEF a
<1>3. CASE ~att.prop /\ Attempt([att EXCEPT !.prop = TRUE])
  <2> DEFINE a == [att EXCEPT !.prop = TRUE]
  <2>1. a \in [ro : BOOLEAN, prop : BOOLEAN, n : 0..3]
        /\ a.n <= (IF a.ro THEN 1 ELSE 0) + (IF a.prop THEN 1 ELSE 0)
    <3>1. a \in [ro : BOOLEAN, prop : BOOLEAN, n : 0..3] /\ a.n = att.n /\ a.prop = TRUE /\ a.ro = att.ro
      BY <1>1
    <3>2. att.n \in Nat /\ att.n <= 1 + (IF att.ro THEN 1 ELSE 0)
      <4>1. (IF att.prop THEN 1 ELSE 0) = 0
        BY <1>3
      <4> QED BY <1>1, <4>1
    <3>3. (IF a.prop THEN 1 ELSE 0) = 1
      BY <3>1
    <3> HIDE DEF a
    <3> QED BY <3>1, <3>2, <3>3
  <2> HIDE DEF a
  <2> QED BY <1>1, <1>3, <2>1, AttemptKeeps DEF a
<1> QED BY <1>2, <1>3

\* What was seen of what the attempt left is judged.
LEMMA VerdictsKeep ==
    ASSUME IInv, NEW seen \in Looks, Look(seen), Verdicts(seen \ before)
    PROVE  IInv'
<1> DEFINE changed == seen \ before
<1>1. /\ pc = "collect" /\ Judging /\ blind' \in BOOLEAN /\ file \in [Paths -> Contents] /\ Head \in Contents
      /\ ~blind' => seen = Dirty
  BY GrantIsOfPaths, TypeFacts
  DEF IInv, Typed, TypeOK, Look, Verdicts, Judging, OutsideGrant, Invalid, Mutated, Missing, Accept
<1> HIDE DEF changed
<1>2. CASE OutsideGrant(changed)
  BY <1>1, <1>2, FinishKeeps DEF OutsideGrant, Kept
<1>3. CASE Invalid(changed)
  BY <1>1, <1>3, FinishKeeps DEF Invalid, Kept
<1>4. CASE Accept(changed)
  <2>1. ~blind' => Overstep(Dirty \ before) = {}
    BY <1>1, <1>4 DEF Accept, changed
  <2> QED BY <1>1, <1>4, <2>1, TypeFacts, FinishKeeps DEF Accept, Kept
<1>5. CASE Missing(changed)
  <2>1. CASE att.prop
    BY <1>1, <1>5, <2>1, FinishKeeps DEF Missing
  <2>2. CASE ~att.prop
    BY <1>1, <1>5, <2>2, ReplanKeeps DEF Missing
  <2> QED BY <2>1, <2>2
<1>6. CASE Mutated(changed)
  <2>1. file' \in [Paths -> Contents] /\ UNCHANGED <<cfg, late, before>>
    BY <1>1, <1>6 DEF Mutated, Restore
  <2>2. CASE att.ro /\ Finish("failed", "read_only_mutation_detected") /\ UNCHANGED <<loop, fp, ckpt, out, att>>
    BY <1>1, <2>1, <2>2, FinishKeeps
  <2>3. CASE ~att.ro /\ Attempt([att EXCEPT !.ro = TRUE]) /\ UNCHANGED result
    BY <1>1, <2>1, <2>3, ReplanKeeps
  <2>4. CASE pc' = "raised" /\ UNCHANGED <<loop, fp, ckpt, out, att, result>>
    BY <1>1, <2>1, <2>4, RaiseKeeps
  <2> QED BY <1>6, <2>2, <2>3, <2>4 DEF Mutated
<1> QED BY <1>2, <1>3, <1>4, <1>5, <1>6 DEF Verdicts, changed

\* What the attempt left is reported or judged, or a git takes too long.
LEMMA JudgeKeeps ==
    ASSUME IInv, Judge \/ GitTimesOut
    PROVE  IInv'
<1>1. blind \in BOOLEAN /\ file \in [Paths -> Contents] /\ out.status \in Statuses
      /\ (pc = "collect" => out.status # "none")
  BY TypeFacts DEF IInv, Typed, TypeOK
<1>2. CASE Report
  BY <1>1, <1>2, FinishKeeps DEF Report, Kept, Statuses
<1>3. CASE GitTimesOut
  BY <1>1, <1>3, RaiseKeeps DEF GitTimesOut
<1> QED BY <1>2, <1>3, VerdictsKeep DEF Judge

\* A run begins with nothing done.
LEMMA InitInv == Init => IInv
<1> SUFFICES ASSUME Init PROVE IInv
  OBVIOUS
<1> USE DEF Init
<1>1. /\ TurnsBounded /\ loop.exts = 0 /\ ~loop.synth /\ Earned
      /\ loop \in Loops /\ fp \in Fingerprints /\ ckpt \in Fingerprints
  BY FreshIs
<1>2. Typed
  <2>1. LoopTypeOK
    BY <1>1 DEF LoopTypeOK, Loops
  <2>2. att \in [ro : BOOLEAN, prop : BOOLEAN, n : 0..3] /\ att.n = 0 /\ att.ro = FALSE /\ att.prop = FALSE
    OBVIOUS
  <2>3. result.status = "none" /\ out.status = "none"
    BY DEF NoOutcome, NoResult
  <2>4. TypeOK
    BY <2>1, <2>2, <2>3 DEF TypeOK
  <2> QED BY <2>2, <2>3, <2>4 DEF Typed, Statuses
<1>3. Budgeted /\ Watched
  BY <1>1 DEF Budgeted, Watched, Confined
<1>4. CompletedWithinGrant
  BY DEF CompletedWithinGrant, NoResult
<1> QED BY <1>1, <1>2, <1>3, <1>4 DEF IInv

\* Every step keeps the invariant.
LEMMA NextKeeps == IInv /\ [Next]_vars => IInv'
<1> SUFFICES ASSUME IInv, [Next]_vars PROVE IInv'
  OBVIOUS
<1>1. CASE UNCHANGED vars
  BY <1>1 DEF vars, IInv, Typed, TypeOK, LoopTypeOK, Budgeted, TurnsBounded, Earned, Unmoved, Watched,
              CompletedWithinGrant, Dirty, Native, Confined
<1> QED BY <1>1, StartKeeps, LoopStepKeeps, WorkerKeeps, JudgeKeeps, LateWriteKeeps
    DEF Next, NativeStep, Finished

\* The inductive invariant holds.
LEMMA Invariant == Spec => []IInv
BY InitInv, NextKeeps, PTL DEF Spec

-----------------------------------------------------------------------------
(***************************************************************************)
(* The theorems.                                                           *)
(***************************************************************************)

\* The records of a run stay well formed, and it takes at most three attempts.
THEOREM RunnerType == Spec => []TypeOK
<1>1. IInv => TypeOK
  BY DEF IInv, Typed
<1> QED BY <1>1, Invariant, PTL

\* native_loop_budget.py: under every valid policy the turns stay within the base, what
\* was granted on top of it, and the absolute limit.
THEOREM LoopTurnsBounded == Spec => []TurnsBounded
<1>1. IInv => TurnsBounded
  BY DEF IInv, Budgeted
<1> QED BY <1>1, Invariant, PTL

\* decide_extension: every extension has a write, a validation or a change of the granted
\* files of its own.
THEOREM LoopExtensionsEarned == Spec => []ExtensionsEarned
<1>1. IInv => ExtensionsEarned
  <2> SUFFICES ASSUME IInv PROVE ExtensionsEarned
    OBVIOUS
  <2>1. loop.exts \in Nat /\ ckpt.moves \in Nat /\ fp.moves \in Nat
    BY TypeFacts DEF Loops, Fingerprints
  <2> QED BY <2>1 DEF IInv, Earned, ExtensionsEarned
<1> QED BY <1>1, Invariant, PTL

\* The `run` of every backend: if no look at the workspace missed a file, a completed
\* read-only run has left it clean, and a completed native run has left the files that were
\* clean before, outside its grant, clean; also after replans, failed restores and late writes.
THEOREM RunWithinGrant == Spec => []CompletedWithinGrant
<1>1. IInv => CompletedWithinGrant
  BY DEF IInv
<1> QED BY <1>1, Invariant, PTL

\* A run of a native profile without a shell changes no file outside its grant.
LEMMA ConfinedStep ==
    ASSUME IInv, [Next]_vars, Confined, NEW p \in Paths \ Granted
    PROVE  file'[p] = file[p]
<1>1. late \subseteq Granted /\ pc # "worker" /\ file \in [Paths -> Contents]
  BY TypeFacts DEF IInv, Watched, Confined
<1>2. CASE NativeStep
  <2>1. UNCHANGED file \/ \E q \in Granted, c \in Contents : file' = [file EXCEPT ![q] = c]
    BY <1>2 DEF NativeStep, LoopStep, Tool, ReadTool, WriteTool, WriteTimesOut, ToolError, ShellTool,
                ShellTimesOut, Calling, Turn, TurnFails, AnswerTools, AnswerText, TurnStops, TurnComplete,
                WithinBudget, BudgetEnds, Synthesize, Extend, Confined
  <2> QED BY <1>1, <2>1
<1>3. CASE Judge
  BY <1>3 DEF Judge, Verdicts, Report, OutsideGrant, Invalid, Mutated, Missing, Accept, Kept, Confined
<1>4. CASE \E q \in Paths, c \in Contents : WorkerWrites(q, c) \/ LateWrite(q, c)
  BY <1>1, <1>4 DEF WorkerWrites, LateWrite
<1>5. CASE WorkerEnds
  BY <1>1, <1>5 DEF WorkerEnds, HermesEnds, HermesTimesOut, ClaudeEnds, ClaudeTimesOut, CursorEnds, Stays
<1>6. CASE Refuse \/ Unclean \/ Start \/ GitTimesOut
  BY <1>6 DEF Refuse, Unclean, Start, GitTimesOut
<1>7. CASE Finished \/ UNCHANGED vars
  BY <1>7 DEF Finished, vars
<1> QED BY <1>2, <1>3, <1>4, <1>5, <1>6, <1>7 DEF Next

\* amof_native.py: the profiles without a shell are confined to their grant by what their
\* tools can do, in every run, completed or not, and after it.
THEOREM RunGoverned == Spec => GovernedOnly
<1>1. IInv /\ [Next]_vars =>
        [Native /\ cfg.profile # "general" => \A p \in Paths \ Granted : file'[p] = file[p]]_vars
  BY ConfinedStep DEF Confined
<1> QED BY <1>1, Invariant, PTL DEF Spec, GovernedOnly
=============================================================================
