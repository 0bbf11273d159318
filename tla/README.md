# Verification of AMOF in TLA+

AMOF (`src/scripts/amof`) is a control plane for governed AI work on
repositories: an operator approves what a worker may change, runs are queued and
executed, results are judged against the approval, and evidence is sealed and
exported. This directory models the parts that decide what may happen, checks
them with TLC on small instances and proves the central claims with TLAPS.

Contents: [Inventory](#inventory) · [Plan](#plan) ·
[Write-scope authority](#write-scope-authority) · [Run queue](#run-queue) ·
[Transparency log](#transparency-log) · [Promotion](#promotion) ·
[Kubernetes capability](#kubernetes-capability) ·
[Handoffs and campaigns](#handoffs-and-campaigns) ·
[Execution backends](#execution-backends) · [Proofs](#proofs) ·
[What the code and its documents disagree on](#disagreements) ·
[Limits](#limits) · [Running the checks](#running-the-checks)

## Inventory

| Component | State it keeps | Operations | Hard behaviour | What makes it correct |
|---|---|---|---|---|
| Write-scope authority (`write_scope_*.py`) | JSON files: proposals, approvals, revocations, bindings, receipts; git workspaces | import, approve, revoke, bind, enforce, finalize, recover; lazy expiry on every read | every amof command is a process of its own and the locks are per process; commands die between two files; TTLs end and HEAD moves under a run | a grant carries one successful run, a target has one writer, ended records stay ended, receipts are true |
| Run queue (`queue/`) with run manager and store (`api/run_manager.py`, `api/run_store.py`) | one JSON record per task, one run record beside it, the active subprocess | enqueue, claim, start, poll, deadline, stop, finish, reconcile at start; pause, resume, batches | request threads and the worker load and save whole records without a common lock; crashes leave running records; subprocesses ignore signals | a task runs at most once and one at a time, a stop is honoured, both stores agree, every task ends (the code keeps this only while loads and saves do not interleave) |
| Transparency log (`trust_crypto/transparency.py`) | key files, `leaves.jsonl` | tlog-init, append, verify | exclusive files written one by one, append without a lock, odd tree sizes | one key pair, every receipt verifies, checkpoints stay consistent |
| Trust export and policy (`trust_crypto/`, `trust_layer.py`) | run bundles, seals, key policy, export directories | finalize, seal, sign, enroll, revoke, export, verify | several files per operation; partial export | nothing unsealed is exported; a revoked key signs nothing new |
| Promotion (`commands/promote_main.py`) | `origin/main`, a lock file and a compat lock per host, audit records | plan, apply, push, reconcile, close out, revert | the lock is local and released between plan and push; other hosts and people push too; a push lands and its answer is lost | main only grows, a bundle is promoted once, audit records are true |
| Kubernetes capability (`kubernetes_capability.py`, `kubernetes_live.py`) | proposals, approvals, bindings, receipts; a Deployment in a cluster | propose, approve, revoke, bind, read, patch, read back, finalize | kubectl times out after the patch landed; others change the Deployment; files are checked and written without a common lock | a reviewed change lands once, PASS speaks of the attempt's own patch |
| Handoff (`commands/handoff.py`, `trust_layer.py`) | packet, claim, state, result, receipt, seal and bundle of each handoff | prepare, accept, execute, finalize | the claim is an `O_EXCL` file, every other file is rewritten; a crash after the claim leaves an uncertain result | a handoff has at most one execution, one outcome and one bundle that states it |
| Campaign loop (`campaign_loop.py`) | campaign file with a dispatch journal, under a file lock | create, advance, run | re-entry after a crash between journal and dispatch | a slice is dispatched once, counted in order, and the campaign ends |
| Native loop and budgets (`execution_backends/amof_native.py`, `native_loop_budget.py`) | turn budget, progress fingerprint, transcript | turn, tool call, verdict, extension, synthesis | limits and off-by-one at the last turn; calls that time out and happen later | the loop ends and is extended only for something new |
| Other execution backends (`execution_backends/`) | the workspace, the run's terminal result | start, collect, judge, restore, replan | the worker may touch any file; restores and looks at the workspace fail unseen | a completed run kept to read-only or its grant, and every run ends |
| Orchestrator (`orchestrator/`) | plan, step results, resume choices | plan, execute, verify, resume | resume of a half-executed plan | no step is skipped or repeated |
| Reference capability | proposal, approval, binding and receipt on a demonstration store | as the Kubernetes capability | | as the Kubernetes capability |
| MCP server (`mcp/`) | confirmation tokens, sessions | issue, confirm, expire | token reuse and lifetime | a token confirms once |
| API services, routers, auth | external services | HTTP handlers | retries of external calls | (state is outside the repository) |
| Intake, operator commands, workspaces, generated build, demo, entry points | tickets, worktrees | command-line front ends | | |

How they interact: a campaign prepares handoffs and reads their status; handoff
and `agent_cmd` call an execution backend to run the worker, and write-scope
authority before and after it; API routers enqueue runs and stop them through the
dispatcher, which reports to the run manager; the run manager writes the
queue record whenever it writes a run; exports append to the transparency log
and carry its receipts.

The hazards of this code, each at its line with the properties that would catch
it, are listed under `hazards` in `PROJECT.json`.

## Plan

Done: write-scope authority (grants are the system's central promise), the
run queue (its only multi-threaded part), the transparency log, promotion, the
Kubernetes capability, handoffs, campaigns over handoffs, the execution backends
with the native loop.

| Module | Extends or composes | Abstract specification |
|---|---|---|
| `WriteScope` | | `WriteGrant` |
| `Queue` | | `QueueSlot` |
| `TransparencyLog` | `Merkle` | |
| `Promotion` | | `PromotionLedger` |
| `KubeCapability` | | |
| `Campaign` | `Handoff` | `HandoffOutcome` |
| `Runner` | `NativeLoop` | |

Next, in this order:

1. `Queue`: pause, resume and batch tasks, the cluster builder of a stopped
   run, and the run store's cache with failing disks.
2. `TrustExport`: key policy and export; composed with `TransparencyLog`.
3. The orchestrator's resume, and the confirmation tokens of the MCP server.

## Write-scope authority

`WriteScope.tla` models `write_scope_approvals.py`, `write_scope_bindings.py`,
`write_scope_enforcement.py`, `write_scope_recovery.py` and the import of
`write_scope_proposals.py`, with the way `commands/handoff.py` calls them.

*State.* `approval`, `bstatus`, `bapproval`, `revocations`, `receipts` and
`proposals` are the JSON files, `needsNew` the approvals with a recovery event
that demands a new one; `lapsed`, `head` and `dirty` are the
clock, git's HEAD and git's status. `pc` and `loc` hold where each process is
and what it has read.

*Steps.* A record file is replaced atomically, and `_STORE_LOCK` is a
`threading.RLock`, which excludes nothing between two processes; so one step is
one access to a shared file, the workspace or git. A command is a chain of such
steps: for example `EnforceBegin`, `Checkpoint`, `Authority`, `ScopeRoots`,
`Classify`, `Reload`, `Settle`, `TransitionRead`, `TransitionWrite`,
`Consequence`, `Consume`, `WriteReceipt`, with `Exception` and
`ExceptionReload` for the handler. Loading an approval whose TTL has passed
writes it back as expired (`PersistExpiry`), in every command. `Crash` ends a
process anywhere; git commands may raise (`ClassifyRaises`,
`RecoverGitRaises`).

*Abstraction.* A proposal's body is its target, commit and set of allowed
paths; ids are model values; record validation never fails, because the records
are written by the same code. Binding ids are fresh.

*Regimes.* `Exclusive = TRUE` is the usage in which commands do not overlap: a
command starts only while the others rest (idle, or waiting for their worker).
`Exclusive = FALSE` lets every access interleave. `Faults` switches crashes and
failing git.

`WriteGrant.tla` is the promise without processes and files: a grant is minted
once, reserved by one run at a time, released if that run fails unused, and ends
for good; two grants on one target are never reserved together.

| Run | Instance | Checks |
|---|---|---|
| `write_scope_exclusive` | 1 grant, 2 bindings, 2 processes, crashes, moving HEAD | `RevokedHasRevocation`, `SingleUse`, `GrantAccounted` (a receipted mutation ends its grant, a success consumed it, a consumed grant had a run that ended), finality of approvals and bindings, `ReceiptsAreTrue` |
| `write_scope_two_grants` | 2 grants on one target | `OneWriterPerTarget`, `ImplementsWriteGrant` |
| `write_scope_settles` | everything interleaves, no crashes, fairness | `EveryBindingSettles` |
| `write_scope_racing_binds` | 1 grant, 2 processes that overlap | violated: `SingleUse`, see [below](#disagreements) |

*Bounds.* Two processes suffice for every race of a read with a write; two
bindings of one approval for a second use of a grant; two approvals of one
target for competing writers; one path in scope and one outside for every
compliance value. Approval ids, bindings and processes are symmetric.

*Fairness.* A command that has started goes on, and its worker ends (the runner
is a subprocess with a timeout). No operator has to start a command.

## Run queue

`Queue.tla` models `queue/store.py`, `queue/models.py`, the subprocess part of
`queue/dispatcher.py`, `create_run`, `update_status`, `append_event` and
`update_loop_state` of `api/run_manager.py`, and the stop route of
`api/routers/run.py`. The runs are release lifecycle runs, the only ones the API
can stop.

*State.* `rec` is a run's queue record (status and stop flag), `run` its status
in the run manager, `proc` its subprocess, `active` the dispatcher's
`_active_process`. `starts`, `heard` and `refused` are history: how often the
subprocess was started, which stops were accepted while it lived, which were
answered by "Task cancelled before execution".

*Steps.* `QueueStore.save` locks the write only, so each "load, change, save"
of the run manager is two steps and another thread may come between. A thread is
the list of steps it still has to take: `Touch` (an event, a log line or a loop
state: save what was loaded), `Update` (set the run, then save the mapped status
over the loaded control block). `StartSteps`, `PollSteps`, `StopNoted` and
`FinishSteps` are the calls of the code in their order. `transition` rereads the
record under the lock and is one step (`ClaimNext`, `StopMark`, the pending
branch of `StopWrite`).

*Crashes.* `Crash` loses every thread; files and a live subprocess stay.
`ReconcileRun` and `ReconcileRecord` are `_reconcile_orphaned_running_tasks`,
which ends before the worker starts.

*Regimes.* `Serialised = TRUE`: no thread steps between another's load and save.
`store.py` does not guarantee this: its lock spans the save only, and that of
`transition`. The regime separates what the order of the writes guarantees, over
stops, deadlines and crashes, from what lost updates break. What they break is
kept apart: `queue_lost_stop` shows it for the stop flag, and the hazards of the
same origin (an event or a stop that loaded the record before the claim and saves it
after) are listed without a property.

`QueueSlot.tla` is the promise: one execution slot, runs that move only forward.

| Run | Instance | Checks |
|---|---|---|
| `queue_serial` | 2 runs, 1 request thread, 2 crashes, serialised | `ExecutedAsReported` (at most once, and never after "cancelled before execution"), `StoresAgree`, `OneLiveProcess`, `ImplementsQueueSlot`; under fairness `EveryTaskSettles` |
| `queue_lost_stop` | 1 run, 1 request thread, no crash, everything interleaves | violated: `StopHonoured`, see [below](#disagreements) |

*Bounds.* One request thread enqueues, stops, and stops again beside the worker;
with load-save pairs that do not interleave a second one adds the order of two stops
only, and the theorems below have any number. Two runs give the hand-over of the worker;
two crashes give a crash during reconciliation. The lost stop needs one run, one
request thread and the worker.

*Fairness.* A thread that has begun an operation goes on and gets the lock in the
end (strong fairness, because another thread may take the lock in between); the
wallclock deadline passes in the end; a supervisor starts a dead API process
again. No request has to be made and no subprocess has to exit by itself.

At rest, with all runs over and no request, nothing is enabled: the passing run does not
check for deadlock; `EveryTaskSettles` is the stronger statement.

## Transparency log

`Merkle.tla` is the hash tree of `trust_crypto/transparency.py` as pure
operators, with hashes as terms (no collisions). Every variable of a loop of the
code is a recursive function of the number of turns: `Levels` (`level`), `Indexes`
(`idx`), `Widths` (`size`), `Siblings` (`proof`), `Used` (`proof_i`), `Climb`
(`current`). `TransparencyLog.tla` is the log around it: `InitBegin`, `WritePub`, `WritePriv` and `WriteMeta` are tlog-init with
its three exclusive files, `ReadLeaves` and `AppendLeaf` the two file accesses of
`append_hashedrekord`, `ReceiptOf` the receipt computed from the rows in memory,
`Verifies` the offline check. `End` ends or kills a process anywhere; a process
that rests in `done` stands for a receipt that is kept while the log grows.

A body is logged again when one run is exported twice into different directories
within one second: the body hashes a snapshot whose time has that resolution.

| Run | Instance | Checks |
|---|---|---|
| `tlog_serial` | 7 bodies, 2 processes, tlog-init may overlap, appends do not | `KeyPairMatches`, `IndexIsPosition`, `CheckpointsConsistent`, `ReceiptProvesItsLeaf` (it verifies, and proves one leaf only) |

Seven bodies give every tree of one to seven leaves and a receipt for each leaf
of each: nodes without a sibling at one level (3, 6, 7) and at two (5).
`ReceiptProvesOneLeaf` is soundness for the tree size of the receipt. All of it is
[proved](#proofs) for trees of every size.

A tlog-init that is killed between its two keys leaves a log that refuses export
and tlog-init alike, as the code intends ("incomplete tlog key material", "refuse
overwrite"); these runs therefore do not check for deadlock.

## Promotion

`Promotion.tla` models `commands/promote_main.py`: promote-main and
promote-main-revert as invocations on several hosts.

*State.* `main` is `origin/main`, a sequence of commits, each with its tree; the
content of a file is the set of edits it holds. `cand` are the candidate branch
commits. `lock`, `compat` and `audit` are the lock file and the compat lock of a
host and the audit record of an invocation. `landed` is history: which commit an
invocation put on main.

*Steps.* `Begin` takes the candidate and the main the operator expects; after
`TakeLock` the promotion is planned under the lock (`PlanReady`, `PlanRejected`),
which is let go; under the lock taken again, `ExecuteCommit` rechecks main and the duplicate search and makes the synthetic
commit; `PushAccepted` appends it if main is still its parent. `PushUnanswered`
is the push that lands and whose answer is lost, `PushRejected` the one that does
not land. `Refetch`,
`Reconcile` and `Closeout` follow under the lock, and each may fail after main has
moved. `Elsewhere` is a commit of somebody who does not use AMOF, a merge of a
candidate included; `RemoveStaleLock` is the operator, because the code never
removes the file of a dead process.

`PromotionLedger.tla` is the promise: main only grows, a bundle is promoted once,
and a promotion adds the candidate's own edits, to code files that main has not
touched since the candidate left it.

| Run | Instance | Checks |
|---|---|---|
| `promotion` | 3 invocations on 2 hosts, 1 candidate, 1 commit from elsewhere, 1 crash | `RefinesLedger`, `AuditIsTrue`, `CompatNeverRegresses` |

*Bounds.* Two invocations on one host compete for its lock, the third works
around it from the other host; three suffice for promote, revert, and promote
again. The two on one host are symmetric. All invocations end and nobody starts
another, so that run does not check for deadlock.

Not modelled: the checks of a candidate's content, and whether a patch's hunks
apply to a file that has changed (both outcomes are allowed).

## Kubernetes capability

`KubeCapability.tla` models `kubernetes_capability.py` with the executor of
`kubernetes_live.py`.

*State.* `proposal` is what was frozen: a read grant, a mutate grant (the
annotation patch) or an exact one (the readiness patch), the last with or without
the reviewed resourceVersion. `app`, `bind` and `receipt` are the files, `deploy`
the Deployment, `expiring` and `revoking` the commands that have read an approval
and not yet written it, `landed` (history) the attempts whose patch changed the
Deployment.

*Steps.* One step is one access to a file or to the API: `BindCheck`,
`BindWrite`, `Scope`, `ReadBefore`, `Patch`, `ReadBack`, `Finalize` (loads the
binding) and `Close` (writes it), `Consume`, `Spend`, `WriteReceipt`. `TransportFails` and `Interrupted` are a kubectl that
fails before the patch or after it landed; the API server refuses a readiness
patch whose resourceVersion is not the current one. An approval past its time is
written back as expired by whoever reads it (`PersistExpiry`), in whatever state
the file is by then.

| Run | Instance | Checks |
|---|---|---|
| `kube_capability` | 2 attempts, 2 grants of one proposal, 1 outside change, 1 crash, 1 grant that runs out | `OneChangePerGrant` (`ReviewedOnce` and `SingleUse`), `PassIsOwn`, `SettledEndsGrant` |

*Bounds.* Two attempts under one grant or under two give every race of check and
write; one change by somebody else is enough to come between a read and a patch,
or a patch and its read-back. Attempts and grants are symmetric.

Two attempts that both check before either has bound do both get a binding;
`SingleUse` therefore speaks of attempts of which one had bound before the other
checked, and `ReviewedOnce`, which speaks of all, rests on the resourceVersion.

`SingleUse` leaves out a binding that a second attempt shares by naming its
`binding_id` (`Rebind`). The load and the write of `_finalize_binding` are two
accesses: the owner closes the binding as completed and uses the grant up, the other
attempt, which loaded it while it was active, writes failed over it, and a third
attempt finds nothing that blocks the grant. With three attempts and one grant TLC
finds this as a violation of `SingleUse` without the exception; the run has two
attempts and the theorem any number.

## Handoffs and campaigns

`Handoff.tla` models the life of a handoff in `commands/handoff.py` and the seal
of `trust_layer.py`; `Campaign.tla` extends it with `campaign_loop.py`.

*State of a handoff.* One file each: packet, `claim`, `state`, `result`,
`receipt`, `seal`, `bundle`. `receipt` may be torn, because it is truncated and
written again; `seal` holds a copy and a digest of it. `ran` and `again` are
history: how often the runner was called, and called again.

*Steps.* execute-agent is `ExecuteLoad`, `Claim` (an `O_EXCL` file that is never
given back), `Queue`, `Start` or `GateFails`, `DispatchFails` or `Run`,
`WriteResult`, `WriteReceipt`, `WriteStatus`, and then the finalization, unless that
was deferred to a parent. `_dispatch_backend_handoff` takes a TypeError of the run,
wherever in the run it was raised, for a runner that knows no validation gates and
calls it a second time without them (`Retry`); hermes raises one on a timeout with
partial output, when it has worked for as long as it may. finalize-agent is `FinalizeLoad`, `SealCheck`, `SealCopy`,
`SealWrite`, `Publish`, `Truncate`, `Rewrite`, `Finish`. accept-agent reads in one
step and writes `accepted` in a later one, over whatever is there. `Crash` ends a
process between any two of these.

*Campaign.* `saved` is the campaign file, `driver` the one process that holds the
lock, with its copy of the campaign. A bound campaign journals `PREPARE_INTENT`,
`PREPARED`, `DISPATCH_INTENT` and `ACCEPTED` before it goes on and resumes at what
it finds; an unbound one stops at a slice that was under way. The callbacks that
prepare and dispatch may raise before and after their effect.

`HandoffOutcome.tla` is the promise: a handoff is taken once, has one outcome and
one bundle, which states it.

| Run | Instance | Checks |
|---|---|---|
| `handoff` | 1 handoff, 2 processes, 3 crashes | `ExecutedOnce` (one execution calls the runner, once, before any result; again only behind a TypeError of that call), `EvidenceTrue`, `ReportsStand`, `RefinesOutcome` |
| `campaign` | 2 slices, 1 process, 1 crash, fairness | `DispatchJournalled` (a slice is dispatched once, and a journal that denies it is right), `DoneInOrder`, `Settles` |

*Bounds.* Two processes are two executors, two finalizers, or one of each, and
three crashes let a third and a fourth take up what they left. Two slices are the
first step, where nothing can be repeated, and a later one, where evidence can. A
crash may hit the driver or the executor. `ByHand` names the handoffs that somebody
accepts by hand beside the campaign: the first one in both runs.

*Fairness.* The operator runs a waiting campaign again, and a driver or process
that has begun goes on (weak fairness). Somebody executes a dispatched handoff
that nobody has claimed: strong fairness, because the one process may be busy
with something else in between. `Settles` allows one way not to end: a campaign
that waits for an execution whose process died before its result, which no code
here takes up again. A campaign that ended is not taken up either; these runs do
not check for deadlock.

## Execution backends

`NativeLoop.tla` models the loop of `execution_backends/amof_native.py` with
`native_loop_budget.py`; `Runner.tla` extends it with the `run` of all four
backends (`hermes_opensandbox.py`, `claude_code.py`, `cursor_agent.py`,
`amof_native.py`), `workspace_state.py` and `result_io.py`.

*The loop.* `Turn`, `AnswerTools` or `AnswerText`, the tools, `TurnComplete`, and
at the end of the budget `Synthesize`, `Extend` or `BudgetEnds`. `fp` is the
fingerprint: its digests are hash chains and appear as the number of their links,
except the digest of the granted files, which is one of contents and can come
back. `moves` (history) counts what an extension may be given for: writes, good
validations and digests that differ from the one before; the first digest is a
baseline and no move. `Verdict`, `ExtensionGranted` and `SynthesisDue` are the decisions of
`native_loop_budget.py`, case by case. A governed write that is not answered
within 30 s is an error to the model and may happen later: its file goes to
`late`.

*The run.* Every look at the workspace (`Looks`) may miss files, because
`_changed_paths` passes over a repository whose `git status` fails; `blind` (history)
says that one did. A git that takes more than ten seconds raises out of `run`
(`GitTimesOut`). `Start` or a refusal; the worker, which may touch any file whatever it
was told (`WorkerWrites`); its end or its timeout, after which its children may
still write (`LateWrite`); then the judgement in the code's order: `Report`,
`OutsideGrant`, `Invalid`, `Mutated` (restore, which may fail unseen, and one
replan), `Missing` (one replan for a proposal), `Accept`.

| Run | Instance | Checks |
|---|---|---|
| `runner` | every backend and profile, read-only or not; 1 granted and 1 other file, 2 contents; 2 turns, extended by 2 and by 1 up to 5 | `TurnsBounded`, `ExtensionsEarned`, `CompletedWithinGrant`, `GovernedOnly`, `Ends` |

*Bounds.* The absolute limit is reached by a full extension and one that it cuts
short; one tool call in a turn is enough, because the verdict compares counts over
several turns; the stall gate fires at the second repeated read (the code's
constant is 6).

*Fairness.* The process takes its steps, and a worker ends or is timed out. For
hermes and claude that holds when `timeout_seconds` is set; the Cursor SDK has no
timeout here, and an agent that expired says so itself. After a run has ended,
only `Finished` and late writes remain.

*What is promised about files.* Two properties, of different strength:

- `CompletedWithinGrant` is what looking afterwards achieves. If no look missed a
  file, a completed read-only run of any backend leaves a clean workspace, over
  replans and restores that fail; and a completed native run leaves everything
  outside its grant clean that was clean before. It says nothing of a file that was
  dirty before a writable run, because only new names are compared; nothing of the
  writable runs of hermes, claude and cursor, which the code does not hold to a grant;
  and nothing once a look was blind.
- `GovernedOnly` is what prevention achieves. The native profiles without a shell
  never touch a file outside the grant, in any step, dirty before or not, seen by git
  or not, in runs that fail or raise and in writes carried out after the end.

*Assumptions.* Nobody else writes in the workspace; a `git status` that succeeds
tells the truth; the run is not bound to a write scope
(if it is, its enforcement is `WriteScope`'s); a native profile comes with grants
that fit it.

*What the model shows of the code.* A timeout of hermes with partial output (bytes
written as text) and a shell command of more than 30 s raise out of `run`, which
then has no terminal result: `raised`, which counts as an end for `Ends`. The first of
them is a TypeError, behind which the handoff starts the runner again
([above](#handoffs-and-campaigns)) while children of the first may still write. A
read-only run whose first look was blind starts in a workspace that is not clean,
takes the earlier uncommitted changes for its own at the next look, and restores them
away. The read-only replan of the native backend
is never reached, because the check for changes outside the grant comes first. A
file that was dirty before the run is not among its changes, whatever the run did
to it. A failed validation on the other three backends ends the run before the
read-only check, so that its changes stay.

Not modelled: the scripted transport, markers of the first write, the validation
closure, the probes of the command lines and the adapter's token counts.

## Proofs

All theorems hold for every value of the constants, under the named assumptions
(`ASSUME`) of the modules on them, which TLC evaluates in the runs. They say that
names are distinct (the worker is no caller, `None` is nothing), that bounds are
natural numbers, and that a policy, a plan and a host map are what the code
checks or takes them for.

*`WriteScopeProofs.tla`*: `TypeCorrect` and `RevocationFirst`, for every
interleaving and crash. `TypeInv` adds to the types what each place of a command
relies on (`WellPlaced`): a process at the write of the approval has its
revocation file written, a process in a transition has a stored binding.

*`WriteScopeExclusive.tla`*: for `Exclusive`, `ExclusiveOneWriter`,
`ExclusiveSingleUse`, `ExclusiveApprovalFinal` and `ExclusiveBindingFinal`.
None of these is inductive: the bind gate is checked in one step and the binding
saved in a later one. The invariant is `ExclInv == Quiet /\ AllFresh /\
OneWriterPerTarget /\ SingleUse`: at most one command is under way, and what it
has read is still true when it writes (at `bind.save` no binding blocks the
approval or holds the target; at `transition.write` the transition is still
allowed; at `persist` the approval is still approved).

The same module proves `ExclusiveGrantAccounted`, `ExclusiveReceiptsTrue` and
the refinement `ExclusiveImplementsGrant`. What a receipt says was read, judged and
written in some ten steps, so the invariant follows enforcement through them.
`Knows`: the approval of a command was minted and its binding is one of that
approval. `Enforces`: per stage, the binding status it holds is the one on disk; a
run that was not stopped has a live binding until it is settled; afterwards the
binding has ended, completed if the run will be reported as a success; an exception is
raised only when the approval is over. A command that is about to persist an expiry
counts as one at the stage it goes on to, with an expired approval. `Settles`: the
transition that settles a binding is never refused. `Minted`: only a minted grant
lapses or is bound. For the refinement, `NextWritesOne` reduces every step to one
write (an approval, a binding along its table, a new binding of a free approval) or
one lapse, and each of these moves one grant as `WriteGrant` allows.

*`QueueProofs.tla`*: `QueueTypeCorrect`, and `QueueOneLiveProcess` for both
regimes. `LiveInv` says that while a process lives and nothing has crashed, the
worker executes its run, and the steps left are steps of the polling loop that
end in `exited`, which leaves the loop only when the process is gone.

For the serialised regime, `QueueExecutedAsReported`, `QueueStopHonoured`,
`QueueStoresAgree` and the refinement `QueueImplementsSlot`. Their invariant
`SerialInv` puts every thread in its place: `HoldInv`, what a thread holds is what is
on disk, and every save has its load right before it; `CallerInv`, where a request
thread may be, and that no two create the same run; `WorkerInv`, that the worker is
before the start, executing or ending; `SlotInv`, that at most one record is running,
the worker's while it is up; `RunInv`, how the record, the run and the process of one
run fit, and that until the first crash a record and a run that do not fit have a
thread that will see to it. `RecordsForward` says of every step that it leaves the
records alone, submits a run, gives it the free slot, withdraws it or ends it, which is
the refinement.

*`TransparencyLogProofs.tla`*: `LogTypeCorrect` and `LogKeyPair` for every
interleaving (`KeyInv`: whoever is about to write the private key wrote the
public one), and for serialised appends `LogIndexIsPosition` and
`LogCheckpointsConsistent` (`SerialInv`: the rows a process holds are a prefix of
the file, all of it if it is about to append, and a receipt has its body at its
index).

`LogReceiptProves` states `ReceiptProvesItsLeaf` for logs of every length, and rests
on what the hash tree computes for every sequence of leaves. The induction theorems
of the library take an operator, which the provers cannot instantiate; here
`LeastNatural` and `SetInduction` say the same of a set of numbers, and follow from
the well-foundedness of `<`. With them each loop of `Merkle` is shown to satisfy the
equation that defines it (`LevelsDef` to `ClimbDef`: there is a function with `n`
turns for every `n`). Then:

- `WidthsOK`, `IndexesOK`, `LevelsOK`: after as many turns as there are leaves one
  node is left, the levels have the widths the verifier computes from the size alone,
  and the index stays inside them. `NodeOK` says how the ancestor of a leaf is made
  from the one below and the node beside it.
- `InclusionProofVerifies` (upwards): the path holds the node beside the ancestor in
  the place where `_verify_inclusion` looks for it (`SiblingsOK`), so the climb passes
  through the ancestors and ends in the root.
- `VerifiedLeafIsLogged` (downwards): a climb that ends in the root was at the
  ancestor on every level, because a node's hash fixes both children; so it started
  from the leaf, whatever the path was. `RootCommitsToLeaves` follows: one size and
  one root, one sequence of leaves.
- `ProofHasOneIndex`: were the path of leaf `j` accepted at `i`, then on the highest
  level where the two indexes differ they would be siblings that read the same entry,
  so two nodes of a level would be equal. `NodesDiffer` excludes that for leaves of
  different bodies: equal nodes of whichever levels begin with the same leaf
  (`SameNode`, by induction over the sum of the levels, since an unpaired node stands
  on several).

`LogAppendedReceiptVerifies` needs no serialisation: the receipt of a leaf that was
just appended verifies, whatever overlapped.

*`CampaignProofs.tla`*, over handoffs and the campaigns that drive them: the types
(`CampaignType`), `HandoffExecutedOnce`, `FinalizedHasEvidence`, `StatusStands`,
`CampaignJournalled`, `CampaignInOrder`, and `HandoffsImplementOutcome`, the
refinement of `HandoffOutcome`. `HandoffExecutedOnce` counts the first calls of the
runner and the calls again apart: a call again stands behind a first one of the same
execution. The claim file is created once and everything else
of a handoff is rewritten, so the invariant ties every file to the claim: `Placed`
says what a process relies on where it stands, `Alone` that a handoff has at most
one executor and one publisher, `Files` what the files of one handoff say of each
other. For the campaign, `DriverHolds` says that the driver works only on what is
saved and not over, `Progress` that the plan is gone through slice by slice and
nothing after the current slice was called, `JournalKept` that the journal of a
called slice is at `DISPATCH_INTENT` or later.

*`RunnerProofs.tla`*, over the native loop and the run of every backend: the types
(`RunnerType`), `LoopTurnsBounded`, `LoopExtensionsEarned`, `RunWithinGrant`,
`RunGoverned`. `Budgeted` adds to `TurnsBounded` where a turn is left and that a run
is extended or synthesised, never both. `ExtensionsEarned` compares extensions with
all progress there was, which an extension alone does not keep: `Earned` puts the
progress at the last extension between the two, and says that without a move since
then the fingerprint is the checkpoint's in all that an extension looks at (for which
the digest must be there before the first checkpoint). `Watched` says what may still
be written late: only granted files, while the run can still complete or is confined.
A run that was not blind judged by all that was dirty then, and from there on
only late writes change a file. `RunGoverned` goes through the actions: in
a confined run only a governed write and a late one touch a file, and both are of the
grant.

*`PromotionProofs.tla`*: the types (`PromotionType`), `AuditTrue`, the action property
`CompatForward` and the refinement `PromotionImplementsLedger`. Per invocation,
`Stands` says what it knows of main and that this stays true of a prefix of main
(the candidate fits the main it was planned on, the bundle is not on it),
`Accounts` ties its audit record to what it put on main, `Holds` its place to the
lock file and what it fetched to the compat lock. A push lands only on the main it
was planned on, so what `Stands` says of that main is what the ledger asks of the
tip; that is why the released lock and other hosts do no harm.

*`KubeCapabilityProofs.tla`*: the types (`KubeCapabilityType`), `OneChange`,
`PassOwn` and `SettledEnds`. Per attempt, `Bound` says that it works on a binding
that is there, of its grant, and creates its own once; `Checked` that the bindings it
found on the grant are closed and have not used it up, which is for good because a
binding is closed once by the attempt that made it, and by another one only if it is
shared; `Decided` and `Receipted` what a verdict and a receipt rest
on. `Pinned` says that once anything landed the reviewed resourceVersion is gone,
which the readiness patch would need to land again.

Only model-checked: the liveness properties (`EveryBindingSettles`,
`EveryTaskSettles`, `Settles` of a campaign, `Ends` of a run), because fairness and
`ENABLED` are out of this prover's reach. Every other property of a passing run is
stated by a theorem, and so is `StopHonoured`, which only its regime saves. The theorems of `WriteScopeExclusive`, the last four of
`QueueProofs` and those of `TransparencyLogProofs` about the numbering, the
checkpoints and `ReceiptProvesItsLeaf` assume the regime in their statement
(`Exclusive`, `Serialised`); what fails without it is [below](#disagreements). The
`TypeOK` of `Promotion`, `KubeCapability`, `Campaign` and `Runner` is proved and has
no run of its own.

<a name="disagreements"></a>
## What the code and its documents disagree on

Two disagreements are kept as runs that TLC must find violated; `PROJECT.json`
quotes the sentences:

- `write_scope_racing_binds`: two processes bind one approval, where
  `write_scope_bindings.py` says that "a second bind fails";
- `queue_lost_stop`: `stop_task` logs "runtime will honor it at the next supported
  interruption point", but the worker saves the record it loaded before the flag was
  set, the polling loop reads a record without the flag, and the run ends as a success.

For the others the modules keep the property or the regime, and a `.cfg` that
names it reproduces the trace:

| To reproduce | The code can | The text says |
|---|---|---|
| `RequiredApprovalIsNew` with `MCWriteScopeExclusive.cfg` | bind the old approval after recovery | recovery "requires a new Approval" |
| `NoMutationIsReusable` with the same | block an approval after a run without changes | "Approval remains reusable" |
| `CancelledNeverRan` with `MCQueueLostStop.cfg` | execute a run it reported cancelled | "Task cancelled before execution" |
| `StartedOnce` with the same | execute a run twice: an event of its enqueue saves it as pending after the claim | (hazard at `dispatcher.py:409`) |
| `SignalsOwnProcess` with `MCQueueSerial.cfg` | terminate the next run's process | "active process for run" the stopped one |
| `NeverRetried` with `MCKubeCapability.cfg` | patch again under one grant: an attempt of unknown outcome closes its binding as failed and dies before it spends the grant, and a failed binding does not block | "Never retry this grant" |
| `FailureIsVerified` with the same | write a FAIL receipt with `verified` set for an annotation patch that timed out after it landed | "Interrupted or unverified execution yields UNVERIFIED" |

The models reach more states of the same origin, for which no property is kept
(the first four need `Exclusive` or `Serialised` to be `FALSE`, unless
said otherwise):

- a command that read an approval before a revoke writes expired or consumed over
  it, and recovery that overlaps enforcement lets a breach end without a
  revocation (two accesses, no lock between processes);
- a process that dies after it failed a breached binding and before it revoked
  the approval leaves the approval usable; this needs no overlap;
- a late save of the run manager undoes a status, past the transition table;
- two overlapping appends store one leaf index twice, and the receipt rebuilt for
  the second body speaks of the first one's leaf;
- a campaign that reads the status of a handoff while its executor is between
  the result and the receipt, or rewrites the receipt, gets an exception from
  `load_status`, takes the result for unavailable and is blocked for good,
  although the result is there a moment later (`NoResult` with `StatusRaises`);
- a promotion whose closeout raises has landed, and its audit record says "ready".

Known and not listed as hazards, because no model here reaches them: recovery's
restore resets every path that was dirty at the diagnosis, another binding's
too; binding ids hash the second in which they are made, so that a retry within
it gets the same id; a failing save of a run is only noted in its loop state.

## Limits

Not modelled, with the reason for each in `PROJECT.json` under `components`:
trust export and policy, the API's services and routers, the orchestrator, the
reference capability, the MCP server, intake, the operator and write-scope
commands, workspace state, the generated build and the command line's entry. By
lines this is most of the repository: front ends, prompts, parsing, rendering and
calls of external services, whose state is elsewhere and whose control is a
sequence.

Within the modelled parts: record validation and hashing (ids stand for
contents), failing disks, torn writes where files are replaced atomically or
created exclusively (a handoff's receipt is not, and is modelled torn), the
authors of a dirty path, collisions of binding ids within one second, pause and
resume, batch and agent tasks, graceful shutdown of the dispatcher, which for the
stores is a crash, the content checks of a promotion, and what the sections above
name.

## Running the checks

    tlc -config MCQueueSerial.cfg MCQueue        # any cfg with its MC module
    tlapm QueueProofs.tla                        # any *Proofs module, WriteScopeExclusive

Every property of a passing run has a mutant in `PROJECT.json`: a definition with a plausible bug
(the operators commented "Mutant") under which the property's run must fail.
