# Formal models of agent-symphony

These modules model the daemon that `agent-symphony serve` runs for one
repository: it collects facts from GitHub, decides in one durable ledger, starts
coding agents and reviewers in tmux, hands work back to them, and publishes what
they did. The modules are translated from the Go code; paths below are relative to
the repository root, and file names without a directory are in
`cmd/agent-symphony/`. `so` stands for `state_owner.go`.

Checked with TLC on small instances; the theorems of the `...Proofs` modules are
proved with TLAPS for every value of the constants (section 5).

    tlc -config StateOwner_owner.cfg MCStateOwner
    tlapm StateOwnerProofs.tla

## 1. Inventory

### Components, their state and their operations

| Component | State | Operations | Module |
|---|---|---|---|
| Runtime-state owner (`so`) | the committed ledger, a queue of 64 commands, one write in flight, subscribers, poisoned/stopping | submit, snapshot, subscribe, close; persist through a private worker | `StateOwner`, `DurableLedger` |
| Runtime effects (`runtime_effects.go`, `internal/runtime/effects.go`, `runtime.go`, `implementation_*.go`) | intents and attempts in the ledger, result markers, binding / permit / release / gate files, tmux panes, one key per attempt | prepare, start, monitor, stop, clean up; resume, rotate, cancel | `AttemptLaunch`; relaunch in `Handoff` |
| Reconciliation trigger (`reconciliation_v2.go` 155–350) | queued and running cycle, waiters | trigger, triggerAndWait, shutdown, loop | `ReconciliationTrigger` |
| Reconciliation (`reconciliation_v2.go`, `production_cycle_v2.go`) | observations, generations, applied cycles | capture, collect, reduce, apply; the phases of a cycle | `Reconciliation`; status phases in `MachineStatus` |
| Reconciliation effects (`reconciliation_effects_v2.go`, `reconciliation_pipeline_v2.go`, `reconciliation_markers_v2.go`) | intents, markers | bind, attempt and retry markers, publish, retire; status; review; handoff | `Reconciliation`, `MachineStatus`, `ReviewerLifecycle`, `Handoff` |
| Operator service (`operator_service_v2.go`, `operator_mutations_v2.go`, `operator_cleanup_v2.go`) | receipts, admissions, reservations | cancel, recover, dismiss, archive, abandon, replay | `OperatorMutations`; what each does to an attempt in the other modules |
| Reviewers (`reviewer_lifecycle.go`, parts of `reconciliation_effects_v2.go`) | leases, certificates, snapshots, panes | admit, launch, bind, seal, supersede, stop, sweep | `ReviewerLifecycle` |
| Handoff (`handoff_*_v2.go`, parts of `production_cycle_v2.go`, `host.go`) | pending candidate, certificate, receipts, proofs | plan, prepare, certify, release, commit, compensate | `Handoff` |
| Machine status (`so` 2861–2932, `recovery_facts.go` 342–510) | sequence, applied sequence, source; comment and label on GitHub | admit, plan, publish, observe, resolve | `MachineStatus` |
| Status replica (`status_replica_v2.go`) | last written epoch and revision | follow the owner, write `status.json` | its feed in `StateOwner`, the runnable list in `Reconciliation` |
| Scheduler, recovery classification (`internal/orchestrator`) | none (pure) | eligibility, order, capacity; classify | operators of `Reconciliation` |
| GitHub client, read cache (`internal/github/client.go`, `read_cache.go`) | mutation slot, rate budget, ETags, read snapshot | read, mutate, retry | ambiguous mutations and the read snapshot in `MachineStatus` |
| Supervisor (`internal/orchestratoragent`, `supervisor_proposals_v2.go`) | operation token, conversation, audit report, attention handoff, proposals | audit, wake, clear, recover, rebuild, investigate, propose, resolve | `Supervisor`; status proposals in `MachineStatus` |
| Terminal broker (`internal/runtime/terminal_broker*.go`) | pipe gate, sessions | ready, release, attach | the gate in `AttemptLaunch`, stopping in `Handoff` |
| Governance (`internal/github/pull_request.go`, `pr_adapters.go`) | none of its own | evaluate, publish, mark ready | not modelled |
| Dashboard, control socket, CLI, worker sandbox, configuration, release tools, front end | none durable | call the above; I/O | not modelled |

### How they interact

Everything that decides goes through the owner: a caller submits a command, the
owner applies it to a copy of the ledger, a worker goroutine writes the copy to a
temporary file, renames it and syncs the directory, and only then the copy
becomes the ledger and the caller is told. Slow work is an *effect*: an intent is
committed, a goroutine that holds the attempt's or issue's key executes it, a
marker file keeps its result over a crash, and a second commit ends the intent.
Generations in every intent and result let the owner refuse what is out of date; a
destructive operator command commits a new generation and a tombstone before it
touches anything. Reconciliation runs as single cycles behind a trigger that
ticker, effects, dashboard and supervisor share.

`StateOwner` is why a commit is one step in every other module: the caller's
view of a command is that of `DurableLedger`. The other modules meet in pieces of
the ledger: `AttemptLaunch` is one attempt under a fixed observation,
`Reconciliation` is the observations of issues with each attempt's launch in one
step, `OperatorMutations` is the receipts over an attempt whose effects are single
steps, `ReviewerLifecycle` and `Handoff` are what hangs on a running attempt,
`MachineStatus` is the issue's status on GitHub, and `Supervisor` works on the
projection of all of it.

### What is hard

* *Concurrency*: contexts that end while the owner claims a command; results of
  superseded effects; a token rotated while an executor is about to use it;
  waiters that leave while they are moved to another cycle; overlapping
  collections by cycle and operators; two operators on one attempt.
* *Crashes*: between rename and directory sync; between any two of authorise,
  permit, release, unlock, marker, commit and broker release; tmux sessions and
  host processes that outlive the daemon; a request to tmux that is carried out
  after the daemon that made it is gone.
* *Staleness*: ledgers read before and used after a commit, subscribers that lag,
  cycles that were collected before a request, verdicts of superseded reviewers,
  audits of a conversation that was rebuilt.
* *Blocking*: sends on channels of capacity one from the only goroutine that
  could make room, or with a mutex held; admissions that nothing settles.

`PROJECT.json` lists these hazards one by one at their lines, with the property
that would notice.

### What makes the components correct

* Owner: memory is what a restart would load; success means durable, refusal
  means absent; subscribers see the last commit; shutdown and every call end.
* Attempt: at most one worker, released only after the commit; the record never
  claims more than happened; settled stays settled, cleaned stays clean.
* Trigger: a waiter hears, once, of a cycle that began after it asked.
* Reconciliation: the newest reading stands; one live attempt; failed work is
  retried only when asked; what is announced as runnable is dispatched.
* Operator service: receipts are honest and final, nothing is destroyed that was
  not announced, every admission of a listed issue settles.
* Reviewers: one at a time, true death certificates, verdicts of the right run,
  nothing left after a destruction. Handoff: one worker, one the owner certified,
  one prompt per piece of work, silence after a cancellation.
* Status: what is recorded as applied is on GitHub; the last status wins.
* Supervisor: one prompt per target digest (and per trouble, which a restart
  breaks), reports of the conversation that reads them, no proposal carried out
  twice.

## 2. Plan

Modelled, in the order in which the system depends on them: `DurableLedger` and
`StateOwner`, `AttemptLaunch`, `ReconciliationTrigger`, `MachineStatus`,
`OperatorMutations`, `ReviewerLifecycle`, `Supervisor`, `Reconciliation`, `Handoff`.
Proved: every safety property that a passing run checks, of all of them. What would
come next:

1. A `GitHubClient` with mutation slot, rate budget and conditional reads, below
   `MachineStatus`; governance phases above it.
2. The joint shutdown of `serve`, with its time limits.
3. `OperatorMutations` over the launches of `AttemptLaunch` instead of effects of one
   step.

## 3. The modules

### `StateOwner` and `DurableLedger`

A ledger is the sequence of commands whose transitions it contains (`Start` is
the command each process begins with). `file` is the ledger as the directory
shows it, `synced` the one that survives a power loss, `committed` the owner's
memory. Each arm of the `select` in `stateOwner.run` (so 826–990) is an action:
`receiveCommand`, `persistenceSucceeded`/`Failed`/`Installed`, `receiveStop`,
`receiveSnapshot`, `receiveUnsubscribe`; `startNext…` is the loop that precedes
the select, and can only run before it (`Selecting`). The worker writes in three
steps (`writeTemporary`, `rename`, `syncDirectory`), each of which can fail;
callers go through `submitWithAdmission` (so 1083–1121) with the compare-and-swap
between `claim` and `cancelWins`. `ProcessEnds` is a crash at any point, with or
without loss of what was not synced.

`DurableLedger` is what callers may rely on: an append-only log, acknowledgement
only of what is in it, rejection only of what never will be. `StateOwner`
implements it with `log <- synced`.

### `AttemptLaunch`

One attempt: its slice of the ledger (`gen`, `record`, `effect`, `tomb`), its
files (`markers`, `bound`, `permit`, `release`, `entered`, `worktree`), the panes
of each launch token, and the four parties that act: the reconciliation cycle,
the operator service, the goroutine that holds the attempt's key (`run`) and the
environment. A start passes `startEffect` (session and binding checked),
`createPane`, `bindPane`, `authorize`, `writePermit`, `writeRelease`, `unlockGate`,
`brokerReady`, `writeMarker`, `finishEffect`, `runReleases`, `removeMarker`; the gate
process in the pane lets the worker through when binding, permit and release name
its token, and the broker inside holds it until the release after the commit.

Abstractions: launches are confined v2 launches (the current worker profile);
the reviewer and handoff resources of the attempt are in their own modules; a
pane that tmux no longer lists counts as ended, so a process that outlives its
pane is not represented; looking for the session and creating the log directory
are one step of `prepareEffect`; the status guards of destructive commands
(operator_mutations_v2.go 1019–1032) are wider than in the code except that
archive needs a completed attempt; refusals for damaged markers and mismatched
digests are part of `cycleFails`; the operator service handles one command at a
time (`OperatorMutations` has two); a cleanup that lacks a launch identity
(host.go 1546) stays pending.

### `ReconciliationTrigger`

`loop`, `request`, `removeWaiter` and `shutdown` with each section under `r.mu`
as one action. `parked` records that a goroutine would wait on a full channel
inside such a section, after which no section runs. A cycle ends in one of three
ways at the environment's choice. `since`, `begun` and the `run`/`ending` fields of
an answer are history.

### `Reconciliation`

Several issues with their attempts. `ledger` is by issue: the observation (known
since when, present, the reduced fact, one entry per attempt), attempts,
generations and tombstones; `github` is the issue as people and the daemon have
left it (open, ready, markers of bindings, failures and retries, pull requests).
Each collector, the cycle or an operator's `collectIssue`, captures the ledger
(`Begin`), reads an issue (`Read`) and submits its reading (`Apply`,
`applyReconciliation` with its stale counting, `appliedCycles` and unchanged
facts); the cycle goes on through the phases of `cycleFromSnapshot` (`Prepare`,
`Bind`, `Start`, `Monitor`, `Publish`, `Update`, `Proceed`), planning each from the
ledger as it then is; `Fail` is any error or a lost begin. `Settle` is a worker's
end as the monitor finds it, `Stop` and `Discard` are the operators, `Edit` is
people, `Restart` a new epoch with new cycle numbers.

Abstractions: an issue is read at one instant; labels, filter, priority,
dependencies and cancellation are the flag `ready`; a pull request is merged or
open; generations of an observation and the owner generations of its entries are
left out; a cancelled attempt counts as failed; the proposals that ride on an
issue update are in `MachineStatus`; the body digest does not change; an effect
begins and finishes in one step (the begin's check of the source revision makes
plan and begin atomic; the stale case is `Fail`); the last cycle's id and digest
are implied by `applied`; the review before a publication is assumed to have come
out clean at some time; Recover is its effects, a stop, a failure marker and a
retry.

### `MachineStatus`

The status of one issue, from the ledger to GitHub. The ledger's slice is `status`
(sequence, applied sequence, source, what it asks of the label), the intents
`effects`, whether the attempt has a record, and the last observation `obs`;
GitHub is the coordinator's status `comments`, the `label`, and `flight`, the requests
whose answer was lost. Three parties act:

* the cycle (`Cycle…`, `cycleFromSnapshot` in production_cycle_v2.go): collect, apply,
  resolve overtaken intents, resume pending ones, plan and publish, then the
  runtime phases that matter here, a new attempt and the monitor that brings a
  worker's report;
* the supervisor's proposal (`Sup…`, supervisor_proposals_v2.go 66–190): admission
  bound to the projection it was written from, then either a begin from the
  revision it planned from or a wait for a cycle, within five seconds;
* the goroutine that holds the issue's key (`Run…`, `executeIssueUpdateMode` and
  `resolveOneInvalidatedGitHubEffect`): check, authorise, `EnsureOwnerStatus` as
  separate reads and requests, proof, marker, commit.

Operators come in as `Dismiss` (`applyInvalidateAttempt`). `base` of an intent says
whether the observation it was planned from is still the ledger's; `since` says
what was committed since the supervisor looked, which stands for its causality
token and revision; `refused` is history.

Abstractions: a status is its sequence and its demand on the label (reason,
attempt and source sequence are fixed by it); comment and label are read in one
step; apply and the cancellation of runs it invalidates are one step, and so are
plan and begin of the cycle, whose lost race is `CycleFails`; a proposal that
failed or was refused has result `none`; the label is absent at first; comments by
others, edits and the dependency source are left out. At `MaxSeq` no further status
is admitted: proposals are refused and reports and commands do not happen.


### `OperatorMutations`

One attempt of one issue under two clients. `ledger` holds the attempt, its
tombstone, the intents and the receipts; `asks` is what each request is for;
`admit` is the client's call or the worker that prepares an admission, `exec` the
goroutine of an effect. `Perform` and `Abort` are a client that calls and leaves,
`Prepare`/`Begin` the read of GitHub and the commit that turns an admission into an
effect, refuses it or joins an effect under way, `ExecStep` the effect itself with
marker and finish, `ResumePending` the work a start or a completion picks up;
`Observe` and `Publish` are the cycle, which also records the failure and asks for
the retry on its own, `World` is GitHub and the worker. Every operator is a
transition `ledger -> ledger` of `operator_mutations_v2.go`.

The code validates every candidate before it is committed
(`finishRuntimeOwnerTransition`, `validateRuntimeOwnerState`). `valid` is that validation
for what the model has: admissions, receipts, effects and tombstone, one operator
each. `checked` applies it, with the two refusals it can end in, to the commands whose
candidate can fail it: those that reserve an admission, begin, replay or join a
mutation, or finish an effect. All other commands commit unchecked, and that their
ledgers pass as well is what `LedgerValid` says.

Abstractions: a request digest, hence an effect, is its kind; a captured cycle is
the owner's last or not; an observation's generation is its facts; remove, plan
reviews, and the handoff and start phases of a cleanup are left out (the handoff's
are in `Handoff`), and so are reviewers (`ReviewerLifecycle`) and attempts without a
record (`Discard` of `Reconciliation`); a replayed Abandon against
`cancelInvalidated` (operator_service_v2.go 243) is one step.

### `ReviewerLifecycle`

The reviews of one attempt. A *run* is one review with its snapshot, session,
wrapper, broker and child in `world[r]`; `ledger` has each run's lease and result,
each target's certificate (`proofs`), the current review and the Stop or Dismiss.
`holder` is the job that has the attempt's key and where it is: launch, observe,
supersede, stop, sweep; a job's steps are the external calls of
`executeReviewerMode`, `supersedeInvalidPlanReview`, `stopBoundReviewer` and the sweep,
each with the commits between them. `Machine(r)` is what happens to a run on its
own: a requested session appears, the gate opens once the owner has the process on
disk, the child ends with a verdict. `Crash` ends the job but not what it asked
for.

Abstractions: a process group is known or unknown (`bound`); generations are
whether a destructive effect has begun; profile digests, confinement and legacy
quarantine are always current; the marker of a sweep and its commit are one step;
the acknowledgement of findings by a handoff is in `Handoff`.

### `Handoff`

One attempt whose worker is replaced: launch 0 is Start's, launch *k* the candidate
of handoff *k*. `ledger` is the attempt with its pending effect, what an
invalidation set aside (`invalidated`) and the phase of the operator's request;
`host` is panes, brokers, workers alive, receipts and proofs; `jobs` the host
process of each daemon start (`prepare` or `release`), which goes on when the
daemon is gone and is killed some time after its request is cancelled (`keepers`
are sessions it leaves sleeping for 30 seconds); `run` is `executeHandoff`, `worker` the operator
request with its compensation. The abstractions are listed at the head of the
module.

### `Supervisor`

`op` is the holder of the operation token (`operation` channel of capacity one and
the queue of foreground commands that preempt background work) and its place in
the code; `state`, `report` and `file` are the three persisted files, `memory` the
fields of the supervisor, `tmux` the conversation. One step of the holder is the
code between two external effects. Audits run outside the token and come back for
it; the runner of proposals calls the owner without it and takes it to record the
outcome. A conversation carries a number; `report.context` and the audits carry
the number they were made for, which merges the audit generation and the context
epoch of the code.

What is wrong with an attempt and what the supervisor knows it by are kept apart.
`owner.wrong` is the trouble; `owner.shows` is what the projection shows of the
attempt, its `sanitizedStatus`: a fact, and the two things that its causality token
hashes, the epoch of the observation and everything else (`token`). A digest is what
it digests, so `handled`, `handoff.seen` and proposals compare whole statuses, as
`attentionDigest` does. `boot` leaves out the observations of the older epoch: an
attempt is what its local manifest shows (`Locals`), under the token it had.
`ownerApplies` is the first apply of a start, which shows the trouble again and writes
the new epoch into an observation that says what it said before; `ownerChanges` is any
other change of an attempt, of the trouble or of the token alone. The history
`prompted` remembers accordingly: `targets` are digests while they are shown, `wakes`
are troubles of acknowledged wakes while they last.

Abstractions: writes to disk succeed; a disabled agent, the status file and cycles
that end without statuses are left out; creating a session and writing the state
are one step; the end of a queued caller's context is atomic; the first start of all
has applied its first cycle, and every attempt needs attention.

### Alternative definitions

In each module some operators stand directly before a definition and differ from
it by one plausible mistake (`claimsAnyway` before `claim`, `joinsRunning` before
`target`, `PrepareStopUnproved` before `PrepareStop`). No action uses them. Putting
one in the place of the definition must violate the property that `PROJECT.json`
pairs it with; that is how each property is known to say something about the code.

## 4. Runs

| Run | Instance | Shows |
|---|---|---|
| `StateOwner_owner` | 2 commands and `Start`, 1 subscriber, queue of 1, one process and its crash | memory/disk agreement, honest and durable answers, refinement of `DurableLedger`, current subscribers, honest snapshots, every call returns |
| `AttemptLaunch_safety` | 2 tokens, 5 effects, 3 daemon starts; 518,000 states | one worker, honest record, clean stays clean, settled stays settled |
| `ReconciliationTrigger_wait` | 2 waiters, 2 further runs; 125,000 | one fresh answer each, waits and shutdown end |
| `Reconciliation_safety` | 1 issue with 3 attempts, cycle and operator, 4 collections per start, 1 edit, 2 starts; 1,650,000 | newest reading, one live attempt, retries only when asked, runnable means dispatched |
| `Reconciliation_capacity` | 2 issues, concurrency 1 | expected violation, see Findings |
| `MachineStatus_converge` | 2 statuses, 1 proposal, 1 fault; 268,000 | applied and succeeded mean published, the last status is published for good, proposals end |
| `OperatorMutations_mutations` | 2 requests in 4 scenes, 3 effects, 2 starts, 1 client that leaves; 310,000 | valid ledger, honest and final receipts, nothing unannounced, admissions settle |
| `ReviewerLifecycle_reviews` | 2 runs, 2 targets, 3 starts, 1 fault; 217,000 | one reviewer, true certificates, work is kept, right verdict, clean destruction; bound reviews and stoppable Stops end |
| `Supervisor_safety` | 1 attempt, 1 impatient caller, 1 proposal, 2 starts, 1 change or fault; 2,480,000 | honest report, one wake per digest, one action |
| `Supervisor_restart` | 1 attempt, nothing changes, 2 starts | expected violation, see Findings |
| `Handoff_safety` | 3 handoffs, 2 starts; 434,000 | one worker, an owned worker, one prompt, silence once settled |
| `Handoff_archive` | 1 handoff, 1 start | expected violation, see Findings |

Why the bounds are enough.

* *Owner.* Two commands and `Start` with a queue of one give a command in flight, a
  full queue and a caller that is kept out. A subscriber's channel holds one value
  and is overrun by three commits. A restart from every intermediate file, with any
  number of commands and starts, is covered by the theorems.
* *Attempt.* Two launch tokens are the least with which a second worker could
  exist; five effects are prepare, start, an intervention and its cleanup with one
  more to interfere; three starts allow a crash in a recovery from a crash.
* *Trigger.* Two waiters can be on the running and the queued cycle at once, and two
  further runs leave room for a recollect while both exist. A recollect needs an id
  below `MaxRuns` or a queued run, so cycles do not ask for fresh observations for
  ever.
* *Reconciliation.* Three attempts are a first, its retry and a replacement for a
  Prepare that failed; four collections per start give two that overlap before and
  after an apply. The same properties also hold for two issues without operator, with
  (`MaxAttempt`, `MaxEdits`, `MaxBoots`) = (5,0,1), (4,1,1), (4,0,2), for two issues
  with an operator and (3,1,1), and for one issue with (7,0,1) and (6,1,1).
* *Status.* Two statuses give one that is published and one that overtakes it, so the
  lost request of the first can land on the second; one proposal has both
  publishers compete; one fault puts a crash, a lost request or a failure at any
  single point. Three statuses were also explored for `AppliedIsPublished`.
* *Operators.* The four scenes have two different destructive or recovering requests,
  the same request twice, an attempt that still runs or has ended, and room for one
  receipt only. Three effects are the whole chain of a Recover.
* *Reviewers.* Two runs of two targets: one that is superseded and its successor, over
  two restarts. With three runs, which add a return to the first target, the invariants
  hold with 2 starts and 1 fault (687,000 states), and everything with 2 starts and no
  fault (233,000); the theorems are for any number of runs.
* *Supervisor.* One of each activity: they meet pairwise at every step. `MaxChanges`
  bounds changes plus the faults and restarts before them, `MaxFaults` faults plus the
  changes before them: a change of the projection meets the first start only, and a
  run has a change or a fault. With both bounds 2, which lets them meet each other and a
  change meet the second start, the properties hold for a patient caller that may only
  Clear (6,310,000 states). Within a start only the fact of an attempt changes there;
  with `MaxTokens = 1`, so that the token changes too, the properties hold without
  impatient caller and fault (1,470,000 states).
* *Handoff.* Three handoffs: a first, one that supersedes it after a crash, and one
  with the work of either. (2 handoffs, 3 starts) holds as well.

Every bound (`MaxBoots`, `MaxEffects`, `MaxRuns`, `QueueSize`, `MaxSeq`, `MaxProposals`,
`MaxFaults`, `MaxAborts`, `MaxAttempt`, `MaxCycles`, `MaxEdits`, `MaxTargets`,
`MaxHandoffs`, `MaxFacts`, `MaxTokens`, `MaxChanges`) stands in guards or types only.

Deadlock is not checked where commands are submitted once and processes are started
a bounded number of times, so that the system may stop; the liveness properties say
what must not get stuck. Each module states its types in `TypeOK`; section 5 says
which of them are theorems.

Two liveness properties of `Supervisor` are stated but belong to no run, since the
instance on which `Supervisor_safety` looks for its own hazards is too large for them:
`HandoffSettles` and `ReportSettles` hold under `FairSpec` with `Impatient = {}`, `Locals = {0, 1}`,
`MaxProposals = 0` and the other constants of `Supervisor_safety`, on 95,000 states.

### Fairness

* `StateOwner`'s `FairSpec` has the owner, the worker and the callers' goroutines go
  on (the Go scheduler runs what is ready); it has no fairness for cancellation,
  shutdown or crashes, and none that makes a disk succeed.
* `ReconciliationTrigger` assumes that the loop and the callers run and that a
  cycle returns: every call in a cycle takes the runner's context, and GitHub and
  boundary calls carry time limits.
* `MachineStatus` assumes the same of runs, cycle and supervisor, that the
  five-second timer fires, and that a request without an answer is eventually
  carried out or dropped; never a proposal, a report, a dismissal or a fault.
* `OperatorMutations` assumes that a goroutine that prepares or executes goes on, and
  that cycles return to observe what is new and publish what is due. Its fairness is
  written out (`[]<>~enabled \/ []<>step`) with the guard the step has.
* `ReviewerLifecycle` assumes that a job takes its next step and the machine
  does what it was asked (weak), and that jobs are begun again and again because scans
  and cycles return to pending work (strong: another job may hold the key each time
  one looks). Of a pending run it is only assumed that it is revisited in one of the
  three ways, observation, marker or supersession, that are open.
* `Supervisor` assumes that the holder of the token goes on, a backoff ends, a
  stopped daemon is started again (weak), and that audits, cycles and the cycle's
  write are not kept from the token for ever (strong; the queue is served in order).
* `Handoff` has weak fairness for `run`, the operator's worker and each host
  process; people, and the arrival of work, need do nothing.

## 5. Proofs

### `StateOwnerProofs`

For all sets of commands and readers, all queue sizes and numbers of restarts, from
`OwnerAssumption` alone:

* `Inductive`: `Spec => []OwnerInv`;
* `TypeCorrect`, `MemoryMatches`, `Acknowledged`, `RejectedStaysOut`, `OneAnswer`:
  types, and the properties `MemoryMatchesDisk`, `AcknowledgedDurable`,
  `RejectedNeverCommitted` of `StateOwner_owner`, and that a command has one answer;
* `Refinement`: the owner implements `DurableLedger`.

The properties alone are not inductive. "Success means durable" needs to know what
an answer still in a channel says, and that the worker's `ok` comes after the
sync; "refused means absent" needs the arbitration word: a command in the queue is
not claimed, a claimed one is in flight or answered, and a caller that gave up
has won the swap. `OwnerInv` therefore consists of the types and

* `WorkerInv`: which of `file`, `committed`, `candidate` agree at each step of the
  worker (before the rename the file is the memory, after it the candidate);
* `SyncedInv`: `synced` is a prefix of `file`;
* `AckInv`: an `ok` returned or on its way belongs to a command in `synced`;
* `QueueInv`: queued commands are distinct, unanswered, and still have a caller;
* `RejectInv`: a command that is not installed is not in the file, and what its
  arbitration word, caller and place in the queue may be.

Each is preserved by a lemma with one step per action. The refinement adds
`OnceStep` (a command enters the ledger once) and shows that a step that changes
`synced` is `Extend`, a step that returns to a caller is `Acknowledge` or
`Reject`, and every other step a stutter.

On top of `OwnerInv`, `SubscribersUpToDate` and `SnapshotsStand` are the properties
`SubscribersCurrent` and `SnapshotsHonest`.

A snapshot is a copy of `committed`, which after a failed write can lack what the
file has; that what a caller was told is in the copy, and that no crash takes the copy
back, are facts about the whole process. `ReadersInv` adds to `OwnerInv`

* `MemoryInv`: what callers were told is in the in-memory ledger, and once this
  process's `Start` is committed that ledger is a prefix of the durable one;
* `GivenInv`: a reader that asks, or holds an answer, has or will get such a ledger;
* `ChannelInv`: where the one answer of a waiting reader can be, and that the
  answer, or what lies in the update channel, is the owner's current ledger.

### `AttemptLaunchProofs`

For any set of launch tokens, any number of effects and daemon starts, from
`LaunchAssumption` (their types): `LaunchTypes`, `OneWorkerOnly` (`SingleWorker`),
`RecordsHonest` (`RecordHonest`), `CleanForGood` (`CleanedStaysClean`) and the action
property `SettledForGood` (`SettledStaysSettled`).

That two workers never run is not a fact about panes but about permits: the gate
lets a candidate through on its files alone, however long ago they were written and
by whichever daemon. So the invariant, `LaunchInv`, follows the Start intent:

* `LedgerInv`: the parts of the ledger agree; one Start is committed in the life of
  an attempt, and only it can be allowed to run;
* `WorkInv`: whatever the cycle, the operator or a run works on was committed, no two
  work on one intent, and an intent under work that is the last one is pending;
* `PermitInv`: all candidates that have a permit, or may still get one, are one;
* `FileInv`, `RunInv`: who has entered has binding and permit, and each stage of a
  run belongs to one kind of effect;
* `ResultInv`: results in markers, in runs and on their way to a commit are true;
* `SupersededInv`, `CleanInv`: after an invalidation only the cleanup still acts, and
  what it removed nobody makes again.

### `HandoffProofs`

For any number of handoffs and daemon starts, from `HandoffAssumption`:
`HandoffTypes`, `OneWorkerEver` (`OneWorker`), `WorkersOwned` (`WorkerIsOwned`),
`PromptsOnce` (`PromptRunsOnce`) and `SettledQuiet` (`SettledIsQuiet`).

The session has one pane; a broker is in its pane and a worker has its broker, so
there is one worker. The work is in showing that a process the daemon has lost cannot
put a broker, or a release, where it no longer belongs. `HandoffInv` consists of

* `LedgerInv`, `PromptInv`: an ended attempt has no handoff; each handoff has later
  work than the one before, hence no prompt twice;
* `StageInv`: a launch is created, bound, prepared and released in this order, the
  ones the ledger names as running were released, the certified ones prepared;
* `JobInv`: what each host process has done, orphans included; of two that prepare
  the same launch at most one has made its pane;
* `WorkerInv`: a broker's launch is one the owner answers for (its own, its certified
  candidate, or one that it is taking back), also for those who may release it.

### `ReviewerLifecycleProofs`

For any number of targets, runs, starts and faults, and for plan and work reviews,
from `ReviewerAssumption`: `ReviewerTypes`, `OneReviewer` (`NeverTwoReviewers`),
`ProofsAreHonest` (`HonestProofs`), `KeptWork` (`WorkIsKept`), `HonestVerdicts`
(`VerdictFromItsRun`) and `DestroyedRuns` (`DestroyedClean`).

A reviewer that was requested can appear long after the job that asked for it
crashed, so "one at a time" needs that nobody opens a run while an earlier one may
still appear. `ReviewerInv` consists of

* `OpenInv`: only the last run is open, and not beside a sweep or a destructive
  effect, which has captured the run it dropped;
* `WorldInv`: what a run has on the machine was asked for, and its tree is there
  while it may be needed;
* `VerdictInv`, `ProofInv`: what is sealed or concluded is the end of the process,
  certificates are true;
* `StageInv`, `JobInv`: where each kind of job can be and what it has seen or done
  by then;
* `CleanInv`: the trees are gone before the destructive effect says so.

The ends are lasting: a dead process, a pane that is gone and a requested run stay
so in every step (lemmas on each action), which is what lets a job rely on what it saw
several steps ago although the machine moves on by itself.

### `ReconciliationProofs`

For any finite set of issues, any operators, capacity and path scopes, and any bounds,
from `ReconciliationAssumption`: `ReconciliationTypes`, `ObservationsNewest`
(`ObservationIsNewest`), `OneLiveEver` (`OneLiveAttempt`), the action property
`PriorWorkIsResolved` (`PriorWorkResolved`) and `AnnouncedIsDispatched`
(`RunnableIsDispatched`).

The cycle decides on readings of GitHub that other collections and its own commits have
overtaken. `ReconciliationInv` says what a reading is still good for:

* `IssueInv`: attempts are prepared in order, and the last alone may be alive; GitHub
  has markers and pull requests only of attempts the ledger had; what the owner holds
  is the newest accepted reading less what has moved on;
* `ReadingInv`: every reading, however old, says nothing of attempts to come
  (`Plain`); one that can still be applied without the current attempt having changed
  does not look past the live attempt (`Sound`);
* `IdInv`, `GenInv`: collections are numbered and generations only grow, so a later
  collection has captured later ones, which is why the comparison of captured
  generations keeps out what is too old;
* `CycleInv`: only the cycle writes bindings, and it ends when it has written one, so
  readings begun since it began are exact about bindings while it decides.

`RunnableIsDispatched` compares two schedules: the projection's, whose busy issues are
those with an attempt in the ledger, and the planner's, whose busy issues are those its
observations show as active. Without overlapping scopes a schedule has a closed form
(`ScheduledFits`, `FittingIsScheduled`, by the least issue that breaks it): an issue is
picked exactly when it fits beside the busy ones and all that wait before it. What is
busy or waits before it for the planner is so for the projection, hence what the
projection picks the planner picks too. The attempt it would begin is the right one
because every attempt that has a generation and no record is discarded (`Buried`, an
invariant of its own on top of `ReconciliationInv`).

The last part of the module is about `ReconciliationTrigger`, as the instance `Trig`, with
variables of its own: its theorems hold for any finite set of callers and any bound on
runs and have `TriggerAssumption` as their hypothesis. They are `TriggerTypes`,
`NeverParks` (no section ever sends on a full channel with the mutex held) and
`AnswersAreFresh`, the property `FreshCycle` of `ReconciliationTrigger_wait`.

`FreshCycle` needs to know that nobody joins the run that is under way; that is a
fact about ids, and that a channel is never full is a fact about who waits where.
`TriggerInv` consists of the types and

* `RunIdInv`: the id in the wake channel is the queued one, which is the newest; the
  run under way is not the queued one; ids stay within what the calls can draw, and
  no more cycles began than ids were drawn;
* `WaiterInv`: a waiter is in the set of one run only, has asked, and has no answer
  in its channel; who has not asked has neither answer nor outcome;
* `AnswerInv`: a waiter of the run under way asked before it began, and an answer on
  its way names a cycle that began after its caller asked.

### `OperatorMutationsProofs`

For any requests and what they ask for, any room for receipts, any number of effects and
of daemon starts, from `OperatorAssumption`: `MutationTypes`, `LedgersAreValid`
(`LedgerValid`), `ResultsAreHonest` (`HonestResults`), `RemovalsAreAnnounced`
(`NothingUnannounced`) and the action property `SettledStaysSettled` (`SettledStays`).

Validity is not enough for the next command to leave a valid ledger, and says nothing of
the world. `MutationInv` consists of the types, `valid`, `NothingUnannounced` and

* `Sound`, what the validation does not look at: a receipt under way has an effect
  of the current generation, in a phase of its own action (`Bound`); a cleanup belongs to
  the tombstone and a stop to the action that waits for it; a completed effect has
  changed the world (`Done`: no process, no tree, a terminal failure or a retry on
  GitHub), and a retry follows a terminal failure. Without the generation a receipt could
  be resumed into the work of a settled one, and without `Done` a joined or replayed
  request would be answered with something nobody did;
* `AdmitInv`: a thread that has prepared an admission asks for what its request is
  about, and for a retry only after the failure is on GitHub, since it read GitHub some
  steps before it commits;
* `ExecInv`: a goroutine, and a marker left from an earlier start, belong to an effect
  that exists; a cleanup acts only after its start is recorded; what is about to be
  finished is done. This is what holds over a restart, where nothing but ledger, markers
  and world is left.

Each command has a lemma that its result is `valid` and `Sound` again or refused,
and, since several requests share an effect, lemmas about the transformations they are
composed of (`RefusedSound`, `SupersedeSound`, `MoveShape`, `CommitSound`, `JoinSound`).
For commands that are checked only soundness needs a proof; for the others, which refuse
or forget a request, record a diagnostic, advance a recovery, start a cleanup, apply a
cycle or begin its effect, and for a restart, validity does too.
`SettledStays` follows from `Steady`: receipts of the next ledger come from receipts that
were open, are unchanged, or answer a request that had no receipt or an open one; and
from `Follows`: effects keep their kind, tombstones their action and their cleanup.

Receipts are a list from which the code deletes by condition. `without` states this by the
order of the remaining indices (facts about `SelectSeq` would need an induction over the
list), and `WithoutRemains` shows that it returns the remaining entries, each once.

### `MachineStatusProofs`

For any number of statuses, proposals and faults, from `StatusAssumption`:
`StatusTypes` and `AppliedWasPublished` (`AppliedIsPublished`).

A status becomes applied by the run that published it, by a cycle or a start that
finds its marker, or by the resolver of an overtaken intent, and the identity in a marker
may be older than the status of the present. `MachineStatusInv` consists of

* `LedgerInv`: one intent at most is pending, and each has an identity of its own;
  `MemoryInv`, that what remembers identities is finite, gives every new intent one
  that no marker, run or cycle still names;
* `RunInv`: a run works on the status of its intent, the resolver on the one that it
  found; past the last proof that status has its comment;
* `MarkerInv`: a marker whose result would still be accepted is of a published status;
* `CycleInv`, `SupInv`: the cycle's snapshot may be old but is true of the past, and
  comments stay; who succeeded has seen its status applied.

An admission (`superseded`) leaves no intent pending, so no marker of before can complete
one of the new status.

### `SupervisorProofs`

For any number of attempts, commands, proposals, daemon starts and faults, with and
without audits, from `SupervisorAssumption`: `SupervisorTypes`, `ReportIsHonest`
(`ReportHonest`) and the action properties `TargetsWokenOnce` (`TargetWokenOnce`) and
`ActsOnce` (`ActedOnce`). `TargetsWokenOnce` is about digests, for every way in which
tokens and projections may move; that the same trouble is prompted once (`WokenOnce`) is
false, see Findings.

Each property follows from a chain through state that different actors write.
`SupervisorInv` consists of the types and

* `TokenInv`: which kind of holder can be where; past its first step an observation or an
  investigation has dealt with the report of a dead daemon; what `Shutdown` meets is
  cancelled, and nothing is granted the token after it;
* `ReportInv`: an audit that is current belongs to the present conversation, and none is
  current while the next conversation is launched; a running report has its audit until
  the daemon is stopped, and who may prompt has seen that no report is running;
* `PromptInv`: a target that was prompted and is still shown is handled, and is in each projection
  that decides what stays handled: the one in memory, and the one that a cycle took
  before it waited for its turn. No prompt falls between the two, because the cycle
  holds the token;
* `ProposalInv`: proposals are submitted, begun and consumed in order, and one whose
  action was carried out is consumed, or the one that the state says is running.

### What is only model-checked

Liveness (`EveryCallReturns`, `EveryWaiterReturns`, `ShutdownFinishes`, `LatestPublished`,
`SupervisorFinishes`, `AdmissionSettles`, `BoundReviewSettles`, `StoppableSettles` and the
finding `ArchiveSettles`) is outside the prover's reach, because of fairness and `ENABLED`.
Every invariant and every action property of a passing run is a theorem. Recursion over
data does not occur in the proved modules.

That the modules fit together is argued (section 1) and not proved, with one exception:
`StateOwner` implements `DurableLedger`.

## 6. Findings

1. *Concurrency and path scopes are not kept* (`CapacityKept`,
   `Reconciliation_capacity`, production_cycle_v2.go 998). The runtime phase prepares
   issues one after the other and plans again after each. The upsert that a Prepare
   commits deletes the issue's observation (so), so the next plan neither counts
   the prepared issue nor compares its path scope: with concurrency 1 both of two
   queued issues are prepared, and started by the next cycle. `docs/cli.md:51`
   "exhausted concurrency also prevents dispatch"; also `docs/architecture.md:184`, `:276`
   and `docs/PRD.md:86`.
2. *An archive with a pending handoff never finishes* (`ArchiveSettles`,
   `Handoff_archive`, operator_cleanup_v2.go 227). The compensation of the candidate
   stops it and proves it, but archive, abandon and remove, unlike dismiss, leave the
   handoff's cleanup to a phase that they never enter. The receipt stays
   "cleanup-pending" over every restart. `docs/recovery.md:21` and `:25` promise that
   cleanups resume to completion.

3. *A restart repeats an acknowledged wake* (`WokenOnce`, `Supervisor_restart`,
   supervisor.go 1732). The wake is remembered by `attentionDigest`, the digest of the
   whole status with its causality token (178, 1722), and the token hashes the issue's
   observation with its epoch (so 2934). The first apply after a start rewrites an
   unchanged observation because its epoch is another (reconciliation_v2.go 738). So
   `reconcileAttention` drops the handled digest, ends a handoff that still waits as
   "materially changed" (1752), and the conversation is prompted again about the same
   trouble, once more after every restart. `docs/architecture.md:51`: "A restart never
   repeats an acknowledged wake." and "an unchanged target cannot loop". What does hold is
   `TargetWokenOnce`.

### Observations

Behaviour met while modelling for which the project has no run, either because no
document speaks of it or because it needs an instance beyond the listed ones.

Attempts and launches
* A committed worker can stay behind its gate (runtime_effects.go 197). The release
  of the terminal broker follows the commit that ends the Start intent. If it fails, or
  the daemon stops in between, nothing repeats it: the intent is settled, the marker
  is an orphan, and monitoring sees a live pane. `docs/architecture.md:42` promises
  "enough to resume or verify exact work".
* A stopped trigger reports success for a cycle that did not complete
  (reconciliation_v2.go 323): a recollect under a cancelled context is answered with
  nil. `docs/cli.md:42` says that `reconcile` "triggers one coalesced cycle and waits for
  its completion". Between the exit of the loop through its parent context and
  `shutdown`, a waiting request writes to a nil map (reconciliation_v2.go 272); only
  the failure path of the startup cancels the parent first (outcome `panic`).

Reconciliation
* After a failed Prepare of a replacement no retry is needed: the fact still names
  the older attempt, `currentPreparingReplacement` finds nothing "preparing", and the
  next number is prepared at once (`docs/cli.md:51`). A failed *first* Prepare
  does need a retry, and for a first failure the cycle posts the retry control
  itself (reconciliation_pipeline_v2.go 1018–1034).
* Abandoning an attempt shown as orphaned between its bind comment and the next
  collection leaves a binding for a tombstoned attempt: the issue is active for ever.
* A newer collection that read GitHub earlier than an older one overwrites the older
  one's fresher facts; `ObservationIsNewest` is about collections, not about instants.
* An attempt that GitHub knows and the owner does not counts as stale at every apply,
  so an operator's `collectIssue` on that issue always ends in `errStaleStateResult`.
* A running attempt whose issue loses its authorisation is no longer monitored.
* The dashboard can announce an issue that the planner does not pick (`joinIssueProjection`,
  main.go 1740): with three issues, concurrency 2 and path scopes in which 1 overlaps
  with 2 and 3, an issue 3 that is prepared and not yet bound keeps 1 out of the
  announcement, which then names 2, while the planner picks 1.
  `RunnableIsDispatched` has the premise on path scopes that rules this out.

Status
* A resolved intent blocks the issue (`NoAdmissionRefused`, reconciliation_effects_v2.go
  1096; 3 statuses, 1 proposal, no fault). An intent overtaken after its dispatch and
  then resolved (line 500) is valid only while the current status is applied. The next
  admission (so 2913) raises the sequence and does not touch that intent, so the
  commit fails validation (so 2590): dismissals, worker reports, orchestrator
  statuses and new attempts of the issue are refused until a publication deletes
  the intent, which is not planned while GitHub is current. `docs/architecture.md:32`:
  "Destructive commands first commit a generation change and tombstone."; the test at
  reconciliation_effects_v2_test.go 139 ends right after the resolution.
* A label removed late is not put back (reconciliation_pipeline_v2.go 1071): a
  collection reports attention when comment and label disagree, so a needs-attention
  status without its label looks current. `docs/architecture.md:170` promises an
  effect that "repairs or supersedes" what finishes late. The converse, a label that
  stays under a clear status, is repaired (`LatestPublished`).

Operators
* An admission of an issue that GitHub no longer lists stays pending for ever
  (operator_service_v2.go 730): preparation answers `errStaleStateResult`, which never
  settles it, and every other action on the attempt is refused as a conflict
  (operator_mutations_v2.go 47). `AdmissionSettles` excepts this case. `docs/PRD.md:397`
  wants an orphaned attempt to be abandonable.
* A Recover can be refused because another one succeeded (operator_mutations_v2.go
  929). With 128 receipts in the ledger a new one takes the place of the oldest completed
  one, and an effect that only this one named is deleted with it. If it is the retry
  that a second Recover is about to attach to (line 873), the new receipt names an effect
  that is gone, the validation refuses the candidate (so 3846), and the client gets
  an error, as often as it asks, for a retry that is on GitHub. The proof of
  `LedgersAreValid` came upon it; `attach` is `checked` for this reason. It takes two
  Recovers and a full list, which no scene of the run combines.
* A request whose client has gone can still commit through the worker (compare
  operator_service_v2_test.go 1099–1119), and a Recover whose failure the cycle has
  published by itself does not converge (compare `docs/recovery.md:5`).

Reviewers
* A Stop that captured its reviewer between the sealing of the result and the end of
  the review never completes (operator_service_v2.go 1851): sealing has set `DeadProved`,
  `stopReviewerSessionAtBoundWithProof` refuses such a certificate, and nothing clears
  it. `supersedeInvalidPlanReview` asks for `DeadProved` first (line 1792),
  `stopBoundReviewer` does not. `StoppableSettles` is about the other Stops.
* A session that was requested and never appeared, or was lost before it was bound,
  wedges the review and its Stop; so does a Cancel between
  `markReviewerSessionRequested` and the creation, and a Dismiss of a requested,
  unbound reviewer (`retainReviewerLease` writes a certificate with group 0 that
  `bindReviewerStopping` then conflicts with).
* A Cancel while a second plan review is pending, whose launch forgot the first one's
  certificate, meets a manifest that keeps the first's snapshot (dashboard.go 714, 732).
  A restart during the preparation of a snapshot wedges the pending review (main.go
  2577–2587, 2811; compare `docs/recovery.md:13`).

Handoff
* A Cancel or Dismiss between the candidate's binding file and its certificate ends
  every time with "handoff candidate exists without an owner certificate"
  (handoff_compensation_v2.go 83); between the new session and the binding file, the
  session's name is held by a pane that no binding names, and Stop always fails. With
  two daemon starts a host process of the first can still create such a parked
  session after the Cancel was reported as done; no worker runs in it
  (`SettledIsQuiet`).
* A stopped attempt with queued findings has no certificates, so
  `planReconciliationHandoffs` fails in every later cycle (reconciliation_pipeline_v2.go
  298), which holds up the handoffs and publications of all attempts.
* A change of the observation under a pending handoff makes its authorisation stale
  for ever, and a new plan conflicts with it.
* The first compensation that kills an old worker which had started ends in an error
  ("worker descendants remain unproved"); the retry proves it absent. Dismiss's proof
  with `preserveOld` conflicts with a later one without it (operator_service_v2.go
  1213) only if reviewer resources remain. The tests replace the boundary by a fake
  (handoff_owner_v2_test.go) and reach none of these.

Supervisor
* "Proposal status moves from `pending` to `running`, then `succeeded`, `failed`, or
  `refused`" (`docs/architecture.md:59`), but `ResolveMessageProposal` takes the operation
  token without waiting (supervisor.go 876): when it is busy the process of
  supervisor_proposals_v2.go 178 returns, and the proposal stays `running` until a
  restart reports it as failed.
* A busy token during `ValidateAttentionProposal` is treated as a refusal
  (`docs/cli.md:82`). A Resolve after the deadline or the observation can revive a
  handoff that has ended (check-in sets it to waiting); the outcome of one proposal can
  change the handoff of another in the file; a running proposal found after a start
  sets a recovered handoff to human attention. A fixed action has no ten-minute
  deadline (`docs/recovery.md:36`, `docs/architecture.md:57`). Shutdown during an observation
  uses up a handoff without a prompt.

## 7. Not modelled

* *Governance of pull requests* (`internal/github/pull_request.go`, `pr_adapters.go`,
  `pr_recovery_owner_v2.go`): a decision over one snapshot of checks, reviews and
  protections, which `pull_request_test.go` enumerates; the rest builds requests and
  parses responses.
* *GitHub client*: mutation slot, rate budget, retries and conditional reads.
* *Dashboard, control socket, CLI, front end, configuration, release tools*: thin
  callers and I/O without state of their own.
* *Parsing and forging of markers*: a comment is what it says.
* *Migration of files of older versions, legacy reviewers, version 1 handoffs.*
* *The write of `status.json`* with its epoch and revision, the deployment fence, file
  locks and the joint shutdown of `serve`.
* *The sandbox*: users, mounts, file modes, process groups beyond alive or dead.
