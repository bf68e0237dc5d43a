------------------------------ MODULE Handoff ------------------------------
(***************************************************************************)
(* Handing work back to an attempt: review findings or a recovery claim    *)
(* start a new worker, the candidate, in place of the one the ledger       *)
(* names. The daemon commits the intent, a host process stops the old      *)
(* worker and prepares the candidate behind its gate, the daemon certifies *)
(* it, another host process releases it and the daemon commits the launch. *)
(* Operators cancel, dismiss or archive the attempt at any time and then   *)
(* compensate the pending candidate. A host process is killed when its     *)
(* request is cancelled, some time later, and outlives a daemon crash.     *)
(*                                                                         *)
(* One attempt, version 2 manifests. Abstracted: what asks for a handoff   *)
(* is one flag "due"; every change of the issue's observation is the issue *)
(* closing; Stop and the removal of a worktree are one step each, since    *)
(* AttemptLaunch has their steps; the compensation's own host process ends *)
(* with the daemon; an owner's commit and the call it authorizes are one   *)
(* step; the mark Dismiss leaves on an old pane is only its proof, since   *)
(* no step of version 2 reads it.                                          *)
(***************************************************************************)
EXTENDS Integers, FiniteSets

CONSTANTS MaxHandoffs, \* bound on the handoffs begun
          MaxBoots     \* bound on daemon starts

ASSUME HandoffAssumption ==
  MaxHandoffs \in Nat \ {0} /\ MaxBoots \in Nat \ {0}

VARIABLES
  ledger, \* the owner's durable state of the attempt
  host,   \* tmux, brokers, workers and the files of launches
  jobs,   \* the host process of each daemon start
  run,    \* the cycle's executeHandoff
  worker, \* the operator's request being carried out
  closed, \* the issue is closed and its work merged
  boots   \* daemon starts so far

vars == <<ledger, host, jobs, run, worker, closed, boots>>

\* Launch 0 is Start's; the candidate of handoff k is launch k.
Launches   == 0..MaxHandoffs
Candidates == 1..MaxHandoffs
Absent     == -1
Stray      == -2  \* a session of the attempt's name whose pane no binding names
Boots      == 1..MaxBoots
Stages     == {"none", "created", "bound", "ready", "released"}

NoEffect == [id |-> 0, kind |-> "none", old |-> 0, seen |-> FALSE,
             certified |-> FALSE]
NoJob    == [op |-> "none", pc |-> "ended", id |-> 0, old |-> 0]
NoRun    == [pc |-> "idle", id |-> 0, cancelled |-> FALSE]
NoProof  == "none"
Resting  == [pc |-> "idle", preserve |-> FALSE]

Kinds == {"review-findings", "recovery"}
Effects ==
  [id : 0..MaxHandoffs, kind : {"none"} \cup Kinds, old : Launches,
   seen : BOOLEAN, certified : BOOLEAN]

States == {"running", "completed", "cancelled"}
Tombs  == {"none", "dismissed", "archived"}
Phases == {"none", "stop-pending", "handoff-cleanup", "cleanup-pending", "completed"}
Calls  == {"look", "keep", "stop", "kill", "create", "bind", "broker",
           "check", "open", "mark", "receipt", "done", "failed", "ended"}

Ledger == [launch : Launches, state : States, certified : BOOLEAN,
           due : {"none"} \cup Kinds, queued : 0..MaxHandoffs,
           works : [Candidates -> 0..MaxHandoffs], tomb : Tombs, effect : Effects,
           invalidated : Effects, compensated : BOOLEAN, drawn : 0..MaxHandoffs,
           phase : Phases]
Host   == [pane : {Stray, Absent} \cup Launches, stage : [Launches -> Stages],
           brokers : SUBSET Launches, alive : SUBSET Launches,
           delivered : SUBSET Candidates, receipts : SUBSET Candidates,
           keepers : SUBSET Candidates, leftovers : BOOLEAN,
           proofs : [Candidates -> {NoProof, "kept", "removed"}]]
Job    == [op : {"none", "prepare", "release"}, id : 0..MaxHandoffs, old : Launches,
           pc : Calls]
Run    == [pc : {"idle", "verify", "prepare", "release", "confirm"},
           id : 0..MaxHandoffs, cancelled : BOOLEAN]
Worker == [pc : {"idle", "look", "kill", "prove", "proved", "work"}, preserve : BOOLEAN]

TypeOK ==
  /\ ledger \in Ledger
  /\ host \in Host
  /\ jobs \in [Boots -> Job]
  /\ run \in Run
  /\ worker \in Worker
  /\ closed \in BOOLEAN
  /\ boots \in Boots

\* Start has run: its worker is up and certified. The reviewer of the attempt
\* may have left resources behind.
Init ==
  /\ ledger = [launch |-> 0, state |-> "running", certified |-> TRUE,
               due |-> "none", queued |-> 0, works |-> [k \in Candidates |-> 0], tomb |-> "none",
               effect |-> NoEffect, invalidated |-> NoEffect,
               compensated |-> FALSE, drawn |-> 0, phase |-> "none"]
  /\ \E left \in BOOLEAN :
       host = [pane |-> 0, brokers |-> {0}, alive |-> {0}, leftovers |-> left,
               stage |-> [k \in Launches |-> IF k = 0 THEN "released" ELSE "none"],
               delivered |-> {}, receipts |-> {}, keepers |-> {},
               proofs |-> [k \in Candidates |-> NoProof]]
  /\ jobs = [b \in Boots |-> NoJob]
  /\ run = NoRun
  /\ worker = Resting
  /\ closed = FALSE
  /\ boots = 1

(* An operator that stands directly before a definition and differs from it *)
(* in one detail is that definition with a plausible mistake. No action     *)
(* uses it: putting it in place of the definition must break a property.    *)

-----------------------------------------------------------------------------
(* The attempt's surroundings *)

\* The monitor sees the result of the ledger's worker.
WorkerCompletes ==
  /\ ledger.tomb = "none" /\ ledger.state = "running"
  /\ ledger.effect = NoEffect /\ ledger.phase # "stop-pending"
  /\ ledger.launch \in host.alive
  /\ host' = [host EXCEPT !.alive = @ \ {ledger.launch}]
  /\ ledger' = [ledger EXCEPT !.state = "completed"]
  /\ UNCHANGED <<jobs, run, worker, closed, boots>>

\* A review ends with findings, of a plan while its worker still runs; or a
\* published attempt's pull request needs work.
WorkArrives(kind) ==
  /\ ledger.tomb = "none" /\ ledger.due = "none" /\ ~closed
  /\ ledger.drawn < MaxHandoffs /\ ledger.queued < MaxHandoffs
  /\ ledger.state = "completed" \/ (kind = "review-findings" /\ ledger.state = "running")
  /\ ledger.phase # "stop-pending"
  /\ ledger' = [ledger EXCEPT !.due = kind, !.queued = @ + 1]
  /\ UNCHANGED <<host, jobs, run, worker, closed, boots>>

IssueCloses ==
  /\ ~closed
  /\ closed' = TRUE
  /\ UNCHANGED <<ledger, host, jobs, run, worker, boots>>

\* The keeper session of a preparation sleeps for 30 seconds.
KeeperExpires(k) ==
  /\ k \in host.keepers
  /\ host' = [host EXCEPT !.keepers = @ \ {k}]
  /\ UNCHANGED <<ledger, jobs, run, worker, closed, boots>>

\* The daemon dies and starts again; its host process goes on.
Restart ==
  /\ boots < MaxBoots
  /\ boots' = boots + 1
  /\ run' = NoRun /\ worker' = Resting
  /\ jobs' = IF jobs[boots].pc \in {"done", "failed"}
             THEN [jobs EXCEPT ![boots] = NoJob] ELSE jobs
  /\ UNCHANGED <<ledger, host, closed>>

-----------------------------------------------------------------------------
(* The daemon's side of a handoff *)

\* reconciliationEffectCurrent: the intent is pending, and neither its attempt
\* nor the observation it was begun for has moved on.
Current(id) == ledger.effect.id = id /\ ledger.effect.seen = closed

\* implementation and terminal certificates of the launch in the ledger
Plannable == ledger.tomb = "none" /\ ledger.due # "none" /\ ledger.certified

\* runHandoffPhase plans and begins the handoff with a launch of its own.
PlanAndBegin ==
  /\ run.pc = "idle" /\ Plannable /\ ledger.phase # "stop-pending"
  /\ ledger.effect = NoEffect /\ ledger.drawn < MaxHandoffs
  /\ LET id == ledger.drawn + 1 IN
     /\ ledger' = [ledger EXCEPT
          !.drawn = id, !.works[id] = ledger.queued,
          !.effect = [id |-> id, kind |-> ledger.due, old |-> ledger.launch,
                      seen |-> closed, certified |-> FALSE]]
     /\ run' = [pc |-> "verify", id |-> id, cancelled |-> FALSE]
  /\ UNCHANGED <<host, jobs, worker, closed, boots>>

\* A later cycle takes up the handoff that is still pending: the recovery of
\* pending effects, or the phase again, which plans the same request.
Resume ==
  /\ run.pc = "idle" /\ ledger.effect # NoEffect
  /\ run' = [pc |-> "verify", id |-> ledger.effect.id, cancelled |-> FALSE]
  /\ UNCHANGED <<ledger, host, jobs, worker, closed, boots>>

\* What verify-handoff answers: the candidate shows the receipt, it does not,
\* or its pane is no longer the one its binding names.
Bound(k)    == host.stage[k] \in {"bound", "ready", "released"}
Replaced(k) == Bound(k) /\ host.pane # k
Applied(k)  == Bound(k) /\ host.pane = k /\ k \in host.delivered \cap host.receipts

\* The boundary's request names the launches of the intent.
Call(op) ==
  [op |-> op, pc |-> IF op = "prepare" THEN "look" ELSE "check",
   id |-> run.id, old |-> ledger.effect.old]

Verify ==
  /\ run.pc = "verify" /\ ~run.cancelled
  /\ IF Replaced(run.id) \/ ~Current(run.id)
     THEN run' = NoRun /\ UNCHANGED jobs
     ELSE IF Applied(run.id)
     THEN run' = [run EXCEPT !.pc = "confirm"] /\ UNCHANGED jobs
     ELSE /\ run' = [run EXCEPT !.pc = "prepare"]
          /\ jobs' = [jobs EXCEPT ![boots] = Call("prepare")]
  /\ UNCHANGED <<ledger, host, worker, closed, boots>>

\* Blind: the release does not ask the owner.
CertifyBlind ==
  /\ run.pc = "prepare" /\ ~run.cancelled /\ jobs[boots].pc = "done"
  /\ ledger' = IF Current(run.id)
               THEN [ledger EXCEPT !.effect.certified = TRUE] ELSE ledger
  /\ run' = [run EXCEPT !.pc = "release"]
  /\ jobs' = [jobs EXCEPT ![boots] = Call("release")]
  /\ UNCHANGED <<host, worker, closed, boots>>

\* The owner certifies the prepared candidate before it is released.
Certify ==
  /\ run.pc = "prepare" /\ ~run.cancelled /\ jobs[boots].pc = "done"
  /\ IF Current(run.id)
     THEN /\ ledger' = [ledger EXCEPT !.effect.certified = TRUE]
          /\ run' = [run EXCEPT !.pc = "release"]
          /\ jobs' = [jobs EXCEPT ![boots] = Call("release")]
     ELSE /\ run' = NoRun
          /\ jobs' = [jobs EXCEPT ![boots] = NoJob]
          /\ UNCHANGED ledger
  /\ UNCHANGED <<host, worker, closed, boots>>

CallReturns ==
  /\ run.pc \in {"prepare", "release"} /\ ~run.cancelled
  /\ \/ jobs[boots].pc = "failed" /\ run' = NoRun
     \/ /\ run.pc = "release" /\ jobs[boots].pc = "done"
        /\ run' = [run EXCEPT !.pc = "confirm"]
  /\ jobs' = [jobs EXCEPT ![boots] = NoJob]
  /\ UNCHANGED <<ledger, host, worker, closed, boots>>

\* Unacknowledged: what asked for the handoff stays queued.
DeliveredUnacknowledged ==
  [ledger EXCEPT
     !.launch = run.id, !.effect = NoEffect,
     !.state = IF ledger.effect.kind = "review-findings" THEN "running" ELSE @]

\* The ledger as a finished handoff leaves it.
Delivered ==
  [ledger EXCEPT
     !.launch = run.id, !.effect = NoEffect, !.due = "none",
     !.state = IF ledger.effect.kind = "review-findings" THEN "running" ELSE @]

\* The receipt is read back before the outcome is committed.
Confirm ==
  /\ run.pc = "confirm" /\ ~run.cancelled
  /\ run' = NoRun
  /\ ledger' = IF Applied(run.id) /\ Current(run.id) THEN Delivered ELSE ledger
  /\ UNCHANGED <<host, jobs, worker, closed, boots>>

\* The cancelled context kills the host process, between any two of its steps.
CallDies ==
  /\ run.cancelled
  /\ run' = NoRun
  /\ jobs' = [jobs EXCEPT ![boots] = NoJob]
  /\ UNCHANGED <<ledger, host, worker, closed, boots>>

-----------------------------------------------------------------------------
(* prepare-handoff: stop the old worker, put the candidate behind its gate *)

At(b, op, pc) == jobs[b].op = op /\ jobs[b].pc = pc

\* The process of start b goes on to pc; nobody reads what an orphan returns.
Step(b, pc) ==
  /\ jobs' = [jobs EXCEPT ![b] =
       IF pc \in {"done", "failed"} /\ b < boots THEN NoJob ELSE [@ EXCEPT !.pc = pc]]
  /\ UNCHANGED <<ledger, run, worker, closed, boots>>

Returns(b, pc) ==
  /\ Step(b, pc)
  /\ host' = [host EXCEPT !.keepers = @ \ {jobs[b].id}]

\* A candidate that is already bound is returned as it is, if it is still the
\* session's and its broker is up.
PrepareLook(b) ==
  LET k == jobs[b].id IN
  /\ At(b, "prepare", "look")
  /\ Step(b, IF ~Bound(k) THEN "keep"
             ELSE IF host.pane = k /\ host.stage[k] # "bound" THEN "done" ELSE "failed")
  /\ UNCHANGED host

PrepareKeep(b) ==
  LET k == jobs[b].id IN
  /\ At(b, "prepare", "keep")
  /\ IF k \in host.keepers
     THEN Step(b, "failed") /\ UNCHANGED host
     ELSE Step(b, "stop") /\ host' = [host EXCEPT !.keepers = @ \cup {k}]

\* The host once the broker of launch k, and so its worker, is proved dead.
BrokerStopped(k) == [host EXCEPT !.brokers = @ \ {k}, !.alive = @ \ {k}]

\* Unproved: the old pane is killed, its broker is not looked for.
PrepareStopUnproved(b) ==
  /\ At(b, "prepare", "stop")
  /\ Step(b, "kill") /\ UNCHANGED host

\* StopCertifiedImplementation of the old launch: its session's pane must be
\* the one its binding names, and its broker must be proved dead.
PrepareStop(b) ==
  LET k == jobs[b].old IN
  /\ At(b, "prepare", "stop")
  /\ IF host.pane \notin {k, Absent} THEN Returns(b, "failed")
     ELSE /\ Step(b, IF host.pane = k THEN "kill" ELSE "create")
          /\ host' = BrokerStopped(k)

PrepareKill(b) ==
  /\ At(b, "prepare", "kill")
  /\ IF host.pane # jobs[b].old THEN Returns(b, "failed")
     ELSE Step(b, "create") /\ host' = [host EXCEPT !.pane = Absent]

\* The candidate's session bears the name the old one had. A launch has one
\* binding: a second pane made for it can not be bound.
PrepareCreate(b) ==
  LET k == jobs[b].id IN
  /\ At(b, "prepare", "create")
  /\ IF host.pane # Absent THEN Returns(b, "failed")
     ELSE /\ Step(b, "bind")
          /\ host' = IF Bound(k) THEN [host EXCEPT !.pane = Stray]
                     ELSE [host EXCEPT !.pane = k, !.stage[k] = "created"]

PrepareBind(b) ==
  /\ At(b, "prepare", "bind")
  /\ IF host.pane # jobs[b].id THEN Returns(b, "failed")
     ELSE /\ Step(b, "broker")
          /\ host' = [host EXCEPT !.stage[jobs[b].id] = "bound"]

PrepareBroker(b) ==
  LET k == jobs[b].id IN
  /\ At(b, "prepare", "broker")
  /\ IF host.pane # k THEN Returns(b, "failed")
     ELSE /\ Step(b, "done")
          /\ host' = [host EXCEPT !.stage[k] = "ready", !.brokers = @ \cup {k},
                                  !.keepers = @ \ {k}]

-----------------------------------------------------------------------------
(* release-handoff: let the candidate run and leave the receipt *)

ReleaseCheck(b) ==
  LET k == jobs[b].id IN
  /\ At(b, "release", "check")
  /\ Step(b, IF Bound(k) /\ host.pane = k THEN "open" ELSE "failed")
  /\ UNCHANGED host

\* A broker that was released before is released again without effect.
ReleaseOpen(b) ==
  LET k == jobs[b].id IN
  /\ At(b, "release", "open")
  /\ IF k \notin host.brokers THEN Step(b, "failed") /\ UNCHANGED host
     ELSE /\ Step(b, "mark")
          /\ host' = [host EXCEPT
               !.stage[k] = "released",
               !.alive = IF host.stage[k] = "ready" THEN @ \cup {k} ELSE @]

ReleaseMark(b) ==
  LET k == jobs[b].id IN
  /\ At(b, "release", "mark")
  /\ IF host.pane # k THEN Step(b, "failed") /\ UNCHANGED host
     ELSE Step(b, "receipt") /\ host' = [host EXCEPT !.delivered = @ \cup {k}]

ReleaseReceipt(b) ==
  /\ At(b, "release", "receipt")
  /\ Step(b, "done")
  /\ host' = [host EXCEPT !.receipts = @ \cup {jobs[b].id}]

-----------------------------------------------------------------------------
(* Operators end the attempt: the pending candidate is invalidated *)

\* The ledger once the pending handoff is taken from the attempt; its
\* candidate, with the certificate it has, is kept for compensation.
Invalidated ==
  [ledger EXCEPT !.effect = NoEffect, !.invalidated = ledger.effect]

Interrupted == [run EXCEPT !.cancelled = run.pc # "idle"]

\* Stop's upsert drops the certificates and the recovery, not the findings.
Cancel ==
  /\ ledger.tomb = "none" /\ ledger.state = "running"
  /\ ledger.phase \in {"none", "completed"} /\ worker.pc = "idle"
  /\ ledger' = [Invalidated EXCEPT
       !.certified = FALSE, !.phase = "stop-pending",
       !.due = IF @ = "recovery" THEN "none" ELSE @]
  /\ run' = Interrupted
  /\ worker' = [pc |-> IF ledger.effect = NoEffect THEN "work" ELSE "look",
                preserve |-> FALSE]
  /\ UNCHANGED <<host, jobs, closed, boots>>

\* applyInvalidateAttempt
Discard(tomb) ==
  /\ ledger.tomb = "none" /\ closed
  /\ ledger.state = "completed" \/ (tomb = "dismissed" /\ ledger.state = "cancelled")
  /\ ledger.phase \in {"none", "completed"} /\ worker.pc = "idle"
  /\ ledger' = [Invalidated EXCEPT
       !.tomb = tomb, !.due = "none",
       !.phase = IF tomb = "dismissed" /\ ledger.effect # NoEffect
                 THEN "handoff-cleanup" ELSE "cleanup-pending"]
  /\ run' = Interrupted
  /\ UNCHANGED <<host, jobs, worker, closed, boots>>

-----------------------------------------------------------------------------
(* The operator's request is carried out *)

lost == ledger.invalidated
Pending == ledger.phase \in {"stop-pending", "handoff-cleanup", "cleanup-pending"}

Rest == worker' = Resting
Do(pc) == worker' = [worker EXCEPT !.pc = pc]

\* cleanupReviewerProofs: the cleanup is held until the owner has recorded the
\* compensation, which it records for a dismissed attempt only.
CleanupAllowed == lost = NoEffect \/ ledger.compensated

Settled == [ledger EXCEPT !.phase = "completed",
                          !.state = IF ledger.tomb = "none" THEN "cancelled" ELSE @]

\* resumeReceiptReserved: what is already done is verified, the rest is done.
Dispatch ==
  /\ worker.pc = "idle" /\ Pending
  /\ IF \/ ledger.phase = "stop-pending" /\ host.pane = Absent
        \/ /\ ledger.phase = "cleanup-pending" /\ ledger.tomb = "dismissed"
           /\ CleanupAllowed /\ ~host.leftovers
     THEN ledger' = Settled /\ UNCHANGED worker
     ELSE /\ worker' = [pc |-> IF lost = NoEffect THEN "work" ELSE "look",
                        preserve |-> ledger.phase = "handoff-cleanup"]
          /\ UNCHANGED ledger
  /\ UNCHANGED <<host, jobs, run, closed, boots>>

ProofOf(preserve) == IF preserve THEN "kept" ELSE "removed"

\* compensate-handoff: a proof on disk answers for the same request only; a
\* certified candidate is stopped, after its broker is proved dead; of an
\* uncertified one there must be no binding.
CompensateLook ==
  /\ worker.pc = "look"
  /\ IF host.proofs[lost.id] # NoProof
     THEN /\ IF host.proofs[lost.id] = ProofOf(worker.preserve) THEN Do("proved") ELSE Rest
          /\ UNCHANGED host
     ELSE IF lost.certified
     THEN IF host.pane \in {lost.id, Absent}
          THEN /\ Do(IF host.pane = Absent THEN "prove" ELSE "kill")
               /\ host' = BrokerStopped(lost.id)
          ELSE Rest /\ UNCHANGED host
     ELSE /\ IF Bound(lost.id) THEN Rest
             ELSE Do(IF host.pane = lost.old /\ ~worker.preserve THEN "kill" ELSE "prove")
          /\ UNCHANGED host
  /\ UNCHANGED <<ledger, jobs, run, closed, boots>>

\* The old worker has run, so that its own death cannot be proved in the call
\* that kills its pane: the next one finds the pane absent.
CompensateKill ==
  LET k == IF lost.certified THEN lost.id ELSE lost.old IN
  /\ worker.pc = "kill"
  /\ IF host.pane # k THEN Rest /\ UNCHANGED host
     ELSE /\ host' = [BrokerStopped(k) EXCEPT !.pane = Absent]
          /\ IF lost.certified THEN Do("prove") ELSE Rest
  /\ UNCHANGED <<ledger, jobs, run, closed, boots>>

CompensateProve ==
  /\ worker.pc = "prove" /\ Do("proved")
  /\ host' = [host EXCEPT !.proofs[lost.id] = ProofOf(worker.preserve)]
  /\ UNCHANGED <<ledger, jobs, run, closed, boots>>

\* applyCompleteHandoffCompensation, for a dismissed attempt.
CompensateCommit ==
  /\ worker.pc = "proved"
  /\ IF ledger.phase = "handoff-cleanup"
     THEN /\ Rest
          /\ ledger' = [ledger EXCEPT !.compensated = TRUE, !.phase = "cleanup-pending"]
     ELSE Do("work") /\ UNCHANGED ledger
  /\ UNCHANGED <<host, jobs, run, closed, boots>>

\* Unproved: the session is removed, its broker is not looked for.
WorkUnproved ==
  /\ worker.pc = "work" /\ run.pc = "idle" /\ Rest
  /\ IF ledger.tomb # "none" /\ ~CleanupAllowed THEN UNCHANGED <<ledger, host>>
     ELSE IF ledger.tomb = "dismissed"
     THEN host' = [host EXCEPT !.leftovers = FALSE] /\ ledger' = Settled
     ELSE IF host.pane \in {ledger.launch, Absent}
     THEN host' = [host EXCEPT !.pane = Absent] /\ ledger' = Settled
     ELSE UNCHANGED <<ledger, host>>
  /\ UNCHANGED <<jobs, run, closed, boots>>

\* The ledger's own worker is stopped, and removed when archived. The attempt's
\* key is held: a handoff under way has ended.
Work ==
  /\ worker.pc = "work" /\ run.pc = "idle" /\ Rest
  /\ IF ledger.tomb # "none" /\ ~CleanupAllowed THEN UNCHANGED <<ledger, host>>
     ELSE IF ledger.tomb = "dismissed"
     THEN host' = [host EXCEPT !.leftovers = FALSE] /\ ledger' = Settled
     ELSE IF host.pane \in {ledger.launch, Absent}
     THEN /\ host' = [BrokerStopped(ledger.launch) EXCEPT !.pane = Absent]
          /\ ledger' = Settled
     ELSE UNCHANGED <<ledger, host>>
  /\ UNCHANGED <<jobs, run, closed, boots>>

-----------------------------------------------------------------------------

RunStep == Verify \/ Certify \/ CallReturns \/ Confirm \/ CallDies

PrepareStep(b) ==
  \/ PrepareLook(b) \/ PrepareKeep(b) \/ PrepareStop(b) \/ PrepareKill(b)
  \/ PrepareCreate(b) \/ PrepareBind(b) \/ PrepareBroker(b)

ReleaseStep(b) ==
  ReleaseCheck(b) \/ ReleaseOpen(b) \/ ReleaseMark(b) \/ ReleaseReceipt(b)

WorkerStep ==
  \/ Dispatch \/ CompensateLook \/ CompensateKill \/ CompensateProve
  \/ CompensateCommit \/ Work

Next ==
  \/ WorkerCompletes \/ IssueCloses \/ Restart
  \/ \E kind \in Kinds : WorkArrives(kind)
  \/ \E k \in Candidates : KeeperExpires(k)
  \/ PlanAndBegin \/ Resume \/ RunStep
  \/ \E b \in Boots : PrepareStep(b) \/ ReleaseStep(b)
  \/ Cancel \/ \E tomb \in {"dismissed", "archived"} : Discard(tomb)
  \/ WorkerStep

Spec == Init /\ [][Next]_vars

\* Cycles and requests go on, and so do host processes; people need do nothing.
FairSpec ==
  /\ Spec
  /\ WF_vars(RunStep) /\ WF_vars(WorkerStep)
  /\ \A b \in Boots : WF_vars(PrepareStep(b) \/ ReleaseStep(b))

-----------------------------------------------------------------------------
(* Properties *)

\* An attempt never has two workers at work in its worktree, whatever host
\* process is still under way from an earlier start of the daemon.
OneWorker == Cardinality(host.alive) <= 1

\* A worker at work is the ledger's own or a candidate the owner certified
\* before it was released; and once the compensation of an invalidated
\* candidate is proved, that candidate is not and never comes to be at work.
WorkerIsOwned ==
  \A k \in host.alive :
    \/ k = ledger.launch
    \/ k = ledger.effect.id /\ ledger.effect.certified
    \/ k = lost.id /\ lost.certified /\ host.proofs[k] = NoProof

\* The prompt of one piece of work is given to one worker at most, however
\* often its handoff is interrupted and taken up again.
PromptRunsOnce ==
  \A j, k \in Candidates :
    j # k /\ host.stage[j] = "released" /\ host.stage[k] = "released" =>
      ledger.works[j] # ledger.works[k]

\* Once a cancellation or an archive is reported as done, no worker of the
\* attempt is at work, and none comes to be.
SettledIsQuiet ==
  ledger.phase = "completed" /\ ledger.tomb # "dismissed" => host.alive = {}

\* An archive whose handoff's compensation is proved is finished in the end.
ArchiveSettles ==
  (ledger.tomb = "archived" /\ Pending /\ lost # NoEffect /\ host.proofs[lost.id] # NoProof)
     ~> (ledger.phase = "completed")
=============================================================================
