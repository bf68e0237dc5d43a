-------------------------- MODULE ReviewerLifecycle --------------------------
(***************************************************************************)
(* The independent reviewer of one attempt: the run the owner admits, the  *)
(* disposable snapshot, the tmux session whose wrapper starts the agent    *)
(* behind a gate, the certificate that binds the process before the gate   *)
(* opens, the sealed result, and the four ways a run ends: its result, a   *)
(* supersession by a changed target, the operator's Stop or Dismiss, and   *)
(* the sweep of what it left.                                              *)
(*                                                                         *)
(* One job at a time holds the attempt's key. Everything a job learns from *)
(* the machine it may use after the machine has moved on; the owner's      *)
(* commands alone are atomic. Sessions, panes and reviewers move on their  *)
(* own, the daemon can stop between any two steps of a job, and a session  *)
(* it asked tmux for may still appear after that.                          *)
(*                                                                         *)
(* Abstracted: a process group is known or it is not (bound), generations  *)
(* are whether a destructive effect has begun, and profile digests,        *)
(* confinement versions and legacy quarantines are always current.         *)
(***************************************************************************)
EXTENDS Naturals, Sequences, FiniteSets

CONSTANTS Modes,       \* what is reviewed: a "plan", an "implementation"
          MaxTargets,  \* bound on the bodies or heads under review
          MaxRuns,     \* bound on reviewer runs
          MaxBoots,    \* bound on daemon starts
          MaxFaults    \* bound on lost sessions and failed preparations

ASSUME ReviewerAssumption ==
  /\ Modes \subseteq {"plan", "implementation"}
  /\ MaxTargets \in Nat \ {0} /\ MaxRuns \in Nat \ {0}
  /\ MaxBoots \in Nat \ {0} /\ MaxFaults \in Nat

VARIABLES
  mode,    \* what is reviewed, fixed
  ledger,  \* committed owner state of the attempt's reviews
  world,   \* each run's session, child, records, snapshot and marker
  target,  \* the body or head that is current now
  holder,  \* the job that holds the attempt's key
  boots,   \* daemon starts so far
  faults   \* bound: external failures so far

vars == <<mode, ledger, world, target, holder, boots, faults>>

-----------------------------------------------------------------------------
(* Types *)

Runs     == 1..MaxRuns
Targets  == 1..MaxTargets
Verdicts == {"clean", "findings", "failed"}
Results  == Verdicts \cup {"none"}

Run   == [state : {"pending", "completed", "dropped"}, target : Targets,
          requested : BOOLEAN, bound : BOOLEAN, revoked : BOOLEAN, sealed : Results,
          result : Results]
Proof == [run : {0} \cup Runs, bound : BOOLEAN, dead : BOOLEAN, never : BOOLEAN]
\* The destructive effect, with what it captured of the reviewer it superseded.
Stop  == [state : {"none", "pending", "completed"}, run : {0} \cup Runs,
          bound : BOOLEAN, requested : BOOLEAN, stopped : BOOLEAN, cleaned : BOOLEAN]
\* review is the manifest's last review; its run is 0 once its resources are gone.
Review == [state : Results, run : {0} \cup Runs, target : {0} \cup Targets,
           invalid : BOOLEAN]
Ledger == [review : Review, runs : Seq(Run), sweep : BOOLEAN,
           proofs : [Targets -> Proof], stop : Stop]

\* launch is the record that names the child; dead the broker's proof of its end.
World == [pane : {"none", "asked", "live", "dead"},
          child : {"none", "gated", "working", "dead"}, exit : Results,
          launch : BOOLEAN, dead : BOOLEAN, snap : BOOLEAN, marker : Results]

Jobs   == {"idle", "launch", "replay", "sweep", "supersede", "stop"}
Points == {"idle", "clear", "prepare", "request", "create", "never", "bind",
           "release", "seal", "mark", "finish", "probe", "hold", "kill", "prove",
           "commit", "clean", "certify", "settle"}
Holder == [job : Jobs, run : {0} \cup Runs, at : Points, result : Results, never : BOOLEAN]

Nobody   == [job |-> "idle", run |-> 0, at |-> "idle", result |-> "none", never |-> FALSE]
NoProof  == [run |-> 0, bound |-> FALSE, dead |-> FALSE, never |-> FALSE]
NoStop   == [state |-> "none", run |-> 0, bound |-> FALSE, requested |-> FALSE,
             stopped |-> FALSE, cleaned |-> FALSE]
Untouched == [pane |-> "none", child |-> "none", exit |-> "none", launch |-> FALSE,
              dead |-> FALSE, snap |-> FALSE, marker |-> "none"]

\* Every variable has its type.
TypeOK ==
  /\ mode \in {"plan", "implementation"}
  /\ ledger \in Ledger /\ Len(ledger.runs) <= MaxRuns
  /\ world \in [Runs -> World]
  /\ target \in Targets
  /\ holder \in Holder
  /\ boots \in 1..MaxBoots /\ faults \in 0..MaxFaults

Init ==
  /\ mode \in Modes
  /\ ledger = [review |-> [state |-> "none", run |-> 0, target |-> 0, invalid |-> FALSE],
               runs |-> <<>>, sweep |-> FALSE,
               proofs |-> [t \in Targets |-> NoProof], stop |-> NoStop]
  /\ world = [r \in Runs |-> Untouched]
  /\ target = 1 /\ holder = Nobody /\ boots = 1 /\ faults = 0

(* An operator that stands directly before a definition and differs from it *)
(* in one detail is that definition with a plausible mistake. No action     *)
(* uses it: putting it in place of the definition must break a property.    *)

-----------------------------------------------------------------------------
(* What the ledger says *)

known(L)      == DOMAIN L.runs
pending(L, r) == r \in known(L) /\ L.runs[r].state = "pending"
busy(L)       == L.sweep \/ \E r \in known(L) : pending(L, r)
proofOf(L, r) == L.proofs[L.runs[r].target]
certified(L, r) == r \in known(L) /\ proofOf(L, r).run = r

\* reviewerCleanupAuthorized: only a dead process group, or one never created,
\* gives its files up.
authorized(p) == p.dead /\ (p.bound \/ p.never)

\* reconciliationEffectFinishCurrent
current(L, r) == pending(L, r) /\ ~L.runs[r].revoked /\ L.stop.state = "none"

\* What the owner certifies of a run at the run's target.
withProof(L, r, p) == [L EXCEPT !.proofs[L.runs[r].target] = p]
Certificate(r, never, dead) ==
  [run |-> r, bound |-> ~never, dead |-> dead, never |-> never]

\* A run leaves files or a session behind.
remains(r) == world[r].snap \/ world[r].pane \in {"live", "dead"}
\* cleanupBoundReviewResources: with a certificate, and no living pane.
removable(r) == world[r].pane # "live"
wiped(w, R) ==
  [r \in Runs |-> IF r \notin R THEN w[r]
                  ELSE [w[r] EXCEPT !.snap = FALSE, !.launch = FALSE, !.dead = FALSE,
                                    !.pane = IF @ = "dead" THEN "none" ELSE @]]

-----------------------------------------------------------------------------
(* Jobs *)

At(job, p)    == holder.job = job /\ holder.at = p
Begin(job, r, p) ==
  /\ holder = Nobody
  /\ holder' = [Nobody EXCEPT !.job = job, !.run = r, !.at = p]
To(p)    == holder' = [holder EXCEPT !.at = p]
Leave    == holder' = Nobody
R        == holder.run
W        == world[R]

frame   == UNCHANGED <<mode, target, boots, faults>>
machine == UNCHANGED <<mode, ledger, target, boots>>

\* reviewerAdmissionBlocked: a certificate of this target whose process may live.
blocked == LET p == ledger.proofs[target] IN p.run # 0 /\ ~p.dead /\ ~p.never
\* The operator asks for a plan's review; an implementation's is planned when the
\* last one is swept and was of another head
\* (the acknowledgement that findings wait for is external).
wanted  ==
  \/ mode = "plan"
  \/ /\ mode = "implementation" /\ ledger.review.run = 0
     /\ ledger.review.target # target \/ ledger.review.invalid
Admitted == [state |-> "pending", target |-> target, requested |-> FALSE, bound |-> FALSE,
             revoked |-> FALSE, sealed |-> "none", result |-> "none"]

\* One reviewer effect of an attempt is pending at a time.
admissibleBusy == ledger.stop.state = "none"
admissible     == ledger.stop.state = "none" /\ ~busy(ledger)

\* A review of the current target is admitted and its first job takes the key.
BeginRun ==
  /\ Len(ledger.runs) < MaxRuns /\ admissible /\ ~blocked /\ wanted
  /\ Begin("launch", Len(ledger.runs) + 1, "clear")
  /\ ledger' = [ledger EXCEPT !.runs = Append(@, Admitted)]
  /\ UNCHANGED world /\ frame

earlier  == {t \in Targets : ledger.proofs[t].run \notin {0, R}}
earliest == CHOOSE t \in earlier : \A u \in earlier : t <= u

\* Before it prepares anything a launch clears what earlier runs left, one
\* certificate at a time: the files first, then the certificate.
Clear ==
  /\ At("launch", "clear") /\ earlier # {}
  /\ IF /\ \A t \in earlier : authorized(ledger.proofs[t])
        /\ removable(ledger.proofs[earliest].run)
     THEN world' = wiped(world, {ledger.proofs[earliest].run}) /\ To("certify")
     ELSE Leave /\ UNCHANGED world
  /\ UNCHANGED ledger /\ frame

ForgetReviewerProof ==
  /\ At("launch", "certify") /\ pending(ledger, R)
  /\ ledger' = [ledger EXCEPT !.proofs[earliest] = NoProof]
  /\ To("clear") /\ UNCHANGED world /\ frame

\* The snapshot is built, or its preparation fails before any session exists.
Prepare ==
  /\ At("launch", "clear") /\ earlier = {}
  /\ \/ To("request") /\ world' = [world EXCEPT ![R].snap = TRUE] /\ UNCHANGED faults
     \/ /\ faults < MaxFaults /\ faults' = faults + 1
        /\ holder' = [holder EXCEPT !.at = "never", !.result = "failed"]
        /\ UNCHANGED world
  /\ UNCHANGED <<mode, ledger, target, boots>>

\* From here a child of this run may exist that the owner does not know.
MarkReviewerSessionRequested ==
  /\ At("launch", "request") /\ current(ledger, R) /\ ~ledger.runs[R].bound
  /\ ledger' = [ledger EXCEPT !.runs[R].requested = TRUE]
  /\ To("create") /\ UNCHANGED world /\ frame

\* tmux is asked for the session; the job ends without waiting for it.
CreateSession ==
  /\ At("launch", "create")
  /\ world' = [world EXCEPT ![R].pane = "asked"]
  /\ Leave /\ UNCHANGED ledger /\ frame

-----------------------------------------------------------------------------
(* A pending run is observed again *)

readable(r) ==
  /\ current(ledger, r)
  /\ mode = "implementation" => ledger.runs[r].target = target /\ world[r].marker = "none"

\* runIndependentReviewCore over a run it has met before: it never started, it
\* waits at its gate, or its session has ended.
Observe(r) ==
  /\ readable(r)
  /\ \/ /\ ~ledger.runs[r].bound /\ ~ledger.runs[r].requested
        /\ ~world[r].snap /\ ~world[r].launch
        /\ Begin("replay", r, "never")
     \/ /\ world[r].launch /\ world[r].pane = "live" /\ world[r].child = "gated"
        /\ Begin("replay", r, "bind")
     \/ /\ world[r].launch /\ world[r].pane = "dead" /\ ledger.runs[r].bound
        /\ Begin("replay", r, "seal")
  /\ UNCHANGED <<ledger, world>> /\ frame

\* A process that cannot have been created is certified never to have run.
neverRan(r) ==
  /\ pending(ledger, r) /\ ~ledger.runs[r].requested /\ ~ledger.runs[r].bound
  /\ proofOf(ledger, r).run \in {0, r}

ProveNeverRan ==
  /\ holder.job \in {"launch", "replay"} /\ holder.at = "never"
  /\ IF neverRan(R)
     THEN /\ ledger' = withProof(ledger, R, Certificate(R, TRUE, TRUE))
          /\ holder' = [holder EXCEPT !.at = "mark", !.result = "failed"]
     ELSE Leave /\ UNCHANGED ledger
  /\ UNCHANGED world /\ frame

bindable(r) ==
  /\ current(ledger, r) /\ ledger.runs[r].requested /\ ~ledger.runs[r].bound
  /\ proofOf(ledger, r).run \in {0, r}
BoundUnmarked(r) == withProof(ledger, r, Certificate(r, FALSE, FALSE))
Bound(r) == [withProof(ledger, r, Certificate(r, FALSE, FALSE)) EXCEPT !.runs[r].bound = TRUE]

\* The gated child's group and pane become the run's certificate.
MarkPlanReviewRunning ==
  /\ At("replay", "bind")
  /\ \/ pending(ledger, R) /\ ledger.runs[R].bound /\ To("release") /\ UNCHANGED ledger
     \/ bindable(R) /\ To("release") /\ ledger' = Bound(R)
     \/ pending(ledger, R) /\ ~ledger.runs[R].bound /\ ~bindable(R) /\ Leave /\ UNCHANGED ledger
  /\ UNCHANGED world /\ frame

\* The broker opens the gate of a child whose binding is on disk.
ReleaseReviewer ==
  /\ At("replay", "release")
  /\ world' = [world EXCEPT ![R].child = IF W.pane = "live" /\ @ = "gated"
                                         THEN "working" ELSE @]
  /\ Leave /\ UNCHANGED ledger /\ frame

\* parseIndependentReview: a verdict counts only after a clean exit.
verdictBlind(r) == IF world[r].exit = "failed" THEN "clean" ELSE world[r].exit
verdict(r)      == world[r].exit

SealReviewerResult ==
  /\ At("replay", "seal") /\ current(ledger, R) /\ certified(ledger, R)
  /\ ledger.runs[R].sealed \in {"none", verdict(R)}
  /\ ledger' = [withProof(ledger, R, Certificate(R, FALSE, TRUE))
                  EXCEPT !.runs[R].sealed = verdict(R)]
  /\ holder' = [holder EXCEPT !.at = "mark", !.result = verdict(R)]
  /\ UNCHANGED world /\ frame

\* The result is on disk before the owner is told.
WriteMarker ==
  /\ holder.job \in {"launch", "replay"} /\ holder.at = "mark"
  /\ world' = [world EXCEPT ![R].marker = holder.result]
  /\ To("finish") /\ UNCHANGED ledger /\ frame

\* A result is committed by the run it belongs to, behind its certificate.
finishable(r, res) ==
  /\ current(ledger, r) /\ certified(ledger, r)
  /\ IF ledger.runs[r].bound THEN ledger.runs[r].sealed = res
     ELSE res = "failed" /\ proofOf(ledger, r).never /\ proofOf(ledger, r).dead
Concluded(r, res, bad) ==
  [ledger EXCEPT !.runs[r].state = "completed", !.runs[r].result = res,
                 !.review = [state |-> res, run |-> r, target |-> ledger.runs[r].target,
                             invalid |-> bad]]

FinishReconciliationEffect ==
  /\ holder.job \in {"launch", "replay"} /\ holder.at = "finish"
  /\ IF finishable(R, holder.result)
     THEN /\ ledger' = Concluded(R, holder.result, FALSE)
          /\ world' = [world EXCEPT ![R].marker = "none"]
     ELSE UNCHANGED <<ledger, world>>
  /\ Leave /\ frame

\* Scan and replay commit what a marker says without taking the key.
VerifyMarker(r) ==
  /\ world[r].marker # "none" /\ finishable(r, world[r].marker)
  /\ mode = "plan" \/ ledger.runs[r].target = target
  /\ ledger' = Concluded(r, world[r].marker, FALSE)
  /\ world' = [world EXCEPT ![r].marker = "none"]
  /\ UNCHANGED holder /\ frame

-----------------------------------------------------------------------------
(* A review that no longer applies, and the files of one that is over *)

supersededRevoked(r) == pending(ledger, r) /\ ledger.runs[r].revoked
superseded(r) ==
  /\ pending(ledger, r)
  /\ IF mode = "plan" THEN ledger.runs[r].revoked ELSE ledger.runs[r].target # target
BeginSupersede(r) ==
  /\ superseded(r)
  /\ Begin("supersede", r, IF proofOf(ledger, r).dead THEN "commit" ELSE "probe")
  /\ UNCHANGED <<ledger, world>> /\ frame

\* The job's view of its reviewer: a Stop keeps what it captured.
held      == IF holder.job = "stop" THEN ledger.stop ELSE ledger.runs[R]
heldOpen  == IF holder.job = "stop" THEN ledger.stop.state = "pending" ELSE pending(ledger, R)
\* StopAndProveTerminalBroker finds its broker, or the record of its end.
answers(r) == world[r].pane = "live" \/ world[r].dead

\* stopReviewerSessionAtBoundWithProof: what the session and the records allow.
\* An answer that proves nothing ends the job, which starts again.
mayKillLive  == held.bound /\ certified(ledger, R) /\ ~proofOf(ledger, R).dead
                /\ W.pane = "live"
mayKill      == held.bound /\ certified(ledger, R) /\ ~proofOf(ledger, R).dead /\ answers(R)
mayHold      == ~held.bound /\ W.pane = "live" /\ W.launch /\ W.child = "gated"
neverStarted == W.pane \in {"none", "asked"} /\ ~W.launch
mayCertify      == ~held.bound /\ neverStarted /\ ~held.requested

StopReviewerSession ==
  /\ holder.at = "probe"
  /\ \/ mayKill /\ To("kill")
     \/ mayHold /\ To("hold")
     \/ mayCertify /\ holder' = [holder EXCEPT !.at = "prove", !.never = TRUE]
     \/ ~mayKill /\ ~mayHold /\ ~mayCertify /\ Leave
  /\ UNCHANGED <<ledger, world>> /\ frame

\* An unknown child is bound to the owner before it is signalled, unless a
\* certificate of another identity has the key.
holdable ==
  /\ heldOpen /\ held.requested
  /\ proofOf(ledger, R).run \in {0, R}
  /\ certified(ledger, R) => proofOf(ledger, R).bound
Held ==
  LET L == IF proofOf(ledger, R).run = R THEN ledger
           ELSE withProof(ledger, R, Certificate(R, FALSE, FALSE))
  IN  IF holder.job = "stop" THEN [L EXCEPT !.stop.bound = TRUE]
      ELSE [L EXCEPT !.runs[R].bound = TRUE]

BindReviewerStopping ==
  /\ holder.at = "hold"
  /\ IF holdable THEN ledger' = Held /\ To("kill") ELSE Leave /\ UNCHANGED ledger
  /\ UNCHANGED world /\ frame

\* The broker ends the group and writes that it is gone; the session follows.
Killed(r) ==
  [world EXCEPT ![r].child = "dead", ![r].dead = TRUE, ![r].pane = "none",
                ![r].exit = IF world[r].child = "dead" THEN @ ELSE "failed"]
KillReviewer ==
  /\ holder.at = "kill"
  /\ IF answers(R) THEN world' = Killed(R) /\ To("prove") ELSE Leave /\ UNCHANGED world
  /\ UNCHANGED ledger /\ frame

\* applyProveReviewerDead, and applyMarkReviewerStopped for a Stop.
provable ==
  /\ heldOpen
  /\ IF holder.never
     THEN ~held.requested /\ ~held.bound
          /\ (holder.job = "supersede" => proofOf(ledger, R).run \in {0, R})
     ELSE held.bound /\ certified(ledger, R)
Proved == withProof(ledger, R, Certificate(R, holder.never, TRUE))

ProveReviewerDead ==
  /\ At("supersede", "prove")
  /\ IF provable THEN ledger' = Proved /\ To("commit") ELSE Leave /\ UNCHANGED ledger
  /\ UNCHANGED world /\ frame

MarkReviewerStopped ==
  /\ At("stop", "prove")
  /\ IF provable THEN ledger' = [Proved EXCEPT !.stop.stopped = TRUE] /\ To("clean")
     ELSE Leave /\ UNCHANGED ledger
  /\ UNCHANGED world /\ frame

SupersedePlanReview ==
  /\ At("supersede", "commit")
  /\ IF /\ superseded(R) /\ certified(ledger, R) /\ authorized(proofOf(ledger, R))
        /\ proofOf(ledger, R).bound = ledger.runs[R].bound
     THEN ledger' = Concluded(R, "failed", mode = "implementation")
     ELSE UNCHANGED ledger
  /\ Leave /\ UNCHANGED world /\ frame

\* A settled review's files are planned for cleanup behind its certificate.
sweepable(L) ==
  /\ L.review.run # 0 /\ L.stop.state = "none"
  /\ certified(L, L.review.run) /\ authorized(proofOf(L, L.review.run))
PlanSweep ==
  /\ sweepable(ledger) /\ ~busy(ledger)
  /\ ledger' = [ledger EXCEPT !.sweep = TRUE]
  /\ UNCHANGED <<world, holder>> /\ frame

BeginSweep ==
  /\ ledger.sweep /\ Begin("sweep", ledger.review.run, "clean")
  /\ UNCHANGED <<ledger, world>> /\ frame

CleanReviewResources ==
  /\ At("sweep", "clean") /\ ledger.sweep
  /\ IF sweepable(ledger) /\ removable(R)
     THEN world' = wiped(world, {R}) /\ To("settle")
     ELSE Leave /\ UNCHANGED world
  /\ UNCHANGED ledger /\ frame

FinishSweep ==
  /\ At("sweep", "settle") /\ ledger.sweep
  /\ ledger' = [withProof(ledger, R, NoProof) EXCEPT !.sweep = FALSE, !.review.run = 0]
  /\ Leave /\ UNCHANGED world /\ frame

-----------------------------------------------------------------------------
(* The operator ends the attempt *)

\* retainReviewerLease: a closed attempt's pending run leaves a certificate that
\* says whether a process can exist.
retainedNever(r) ==
  IF mode = "implementation" /\ proofOf(ledger, r).run = 0
  THEN withProof(ledger, r, Certificate(r, TRUE, TRUE)) ELSE ledger
retained(r) ==
  IF mode = "implementation" /\ proofOf(ledger, r).run = 0
  THEN withProof(ledger, r, [run |-> r, bound |-> FALSE, dead |-> ~ledger.runs[r].requested,
                             never |-> ~ledger.runs[r].requested])
  ELSE ledger
Superseding(r) ==
  [NoStop EXCEPT !.state = "pending", !.run = r, !.bound = ledger.runs[r].bound,
                 !.requested = ledger.runs[r].requested]

\* Stop or Cancel of a plan's attempt, Dismiss of an implementation's: every
\* pending run is dropped and the new effect captures what was known of it.
Destroy ==
  /\ ledger.stop.state = "none"
  /\ \/ /\ ~\E r \in known(ledger) : pending(ledger, r)
        /\ ledger' = [ledger EXCEPT !.sweep = FALSE, !.stop.state = "pending"]
     \/ \E r \in known(ledger) :
          /\ pending(ledger, r)
          /\ mode = "implementation" => proofOf(ledger, r).run \in {0, r}
          /\ ledger' = [retained(r) EXCEPT !.runs[r].state = "dropped", !.sweep = FALSE,
                                           !.stop = Superseding(r)]
  /\ UNCHANGED <<world, holder>> /\ frame

stopPoint == IF ledger.stop.run # 0 /\ ~ledger.stop.stopped THEN "probe" ELSE "clean"
BeginStop ==
  /\ ledger.stop.state = "pending" /\ Begin("stop", ledger.stop.run, stopPoint)
  /\ UNCHANGED <<ledger, world>> /\ frame

\* Nothing of the attempt is deleted while any of it has no death certificate.
certifiedRunsOne == {ledger.stop.run} \ {0}
certifiedRuns    == {ledger.proofs[t].run : t \in Targets} \ {0}
cleanable ==
  /\ \A t \in Targets : ledger.proofs[t].run # 0 => authorized(ledger.proofs[t])
  /\ \A r \in known(ledger) : world[r].snap => certified(ledger, r)
  /\ ledger.review.run # 0 => certified(ledger, ledger.review.run)
  /\ \A r \in certifiedRuns : removable(r)

CleanAttemptResources ==
  /\ At("stop", "clean")
  /\ IF cleanable THEN world' = wiped(world, certifiedRuns) /\ To("certify")
     ELSE Leave /\ UNCHANGED world
  /\ UNCHANGED ledger /\ frame

MarkReviewerResourcesCleaned ==
  /\ At("stop", "certify")
  /\ ledger' = [ledger EXCEPT !.stop.cleaned = mode = "plan"]
  /\ To("settle") /\ UNCHANGED world /\ frame

\* effectReviewerCleanupBlocked
cleanupBlocked ==
  \/ \E t \in Targets : ledger.proofs[t].run # 0 /\ ~authorized(ledger.proofs[t])
  \/ ledger.stop.run # 0 /\ ~ledger.stop.stopped
  \/ /\ mode = "plan" /\ ~ledger.stop.cleaned
     /\ certifiedRuns # {} \/ ledger.review.run # 0
FinishStop ==
  /\ At("stop", "settle")
  /\ IF cleanupBlocked THEN UNCHANGED ledger
     ELSE ledger' = [ledger EXCEPT !.stop.state = "completed", !.review.run = 0,
                                   !.proofs = [t \in Targets |-> NoProof]]
  /\ Leave /\ UNCHANGED world /\ frame

-----------------------------------------------------------------------------
(* The machine, the issue, and the daemon's end *)

moved(r, pane, child) ==
  /\ world' = [world EXCEPT ![r].pane = pane, ![r].child = child]
  /\ machine /\ UNCHANGED <<holder, faults>>

\* tmux answers a request late: the session is there, and its wrapper.
CreatePane(r) == world[r].pane = "asked" /\ moved(r, "live", world[r].child)
\* The broker starts the reviewer stopped before its gate.
StartChild(r) ==
  world[r].pane = "live" /\ world[r].child = "none" /\ world[r].snap /\ moved(r, "live", "gated")
\* runReviewerPane writes who its child is.
RecordLaunch(r) ==
  /\ world[r].pane = "live" /\ world[r].child = "gated" /\ ~world[r].launch
  /\ world' = [world EXCEPT ![r].launch = TRUE]
  /\ machine /\ UNCHANGED <<holder, faults>>

ChildExit(r) ==
  /\ world[r].child = "working"
  /\ \E e \in Verdicts : world' = [world EXCEPT ![r].child = "dead", ![r].exit = e]
  /\ machine /\ UNCHANGED <<holder, faults>>
\* The broker writes that the group is gone before its session's pane dies.
Reap(r) ==
  /\ world[r].pane = "live" /\ world[r].child = "dead"
  /\ world' = [world EXCEPT ![r].pane = "dead", ![r].dead = TRUE]
  /\ machine /\ UNCHANGED <<holder, faults>>

\* A request tmux never serves; a session killed from outside, which takes a
\* gated child with it and leaves a working one without its broker.
LoseSession(r) ==
  /\ world[r].pane # "none" /\ faults < MaxFaults /\ faults' = faults + 1
  /\ world' = [world EXCEPT ![r].pane = "none",
                 ![r].child = IF @ = "gated" THEN "dead" ELSE @,
                 ![r].exit = IF world[r].child = "gated" THEN "failed" ELSE @]
  /\ machine /\ UNCHANGED holder

\* The issue's body, or the worker's head, changes.
Retarget ==
  /\ target < MaxTargets /\ target' = target + 1
  /\ UNCHANGED <<mode, ledger, world, holder, boots, faults>>
\* recordReconciliationObservation revokes a plan review of another body.
Revoke(r) ==
  /\ mode = "plan" /\ pending(ledger, r) /\ ledger.runs[r].target # target
  /\ ~ledger.runs[r].revoked
  /\ ledger' = [ledger EXCEPT !.runs[r].revoked = TRUE]
  /\ UNCHANGED <<world, holder>> /\ frame

\* A job whose effect is over, or whose key was cancelled with its target, leaves
\* at its next context or owner check.
over == CASE holder.job \in {"launch", "replay"} ->
               current(ledger, R) => mode = "implementation" /\ ledger.runs[R].target # target
          [] holder.job = "sweep" -> ~ledger.sweep
          [] OTHER -> FALSE
GiveUp == over /\ Leave /\ UNCHANGED <<ledger, world>> /\ frame

\* Only the ledger, the machine and the files live past the daemon.
Crash ==
  /\ boots < MaxBoots /\ boots' = boots + 1
  /\ holder' = Nobody
  /\ UNCHANGED <<mode, ledger, world, target, faults>>

LaunchStep == Clear \/ ForgetReviewerProof \/ Prepare \/ MarkReviewerSessionRequested
              \/ CreateSession
ReplayStep == ProveNeverRan \/ MarkPlanReviewRunning \/ ReleaseReviewer
              \/ SealReviewerResult \/ WriteMarker \/ FinishReconciliationEffect
EndStep    == StopReviewerSession \/ BindReviewerStopping \/ KillReviewer
              \/ ProveReviewerDead \/ MarkReviewerStopped \/ SupersedePlanReview
              \/ CleanReviewResources \/ FinishSweep \/ CleanAttemptResources
              \/ MarkReviewerResourcesCleaned \/ FinishStop
JobStep    == LaunchStep \/ ReplayStep \/ EndStep \/ GiveUp
Machine(r) == CreatePane(r) \/ StartChild(r) \/ RecordLaunch(r) \/ ChildExit(r) \/ Reap(r)

\* Once it is destroyed nothing happens to the attempt's reviews any more.
Gone == ledger.stop.state = "completed" /\ holder = Nobody /\ UNCHANGED vars

Next ==
  \/ BeginRun \/ PlanSweep \/ BeginSweep \/ Destroy \/ BeginStop
  \/ JobStep \/ Retarget \/ Crash \/ Gone
  \/ \E r \in Runs : Observe(r) \/ VerifyMarker(r) \/ BeginSupersede(r)
                     \/ Machine(r) \/ LoseSession(r) \/ Revoke(r)

Spec == Init /\ [][Next]_vars

\* Every scan and every cycle visits the effects again, so what can be begun again
\* and again is begun, a pending run in one of its three ways; a job runs on; tmux, the
\* wrapper and the reviewer move.
Revisit(r) == Observe(r) \/ VerifyMarker(r) \/ BeginSupersede(r)
Fairness ==
  /\ WF_vars(JobStep) /\ SF_vars(BeginStop \/ BeginSweep)
  /\ \A r \in Runs : SF_vars(Revisit(r)) /\ WF_vars(Revoke(r)) /\ WF_vars(Machine(r))
FairSpec == Spec /\ Fairness

-----------------------------------------------------------------------------
(* Properties *)

alive(r) == world[r].child \in {"gated", "working"}

\* At no time can two reviewers of one attempt be alive, whatever was superseded,
\* lost or started again between them.
NeverTwoReviewers == Cardinality({r \in Runs : alive(r)}) <= 1

\* A death certificate is the truth: of a bound run its child is dead, and of a
\* run that never ran there is no child, no session, and none on its way.
HonestProofs ==
  \A t \in Targets : LET p == ledger.proofs[t]  w == world[p.run] IN
    p.run # 0 => /\ p.dead /\ p.bound => w.child = "dead"
                 /\ p.never => w.child = "none" /\ w.pane = "none"

\* A reviewer that may be alive has its tree and its records, and works only once
\* the owner has its process on disk.
WorkIsKept ==
  \A r \in known(ledger) : /\ alive(r) => world[r].snap
                           /\ world[r].child = "working" => ledger.runs[r].bound

\* A verdict is the one the run's own process left when it ended, never one of
\* a run that was killed, lost or superseded.
VerdictFromItsRun ==
  \A r \in known(ledger) : ledger.runs[r].result \in {"clean", "findings"} =>
    world[r].child = "dead" /\ world[r].exit = ledger.runs[r].result

\* When the destructive effect is complete nothing of any run is left.
DestroyedClean ==
  ledger.stop.state = "completed" => \A r \in Runs : ~alive(r) /\ ~remains(r)

\* A review whose process the owner knows ends, unless its session was lost.
BoundReviewSettles ==
  \A r \in Runs : (pending(ledger, r) /\ ledger.runs[r].bound)
                    ~> (~pending(ledger, r) \/ faults > 0)

\* A Stop whose reviewer has no death certificate yet, or none to stop, and whose
\* attempt has a certificate of every kept file, completes. One that finds the
\* certificate its reviewer's own sealed result left does not: stopBoundReviewer
\* (operator_service_v2.go:1851) refuses it, each time.
stoppable ==
  /\ ledger.stop.state = "pending"
  /\ \/ ledger.stop.run = 0
     \/ ledger.stop.stopped
     \/ ledger.stop.bound /\ ~proofOf(ledger, ledger.stop.run).dead
  /\ \A t \in Targets : ledger.proofs[t].run \notin {0, ledger.stop.run} => authorized(ledger.proofs[t])
  /\ ledger.review.run # 0 => certified(ledger, ledger.review.run)
  /\ \A r \in known(ledger) : world[r].snap => certified(ledger, r)
StoppableSettles == stoppable ~> (ledger.stop.state = "completed" \/ faults > 0)
=============================================================================
