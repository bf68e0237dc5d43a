---------------------------- MODULE HandoffProofs ----------------------------
(***************************************************************************)
(* TLAPS proofs about Handoff, for any number of handoffs and of daemon    *)
(* starts.                                                                 *)
(***************************************************************************)
EXTENDS Handoff, FiniteSetTheorems, TLAPS

-----------------------------------------------------------------------------
(* The machine, field by field *)

pane      == host.pane
stage     == host.stage
brokers   == host.brokers
alive     == host.alive
delivered == host.delivered
proofs    == host.proofs
machine   == <<pane, stage, brokers, alive, delivered, proofs>>

\* The types of these fields and of what host processes name.
FieldsOK ==
  /\ stage \in [Launches -> Stages] /\ pane \in {Stray, Absent} \cup Launches
  /\ brokers \subseteq Launches /\ alive \subseteq Launches
  /\ delivered \subseteq Candidates
  /\ proofs \in [Candidates -> {NoProof, "kept", "removed"}]
  /\ \A b \in Boots : jobs[b].id \in Launches /\ jobs[b].old \in Launches
  /\ boots \in Boots /\ 0 \in Launches \ Candidates /\ Candidates \subseteq Launches
  /\ Absent \notin Launches /\ Stray \notin Launches /\ Absent # Stray
  /\ ledger.drawn \in Launches /\ ledger.launch \in Launches
  /\ ledger.effect.id \in Launches /\ ledger.effect.old \in Launches
  /\ lost.id \in Launches /\ lost.old \in Launches

-----------------------------------------------------------------------------
(* The invariant *)

\* Once an operator has ended the attempt its handoff is taken from it, and no
\* other is planned; the operator's request works on the one that was taken.
LedgerInv ==
  /\ ledger.effect # NoEffect => ledger.effect.id \in 1..ledger.drawn
  /\ lost # NoEffect => lost.id \in 1..ledger.drawn
  /\ ledger.phase = "none" => ledger.tomb = "none" /\ lost = NoEffect
  /\ ledger.phase # "none" =>
       ledger.effect = NoEffect /\ (ledger.tomb # "none" \/ ~ledger.certified)
  /\ ledger.phase = "completed" /\ ledger.tomb = "none" => ledger.state = "cancelled"
  /\ worker.pc # "idle" => ledger.phase # "none"
  /\ worker.pc \in {"look", "kill", "prove", "proved"} => lost # NoEffect
  /\ run.pc # "idle" => run.id \in 1..ledger.drawn

\* Each handoff has later work than the one before. While one may be planned,
\* what is queued has been given to none yet.
Unplanned == ledger.effect = NoEffect /\ Plannable
PromptInv ==
  /\ \A j \in 1..ledger.drawn :
       /\ ledger.works[j] <= ledger.queued
       /\ Unplanned => ledger.works[j] < ledger.queued
  /\ \A j, k \in 1..ledger.drawn : j < k => ledger.works[j] < ledger.works[k]

\* The candidate is behind its gate, or was.
Prepared(k) == stage[k] \in {"ready", "released"}

\* A launch is given its pane, binding and broker before the session can bear
\* another's; what the ledger names was released, what it certified is prepared.
StageInv ==
  /\ \A k \in Launches : stage[k] # "none" => k <= ledger.drawn
  /\ \A k \in Launches : stage[k] \in {"created", "bound"} => pane = k
  /\ stage[0] = "released" /\ stage[ledger.launch] = "released"
  /\ stage[ledger.effect.old] = "released"
  /\ stage[lost.old] = "released"
  /\ ledger.effect.certified => Prepared(ledger.effect.id)
  /\ lost.certified => Prepared(lost.id)
  /\ \A k \in delivered : stage[k] = "released"

\* What a host process has done so far, an orphan of an earlier start included.
\* Of two that prepare one launch, one has made its pane.
Making(b) == jobs[b].op = "prepare" /\ jobs[b].pc \in {"bind", "broker"}
MadeBy(b, s) ==
  IF pane = jobs[b].id THEN stage[jobs[b].id] = s
  ELSE Prepared(jobs[b].id)
JobOK(b) ==
  /\ b > boots => jobs[b] = NoJob
  /\ jobs[b].op # "none" => jobs[b].id \in 1..ledger.drawn
  /\ stage[jobs[b].old] = "released"
  /\ jobs[b].op = "release" => Prepared(jobs[b].id)
  /\ At(b, "release", "mark") => stage[jobs[b].id] = "released"
  /\ At(b, "prepare", "done") => Prepared(jobs[b].id)
  /\ At(b, "prepare", "kill") => jobs[b].old \notin brokers
  /\ At(b, "prepare", "bind") => MadeBy(b, "created")
  /\ At(b, "prepare", "broker") => MadeBy(b, "bound")
\* The daemon waits for its own process.
Linked ==
  run.pc \in {"prepare", "release"} => jobs[boots].op = run.pc /\ jobs[boots].id = run.id
JobInv ==
  /\ \A b \in Boots : JobOK(b)
  /\ \A b, c \in Boots :
       b # c /\ Making(b) /\ Making(c) /\ jobs[b].id = jobs[c].id
         => pane # jobs[b].id
  /\ Linked

\* The owner answers for launch k.
Owned(k) ==
  \/ k = ledger.launch
  \/ k = ledger.effect.id /\ ledger.effect.certified
  \/ k = lost.id /\ lost.certified /\ proofs[k] = NoProof

\* A worker at work has a broker, a broker has the session's pane; a process
\* that may release a launch works for the owner or finds no broker.
Ended == ledger.phase = "completed" /\ ledger.tomb # "dismissed"
Answered(k) == Owned(k) /\ ~Ended
ProvedGone == worker.pc = "prove" /\ lost.certified => lost.id \notin brokers
Unproved   == ledger.phase = "none" => \A k \in Candidates : proofs[k] = NoProof
WorkerInv ==
  /\ alive \subseteq brokers
  /\ \A k \in brokers : k = pane
  /\ \A k \in alive : Answered(k)
  /\ \A b \in Boots, k \in brokers :
       jobs[b].op = "release" /\ jobs[b].id = k => Answered(k)
  /\ ProvedGone /\ Unproved

HandoffInv ==
  TypeOK /\ LedgerInv /\ PromptInv /\ StageInv /\ JobInv /\ WorkerInv

-----------------------------------------------------------------------------
(* Each part is preserved *)

\* The fields have their types.
LEMMA FieldTypes ==
  ASSUME TypeOK
  PROVE  FieldsOK
<1>1. /\ 0 \in Launches \ Candidates /\ Candidates \subseteq Launches
      /\ Absent \notin Launches /\ Stray \notin Launches /\ Absent # Stray
      /\ Launches = 0..MaxHandoffs
  BY HandoffAssumption DEF Launches, Candidates, Absent, Stray
<1>2. /\ stage \in [Launches -> Stages] /\ pane \in {Stray, Absent} \cup Launches
      /\ brokers \subseteq Launches /\ alive \subseteq Launches
      /\ delivered \subseteq Candidates
      /\ proofs \in [Candidates -> {NoProof, "kept", "removed"}]
  BY DEF TypeOK, Host, pane, stage, brokers, alive, delivered, proofs
<1>3. /\ \A b \in Boots : jobs[b].id \in Launches /\ jobs[b].old \in Launches
      /\ boots \in Boots
  BY <1>1 DEF TypeOK, Job
<1>4. /\ ledger.drawn \in Launches /\ ledger.launch \in Launches
      /\ ledger.effect \in Effects /\ lost \in Effects
  BY <1>1 DEF TypeOK, Ledger, lost
<1>5. \A e \in Effects : e.id \in Launches /\ e.old \in Launches
  BY <1>1 DEF Effects
<1>. QED  BY <1>1, <1>2, <1>3, <1>4, <1>5 DEF FieldsOK

\* A host process changes the machine and its own progress, nothing else.
LEMMA HostStep ==
  ASSUME NEW b \in Boots, PrepareStep(b) \/ ReleaseStep(b)
  PROVE  UNCHANGED <<ledger, run, worker, closed, boots>>
BY DEF PrepareStep, PrepareLook, PrepareKeep, PrepareStop, PrepareKill,
   PrepareCreate,
     PrepareBind, PrepareBroker, ReleaseStep, ReleaseCheck, ReleaseOpen, ReleaseMark,
     ReleaseReceipt, Step, Returns

\* A step of one host process is none of another's; an orphan's answer is lost.
LEMMA StepEffect ==
  ASSUME TypeOK, NEW b \in Boots, NEW pc, Step(b, pc)
  PROVE  /\ \A c \in Boots : c # b => jobs'[c] = jobs[c]
         /\ \/ jobs'[b] = NoJob /\ b # boots
            \/ /\ jobs'[b].op = jobs[b].op /\ jobs'[b].id = jobs[b].id
               /\ jobs'[b].old = jobs[b].old /\ jobs'[b].pc = pc
<1>1. CASE pc \in {"done", "failed"} /\ b < boots
  BY <1>1, HandoffAssumption DEF TypeOK, Step, Boots
<1>2. CASE ~(pc \in {"done", "failed"} /\ b < boots)
  BY <1>2 DEF TypeOK, Job, Step
<1>. QED  BY <1>1, <1>2

\* These steps of a host process leave the machine as it is.
LEMMA StillEffect ==
  ASSUME TypeOK, NEW b \in Boots,
         PrepareLook(b) \/ PrepareKeep(b) \/ ReleaseCheck(b) \/ ReleaseReceipt(b)
  PROVE  UNCHANGED machine
BY DEF TypeOK, Host, machine, pane, stage, brokers, alive, delivered, proofs, At,
     Step, Returns, PrepareLook, PrepareKeep, ReleaseCheck, ReleaseReceipt

\* The old worker's broker is stopped, unless the session bears another pane.
LEMMA StopEffect ==
  ASSUME TypeOK, NEW b \in Boots, PrepareStop(b)
  PROVE  \/ UNCHANGED machine /\ pane \notin {jobs[b].old, Absent}
         \/ /\ pane \in {jobs[b].old, Absent}
            /\ brokers' = brokers \ {jobs[b].old} /\ alive' = alive \ {jobs[b].old}
            /\ UNCHANGED <<pane, stage, delivered, proofs>>
BY DEF TypeOK, Host, machine, pane, stage, brokers, alive, delivered, proofs, At,
     Step, Returns, PrepareStop, BrokerStopped

\* The old pane is killed, unless it is not the session's any more.
LEMMA KillEffect ==
  ASSUME TypeOK, NEW b \in Boots, PrepareKill(b)
  PROVE  \/ UNCHANGED machine /\ pane # jobs[b].old
         \/ /\ pane = jobs[b].old /\ pane' = Absent
            /\ UNCHANGED <<stage, brokers, alive, delivered, proofs>>
BY DEF TypeOK, Host, machine, pane, stage, brokers, alive, delivered, proofs, At,
     Step, Returns, PrepareKill

\* The candidate's pane is made when the session's name is free, once.
LEMMA CreateEffect ==
  ASSUME TypeOK, NEW b \in Boots, PrepareCreate(b)
  PROVE  \/ UNCHANGED machine /\ pane # Absent
         \/ /\ pane = Absent /\ pane' = Stray
            /\ stage[jobs[b].id] \in {"bound", "ready", "released"}
            /\ UNCHANGED <<stage, brokers, alive, delivered, proofs>>
         \/ /\ pane = Absent /\ pane' = jobs[b].id
            /\ stage[jobs[b].id] \notin {"bound", "ready", "released"}
            /\ stage' = [stage EXCEPT ![jobs[b].id] = "created"]
            /\ UNCHANGED <<brokers, alive, delivered, proofs>>
<1>. DEFINE k == jobs[b].id
<1>a. host \in Host /\ k \in Launches
  BY DEF TypeOK, Job, Launches
<1>1. CASE host.pane # Absent
  BY <1>1, <1>a DEF Host, machine, pane, stage, brokers, alive, delivered, proofs,
     Returns, PrepareCreate
<1>2. CASE host.pane = Absent /\ Bound(k)
  <2>1. host' = [host EXCEPT !.pane = Stray]
    BY <1>2 DEF PrepareCreate
  <2>. QED
    BY <1>2, <1>a, <2>1 DEF Host, pane, stage, brokers, alive, delivered, proofs, Bound
<1>3. CASE host.pane = Absent /\ ~Bound(k)
  <2>1. host' = [host EXCEPT !.pane = k, !.stage[k] = "created"]
    BY <1>3 DEF PrepareCreate
  <2>. QED
    BY <1>3, <1>a, <2>1 DEF Host, pane, stage, brokers, alive, delivered, proofs, Bound
<1>. QED  BY <1>1, <1>2, <1>3

\* The candidate's pane gets its binding while it bears the session's name.
LEMMA BindEffect ==
  ASSUME TypeOK, NEW b \in Boots, PrepareBind(b)
  PROVE  \/ UNCHANGED machine /\ pane # jobs[b].id
         \/ /\ pane = jobs[b].id /\ stage' = [stage EXCEPT ![jobs[b].id] = "bound"]
            /\ UNCHANGED <<pane, brokers, alive, delivered, proofs>>
BY DEF TypeOK, Host, machine, pane, stage, brokers, alive, delivered, proofs, At,
     Step, Returns, PrepareBind

\* The candidate gets its broker while its pane bears the session's name.
LEMMA BrokerEffect ==
  ASSUME TypeOK, NEW b \in Boots, PrepareBroker(b)
  PROVE  \/ UNCHANGED machine /\ pane # jobs[b].id
         \/ /\ pane = jobs[b].id /\ stage' = [stage EXCEPT ![jobs[b].id] = "ready"]
            /\ brokers' = brokers \cup {jobs[b].id}
            /\ UNCHANGED <<pane, alive, delivered, proofs>>
BY DEF TypeOK, Host, machine, pane, stage, brokers, alive, delivered, proofs, At,
     Step, Returns, PrepareBroker

\* The broker lets the candidate run, and the worker is at work if it did not before.
LEMMA OpenEffect ==
  ASSUME TypeOK, NEW b \in Boots, ReleaseOpen(b)
  PROVE  \/ UNCHANGED machine /\ jobs[b].id \notin brokers
         \/ /\ jobs[b].id \in brokers /\ stage' = [stage EXCEPT ![jobs[b].id] = "released"]
            /\ alive' = IF stage[jobs[b].id] = "ready" THEN alive \cup {jobs[b].id} ELSE alive
            /\ UNCHANGED <<pane, brokers, delivered, proofs>>
BY DEF TypeOK, Host, machine, pane, stage, brokers, alive, delivered, proofs, At,
     Step, Returns, ReleaseOpen

\* The prompt is marked as delivered in the candidate's own pane.
LEMMA MarkEffect ==
  ASSUME TypeOK, NEW b \in Boots, ReleaseMark(b)
  PROVE  \/ UNCHANGED machine /\ pane # jobs[b].id
         \/ /\ pane = jobs[b].id /\ delivered' = delivered \cup {jobs[b].id}
            /\ UNCHANGED <<pane, stage, brokers, alive, proofs>>
BY DEF TypeOK, Host, machine, pane, stage, brokers, alive, delivered, proofs, At,
     Step, Returns, ReleaseMark

\* What an operator's request does to the machine.
LEMMA LookEffect ==
  ASSUME TypeOK, CompensateLook
  PROVE  \/ UNCHANGED machine /\ ~(lost.certified /\ worker'.pc = "prove")
         \/ /\ lost.certified /\ pane \in {lost.id, Absent}
            /\ brokers' = brokers \ {lost.id} /\ alive' = alive \ {lost.id}
            /\ UNCHANGED <<pane, stage, delivered, proofs>>
<1>1. CASE /\ UNCHANGED host
           /\ ~(lost.certified /\ proofs[lost.id] = NoProof /\ pane \in {lost.id, Absent})
  BY <1>1 DEF TypeOK, Host, Worker, machine, pane, stage, brokers, alive, delivered,
     proofs, CompensateLook, Do, Rest, Resting
<1>2. CASE /\ lost.certified /\ host.pane \in {lost.id, Absent}
           /\ host' = BrokerStopped(lost.id)
  BY <1>2 DEF TypeOK, Host, machine, pane, stage, brokers, alive, delivered, proofs,
     BrokerStopped
<1>. QED  BY <1>1, <1>2 DEF CompensateLook, pane, proofs

\* The pane of the certified candidate, or of the worker it was to replace.
LEMMA CompensationEffect ==
  ASSUME TypeOK, CompensateKill
  PROVE  LET k == IF lost.certified THEN lost.id ELSE lost.old IN
         \/ UNCHANGED machine /\ worker' = Resting
         \/ /\ pane = k /\ pane' = Absent
            /\ brokers' = brokers \ {k} /\ alive' = alive \ {k}
            /\ worker'.pc = "prove" => lost.certified
            /\ UNCHANGED <<stage, delivered, proofs>>
<1>. DEFINE k == IF lost.certified THEN lost.id ELSE lost.old
<1>1. CASE host.pane # k
  BY <1>1 DEF TypeOK, Host, machine, pane, stage, brokers, alive, delivered, proofs,
     CompensateKill, Rest
<1>2. CASE host.pane = k
  <2>1. host' = [BrokerStopped(k) EXCEPT !.pane = Absent]
    BY <1>2 DEF CompensateKill
  <2>2. /\ pane = k /\ pane' = Absent
        /\ brokers' = brokers \ {k} /\ alive' = alive \ {k}
        /\ UNCHANGED <<stage, delivered, proofs>>
    <3>. HIDE DEF k
    <3>. QED  BY <1>2, <2>1 DEF TypeOK, Host, pane, stage, brokers, alive,
         delivered,
                 proofs, BrokerStopped
  <2>3. worker'.pc = "prove" => lost.certified
    BY <1>2 DEF TypeOK, Worker, CompensateKill, Do, Rest, Resting
  <2>. QED  BY <2>2, <2>3
<1>. QED  BY <1>1, <1>2

\* The proof is written once the candidate is known to be gone.
LEMMA ProofEffect ==
  ASSUME TypeOK, CompensateProve
  PROVE  /\ UNCHANGED <<pane, stage, brokers, alive, delivered>>
         /\ \E p \in {"kept", "removed"} : proofs' = [proofs EXCEPT ![lost.id] = p]
BY DEF TypeOK, Host, pane, stage, brokers, alive, delivered, proofs,
   CompensateProve, Do, ProofOf

\* The ledger's own worker is stopped with its session.
LEMMA WorkEffect ==
  ASSUME TypeOK, Work
  PROVE  \/ UNCHANGED <<ledger, machine>>
         \/ ledger' = Settled /\ ledger.tomb = "dismissed" /\ UNCHANGED machine
         \/ /\ ledger' = Settled /\ pane \in {ledger.launch, Absent} /\ pane' = Absent
            /\ brokers' = brokers \ {ledger.launch} /\ alive' = alive \ {ledger.launch}
            /\ UNCHANGED <<stage, delivered, proofs>>
BY DEF TypeOK, Host, machine, pane, stage, brokers, alive, delivered, proofs,
   Work, BrokerStopped

\* The worker that has ended leaves its broker behind.
LEMMA CompletesEffect ==
  ASSUME TypeOK, WorkerCompletes
  PROVE  /\ alive' = alive \ {ledger.launch}
         /\ UNCHANGED <<pane, stage, brokers, delivered, proofs>>
BY DEF TypeOK, Host, pane, stage, brokers, alive, delivered, proofs, WorkerCompletes

\* What is not a step on the machine leaves it alone.
LEMMA OtherEffect ==
  ASSUME TypeOK,
         \/ UNCHANGED host
         \/ \E k \in Candidates : KeeperExpires(k)
  PROVE  UNCHANGED machine
BY DEF TypeOK, Host, machine, pane, stage, brokers, alive, delivered, proofs,
   KeeperExpires

\* A request that is done moves the phase, and a cancelled attempt's state.
LEMMA SettledShape ==
  ASSUME ledger \in Ledger
  PROVE  \E s \in States :
           /\ Settled = [ledger EXCEPT !.phase = "completed", !.state = s]
           /\ ledger.tomb = "none" => s = "cancelled"
<1>1. CASE ledger.tomb = "none"
  BY <1>1 DEF Settled, States, Ledger
<1>2. CASE ledger.tomb # "none"
  BY <1>2 DEF Settled, States, Ledger
<1>. QED  BY <1>1, <1>2

\* It changes nothing else.
LEMMA SettledKeeps ==
  ASSUME ledger \in Ledger
  PROVE  /\ Settled.launch = ledger.launch /\ Settled.drawn = ledger.drawn
         /\ Settled.effect = ledger.effect /\ Settled.invalidated = ledger.invalidated
         /\ Settled.tomb = ledger.tomb /\ Settled.phase = "completed"
BY SettledShape DEF Ledger

\* A finished handoff makes its candidate the attempt's launch.
LEMMA DeliveredShape ==
  ASSUME ledger \in Ledger
  PROVE  \E s \in States :
           Delivered = [ledger EXCEPT !.launch = run.id, !.effect = NoEffect,
                                      !.due = "none", !.state = s]
<1>1. CASE ledger.effect.kind = "review-findings"
  BY <1>1 DEF Delivered, States, Ledger
<1>2. CASE ledger.effect.kind # "review-findings"
  BY <1>2 DEF Delivered, States, Ledger
<1>. QED  BY <1>1, <1>2

\* The certificate is the only change of a handoff under way.
LEMMA CertifyShape ==
  ASSUME ledger \in Ledger, ledger.effect # NoEffect
  PROVE  \E e \in Effects :
           /\ [ledger EXCEPT !.effect.certified = TRUE] = [ledger EXCEPT !.effect = e]
           /\ e.id = ledger.effect.id /\ e.old = ledger.effect.old /\ e.certified
           /\ e.seen = ledger.effect.seen /\ e # NoEffect
<1>. DEFINE e == [ledger.effect EXCEPT !.certified = TRUE]
<1>1. e \in Effects /\ e.id = ledger.effect.id /\ e.old = ledger.effect.old
      /\ e.certified /\ e.seen = ledger.effect.seen /\ e # NoEffect
  BY DEF Ledger, Effects, NoEffect
<1>2. [ledger EXCEPT !.effect.certified = TRUE] = [ledger EXCEPT !.effect = e]
  BY DEF Ledger
<1>. QED  BY <1>1, <1>2

\* The record of a compensation moves the phase only.
LEMMA CommitKeeps ==
  ASSUME ledger \in Ledger, CompensateCommit
  PROVE  /\ ledger'.launch = ledger.launch /\ ledger'.drawn = ledger.drawn
         /\ ledger'.effect = ledger.effect /\ ledger'.invalidated = ledger.invalidated
         /\ ledger'.tomb = ledger.tomb
         /\ ledger'.phase = "completed" => ledger.phase = "completed"
         /\ ledger'.phase = "none" => ledger.phase = "none"
<1>1. CASE ledger.phase = "handoff-cleanup"
  BY <1>1 DEF CompensateCommit, Ledger
<1>2. CASE ledger.phase # "handoff-cleanup"
  BY <1>2 DEF CompensateCommit
<1>. QED  BY <1>1, <1>2

\* A launch that was drawn stays drawn.
LEMMA DrawnGrows ==
  ASSUME TypeOK, [Next]_vars
  PROVE  \A k \in 1..ledger.drawn : k \in 1..ledger'.drawn
<1>a. ledger \in Ledger
  BY DEF TypeOK
<1>. USE <1>a
<1>1. ASSUME WorkerCompletes PROVE ledger'.drawn = ledger.drawn
  BY <1>1 DEF WorkerCompletes, NoEffect, Ledger, Effects
<1>2. ASSUME NEW kind \in Kinds, WorkArrives(kind)
      PROVE ledger'.drawn = ledger.drawn
  BY <1>2 DEF WorkArrives, Ledger, Effects
<1>3. ASSUME Certify PROVE ledger'.drawn = ledger.drawn
  BY <1>3 DEF Certify, Current, Call, Ledger, Effects
<1>4. ASSUME Confirm PROVE ledger'.drawn = ledger.drawn
  BY <1>4, DeliveredShape DEF Confirm, Ledger, Effects
<1>5. ASSUME Cancel PROVE ledger'.drawn = ledger.drawn
  BY <1>5 DEF Cancel, Invalidated, Interrupted, Ledger, Effects
<1>6. ASSUME NEW tomb \in {"dismissed", "archived"}, Discard(tomb)
      PROVE ledger'.drawn = ledger.drawn
  BY <1>6 DEF Discard, Invalidated, Interrupted, Ledger, Effects
<1>7. ASSUME Dispatch PROVE ledger'.drawn = ledger.drawn
  BY <1>7, SettledKeeps DEF Dispatch, Ledger, Effects
<1>8. ASSUME CompensateCommit PROVE ledger'.drawn = ledger.drawn
  BY <1>8, CommitKeeps DEF CompensateCommit, Ledger, Effects
<1>9. ASSUME Work PROVE ledger'.drawn = ledger.drawn
  BY <1>9, WorkEffect, SettledKeeps DEF Work, Ledger, Effects
<1>10. ASSUME PlanAndBegin PROVE ledger'.drawn = ledger.drawn + 1
  BY <1>10 DEF PlanAndBegin, Ledger
<1>11. ASSUME NEW b \in Boots, PrepareStep(b) \/ ReleaseStep(b)
       PROVE  ledger'.drawn = ledger.drawn
  BY <1>11, HostStep
<1>12. ASSUME \/ IssueCloses \/ Restart \/ Resume \/ Verify \/ CallReturns \/ CallDies
              \/ CompensateLook \/ CompensateKill \/ CompensateProve \/ UNCHANGED vars
              \/ \E k \in Candidates : KeeperExpires(k)
       PROVE  ledger'.drawn = ledger.drawn
  BY <1>12 DEF IssueCloses, Restart, Resume, Verify, CallReturns, CallDies,
     KeeperExpires,
     CompensateLook, CompensateKill, CompensateProve, vars
<1>13. ledger'.drawn = ledger.drawn \/ ledger'.drawn = ledger.drawn + 1
  BY <1>1, <1>2, <1>3, <1>4, <1>5, <1>6, <1>7, <1>8, <1>9, <1>10, <1>11, <1>12
     DEF Next, RunStep, WorkerStep
<1>. QED  BY <1>13, HandoffAssumption DEF Ledger

\* The owner takes one handoff at a time, and none once an operator ended it.
LEMMA LedgerStep ==
  ASSUME HandoffInv, [Next]_vars
  PROVE  LedgerInv'
<1>a. TypeOK /\ LedgerInv
  BY DEF HandoffInv
<1>. USE <1>a DEF TypeOK, LedgerInv, Ledger, Effects, Run, Worker, lost, NoEffect,
     NoRun, NoJob, Resting
<1>1. ASSUME NEW b \in Boots, PrepareStep(b) \/ ReleaseStep(b) PROVE LedgerInv'
  BY <1>1, HostStep
<1>2. CASE WorkerCompletes
  BY <1>2 DEF WorkerCompletes, NoEffect
<1>3. CASE IssueCloses
  BY <1>3 DEF IssueCloses
<1>4. CASE Restart
  BY <1>4 DEF Restart
<1>5. ASSUME NEW kind \in Kinds, WorkArrives(kind) PROVE LedgerInv'
  BY <1>5 DEF WorkArrives
<1>6. ASSUME NEW k \in Candidates, KeeperExpires(k) PROVE LedgerInv'
  BY <1>6 DEF KeeperExpires
<1>7. CASE PlanAndBegin
  BY <1>7 DEF PlanAndBegin, Plannable
<1>8. CASE Resume
  BY <1>8 DEF Resume
<1>9. CASE Verify
  BY <1>9 DEF Verify, Replaced, Bound, Current, Applied, Call
<1>10. CASE Certify
  <2>1. CASE Current(run.id)
    <3>1. ledger.effect # NoEffect
      BY <2>1, <1>10 DEF Certify, Current
    <3>2. PICK e \in Effects :
            /\ ledger' = [ledger EXCEPT !.effect = e] /\ e.id = ledger.effect.id
            /\ e.old = ledger.effect.old /\ e.certified /\ e # NoEffect
      BY <2>1, <3>1, <1>10, CertifyShape DEF Certify
    <3>. QED  BY <2>1, <3>1, <3>2, <1>10 DEF Certify, Current, Call
  <2>2. CASE ~Current(run.id)
    BY <2>2, <1>10 DEF Certify
  <2>. QED  BY <2>1, <2>2
<1>11. CASE CallReturns
  BY <1>11 DEF CallReturns
<1>12. CASE Confirm
  <2>1. CASE Applied(run.id) /\ Current(run.id)
    <3>1. PICK s \in States :
            ledger' = [ledger EXCEPT !.launch = run.id, !.effect = NoEffect,
                                     !.due = "none", !.state = s]
      BY <2>1, <1>12, DeliveredShape DEF Confirm
    <3>. QED  BY <2>1, <3>1, <1>12 DEF Confirm, Current
  <2>2. CASE ~(Applied(run.id) /\ Current(run.id))
    BY <2>2, <1>12 DEF Confirm
  <2>. QED  BY <2>1, <2>2
<1>13. CASE CallDies
  BY <1>13 DEF CallDies
<1>14. CASE Cancel
  BY <1>14 DEF Cancel, Invalidated, Interrupted
<1>15. ASSUME NEW tomb \in {"dismissed", "archived"}, Discard(tomb) PROVE LedgerInv'
  BY <1>15 DEF Discard, Invalidated, Interrupted
<1>16. CASE Dispatch
  <2>1. CASE ledger' = Settled /\ UNCHANGED worker
    <3>1. PICK s \in States :
            /\ ledger' = [ledger EXCEPT !.phase = "completed", !.state = s]
            /\ ledger.tomb = "none" => s = "cancelled"
      BY <2>1, SettledShape
    <3>. QED  BY <2>1, <3>1, <1>16 DEF Dispatch, Pending
  <2>2. CASE UNCHANGED ledger
    BY <2>2, <1>16 DEF Dispatch, Pending
  <2>. QED  BY <2>1, <2>2, <1>16 DEF Dispatch
<1>17. CASE CompensateLook
  BY <1>17 DEF CompensateLook, Do, Rest, ProofOf, BrokerStopped, Bound
<1>18. CASE CompensateKill
  BY <1>18 DEF CompensateKill, Do, Rest, BrokerStopped
<1>19. CASE CompensateProve
  BY <1>19 DEF CompensateProve, Do, ProofOf
<1>20. CASE CompensateCommit
  <2>1. CASE ledger.phase = "handoff-cleanup"
    <3>1. /\ ledger' = [ledger EXCEPT !.compensated = TRUE, !.phase = "cleanup-pending"]
          /\ worker' = Resting /\ UNCHANGED run
      BY <1>20, <2>1 DEF CompensateCommit, Rest
    <3>2. worker.pc = "proved"
      BY <1>20 DEF CompensateCommit
    <3>. QED  BY <2>1, <3>1, <3>2
  <2>2. CASE ledger.phase # "handoff-cleanup"
    BY <1>20, <2>2 DEF CompensateCommit, Do
  <2>. QED  BY <2>1, <2>2
<1>21. CASE Work
  <2>1. CASE ledger' = Settled
    <3>1. PICK s \in States :
            /\ ledger' = [ledger EXCEPT !.phase = "completed", !.state = s]
            /\ ledger.tomb = "none" => s = "cancelled"
      BY <2>1, SettledShape
    <3>. QED  BY <2>1, <3>1, <1>21 DEF Work, Rest
  <2>2. CASE UNCHANGED ledger
    BY <2>2, <1>21 DEF Work, Rest
  <2>. QED  BY <2>1, <2>2, <1>21 DEF Work
<1>22. CASE UNCHANGED vars
  BY <1>22 DEF vars
<1>. HIDE <1>a DEF LedgerInv
<1>. QED
  BY <1>1, <1>2, <1>3, <1>4, <1>5, <1>6, <1>7, <1>8, <1>9, <1>10,
     <1>11, <1>12, <1>13, <1>14, <1>15, <1>16, <1>17, <1>18, <1>19,
     <1>20, <1>21, <1>22
  DEF Next, RunStep, WorkerStep, PrepareStep, ReleaseStep

\* A handoff takes what no earlier one took.
LEMMA PromptStep ==
  ASSUME HandoffInv, [Next]_vars
  PROVE  PromptInv'
<1>a. TypeOK /\ LedgerInv /\ PromptInv
  BY DEF HandoffInv
<1>. USE <1>a DEF Candidates, TypeOK, LedgerInv, PromptInv, Unplanned, Plannable,
     Ledger, Effects, Run, Worker, lost, NoEffect, NoRun, NoJob, Resting
<1>b. /\ ledger.drawn \in 0..MaxHandoffs /\ ledger.queued \in Nat
      /\ ledger.works \in [Candidates -> Nat] /\ MaxHandoffs \in Nat
  BY HandoffAssumption
<1>c. PromptInv
  BY <1>a
<1>1. ASSUME NEW b \in Boots, PrepareStep(b) \/ ReleaseStep(b) PROVE PromptInv'
  BY <1>1, HostStep
<1>2. CASE WorkerCompletes
  BY <1>2 DEF WorkerCompletes, NoEffect
<1>3. CASE IssueCloses
  BY <1>3 DEF IssueCloses
<1>4. CASE Restart
  BY <1>4 DEF Restart
<1>5. ASSUME NEW kind \in Kinds, WorkArrives(kind) PROVE PromptInv'
  <2>1. /\ ledger'.works = ledger.works /\ ledger'.drawn = ledger.drawn
        /\ ledger'.queued = ledger.queued + 1
    BY <1>5 DEF WorkArrives
  <2>2. \A j \in 1..ledger.drawn :
          /\ ledger.works[j] \in Nat /\ ledger.works[j] <= ledger.queued
          /\ ledger.works[j] < ledger.queued + 1
    <3>. HIDE <1>a DEF Ledger, Effects, TypeOK, LedgerInv, Plannable, Unplanned
    <3>1. \A j \in 1..ledger.drawn : ledger.works[j] \in Nat
      BY <1>b
    <3>2. \A j \in 1..ledger.drawn : ledger.works[j] <= ledger.queued
      BY <1>c
    <3>. QED  BY <1>b, <3>1, <3>2
  <2>. QED
    <3>. HIDE <1>a DEF Ledger, Effects, TypeOK, LedgerInv, Plannable, Unplanned
    <3>. QED  BY <1>b, <1>c, <2>1, <2>2
<1>6. ASSUME NEW k \in Candidates, KeeperExpires(k) PROVE PromptInv'
  BY <1>6 DEF KeeperExpires
<1>7. CASE PlanAndBegin
  <2>1. /\ ledger.drawn + 1 \in Candidates /\ Unplanned
        /\ ledger'.works = [ledger.works EXCEPT ![ledger.drawn + 1] = ledger.queued]
        /\ ledger'.drawn = ledger.drawn + 1 /\ ledger'.queued = ledger.queued
        /\ ledger'.effect.id = ledger.drawn + 1
    <3>1. /\ Unplanned /\ ledger.drawn < MaxHandoffs
          /\ ledger' = [ledger EXCEPT
               !.drawn = ledger.drawn + 1,
               !.works[ledger.drawn + 1] = ledger.queued,
               !.effect = [id |-> ledger.drawn + 1, kind |-> ledger.due,
                           old |-> ledger.launch, seen |-> closed, certified |-> FALSE]]
      BY <1>7 DEF PlanAndBegin
    <3>. QED  BY <1>b, <3>1, HandoffAssumption
  <2>2. ~Unplanned'
    BY <1>b, <2>1
  <2>. QED
    <3>. HIDE <1>a DEF Ledger, Effects, TypeOK, LedgerInv, Plannable, Unplanned
    <3>1. ASSUME NEW j \in 1..ledger'.drawn
          PROVE  ledger'.works[j] <= ledger'.queued
      <4>1. CASE j = ledger.drawn + 1
        <5>1. j \in Candidates
          BY <1>b, <2>1, <4>1
        <5>. QED  BY <1>b, <2>1, <4>1, <5>1
      <4>2. CASE j # ledger.drawn + 1
        <5>1. j \in 1..ledger.drawn /\ j \in Candidates
          BY <1>b, <2>1, <4>2
        <5>2. ledger'.works[j] = ledger.works[j] /\ ledger.works[j] <= ledger.queued
          BY <1>c, <2>1, <4>2, <5>1
        <5>. QED  BY <2>1, <5>2
      <4>. QED  BY <4>1, <4>2
    <3>2. ASSUME NEW j \in 1..ledger'.drawn, NEW k \in 1..ledger'.drawn, j < k
          PROVE  ledger'.works[j] < ledger'.works[k]
      <4>1. /\ j \in 1..ledger.drawn /\ j \in Candidates /\ k \in Candidates
            /\ ledger'.works[j] = ledger.works[j]
        <5>1. j \in 1..ledger.drawn /\ j \in Candidates /\ k \in Candidates
          BY <1>b, <2>1, <3>2
        <5>. QED  BY <1>b, <2>1, <5>1
      <4>2. CASE k = ledger.drawn + 1
        BY <1>b, <1>c, <2>1, <4>1, <4>2
      <4>3. CASE k # ledger.drawn + 1
        <5>1. k \in 1..ledger.drawn
          BY <1>b, <2>1, <4>1, <4>3
        <5>2. ledger'.works[k] = ledger.works[k]
          BY <2>1, <4>1, <4>3
        <5>. QED  BY <1>c, <3>2, <4>1, <5>1, <5>2
      <4>. QED  BY <4>2, <4>3
    <3>. QED  BY <2>2, <3>1, <3>2
<1>8. CASE Resume
  BY <1>8 DEF Resume
<1>9. CASE Verify
  BY <1>9 DEF Verify, Replaced, Bound, Current, Applied, Call
<1>10. CASE Certify
  <2>1. CASE Current(run.id)
    <3>1. ledger.effect # NoEffect
      BY <2>1, <1>10 DEF Certify, Current
    <3>2. PICK e \in Effects : ledger' = [ledger EXCEPT !.effect = e] /\ e # NoEffect
      <4>1. ledger \in Ledger /\ ledger' = [ledger EXCEPT !.effect.certified = TRUE]
        BY <2>1, <1>10 DEF Certify
      <4>. HIDE <1>a, <1>b DEF Ledger, Effects, NoEffect
      <4>. QED  BY <3>1, <4>1, CertifyShape
    <3>. QED  BY <3>1, <3>2
  <2>2. CASE ~Current(run.id)
    BY <2>2, <1>10 DEF Certify
  <2>. QED  BY <2>1, <2>2
<1>11. CASE CallReturns
  BY <1>11 DEF CallReturns
<1>12. CASE Confirm
  BY <1>12 DEF Confirm, Applied, Bound, Current, Delivered
<1>13. CASE CallDies
  BY <1>13 DEF CallDies
<1>14. CASE Cancel
  BY <1>14 DEF Cancel, Invalidated, Interrupted
<1>15. ASSUME NEW tomb \in {"dismissed", "archived"}, Discard(tomb) PROVE PromptInv'
  BY <1>15 DEF Discard, Invalidated, Interrupted
<1>16. CASE Dispatch
  <2>1. CASE ledger' = Settled /\ UNCHANGED worker
    <3>1. PICK s \in States :
            /\ ledger' = [ledger EXCEPT !.phase = "completed", !.state = s]
            /\ ledger.tomb = "none" => s = "cancelled"
      BY <2>1, SettledShape
    <3>. QED  BY <2>1, <3>1, <1>16 DEF Dispatch, Pending
  <2>2. CASE UNCHANGED ledger
    BY <2>2, <1>16 DEF Dispatch, Pending
  <2>. QED  BY <2>1, <2>2, <1>16 DEF Dispatch
<1>17. CASE CompensateLook
  BY <1>17 DEF CompensateLook, Do, Rest, ProofOf, BrokerStopped, Bound
<1>18. CASE CompensateKill
  BY <1>18 DEF CompensateKill, Do, Rest, BrokerStopped
<1>19. CASE CompensateProve
  BY <1>19 DEF CompensateProve, Do, ProofOf
<1>20. CASE CompensateCommit
  <2>1. /\ ledger'.works = ledger.works /\ ledger'.drawn = ledger.drawn
        /\ ledger'.queued = ledger.queued /\ Unplanned' = Unplanned
    <3>1. CASE ledger.phase = "handoff-cleanup"
      <4>1. ledger' = [ledger EXCEPT !.compensated = TRUE, !.phase = "cleanup-pending"]
        BY <1>20, <3>1 DEF CompensateCommit
      <4>. QED  BY <4>1
    <3>2. CASE ledger.phase # "handoff-cleanup"
      BY <1>20, <3>2 DEF CompensateCommit
    <3>. QED  BY <3>1, <3>2
  <2>. QED
    <3>. HIDE DEF Ledger, Plannable, Unplanned
    <3>. QED  BY <2>1
<1>21. CASE Work
  <2>1. CASE ledger' = Settled
    <3>1. PICK s \in States :
            /\ ledger' = [ledger EXCEPT !.phase = "completed", !.state = s]
            /\ ledger.tomb = "none" => s = "cancelled"
      BY <2>1, SettledShape
    <3>. QED  BY <2>1, <3>1, <1>21 DEF Work, Rest
  <2>2. CASE UNCHANGED ledger
    BY <2>2, <1>21 DEF Work, Rest
  <2>. QED  BY <2>1, <2>2, <1>21 DEF Work
<1>22. CASE UNCHANGED vars
  BY <1>22 DEF vars
<1>. HIDE <1>a DEF PromptInv
<1>. QED
  BY <1>1, <1>2, <1>3, <1>4, <1>5, <1>6, <1>7, <1>8, <1>9, <1>10,
     <1>11, <1>12, <1>13, <1>14, <1>15, <1>16, <1>17, <1>18, <1>19,
     <1>20, <1>21, <1>22
  DEF Next, RunStep, WorkerStep, PrepareStep, ReleaseStep

\* A launch goes through its stages in order.
LEMMA StageStep ==
  ASSUME HandoffInv, [Next]_vars
  PROVE  StageInv'
<1>a. TypeOK /\ LedgerInv /\ StageInv /\ JobInv
  BY DEF HandoffInv
<1>b. FieldsOK
  BY <1>a, FieldTypes
<1>. USE <1>a, <1>b DEF FieldsOK, LedgerInv, StageInv, JobInv, JobOK, MadeBy,
     Prepared, Ledger, Effects, Run, Worker, lost, NoEffect, NoRun, NoJob, Resting
<1>1. CASE WorkerCompletes
  BY <1>1, CompletesEffect DEF machine, WorkerCompletes
<1>2. CASE IssueCloses
  <2>. UNCHANGED machine
    BY <1>2, OtherEffect DEF IssueCloses
  <2>. QED  BY <1>2 DEF machine, IssueCloses
<1>3. CASE Restart
  <2>. UNCHANGED machine
    BY <1>3, OtherEffect DEF Restart
  <2>. QED  BY <1>3 DEF machine, Restart
<1>4. ASSUME NEW kind \in Kinds, WorkArrives(kind) PROVE StageInv'
  <2>. UNCHANGED machine
    BY <1>4, OtherEffect DEF WorkArrives
  <2>. QED  BY <1>4 DEF machine, WorkArrives
<1>5. ASSUME NEW k \in Candidates, KeeperExpires(k) PROVE StageInv'
  <2>. UNCHANGED machine
    BY <1>5, OtherEffect DEF KeeperExpires
  <2>. QED  BY <1>5 DEF machine, KeeperExpires
<1>6. CASE PlanAndBegin
  <2>1. UNCHANGED machine
    BY <1>6, OtherEffect DEF PlanAndBegin
  <2>2. /\ ledger'.launch = ledger.launch /\ ledger'.drawn = ledger.drawn + 1
        /\ ledger'.invalidated = ledger.invalidated
        /\ ledger'.effect.old = ledger.launch /\ ~ledger'.effect.certified
    BY <1>6 DEF PlanAndBegin, TypeOK
  <2>3. ASSUME NEW k \in Launches, k <= ledger.drawn PROVE k <= ledger.drawn + 1
    BY <2>3, HandoffAssumption DEF Launches
  <2>. HIDE DEF Ledger, Effects
  <2>. QED  BY <2>1, <2>2, <2>3 DEF machine
<1>7. CASE Resume
  <2>. UNCHANGED machine
    BY <1>7, OtherEffect DEF Resume
  <2>. QED  BY <1>7 DEF machine, Resume
<1>8. CASE Verify
  <2>. UNCHANGED machine
    BY <1>8, OtherEffect DEF Verify
  <2>. QED  BY <1>8 DEF machine, Verify, Replaced, Bound, Current, Applied, Call
<1>9. CASE Certify
  <2>1. UNCHANGED machine
    BY <1>9, OtherEffect DEF Certify
  <2>2. CASE Current(run.id)
    <3>1. ledger.effect # NoEffect
      BY <2>2, <1>9 DEF Certify, Current
    <3>2. PICK e \in Effects :
            /\ ledger' = [ledger EXCEPT !.effect = e] /\ e.id = ledger.effect.id
            /\ e.old = ledger.effect.old /\ e.certified /\ e # NoEffect
      <4>1. ledger \in Ledger /\ ledger' = [ledger EXCEPT !.effect.certified = TRUE]
        BY <2>2, <1>9 DEF Certify, TypeOK
      <4>. HIDE <1>a, <1>b DEF Ledger, Effects, NoEffect
      <4>. QED  BY <3>1, <4>1, CertifyShape
    <3>3. Prepared(ledger.effect.id)
      <4>1. At(boots, "prepare", "done") /\ jobs[boots].id = ledger.effect.id
        BY <2>2, <1>9 DEF Certify, Current, At, Linked
      <4>2. JobOK(boots)
        BY DEF FieldsOK
      <4>. QED  BY <4>1, <4>2
    <3>. QED  BY <2>1, <3>2, <3>3 DEF TypeOK, machine
  <2>3. CASE ~Current(run.id)
    BY <2>1, <2>3, <1>9 DEF Certify, machine
  <2>. QED  BY <2>2, <2>3
<1>10. CASE CallReturns
  <2>. UNCHANGED machine
    BY <1>10, OtherEffect DEF CallReturns
  <2>. QED  BY <1>10 DEF machine, CallReturns
<1>11. CASE Confirm
  <2>1. UNCHANGED machine
    BY <1>11, OtherEffect DEF Confirm
  <2>2. CASE Applied(run.id) /\ Current(run.id)
    <3>1. PICK s \in States :
            ledger' = [ledger EXCEPT !.launch = run.id, !.effect = NoEffect,
                                     !.due = "none", !.state = s]
      BY <2>2, <1>11, DeliveredShape DEF Confirm, TypeOK
    <3>2. stage[run.id] = "released" /\ stage[0] = "released"
      BY <2>2 DEF Applied, delivered
    <3>. QED  BY <2>1, <3>1, <3>2 DEF TypeOK, machine
  <2>3. CASE ~(Applied(run.id) /\ Current(run.id))
    BY <2>1, <2>3, <1>11 DEF Confirm, machine
  <2>. QED  BY <2>2, <2>3
<1>12. CASE CallDies
  <2>. UNCHANGED machine
    BY <1>12, OtherEffect DEF CallDies
  <2>. QED  BY <1>12 DEF machine, CallDies
<1>13. ASSUME NEW b \in Boots, PrepareLook(b) PROVE StageInv'
  <2>. UNCHANGED <<ledger, run, worker, closed, boots>>
    BY <1>13, HostStep DEF PrepareStep, ReleaseStep
  <2>. HIDE DEF Ledger, Effects, Run, Worker, NoEffect, NoRun, NoJob, Resting
  <2>. QED
    BY <1>13, StillEffect DEF PrepareLook, At, machine
<1>14. ASSUME NEW b \in Boots, PrepareKeep(b) PROVE StageInv'
  <2>. UNCHANGED <<ledger, run, worker, closed, boots>>
    BY <1>14, HostStep DEF PrepareStep, ReleaseStep
  <2>. HIDE DEF Ledger, Effects, Run, Worker, NoEffect, NoRun, NoJob, Resting
  <2>. QED
    BY <1>14, StillEffect DEF PrepareKeep, At, machine
<1>15. ASSUME NEW b \in Boots, PrepareStop(b) PROVE StageInv'
  <2>. UNCHANGED <<ledger, run, worker, closed, boots>>
    BY <1>15, HostStep DEF PrepareStep, ReleaseStep
  <2>. HIDE DEF Ledger, Effects, Run, Worker, NoEffect, NoRun, NoJob, Resting
  <2>. QED
    BY <1>15, StopEffect DEF PrepareStop, At, machine
<1>16. ASSUME NEW b \in Boots, PrepareKill(b) PROVE StageInv'
  <2>. UNCHANGED <<ledger, run, worker, closed, boots>>
    BY <1>16, HostStep DEF PrepareStep, ReleaseStep
  <2>. HIDE DEF Ledger, Effects, Run, Worker, NoEffect, NoRun, NoJob, Resting
  <2>. QED
    BY <1>16, KillEffect DEF PrepareKill, At, machine
<1>17. ASSUME NEW b \in Boots, PrepareCreate(b) PROVE StageInv'
  <2>. DEFINE k == jobs[b].id
  <2>1. UNCHANGED <<ledger, run, worker, closed, boots>>
    BY <1>17, HostStep DEF PrepareStep, ReleaseStep
  <2>2. k \in Launches /\ k <= ledger.drawn
    BY <1>17 DEF PrepareCreate, At
  <2>. HIDE <1>a DEF k, JobInv, LedgerInv, Ledger, Effects, Run, Worker, NoEffect,
       NoRun, NoJob, Resting
  <2>3. StageInv
    BY <1>a
  <2>. QED  BY <2>1, <2>2, <2>3, <1>17, CreateEffect, <1>a DEF machine, k
<1>18. ASSUME NEW b \in Boots, PrepareBind(b) PROVE StageInv'
  <2>. DEFINE k == jobs[b].id
  <2>1. UNCHANGED <<ledger, run, worker, closed, boots>>
    BY <1>18, HostStep DEF PrepareStep, ReleaseStep
  <2>2. k \in Launches /\ k <= ledger.drawn /\ (pane = k => stage[k] = "created")
    BY <1>18 DEF PrepareBind, At
  <2>. HIDE <1>a DEF k, JobInv, LedgerInv, Ledger, Effects, Run, Worker, NoEffect,
       NoRun, NoJob, Resting
  <2>3. StageInv
    BY <1>a
  <2>. QED  BY <2>1, <2>2, <2>3, <1>18, BindEffect, <1>a DEF machine, k
<1>19. ASSUME NEW b \in Boots, PrepareBroker(b) PROVE StageInv'
  <2>. DEFINE k == jobs[b].id
  <2>1. UNCHANGED <<ledger, run, worker, closed, boots>>
    BY <1>19, HostStep DEF PrepareStep, ReleaseStep
  <2>2. k \in Launches /\ k <= ledger.drawn /\ (pane = k => stage[k] = "bound")
    BY <1>19 DEF PrepareBroker, At
  <2>. HIDE <1>a DEF k, JobInv, LedgerInv, Ledger, Effects, Run, Worker, NoEffect,
       NoRun, NoJob, Resting
  <2>3. StageInv
    BY <1>a
  <2>. QED  BY <2>1, <2>2, <2>3, <1>19, BrokerEffect, <1>a DEF machine, k
<1>20. ASSUME NEW b \in Boots, ReleaseCheck(b) PROVE StageInv'
  <2>. UNCHANGED <<ledger, run, worker, closed, boots>>
    BY <1>20, HostStep DEF PrepareStep, ReleaseStep
  <2>. HIDE DEF Ledger, Effects, Run, Worker, NoEffect, NoRun, NoJob, Resting
  <2>. QED
    BY <1>20, StillEffect DEF ReleaseCheck, At, machine
<1>21. ASSUME NEW b \in Boots, ReleaseReceipt(b) PROVE StageInv'
  <2>. UNCHANGED <<ledger, run, worker, closed, boots>>
    BY <1>21, HostStep DEF PrepareStep, ReleaseStep
  <2>. HIDE DEF Ledger, Effects, Run, Worker, NoEffect, NoRun, NoJob, Resting
  <2>. QED
    BY <1>21, StillEffect DEF ReleaseReceipt, At, machine
<1>22. ASSUME NEW b \in Boots, ReleaseOpen(b) PROVE StageInv'
  <2>. DEFINE k == jobs[b].id
  <2>1. UNCHANGED <<ledger, run, worker, closed, boots>>
    BY <1>22, HostStep DEF PrepareStep, ReleaseStep
  <2>2. k \in Launches /\ k <= ledger.drawn /\ stage[k] \in {"ready", "released"}
    BY <1>22 DEF ReleaseOpen, At
  <2>. HIDE <1>a DEF k, JobInv, LedgerInv, Ledger, Effects, Run, Worker, NoEffect,
       NoRun, NoJob, Resting
  <2>3. StageInv
    BY <1>a
  <2>. QED  BY <2>1, <2>2, <2>3, <1>22, OpenEffect, <1>a DEF machine, k
<1>23. ASSUME NEW b \in Boots, ReleaseMark(b) PROVE StageInv'
  <2>. UNCHANGED <<ledger, run, worker, closed, boots>>
    BY <1>23, HostStep DEF PrepareStep, ReleaseStep
  <2>. HIDE DEF Ledger, Effects, Run, Worker, NoEffect, NoRun, NoJob, Resting
  <2>. QED
    BY <1>23, MarkEffect DEF ReleaseMark, At, machine
<1>24. CASE Cancel
  <2>. UNCHANGED machine
    BY <1>24, OtherEffect DEF Cancel
  <2>. QED  BY <1>24 DEF machine, Cancel, Invalidated, Interrupted
<1>25. ASSUME NEW tomb \in {"dismissed", "archived"}, Discard(tomb) PROVE StageInv'
  <2>. UNCHANGED machine
    BY <1>25, OtherEffect DEF Discard
  <2>. QED  BY <1>25 DEF machine, Discard, Invalidated, Interrupted
<1>26. CASE Dispatch
  <2>1. ledger'.launch = ledger.launch /\ ledger'.drawn = ledger.drawn
        /\ ledger'.effect = ledger.effect /\ ledger'.invalidated = ledger.invalidated
    BY <1>26, SettledKeeps DEF TypeOK, Dispatch
  <2>2. UNCHANGED machine
    BY <1>26, OtherEffect DEF Dispatch
  <2>. QED  BY <2>1, <2>2 DEF machine
<1>27. CASE CompensateLook
  BY <1>27, LookEffect DEF machine, CompensateLook
<1>28. CASE CompensateKill
  BY <1>28, CompensationEffect DEF machine, CompensateKill
<1>29. CASE CompensateProve
  BY <1>29, ProofEffect DEF machine, CompensateProve
<1>30. CASE CompensateCommit
  <2>1. ledger'.launch = ledger.launch /\ ledger'.drawn = ledger.drawn
        /\ ledger'.effect = ledger.effect /\ ledger'.invalidated = ledger.invalidated
    BY <1>30, CommitKeeps DEF TypeOK
  <2>2. UNCHANGED machine
    BY <1>30, OtherEffect DEF CompensateCommit
  <2>. QED  BY <2>1, <2>2 DEF machine
<1>31. CASE Work
  <2>1. ledger'.launch = ledger.launch /\ ledger'.drawn = ledger.drawn
        /\ ledger'.effect = ledger.effect /\ ledger'.invalidated = ledger.invalidated
    BY <1>31, WorkEffect, SettledKeeps DEF TypeOK
  <2>. QED  BY <1>31, <2>1, WorkEffect DEF machine
<1>32. CASE UNCHANGED vars
  BY <1>32, OtherEffect DEF vars, machine
<1>. HIDE <1>a DEF StageInv
<1>. QED
  BY <1>1, <1>2, <1>3, <1>4, <1>5, <1>6, <1>7, <1>8, <1>9, <1>10,
     <1>11, <1>12, <1>13, <1>14, <1>15, <1>16, <1>17, <1>18, <1>19,
     <1>20, <1>21, <1>22, <1>23, <1>24, <1>25, <1>26, <1>27, <1>28,
     <1>29, <1>30, <1>31, <1>32
  DEF Next, RunStep, WorkerStep, PrepareStep, ReleaseStep

\* Of the processes that prepare a launch one has its pane, and none comes late.
LEMMA JobStep ==
  ASSUME HandoffInv, [Next]_vars
  PROVE  JobInv'
<1>a. TypeOK /\ LedgerInv /\ StageInv /\ JobInv /\ WorkerInv
  BY DEF HandoffInv
<1>b. FieldsOK
  BY <1>a, FieldTypes
<1>c. \A k \in 1..ledger.drawn : k \in 1..ledger'.drawn
  BY <1>a, DrawnGrows
<1>d. ASSUME UNCHANGED stage, brokers' \subseteq brokers, Linked',
             pane' = pane \/ (pane' = Absent /\ (pane = Absent \/ Prepared(pane))),
             \A c \in Boots : \/ jobs'[c] = jobs[c] /\ (c > boots' => jobs'[c] = NoJob)
                              \/ JobOK(c)' /\ ~Making(c)'
      PROVE  JobInv'
  <2>. USE <1>b, <1>c, <1>d DEF JobInv, FieldsOK, At, Making, MadeBy, Prepared
  <2>1. ASSUME NEW c \in Boots PROVE JobOK(c)'
    <3>1. JobOK(c)
      BY <1>a
    <3>2. CASE jobs'[c] = jobs[c] /\ (c > boots' => jobs'[c] = NoJob)
      BY <3>1, <3>2 DEF JobOK
    <3>. QED  BY <3>2
  <2>2. ASSUME NEW c \in Boots, NEW d \in Boots, c # d, Making(c)', Making(d)',
               jobs'[c].id = jobs'[d].id
        PROVE  pane' # jobs'[c].id
    BY <1>a, <2>2
  <2>. QED  BY <2>1, <2>2
<1>e. /\ Linked /\ run \in Run /\ jobs \in [Boots -> Job]
      /\ \A b \in Boots : JobOK(b)
  BY <1>a DEF TypeOK, JobInv, Linked
<1>1. CASE WorkerCompletes
  <2>1. UNCHANGED <<jobs, boots, run>>
    BY <1>1 DEF WorkerCompletes
  <2>2. /\ UNCHANGED stage /\ brokers' \subseteq brokers
        /\ pane' = pane \/ (pane' = Absent /\ (pane = Absent \/ Prepared(pane)))
    BY <1>1, <1>a, CompletesEffect DEF machine, StageInv, Prepared, Absent
  <2>. QED  BY <1>d, <1>e, <2>1, <2>2 DEF Linked, JobOK
<1>2. CASE IssueCloses
  <2>1. UNCHANGED machine
    BY <1>2, OtherEffect, <1>a DEF IssueCloses
  <2>2. UNCHANGED <<jobs, boots>> /\ Linked'
    BY <1>2, <1>e DEF IssueCloses, Linked, Run
  <2>. QED  BY <1>d, <1>e, <2>1, <2>2 DEF machine, JobOK
<1>3. CASE Restart
  <2>1. UNCHANGED machine
    BY <1>3, OtherEffect, <1>a DEF Restart
  <2>2. Linked'
    BY <1>3, <1>b, <1>e DEF Restart, Linked, Run, FieldsOK, NoRun
  <2>3. ASSUME NEW c \in Boots
        PROVE  \/ jobs'[c] = jobs[c] /\ (c > boots' => jobs'[c] = NoJob)
               \/ JobOK(c)' /\ ~Making(c)'
    <3>1. ~(c > boots) \/ (c > boots /\ jobs[c] = NoJob)
      BY <1>e DEF JobOK
    <3>2. boots' = boots + 1 /\ (c > boots' => c > boots)
      BY <1>3, <1>b, HandoffAssumption DEF Restart, FieldsOK, Boots
    <3>3. jobs'[c] = jobs[c] \/ jobs'[c] = NoJob
      BY <1>3, <1>e DEF Restart
    <3>4. CASE jobs'[c] = NoJob
      BY <1>a, <2>1, <3>4 DEF JobOK, StageInv, NoJob, Making, At, machine
    <3>. QED  BY <3>1, <3>2, <3>3, <3>4
  <2>. QED  BY <1>d, <2>1, <2>2, <2>3 DEF machine
<1>4. ASSUME NEW kind \in Kinds, WorkArrives(kind) PROVE JobInv'
  <2>1. UNCHANGED machine
    BY <1>4, OtherEffect, <1>a DEF WorkArrives
  <2>2. UNCHANGED <<jobs, boots>> /\ Linked'
    BY <1>4, <1>e DEF WorkArrives, Linked, Run
  <2>. QED  BY <1>d, <1>e, <2>1, <2>2 DEF machine, JobOK
<1>5. ASSUME NEW k \in Candidates, KeeperExpires(k) PROVE JobInv'
  <2>1. UNCHANGED machine
    BY <1>5, OtherEffect, <1>a DEF KeeperExpires
  <2>2. UNCHANGED <<jobs, boots>> /\ Linked'
    BY <1>5, <1>e DEF KeeperExpires, Linked, Run
  <2>. QED  BY <1>d, <1>e, <2>1, <2>2 DEF machine, JobOK
<1>6. CASE PlanAndBegin
  <2>1. UNCHANGED machine
    BY <1>6, OtherEffect, <1>a DEF PlanAndBegin
  <2>2. UNCHANGED <<jobs, boots>> /\ Linked'
    BY <1>6, <1>e DEF PlanAndBegin, Linked, Run
  <2>. QED  BY <1>d, <1>e, <2>1, <2>2 DEF machine, JobOK
<1>7. CASE Resume
  <2>1. UNCHANGED machine
    BY <1>7, OtherEffect, <1>a DEF Resume
  <2>2. UNCHANGED <<jobs, boots>> /\ Linked'
    BY <1>7, <1>e DEF Resume, Linked, Run
  <2>. QED  BY <1>d, <1>e, <2>1, <2>2 DEF machine, JobOK
<1>8. CASE Verify
  <2>1. UNCHANGED machine
    BY <1>8, OtherEffect, <1>a DEF Verify
  <2>2. Linked'
    BY <1>8, <1>b, <1>e DEF Verify, Linked, Run, FieldsOK, NoRun, Call
  <2>3. ASSUME NEW c \in Boots
        PROVE  \/ jobs'[c] = jobs[c] /\ (c > boots' => jobs'[c] = NoJob)
               \/ JobOK(c)' /\ ~Making(c)'
    <3>1. jobs'[c] = jobs[c] \/ (c = boots /\ jobs'[c] = NoJob)
          \/ (c = boots /\ jobs'[c] = Call("prepare"))
      BY <1>8, <1>e DEF Verify
    <3>2. boots' = boots /\ ~(boots > boots) /\ (c > boots => jobs[c] = NoJob)
      BY <1>8, <1>b, <1>e, HandoffAssumption DEF Verify, FieldsOK, Boots, JobOK
    <3>3. CASE c = boots /\ jobs'[c] = NoJob
      BY <1>a, <2>1, <3>2, <3>3 DEF JobOK, StageInv, NoJob, Making, At, machine
    <3>4. CASE c = boots /\ jobs'[c] = Call("prepare") /\ jobs'[c] # jobs[c]
      <4>1. run.id \in 1..ledger'.drawn /\ stage[ledger.effect.old] = "released"
        BY <1>8, <1>a, <1>c DEF Verify, LedgerInv, StageInv
      <4>. QED  BY <2>1, <3>2, <3>4, <4>1 DEF JobOK, Call, Making, At, machine,
           Prepared
    <3>. QED  BY <3>1, <3>2, <3>3, <3>4
  <2>. QED  BY <1>d, <2>1, <2>2, <2>3 DEF machine
<1>9. CASE Certify
  <2>1. UNCHANGED machine
    BY <1>9, OtherEffect, <1>a DEF Certify
  <2>2. Linked'
    BY <1>9, <1>b, <1>e DEF Certify, Linked, Run, FieldsOK, NoRun, Call, Current
  <2>3. ASSUME NEW c \in Boots
        PROVE  \/ jobs'[c] = jobs[c] /\ (c > boots' => jobs'[c] = NoJob)
               \/ JobOK(c)' /\ ~Making(c)'
    <3>1. jobs'[c] = jobs[c] \/ (c = boots /\ jobs'[c] = NoJob)
          \/ (c = boots /\ jobs'[c] = Call("release"))
      BY <1>9, <1>e DEF Certify
    <3>2. boots' = boots /\ ~(boots > boots) /\ (c > boots => jobs[c] = NoJob)
      BY <1>9, <1>b, <1>e, HandoffAssumption DEF Certify, FieldsOK, Boots, JobOK
    <3>3. CASE c = boots /\ jobs'[c] = NoJob
      BY <1>a, <2>1, <3>2, <3>3 DEF JobOK, StageInv, NoJob, Making, At, machine
    <3>4. CASE c = boots /\ jobs'[c] = Call("release") /\ jobs'[c] # jobs[c]
      <4>1. run.id \in 1..ledger'.drawn /\ stage[ledger.effect.old] = "released" /\ Prepared(run.id)
        BY <1>9, <1>a, <1>c, <1>b, <1>e DEF Certify, LedgerInv, StageInv, Linked,
           JobOK, At, FieldsOK
      <4>. QED  BY <2>1, <3>2, <3>4, <4>1 DEF JobOK, Call, Making, At, machine,
           Prepared
    <3>. QED  BY <3>1, <3>2, <3>3, <3>4
  <2>. QED  BY <1>d, <2>1, <2>2, <2>3 DEF machine
<1>10. CASE CallReturns
  <2>1. UNCHANGED machine
    BY <1>10, OtherEffect, <1>a DEF CallReturns
  <2>2. Linked'
    BY <1>10, <1>b, <1>e DEF CallReturns, Linked, Run, FieldsOK, NoRun
  <2>3. ASSUME NEW c \in Boots
        PROVE  \/ jobs'[c] = jobs[c] /\ (c > boots' => jobs'[c] = NoJob)
               \/ JobOK(c)' /\ ~Making(c)'
    BY <1>10, <1>a, <1>b, <1>c, <1>e, <2>1 DEF CallReturns, JobOK, StageInv,
       FieldsOK, LedgerInv, Making,
       machine, At, Prepared, NoJob, NoRun
  <2>. QED  BY <1>d, <2>1, <2>2, <2>3 DEF machine
<1>11. CASE Confirm
  <2>1. UNCHANGED machine
    BY <1>11, OtherEffect, <1>a DEF Confirm
  <2>2. UNCHANGED <<jobs, boots>> /\ Linked'
    BY <1>11, <1>e DEF Confirm, Linked, Run, NoRun
  <2>. QED  BY <1>d, <1>e, <2>1, <2>2 DEF machine, JobOK
<1>12. CASE CallDies
  <2>1. UNCHANGED machine
    BY <1>12, OtherEffect, <1>a DEF CallDies
  <2>2. Linked'
    BY <1>12, <1>b, <1>e DEF CallDies, Linked, Run, FieldsOK, NoRun
  <2>3. ASSUME NEW c \in Boots
        PROVE  \/ jobs'[c] = jobs[c] /\ (c > boots' => jobs'[c] = NoJob)
               \/ JobOK(c)' /\ ~Making(c)'
    BY <1>12, <1>a, <1>b, <1>c, <1>e, <2>1 DEF CallDies, JobOK, StageInv, FieldsOK,
       LedgerInv, Making,
       machine, At, Prepared, NoJob, NoRun
  <2>. QED  BY <1>d, <2>1, <2>2, <2>3 DEF machine
<1>13. ASSUME NEW b \in Boots, PrepareLook(b) PROVE JobInv'
  <2>1. UNCHANGED <<ledger, run, worker, closed, boots>>
    BY <1>13, HostStep DEF PrepareStep, ReleaseStep
  <2>2. PICK pc : Step(b, pc) /\ (pc = "keep" \/ (pc = "done" /\ Prepared(jobs[b].id)) \/ pc = "failed")
    BY <1>13 DEF PrepareLook, Returns, At, Bound, Prepared, stage, pane, brokers
  <2>3. /\ \A c \in Boots : c # b => jobs'[c] = jobs[c]
        /\ \/ jobs'[b] = NoJob /\ b # boots
           \/ /\ jobs'[b].op = jobs[b].op /\ jobs'[b].id = jobs[b].id
              /\ jobs'[b].old = jobs[b].old /\ jobs'[b].pc = pc
    BY <1>a, <2>2, StepEffect
  <2>4. At(b, "prepare", "look") /\ ~(b > boots)
    BY <1>13, <1>e DEF PrepareLook, JobOK, At, NoJob
  <2>5. JobOK(b)'
    BY <1>a, <1>b, <1>e, <2>1, <2>2, <2>3, <2>4, <1>13, StillEffect
    DEF JobOK, NoJob, StageInv, FieldsOK, At, Making, MadeBy, Prepared, machine
  <2>6. ASSUME NEW c \in Boots, c # b PROVE JobOK(c)'
    <3>1. JobOK(c) /\ JobOK(b) /\ jobs'[c] = jobs[c]
      BY <1>e, <2>3, <2>6
    <3>2. Making(b) /\ Making(c) /\ jobs[b].id = jobs[c].id => pane # jobs[b].id
      BY <1>a, <2>6 DEF JobInv
    <3>. QED  BY <1>a, <1>b, <2>1, <2>4, <3>1, <3>2, <1>13, StillEffect
              DEF JobOK, StageInv, FieldsOK, At, Making, MadeBy, Prepared, machine
  <2>7. ASSUME NEW c \in Boots, NEW d \in Boots, c # d, Making(c)', Making(d)',
               jobs'[c].id = jobs'[d].id
        PROVE  pane' # jobs'[c].id
    BY <1>a, <1>b, <1>e, <2>2, <2>3, <2>4, <2>7, <1>13, StillEffect
    DEF JobOK, JobInv, FieldsOK, NoJob, At, Making, MadeBy, Prepared, machine
  <2>8. Linked'
    BY <1>b, <1>e, <2>1, <2>3 DEF Linked, FieldsOK
  <2>9. ASSUME NEW c \in Boots PROVE JobOK(c)'
    BY <2>5, <2>6
  <2>. QED  BY <2>7, <2>8, <2>9 DEF JobInv
<1>14. ASSUME NEW b \in Boots, PrepareKeep(b) PROVE JobInv'
  <2>1. UNCHANGED <<ledger, run, worker, closed, boots>>
    BY <1>14, HostStep DEF PrepareStep, ReleaseStep
  <2>2. PICK pc : Step(b, pc) /\ (pc \in {"failed", "stop"})
    BY <1>14 DEF PrepareKeep, Returns, At, Bound, Prepared, stage, pane, brokers
  <2>3. /\ \A c \in Boots : c # b => jobs'[c] = jobs[c]
        /\ \/ jobs'[b] = NoJob /\ b # boots
           \/ /\ jobs'[b].op = jobs[b].op /\ jobs'[b].id = jobs[b].id
              /\ jobs'[b].old = jobs[b].old /\ jobs'[b].pc = pc
    BY <1>a, <2>2, StepEffect
  <2>4. At(b, "prepare", "keep") /\ ~(b > boots)
    BY <1>14, <1>e DEF PrepareKeep, JobOK, At, NoJob
  <2>5. JobOK(b)'
    BY <1>a, <1>b, <1>e, <2>1, <2>2, <2>3, <2>4, <1>14, StillEffect
    DEF JobOK, NoJob, StageInv, FieldsOK, At, Making, MadeBy, Prepared, machine
  <2>6. ASSUME NEW c \in Boots, c # b PROVE JobOK(c)'
    <3>1. JobOK(c) /\ JobOK(b) /\ jobs'[c] = jobs[c]
      BY <1>e, <2>3, <2>6
    <3>2. Making(b) /\ Making(c) /\ jobs[b].id = jobs[c].id => pane # jobs[b].id
      BY <1>a, <2>6 DEF JobInv
    <3>. QED  BY <1>a, <1>b, <2>1, <2>4, <3>1, <3>2, <1>14, StillEffect
              DEF JobOK, StageInv, FieldsOK, At, Making, MadeBy, Prepared, machine
  <2>7. ASSUME NEW c \in Boots, NEW d \in Boots, c # d, Making(c)', Making(d)',
               jobs'[c].id = jobs'[d].id
        PROVE  pane' # jobs'[c].id
    BY <1>a, <1>b, <1>e, <2>2, <2>3, <2>4, <2>7, <1>14, StillEffect
    DEF JobOK, JobInv, FieldsOK, NoJob, At, Making, MadeBy, Prepared, machine
  <2>8. Linked'
    BY <1>b, <1>e, <2>1, <2>3 DEF Linked, FieldsOK
  <2>9. ASSUME NEW c \in Boots PROVE JobOK(c)'
    BY <2>5, <2>6
  <2>. QED  BY <2>7, <2>8, <2>9 DEF JobInv
<1>15. ASSUME NEW b \in Boots, PrepareStop(b) PROVE JobInv'
  <2>1. UNCHANGED <<ledger, run, worker, closed, boots>>
    BY <1>15, HostStep DEF PrepareStep, ReleaseStep
  <2>2. PICK pc : Step(b, pc) /\ (pc = "failed" \/ (pc \in {"kill", "create"} /\ pane \in {jobs[b].old, Absent}))
    BY <1>15 DEF PrepareStop, Returns, At, Bound, Prepared, stage, pane, brokers
  <2>3. /\ \A c \in Boots : c # b => jobs'[c] = jobs[c]
        /\ \/ jobs'[b] = NoJob /\ b # boots
           \/ /\ jobs'[b].op = jobs[b].op /\ jobs'[b].id = jobs[b].id
              /\ jobs'[b].old = jobs[b].old /\ jobs'[b].pc = pc
    BY <1>a, <2>2, StepEffect
  <2>4. At(b, "prepare", "stop") /\ ~(b > boots)
    BY <1>15, <1>e DEF PrepareStop, JobOK, At, NoJob
  <2>5. JobOK(b)'
    BY <1>a, <1>b, <1>e, <2>1, <2>2, <2>3, <2>4, <1>15, StopEffect
    DEF JobOK, NoJob, StageInv, FieldsOK, At, Making, MadeBy, Prepared, machine
  <2>6. ASSUME NEW c \in Boots, c # b PROVE JobOK(c)'
    <3>1. JobOK(c) /\ JobOK(b) /\ jobs'[c] = jobs[c]
      BY <1>e, <2>3, <2>6
    <3>2. Making(b) /\ Making(c) /\ jobs[b].id = jobs[c].id => pane # jobs[b].id
      BY <1>a, <2>6 DEF JobInv
    <3>. QED  BY <1>a, <1>b, <2>1, <2>4, <3>1, <3>2, <1>15, StopEffect
              DEF JobOK, StageInv, FieldsOK, At, Making, MadeBy, Prepared, machine
  <2>7. ASSUME NEW c \in Boots, NEW d \in Boots, c # d, Making(c)', Making(d)',
               jobs'[c].id = jobs'[d].id
        PROVE  pane' # jobs'[c].id
    BY <1>a, <1>b, <1>e, <2>2, <2>3, <2>4, <2>7, <1>15, StopEffect
    DEF JobOK, JobInv, FieldsOK, NoJob, At, Making, MadeBy, Prepared, machine
  <2>8. Linked'
    BY <1>b, <1>e, <2>1, <2>3 DEF Linked, FieldsOK
  <2>9. ASSUME NEW c \in Boots PROVE JobOK(c)'
    BY <2>5, <2>6
  <2>. QED  BY <2>7, <2>8, <2>9 DEF JobInv
<1>16. ASSUME NEW b \in Boots, PrepareKill(b) PROVE JobInv'
  <2>1. UNCHANGED <<ledger, run, worker, closed, boots>>
    BY <1>16, HostStep DEF PrepareStep, ReleaseStep
  <2>2. PICK pc : Step(b, pc) /\ (pc \in {"failed", "create"})
    BY <1>16 DEF PrepareKill, Returns, At, Bound, Prepared, stage, pane, brokers
  <2>3. /\ \A c \in Boots : c # b => jobs'[c] = jobs[c]
        /\ \/ jobs'[b] = NoJob /\ b # boots
           \/ /\ jobs'[b].op = jobs[b].op /\ jobs'[b].id = jobs[b].id
              /\ jobs'[b].old = jobs[b].old /\ jobs'[b].pc = pc
    BY <1>a, <2>2, StepEffect
  <2>4. At(b, "prepare", "kill") /\ ~(b > boots)
    BY <1>16, <1>e DEF PrepareKill, JobOK, At, NoJob
  <2>5. JobOK(b)'
    BY <1>a, <1>b, <1>e, <2>1, <2>2, <2>3, <2>4, <1>16, KillEffect
    DEF JobOK, NoJob, StageInv, FieldsOK, At, Making, MadeBy, Prepared, machine
  <2>6. ASSUME NEW c \in Boots, c # b PROVE JobOK(c)'
    <3>1. JobOK(c) /\ JobOK(b) /\ jobs'[c] = jobs[c]
      BY <1>e, <2>3, <2>6
    <3>2. Making(b) /\ Making(c) /\ jobs[b].id = jobs[c].id => pane # jobs[b].id
      BY <1>a, <2>6 DEF JobInv
    <3>. QED  BY <1>a, <1>b, <2>1, <2>4, <3>1, <3>2, <1>16, KillEffect
              DEF JobOK, StageInv, FieldsOK, At, Making, MadeBy, Prepared, machine
  <2>7. ASSUME NEW c \in Boots, NEW d \in Boots, c # d, Making(c)', Making(d)',
               jobs'[c].id = jobs'[d].id
        PROVE  pane' # jobs'[c].id
    BY <1>a, <1>b, <1>e, <2>2, <2>3, <2>4, <2>7, <1>16, KillEffect
    DEF JobOK, JobInv, FieldsOK, NoJob, At, Making, MadeBy, Prepared, machine
  <2>8. Linked'
    BY <1>b, <1>e, <2>1, <2>3 DEF Linked, FieldsOK
  <2>9. ASSUME NEW c \in Boots PROVE JobOK(c)'
    BY <2>5, <2>6
  <2>. QED  BY <2>7, <2>8, <2>9 DEF JobInv
<1>17. ASSUME NEW b \in Boots, PrepareCreate(b) PROVE JobInv'
  <2>1. UNCHANGED <<ledger, run, worker, closed, boots>>
    BY <1>17, HostStep DEF PrepareStep, ReleaseStep
  <2>2. PICK pc : Step(b, pc) /\ ((pc = "failed" /\ pane # Absent) \/ (pc = "bind" /\ pane = Absent))
    BY <1>17 DEF PrepareCreate, Returns, At, Bound, Prepared, stage, pane, brokers
  <2>3. /\ \A c \in Boots : c # b => jobs'[c] = jobs[c]
        /\ \/ jobs'[b] = NoJob /\ b # boots
           \/ /\ jobs'[b].op = jobs[b].op /\ jobs'[b].id = jobs[b].id
              /\ jobs'[b].old = jobs[b].old /\ jobs'[b].pc = pc
    BY <1>a, <2>2, StepEffect
  <2>4. At(b, "prepare", "create") /\ ~(b > boots)
    BY <1>17, <1>e DEF PrepareCreate, JobOK, At, NoJob
  <2>5. JobOK(b)'
    BY <1>a, <1>b, <1>e, <2>1, <2>2, <2>3, <2>4, <1>17, CreateEffect
    DEF JobOK, NoJob, StageInv, FieldsOK, At, Making, MadeBy, Prepared, machine
  <2>6. ASSUME NEW c \in Boots, c # b PROVE JobOK(c)'
    <3>1. JobOK(c) /\ JobOK(b) /\ jobs'[c] = jobs[c]
      BY <1>e, <2>3, <2>6
    <3>2. Making(b) /\ Making(c) /\ jobs[b].id = jobs[c].id => pane # jobs[b].id
      BY <1>a, <2>6 DEF JobInv
    <3>. QED  BY <1>a, <1>b, <2>1, <2>4, <3>1, <3>2, <1>17, CreateEffect
              DEF JobOK, StageInv, FieldsOK, At, Making, MadeBy, Prepared, machine
  <2>7. ASSUME NEW c \in Boots, NEW d \in Boots, c # d, Making(c)', Making(d)',
               jobs'[c].id = jobs'[d].id
        PROVE  pane' # jobs'[c].id
    BY <1>a, <1>b, <1>e, <2>2, <2>3, <2>4, <2>7, <1>17, CreateEffect
    DEF JobOK, JobInv, FieldsOK, NoJob, At, Making, MadeBy, Prepared, machine
  <2>8. Linked'
    BY <1>b, <1>e, <2>1, <2>3 DEF Linked, FieldsOK
  <2>9. ASSUME NEW c \in Boots PROVE JobOK(c)'
    BY <2>5, <2>6
  <2>. QED  BY <2>7, <2>8, <2>9 DEF JobInv
<1>18. ASSUME NEW b \in Boots, PrepareBind(b) PROVE JobInv'
  <2>1. UNCHANGED <<ledger, run, worker, closed, boots>>
    BY <1>18, HostStep DEF PrepareStep, ReleaseStep
  <2>2. PICK pc : Step(b, pc) /\ ((pc = "failed" /\ pane # jobs[b].id) \/ (pc = "broker" /\ pane = jobs[b].id))
    BY <1>18 DEF PrepareBind, Returns, At, Bound, Prepared, stage, pane, brokers
  <2>3. /\ \A c \in Boots : c # b => jobs'[c] = jobs[c]
        /\ \/ jobs'[b] = NoJob /\ b # boots
           \/ /\ jobs'[b].op = jobs[b].op /\ jobs'[b].id = jobs[b].id
              /\ jobs'[b].old = jobs[b].old /\ jobs'[b].pc = pc
    BY <1>a, <2>2, StepEffect
  <2>4. At(b, "prepare", "bind") /\ ~(b > boots)
    BY <1>18, <1>e DEF PrepareBind, JobOK, At, NoJob
  <2>5. JobOK(b)'
    BY <1>a, <1>b, <1>e, <2>1, <2>2, <2>3, <2>4, <1>18, BindEffect
    DEF JobOK, NoJob, StageInv, FieldsOK, At, Making, MadeBy, Prepared, machine
  <2>6. ASSUME NEW c \in Boots, c # b PROVE JobOK(c)'
    <3>1. JobOK(c) /\ JobOK(b) /\ jobs'[c] = jobs[c]
      BY <1>e, <2>3, <2>6
    <3>2. Making(b) /\ Making(c) /\ jobs[b].id = jobs[c].id => pane # jobs[b].id
      BY <1>a, <2>6 DEF JobInv
    <3>. QED  BY <1>a, <1>b, <2>1, <2>4, <3>1, <3>2, <1>18, BindEffect
              DEF JobOK, StageInv, FieldsOK, At, Making, MadeBy, Prepared, machine
  <2>7. ASSUME NEW c \in Boots, NEW d \in Boots, c # d, Making(c)', Making(d)',
               jobs'[c].id = jobs'[d].id
        PROVE  pane' # jobs'[c].id
    BY <1>a, <1>b, <1>e, <2>2, <2>3, <2>4, <2>7, <1>18, BindEffect
    DEF JobOK, JobInv, FieldsOK, NoJob, At, Making, MadeBy, Prepared, machine
  <2>8. Linked'
    BY <1>b, <1>e, <2>1, <2>3 DEF Linked, FieldsOK
  <2>9. ASSUME NEW c \in Boots PROVE JobOK(c)'
    BY <2>5, <2>6
  <2>. QED  BY <2>7, <2>8, <2>9 DEF JobInv
<1>19. ASSUME NEW b \in Boots, PrepareBroker(b) PROVE JobInv'
  <2>1. UNCHANGED <<ledger, run, worker, closed, boots>>
    BY <1>19, HostStep DEF PrepareStep, ReleaseStep
  <2>2. PICK pc : Step(b, pc) /\ ((pc = "failed" /\ pane # jobs[b].id) \/ (pc = "done" /\ pane = jobs[b].id))
    BY <1>19 DEF PrepareBroker, Returns, At, Bound, Prepared, stage, pane, brokers
  <2>3. /\ \A c \in Boots : c # b => jobs'[c] = jobs[c]
        /\ \/ jobs'[b] = NoJob /\ b # boots
           \/ /\ jobs'[b].op = jobs[b].op /\ jobs'[b].id = jobs[b].id
              /\ jobs'[b].old = jobs[b].old /\ jobs'[b].pc = pc
    BY <1>a, <2>2, StepEffect
  <2>4. At(b, "prepare", "broker") /\ ~(b > boots)
    BY <1>19, <1>e DEF PrepareBroker, JobOK, At, NoJob
  <2>5. JobOK(b)'
    BY <1>a, <1>b, <1>e, <2>1, <2>2, <2>3, <2>4, <1>19, BrokerEffect
    DEF JobOK, NoJob, StageInv, FieldsOK, At, Making, MadeBy, Prepared, machine
  <2>6. ASSUME NEW c \in Boots, c # b PROVE JobOK(c)'
    <3>1. JobOK(c) /\ JobOK(b) /\ jobs'[c] = jobs[c]
      BY <1>e, <2>3, <2>6
    <3>2. Making(b) /\ Making(c) /\ jobs[b].id = jobs[c].id => pane # jobs[b].id
      BY <1>a, <2>6 DEF JobInv
    <3>. QED  BY <1>a, <1>b, <2>1, <2>4, <3>1, <3>2, <1>19, BrokerEffect
              DEF JobOK, StageInv, FieldsOK, At, Making, MadeBy, Prepared, machine
  <2>7. ASSUME NEW c \in Boots, NEW d \in Boots, c # d, Making(c)', Making(d)',
               jobs'[c].id = jobs'[d].id
        PROVE  pane' # jobs'[c].id
    BY <1>a, <1>b, <1>e, <2>2, <2>3, <2>4, <2>7, <1>19, BrokerEffect
    DEF JobOK, JobInv, FieldsOK, NoJob, At, Making, MadeBy, Prepared, machine
  <2>8. Linked'
    BY <1>b, <1>e, <2>1, <2>3 DEF Linked, FieldsOK
  <2>9. ASSUME NEW c \in Boots PROVE JobOK(c)'
    BY <2>5, <2>6
  <2>. QED  BY <2>7, <2>8, <2>9 DEF JobInv
<1>20. ASSUME NEW b \in Boots, ReleaseCheck(b) PROVE JobInv'
  <2>1. UNCHANGED <<ledger, run, worker, closed, boots>>
    BY <1>20, HostStep DEF PrepareStep, ReleaseStep
  <2>2. PICK pc : Step(b, pc) /\ (pc \in {"open", "failed"})
    BY <1>20 DEF ReleaseCheck, Returns, At, Bound, Prepared, stage, pane, brokers
  <2>3. /\ \A c \in Boots : c # b => jobs'[c] = jobs[c]
        /\ \/ jobs'[b] = NoJob /\ b # boots
           \/ /\ jobs'[b].op = jobs[b].op /\ jobs'[b].id = jobs[b].id
              /\ jobs'[b].old = jobs[b].old /\ jobs'[b].pc = pc
    BY <1>a, <2>2, StepEffect
  <2>4. At(b, "release", "check") /\ ~(b > boots)
    BY <1>20, <1>e DEF ReleaseCheck, JobOK, At, NoJob
  <2>5. JobOK(b)'
    BY <1>a, <1>b, <1>e, <2>1, <2>2, <2>3, <2>4, <1>20, StillEffect
    DEF JobOK, NoJob, StageInv, FieldsOK, At, Making, MadeBy, Prepared, machine
  <2>6. ASSUME NEW c \in Boots, c # b PROVE JobOK(c)'
    <3>1. JobOK(c) /\ JobOK(b) /\ jobs'[c] = jobs[c]
      BY <1>e, <2>3, <2>6
    <3>2. Making(b) /\ Making(c) /\ jobs[b].id = jobs[c].id => pane # jobs[b].id
      BY <1>a, <2>6 DEF JobInv
    <3>. QED  BY <1>a, <1>b, <2>1, <2>4, <3>1, <3>2, <1>20, StillEffect
              DEF JobOK, StageInv, FieldsOK, At, Making, MadeBy, Prepared, machine
  <2>7. ASSUME NEW c \in Boots, NEW d \in Boots, c # d, Making(c)', Making(d)',
               jobs'[c].id = jobs'[d].id
        PROVE  pane' # jobs'[c].id
    BY <1>a, <1>b, <1>e, <2>2, <2>3, <2>4, <2>7, <1>20, StillEffect
    DEF JobOK, JobInv, FieldsOK, NoJob, At, Making, MadeBy, Prepared, machine
  <2>8. Linked'
    BY <1>b, <1>e, <2>1, <2>3 DEF Linked, FieldsOK
  <2>9. ASSUME NEW c \in Boots PROVE JobOK(c)'
    BY <2>5, <2>6
  <2>. QED  BY <2>7, <2>8, <2>9 DEF JobInv
<1>21. ASSUME NEW b \in Boots, ReleaseReceipt(b) PROVE JobInv'
  <2>1. UNCHANGED <<ledger, run, worker, closed, boots>>
    BY <1>21, HostStep DEF PrepareStep, ReleaseStep
  <2>2. PICK pc : Step(b, pc) /\ (pc = "done")
    BY <1>21 DEF ReleaseReceipt, Returns, At, Bound, Prepared, stage, pane, brokers
  <2>3. /\ \A c \in Boots : c # b => jobs'[c] = jobs[c]
        /\ \/ jobs'[b] = NoJob /\ b # boots
           \/ /\ jobs'[b].op = jobs[b].op /\ jobs'[b].id = jobs[b].id
              /\ jobs'[b].old = jobs[b].old /\ jobs'[b].pc = pc
    BY <1>a, <2>2, StepEffect
  <2>4. At(b, "release", "receipt") /\ ~(b > boots)
    BY <1>21, <1>e DEF ReleaseReceipt, JobOK, At, NoJob
  <2>5. JobOK(b)'
    BY <1>a, <1>b, <1>e, <2>1, <2>2, <2>3, <2>4, <1>21, StillEffect
    DEF JobOK, NoJob, StageInv, FieldsOK, At, Making, MadeBy, Prepared, machine
  <2>6. ASSUME NEW c \in Boots, c # b PROVE JobOK(c)'
    <3>1. JobOK(c) /\ JobOK(b) /\ jobs'[c] = jobs[c]
      BY <1>e, <2>3, <2>6
    <3>2. Making(b) /\ Making(c) /\ jobs[b].id = jobs[c].id => pane # jobs[b].id
      BY <1>a, <2>6 DEF JobInv
    <3>. QED  BY <1>a, <1>b, <2>1, <2>4, <3>1, <3>2, <1>21, StillEffect
              DEF JobOK, StageInv, FieldsOK, At, Making, MadeBy, Prepared, machine
  <2>7. ASSUME NEW c \in Boots, NEW d \in Boots, c # d, Making(c)', Making(d)',
               jobs'[c].id = jobs'[d].id
        PROVE  pane' # jobs'[c].id
    BY <1>a, <1>b, <1>e, <2>2, <2>3, <2>4, <2>7, <1>21, StillEffect
    DEF JobOK, JobInv, FieldsOK, NoJob, At, Making, MadeBy, Prepared, machine
  <2>8. Linked'
    BY <1>b, <1>e, <2>1, <2>3 DEF Linked, FieldsOK
  <2>9. ASSUME NEW c \in Boots PROVE JobOK(c)'
    BY <2>5, <2>6
  <2>. QED  BY <2>7, <2>8, <2>9 DEF JobInv
<1>22. ASSUME NEW b \in Boots, ReleaseOpen(b) PROVE JobInv'
  <2>1. UNCHANGED <<ledger, run, worker, closed, boots>>
    BY <1>22, HostStep DEF PrepareStep, ReleaseStep
  <2>2. PICK pc : Step(b, pc) /\ (pc = "failed" \/ (pc = "mark" /\ jobs[b].id \in brokers))
    BY <1>22 DEF ReleaseOpen, Returns, At, Bound, Prepared, stage, pane, brokers
  <2>3. /\ \A c \in Boots : c # b => jobs'[c] = jobs[c]
        /\ \/ jobs'[b] = NoJob /\ b # boots
           \/ /\ jobs'[b].op = jobs[b].op /\ jobs'[b].id = jobs[b].id
              /\ jobs'[b].old = jobs[b].old /\ jobs'[b].pc = pc
    BY <1>a, <2>2, StepEffect
  <2>4. At(b, "release", "open") /\ ~(b > boots)
    BY <1>22, <1>e DEF ReleaseOpen, JobOK, At, NoJob
  <2>5. JobOK(b)'
    BY <1>a, <1>b, <1>e, <2>1, <2>2, <2>3, <2>4, <1>22, OpenEffect
    DEF JobOK, NoJob, StageInv, FieldsOK, At, Making, MadeBy, Prepared, machine
  <2>6. ASSUME NEW c \in Boots, c # b PROVE JobOK(c)'
    <3>1. JobOK(c) /\ JobOK(b) /\ jobs'[c] = jobs[c]
      BY <1>e, <2>3, <2>6
    <3>2. Making(b) /\ Making(c) /\ jobs[b].id = jobs[c].id => pane # jobs[b].id
      BY <1>a, <2>6 DEF JobInv
    <3>. QED  BY <1>a, <1>b, <2>1, <2>4, <3>1, <3>2, <1>22, OpenEffect
              DEF JobOK, StageInv, FieldsOK, At, Making, MadeBy, Prepared, machine
  <2>7. ASSUME NEW c \in Boots, NEW d \in Boots, c # d, Making(c)', Making(d)',
               jobs'[c].id = jobs'[d].id
        PROVE  pane' # jobs'[c].id
    BY <1>a, <1>b, <1>e, <2>2, <2>3, <2>4, <2>7, <1>22, OpenEffect
    DEF JobOK, JobInv, FieldsOK, NoJob, At, Making, MadeBy, Prepared, machine
  <2>8. Linked'
    BY <1>b, <1>e, <2>1, <2>3 DEF Linked, FieldsOK
  <2>9. ASSUME NEW c \in Boots PROVE JobOK(c)'
    BY <2>5, <2>6
  <2>. QED  BY <2>7, <2>8, <2>9 DEF JobInv
<1>23. ASSUME NEW b \in Boots, ReleaseMark(b) PROVE JobInv'
  <2>1. UNCHANGED <<ledger, run, worker, closed, boots>>
    BY <1>23, HostStep DEF PrepareStep, ReleaseStep
  <2>2. PICK pc : Step(b, pc) /\ (pc \in {"failed", "receipt"})
    BY <1>23 DEF ReleaseMark, Returns, At, Bound, Prepared, stage, pane, brokers
  <2>3. /\ \A c \in Boots : c # b => jobs'[c] = jobs[c]
        /\ \/ jobs'[b] = NoJob /\ b # boots
           \/ /\ jobs'[b].op = jobs[b].op /\ jobs'[b].id = jobs[b].id
              /\ jobs'[b].old = jobs[b].old /\ jobs'[b].pc = pc
    BY <1>a, <2>2, StepEffect
  <2>4. At(b, "release", "mark") /\ ~(b > boots)
    BY <1>23, <1>e DEF ReleaseMark, JobOK, At, NoJob
  <2>5. JobOK(b)'
    BY <1>a, <1>b, <1>e, <2>1, <2>2, <2>3, <2>4, <1>23, MarkEffect
    DEF JobOK, NoJob, StageInv, FieldsOK, At, Making, MadeBy, Prepared, machine
  <2>6. ASSUME NEW c \in Boots, c # b PROVE JobOK(c)'
    <3>1. JobOK(c) /\ JobOK(b) /\ jobs'[c] = jobs[c]
      BY <1>e, <2>3, <2>6
    <3>2. Making(b) /\ Making(c) /\ jobs[b].id = jobs[c].id => pane # jobs[b].id
      BY <1>a, <2>6 DEF JobInv
    <3>. QED  BY <1>a, <1>b, <2>1, <2>4, <3>1, <3>2, <1>23, MarkEffect
              DEF JobOK, StageInv, FieldsOK, At, Making, MadeBy, Prepared, machine
  <2>7. ASSUME NEW c \in Boots, NEW d \in Boots, c # d, Making(c)', Making(d)',
               jobs'[c].id = jobs'[d].id
        PROVE  pane' # jobs'[c].id
    BY <1>a, <1>b, <1>e, <2>2, <2>3, <2>4, <2>7, <1>23, MarkEffect
    DEF JobOK, JobInv, FieldsOK, NoJob, At, Making, MadeBy, Prepared, machine
  <2>8. Linked'
    BY <1>b, <1>e, <2>1, <2>3 DEF Linked, FieldsOK
  <2>9. ASSUME NEW c \in Boots PROVE JobOK(c)'
    BY <2>5, <2>6
  <2>. QED  BY <2>7, <2>8, <2>9 DEF JobInv
<1>24. CASE Cancel
  <2>1. UNCHANGED machine
    BY <1>24, OtherEffect, <1>a DEF Cancel
  <2>2. UNCHANGED <<jobs, boots>> /\ Linked'
    BY <1>24, <1>e DEF Cancel, Linked, Run, Interrupted
  <2>. QED  BY <1>d, <1>e, <2>1, <2>2 DEF machine, JobOK
<1>25. ASSUME NEW tomb \in {"dismissed", "archived"}, Discard(tomb) PROVE JobInv'
  <2>1. UNCHANGED machine
    BY <1>25, OtherEffect, <1>a DEF Discard
  <2>2. UNCHANGED <<jobs, boots>> /\ Linked'
    BY <1>25, <1>e DEF Discard, Linked, Run, Interrupted
  <2>. QED  BY <1>d, <1>e, <2>1, <2>2 DEF machine, JobOK
<1>26. CASE Dispatch
  <2>1. UNCHANGED machine
    BY <1>26, OtherEffect, <1>a DEF Dispatch
  <2>2. UNCHANGED <<jobs, boots>> /\ Linked'
    BY <1>26, <1>e DEF Dispatch, Linked, Run
  <2>. QED  BY <1>d, <1>e, <2>1, <2>2 DEF machine, JobOK
<1>27. CASE CompensateLook
  <2>1. UNCHANGED <<jobs, boots, run>>
    BY <1>27 DEF CompensateLook
  <2>2. /\ UNCHANGED stage /\ brokers' \subseteq brokers
        /\ pane' = pane \/ (pane' = Absent /\ (pane = Absent \/ Prepared(pane)))
    BY <1>27, <1>a, LookEffect DEF machine, StageInv, Prepared, Absent
  <2>. QED  BY <1>d, <1>e, <2>1, <2>2 DEF Linked, JobOK
<1>28. CASE CompensateKill
  <2>1. UNCHANGED <<jobs, boots, run>>
    BY <1>28 DEF CompensateKill
  <2>2. /\ UNCHANGED stage /\ brokers' \subseteq brokers
        /\ pane' = pane \/ (pane' = Absent /\ (pane = Absent \/ Prepared(pane)))
    BY <1>28, <1>a, CompensationEffect DEF machine, StageInv, Prepared, Absent
  <2>. QED  BY <1>d, <1>e, <2>1, <2>2 DEF Linked, JobOK
<1>29. CASE CompensateProve
  <2>1. UNCHANGED <<jobs, boots, run>>
    BY <1>29 DEF CompensateProve
  <2>2. /\ UNCHANGED stage /\ brokers' \subseteq brokers
        /\ pane' = pane \/ (pane' = Absent /\ (pane = Absent \/ Prepared(pane)))
    BY <1>29, <1>a, ProofEffect DEF machine, StageInv, Prepared, Absent
  <2>. QED  BY <1>d, <1>e, <2>1, <2>2 DEF Linked, JobOK
<1>30. CASE CompensateCommit
  <2>1. UNCHANGED machine
    BY <1>30, OtherEffect, <1>a DEF CompensateCommit
  <2>2. UNCHANGED <<jobs, boots>> /\ Linked'
    BY <1>30, <1>e DEF CompensateCommit, Linked, Run
  <2>. QED  BY <1>d, <1>e, <2>1, <2>2 DEF machine, JobOK
<1>31. CASE Work
  <2>1. UNCHANGED <<jobs, boots, run>>
    BY <1>31 DEF Work
  <2>2. /\ UNCHANGED stage /\ brokers' \subseteq brokers
        /\ pane' = pane \/ (pane' = Absent /\ (pane = Absent \/ Prepared(pane)))
    BY <1>31, <1>a, WorkEffect DEF machine, StageInv, Prepared, Absent
  <2>. QED  BY <1>d, <1>e, <2>1, <2>2 DEF Linked, JobOK
<1>32. CASE UNCHANGED vars
    <2>1. UNCHANGED machine
    BY <1>32, OtherEffect, <1>a DEF vars
  <2>. QED  BY <1>d, <1>e, <1>32, <2>1 DEF vars, machine, Linked, JobOK
<1>. QED
  BY <1>1, <1>2, <1>3, <1>4, <1>5, <1>6, <1>7, <1>8, <1>9, <1>10,
     <1>11, <1>12, <1>13, <1>14, <1>15, <1>16, <1>17, <1>18, <1>19,
     <1>20, <1>21, <1>22, <1>23, <1>24, <1>25, <1>26, <1>27, <1>28,
     <1>29, <1>30, <1>31, <1>32
  DEF Next, RunStep, WorkerStep, PrepareStep, ReleaseStep

\* Whoever is at work in the worktree is known to the owner.
LEMMA WorkersStep ==
  ASSUME HandoffInv, [Next]_vars
  PROVE  WorkerInv'
<1>a. TypeOK /\ LedgerInv /\ StageInv /\ JobInv /\ WorkerInv
  BY DEF HandoffInv
<1>b. FieldsOK
  BY <1>a, FieldTypes
<1>c. WorkerInv
  BY <1>a
<1>d. ASSUME alive' \subseteq alive, brokers' \subseteq brokers, alive' \subseteq brokers',
             \A k \in brokers' : k = pane',
             \A k \in brokers' : Answered(k) => Answered(k)',
             \A b \in Boots : jobs'[b].op = "release" =>
               \/ jobs[b].op = "release" /\ jobs'[b].id = jobs[b].id
               \/ \A k \in brokers' : k = jobs'[b].id => Answered(k)',
             ProvedGone', Unproved'
      PROVE  WorkerInv'
  BY <1>c, <1>d DEF WorkerInv
<1>1. CASE WorkerCompletes
  <2>1. /\ ledger'.launch = ledger.launch /\ ledger'.effect = ledger.effect
        /\ ledger'.invalidated = ledger.invalidated /\ ledger'.phase = ledger.phase
        /\ ledger'.tomb = ledger.tomb /\ UNCHANGED <<jobs, worker>>
    BY <1>1, <1>a DEF TypeOK, WorkerCompletes, Ledger
  <2>. QED  BY <1>1, <1>a, <1>c, <1>d, <2>1, CompletesEffect
            DEF WorkerInv, Answered, Owned, Ended, ProvedGone, Unproved, lost
<1>2. CASE IssueCloses
  <2>1. UNCHANGED machine
    BY <1>2, OtherEffect, <1>a DEF IssueCloses
  <2>2. \A k \in brokers : Answered(k) => Answered(k)'
    BY <1>2, <1>a, <2>1 DEF IssueCloses, TypeOK, LedgerInv, machine, Answered,
       Owned, Ended, Ledger, Effects, Run, Worker, lost, NoEffect, NoRun, NoJob,
       Resting
  <2>3. \A b \in Boots : jobs'[b].op = "release" =>
          (jobs[b].op = "release" /\ jobs'[b].id = jobs[b].id)
    BY <1>2, <1>a DEF TypeOK, IssueCloses, NoJob, Call
  <2>4. ProvedGone' /\ Unproved'
    BY <1>2, <1>a, <2>1 DEF ProvedGone, Unproved, WorkerInv, LedgerInv, TypeOK,
       machine, IssueCloses, Ledger, Effects, Run, Worker, lost, NoEffect, NoRun,
       NoJob, Resting
  <2>. QED  BY <1>c, <1>d, <2>1, <2>2, <2>3, <2>4 DEF machine, WorkerInv
<1>3. CASE Restart
  <2>1. UNCHANGED machine
    BY <1>3, OtherEffect, <1>a DEF Restart
  <2>2. \A k \in brokers : Answered(k) => Answered(k)'
    BY <1>3, <1>a, <2>1 DEF Restart, TypeOK, LedgerInv, machine, Answered, Owned,
       Ended, Ledger, Effects, Run, Worker, lost, NoEffect, NoRun, NoJob, Resting
  <2>3. \A b \in Boots : jobs'[b].op = "release" =>
          (jobs[b].op = "release" /\ jobs'[b].id = jobs[b].id)
    BY <1>3, <1>a DEF TypeOK, Restart, NoJob, Call
  <2>4. ProvedGone' /\ Unproved'
    BY <1>3, <1>a, <2>1 DEF ProvedGone, Unproved, WorkerInv, LedgerInv, TypeOK,
       machine, Restart, Ledger, Effects, Run, Worker, lost, NoEffect, NoRun,
       NoJob, Resting
  <2>. QED  BY <1>c, <1>d, <2>1, <2>2, <2>3, <2>4 DEF machine, WorkerInv
<1>4. ASSUME NEW kind \in Kinds, WorkArrives(kind) PROVE WorkerInv'
  <2>1. UNCHANGED machine
    BY <1>4, OtherEffect, <1>a DEF WorkArrives
  <2>2. \A k \in brokers : Answered(k) => Answered(k)'
    BY <1>4, <1>a, <2>1 DEF WorkArrives, TypeOK, LedgerInv, machine, Answered,
       Owned, Ended, Ledger, Effects, Run, Worker, lost, NoEffect, NoRun, NoJob,
       Resting
  <2>3. \A b \in Boots : jobs'[b].op = "release" =>
          (jobs[b].op = "release" /\ jobs'[b].id = jobs[b].id)
    BY <1>4, <1>a DEF TypeOK, WorkArrives, NoJob, Call
  <2>4. ProvedGone' /\ Unproved'
    BY <1>4, <1>a, <2>1 DEF ProvedGone, Unproved, WorkerInv, LedgerInv, TypeOK,
       machine, WorkArrives, Ledger, Effects, Run, Worker, lost, NoEffect, NoRun,
       NoJob, Resting
  <2>. QED  BY <1>c, <1>d, <2>1, <2>2, <2>3, <2>4 DEF machine, WorkerInv
<1>5. ASSUME NEW c \in Candidates, KeeperExpires(c) PROVE WorkerInv'
  <2>1. UNCHANGED machine
    BY <1>5, OtherEffect, <1>a DEF KeeperExpires
  <2>2. \A k \in brokers : Answered(k) => Answered(k)'
    BY <1>5, <1>a, <2>1 DEF KeeperExpires, TypeOK, LedgerInv, machine, Answered,
       Owned, Ended, Ledger, Effects, Run, Worker, lost, NoEffect, NoRun, NoJob,
       Resting
  <2>3. \A b \in Boots : jobs'[b].op = "release" =>
          (jobs[b].op = "release" /\ jobs'[b].id = jobs[b].id)
    BY <1>5, <1>a DEF TypeOK, KeeperExpires, NoJob, Call
  <2>4. ProvedGone' /\ Unproved'
    BY <1>5, <1>a, <2>1 DEF ProvedGone, Unproved, WorkerInv, LedgerInv, TypeOK,
       machine, KeeperExpires, Ledger, Effects, Run, Worker, lost, NoEffect, NoRun,
       NoJob, Resting
  <2>. QED  BY <1>c, <1>d, <2>1, <2>2, <2>3, <2>4 DEF machine, WorkerInv
<1>6. CASE PlanAndBegin
  <2>1. UNCHANGED machine
    BY <1>6, OtherEffect, <1>a DEF PlanAndBegin
  <2>2. \A k \in brokers : Answered(k) => Answered(k)'
    BY <1>6, <1>a, <2>1 DEF PlanAndBegin, TypeOK, LedgerInv, machine, Answered,
       Owned, Ended, Ledger, Effects, Run, Worker, lost, NoEffect, NoRun, NoJob,
       Resting
  <2>3. \A b \in Boots : jobs'[b].op = "release" =>
          (jobs[b].op = "release" /\ jobs'[b].id = jobs[b].id)
    BY <1>6, <1>a DEF TypeOK, PlanAndBegin, NoJob, Call
  <2>4. ProvedGone' /\ Unproved'
    BY <1>6, <1>a, <2>1 DEF ProvedGone, Unproved, WorkerInv, LedgerInv, TypeOK,
       machine, PlanAndBegin, Ledger, Effects, Run, Worker, lost, NoEffect, NoRun,
       NoJob, Resting
  <2>. QED  BY <1>c, <1>d, <2>1, <2>2, <2>3, <2>4 DEF machine, WorkerInv
<1>7. CASE Resume
  <2>1. UNCHANGED machine
    BY <1>7, OtherEffect, <1>a DEF Resume
  <2>2. \A k \in brokers : Answered(k) => Answered(k)'
    BY <1>7, <1>a, <2>1 DEF Resume, TypeOK, LedgerInv, machine, Answered, Owned,
       Ended, Ledger, Effects, Run, Worker, lost, NoEffect, NoRun, NoJob, Resting
  <2>3. \A b \in Boots : jobs'[b].op = "release" =>
          (jobs[b].op = "release" /\ jobs'[b].id = jobs[b].id)
    BY <1>7, <1>a DEF TypeOK, Resume, NoJob, Call
  <2>4. ProvedGone' /\ Unproved'
    BY <1>7, <1>a, <2>1 DEF ProvedGone, Unproved, WorkerInv, LedgerInv, TypeOK,
       machine, Resume, Ledger, Effects, Run, Worker, lost, NoEffect, NoRun, NoJob,
       Resting
  <2>. QED  BY <1>c, <1>d, <2>1, <2>2, <2>3, <2>4 DEF machine, WorkerInv
<1>8. CASE Verify
  <2>1. UNCHANGED machine
    BY <1>8, OtherEffect, <1>a DEF Verify
  <2>2. \A k \in brokers : Answered(k) => Answered(k)'
    BY <1>8, <1>a, <2>1 DEF Verify, TypeOK, LedgerInv, machine, Answered, Owned,
       Ended, Ledger, Effects, Run, Worker, lost, NoEffect, NoRun, NoJob, Resting
  <2>3. \A b \in Boots : jobs'[b].op = "release" =>
          (jobs[b].op = "release" /\ jobs'[b].id = jobs[b].id)
    BY <1>8, <1>a DEF TypeOK, Verify, NoJob, Call
  <2>4. ProvedGone' /\ Unproved'
    BY <1>8, <1>a, <2>1 DEF ProvedGone, Unproved, WorkerInv, LedgerInv, TypeOK,
       machine, Verify, Ledger, Effects, Run, Worker, lost, NoEffect, NoRun, NoJob,
       Resting
  <2>. QED  BY <1>c, <1>d, <2>1, <2>2, <2>3, <2>4 DEF machine, WorkerInv
<1>9. CASE CallReturns
  <2>1. UNCHANGED machine
    BY <1>9, OtherEffect, <1>a DEF CallReturns
  <2>2. \A k \in brokers : Answered(k) => Answered(k)'
    BY <1>9, <1>a, <2>1 DEF CallReturns, TypeOK, LedgerInv, machine, Answered,
       Owned, Ended, Ledger, Effects, Run, Worker, lost, NoEffect, NoRun, NoJob,
       Resting
  <2>3. \A b \in Boots : jobs'[b].op = "release" =>
          (jobs[b].op = "release" /\ jobs'[b].id = jobs[b].id)
    BY <1>9, <1>a DEF TypeOK, CallReturns, NoJob, Call
  <2>4. ProvedGone' /\ Unproved'
    BY <1>9, <1>a, <2>1 DEF ProvedGone, Unproved, WorkerInv, LedgerInv, TypeOK,
       machine, CallReturns, Ledger, Effects, Run, Worker, lost, NoEffect, NoRun,
       NoJob, Resting
  <2>. QED  BY <1>c, <1>d, <2>1, <2>2, <2>3, <2>4 DEF machine, WorkerInv
<1>10. CASE CallDies
  <2>1. UNCHANGED machine
    BY <1>10, OtherEffect, <1>a DEF CallDies
  <2>2. \A k \in brokers : Answered(k) => Answered(k)'
    BY <1>10, <1>a, <2>1 DEF CallDies, TypeOK, LedgerInv, machine, Answered, Owned,
       Ended, Ledger, Effects, Run, Worker, lost, NoEffect, NoRun, NoJob, Resting
  <2>3. \A b \in Boots : jobs'[b].op = "release" =>
          (jobs[b].op = "release" /\ jobs'[b].id = jobs[b].id)
    BY <1>10, <1>a DEF TypeOK, CallDies, NoJob, Call
  <2>4. ProvedGone' /\ Unproved'
    BY <1>10, <1>a, <2>1 DEF ProvedGone, Unproved, WorkerInv, LedgerInv, TypeOK,
       machine, CallDies, Ledger, Effects, Run, Worker, lost, NoEffect, NoRun,
       NoJob, Resting
  <2>. QED  BY <1>c, <1>d, <2>1, <2>2, <2>3, <2>4 DEF machine, WorkerInv
<1>11. ASSUME NEW b \in Boots, PrepareLook(b) PROVE WorkerInv'
  <2>1. UNCHANGED <<ledger, run, worker, closed, boots>>
    BY <1>11, HostStep DEF PrepareStep, ReleaseStep
  <2>2. PICK pc : Step(b, pc)
    BY <1>11 DEF PrepareLook, Returns
  <2>3. \A c \in Boots : jobs'[c].op = "release" =>
          jobs[c].op = "release" /\ jobs'[c].id = jobs[c].id
    BY <1>a, <2>2, StepEffect DEF NoJob
  <2>. QED
    BY <1>a, <1>b, <2>1, <2>3, <1>11, StillEffect
    DEF WorkerInv, Answered, Owned, Ended, ProvedGone, Unproved, PrepareLook, JobInv, JobOK, StageInv, FieldsOK,
        At, Making, MadeBy, Prepared, machine, lost
<1>12. ASSUME NEW b \in Boots, PrepareKeep(b) PROVE WorkerInv'
  <2>1. UNCHANGED <<ledger, run, worker, closed, boots>>
    BY <1>12, HostStep DEF PrepareStep, ReleaseStep
  <2>2. PICK pc : Step(b, pc)
    BY <1>12 DEF PrepareKeep, Returns
  <2>3. \A c \in Boots : jobs'[c].op = "release" =>
          jobs[c].op = "release" /\ jobs'[c].id = jobs[c].id
    BY <1>a, <2>2, StepEffect DEF NoJob
  <2>. QED
    BY <1>a, <1>b, <2>1, <2>3, <1>12, StillEffect
    DEF WorkerInv, Answered, Owned, Ended, ProvedGone, Unproved, PrepareKeep, JobInv, JobOK, StageInv, FieldsOK,
        At, Making, MadeBy, Prepared, machine, lost
<1>13. ASSUME NEW b \in Boots, PrepareStop(b) PROVE WorkerInv'
  <2>1. UNCHANGED <<ledger, run, worker, closed, boots>>
    BY <1>13, HostStep DEF PrepareStep, ReleaseStep
  <2>2. PICK pc : Step(b, pc)
    BY <1>13 DEF PrepareStop, Returns
  <2>3. \A c \in Boots : jobs'[c].op = "release" =>
          jobs[c].op = "release" /\ jobs'[c].id = jobs[c].id
    BY <1>a, <2>2, StepEffect DEF NoJob
  <2>. QED
    BY <1>a, <1>b, <2>1, <2>3, <1>13, StopEffect
    DEF WorkerInv, Answered, Owned, Ended, ProvedGone, Unproved, PrepareStop, JobInv, JobOK, StageInv, FieldsOK,
        At, Making, MadeBy, Prepared, machine, lost
<1>14. ASSUME NEW b \in Boots, PrepareKill(b) PROVE WorkerInv'
  <2>1. UNCHANGED <<ledger, run, worker, closed, boots>>
    BY <1>14, HostStep DEF PrepareStep, ReleaseStep
  <2>2. PICK pc : Step(b, pc)
    BY <1>14 DEF PrepareKill, Returns
  <2>3. \A c \in Boots : jobs'[c].op = "release" =>
          jobs[c].op = "release" /\ jobs'[c].id = jobs[c].id
    BY <1>a, <2>2, StepEffect DEF NoJob
  <2>. QED
    BY <1>a, <1>b, <2>1, <2>3, <1>14, KillEffect
    DEF WorkerInv, Answered, Owned, Ended, ProvedGone, Unproved, PrepareKill, JobInv, JobOK, StageInv, FieldsOK,
        At, Making, MadeBy, Prepared, machine, lost
<1>15. ASSUME NEW b \in Boots, PrepareCreate(b) PROVE WorkerInv'
  <2>1. UNCHANGED <<ledger, run, worker, closed, boots>>
    BY <1>15, HostStep DEF PrepareStep, ReleaseStep
  <2>2. PICK pc : Step(b, pc)
    BY <1>15 DEF PrepareCreate, Returns
  <2>3. \A c \in Boots : jobs'[c].op = "release" =>
          jobs[c].op = "release" /\ jobs'[c].id = jobs[c].id
    BY <1>a, <2>2, StepEffect DEF NoJob
  <2>4. \A k \in Launches : Answered(k)' = Answered(k)
    BY <2>1, <1>15, <1>a, CreateEffect DEF Answered, Owned, Ended, lost, machine
  <2>5. UNCHANGED <<brokers, alive, proofs>> /\ (pane' = pane \/ brokers = {})
    BY <1>b, <1>c, <1>15, <1>a, CreateEffect DEF machine, WorkerInv, FieldsOK
  <2>. QED  BY <1>b, <1>c, <2>1, <2>3, <2>4, <2>5
            DEF WorkerInv, FieldsOK, ProvedGone, Unproved, lost
<1>16. ASSUME NEW b \in Boots, PrepareBind(b) PROVE WorkerInv'
  <2>1. UNCHANGED <<ledger, run, worker, closed, boots>>
    BY <1>16, HostStep DEF PrepareStep, ReleaseStep
  <2>2. PICK pc : Step(b, pc)
    BY <1>16 DEF PrepareBind, Returns
  <2>3. \A c \in Boots : jobs'[c].op = "release" =>
          jobs[c].op = "release" /\ jobs'[c].id = jobs[c].id
    BY <1>a, <2>2, StepEffect DEF NoJob
  <2>. QED
    BY <1>a, <1>b, <2>1, <2>3, <1>16, BindEffect
    DEF WorkerInv, Answered, Owned, Ended, ProvedGone, Unproved, PrepareBind, JobInv, JobOK, StageInv, FieldsOK,
        At, Making, MadeBy, Prepared, machine, lost
<1>17. ASSUME NEW b \in Boots, PrepareBroker(b) PROVE WorkerInv'
  <2>1. UNCHANGED <<ledger, run, worker, closed, boots>>
    BY <1>17, HostStep DEF PrepareStep, ReleaseStep
  <2>2. PICK pc : Step(b, pc)
    BY <1>17 DEF PrepareBroker, Returns
  <2>3. \A c \in Boots : jobs'[c].op = "release" =>
          jobs[c].op = "release" /\ jobs'[c].id = jobs[c].id
    BY <1>a, <2>2, StepEffect DEF NoJob
  <2>4. \A k \in Launches : Answered(k)' = Answered(k)
    BY <2>1, <1>17, <1>a, BrokerEffect DEF Answered, Owned, Ended, lost, machine
  <2>5. CASE UNCHANGED machine
    BY <1>b, <1>c, <2>1, <2>3, <2>4, <2>5
    DEF machine, WorkerInv, FieldsOK, ProvedGone, Unproved, lost
  <2>6. CASE pane = jobs[b].id /\ brokers' = brokers \cup {pane}
             /\ UNCHANGED <<pane, alive, proofs>>
    <3>1. ~Prepared(pane)
      BY <1>a, <2>6, <1>17 DEF PrepareBroker, At, JobInv, JobOK, MadeBy, Prepared
    <3>2. \A c \in Boots : jobs[c].op = "release" => jobs[c].id # pane
      BY <1>a, <3>1 DEF JobInv, JobOK
    <3>3. lost.certified => lost.id # pane
      BY <1>a, <3>1 DEF StageInv
    <3>. QED  BY <1>b, <1>c, <2>1, <2>3, <2>4, <2>6, <3>2, <3>3
              DEF WorkerInv, FieldsOK, ProvedGone, Unproved, lost
  <2>. QED  BY <2>5, <2>6, <1>17, <1>a, BrokerEffect
<1>18. ASSUME NEW b \in Boots, ReleaseCheck(b) PROVE WorkerInv'
  <2>1. UNCHANGED <<ledger, run, worker, closed, boots>>
    BY <1>18, HostStep DEF PrepareStep, ReleaseStep
  <2>2. PICK pc : Step(b, pc)
    BY <1>18 DEF ReleaseCheck, Returns
  <2>3. \A c \in Boots : jobs'[c].op = "release" =>
          jobs[c].op = "release" /\ jobs'[c].id = jobs[c].id
    BY <1>a, <2>2, StepEffect DEF NoJob
  <2>. QED
    BY <1>a, <1>b, <2>1, <2>3, <1>18, StillEffect
    DEF WorkerInv, Answered, Owned, Ended, ProvedGone, Unproved, ReleaseCheck, JobInv, JobOK, StageInv, FieldsOK,
        At, Making, MadeBy, Prepared, machine, lost
<1>19. ASSUME NEW b \in Boots, ReleaseReceipt(b) PROVE WorkerInv'
  <2>1. UNCHANGED <<ledger, run, worker, closed, boots>>
    BY <1>19, HostStep DEF PrepareStep, ReleaseStep
  <2>2. PICK pc : Step(b, pc)
    BY <1>19 DEF ReleaseReceipt, Returns
  <2>3. \A c \in Boots : jobs'[c].op = "release" =>
          jobs[c].op = "release" /\ jobs'[c].id = jobs[c].id
    BY <1>a, <2>2, StepEffect DEF NoJob
  <2>. QED
    BY <1>a, <1>b, <2>1, <2>3, <1>19, StillEffect
    DEF WorkerInv, Answered, Owned, Ended, ProvedGone, Unproved, ReleaseReceipt, JobInv, JobOK, StageInv, FieldsOK,
        At, Making, MadeBy, Prepared, machine, lost
<1>20. ASSUME NEW b \in Boots, ReleaseOpen(b) PROVE WorkerInv'
  <2>1. UNCHANGED <<ledger, run, worker, closed, boots>>
    BY <1>20, HostStep DEF PrepareStep, ReleaseStep
  <2>2. PICK pc : Step(b, pc)
    BY <1>20 DEF ReleaseOpen, Returns
  <2>3. \A c \in Boots : jobs'[c].op = "release" =>
          jobs[c].op = "release" /\ jobs'[c].id = jobs[c].id
    BY <1>a, <2>2, StepEffect DEF NoJob
  <2>4. \A k \in Launches : Answered(k)' = Answered(k)
    BY <2>1, <1>20, <1>a, OpenEffect DEF Answered, Owned, Ended, lost, machine
  <2>5. UNCHANGED <<brokers, pane, proofs>> /\ alive' \subseteq alive \cup {jobs[b].id}
        /\ (alive' = alive \/ jobs[b].id \in brokers)
    BY <1>20, <1>a, OpenEffect DEF machine
  <2>6. jobs[b].id \in brokers => Answered(jobs[b].id)
    BY <1>c, <1>20 DEF WorkerInv, ReleaseOpen, At
  <2>. QED  BY <1>b, <1>c, <2>1, <2>3, <2>4, <2>5, <2>6
            DEF WorkerInv, FieldsOK, ProvedGone, Unproved, lost
<1>21. ASSUME NEW b \in Boots, ReleaseMark(b) PROVE WorkerInv'
  <2>1. UNCHANGED <<ledger, run, worker, closed, boots>>
    BY <1>21, HostStep DEF PrepareStep, ReleaseStep
  <2>2. PICK pc : Step(b, pc)
    BY <1>21 DEF ReleaseMark, Returns
  <2>3. \A c \in Boots : jobs'[c].op = "release" =>
          jobs[c].op = "release" /\ jobs'[c].id = jobs[c].id
    BY <1>a, <2>2, StepEffect DEF NoJob
  <2>. QED
    BY <1>a, <1>b, <2>1, <2>3, <1>21, MarkEffect
    DEF WorkerInv, Answered, Owned, Ended, ProvedGone, Unproved, ReleaseMark, JobInv, JobOK, StageInv, FieldsOK,
        At, Making, MadeBy, Prepared, machine, lost
<1>22. CASE Cancel
  <2>1. UNCHANGED machine
    BY <1>22, OtherEffect, <1>a DEF Cancel
  <2>2. \A k \in brokers : Answered(k) => Answered(k)'
    <3>1. ledger.phase = "none" => lost = NoEffect /\ ledger.tomb = "none"
      BY <1>a DEF LedgerInv
    <3>2. ledger.phase = "none" => \A k \in Candidates : proofs[k] = NoProof
      BY <1>c DEF WorkerInv, Unproved
    <3>3. /\ ledger'.launch = ledger.launch /\ ledger'.effect = NoEffect
          /\ ledger'.invalidated = ledger.effect /\ ledger'.phase # "completed"
      BY <1>22, <1>a DEF TypeOK, Cancel, Invalidated, Ledger
    <3>4. ledger.effect.certified => ledger.effect.id \in Candidates
      <4>1. ledger.effect.certified => ledger.effect # NoEffect
        BY DEF NoEffect
      <4>. QED  BY <4>1, <1>a, HandoffAssumption DEF LedgerInv, TypeOK, Ledger,
           Candidates
    <3>5. ledger.phase = "none"
      BY <1>22, <1>a DEF LedgerInv, Cancel
    <3>. QED  BY <2>1, <3>1, <3>2, <3>3, <3>4, <3>5
              DEF Answered, Owned, Ended, lost, machine, NoEffect
  <2>3. \A b \in Boots : jobs'[b].op = "release" =>
          (jobs[b].op = "release" /\ jobs'[b].id = jobs[b].id)
    BY <1>22, <1>a DEF TypeOK, Cancel, NoJob, Call
  <2>4. ProvedGone' /\ Unproved'
    BY <1>22, <1>a, <2>1 DEF ProvedGone, Unproved, WorkerInv, LedgerInv, TypeOK,
       machine, Cancel, Ledger, Effects, Run, Worker, lost, NoEffect, NoRun, NoJob,
       Resting
  <2>. QED  BY <1>c, <1>d, <2>1, <2>2, <2>3, <2>4 DEF machine, WorkerInv
<1>23. ASSUME NEW tomb \in {"dismissed", "archived"}, Discard(tomb) PROVE WorkerInv'
  <2>1. UNCHANGED machine
    BY <1>23, OtherEffect, <1>a DEF Discard
  <2>2. \A k \in brokers : Answered(k) => Answered(k)'
    <3>1. ledger.phase = "none" => lost = NoEffect /\ ledger.tomb = "none"
      BY <1>a DEF LedgerInv
    <3>2. ledger.phase = "none" => \A k \in Candidates : proofs[k] = NoProof
      BY <1>c DEF WorkerInv, Unproved
    <3>3. /\ ledger'.launch = ledger.launch /\ ledger'.effect = NoEffect
          /\ ledger'.invalidated = ledger.effect /\ ledger'.phase # "completed"
      BY <1>23, <1>a DEF TypeOK, Discard, Invalidated, Ledger
    <3>4. ledger.effect.certified => ledger.effect.id \in Candidates
      <4>1. ledger.effect.certified => ledger.effect # NoEffect
        BY DEF NoEffect
      <4>. QED  BY <4>1, <1>a, HandoffAssumption DEF LedgerInv, TypeOK, Ledger,
           Candidates
    <3>5. ledger.phase = "none" \/ Ended
      BY <1>23 DEF Discard, Ended
    <3>. QED  BY <2>1, <3>1, <3>2, <3>3, <3>4, <3>5
              DEF Answered, Owned, Ended, lost, machine, NoEffect
  <2>3. \A b \in Boots : jobs'[b].op = "release" =>
          (jobs[b].op = "release" /\ jobs'[b].id = jobs[b].id)
    BY <1>23, <1>a DEF TypeOK, Discard, NoJob, Call
  <2>4. ProvedGone' /\ Unproved'
    BY <1>23, <1>a, <2>1 DEF ProvedGone, Unproved, WorkerInv, LedgerInv, TypeOK,
       machine, Discard, Ledger, Effects, Run, Worker, lost, NoEffect, NoRun,
       NoJob, Resting
  <2>. QED  BY <1>c, <1>d, <2>1, <2>2, <2>3, <2>4 DEF machine, WorkerInv
<1>24. CASE Dispatch
  <2>1. UNCHANGED machine
    BY <1>24, OtherEffect, <1>a DEF Dispatch
  <2>2. \A k \in brokers : Answered(k) => Answered(k)'
    <3>1. CASE UNCHANGED ledger
      BY <2>1, <3>1 DEF machine, Answered, Owned, Ended, lost
    <3>2. CASE ledger' = Settled
      <4>1. \/ ledger.phase = "stop-pending" /\ pane = Absent
            \/ ledger.tomb = "dismissed" \/ UNCHANGED ledger
        BY <1>24 DEF Dispatch, pane
      <4>2. pane = Absent => brokers = {}
        BY <1>b, <1>c DEF FieldsOK, WorkerInv
      <4>3. /\ ledger'.launch = ledger.launch /\ ledger'.effect = ledger.effect
            /\ ledger'.invalidated = ledger.invalidated /\ ledger'.tomb = ledger.tomb
        BY <1>a, <3>2, SettledKeeps DEF TypeOK
      <4>4. ~UNCHANGED ledger => brokers = {} \/ ledger.tomb = "dismissed"
        BY <4>1, <4>2
      <4>. QED  BY <2>1, <3>1, <4>3, <4>4 DEF machine, Answered, Owned, Ended, lost
    <3>. QED  BY <3>1, <3>2, <1>24 DEF Dispatch
  <2>3. \A b \in Boots : jobs'[b].op = "release" =>
          (jobs[b].op = "release" /\ jobs'[b].id = jobs[b].id)
    BY <1>24, <1>a DEF TypeOK, Dispatch, NoJob, Call
  <2>4. ProvedGone' /\ Unproved'
    <3>1. worker'.pc # "prove" /\ ledger'.phase # "none"
      BY <1>24, <1>a, SettledKeeps DEF Dispatch, TypeOK, Worker, Pending
    <3>. QED  BY <3>1 DEF ProvedGone, Unproved
  <2>. QED  BY <1>c, <1>d, <2>1, <2>2, <2>3, <2>4 DEF machine, WorkerInv
<1>25. CASE CompensateCommit
  <2>1. UNCHANGED machine
    BY <1>25, OtherEffect, <1>a DEF CompensateCommit
  <2>2. \A k \in brokers : Answered(k) => Answered(k)'
    BY <1>25, <1>a, <2>1, CommitKeeps DEF TypeOK, machine, Answered, Owned, Ended,
       lost
  <2>3. \A b \in Boots : jobs'[b].op = "release" =>
          (jobs[b].op = "release" /\ jobs'[b].id = jobs[b].id)
    BY <1>25, <1>a DEF TypeOK, CompensateCommit, NoJob, Call
  <2>4. ProvedGone' /\ Unproved'
    <3>1. worker'.pc # "prove"
      BY <1>25, <1>a DEF CompensateCommit, TypeOK, Worker, Do, Rest, Resting
    <3>. QED  BY <1>a, <1>c, <2>1, <3>1, <1>25, CommitKeeps
              DEF ProvedGone, Unproved, WorkerInv, TypeOK, machine
  <2>. QED  BY <1>c, <1>d, <2>1, <2>2, <2>3, <2>4 DEF machine, WorkerInv
<1>26. CASE Certify
  <2>1. UNCHANGED machine
    BY <1>26, OtherEffect, <1>a DEF Certify
  <2>2. CASE Current(run.id)
    <3>1. ledger.effect # NoEffect /\ ledger.effect.id = run.id
      BY <2>2, <1>26, <1>a DEF Certify, Current, LedgerInv, NoEffect
    <3>2. PICK e \in Effects :
            /\ ledger' = [ledger EXCEPT !.effect = e] /\ e.id = ledger.effect.id
            /\ e.old = ledger.effect.old /\ e.certified /\ e # NoEffect
      BY <2>2, <3>1, <1>26, <1>a, CertifyShape DEF Certify, TypeOK
    <3>3. /\ ledger'.launch = ledger.launch /\ ledger'.invalidated = ledger.invalidated
          /\ ledger'.phase = ledger.phase /\ ledger'.tomb = ledger.tomb
          /\ ledger'.effect = e /\ ledger.phase = "none"
      BY <1>a, <3>1, <3>2 DEF TypeOK, Ledger, LedgerInv
    <3>4. \A k \in brokers : (Answered(k) => Answered(k)') /\ (k = run.id => Answered(k)')
      BY <2>1, <3>1, <3>2, <3>3 DEF Answered, Owned, Ended, lost, machine
    <3>5. \A b \in Boots : jobs'[b].op = "release" =>
             (jobs[b].op = "release" /\ jobs'[b].id = jobs[b].id) \/ jobs'[b].id = run.id
      BY <1>a, <2>2, <1>26 DEF TypeOK, Certify, Call
    <3>6. ProvedGone' /\ Unproved'
      BY <1>c, <2>1, <3>3, <1>26 DEF Certify, ProvedGone, Unproved, WorkerInv,
         machine, lost
    <3>. QED  BY <1>c, <1>d, <2>1, <3>4, <3>5, <3>6 DEF machine, WorkerInv
  <2>3. CASE ~Current(run.id)
    <3>1. \A b \in Boots : jobs'[b].op = "release" =>
             jobs[b].op = "release" /\ jobs'[b].id = jobs[b].id
      BY <1>a, <2>3, <1>26 DEF TypeOK, Certify, NoJob
    <3>2. UNCHANGED <<ledger, worker>>
      BY <2>3, <1>26 DEF Certify
    <3>. QED  BY <1>c, <2>1, <3>1, <3>2
              DEF WorkerInv, machine, Answered, Owned, Ended, ProvedGone, Unproved, lost
  <2>. QED  BY <2>2, <2>3
<1>27. CASE Confirm
  <2>1. UNCHANGED machine /\ UNCHANGED <<jobs, worker>>
    BY <1>27, OtherEffect, <1>a DEF Confirm
  <2>2. CASE Applied(run.id) /\ Current(run.id)
    <3>1. PICK s \in States :
            ledger' = [ledger EXCEPT !.launch = run.id, !.effect = NoEffect,
                                     !.due = "none", !.state = s]
      BY <2>2, <1>27, <1>a, DeliveredShape DEF Confirm, TypeOK
    <3>2. /\ ledger'.launch = run.id /\ ledger'.invalidated = ledger.invalidated
          /\ ledger'.phase = ledger.phase /\ ledger'.tomb = ledger.tomb
      BY <1>a, <3>1 DEF TypeOK, Ledger
    <3>3. \A k \in brokers : k = run.id
      BY <1>c, <2>2 DEF Applied, pane, WorkerInv
    <3>4. \A k \in brokers : Answered(k) => Answered(k)'
      BY <3>2, <3>3 DEF Answered, Owned, Ended
    <3>5. ProvedGone' /\ Unproved'
      BY <1>c, <2>1, <3>2 DEF ProvedGone, Unproved, WorkerInv, machine, lost
    <3>. QED  BY <1>c, <1>d, <2>1, <3>4, <3>5 DEF machine, WorkerInv
  <2>3. CASE ~(Applied(run.id) /\ Current(run.id))
    BY <1>c, <2>1, <2>3, <1>27
    DEF Confirm, WorkerInv, machine, Answered, Owned, Ended, ProvedGone, Unproved, lost
  <2>. QED  BY <2>2, <2>3
<1>28. CASE CompensateLook
  <2>1. UNCHANGED <<ledger, jobs>> /\ UNCHANGED <<pane, proofs>>
    BY <1>28, <1>a, LookEffect DEF CompensateLook, machine
  <2>2. \A k \in brokers : Answered(k)' = Answered(k)
    BY <2>1 DEF Answered, Owned, Ended, lost
  <2>3. /\ brokers' \subseteq brokers /\ alive' \subseteq alive /\ alive' \subseteq brokers'
        /\ worker'.pc = "prove" /\ lost.certified => lost.id \notin brokers'
    BY <1>28, <1>a, <1>c, LookEffect DEF machine, WorkerInv
  <2>. QED  BY <1>c, <1>d, <2>1, <2>2, <2>3 DEF WorkerInv, ProvedGone, Unproved,
       lost
<1>29. CASE CompensateKill
  <2>1. UNCHANGED <<ledger, jobs>> /\ UNCHANGED proofs
    BY <1>29, <1>a, CompensationEffect DEF CompensateKill, machine
  <2>2. \A k \in brokers : Answered(k)' = Answered(k)
    BY <2>1 DEF Answered, Owned, Ended, lost
  <2>3. \/ UNCHANGED machine /\ worker'.pc = "idle"
        \/ brokers' = {} /\ alive' = {}
    <3>1. Resting.pc = "idle"
      BY DEF Resting
    <3>. QED  BY <1>29, <1>a, <1>c, <3>1, CompensationEffect DEF machine, WorkerInv
  <2>. QED  BY <1>c, <1>d, <2>1, <2>2, <2>3 DEF machine, WorkerInv, ProvedGone,
       Unproved, lost
<1>30. CASE CompensateProve
  <2>1. UNCHANGED <<ledger, jobs>> /\ UNCHANGED <<pane, stage, brokers, alive>>
    BY <1>30, <1>a, ProofEffect DEF CompensateProve
  <2>2. \A k \in brokers : Answered(k) => Answered(k)'
    BY <1>30, <1>a, <1>b, <1>c, <2>1, ProofEffect
    DEF CompensateProve, Answered, Owned, Ended, lost, WorkerInv, ProvedGone, FieldsOK
  <2>3. ProvedGone' /\ Unproved'
    BY <1>30, <1>a, <1>c, <2>1
    DEF CompensateProve, LedgerInv, WorkerInv, ProvedGone, Unproved, Do, TypeOK, Worker, lost
  <2>. QED  BY <1>c, <1>d, <2>1, <2>2, <2>3 DEF WorkerInv
<1>31. CASE Work
  <2>1. UNCHANGED jobs /\ worker' = Resting /\ Resting.pc = "idle"
    BY <1>31 DEF Work, Rest, Resting
  <2>2. CASE UNCHANGED <<ledger, machine>>
    BY <1>c, <2>1, <2>2
    DEF WorkerInv, machine, Answered, Owned, Ended, ProvedGone, Unproved, lost
  <2>3. CASE ledger' = Settled
    <3>1. /\ ledger'.launch = ledger.launch /\ ledger'.effect = ledger.effect
          /\ ledger'.invalidated = ledger.invalidated /\ ledger'.tomb = ledger.tomb
          /\ ledger'.phase = "completed"
      BY <1>a, <2>3, SettledKeeps DEF TypeOK
    <3>2. ProvedGone' /\ Unproved'
      BY <2>1, <3>1 DEF ProvedGone, Unproved
    <3>3. CASE ledger.tomb = "dismissed" /\ UNCHANGED machine
      <4>1. \A k \in brokers : Answered(k) => Answered(k)'
        BY <3>1, <3>3 DEF Answered, Owned, Ended, lost, machine
      <4>. QED  BY <1>c, <1>d, <2>1, <3>2, <3>3, <4>1 DEF machine, WorkerInv
    <3>4. CASE /\ pane \in {ledger.launch, Absent} /\ brokers' = brokers \ {ledger.launch}
               /\ alive' = alive \ {ledger.launch}
      <4>1. brokers' = {} /\ alive' = {}
        BY <1>b, <1>c, <3>4 DEF WorkerInv, FieldsOK
      <4>. QED  BY <1>d, <2>1, <3>2, <4>1
    <3>5. CASE UNCHANGED <<ledger, machine>>
      BY <2>2, <3>5
    <3>. QED  BY <1>a, <3>3, <3>4, <3>5, <1>31, WorkEffect
  <2>. QED  BY <1>a, <2>2, <2>3, <1>31, WorkEffect
<1>32. CASE UNCHANGED vars
    <2>1. UNCHANGED machine
    BY <1>32, OtherEffect, <1>a DEF vars
  <2>. QED  BY <1>c, <1>32, <2>1 DEF vars, machine, WorkerInv, Answered, Owned,
       Ended,
            ProvedGone, Unproved, lost
<1>. QED
  BY <1>1, <1>2, <1>3, <1>4, <1>5, <1>6, <1>7, <1>8, <1>9, <1>10,
     <1>11, <1>12, <1>13, <1>14, <1>15, <1>16, <1>17, <1>18, <1>19,
     <1>20, <1>21, <1>22, <1>23, <1>24, <1>25, <1>26, <1>27, <1>28,
     <1>29, <1>30, <1>31, <1>32
  DEF Next, RunStep, WorkerStep, PrepareStep, ReleaseStep

\* The records at rest have their types.
LEMMA AtRest ==
  NoEffect \in Effects /\ NoJob \in Job /\ NoRun \in Run /\ Resting \in Worker
BY HandoffAssumption DEF NoEffect, Effects, NoJob, Job, Calls, NoRun, Run, Resting,
   Worker, Launches

\* The owner's record keeps its type.
LEMMA LedgerTyped ==
  ASSUME TypeOK, [Next]_vars
  PROVE  ledger' \in Ledger
<1>a. ledger \in Ledger /\ run \in Run /\ closed \in BOOLEAN
  BY DEF TypeOK
<1>b. NoEffect \in Effects
  BY AtRest
<1>. USE <1>a
<1>1. ASSUME WorkerCompletes PROVE ledger' \in Ledger
  BY <1>1 DEF WorkerCompletes, Ledger, States
<1>2. ASSUME NEW kind \in Kinds, WorkArrives(kind) PROVE ledger' \in Ledger
  <2>1. ledger.queued + 1 \in 0..MaxHandoffs
    BY <1>2, HandoffAssumption DEF WorkArrives, Ledger
  <2>. QED  BY <1>2, <2>1 DEF WorkArrives, Ledger
<1>3. ASSUME PlanAndBegin PROVE ledger' \in Ledger
  <2>. DEFINE id == ledger.drawn + 1
              w  == [ledger.works EXCEPT ![id] = ledger.queued]
              e  == [id |-> id, kind |-> ledger.due, old |-> ledger.launch,
                     seen |-> closed, certified |-> FALSE]
  <2>1. id \in 0..MaxHandoffs
    BY <1>3, HandoffAssumption DEF PlanAndBegin, Ledger
  <2>2. w \in [Candidates -> 0..MaxHandoffs]
    BY DEF Ledger
  <2>3. e \in Effects
    BY <2>1 DEF Ledger, Effects
  <2>4. ledger' = [ledger EXCEPT !.drawn = id, !.works = w, !.effect = e]
    BY <1>3 DEF PlanAndBegin, Ledger
  <2>. HIDE DEF id, w, e
  <2>. QED  BY <2>1, <2>2, <2>3, <2>4 DEF Ledger
<1>4. ASSUME Certify PROVE ledger' \in Ledger
  <2>1. CASE Current(run.id)
    <3>1. ledger' = [ledger EXCEPT !.effect.certified = TRUE]
      BY <1>4, <2>1 DEF Certify
    <3>2. [ledger.effect EXCEPT !.certified = TRUE] \in Effects
      BY DEF Ledger, Effects
    <3>. QED  BY <3>1, <3>2 DEF Ledger
  <2>2. CASE ~Current(run.id)
    BY <1>4, <2>2 DEF Certify
  <2>. QED  BY <2>1, <2>2
<1>5. ASSUME Confirm PROVE ledger' \in Ledger
  <2>1. run.id \in Launches
    BY DEF Run, Launches
  <2>2. CASE ledger' = Delivered
    BY <2>1, <2>2, <1>b, DeliveredShape DEF Ledger
  <2>. QED  BY <2>2, <1>5 DEF Confirm
<1>6. ASSUME Cancel PROVE ledger' \in Ledger
  <2>1. PICK d \in {"none"} \cup Kinds :
          ledger' = [ledger EXCEPT !.effect = NoEffect, !.invalidated = ledger.effect,
                                   !.certified = FALSE, !.phase = "stop-pending", !.due = d]
    <3>1. CASE ledger.due = "recovery"
      BY <1>6, <3>1 DEF Cancel, Invalidated, Ledger
    <3>2. CASE ledger.due # "recovery"
      BY <1>6, <3>2 DEF Cancel, Invalidated, Ledger
    <3>. QED  BY <3>1, <3>2
  <2>. QED  BY <2>1, <1>b DEF Ledger, Phases
<1>7. ASSUME NEW tomb \in {"dismissed", "archived"}, Discard(tomb)
      PROVE ledger' \in Ledger
  <2>1. PICK p \in Phases :
          ledger' = [ledger EXCEPT !.effect = NoEffect, !.invalidated = ledger.effect,
                                   !.tomb = tomb, !.due = "none", !.phase = p]
    BY <1>7 DEF Discard, Invalidated, Ledger, Phases
  <2>. QED  BY <2>1, <1>b DEF Ledger, Tombs
<1>8. Settled \in Ledger
  BY SettledShape DEF Ledger, Phases
<1>9. ASSUME Dispatch PROVE ledger' \in Ledger
  BY <1>9, <1>8 DEF Dispatch
<1>10. ASSUME CompensateCommit PROVE ledger' \in Ledger
  <2>1. CASE ledger.phase = "handoff-cleanup"
    <3>1. ledger' = [ledger EXCEPT !.compensated = TRUE, !.phase = "cleanup-pending"]
      BY <1>10, <2>1 DEF CompensateCommit
    <3>. QED  BY <3>1 DEF Ledger, Phases
  <2>2. CASE ledger.phase # "handoff-cleanup"
    BY <1>10, <2>2 DEF CompensateCommit
  <2>. QED  BY <2>1, <2>2
<1>11. ASSUME Work PROVE ledger' \in Ledger
  BY <1>11, <1>8 DEF Work
<1>12. ASSUME NEW b \in Boots, PrepareStep(b) \/ ReleaseStep(b) PROVE ledger' \in Ledger
  BY <1>12, HostStep
<1>13. ASSUME \/ IssueCloses \/ Restart \/ Resume \/ Verify \/ CallReturns \/ CallDies
              \/ CompensateLook \/ CompensateKill \/ CompensateProve \/ UNCHANGED vars
              \/ \E k \in Candidates : KeeperExpires(k)
       PROVE  ledger' \in Ledger
  BY <1>13 DEF IssueCloses, Restart, Resume, Verify, CallReturns, CallDies,
     KeeperExpires,
     CompensateLook, CompensateKill, CompensateProve, vars
<1>. QED
  BY <1>1, <1>2, <1>3, <1>4, <1>5, <1>6, <1>7, <1>9, <1>10, <1>11, <1>12, <1>13
  DEF Next, RunStep, WorkerStep

\* The machine keeps its type.
LEMMA HostTyped ==
  ASSUME TypeOK, LedgerInv, JobInv, [Next]_vars
  PROVE  host' \in Host
<1>a. host \in Host /\ ledger \in Ledger /\ worker \in Worker /\ jobs \in [Boots -> Job]
  BY DEF TypeOK
<1>. USE <1>a
<1>b. \A k : BrokerStopped(k) \in Host
  BY DEF BrokerStopped, Host
<1>c. \A h \in Host : \A p \in {Stray, Absent} \cup Launches : [h EXCEPT !.pane = p] \in Host
  BY DEF Host
<1>d. \A b \in Boots : /\ jobs[b].id \in Launches /\ jobs[b].old \in Launches
                       /\ jobs[b].op # "none" => jobs[b].id \in Candidates
  BY HandoffAssumption DEF JobInv, JobOK, Job, Launches, Candidates, Ledger
<1>e. ledger.drawn \in Nat /\ ledger.drawn <= MaxHandoffs
  BY HandoffAssumption DEF Ledger
<1>1. ASSUME WorkerCompletes PROVE host' \in Host
  BY <1>1 DEF WorkerCompletes, Host
<1>2. ASSUME NEW k \in Candidates, KeeperExpires(k) PROVE host' \in Host
  BY <1>2 DEF KeeperExpires, Host
<1>3. ASSUME NEW b \in Boots, PrepareStep(b) PROVE host' \in Host
  <2>1. [host EXCEPT !.keepers = @ \ {jobs[b].id}] \in Host
    BY DEF Host
  <2>2. CASE PrepareLook(b)
    BY <2>2 DEF PrepareLook
  <2>3. CASE PrepareKeep(b)
    BY <2>3, <1>d DEF PrepareKeep, At, Host
  <2>4. CASE PrepareStop(b)
    BY <2>4, <2>1, <1>b DEF PrepareStop, Returns
  <2>5. CASE PrepareKill(b)
    <3>1. [host EXCEPT !.pane = Absent] \in Host
      BY <1>c
    <3>2. \/ host' = [host EXCEPT !.pane = Absent]
          \/ host' = [host EXCEPT !.keepers = @ \ {jobs[b].id}]
      BY <2>5 DEF PrepareKill, Returns
    <3>. QED  BY <2>1, <3>1, <3>2
  <2>6. CASE PrepareCreate(b)
    <3>1. [host EXCEPT !.pane = jobs[b].id, !.stage[jobs[b].id] = "created"] \in Host
      BY <1>d DEF Host, Stages
    <3>. QED  BY <2>6, <2>1, <1>c, <3>1 DEF PrepareCreate, Returns
  <2>7. CASE PrepareBind(b)
    <3>1. [host EXCEPT !.stage[jobs[b].id] = "bound"] \in Host
      BY <1>d DEF Host, Stages
    <3>. QED  BY <2>7, <2>1, <3>1 DEF PrepareBind, Returns
  <2>8. CASE PrepareBroker(b)
    <3>1. [host EXCEPT !.stage[jobs[b].id] = "ready", !.brokers = @ \cup {jobs[b].id},
                       !.keepers = @ \ {jobs[b].id}] \in Host
      BY <1>d DEF Host, Stages
    <3>. QED  BY <2>8, <2>1, <3>1 DEF PrepareBroker, Returns
  <2>. QED  BY <1>3, <2>2, <2>3, <2>4, <2>5, <2>6, <2>7, <2>8 DEF PrepareStep
<1>4. ASSUME NEW b \in Boots, ReleaseStep(b) PROVE host' \in Host
  <2>1. CASE ReleaseCheck(b)
    BY <2>1 DEF ReleaseCheck
  <2>2. CASE ReleaseOpen(b)
    <3>1. \A a \in SUBSET Launches :
            [host EXCEPT !.stage[jobs[b].id] = "released", !.alive = a] \in Host
      BY <1>d DEF Host, Stages
    <3>2. (IF host.stage[jobs[b].id] = "ready" THEN host.alive \cup {jobs[b].id}
           ELSE host.alive) \in SUBSET Launches
      BY <1>d DEF Host
    <3>. QED  BY <2>2, <3>1, <3>2 DEF ReleaseOpen
  <2>3. CASE ReleaseMark(b)
    BY <2>3, <1>d DEF ReleaseMark, At, Host
  <2>4. CASE ReleaseReceipt(b)
    BY <2>4, <1>d DEF ReleaseReceipt, At, Host
  <2>. QED  BY <1>4, <2>1, <2>2, <2>3, <2>4 DEF ReleaseStep
<1>5. ASSUME CompensateLook PROVE host' \in Host
  BY <1>5, <1>b DEF CompensateLook
<1>6. ASSUME CompensateKill PROVE host' \in Host
  BY <1>6, <1>b, <1>c DEF CompensateKill
<1>7. ASSUME CompensateProve PROVE host' \in Host
  <2>1. lost.id \in Candidates
    BY <1>7, <1>e, HandoffAssumption DEF CompensateProve, LedgerInv, Candidates
  <2>2. ProofOf(worker.preserve) \in {NoProof, "kept", "removed"}
    BY DEF ProofOf
  <2>. QED  BY <1>7, <2>1, <2>2 DEF CompensateProve, Host
<1>8. ASSUME Work PROVE host' \in Host
  <2>1. [host EXCEPT !.leftovers = FALSE] \in Host
    BY DEF Host
  <2>2. [BrokerStopped(ledger.launch) EXCEPT !.pane = Absent] \in Host
    BY <1>b, <1>c
  <2>3. \/ host' = host \/ host' = [host EXCEPT !.leftovers = FALSE]
        \/ host' = [BrokerStopped(ledger.launch) EXCEPT !.pane = Absent]
    BY <1>8 DEF Work
  <2>. QED  BY <2>1, <2>2, <2>3
<1>9. ASSUME \/ IssueCloses \/ Restart \/ PlanAndBegin \/ Resume \/ RunStep \/ Cancel
             \/ \E kind \in Kinds : WorkArrives(kind)
             \/ \E tomb \in {"dismissed", "archived"} : Discard(tomb)
             \/ Dispatch \/ CompensateCommit \/ UNCHANGED vars
      PROVE  host' \in Host
  BY <1>9 DEF IssueCloses, Restart, PlanAndBegin, Resume, RunStep, Verify, Certify,
     CallReturns, Confirm, CallDies, Cancel, WorkArrives, Discard, Dispatch,
     CompensateCommit, vars
<1>. QED
  BY <1>1, <1>2, <1>3, <1>4, <1>5, <1>6, <1>7, <1>8, <1>9 DEF Next, WorkerStep

\* What a host process has done keeps its type.
LEMMA JobsTyped ==
  ASSUME TypeOK, [Next]_vars
  PROVE  jobs' \in [Boots -> Job]
<1>a. ledger \in Ledger /\ run \in Run /\ jobs \in [Boots -> Job] /\ boots \in Boots
  BY DEF TypeOK
<1>. USE <1>a
<1>b. NoJob \in Job
  BY AtRest
<1>c. \A b \in Boots, j \in Job : [jobs EXCEPT ![b] = j] \in [Boots -> Job]
  OBVIOUS
<1>d. Call("prepare") \in Job /\ Call("release") \in Job
  BY DEF Call, Job, Calls, Run, Ledger, Effects
<1>e. ASSUME NEW b \in Boots, NEW pc \in Calls, Step(b, pc) PROVE jobs' \in [Boots -> Job]
  <2>1. [jobs[b] EXCEPT !.pc = pc] \in Job
    BY DEF Job
  <2>2. \/ jobs' = [jobs EXCEPT ![b] = NoJob]
        \/ jobs' = [jobs EXCEPT ![b] = [jobs[b] EXCEPT !.pc = pc]]
    BY <1>e DEF Step
  <2>. QED  BY <2>1, <2>2, <1>b, <1>c
<1>1. ASSUME NEW b \in Boots, PrepareStep(b) \/ ReleaseStep(b) PROVE jobs' \in [Boots -> Job]
  <2>1. PICK pc \in Calls : Step(b, pc)
    BY <1>1 DEF Calls, PrepareStep, PrepareLook, PrepareKeep, PrepareStop,
       PrepareKill,
       PrepareCreate, PrepareBind, PrepareBroker, ReleaseStep, ReleaseCheck, ReleaseOpen,
       ReleaseMark, ReleaseReceipt, Returns
  <2>. QED  BY <2>1, <1>e
<1>2. ASSUME Restart \/ Verify \/ Certify \/ CallReturns \/ CallDies
      PROVE  jobs' \in [Boots -> Job]
  BY <1>2, <1>b, <1>c, <1>d DEF Restart, Verify, Certify, CallReturns, CallDies
<1>3. ASSUME \/ WorkerCompletes \/ IssueCloses \/ PlanAndBegin \/ Resume \/ Confirm \/ Cancel
             \/ \E kind \in Kinds : WorkArrives(kind)
             \/ \E k \in Candidates : KeeperExpires(k)
             \/ \E tomb \in {"dismissed", "archived"} : Discard(tomb)
             \/ WorkerStep \/ UNCHANGED vars
      PROVE  jobs' \in [Boots -> Job]
  BY <1>3 DEF WorkerCompletes, IssueCloses, PlanAndBegin, Resume, Confirm, Cancel,
     WorkArrives, KeeperExpires, Discard, WorkerStep, Dispatch, CompensateLook,
     CompensateKill, CompensateProve, CompensateCommit, Work, vars
<1>. QED  BY <1>1, <1>2, <1>3 DEF Next, RunStep

\* The cycle's handoff keeps its type.
LEMMA RunTyped ==
  ASSUME TypeOK, [Next]_vars
  PROVE  run' \in Run
<1>a. ledger \in Ledger /\ run \in Run
  BY DEF TypeOK
<1>. USE <1>a
<1>b. NoRun \in Run
  BY AtRest
<1>c. \A c \in {"verify", "prepare", "release", "confirm"} : [run EXCEPT !.pc = c] \in Run
  BY DEF Run
<1>d. Interrupted \in Run
  BY DEF Interrupted, Run
<1>1. ASSUME PlanAndBegin PROVE run' \in Run
  <2>1. ledger.drawn + 1 \in 0..MaxHandoffs
    BY <1>1, HandoffAssumption DEF PlanAndBegin, Ledger
  <2>. QED  BY <1>1, <2>1 DEF PlanAndBegin, Run
<1>2. ASSUME Resume PROVE run' \in Run
  BY <1>2 DEF Resume, Run, Ledger, Effects
<1>3. ASSUME \/ Restart \/ RunStep \/ Cancel
             \/ \E tomb \in {"dismissed", "archived"} : Discard(tomb)
      PROVE  run' \in Run
  BY <1>3, <1>b, <1>c, <1>d DEF Restart, RunStep, Verify, Certify, CallReturns,
     Confirm,
     CallDies, Cancel, Discard
<1>4. ASSUME NEW b \in Boots, PrepareStep(b) \/ ReleaseStep(b) PROVE run' \in Run
  BY <1>4, HostStep
<1>5. ASSUME \/ WorkerCompletes \/ IssueCloses \/ WorkerStep \/ UNCHANGED vars
             \/ \E kind \in Kinds : WorkArrives(kind)
             \/ \E k \in Candidates : KeeperExpires(k)
      PROVE  run' \in Run
  BY <1>5 DEF WorkerCompletes, IssueCloses, WorkArrives, KeeperExpires, WorkerStep,
     Dispatch, CompensateLook, CompensateKill, CompensateProve, CompensateCommit, Work, vars
<1>. QED  BY <1>1, <1>2, <1>3, <1>4, <1>5 DEF Next

\* The operator's request keeps its type.
LEMMA WorkerTyped ==
  ASSUME TypeOK, [Next]_vars
  PROVE  worker' \in Worker
<1>a. worker \in Worker
  BY DEF TypeOK
<1>. USE <1>a
<1>b. Resting \in Worker
  BY AtRest
<1>c. \A c \in {"idle", "look", "kill", "prove", "proved", "work"} :
        [worker EXCEPT !.pc = c] \in Worker
  BY DEF Worker
<1>1. ASSUME Cancel \/ Dispatch PROVE worker' \in Worker
  <2>1. \A c \in {"work", "look"}, p \in BOOLEAN : [pc |-> c, preserve |-> p] \in Worker
    BY DEF Worker
  <2>2. (ledger.phase = "handoff-cleanup") \in BOOLEAN
    OBVIOUS
  <2>. QED  BY <1>1, <2>1, <2>2 DEF Cancel, Dispatch
<1>2. ASSUME \/ Restart \/ CompensateLook \/ CompensateKill \/ CompensateProve
             \/ CompensateCommit \/ Work
      PROVE  worker' \in Worker
  BY <1>2, <1>b, <1>c DEF Restart, CompensateLook, CompensateKill, CompensateProve,
     CompensateCommit, Work, Do, Rest
<1>3. ASSUME NEW b \in Boots, PrepareStep(b) \/ ReleaseStep(b) PROVE worker' \in Worker
  BY <1>3, HostStep
<1>4. ASSUME \/ WorkerCompletes \/ IssueCloses \/ PlanAndBegin \/ Resume \/ RunStep
             \/ \E kind \in Kinds : WorkArrives(kind)
             \/ \E k \in Candidates : KeeperExpires(k)
             \/ \E tomb \in {"dismissed", "archived"} : Discard(tomb) \/ UNCHANGED vars
      PROVE  worker' \in Worker
  BY <1>4 DEF WorkerCompletes, IssueCloses, PlanAndBegin, Resume, RunStep, Verify,
     Certify,
     CallReturns, Confirm, CallDies, WorkArrives, KeeperExpires, Discard, vars
<1>. QED  BY <1>1, <1>2, <1>3, <1>4 DEF Next, WorkerStep

\* The issue closes once; a start of the daemon is the last or one before it.
LEMMA StartsTyped ==
  ASSUME TypeOK, [Next]_vars
  PROVE  closed' \in BOOLEAN /\ boots' \in Boots
<1>a. closed \in BOOLEAN /\ boots \in Boots
  BY DEF TypeOK
<1>. USE <1>a
<1>1. ASSUME Restart PROVE closed' = closed /\ boots' \in Boots
  BY <1>1, HandoffAssumption DEF Restart, Boots
<1>2. ASSUME NEW b \in Boots, PrepareStep(b) \/ ReleaseStep(b)
      PROVE  UNCHANGED <<closed, boots>>
  BY <1>2, HostStep
<1>3. ASSUME \/ WorkerCompletes \/ PlanAndBegin \/ Resume \/ RunStep \/ Cancel \/ WorkerStep
             \/ \E kind \in Kinds : WorkArrives(kind)
             \/ \E k \in Candidates : KeeperExpires(k)
             \/ \E tomb \in {"dismissed", "archived"} : Discard(tomb) \/ UNCHANGED vars
      PROVE  UNCHANGED <<closed, boots>>
  BY <1>3 DEF WorkerCompletes, PlanAndBegin, Resume, RunStep, Verify, Certify,
     CallReturns,
     Confirm, CallDies, Cancel, WorkArrives, KeeperExpires, Discard, WorkerStep, Dispatch,
     CompensateLook, CompensateKill, CompensateProve, CompensateCommit, Work, vars
<1>4. ASSUME IssueCloses PROVE closed' = TRUE /\ boots' = boots
  BY <1>4 DEF IssueCloses
<1>. QED  BY <1>1, <1>2, <1>3, <1>4 DEF Next

\* Every variable keeps its type.
LEMMA TypeStep ==
  ASSUME HandoffInv, [Next]_vars
  PROVE  TypeOK'
BY LedgerTyped, HostTyped, JobsTyped, RunTyped, WorkerTyped, StartsTyped
   DEF HandoffInv, TypeOK

\* Start has run: its worker is the only one, its broker has the session's pane.
LEMMA Start ==
  ASSUME Init
  PROVE  HandoffInv
<1>. USE HandoffAssumption
<1>1. TypeOK
  <2>1. ledger \in Ledger
    BY AtRest DEF Init, Ledger, States, Tombs, Phases, Kinds, Launches
  <2>2. host \in Host
    <3>1. [k \in Launches |-> IF k = 0 THEN "released" ELSE "none"] \in [Launches -> Stages]
      BY DEF Stages
    <3>2. [k \in Candidates |-> NoProof] \in [Candidates -> {NoProof, "kept", "removed"}]
      OBVIOUS
    <3>3. 0 \in Launches
      BY DEF Launches
    <3>. QED  BY <3>1, <3>2, <3>3 DEF Init, Host
  <2>3. jobs \in [Boots -> Job] /\ run \in Run /\ worker \in Worker
    BY AtRest DEF Init
  <2>4. closed \in BOOLEAN /\ boots \in Boots
    <3>1. closed = FALSE /\ boots = 1
      BY DEF Init
    <3>2. 1 \in Boots
      BY DEF Boots
    <3>. QED  BY <3>1, <3>2
  <2>. QED  BY <2>1, <2>2, <2>3, <2>4 DEF TypeOK
<1>2. /\ ledger.launch = 0 /\ ledger.state = "running" /\ ledger.phase = "none"
      /\ ledger.tomb = "none" /\ ledger.drawn = 0 /\ ledger.effect = NoEffect
      /\ lost = NoEffect /\ ledger.queued = 0 /\ ledger.due = "none"
      /\ run.pc = "idle" /\ worker.pc = "idle" /\ boots = 1
  BY DEF Init, lost, NoRun, Resting
<1>3. /\ pane = 0 /\ brokers = {0} /\ alive = {0} /\ delivered = {}
      /\ \A k \in Launches : stage[k] = IF k = 0 THEN "released" ELSE "none"
      /\ \A k \in Candidates : proofs[k] = NoProof
  BY DEF Init, pane, brokers, alive, delivered, stage, proofs
<1>4. \A b \in Boots : jobs[b] = NoJob
  BY DEF Init
<1>5. 0 \in Launches
  BY DEF Launches
<1>6. LedgerInv
  BY <1>2 DEF LedgerInv
<1>7. PromptInv
  BY <1>2 DEF PromptInv
<1>8. StageInv
  BY <1>2, <1>3, <1>5 DEF StageInv, NoEffect, Prepared, Launches
<1>9. JobInv
  BY <1>2, <1>3, <1>4, <1>5 DEF JobInv, JobOK, NoJob, Linked, Making, At
<1>10. WorkerInv
  BY <1>2, <1>3, <1>4 DEF WorkerInv, NoJob, Answered, Owned, Ended, ProvedGone,
     Unproved
<1>. QED  BY <1>1, <1>6, <1>7, <1>8, <1>9, <1>10 DEF HandoffInv

-----------------------------------------------------------------------------
(* The theorems *)

\* The invariant holds in every state, whatever host processes of earlier
\* starts of the daemon are still under way.
THEOREM HandoffInductive == Spec => []HandoffInv
<1>1. HandoffInv /\ [Next]_vars => HandoffInv'
  BY TypeStep, LedgerStep, PromptStep, StageStep, JobStep, WorkersStep
     DEF HandoffInv
<1>. QED  BY Start, <1>1, PTL DEF Spec

\* Every variable has its type, for any number of handoffs and of starts.
THEOREM HandoffTypes == Spec => []TypeOK
<1>1. HandoffInv => TypeOK
  BY DEF HandoffInv
<1>. QED  BY HandoffInductive, <1>1, PTL

\* An attempt never has two workers at work in its worktree: a worker has a
\* broker, and only the launch whose pane bears the session's name has one.
THEOREM OneWorkerEver == Spec => []OneWorker
<1>1. ASSUME HandoffInv PROVE OneWorker
  <2>1. alive \subseteq {pane}
    BY <1>1 DEF HandoffInv, WorkerInv
  <2>2. IsFiniteSet({pane}) /\ Cardinality({pane}) = 1
    BY FS_Singleton
  <2>3. IsFiniteSet(alive) /\ Cardinality(alive) <= Cardinality({pane})
    BY <2>1, <2>2, FS_Subset
  <2>. QED  BY <2>2, <2>3 DEF OneWorker, alive
<1>. QED  BY HandoffInductive, <1>1, PTL

\* A worker at work is the ledger's own or a candidate the owner certified
\* before its release, and the compensation of that one is not yet proved.
THEOREM WorkersOwned == Spec => []WorkerIsOwned
<1>1. HandoffInv => WorkerIsOwned
  BY DEF HandoffInv, WorkerInv, Answered, Owned, WorkerIsOwned, alive, proofs
<1>. QED  BY HandoffInductive, <1>1, PTL

\* No two launches are ever released to do the same work: a launch is released
\* once it is drawn, and each drawn later has later work.
THEOREM PromptsOnce == Spec => []PromptRunsOnce
<1>1. ASSUME HandoffInv, NEW j \in Candidates, NEW k \in Candidates, j # k,
             stage[j] = "released", stage[k] = "released"
      PROVE  ledger.works[j] # ledger.works[k]
  <2>1. j \in 1..ledger.drawn /\ k \in 1..ledger.drawn
    BY <1>1, HandoffAssumption
    DEF HandoffInv, TypeOK, Ledger, StageInv, Candidates, Launches
  <2>2. ledger.works[j] \in Int /\ ledger.works[k] \in Int
    BY <1>1, HandoffAssumption DEF HandoffInv, TypeOK, Ledger
  <2>3. j < k \/ k < j
    BY <1>1 DEF Candidates
  <2>. QED  BY <1>1, <2>1, <2>2, <2>3 DEF HandoffInv, PromptInv
<1>2. HandoffInv => PromptRunsOnce
  BY <1>1 DEF PromptRunsOnce, stage
<1>. QED  BY HandoffInductive, <1>2, PTL

\* Once a cancellation or an archive is reported as done no worker is at work,
\* and no host process that is still under way can bring one up.
THEOREM SettledQuiet == Spec => []SettledIsQuiet
<1>1. HandoffInv => SettledIsQuiet
  BY DEF HandoffInv, WorkerInv, Answered, Ended, SettledIsQuiet, alive
<1>. QED  BY HandoffInductive, <1>1, PTL
=============================================================================
