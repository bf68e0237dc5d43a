------------------------- MODULE AttemptLaunchProofs -------------------------
(***************************************************************************)
(* TLAPS proofs about AttemptLaunch, for every set of launch tokens and    *)
(* any bounds on effects and daemon starts.                                *)
(***************************************************************************)
EXTENDS AttemptLaunch, TLAPS

-----------------------------------------------------------------------------
(* The invariant *)

\* Tags of the attempt's effects: who plans which.
CycleActions    == {"prepare", "start", "monitor"}
OperatorActions == {"stop", "cleanup"}

\* What the ledger's parts say of each other. A Start is committed once, and
\* only its intent may run; a running record has got through its gate.
LedgerInv ==
  /\ effect.gen = gen
  /\ effect.status = "none" => effect.id = 0
  /\ effect.id = 0 => effect.status = "none" /\ effect.action = "prepare"
                      /\ record = NoRecord
  /\ effect.mayRun => effect.action = "start"
  /\ Pending =>
       /\ effect.action \in {"prepare", "start"} => record.state = "preparing"
       /\ effect.action \in {"monitor", "stop"} => record.state = "running"
       /\ effect.action = "cleanup" => tomb.phase # "completed"
  /\ effect.action = "cleanup" <=> tomb.policy # "none"
  /\ tomb.policy # "none" => record = NoRecord
  /\ record.state = "none" /\ tomb.policy = "none" => effect.id = 0
  /\ record.state = "preparing" =>
       /\ record.launch = None
       /\ effect.action = "prepare" \/ (effect.action = "start" /\ Pending)
  /\ record.state \in {"running", "completed", "cancelled"} => record.launch \in entered
  /\ record.state = "failed" => record.launch \in {None} \cup entered
  /\ effect.action = "prepare" => effect.id <= 1 /\ drawn = {}
  /\ effect.action = "start" => effect.nonce \in drawn
  /\ tomb.policy = "archive" => tomb.launch \in entered

\* What an intent that was committed at some time says of the ledger now.
Known(req) ==
  /\ req.id \in 1..effect.id
  /\ req.id = effect.id => req.action = effect.action /\ req.gen = effect.gen
  /\ req.action = "start" =>
       /\ req.nonce \in drawn
       /\ effect.action = "start" => req.id = effect.id /\ req.nonce = effect.nonce
  /\ req.action \in {"monitor", "stop"} => req.nonce \in entered
  /\ req.action = "cleanup" => req.id = effect.id

\* Everything anybody works on was committed, and no two work on one intent.
WorkInv ==
  /\ cycle.step # "idle" => Known(cycle.req) /\ cycle.req.action \in CycleActions
  /\ operator.step # "idle" =>
       Known(operator.req) /\ operator.req.action \in OperatorActions
  /\ run.pc # "idle" => Known(run.req)
  /\ cycle.step # "idle" /\ operator.step # "idle" => cycle.req.id # operator.req.id
  /\ cycle.step # "idle" /\ run.pc # "idle" => cycle.req.id # run.req.id
  /\ operator.step # "idle" /\ run.pc # "idle" => operator.req.id # run.req.id
  /\ cycle.step \notin {"idle", "worker"} /\ cycle.req.id = effect.id => Pending
  /\ operator.step # "idle" /\ operator.req.id = effect.id => Pending
  /\ run.pc \notin {"idle", "worker", "unmark"} /\ run.req.id = effect.id => Pending
  /\ mode # "serving" => /\ run.pc = "idle" /\ operator.step = "idle"
                         /\ cycle.step \in {"idle", "finish", "worker"}
  /\ operator.step = "cancel" => operator.req.id = effect.id
  /\ cycle.step = "rotate" => cycle.req.action = "start"

\* What an effect may report: nothing is called running that did not get through
\* the gate, nothing completed or cancelled that may live.
Honest(action, result) ==
  /\ action = "prepare" => result \in [state : {"preparing", "failed"}, launch : {None}]
  /\ action = "start" => \/ result.state = "failed" /\ result.launch = None
                         \/ result.state = "running" /\ result.launch \in entered
  /\ action = "monitor" =>
       /\ result.state \in {"running", "completed", "failed"}
       /\ result.launch \in entered
       /\ result.state = "completed" => ~Alive(result.launch)
  /\ action = "stop" => /\ result.state = "cancelled" /\ result.launch \in entered
                        /\ ~Alive(result.launch)

ResultInv ==
  /\ run.pc \in {"mark", "finish"} => Honest(run.req.action, run.result)
  /\ cycle.step = "finish" => Honest(cycle.req.action, cycle.result)
  /\ operator.step = "finish" => Honest(operator.req.action, operator.result)
  /\ record.state \in {"completed", "cancelled"} => ~Alive(record.launch)
  /\ \A m \in markers : m.id \in 1..effect.id
  /\ \A m \in markers : m.id = effect.id => Honest(effect.action, m.result)

\* The files of a launch are written in order, and a candidate that has entered
\* is past its gate for good.
FileInv ==
  /\ entered \subseteq bound \cap permit
  /\ bound \subseteq drawn /\ permit \subseteq drawn
  /\ launched \subseteq entered
  /\ \A n \in entered : pane[n] \notin {"none", "parked"}
  /\ \A n \in Nonces : pane[n] = "running" => n \in launched

\* The steps of a run that belong to one kind of effect.
RunInv ==
  /\ run.pc \in {"start", "create", "bind", "authorize", "permit", "release",
                 "unlock", "ready", "worker"} => run.req.action = "start"
  /\ run.pc = "exec" => run.req.action # "start"
  /\ run.pc \in {"create", "bind"} => run.req.nonce \notin bound
  /\ run.pc = "clone" => run.req.action = "prepare" /\ worktree = "logs"
  /\ run.pc \in {"exec", "clone"} /\ run.req.action = "prepare" => drawn = {}
  /\ run.pc \in {"remove", "forget"} => run.req.action = "cleanup"
  /\ run.pc = "worker" => run.req.nonce \in launched
  /\ cycle.step = "worker" => cycle.result.launch \in launched

\* Candidates that have, or are about to get, a permit.
Permitted ==
  permit \cup {n \in Nonces : run.pc = "permit" /\ run.req.nonce = n}
         \cup {n \in Nonces : effect.mayRun /\ effect.nonce = n}

\* The Start intent allows one candidate and keeps it from then on.
PermitInv ==
  /\ \A m, n \in Permitted : m = n
  /\ effect.action = "start" /\ ~effect.mayRun => Permitted = {}

\* Once an attempt is invalidated and its runs are told, only cleanup acts on it.
SupersededInv ==
  /\ /\ tomb.policy # "none" /\ operator.step # "cancel"
     /\ run.pc \notin {"idle", "check"} /\ run.req.action # "cleanup"
     => run.cancelled
  /\ operator.step = "cancel" => markerOf(effect.id) = {}

\* The cleanup has done its work, whether or not anybody has recorded it.
CleanupDone ==
  /\ tomb.policy \in {"archive", "abandon"}
  /\ \/ tomb.phase = "completed"
     \/ markerOf(effect.id) # {}
     \/ operator.step = "finish" /\ operator.req.id = effect.id
     \/ run.pc \in {"mark", "finish"} /\ run.req.id = effect.id

CleanInv ==
  /\ CleanupDone => session = None /\ worktree \in kept
  /\ run.pc \in {"remove", "forget"} =>
       session = None /\ tomb.policy \in {"archive", "abandon"}
  /\ run.pc = "forget" => tomb.policy = "abandon"
  /\ run.pc = "forget" => worktree \in {"none", "logs"}

LaunchInv == /\ TypeOK /\ LedgerInv /\ WorkInv /\ ResultInv /\ FileInv
             /\ RunInv /\ PermitInv /\ SupersededInv /\ CleanInv

-----------------------------------------------------------------------------
(* Each part is preserved *)

\* A step of a run keeps the run's type.
LEMMA RunType ==
  ASSUME run \in Run
  PROVE  /\ \A pc \in Progress : [run EXCEPT !.pc = pc] \in Run
         /\ \A pc \in Progress, r \in Record :
              [run EXCEPT !.pc = pc, !.result = r] \in Run
BY DEF Run

\* Results that are recorded as launches are tokens.
LEMMA FinishType ==
  ASSUME LaunchInv, NEW req \in Request, NEW result \in Record,
         Known(req), Honest(req.action, result), finishable(req, result),
         finished(req, result)
  PROVE  effect' \in Effect /\ record' \in Record /\ tomb' \in Tomb
         /\ launched' \in SUBSET Nonces
<1>1. entered \subseteq Nonces /\ launched \subseteq Nonces
      /\ effect \in Effect /\ record \in Record /\ tomb \in Tomb
  BY DEF LaunchInv, TypeOK, LedgerTypes, FileTypes
<1>2. effect' \in Effect
  BY <1>1 DEF finished, Effect
<1>3. record' \in Record
  BY <1>1 DEF finished
<1>4. tomb' \in Tomb
  BY <1>1 DEF finished, Tomb
<1>5. launched' \in SUBSET Nonces
  <2>1. CASE req.action = "start" /\ result.state = "running"
    BY <1>1, <2>1 DEF finished, Honest
  <2>2. CASE ~(req.action = "start" /\ result.state = "running")
    BY <1>1, <2>2 DEF finished
  <2>. QED  BY <2>1, <2>2
<1>. QED  BY <1>2, <1>3, <1>4, <1>5

\* startEffect goes on to authorise, to create a pane, or to report a failure.
LEMMA StartShape ==
  ASSUME run \in Run, startEffect
  PROVE  /\ run.pc = "start" /\ run'.req = run.req /\ run'.cancelled = run.cancelled
         /\ run'.pc \in {"authorize", "create", "mark"}
         /\ run'.pc = "create" => session = None /\ nonce \notin bound
         /\ run'.pc = "mark" => run'.result = [state |-> "failed", launch |-> None]
         /\ UNCHANGED <<ledger, drawn, markers, files, worktree, tmux, mode, boots,
                        cycle, operator, launched>>
<1>1. CASE observed /\ goto("authorize")
  BY <1>1 DEF startEffect, at, goto, Run
<1>2. CASE session = None /\ nonce \notin bound /\ goto("create")
  BY <1>2 DEF startEffect, at, goto, Run
<1>3. CASE run' = [run EXCEPT !.pc = "mark",
                              !.result = [state |-> "failed", launch |-> None]]
  BY <1>3 DEF startEffect, at, Run
<1>. QED  BY <1>1, <1>2, <1>3 DEF startEffect

\* cloneSource reports whether the clone is there.
LEMMA CloneShape ==
  ASSUME run \in Run, cloneSource
  PROVE  /\ run.pc = "clone" /\ run'.req = run.req /\ run'.cancelled = run.cancelled
         /\ run'.pc = "mark" /\ run'.result.launch = None
         /\ run'.result \in [state : {"preparing", "failed"}, launch : {None}]
         /\ UNCHANGED <<ledger, drawn, markers, files, tmux, mode, boots,
                        cycle, operator, launched>>
<1>1. CASE run' = [run EXCEPT !.pc = "mark",
                              !.result = [state |-> "preparing", launch |-> None]]
  BY <1>1 DEF cloneSource, at, Run
<1>2. CASE run' = [run EXCEPT !.pc = "mark",
                              !.result = [state |-> "failed", launch |-> None]]
  BY <1>2 DEF cloneSource, at, Run
<1>. QED  BY <1>1, <1>2 DEF cloneSource

\* An intent that is current carries its own action, and its candidate.
LEMMA CurrentIs ==
  ASSUME NEW req, current(req)
  PROVE  /\ Pending /\ req.id = effect.id /\ req.action = effect.action
         /\ Known(req) /\ req.action = "start" => req.nonce = effect.nonce
BY DEF current, Known

\* What a completed intent leaves in the ledger.
LEMMA FinishLedger ==
  ASSUME TypeOK, LedgerInv, NEW req, NEW result, Honest(req.action, result),
         finishable(req, result), finished(req, result),
         UNCHANGED <<gen, drawn, files>>
  PROVE  LedgerInv'
<1>1. /\ Pending /\ req.id = effect.id /\ req.action = effect.action
  BY DEF finishable, current
<1>. USE <1>1 DEF LedgerInv, Pending, TypeOK, LedgerTypes, Effect, Tomb, Record,
                  NoRecord, files, finished
<1>2. CASE req.action = "cleanup"
  BY <1>2
<1>3. CASE req.action = "prepare"
  BY <1>3 DEF Honest
<1>4. CASE req.action = "start"
  BY <1>4 DEF Honest
<1>5. CASE req.action \in {"monitor", "stop"}
  BY <1>5 DEF Honest
<1>. QED  BY <1>2, <1>3, <1>4, <1>5 DEF Actions

\* A record that is settled by a result is as true as the result.
LEMMA FinishRecord ==
  ASSUME effect \in Effect, ResultInv, NEW req, req.action \in Actions, NEW result,
         Honest(req.action, result), finished(req, result), UNCHANGED pane
  PROVE  /\ (record.state \in {"completed", "cancelled"} => ~Alive(record.launch))'
         /\ effect'.id = effect.id /\ effect'.action = effect.action
<1>1. effect'.id = effect.id /\ effect'.action = effect.action
  BY DEF finished, Effect
<1>2. CASE req.action = "cleanup"
  BY <1>2, <1>1 DEF finished, ResultInv, Alive
<1>3. CASE req.action # "cleanup"
  BY <1>3, <1>1 DEF finished, Honest, Actions, Alive
<1>. QED  BY <1>2, <1>3, <1>1

\* A launch that is recorded as running has entered.
LEMMA FinishFile ==
  ASSUME FileInv, NEW req, NEW result, Honest(req.action, result),
         finished(req, result), UNCHANGED <<drawn, files, pane>>
  PROVE  FileInv' /\ launched \subseteq launched'
<1>1. launched' \subseteq entered /\ launched \subseteq launched'
  BY DEF finished, Honest, FileInv
<1>. QED  BY <1>1 DEF FileInv, files

\* Once the cleanup is done, whoever still works for another intent was told.
LEMMA DoneIsTold ==
  ASSUME TypeOK, LedgerInv, WorkInv, SupersededInv, CleanupDone
  PROVE  /\ operator.step # "cancel"
         /\ run.pc \notin {"idle", "check"} /\ run.req.action # "cleanup" => run.cancelled
         /\ effect.action = "cleanup"
<1>1. operator.step # "cancel"
  BY DEF CleanupDone, WorkInv, SupersededInv, LedgerInv
<1>2. tomb.policy # "none" /\ effect.action = "cleanup"
  BY DEF CleanupDone, LedgerInv
<1>. QED  BY <1>1, <1>2 DEF SupersededInv

\* A run that holds the invalidated attempt's newest intent cleans up.
LEMMA OwnAction ==
  ASSUME LedgerInv, WorkInv, tomb.policy # "none", run.pc # "idle", run.req.id = effect.id
  PROVE  run.req.action = "cleanup"
BY DEF LedgerInv, WorkInv, Known

\* Every variable keeps its type.
LEMMA TypeStep ==
  ASSUME LaunchInv, [Next]_vars
  PROVE  TypeOK'
<1>a. TypeOK /\ LedgerInv /\ WorkInv /\ ResultInv /\ FileInv /\ RunInv
  BY DEF LaunchInv
<1>. USE <1>a DEF TypeOK, LedgerTypes, FileTypes, DaemonTypes, Actions, Launches,
     States, Record, Effect, Tomb, Request, Marker, Work, Progress, Run, NoRecord,
     NoRequest, NoWork, NoRun, ledger, files, tmux, daemon, at, goto, nonce
<1>1. CASE beginPrepare
  BY <1>1 DEF beginPrepare, admits, intend, request, acquiring
<1>2. ASSUME NEW n \in Nonces, beginStart(n) PROVE TypeOK'
  BY <1>2 DEF beginStart, admits, intend, request, acquiring
<1>3. CASE beginMonitor
  BY <1>3 DEF beginMonitor, admits, intend, request, acquiring
<1>4. CASE resumePendingRuntime
  BY <1>4 DEF resumePendingRuntime, finishing, pendingRequest, acquiring,
     verifyStart, verifyPrepare, markerOf, unattended
<1>5. ASSUME NEW n \in Nonces, rotateStartGate(n) PROVE TypeOK'
  BY <1>5 DEF rotateStartGate, rotatable, current, acquiring
<1>6. CASE cycleFinish
  <2>. HIDE DEF Work, Run, Record, Request
  <2>1. cycle.req \in Request /\ cycle.result \in Record
    BY DEF Work, Run
  <2>2. Known(cycle.req) /\ Honest(cycle.req.action, cycle.result)
    BY <1>6 DEF WorkInv, ResultInv, cycleFinish
  <2>3. /\ effect' \in Effect /\ record' \in Record /\ tomb' \in Tomb
        /\ launched' \in SUBSET Nonces
    BY <1>6, <2>1, <2>2, FinishType DEF cycleFinish
  <2>. QED  BY <1>6, <2>3 DEF cycleFinish, Work, Run, Request, Record
<1>7. CASE cycleReleases
  BY <1>7 DEF cycleReleases, releaseInner
<1>8. CASE acquireForCycle
  BY <1>8 DEF acquireForCycle, admitted
<1>9. CASE cycleFails
  BY <1>9 DEF cycleFails
<1>10. CASE beginStop
  BY <1>10 DEF beginStop, intend, request, acquiring
<1>11. ASSUME NEW policy \in {"dismiss", "archive", "abandon"}, invalidateAttempt(policy)
       PROVE TypeOK'
  BY <1>11 DEF invalidateAttempt, intend, request, acquiring
<1>12. CASE cancelInvalidated
  <2>. HIDE DEF Run, Record, Request
  <2>. DEFINE told == run.cancelled \/ (run.pc # "idle" /\ ~current(run.req))
  <2>1. told \in BOOLEAN /\ run' = [run EXCEPT !.cancelled = told]
    BY <1>12 DEF cancelInvalidated
  <2>2. run' \in Run
    <3>. HIDE DEF told
    <3>. QED  BY <2>1 DEF Run
  <2>. QED  BY <1>12, <2>2 DEF cancelInvalidated, Work
<1>13. CASE resumeReceipt
  BY <1>13 DEF resumeReceipt, finishing, pendingRequest, acquiring, verifyStop,
     verifyCleanup, kept, markerOf, unattended
<1>14. CASE operatorFinish
  <2>. HIDE DEF Work, Run, Record, Request
  <2>1. operator.req \in Request /\ operator.result \in Record
    BY DEF Work, Run
  <2>2. Known(operator.req) /\ Honest(operator.req.action, operator.result)
    BY <1>14 DEF WorkInv, ResultInv, operatorFinish, markerOf
  <2>3. /\ effect' \in Effect /\ record' \in Record /\ tomb' \in Tomb
        /\ launched' \in SUBSET Nonces
    BY <1>14, <2>1, <2>2, FinishType DEF operatorFinish, markerOf
  <2>. QED  BY <1>14, <2>3 DEF operatorFinish, markerOf, Work, Run, Request, Record
<1>15. CASE operatorFails
  BY <1>15 DEF operatorFails
<1>16. CASE acquireForOperator
  BY <1>16 DEF acquireForOperator, admitted
<1>17. CASE checkPending
  BY <1>17 DEF checkPending, stillPending, current
<1>18. CASE startEffect
  <2>. HIDE DEF Run, Record, Request
  <2>1. [state |-> "failed", launch |-> None] \in Record
    BY DEF Record, States
  <2>2. ASSUME observed /\ goto("authorize") PROVE run' \in Run
    BY <2>2, RunType DEF Progress
  <2>3. ASSUME session = None /\ nonce \notin bound /\ goto("create") PROVE run' \in Run
    BY <2>3, RunType DEF Progress
  <2>4. ASSUME run' = [run EXCEPT !.pc = "mark",
                                  !.result = [state |-> "failed", launch |-> None]]
        PROVE  run' \in Run
    BY <2>1, <2>4, RunType DEF Progress
  <2>5. run' \in Run
    BY <1>18, <2>2, <2>3, <2>4 DEF startEffect
  <2>. QED  BY <1>18, <2>5, StartShape
<1>19. CASE createPane
  BY <1>19 DEF createPane
<1>20. CASE bindPane
  BY <1>20 DEF bindPane, RunInv, WorkInv, Known
<1>21. CASE authorize
  <2>. HIDE DEF Run, Record, Request
  <2>1. effect' \in Effect
    BY <1>21 DEF authorize, Effect
  <2>2. run' \in Run
    BY <1>21, RunType DEF authorize, Progress
  <2>. QED  BY <1>21, <2>1, <2>2 DEF authorize
<1>22. CASE writePermit
  BY <1>22 DEF writePermit, observed
<1>23. CASE writeRelease
  BY <1>23 DEF writeRelease, observed
<1>24. CASE unlockGate
  BY <1>24 DEF unlockGate, observed
<1>25. CASE brokerReady
  <2>. HIDE DEF Run, Record, Request
  <2>1. [state |-> "running", launch |-> nonce] \in Record
    BY DEF Record, States, Launches, Run, Request
  <2>2. run' \in Run
    BY <1>25, <2>1, RunType DEF brokerReady, observed, Progress
  <2>. QED  BY <1>25, <2>2 DEF brokerReady, observed
<1>26. CASE prepareEffect
  BY <1>26 DEF prepareEffect
<1>27. CASE cloneSource
  <2>. HIDE DEF Run, Record, Request
  <2>1. \A s \in {"preparing", "failed"} : [state |-> s, launch |-> None] \in Record
    BY DEF Record, States
  <2>2. PICK s \in {"preparing", "failed"} :
          run' = [run EXCEPT !.pc = "mark", !.result = [state |-> s, launch |-> None]]
    BY <1>27 DEF cloneSource
  <2>3. run' \in Run
    BY <2>1, <2>2, RunType DEF Progress
  <2>. QED  BY <1>27, <2>3 DEF cloneSource
<1>28. CASE monitorEffect
  <2>. HIDE DEF Run, Record, Request
  <2>1. \A s \in States : [state |-> s, launch |-> nonce] \in Record
    BY DEF Record, Run, Request
  <2>2. PICK s \in {"running", "completed", "failed"} :
          run' = [run EXCEPT !.pc = "finish", !.result = [state |-> s, launch |-> nonce]]
    BY <1>28 DEF monitorEffect
  <2>3. run' \in Run
    BY <2>1, <2>2, RunType DEF Progress, States
  <2>. QED  BY <1>28, <2>3 DEF monitorEffect
<1>29. CASE stopEffect
  <2>. HIDE DEF Run, Record, Request
  <2>1. [state |-> "cancelled", launch |-> nonce] \in Record
    BY DEF Record, States, Launches, Run, Request
  <2>2. run' \in Run
    BY <1>29, <2>1, RunType DEF stopEffect, killed, Progress
  <2>. QED  BY <1>29, <2>2 DEF stopEffect, killed
<1>30. CASE cleanupEffect
  BY <1>30 DEF cleanupEffect, killed
<1>31. CASE removeClone
  BY <1>31 DEF removeClone
<1>32. CASE forgetLogs
  BY <1>32 DEF forgetLogs
<1>33. CASE writeMarker
  BY <1>33 DEF writeMarker
<1>34. CASE finishEffect
  <2>. HIDE DEF Work, Run, Record, Request
  <2>1. run.req \in Request /\ run.result \in Record
    BY DEF Work, Run
  <2>2. Known(run.req) /\ Honest(run.req.action, run.result)
    BY <1>34 DEF WorkInv, ResultInv, finishEffect
  <2>3. /\ effect' \in Effect /\ record' \in Record /\ tomb' \in Tomb
        /\ launched' \in SUBSET Nonces
    BY <1>34, <2>1, <2>2, FinishType DEF finishEffect
  <2>. QED  BY <1>34, <2>3 DEF finishEffect, Work, Run, Request, Record
<1>35. CASE runReleases
  BY <1>35 DEF runReleases, releaseInner
<1>36. CASE removeMarker
  BY <1>36 DEF removeMarker, markerOf
<1>37. ASSUME NEW n \in Nonces, gateEnters(n) PROVE TypeOK'
  BY <1>37 DEF gateEnters
<1>38. ASSUME NEW n \in Nonces, paneExits(n) PROVE TypeOK'
  BY <1>38 DEF paneExits
<1>39. CASE sessionLost
  BY <1>39 DEF sessionLost
<1>40. CASE runFails
  BY <1>40 DEF runFails
<1>41. CASE crash
  BY <1>41 DEF crash
<1>42. CASE boot
  BY <1>42 DEF boot
<1>43. CASE sweepPendingMarkers
  BY <1>43 DEF sweepPendingMarkers, finishing, pendingRequest, markerOf
<1>44. CASE UNCHANGED vars
  BY <1>44 DEF vars
<1>. HIDE <1>a DEF TypeOK
<1>. QED
  BY <1>1, <1>2, <1>3, <1>4, <1>5, <1>6, <1>7, <1>8, <1>9, <1>10,
     <1>11, <1>12, <1>13, <1>14, <1>15, <1>16, <1>17, <1>18, <1>19,
     <1>20, <1>21, <1>22, <1>23, <1>24, <1>25, <1>26, <1>27, <1>28,
     <1>29, <1>30, <1>31, <1>32, <1>33, <1>34, <1>35, <1>36, <1>37,
     <1>38, <1>39, <1>40, <1>41, <1>42, <1>43, <1>44
  DEF Next, CycleNext, CycleWork, OperatorNext, RunNext, Environment

\* The parts of the ledger change together.
LEMMA LedgerStep ==
  ASSUME LaunchInv, [Next]_vars
  PROVE  LedgerInv'
<1>a. TypeOK /\ LedgerInv /\ WorkInv /\ ResultInv /\ RunInv
  BY DEF LaunchInv
<1>. USE <1>a DEF TypeOK, LedgerTypes, DaemonTypes, FileTypes, Effect, Tomb,
     Record, Run, Work, Request, NoRecord, NoRun, NoWork, NoRequest, Pending,
     LedgerInv, ledger, files, tmux, daemon, at, goto, nonce
<1>1. CASE beginPrepare
  BY <1>1 DEF beginPrepare, admits, intend, request, acquiring
<1>2. ASSUME NEW n \in Nonces, beginStart(n) PROVE LedgerInv'
  BY <1>2 DEF beginStart, admits, intend, request, acquiring
<1>3. CASE beginMonitor
  BY <1>3 DEF beginMonitor, admits, intend, request, acquiring
<1>4. CASE resumePendingRuntime
  BY <1>4 DEF resumePendingRuntime, finishing, pendingRequest, acquiring,
     verifyStart, verifyPrepare, markerOf, unattended
<1>5. ASSUME NEW n \in Nonces, rotateStartGate(n) PROVE LedgerInv'
  BY <1>5 DEF rotateStartGate, rotatable, current, acquiring, WorkInv, Known
<1>6. CASE cycleFinish
  <2>1. Honest(cycle.req.action, cycle.result)
    BY <1>6 DEF cycleFinish, ResultInv
  <2>. QED  BY <1>6, <2>1, FinishLedger DEF cycleFinish
<1>7. CASE cycleReleases
  BY <1>7 DEF cycleReleases, releaseInner
<1>8. CASE acquireForCycle
  BY <1>8 DEF acquireForCycle, admitted
<1>9. CASE cycleFails
  BY <1>9 DEF cycleFails
<1>10. CASE beginStop
  BY <1>10 DEF beginStop, intend, request, acquiring
<1>11. ASSUME NEW policy \in {"dismiss", "archive", "abandon"}, invalidateAttempt(policy)
       PROVE LedgerInv'
  BY <1>11 DEF invalidateAttempt, intend, request, acquiring
<1>12. CASE cancelInvalidated
  BY <1>12 DEF cancelInvalidated, current
<1>13. CASE resumeReceipt
  BY <1>13 DEF resumeReceipt, finishing, pendingRequest, acquiring, verifyStop,
     verifyCleanup, kept, markerOf, unattended
<1>14. CASE operatorFinish
  <2>1. Honest(operator.req.action, operator.result)
    BY <1>14 DEF operatorFinish, ResultInv
  <2>. QED  BY <1>14, <2>1, FinishLedger DEF operatorFinish
<1>15. CASE operatorFails
  BY <1>15 DEF operatorFails
<1>16. CASE acquireForOperator
  BY <1>16 DEF acquireForOperator, admitted
<1>17. CASE checkPending
  BY <1>17 DEF checkPending, stillPending, current
<1>18. CASE startEffect
  BY <1>18, StartShape
<1>19. CASE createPane
  BY <1>19 DEF createPane
<1>20. CASE bindPane
  BY <1>20 DEF bindPane
<1>21. CASE authorize
  BY <1>21 DEF authorize, authorizable, current, RunInv
<1>22. CASE writePermit
  BY <1>22 DEF writePermit, observed
<1>23. CASE writeRelease
  BY <1>23 DEF writeRelease, observed
<1>24. CASE unlockGate
  BY <1>24 DEF unlockGate, observed
<1>25. CASE brokerReady
  BY <1>25 DEF brokerReady, observed
<1>26. CASE prepareEffect
  BY <1>26 DEF prepareEffect
<1>27. CASE cloneSource
  BY <1>27, CloneShape
<1>28. CASE monitorEffect
  BY <1>28 DEF monitorEffect, observed
<1>29. CASE stopEffect
  BY <1>29 DEF stopEffect, killed
<1>30. CASE cleanupEffect
  BY <1>30 DEF cleanupEffect, killed
<1>31. CASE removeClone
  BY <1>31 DEF removeClone
<1>32. CASE forgetLogs
  BY <1>32 DEF forgetLogs
<1>33. CASE writeMarker
  BY <1>33 DEF writeMarker
<1>34. CASE finishEffect
  <2>1. Honest(run.req.action, run.result)
    BY <1>34 DEF finishEffect, ResultInv
  <2>. QED  BY <1>34, <2>1, FinishLedger DEF finishEffect
<1>35. CASE runReleases
  BY <1>35 DEF runReleases, releaseInner
<1>36. CASE removeMarker
  BY <1>36 DEF removeMarker, markerOf
<1>37. ASSUME NEW n \in Nonces, gateEnters(n) PROVE LedgerInv'
  BY <1>37 DEF gateEnters
<1>38. ASSUME NEW n \in Nonces, paneExits(n) PROVE LedgerInv'
  BY <1>38 DEF paneExits
<1>39. CASE sessionLost
  BY <1>39 DEF sessionLost
<1>40. CASE runFails
  BY <1>40 DEF runFails
<1>41. CASE crash
  BY <1>41 DEF crash
<1>42. CASE boot
  BY <1>42 DEF boot
<1>43. CASE sweepPendingMarkers
  BY <1>43 DEF sweepPendingMarkers, finishing, pendingRequest, markerOf
<1>44. CASE UNCHANGED vars
  BY <1>44 DEF vars
<1>. HIDE <1>a DEF LedgerInv
<1>. QED
  BY <1>1, <1>2, <1>3, <1>4, <1>5, <1>6, <1>7, <1>8, <1>9, <1>10,
     <1>11, <1>12, <1>13, <1>14, <1>15, <1>16, <1>17, <1>18, <1>19,
     <1>20, <1>21, <1>22, <1>23, <1>24, <1>25, <1>26, <1>27, <1>28,
     <1>29, <1>30, <1>31, <1>32, <1>33, <1>34, <1>35, <1>36, <1>37,
     <1>38, <1>39, <1>40, <1>41, <1>42, <1>43, <1>44
  DEF Next, CycleNext, CycleWork, OperatorNext, RunNext, Environment

\* Work is committed before it is done, and is done by one.
LEMMA WorkStep ==
  ASSUME LaunchInv, [Next]_vars
  PROVE  WorkInv'
<1>a. TypeOK /\ LedgerInv /\ WorkInv /\ ResultInv
  BY DEF LaunchInv
<1>. USE <1>a DEF TypeOK, LedgerTypes, DaemonTypes, FileTypes, Effect, Tomb,
     Record, Run, Work, Request, NoRecord, NoRun, NoWork, NoRequest, Pending,
     LedgerInv, WorkInv, Known, CycleActions, OperatorActions, ledger, files, tmux,
     daemon, at, goto, nonce
<1>1. CASE beginPrepare
  BY <1>1 DEF beginPrepare, admits, intend, request, acquiring
<1>2. ASSUME NEW n \in Nonces, beginStart(n) PROVE WorkInv'
  BY <1>2 DEF beginStart, admits, intend, request, acquiring
<1>3. CASE beginMonitor
  BY <1>3 DEF beginMonitor, admits, intend, request, acquiring
<1>4. CASE resumePendingRuntime
  BY <1>4 DEF resumePendingRuntime, finishing, pendingRequest, acquiring,
     verifyStart, verifyPrepare, markerOf, unattended
<1>5. ASSUME NEW n \in Nonces, rotateStartGate(n) PROVE WorkInv'
  BY <1>5 DEF rotateStartGate, rotatable, current, acquiring
<1>6. CASE cycleFinish
  BY <1>6 DEF cycleFinish, finishable, finished, current
<1>7. CASE cycleReleases
  BY <1>7 DEF cycleReleases, releaseInner
<1>8. CASE acquireForCycle
  BY <1>8 DEF acquireForCycle, admitted
<1>9. CASE cycleFails
  BY <1>9 DEF cycleFails
<1>10. CASE beginStop
  BY <1>10 DEF beginStop, intend, request, acquiring
<1>11. ASSUME NEW policy \in {"dismiss", "archive", "abandon"}, invalidateAttempt(policy)
       PROVE WorkInv'
  BY <1>11 DEF invalidateAttempt, intend, request, acquiring
<1>12. CASE cancelInvalidated
  BY <1>12 DEF cancelInvalidated, current
<1>13. CASE resumeReceipt
  BY <1>13 DEF resumeReceipt, finishing, pendingRequest, acquiring, verifyStop,
     verifyCleanup, kept, markerOf, unattended, ResultInv, Honest
<1>14. CASE operatorFinish
  BY <1>14 DEF operatorFinish, finishable, finished, current, markerOf
<1>15. CASE operatorFails
  BY <1>15 DEF operatorFails
<1>16. CASE acquireForOperator
  BY <1>16 DEF acquireForOperator, admitted
<1>17. CASE checkPending
  BY <1>17 DEF checkPending, stillPending, current
<1>18. CASE startEffect
  BY <1>18, StartShape
<1>19. CASE createPane
  BY <1>19 DEF createPane
<1>20. CASE bindPane
  BY <1>20 DEF bindPane
<1>21. CASE authorize
  BY <1>21 DEF authorize, authorizable, current
<1>22. CASE writePermit
  BY <1>22 DEF writePermit, observed
<1>23. CASE writeRelease
  BY <1>23 DEF writeRelease, observed
<1>24. CASE unlockGate
  BY <1>24 DEF unlockGate, observed
<1>25. CASE brokerReady
  BY <1>25 DEF brokerReady, observed
<1>26. CASE prepareEffect
  BY <1>26 DEF prepareEffect
<1>27. CASE cloneSource
  BY <1>27, CloneShape
<1>28. CASE monitorEffect
  BY <1>28 DEF monitorEffect, observed
<1>29. CASE stopEffect
  BY <1>29 DEF stopEffect, killed
<1>30. CASE cleanupEffect
  BY <1>30 DEF cleanupEffect, killed
<1>31. CASE removeClone
  BY <1>31 DEF removeClone
<1>32. CASE forgetLogs
  BY <1>32 DEF forgetLogs
<1>33. CASE writeMarker
  BY <1>33 DEF writeMarker
<1>34. CASE finishEffect
  BY <1>34 DEF finishEffect, finishable, finished, current
<1>35. CASE runReleases
  BY <1>35 DEF runReleases, releaseInner
<1>36. CASE removeMarker
  BY <1>36 DEF removeMarker, markerOf
<1>37. ASSUME NEW n \in Nonces, gateEnters(n) PROVE WorkInv'
  BY <1>37 DEF gateEnters
<1>38. ASSUME NEW n \in Nonces, paneExits(n) PROVE WorkInv'
  BY <1>38 DEF paneExits
<1>39. CASE sessionLost
  BY <1>39 DEF sessionLost
<1>40. CASE runFails
  BY <1>40 DEF runFails
<1>41. CASE crash
  BY <1>41 DEF crash
<1>42. CASE boot
  BY <1>42 DEF boot
<1>43. CASE sweepPendingMarkers
  BY <1>43 DEF sweepPendingMarkers, finishing, pendingRequest, markerOf
<1>44. CASE UNCHANGED vars
  BY <1>44 DEF vars
<1>. HIDE <1>a DEF WorkInv
<1>. QED
  BY <1>1, <1>2, <1>3, <1>4, <1>5, <1>6, <1>7, <1>8, <1>9, <1>10,
     <1>11, <1>12, <1>13, <1>14, <1>15, <1>16, <1>17, <1>18, <1>19,
     <1>20, <1>21, <1>22, <1>23, <1>24, <1>25, <1>26, <1>27, <1>28,
     <1>29, <1>30, <1>31, <1>32, <1>33, <1>34, <1>35, <1>36, <1>37,
     <1>38, <1>39, <1>40, <1>41, <1>42, <1>43, <1>44
  DEF Next, CycleNext, CycleWork, OperatorNext, RunNext, Environment

\* Results are true when they are found and stay true.
LEMMA ResultStep ==
  ASSUME LaunchInv, [Next]_vars
  PROVE  ResultInv'
<1>a. TypeOK /\ LedgerInv /\ WorkInv /\ ResultInv /\ FileInv /\ RunInv
  BY DEF LaunchInv
<1>. USE <1>a DEF TypeOK, LedgerTypes, DaemonTypes, FileTypes, Effect, Tomb,
     Record, Run, Work, Request, NoRecord, NoRun, NoWork, NoRequest, Pending,
     LedgerInv, ResultInv, Honest, Alive, ledger, files, tmux, daemon, at, goto,
     nonce
<1>1. CASE beginPrepare
  BY <1>1 DEF beginPrepare, admits, intend, request, acquiring
<1>2. ASSUME NEW n \in Nonces, beginStart(n) PROVE ResultInv'
  BY <1>2 DEF beginStart, admits, intend, request, acquiring
<1>3. CASE beginMonitor
  BY <1>3 DEF beginMonitor, admits, intend, request, acquiring
<1>4. CASE resumePendingRuntime
  BY <1>4 DEF resumePendingRuntime, finishing, pendingRequest, acquiring,
     verifyStart, verifyPrepare, markerOf, unattended
<1>5. ASSUME NEW n \in Nonces, rotateStartGate(n) PROVE ResultInv'
  BY <1>5 DEF rotateStartGate, rotatable, current, acquiring
<1>6. CASE cycleFinish
  <2>1. /\ Honest(cycle.req.action, cycle.result) /\ cycle.req.action \in Actions
        /\ finished(cycle.req, cycle.result)
    BY <1>6 DEF cycleFinish
  <2>2. effect \in Effect
    OBVIOUS
  <2>3. /\ (record.state \in {"completed", "cancelled"} => ~Alive(record.launch))'
        /\ effect'.id = effect.id /\ effect'.action = effect.action
    BY <1>6, <2>1, <2>2, FinishRecord DEF cycleFinish
  <2>4. markers' \subseteq markers
    BY <1>6 DEF cycleFinish
  <2>. QED  BY <1>6, <2>3, <2>4 DEF cycleFinish, finishable, current
<1>7. CASE cycleReleases
  BY <1>7 DEF cycleReleases, releaseInner
<1>8. CASE acquireForCycle
  BY <1>8 DEF acquireForCycle, admitted
<1>9. CASE cycleFails
  BY <1>9 DEF cycleFails
<1>10. CASE beginStop
  BY <1>10 DEF beginStop, intend, request, acquiring
<1>11. ASSUME NEW policy \in {"dismiss", "archive", "abandon"}, invalidateAttempt(policy)
       PROVE ResultInv'
  BY <1>11 DEF invalidateAttempt, intend, request, acquiring
<1>12. CASE cancelInvalidated
  BY <1>12 DEF cancelInvalidated, current
<1>13. CASE resumeReceipt
  BY <1>13 DEF resumeReceipt, finishing, pendingRequest, acquiring, verifyStop,
     verifyCleanup, kept, markerOf, unattended
<1>14. CASE operatorFinish
  <2>1. /\ Honest(operator.req.action, operator.result) /\ operator.req.action \in Actions
        /\ finished(operator.req, operator.result)
    BY <1>14 DEF operatorFinish
  <2>2. effect \in Effect
    OBVIOUS
  <2>3. /\ (record.state \in {"completed", "cancelled"} => ~Alive(record.launch))'
        /\ effect'.id = effect.id /\ effect'.action = effect.action
    BY <1>14, <2>1, <2>2, FinishRecord DEF operatorFinish
  <2>4. markers' \subseteq markers
    BY <1>14 DEF operatorFinish, markerOf
  <2>. QED  BY <1>14, <2>3, <2>4 DEF operatorFinish, finishable, current
<1>15. CASE operatorFails
  BY <1>15 DEF operatorFails
<1>16. CASE acquireForOperator
  BY <1>16 DEF acquireForOperator, admitted
<1>17. CASE checkPending
  BY <1>17 DEF checkPending, stillPending, current
<1>18. CASE startEffect
  <2>1. run.req.action = "start"
    BY <1>18, StartShape DEF RunInv
  <2>. QED  BY <1>18, <2>1, StartShape
<1>19. CASE createPane
  BY <1>19 DEF createPane, FileInv, RunInv
<1>20. CASE bindPane
  BY <1>20 DEF bindPane
<1>21. CASE authorize
  BY <1>21 DEF authorize, authorizable, current
<1>22. CASE writePermit
  BY <1>22 DEF writePermit, observed
<1>23. CASE writeRelease
  BY <1>23 DEF writeRelease, observed
<1>24. CASE unlockGate
  BY <1>24 DEF unlockGate, observed
<1>25. CASE brokerReady
  BY <1>25 DEF brokerReady, observed, RunInv
<1>26. CASE prepareEffect
  BY <1>26 DEF prepareEffect
<1>27. CASE cloneSource
  <2>1. run.req.action = "prepare"
    BY <1>27, CloneShape DEF RunInv
  <2>. QED  BY <1>27, <2>1, CloneShape
<1>28. CASE monitorEffect
  BY <1>28 DEF monitorEffect, observed, WorkInv, Known, FileInv
<1>29. CASE stopEffect
  BY <1>29 DEF stopEffect, killed, WorkInv, Known, FileInv
<1>30. CASE cleanupEffect
  BY <1>30 DEF cleanupEffect, killed
<1>31. CASE removeClone
  BY <1>31 DEF removeClone, RunInv
<1>32. CASE forgetLogs
  BY <1>32 DEF forgetLogs, RunInv
<1>33. CASE writeMarker
  BY <1>33 DEF writeMarker, WorkInv, Known
<1>34. CASE finishEffect
  <2>1. /\ Honest(run.req.action, run.result) /\ run.req.action \in Actions
        /\ finished(run.req, run.result)
    BY <1>34 DEF finishEffect
  <2>2. effect \in Effect
    OBVIOUS
  <2>3. /\ (record.state \in {"completed", "cancelled"} => ~Alive(record.launch))'
        /\ effect'.id = effect.id /\ effect'.action = effect.action
    BY <1>34, <2>1, <2>2, FinishRecord DEF finishEffect
  <2>4. markers' \subseteq markers
    BY <1>34 DEF finishEffect
  <2>. QED  BY <1>34, <2>3, <2>4 DEF finishEffect, finishable, current
<1>35. CASE runReleases
  BY <1>35 DEF runReleases, releaseInner
<1>36. CASE removeMarker
  BY <1>36 DEF removeMarker, markerOf
<1>37. ASSUME NEW n \in Nonces, gateEnters(n) PROVE ResultInv'
  BY <1>37 DEF gateEnters
<1>38. ASSUME NEW n \in Nonces, paneExits(n) PROVE ResultInv'
  BY <1>38 DEF paneExits
<1>39. CASE sessionLost
  BY <1>39 DEF sessionLost
<1>40. CASE runFails
  BY <1>40 DEF runFails
<1>41. CASE crash
  BY <1>41 DEF crash
<1>42. CASE boot
  BY <1>42 DEF boot
<1>43. CASE sweepPendingMarkers
  BY <1>43 DEF sweepPendingMarkers, finishing, pendingRequest, markerOf
<1>44. CASE UNCHANGED vars
  BY <1>44 DEF vars
<1>. HIDE <1>a DEF ResultInv
<1>. QED
  BY <1>1, <1>2, <1>3, <1>4, <1>5, <1>6, <1>7, <1>8, <1>9, <1>10,
     <1>11, <1>12, <1>13, <1>14, <1>15, <1>16, <1>17, <1>18, <1>19,
     <1>20, <1>21, <1>22, <1>23, <1>24, <1>25, <1>26, <1>27, <1>28,
     <1>29, <1>30, <1>31, <1>32, <1>33, <1>34, <1>35, <1>36, <1>37,
     <1>38, <1>39, <1>40, <1>41, <1>42, <1>43, <1>44
  DEF Next, CycleNext, CycleWork, OperatorNext, RunNext, Environment

\* Files and panes of a launch go one way.
LEMMA FileStep ==
  ASSUME LaunchInv, [Next]_vars
  PROVE  FileInv'
<1>a. TypeOK /\ FileInv /\ RunInv /\ WorkInv /\ ResultInv
  BY DEF LaunchInv
<1>. USE <1>a DEF TypeOK, FileTypes, DaemonTypes, Run, Work, FileInv, ledger,
     files, tmux, daemon, at, goto, nonce
<1>1. CASE beginPrepare
  BY <1>1 DEF beginPrepare, admits, intend, request, acquiring
<1>2. ASSUME NEW n \in Nonces, beginStart(n) PROVE FileInv'
  BY <1>2 DEF beginStart, admits, intend, request, acquiring
<1>3. CASE beginMonitor
  BY <1>3 DEF beginMonitor, admits, intend, request, acquiring
<1>4. CASE resumePendingRuntime
  BY <1>4 DEF resumePendingRuntime, finishing, pendingRequest, acquiring,
     verifyStart, verifyPrepare, markerOf, unattended
<1>5. ASSUME NEW n \in Nonces, rotateStartGate(n) PROVE FileInv'
  BY <1>5 DEF rotateStartGate, rotatable, current, acquiring
<1>6. CASE cycleFinish
  <2>1. Honest(cycle.req.action, cycle.result)
    BY <1>6 DEF cycleFinish, ResultInv
  <2>. QED  BY <1>6, <2>1, FinishFile DEF cycleFinish, tmux
<1>7. CASE cycleReleases
  BY <1>7 DEF cycleReleases, releaseInner, RunInv
<1>8. CASE acquireForCycle
  BY <1>8 DEF acquireForCycle, admitted
<1>9. CASE cycleFails
  BY <1>9 DEF cycleFails
<1>10. CASE beginStop
  BY <1>10 DEF beginStop, intend, request, acquiring
<1>11. ASSUME NEW policy \in {"dismiss", "archive", "abandon"}, invalidateAttempt(policy)
       PROVE FileInv'
  BY <1>11 DEF invalidateAttempt, intend, request, acquiring
<1>12. CASE cancelInvalidated
  BY <1>12 DEF cancelInvalidated, current
<1>13. CASE resumeReceipt
  BY <1>13 DEF resumeReceipt, finishing, pendingRequest, acquiring, verifyStop,
     verifyCleanup, kept, markerOf, unattended
<1>14. CASE operatorFinish
  <2>1. Honest(operator.req.action, operator.result)
    BY <1>14 DEF operatorFinish, ResultInv
  <2>. QED  BY <1>14, <2>1, FinishFile DEF operatorFinish, tmux
<1>15. CASE operatorFails
  BY <1>15 DEF operatorFails
<1>16. CASE acquireForOperator
  BY <1>16 DEF acquireForOperator, admitted
<1>17. CASE checkPending
  BY <1>17 DEF checkPending, stillPending, current
<1>18. CASE startEffect
  BY <1>18, StartShape
<1>19. CASE createPane
  BY <1>19 DEF createPane, RunInv
<1>20. CASE bindPane
  BY <1>20 DEF bindPane, RunInv, WorkInv, Known
<1>21. CASE authorize
  BY <1>21 DEF authorize, authorizable, current
<1>22. CASE writePermit
  BY <1>22 DEF writePermit, observed
<1>23. CASE writeRelease
  BY <1>23 DEF writeRelease, observed
<1>24. CASE unlockGate
  BY <1>24 DEF unlockGate, observed
<1>25. CASE brokerReady
  BY <1>25 DEF brokerReady, observed
<1>26. CASE prepareEffect
  BY <1>26 DEF prepareEffect
<1>27. CASE cloneSource
  BY <1>27, CloneShape
<1>28. CASE monitorEffect
  BY <1>28 DEF monitorEffect, observed
<1>29. CASE stopEffect
  BY <1>29 DEF stopEffect, killed
<1>30. CASE cleanupEffect
  BY <1>30 DEF cleanupEffect, killed
<1>31. CASE removeClone
  BY <1>31 DEF removeClone
<1>32. CASE forgetLogs
  BY <1>32 DEF forgetLogs
<1>33. CASE writeMarker
  BY <1>33 DEF writeMarker
<1>34. CASE finishEffect
  <2>1. Honest(run.req.action, run.result)
    BY <1>34 DEF finishEffect, ResultInv
  <2>. QED  BY <1>34, <2>1, FinishFile DEF finishEffect, tmux
<1>35. CASE runReleases
  BY <1>35 DEF runReleases, releaseInner, RunInv
<1>36. CASE removeMarker
  BY <1>36 DEF removeMarker, markerOf
<1>37. ASSUME NEW n \in Nonces, gateEnters(n) PROVE FileInv'
  BY <1>37 DEF gateEnters
<1>38. ASSUME NEW n \in Nonces, paneExits(n) PROVE FileInv'
  BY <1>38 DEF paneExits
<1>39. CASE sessionLost
  BY <1>39 DEF sessionLost
<1>40. CASE runFails
  BY <1>40 DEF runFails
<1>41. CASE crash
  BY <1>41 DEF crash
<1>42. CASE boot
  BY <1>42 DEF boot
<1>43. CASE sweepPendingMarkers
  BY <1>43 DEF sweepPendingMarkers, finishing, pendingRequest, markerOf
<1>44. CASE UNCHANGED vars
  BY <1>44 DEF vars
<1>. HIDE <1>a DEF FileInv
<1>. QED
  BY <1>1, <1>2, <1>3, <1>4, <1>5, <1>6, <1>7, <1>8, <1>9, <1>10,
     <1>11, <1>12, <1>13, <1>14, <1>15, <1>16, <1>17, <1>18, <1>19,
     <1>20, <1>21, <1>22, <1>23, <1>24, <1>25, <1>26, <1>27, <1>28,
     <1>29, <1>30, <1>31, <1>32, <1>33, <1>34, <1>35, <1>36, <1>37,
     <1>38, <1>39, <1>40, <1>41, <1>42, <1>43, <1>44
  DEF Next, CycleNext, CycleWork, OperatorNext, RunNext, Environment

\* A run goes through the steps of its effect.
LEMMA RunStep ==
  ASSUME LaunchInv, [Next]_vars
  PROVE  RunInv'
<1>a. TypeOK /\ LedgerInv /\ WorkInv /\ RunInv
  BY DEF LaunchInv
<1>. USE <1>a DEF TypeOK, FileTypes, DaemonTypes, Run, Work, Request, NoRun,
     NoWork, NoRequest, RunInv, ledger, files, tmux, daemon, at, goto, nonce
<1>1. CASE beginPrepare
  BY <1>1 DEF beginPrepare, admits, intend, request, acquiring
<1>2. ASSUME NEW n \in Nonces, beginStart(n) PROVE RunInv'
  BY <1>2 DEF beginStart, admits, intend, request, acquiring, LedgerTypes, Effect,
     LedgerInv, WorkInv, Known, Pending
<1>3. CASE beginMonitor
  BY <1>3 DEF beginMonitor, admits, intend, request, acquiring
<1>4. CASE resumePendingRuntime
  BY <1>4 DEF resumePendingRuntime, finishing, pendingRequest, acquiring,
     verifyStart, verifyPrepare, markerOf, unattended
<1>5. ASSUME NEW n \in Nonces, rotateStartGate(n) PROVE RunInv'
  BY <1>5 DEF rotateStartGate, rotatable, current, acquiring, LedgerTypes,
     LedgerInv, WorkInv, Known, Pending
<1>6. CASE cycleFinish
  BY <1>6 DEF cycleFinish, finishable, finished, current
<1>7. CASE cycleReleases
  BY <1>7 DEF cycleReleases, releaseInner
<1>8. CASE acquireForCycle
  BY <1>8 DEF acquireForCycle, admitted
<1>9. CASE cycleFails
  BY <1>9 DEF cycleFails
<1>10. CASE beginStop
  BY <1>10 DEF beginStop, intend, request, acquiring
<1>11. ASSUME NEW policy \in {"dismiss", "archive", "abandon"}, invalidateAttempt(policy)
       PROVE RunInv'
  BY <1>11 DEF invalidateAttempt, intend, request, acquiring
<1>12. CASE cancelInvalidated
  BY <1>12 DEF cancelInvalidated, current
<1>13. CASE resumeReceipt
  BY <1>13 DEF resumeReceipt, finishing, pendingRequest, acquiring, verifyStop,
     verifyCleanup, kept, markerOf, unattended
<1>14. CASE operatorFinish
  BY <1>14 DEF operatorFinish, finishable, finished, current, markerOf
<1>15. CASE operatorFails
  BY <1>15 DEF operatorFails
<1>16. CASE acquireForOperator
  BY <1>16 DEF acquireForOperator, admitted
<1>17. CASE checkPending
  BY <1>17 DEF checkPending, stillPending, current, LedgerInv
<1>18. CASE startEffect
  BY <1>18, StartShape
<1>19. CASE createPane
  BY <1>19 DEF createPane
<1>20. CASE bindPane
  BY <1>20 DEF bindPane
<1>21. CASE authorize
  BY <1>21 DEF authorize, authorizable, current
<1>22. CASE writePermit
  BY <1>22 DEF writePermit, observed
<1>23. CASE writeRelease
  BY <1>23 DEF writeRelease, observed
<1>24. CASE unlockGate
  BY <1>24 DEF unlockGate, observed
<1>25. CASE brokerReady
  BY <1>25 DEF brokerReady, observed
<1>26. CASE prepareEffect
  BY <1>26 DEF prepareEffect
<1>27. CASE cloneSource
  BY <1>27, CloneShape
<1>28. CASE monitorEffect
  BY <1>28 DEF monitorEffect, observed
<1>29. CASE stopEffect
  BY <1>29 DEF stopEffect, killed
<1>30. CASE cleanupEffect
  BY <1>30 DEF cleanupEffect, killed
<1>31. CASE removeClone
  BY <1>31 DEF removeClone
<1>32. CASE forgetLogs
  BY <1>32 DEF forgetLogs
<1>33. CASE writeMarker
  BY <1>33 DEF writeMarker
<1>34. CASE finishEffect
  BY <1>34, CurrentIs DEF finishEffect, finishable, finished, current, WorkInv,
     Known
<1>35. CASE runReleases
  BY <1>35 DEF runReleases, releaseInner
<1>36. CASE removeMarker
  BY <1>36 DEF removeMarker, markerOf
<1>37. ASSUME NEW n \in Nonces, gateEnters(n) PROVE RunInv'
  BY <1>37 DEF gateEnters
<1>38. ASSUME NEW n \in Nonces, paneExits(n) PROVE RunInv'
  BY <1>38 DEF paneExits
<1>39. CASE sessionLost
  BY <1>39 DEF sessionLost
<1>40. CASE runFails
  BY <1>40 DEF runFails
<1>41. CASE crash
  BY <1>41 DEF crash
<1>42. CASE boot
  BY <1>42 DEF boot
<1>43. CASE sweepPendingMarkers
  BY <1>43 DEF sweepPendingMarkers, finishing, pendingRequest, markerOf
<1>44. CASE UNCHANGED vars
  BY <1>44 DEF vars
<1>. HIDE <1>a DEF RunInv
<1>. QED
  BY <1>1, <1>2, <1>3, <1>4, <1>5, <1>6, <1>7, <1>8, <1>9, <1>10,
     <1>11, <1>12, <1>13, <1>14, <1>15, <1>16, <1>17, <1>18, <1>19,
     <1>20, <1>21, <1>22, <1>23, <1>24, <1>25, <1>26, <1>27, <1>28,
     <1>29, <1>30, <1>31, <1>32, <1>33, <1>34, <1>35, <1>36, <1>37,
     <1>38, <1>39, <1>40, <1>41, <1>42, <1>43, <1>44
  DEF Next, CycleNext, CycleWork, OperatorNext, RunNext, Environment

\* The candidate with a permit is never replaced.
LEMMA PermitStep ==
  ASSUME LaunchInv, [Next]_vars
  PROVE  PermitInv'
<1>a. TypeOK /\ LedgerInv /\ WorkInv /\ FileInv /\ RunInv /\ PermitInv
  BY DEF LaunchInv
<1>. USE <1>a DEF TypeOK, LedgerTypes, DaemonTypes, FileTypes, Effect, Tomb,
     Record, Run, Work, Request, NoRecord, NoRun, NoWork, NoRequest, Pending,
     PermitInv, Permitted, ledger, files, tmux, daemon, at, goto, nonce
<1>1. CASE beginPrepare
  BY <1>1 DEF beginPrepare, admits, intend, request, acquiring
<1>2. ASSUME NEW n \in Nonces, beginStart(n) PROVE PermitInv'
  <2>1. drawn = {} /\ ~effect'.mayRun
    BY <1>2 DEF beginStart, admits, intend, LedgerInv
  <2>2. permit = {} /\ run.pc # "permit"
    BY <2>1 DEF FileInv, RunInv, WorkInv, Known
  <2>. QED  BY <1>2, <2>1, <2>2 DEF beginStart
<1>3. CASE beginMonitor
  BY <1>3 DEF beginMonitor, admits, intend, request, acquiring
<1>4. CASE resumePendingRuntime
  BY <1>4 DEF resumePendingRuntime, finishing, pendingRequest, acquiring,
     verifyStart, verifyPrepare, markerOf, unattended
<1>5. ASSUME NEW n \in Nonces, rotateStartGate(n) PROVE PermitInv'
  BY <1>5 DEF rotateStartGate, rotatable, current, acquiring
<1>6. CASE cycleFinish
  BY <1>6 DEF cycleFinish, finishable, finished, current
<1>7. CASE cycleReleases
  BY <1>7 DEF cycleReleases, releaseInner
<1>8. CASE acquireForCycle
  BY <1>8 DEF acquireForCycle, admitted
<1>9. CASE cycleFails
  BY <1>9 DEF cycleFails
<1>10. CASE beginStop
  BY <1>10 DEF beginStop, intend, request, acquiring
<1>11. ASSUME NEW policy \in {"dismiss", "archive", "abandon"}, invalidateAttempt(policy)
       PROVE PermitInv'
  BY <1>11 DEF invalidateAttempt, intend, request, acquiring
<1>12. CASE cancelInvalidated
  BY <1>12 DEF cancelInvalidated, current
<1>13. CASE resumeReceipt
  BY <1>13 DEF resumeReceipt, finishing, pendingRequest, acquiring, verifyStop,
     verifyCleanup, kept, markerOf, unattended
<1>14. CASE operatorFinish
  BY <1>14 DEF operatorFinish, finishable, finished, current, markerOf
<1>15. CASE operatorFails
  BY <1>15 DEF operatorFails
<1>16. CASE acquireForOperator
  BY <1>16 DEF acquireForOperator, admitted
<1>17. CASE checkPending
  BY <1>17 DEF checkPending, stillPending, current
<1>18. CASE startEffect
  BY <1>18, StartShape
<1>19. CASE createPane
  BY <1>19 DEF createPane
<1>20. CASE bindPane
  BY <1>20 DEF bindPane
<1>21. CASE authorize
  BY <1>21 DEF authorize, authorizable, current, LedgerInv, WorkInv, Known, RunInv
<1>22. CASE writePermit
  BY <1>22 DEF writePermit, observed
<1>23. CASE writeRelease
  BY <1>23 DEF writeRelease, observed
<1>24. CASE unlockGate
  BY <1>24 DEF unlockGate, observed
<1>25. CASE brokerReady
  BY <1>25 DEF brokerReady, observed
<1>26. CASE prepareEffect
  BY <1>26 DEF prepareEffect
<1>27. CASE cloneSource
  BY <1>27, CloneShape
<1>28. CASE monitorEffect
  BY <1>28 DEF monitorEffect, observed
<1>29. CASE stopEffect
  BY <1>29 DEF stopEffect, killed
<1>30. CASE cleanupEffect
  BY <1>30 DEF cleanupEffect, killed
<1>31. CASE removeClone
  BY <1>31 DEF removeClone
<1>32. CASE forgetLogs
  BY <1>32 DEF forgetLogs
<1>33. CASE writeMarker
  BY <1>33 DEF writeMarker
<1>34. CASE finishEffect
  BY <1>34 DEF finishEffect, finishable, finished, current
<1>35. CASE runReleases
  BY <1>35 DEF runReleases, releaseInner
<1>36. CASE removeMarker
  BY <1>36 DEF removeMarker, markerOf
<1>37. ASSUME NEW n \in Nonces, gateEnters(n) PROVE PermitInv'
  BY <1>37 DEF gateEnters
<1>38. ASSUME NEW n \in Nonces, paneExits(n) PROVE PermitInv'
  BY <1>38 DEF paneExits
<1>39. CASE sessionLost
  BY <1>39 DEF sessionLost
<1>40. CASE runFails
  BY <1>40 DEF runFails
<1>41. CASE crash
  BY <1>41 DEF crash
<1>42. CASE boot
  BY <1>42 DEF boot
<1>43. CASE sweepPendingMarkers
  BY <1>43 DEF sweepPendingMarkers, finishing, pendingRequest, markerOf
<1>44. CASE UNCHANGED vars
  BY <1>44 DEF vars
<1>. HIDE <1>a DEF PermitInv
<1>. QED
  BY <1>1, <1>2, <1>3, <1>4, <1>5, <1>6, <1>7, <1>8, <1>9, <1>10,
     <1>11, <1>12, <1>13, <1>14, <1>15, <1>16, <1>17, <1>18, <1>19,
     <1>20, <1>21, <1>22, <1>23, <1>24, <1>25, <1>26, <1>27, <1>28,
     <1>29, <1>30, <1>31, <1>32, <1>33, <1>34, <1>35, <1>36, <1>37,
     <1>38, <1>39, <1>40, <1>41, <1>42, <1>43, <1>44
  DEF Next, CycleNext, CycleWork, OperatorNext, RunNext, Environment

\* A superseded run is told before the cleanup begins.
LEMMA SupersededStep ==
  ASSUME LaunchInv, [Next]_vars
  PROVE  SupersededInv'
<1>a. TypeOK /\ LedgerInv /\ WorkInv /\ ResultInv /\ SupersededInv
  BY DEF LaunchInv
<1>. USE <1>a DEF TypeOK, LedgerTypes, DaemonTypes, FileTypes, Effect, Tomb,
     Record, Run, Work, Request, NoRecord, NoRun, NoWork, NoRequest, Pending,
     SupersededInv, markerOf, ledger, files, tmux, daemon, at, goto, nonce
<1>1. CASE beginPrepare
  BY <1>1 DEF beginPrepare, admits, intend, request, acquiring, ResultInv
<1>2. ASSUME NEW n \in Nonces, beginStart(n) PROVE SupersededInv'
  BY <1>2 DEF beginStart, admits, intend, request, acquiring, ResultInv
<1>3. CASE beginMonitor
  BY <1>3 DEF beginMonitor, admits, intend, request, acquiring, ResultInv
<1>4. CASE resumePendingRuntime
  BY <1>4 DEF resumePendingRuntime, finishing, pendingRequest, acquiring,
     verifyStart, verifyPrepare, markerOf, unattended
<1>5. ASSUME NEW n \in Nonces, rotateStartGate(n) PROVE SupersededInv'
  BY <1>5 DEF rotateStartGate, rotatable, current, acquiring
<1>6. CASE cycleFinish
  BY <1>6 DEF cycleFinish, finishable, finished, current
<1>7. CASE cycleReleases
  BY <1>7 DEF cycleReleases, releaseInner
<1>8. CASE acquireForCycle
  BY <1>8 DEF acquireForCycle, admitted
<1>9. CASE cycleFails
  BY <1>9 DEF cycleFails
<1>10. CASE beginStop
  BY <1>10 DEF beginStop, intend, request, acquiring, ResultInv
<1>11. ASSUME NEW policy \in {"dismiss", "archive", "abandon"}, invalidateAttempt(policy)
       PROVE SupersededInv'
  BY <1>11 DEF invalidateAttempt, intend, request, acquiring, ResultInv
<1>12. CASE cancelInvalidated
  BY <1>12 DEF cancelInvalidated, current, WorkInv, LedgerInv
<1>13. CASE resumeReceipt
  BY <1>13 DEF resumeReceipt, finishing, pendingRequest, acquiring, verifyStop,
     verifyCleanup, kept, markerOf, unattended
<1>14. CASE operatorFinish
  BY <1>14 DEF operatorFinish, finishable, finished, current, markerOf
<1>15. CASE operatorFails
  BY <1>15 DEF operatorFails
<1>16. CASE acquireForOperator
  BY <1>16 DEF acquireForOperator, admitted
<1>17. CASE checkPending
  BY <1>17 DEF checkPending, stillPending, current, WorkInv, LedgerInv, Known
<1>18. CASE startEffect
  BY <1>18, StartShape
<1>19. CASE createPane
  BY <1>19 DEF createPane
<1>20. CASE bindPane
  BY <1>20 DEF bindPane
<1>21. CASE authorize
  BY <1>21 DEF authorize, authorizable, current
<1>22. CASE writePermit
  BY <1>22 DEF writePermit, observed
<1>23. CASE writeRelease
  BY <1>23 DEF writeRelease, observed
<1>24. CASE unlockGate
  BY <1>24 DEF unlockGate, observed
<1>25. CASE brokerReady
  BY <1>25 DEF brokerReady, observed
<1>26. CASE prepareEffect
  BY <1>26 DEF prepareEffect
<1>27. CASE cloneSource
  BY <1>27, CloneShape
<1>28. CASE monitorEffect
  BY <1>28 DEF monitorEffect, observed
<1>29. CASE stopEffect
  BY <1>29 DEF stopEffect, killed
<1>30. CASE cleanupEffect
  BY <1>30 DEF cleanupEffect, killed
<1>31. CASE removeClone
  BY <1>31 DEF removeClone
<1>32. CASE forgetLogs
  BY <1>32 DEF forgetLogs
<1>33. CASE writeMarker
  BY <1>33 DEF writeMarker, WorkInv
<1>34. CASE finishEffect
  BY <1>34 DEF finishEffect, finishable, finished, current
<1>35. CASE runReleases
  BY <1>35 DEF runReleases, releaseInner
<1>36. CASE removeMarker
  BY <1>36 DEF removeMarker, markerOf
<1>37. ASSUME NEW n \in Nonces, gateEnters(n) PROVE SupersededInv'
  BY <1>37 DEF gateEnters
<1>38. ASSUME NEW n \in Nonces, paneExits(n) PROVE SupersededInv'
  BY <1>38 DEF paneExits
<1>39. CASE sessionLost
  BY <1>39 DEF sessionLost
<1>40. CASE runFails
  BY <1>40 DEF runFails
<1>41. CASE crash
  BY <1>41 DEF crash
<1>42. CASE boot
  BY <1>42 DEF boot
<1>43. CASE sweepPendingMarkers
  BY <1>43 DEF sweepPendingMarkers, finishing, pendingRequest, markerOf
<1>44. CASE UNCHANGED vars
  BY <1>44 DEF vars
<1>. HIDE <1>a DEF SupersededInv
<1>. QED
  BY <1>1, <1>2, <1>3, <1>4, <1>5, <1>6, <1>7, <1>8, <1>9, <1>10,
     <1>11, <1>12, <1>13, <1>14, <1>15, <1>16, <1>17, <1>18, <1>19,
     <1>20, <1>21, <1>22, <1>23, <1>24, <1>25, <1>26, <1>27, <1>28,
     <1>29, <1>30, <1>31, <1>32, <1>33, <1>34, <1>35, <1>36, <1>37,
     <1>38, <1>39, <1>40, <1>41, <1>42, <1>43, <1>44
  DEF Next, CycleNext, CycleWork, OperatorNext, RunNext, Environment

\* Nothing comes back after the cleanup.
LEMMA CleanStep ==
  ASSUME LaunchInv, [Next]_vars
  PROVE  CleanInv'
<1>a. /\ TypeOK /\ LedgerInv /\ WorkInv /\ ResultInv /\ FileInv /\ RunInv
      /\ SupersededInv /\ CleanInv
  BY DEF LaunchInv
<1>. USE <1>a DEF TypeOK, LedgerTypes, DaemonTypes, FileTypes, Effect, Tomb,
     Record, Run, Work, Request, NoRecord, NoRun, NoWork, NoRequest, Pending,
     CleanInv, CleanupDone, kept, markerOf, ledger, files, tmux, daemon, at, goto,
     nonce
<1>1. CASE beginPrepare
  BY <1>1 DEF beginPrepare, admits, intend, request, acquiring
<1>2. ASSUME NEW n \in Nonces, beginStart(n) PROVE CleanInv'
  BY <1>2 DEF beginStart, admits, intend, request, acquiring
<1>3. CASE beginMonitor
  BY <1>3 DEF beginMonitor, admits, intend, request, acquiring
<1>4. CASE resumePendingRuntime
  BY <1>4 DEF resumePendingRuntime, finishing, pendingRequest, acquiring,
     verifyStart, verifyPrepare, markerOf, unattended
<1>5. ASSUME NEW n \in Nonces, rotateStartGate(n) PROVE CleanInv'
  BY <1>5 DEF rotateStartGate, rotatable, current, acquiring
<1>6. CASE cycleFinish
  BY <1>6 DEF cycleFinish, finishable, finished, current, WorkInv, CycleActions
<1>7. CASE cycleReleases
  BY <1>7 DEF cycleReleases, releaseInner
<1>8. CASE acquireForCycle
  BY <1>8 DEF acquireForCycle, admitted
<1>9. CASE cycleFails
  BY <1>9 DEF cycleFails
<1>10. CASE beginStop
  BY <1>10 DEF beginStop, intend, request, acquiring
<1>11. ASSUME NEW policy \in {"dismiss", "archive", "abandon"}, invalidateAttempt(policy)
       PROVE CleanInv'
  BY <1>11 DEF invalidateAttempt, intend, request, acquiring, ResultInv, WorkInv,
     Known, RunInv
<1>12. CASE cancelInvalidated
  BY <1>12 DEF cancelInvalidated, current
<1>13. CASE resumeReceipt
  BY <1>13 DEF resumeReceipt, finishing, pendingRequest, acquiring, verifyStop,
     verifyCleanup, kept, markerOf, unattended, LedgerInv
<1>14. CASE operatorFinish
  BY <1>14 DEF operatorFinish, finishable, finished, current, markerOf
<1>15. CASE operatorFails
  BY <1>15 DEF operatorFails
<1>16. CASE acquireForOperator
  BY <1>16 DEF acquireForOperator, admitted
<1>17. CASE checkPending
  BY <1>17 DEF checkPending, stillPending, current
<1>18. CASE startEffect
  BY <1>18, StartShape, OwnAction DEF RunInv
<1>19. CASE createPane
  BY <1>19, DoneIsTold DEF createPane, RunInv
<1>20. CASE bindPane
  BY <1>20 DEF bindPane
<1>21. CASE authorize
  BY <1>21 DEF authorize, authorizable, current
<1>22. CASE writePermit
  BY <1>22 DEF writePermit, observed
<1>23. CASE writeRelease
  BY <1>23 DEF writeRelease, observed
<1>24. CASE unlockGate
  BY <1>24 DEF unlockGate, observed
<1>25. CASE brokerReady
  BY <1>25, OwnAction DEF brokerReady, observed, RunInv
<1>26. CASE prepareEffect
  BY <1>26, DoneIsTold DEF prepareEffect, RunInv
<1>27. CASE cloneSource
  <2>1. run.req.action = "prepare" /\ worktree = "logs" /\ drawn = {}
    BY <1>27, CloneShape DEF RunInv
  <2>2. tomb.policy # "archive"
    BY <2>1 DEF LedgerInv, FileInv
  <2>3. ~CleanupDone /\ ~CleanupDone'
    BY <1>27, <2>1, <2>2, CloneShape, OwnAction DEF Known
  <2>. QED  BY <1>27, <2>3, CloneShape
<1>28. CASE monitorEffect
  BY <1>28, OwnAction DEF monitorEffect, observed
<1>29. CASE stopEffect
  BY <1>29, OwnAction DEF stopEffect, killed
<1>30. CASE cleanupEffect
  <2>1. tomb.policy # "none"
    BY <1>30 DEF cleanupEffect, WorkInv, Known, LedgerInv
  <2>. QED  BY <1>30, <2>1 DEF cleanupEffect, killed
<1>31. CASE removeClone
  BY <1>31 DEF removeClone
<1>32. CASE forgetLogs
  BY <1>32 DEF forgetLogs
<1>33. CASE writeMarker
  BY <1>33 DEF writeMarker
<1>34. CASE finishEffect
  BY <1>34 DEF finishEffect, finishable, finished, current
<1>35. CASE runReleases
  BY <1>35 DEF runReleases, releaseInner
<1>36. CASE removeMarker
  BY <1>36 DEF removeMarker, markerOf
<1>37. ASSUME NEW n \in Nonces, gateEnters(n) PROVE CleanInv'
  BY <1>37 DEF gateEnters
<1>38. ASSUME NEW n \in Nonces, paneExits(n) PROVE CleanInv'
  BY <1>38 DEF paneExits
<1>39. CASE sessionLost
  BY <1>39 DEF sessionLost
<1>40. CASE runFails
  BY <1>40 DEF runFails
<1>41. CASE crash
  BY <1>41 DEF crash
<1>42. CASE boot
  BY <1>42 DEF boot
<1>43. CASE sweepPendingMarkers
  BY <1>43 DEF sweepPendingMarkers, finishing, pendingRequest, markerOf
<1>44. CASE UNCHANGED vars
  BY <1>44 DEF vars
<1>. HIDE <1>a DEF CleanInv
<1>. QED
  BY <1>1, <1>2, <1>3, <1>4, <1>5, <1>6, <1>7, <1>8, <1>9, <1>10,
     <1>11, <1>12, <1>13, <1>14, <1>15, <1>16, <1>17, <1>18, <1>19,
     <1>20, <1>21, <1>22, <1>23, <1>24, <1>25, <1>26, <1>27, <1>28,
     <1>29, <1>30, <1>31, <1>32, <1>33, <1>34, <1>35, <1>36, <1>37,
     <1>38, <1>39, <1>40, <1>41, <1>42, <1>43, <1>44
  DEF Next, CycleNext, CycleWork, OperatorNext, RunNext, Environment

-----------------------------------------------------------------------------
(* Theorems *)

\* The invariant holds in every reachable state.
THEOREM LaunchInductive == Spec => []LaunchInv
<1>1. Init => LaunchInv
  <2>. SUFFICES ASSUME Init PROVE LaunchInv
    OBVIOUS
  <2>. USE DEF Init, NoRecord, NoWork, NoRun, NoRequest
  <2>1. TypeOK
    BY DEF TypeOK, LedgerTypes, FileTypes, DaemonTypes, Actions, Launches, States,
           Record, Effect, Tomb, Request, Marker, Work, Progress, Run
  <2>2. LedgerInv /\ WorkInv /\ FileInv /\ RunInv /\ SupersededInv
    BY DEF LedgerInv, WorkInv, FileInv, RunInv, SupersededInv, Pending
  <2>3. ResultInv
    BY DEF ResultInv
  <2>4. PermitInv
    BY DEF PermitInv, Permitted
  <2>5. CleanInv
    BY DEF CleanInv, CleanupDone
  <2>. QED  BY <2>1, <2>2, <2>3, <2>4, <2>5 DEF LaunchInv
<1>2. LaunchInv /\ [Next]_vars => LaunchInv'
  BY TypeStep, LedgerStep, WorkStep, ResultStep, FileStep, RunStep, PermitStep,
     SupersededStep, CleanStep DEF LaunchInv
<1>. QED  BY <1>1, <1>2, PTL DEF Spec

\* Every variable of the attempt has its type, what is written to disk included.
THEOREM LaunchTypes == Spec => []TypeOK
BY LaunchInductive, PTL DEF LaunchInv

\* At most one candidate gets through its gate, and its worker runs only after
\* the commit that says so (startEffect, RunImplementationGate, the release of
\* the terminal broker), over any number of crashes, retries and rotations.
THEOREM OneWorkerOnly == Spec => []SingleWorker
<1>1. LaunchInv => SingleWorker
  BY DEF LaunchInv, PermitInv, Permitted, FileInv, SingleWorker
<1>. QED  BY <1>1, LaunchInductive, PTL

\* The record of an attempt claims no more than what happened
\* (applyFinishRuntimeEffect and the results it is given).
THEOREM RecordsHonest == Spec => []RecordHonest
<1>1. LaunchInv => RecordHonest
  BY DEF LaunchInv, LedgerInv, ResultInv, RecordHonest
<1>. QED  BY <1>1, LaunchInductive, PTL

\* No late effect of an attempt undoes its completed cleanup
\* (executeOperatorCleanup, cancelInvalidated).
THEOREM CleanForGood == Spec => []CleanedStaysClean
<1>1. LaunchInv => CleanedStaysClean
  BY DEF LaunchInv, CleanInv, CleanupDone, CleanedStaysClean
<1>. QED  BY <1>1, LaunchInductive, PTL

\* No result of an effect that was superseded overwrites a settled attempt
\* (applyFinishRuntimeEffect).
THEOREM SettledForGood == Spec => SettledStaysSettled
<1>1. ASSUME LaunchInv, [Next]_vars,
             record.state \in {"completed", "failed", "cancelled"}
      PROVE  record' = record \/ record'.state = "none"
  <2>1. ~(Pending /\ effect.action \in {"prepare", "start", "monitor", "stop"})
    BY <1>1 DEF LaunchInv, LedgerInv
  <2>2. ASSUME NEW req, NEW result, finishable(req, result), finished(req, result),
               req.action \in Actions
        PROVE  record' = record
    BY <2>1, <2>2 DEF finishable, current, finished, Actions
  <2>3. CASE UNCHANGED vars
    BY <2>3 DEF vars, ledger
  <2>4. CASE CycleNext
    BY <1>1, <2>2, <2>4 DEF CycleNext, CycleWork, beginPrepare, beginStart,
       beginMonitor,
       resumePendingRuntime, rotateStartGate, cycleFinish, cycleReleases,
       acquireForCycle, cycleFails, admits, ledger, LaunchInv, TypeOK, DaemonTypes,
       Work, Request
  <2>5. CASE OperatorNext
    BY <1>1, <2>2, <2>5 DEF OperatorNext, beginStop, invalidateAttempt,
       cancelInvalidated,
       resumeReceipt, operatorFinish, operatorFails, acquireForOperator, ledger,
       NoRecord, LaunchInv, TypeOK, DaemonTypes, Work, Request
  <2>6. CASE RunNext
    BY <1>1, <2>2, <2>6 DEF RunNext, checkPending, startEffect, createPane,
       bindPane, authorize,
       writePermit, writeRelease, unlockGate, brokerReady, prepareEffect, cloneSource,
       monitorEffect, stopEffect, cleanupEffect, removeClone, forgetLogs, writeMarker,
       finishEffect, runReleases, removeMarker, ledger, LaunchInv, TypeOK, DaemonTypes,
       Run, Request
  <2>7. CASE Environment
    BY <2>7 DEF Environment, gateEnters, paneExits, sessionLost, runFails, crash,
       boot,
       sweepPendingMarkers, ledger
  <2>. QED  BY <1>1, <2>3, <2>4, <2>5, <2>6, <2>7 DEF Next
<1>2. LaunchInv /\ [Next]_vars =>
        [record.state \in {"completed", "failed", "cancelled"}
           => record' = record \/ record'.state = "none"]_vars
  BY <1>1
<1>. QED  BY <1>2, LaunchInductive, PTL DEF Spec, SettledStaysSettled
=============================================================================
