---------------------------- MODULE AttemptLaunch ----------------------------
(***************************************************************************)
(* One attempt of one issue, from the Prepare intent to its cleanup: the   *)
(* slice of the runtime ledger that belongs to it, the coordinator that    *)
(* runs one effect of the attempt at a time, the reconciliation cycle and  *)
(* the operator that admit effects and resume them after a restart, and    *)
(* the tmux pane with the launch gate and the terminal broker in it.       *)
(*                                                                         *)
(* A commit of the ledger is one atomic durable step here: StateOwner is   *)
(* the module that shows why. A launch token (gate nonce) names one        *)
(* candidate pane. The daemon can crash between any two steps, a tmux      *)
(* session can lose its name at any time with or without its process, and  *)
(* every I/O step can fail.                                                *)
(***************************************************************************)
EXTENDS Naturals, FiniteSets

CONSTANTS Nonces,      \* launch tokens the owner can draw
          None,        \* "no launch" / "no session"
          MaxEffects,  \* bound on effect intents
          MaxBoots     \* bound on daemon starts

ASSUME LaunchAssumption ==
  /\ None \notin Nonces
  /\ MaxEffects \in Nat
  /\ MaxBoots \in Nat

VARIABLES
  gen,       \* AttemptGenerations of the attempt, 0 before it is owned
  record,    \* Attempts: the manifest's state and launch id
  effect,    \* Effects: the last runtime effect intent of the attempt
  tomb,      \* Tombstones: the destructive action and its cleanup phase
  drawn,     \* launch tokens drawn so far
  markers,   \* runtime-effects/<id>.done: results that survive a crash
  bound,     \* candidates with an implementation binding file
  permit,    \* candidates with a permit file
  release,   \* candidates with a release file
  entered,   \* candidates with a gate-entered file
  worktree,  \* the attempt's log directory and its clone
  session,   \* the candidate whose pane the session name reaches
  pane,      \* process of each candidate: gate, broker, released worker
  unlocked,  \* candidates whose tmux gate channel has been unlocked
  mode,      \* daemon: down, sweeping markers at startup, serving
  boots,     \* daemon starts so far
  cycle,     \* the reconciliation cycle's work on a pending effect
  operator,  \* the operator service's work on a pending effect
  run,       \* holder of the attempt key and its progress
  launched   \* history: launches a committed ledger has called running

ledger   == <<gen, record, effect, tomb>>
files    == <<bound, permit, release, entered>>
tmux     == <<session, pane, unlocked>>
daemon   == <<mode, boots, cycle, operator, run>>
vars     == <<ledger, drawn, markers, files, worktree, tmux, daemon, launched>>

-----------------------------------------------------------------------------
(* Types *)

Actions  == {"prepare", "start", "monitor", "stop", "cleanup"}
Launches == Nonces \cup {None}
States   == {"none", "preparing", "running", "completed", "failed", "cancelled"}
Record   == [state : States, launch : Launches]
Effect   == [id : Nat, action : Actions, gen : Nat, nonce : Launches,
             status : {"none", "pending", "completed"}, mayRun : BOOLEAN]
Tomb     == [policy : {"none", "dismiss", "archive", "abandon"},
             phase : {"pending", "cleanup-started", "completed"},
             state : States, launch : Launches]

\* A request names its intent and the launch its manifest or gate names.
Request  == [id : Nat, action : Actions, gen : Nat, nonce : Launches]
Marker   == [id : Nat, result : Record]
Work     == [step : {"idle", "cancel", "rotate", "acquire", "finish", "worker"},
             req : Request, result : Record]
Progress == {"idle", "check", "start", "create", "bind", "authorize", "permit",
             "release", "unlock", "ready", "exec", "clone", "remove", "forget",
             "mark", "finish", "worker", "unmark"}
Run      == [pc : Progress, req : Request, result : Record, cancelled : BOOLEAN]

NoRecord  == [state |-> "none", launch |-> None]
NoRequest == [id |-> 0, action |-> "prepare", gen |-> 0, nonce |-> None]
NoWork    == [step |-> "idle", req |-> NoRequest, result |-> NoRecord]
NoRun     == [pc |-> "idle", req |-> NoRequest, result |-> NoRecord,
              cancelled |-> FALSE]

LedgerTypes ==
  /\ gen \in Nat
  /\ record \in Record
  /\ effect \in Effect
  /\ tomb \in Tomb

FileTypes ==
  /\ drawn \in SUBSET Nonces
  /\ markers \in SUBSET Marker
  /\ bound \in SUBSET Nonces /\ permit \in SUBSET Nonces
  /\ release \in SUBSET Nonces /\ entered \in SUBSET Nonces
  /\ launched \in SUBSET Nonces
  /\ worktree \in {"none", "logs", "partial", "ready"}
  /\ session \in Launches
  /\ pane \in [Nonces -> {"none", "parked", "gated", "running", "dead"}]
  /\ unlocked \in SUBSET Nonces

DaemonTypes ==
  /\ mode \in {"down", "sweep", "serving"}
  /\ boots \in Nat
  /\ cycle \in Work /\ operator \in Work
  /\ run \in Run

\* Every variable has its type.
TypeOK == LedgerTypes /\ FileTypes /\ DaemonTypes

Init ==
  /\ gen = 0
  /\ record = NoRecord
  /\ effect = [id |-> 0, action |-> "prepare", gen |-> 0, nonce |-> None,
               status |-> "none", mayRun |-> FALSE]
  /\ tomb = [policy |-> "none", phase |-> "pending", state |-> "none",
             launch |-> None]
  /\ drawn = {} /\ markers = {}
  /\ bound = {} /\ permit = {} /\ release = {} /\ entered = {}
  /\ worktree = "none"
  /\ session = None /\ pane = [n \in Nonces |-> "none"] /\ unlocked = {}
  /\ mode = "down" /\ boots = 0
  /\ cycle = NoWork /\ operator = NoWork /\ run = NoRun
  /\ launched = {}

(* An operator that stands directly before a definition and differs from it *)
(* in one detail is that definition with a plausible mistake. No action     *)
(* uses it: putting it in place of the definition must break a property.    *)

-----------------------------------------------------------------------------
(* Ledger transitions *)

Pending   == effect.status = "pending"
Alive(n)  == pane[n] \in {"parked", "gated", "running"}

\* The identity checks every later commit of an intent repeats: the intent is
\* still there and pending, and its generation is the attempt's.
idOnly(req) == effect.id >= req.id

current(req) ==
  /\ Pending /\ effect.id = req.id /\ effect.action = req.action
  /\ effect.gen = req.gen /\ gen = req.gen

\* finishRuntimeOwnerTransition gives the intent its identity.
intend(action, g, nonce) ==
  effect' = [id |-> effect.id + 1, action |-> action, gen |-> g,
             nonce |-> nonce, status |-> "pending", mayRun |-> FALSE]

\* The request the intent above is executed with.
request(action, g, nonce) ==
  [id |-> effect.id + 1, action |-> action, gen |-> g, nonce |-> nonce]

acquiring(req) == [step |-> "acquire", req |-> req, result |-> NoRecord]

admitsSecond ==
  /\ mode = "serving" /\ cycle.step = "idle"
  /\ effect.id < MaxEffects
  /\ tomb.policy = "none"

\* The conditions under which applyBeginRuntimeEffect admits an intent other
\* than Stop, and the cycle is free to plan one.
admits ==
  /\ mode = "serving" /\ cycle.step = "idle"
  /\ effect.id < MaxEffects
  /\ tomb.policy = "none" /\ ~Pending

beginPrepare ==
  /\ admits /\ record.state = "none" /\ gen = 0
  /\ gen' = 1
  /\ record' = [state |-> "preparing", launch |-> None]
  /\ intend("prepare", 1, None)
  /\ cycle' = acquiring(request("prepare", 1, None))
  /\ UNCHANGED <<tomb, drawn, markers, files, worktree, tmux, mode, boots,
                 operator, run, launched>>

beginStart(n) ==
  /\ admits /\ record.state = "preparing" /\ n \notin drawn
  /\ drawn' = drawn \cup {n}
  /\ intend("start", gen, n)
  /\ cycle' = acquiring(request("start", gen, n))
  /\ UNCHANGED <<gen, record, tomb, markers, files, worktree, tmux, mode, boots,
                 operator, run, launched>>

beginMonitor ==
  /\ admits /\ record.state = "running"
  /\ intend("monitor", gen, None)
  /\ cycle' = acquiring(request("monitor", gen, record.launch))
  /\ UNCHANGED <<gen, record, tomb, drawn, markers, files, worktree, tmux, mode,
                 boots, operator, run, launched>>

\* Cancel and Recover: a Stop supersedes whatever effect is pending, under the
\* next generation. A Stop that is pending already is attached to, not begun.
beginStop ==
  /\ mode = "serving" /\ operator.step = "idle" /\ effect.id < MaxEffects
  /\ tomb.policy = "none" /\ record.state = "running"
  /\ ~(Pending /\ effect.action = "stop")
  /\ gen' = gen + 1
  /\ intend("stop", gen + 1, None)
  /\ operator' = [acquiring(request("stop", gen + 1, record.launch))
                    EXCEPT !.step = "cancel"]
  /\ UNCHANGED <<record, tomb, drawn, markers, files, worktree, tmux, mode,
                 boots, cycle, run, launched>>

\* Dismiss, Archive, or Abandon and Remove: the generation changes, the record
\* and its intents go, and the tombstone carries what cleanup needs. A pending
\* Stop keeps the worker credential unrevoked, which the final validation
\* refuses; Abandon of an attempt without any candidate wants no session.
invalidateAttempt(policy) ==
  /\ mode = "serving" /\ operator.step = "idle" /\ effect.id < MaxEffects
  /\ tomb.policy = "none" /\ record.state # "none"
  /\ ~(Pending /\ effect.action = "stop")
  /\ policy = "archive" => record.state = "completed"
  /\ policy = "abandon" /\ record.state = "preparing"
       /\ ~(Pending /\ effect.action = "start") => session = None
  /\ gen' = gen + 1
  /\ record' = NoRecord
  /\ tomb' = [policy |-> policy, phase |-> "pending",
              state |-> record.state, launch |-> record.launch]
  /\ intend("cleanup", gen + 1, None)
  /\ operator' = [acquiring(request("cleanup", gen + 1, record.launch))
                    EXCEPT !.step = "cancel"]
  /\ UNCHANGED <<drawn, markers, files, worktree, tmux, mode, boots, cycle, run,
                 launched>>

\* applyRotateStartGate: a new candidate replaces one that was never permitted.
rotatable(req) ==
  current(req) /\ effect.nonce = req.nonce /\ ~effect.mayRun

\* applyAuthorizeRuntimeEffect for a Start: the candidate is still the one the
\* intent names.
authorizable(req) == current(req) /\ effect.nonce = req.nonce

\* validRuntimeEffectResult and the Start checks of applyFinishRuntimeEffect.
finishable(req, result) ==
  /\ current(req)
  /\ req.action = "start" /\ result.state = "running"
       => effect.mayRun /\ result.launch = effect.nonce

\* applyFinishRuntimeEffect: the result and the completion of the intent are
\* one commit. Cleanup completes its tombstone instead of a record.
finished(req, result) ==
  /\ effect' = [effect EXCEPT !.status = "completed"]
  /\ IF req.action = "cleanup"
       THEN tomb' = [tomb EXCEPT !.phase = "completed"] /\ UNCHANGED record
       ELSE record' = result /\ UNCHANGED tomb
  /\ launched' = IF req.action = "start" /\ result.state = "running"
                   THEN launched \cup {result.launch} ELSE launched

-----------------------------------------------------------------------------
(* The reconciliation cycle: resuming a pending effect *)

markerOf(id) == {m \in markers : m.id = id}

\* The executor is not at work on the pending intent.
unattended == ~(run.pc # "idle" /\ run.req.id = effect.id)

pendingRequest(nonce) ==
  [id |-> effect.id, action |-> effect.action, gen |-> effect.gen,
   nonce |-> nonce]

finishing(nonce, result) ==
  [step |-> "finish", req |-> pendingRequest(nonce), result |-> result]

\* VerifyPending: a marker is proof of completion. Without one, a Start whose
\* pane is bound, alive and outside its gate may be retried, a Start without a
\* session may be rotated; anything else stays pending.
verifyStart ==
  \/ /\ session = effect.nonce /\ session \in bound \ entered
     /\ session \in Nonces /\ Alive(session)
     /\ cycle' = acquiring(pendingRequest(effect.nonce))
  \/ /\ session = None /\ ~effect.mayRun
     /\ cycle' = [acquiring(pendingRequest(effect.nonce)) EXCEPT !.step = "rotate"]

verifyPrepare ==
  \/ /\ worktree = "ready" /\ session = None
     /\ cycle' = finishing(None, [state |-> "preparing", launch |-> None])
  \/ /\ worktree \in {"none", "logs"}
     /\ cycle' = acquiring(pendingRequest(None))

resumePendingRuntime ==
  /\ mode = "serving" /\ cycle.step = "idle" /\ Pending /\ unattended
  /\ record.state # "none"
  /\ \/ \E m \in markerOf(effect.id) :
          /\ effect.action \in {"prepare", "start"}
          /\ cycle' = finishing(effect.nonce, m.result)
     \/ markerOf(effect.id) = {} /\ effect.action = "start" /\ verifyStart
     \/ markerOf(effect.id) = {} /\ effect.action = "prepare" /\ verifyPrepare
     \/ effect.action = "monitor"
          /\ cycle' = acquiring(pendingRequest(record.launch))
  /\ UNCHANGED <<ledger, drawn, markers, files, worktree, tmux, mode, boots,
                 operator, run, launched>>

rotateStartGate(n) ==
  /\ cycle.step = "rotate" /\ n \notin drawn
  /\ rotatable(cycle.req)
  /\ drawn' = drawn \cup {n}
  /\ effect' = [effect EXCEPT !.nonce = n]
  /\ cycle' = acquiring([cycle.req EXCEPT !.nonce = n])
  /\ UNCHANGED <<gen, record, tomb, markers, files, worktree, tmux, mode, boots,
                 operator, run, launched>>

cycleFinish ==
  /\ cycle.step = "finish"
  /\ finishable(cycle.req, cycle.result)
  /\ finished(cycle.req, cycle.result)
  /\ cycle' = IF cycle.req.action = "start" /\ cycle.result.state = "running"
                THEN [cycle EXCEPT !.step = "worker"] ELSE NoWork
  /\ UNCHANGED <<gen, drawn, markers, files, worktree, tmux, mode, boots,
                 operator, run>>

\* ReleaseTerminalBroker: the broker lets the worker out of its pipe gate.
releaseInner(n) ==
  /\ n \in Nonces /\ pane[n] = "gated"
  /\ pane' = [pane EXCEPT ![n] = "running"]

cycleReleases ==
  /\ cycle.step = "worker"
  /\ releaseInner(cycle.result.launch)
  /\ cycle' = NoWork
  /\ UNCHANGED <<ledger, drawn, markers, files, worktree, session, unlocked,
                 mode, boots, operator, run, launched>>

\* Any other end of the cycle's work: a refused commit or an I/O error.
cycleFails ==
  /\ cycle.step # "idle"
  /\ cycle' = NoWork
  /\ UNCHANGED <<ledger, drawn, markers, files, worktree, tmux, mode, boots,
                 operator, run, launched>>

-----------------------------------------------------------------------------
(* The operator service *)

\* cancelInvalidated, after the commit: a run that lost its intent is told to
\* give up at its next look at its context.
cancelInvalidated ==
  /\ operator.step = "cancel"
  /\ operator' = [operator EXCEPT !.step = "acquire"]
  /\ run' = [run EXCEPT !.cancelled = @ \/ (run.pc # "idle" /\ ~current(run.req))]
  /\ UNCHANGED <<ledger, drawn, markers, files, worktree, tmux, mode, boots,
                 cycle, launched>>

\* resumeReceipt: a Stop or a Cleanup left pending is verified, then repeated.
verifyStop ==
  LET n == record.launch
  IN  \/ /\ session = None /\ n \in bound /\ ~Alive(n)
         /\ operator' = finishing(n, [state |-> "cancelled", launch |-> n])
      \/ session # None /\ operator' = acquiring(pendingRequest(n))

\* What a completed cleanup leaves: Archive keeps the log directory.
kept == IF tomb.policy = "archive" THEN {"none", "logs"} ELSE {"none"}

verifyCleanup ==
  LET gone == tomb.policy = "dismiss" \/ (session = None /\ worktree \in kept)
  IN  operator' = IF gone THEN finishing(tomb.launch, NoRecord)
                          ELSE acquiring(pendingRequest(tomb.launch))

resumeReceipt ==
  /\ mode = "serving" /\ operator.step = "idle" /\ Pending /\ unattended
  /\ \/ \E m \in markerOf(effect.id) :
          /\ effect.action \in {"stop", "cleanup"}
          /\ operator' = finishing(m.result.launch, m.result)
     \/ markerOf(effect.id) = {} /\ effect.action = "stop" /\ verifyStop
     \/ markerOf(effect.id) = {} /\ effect.action = "cleanup" /\ verifyCleanup
  /\ UNCHANGED <<ledger, drawn, markers, files, worktree, tmux, mode, boots,
                 cycle, run, launched>>

\* finishOperatorRuntimeEffect. The marker of a completed intent is never read
\* again, so it goes with the commit.
operatorFinish ==
  /\ operator.step = "finish"
  /\ finishable(operator.req, operator.result)
  /\ finished(operator.req, operator.result)
  /\ markers' = markers \ markerOf(operator.req.id)
  /\ operator' = NoWork
  /\ UNCHANGED <<gen, drawn, files, worktree, tmux, mode, boots, cycle, run>>

\* The cancellation that follows a commit cannot fail; the rest can.
operatorFails ==
  /\ operator.step \notin {"idle", "cancel"}
  /\ operator' = NoWork
  /\ UNCHANGED <<ledger, drawn, markers, files, worktree, tmux, mode, boots,
                 cycle, run, launched>>

-----------------------------------------------------------------------------
(* The coordinator: one run at a time holds the attempt key *)

\* acquireKey, for the cycle and for the operator. The key is free again only
\* when the previous run has released it.
admitted(req) == [pc |-> "check", req |-> req, result |-> NoRecord,
                  cancelled |-> FALSE]

acquireForCycle ==
  /\ cycle.step = "acquire" /\ run.pc = "idle"
  /\ run' = admitted(cycle.req)
  /\ cycle' = NoWork
  /\ UNCHANGED <<ledger, drawn, markers, files, worktree, tmux, mode, boots,
                 operator, launched>>

acquireForOperator ==
  /\ operator.step = "acquire" /\ run.pc = "idle"
  /\ run' = admitted(operator.req)
  /\ operator' = NoWork
  /\ UNCHANGED <<ledger, drawn, markers, files, worktree, tmux, mode, boots,
                 cycle, launched>>

\* The run ends with an error and releases the key; what it did stays done.
runFails ==
  /\ run.pc # "idle"
  /\ run' = NoRun
  /\ UNCHANGED <<ledger, drawn, markers, files, worktree, tmux, mode, boots,
                 cycle, operator, launched>>

at(pc)   == run.pc = pc
goto(pc) == run' = [run EXCEPT !.pc = pc]
nonce    == run.req.nonce

\* executeWithRun and executeOperator look at the committed ledger again once
\* they hold the key; a Cleanup also commits that it has started.
pendingWhenAsked == TRUE

stillPending == current(run.req)

checkPending ==
  /\ at("check") /\ stillPending /\ ~run.cancelled
  /\ goto(IF run.req.action = "start" THEN "start" ELSE "exec")
  /\ tomb' = IF run.req.action = "cleanup"
               THEN [tomb EXCEPT !.phase = "cleanup-started"] ELSE tomb
  /\ UNCHANGED <<gen, record, effect, drawn, markers, files, worktree, tmux,
                 mode, boots, cycle, operator, launched>>

\* observeBound: the session name reaches exactly the pane that was bound.
observed == session = nonce /\ nonce \in bound

\* startEffect: a live session must be this candidate's; a candidate that was
\* bound and has no session is never started again; an unusable worker
\* environment or result file fails the attempt for good.
startEffect ==
  /\ at("start")
  /\ \/ observed /\ goto("authorize")
     \/ session = None /\ nonce \notin bound /\ goto("create")
     \/ run' = [run EXCEPT !.pc = "mark",
                           !.result = [state |-> "failed", launch |-> None]]
  /\ UNCHANGED <<ledger, drawn, markers, files, worktree, tmux, mode, boots,
                 cycle, operator, launched>>

\* startSession: tmux creates the pane, whose process parks at the gate...
createPane ==
  /\ at("create") /\ ~run.cancelled /\ session = None /\ nonce \in Nonces
  /\ session' = nonce
  /\ pane' = [pane EXCEPT ![nonce] = "parked"]
  /\ goto("bind")
  /\ UNCHANGED <<ledger, drawn, markers, files, worktree, unlocked, mode, boots,
                 cycle, operator, launched>>

\* ...and its identity is written down.
bindPane ==
  /\ at("bind") /\ ~run.cancelled /\ session = nonce
  /\ bound' = bound \cup {nonce}
  /\ goto("authorize")
  /\ UNCHANGED <<ledger, drawn, markers, permit, release, entered, worktree,
                 tmux, mode, boots, cycle, operator, launched>>

\* The owner commits that this candidate may run.
authorize ==
  /\ at("authorize") /\ authorizable(run.req)
  /\ effect' = [effect EXCEPT !.mayRun = TRUE]
  /\ goto("permit")
  /\ UNCHANGED <<gen, record, tomb, drawn, markers, files, worktree, tmux, mode,
                 boots, cycle, operator, launched>>

writePermit ==
  /\ at("permit") /\ observed
  /\ permit' = permit \cup {nonce}
  /\ goto("release")
  /\ UNCHANGED <<ledger, drawn, markers, bound, release, entered, worktree, tmux,
                 mode, boots, cycle, operator, launched>>

\* launchAgent, up to the release file; the context is looked at once more.
writeRelease ==
  /\ at("release") /\ ~run.cancelled /\ observed /\ nonce \in permit
  /\ release' = release \cup {nonce}
  /\ goto("unlock")
  /\ UNCHANGED <<ledger, drawn, markers, bound, permit, entered, worktree, tmux,
                 mode, boots, cycle, operator, launched>>

unlockGate ==
  /\ at("unlock") /\ observed
  /\ unlocked' = unlocked \cup {nonce}
  /\ goto("ready")
  /\ UNCHANGED <<ledger, drawn, markers, files, worktree, session, pane, mode,
                 boots, cycle, operator, launched>>

readyUnseen ==
  /\ at("ready") /\ observed
  /\ run' = [run EXCEPT !.pc = "mark",
                        !.result = [state |-> "running", launch |-> nonce]]
  /\ UNCHANGED <<ledger, drawn, markers, files, worktree, tmux, mode, boots,
                 cycle, operator, launched>>

\* The broker behind the gate has announced itself.
brokerReady ==
  /\ at("ready") /\ observed /\ nonce \in entered
  /\ run' = [run EXCEPT !.pc = "mark",
                        !.result = [state |-> "running", launch |-> nonce]]
  /\ UNCHANGED <<ledger, drawn, markers, files, worktree, tmux, mode, boots,
                 cycle, operator, launched>>

\* prepareEffect: nothing of the attempt may exist yet; the log directory comes
\* first. A cancelled context already fails the look for a session.
prepareEffect ==
  /\ at("exec") /\ run.req.action = "prepare" /\ ~run.cancelled
  /\ worktree \in {"none", "logs"} /\ session = None
  /\ worktree' = "logs"
  /\ goto("clone")
  /\ UNCHANGED <<ledger, drawn, markers, files, tmux, mode, boots, cycle,
                 operator, launched>>

\* The clone and its checkout; a failure is a result too, whatever is on disk.
cloneSource ==
  /\ at("clone")
  /\ \/ /\ worktree' = "ready"
        /\ run' = [run EXCEPT !.pc = "mark",
                     !.result = [state |-> "preparing", launch |-> None]]
     \/ /\ worktree' \in {"logs", "partial"}
        /\ run' = [run EXCEPT !.pc = "mark",
                     !.result = [state |-> "failed", launch |-> None]]
  /\ UNCHANGED <<ledger, drawn, markers, files, tmux, mode, boots, cycle,
                 operator, launched>>

\* monitorEffect: only the exit status of the bound pane ends an attempt.
monitorEffect ==
  /\ at("exec") /\ run.req.action = "monitor" /\ observed
  /\ \E state \in IF pane[nonce] = "dead" THEN {"running", "completed", "failed"}
                                          ELSE {"running"} :
       run' = [run EXCEPT !.pc = "finish",
                          !.result = [state |-> state, launch |-> nonce]]
  /\ UNCHANGED <<ledger, drawn, markers, files, worktree, tmux, mode, boots,
                 cycle, operator, launched>>

\* stopGeneration and stopAttemptSession: the broker kills the worker, and the
\* pane goes if the session still reaches it.
killed(n) ==
  /\ n \in bound /\ session \in {None, n}
  /\ pane' = [pane EXCEPT ![n] = "dead"]
  /\ session' = None

stopEffect ==
  /\ at("exec") /\ run.req.action = "stop"
  /\ killed(nonce)
  /\ run' = [run EXCEPT !.pc = "mark",
                        !.result = [state |-> "cancelled", launch |-> nonce]]
  /\ UNCHANGED <<ledger, drawn, markers, files, worktree, unlocked, mode, boots,
                 cycle, operator, launched>>

\* The operator's cleanup. Dismiss leaves the implementation alone. The others
\* stop the launch the tombstone names, or, for an attempt without one, insist
\* that no session exists...
cleanupEffect ==
  /\ at("exec") /\ run.req.action = "cleanup"
  /\ \/ tomb.policy = "dismiss" /\ goto("mark") /\ UNCHANGED <<session, pane>>
     \/ /\ tomb.policy # "dismiss" /\ goto("remove")
        /\ \/ tomb.launch # None /\ killed(tomb.launch)
           \/ /\ tomb.launch = None /\ tomb.state = "preparing"
              /\ session = None /\ UNCHANGED <<session, pane>>
  /\ UNCHANGED <<ledger, drawn, markers, files, worktree, unlocked, mode, boots,
                 cycle, operator, launched>>

\* ...then remove the clone...
removeClone ==
  /\ at("remove")
  /\ worktree' = IF worktree = "none" THEN "none" ELSE "logs"
  /\ goto(IF tomb.policy = "archive" THEN "mark" ELSE "forget")
  /\ UNCHANGED <<ledger, drawn, markers, files, tmux, mode, boots, cycle,
                 operator, launched>>

\* ...and, but for Archive, the log directory.
forgetLogs ==
  /\ at("forget")
  /\ worktree' = "none"
  /\ goto("mark")
  /\ UNCHANGED <<ledger, drawn, markers, files, tmux, mode, boots, cycle,
                 operator, launched>>

writeMarker ==
  /\ at("mark")
  /\ markers' = markers \cup {[id |-> run.req.id, result |-> run.result]}
  /\ goto("finish")
  /\ UNCHANGED <<ledger, drawn, files, worktree, tmux, mode, boots, cycle,
                 operator, launched>>

finishEffect ==
  /\ at("finish")
  /\ finishable(run.req, run.result)
  /\ finished(run.req, run.result)
  /\ goto(IF run.req.action = "start" /\ run.result.state = "running"
            THEN "worker" ELSE "unmark")
  /\ UNCHANGED <<gen, drawn, markers, files, worktree, tmux, mode, boots, cycle,
                 operator>>

runReleases ==
  /\ at("worker")
  /\ releaseInner(nonce)
  /\ goto("unmark")
  /\ UNCHANGED <<ledger, drawn, markers, files, worktree, session, unlocked,
                 mode, boots, cycle, operator, launched>>

removeMarker ==
  /\ at("unmark")
  /\ markers' = markers \ markerOf(run.req.id)
  /\ run' = NoRun
  /\ UNCHANGED <<ledger, drawn, files, worktree, tmux, mode, boots, cycle,
                 operator, launched>>

-----------------------------------------------------------------------------
(* Panes, and the daemon's own life *)

\* RunImplementationGate: behind the unlocked channel the gate still wants its
\* binding, its permit and its release, and records its entry before it execs
\* the broker.
gateEnters(n) ==
  /\ pane[n] = "parked" /\ n \in unlocked
  /\ IF n \in bound \cap permit \cap release
       THEN entered' = entered \cup {n} /\ pane' = [pane EXCEPT ![n] = "gated"]
       ELSE UNCHANGED entered /\ pane' = [pane EXCEPT ![n] = "dead"]
  /\ UNCHANGED <<ledger, drawn, markers, bound, permit, release, worktree,
                 session, unlocked, daemon, launched>>

\* The process in a pane ends; tmux keeps the dead pane.
paneExits(n) ==
  /\ Alive(n)
  /\ pane' = [pane EXCEPT ![n] = "dead"]
  /\ UNCHANGED <<ledger, drawn, markers, files, worktree, session, unlocked,
                 daemon, launched>>

\* The session name is gone. "Its missing session is not proof of death."
sessionLost ==
  /\ session \in Nonces
  /\ session' = None
  /\ pane' \in {pane, [pane EXCEPT ![session] = "dead"]}
  /\ UNCHANGED <<ledger, drawn, markers, files, worktree, unlocked, daemon,
                 launched>>

\* The last daemon the bound allows stays up.
crash ==
  /\ mode # "down" /\ boots < MaxBoots
  /\ mode' = "down"
  /\ cycle' = NoWork /\ operator' = NoWork /\ run' = NoRun
  /\ UNCHANGED <<ledger, drawn, markers, files, worktree, tmux, boots, launched>>

boot ==
  /\ mode = "down" /\ boots < MaxBoots
  /\ mode' = "sweep" /\ boots' = boots + 1
  /\ UNCHANGED <<ledger, drawn, markers, files, worktree, tmux, cycle, operator,
                 run, launched>>

\* sweepPendingMarkers, before anything is admitted: the marker of a pending
\* intent is consumed, every other marker is reclaimed.
sweepPendingMarkers ==
  LET mine == IF Pending THEN markerOf(effect.id) ELSE {}
  IN  /\ mode = "sweep" /\ cycle.step = "idle"
      /\ \/ \E m \in mine :
              /\ effect.action \in {"prepare", "start"}
              /\ cycle' = finishing(effect.nonce, m.result)
              /\ UNCHANGED <<mode, markers>>
         \/ /\ mine = {} \/ effect.action \in {"stop", "cleanup"}
            /\ mode' = "serving" /\ markers' = mine
            /\ UNCHANGED cycle
      /\ UNCHANGED <<ledger, drawn, files, worktree, tmux, boots, operator, run,
                     launched>>

-----------------------------------------------------------------------------
(* Specification *)

CycleWork == \/ beginPrepare
             \/ \E n \in Nonces : beginStart(n)
             \/ beginMonitor
             \/ resumePendingRuntime
             \/ \E n \in Nonces : rotateStartGate(n)
             \/ cycleFinish
             \/ cycleReleases
             \/ acquireForCycle

CycleNext == CycleWork \/ cycleFails

OperatorNext == \/ beginStop
                \/ \E policy \in {"dismiss", "archive", "abandon"} :
                     invalidateAttempt(policy)
                \/ cancelInvalidated
                \/ resumeReceipt
                \/ operatorFinish
                \/ operatorFails
                \/ acquireForOperator

RunNext == \/ checkPending
           \/ startEffect
           \/ createPane
           \/ bindPane
           \/ authorize
           \/ writePermit
           \/ writeRelease
           \/ unlockGate
           \/ brokerReady
           \/ prepareEffect
           \/ cloneSource
           \/ monitorEffect
           \/ stopEffect
           \/ cleanupEffect
           \/ removeClone
           \/ forgetLogs
           \/ writeMarker
           \/ finishEffect
           \/ runReleases
           \/ removeMarker

Environment == \/ \E n \in Nonces : gateEnters(n)
               \/ \E n \in Nonces : paneExits(n)
               \/ sessionLost
               \/ runFails
               \/ crash
               \/ boot
               \/ sweepPendingMarkers

Next == CycleNext \/ OperatorNext \/ RunNext \/ Environment

Spec == Init /\ [][Next]_vars

-----------------------------------------------------------------------------
(* Properties *)

\* However often a launch is interrupted, retried or rotated, and whatever
\* becomes of its tmux session, at most one candidate of the attempt ever gets
\* through its launch gate, and it leaves the broker's pipe gate only after a
\* committed ledger has called the attempt running with exactly that launch.
SingleWorker == /\ \A m, n \in entered : m = n
                /\ \A n \in Nonces : pane[n] = "running" => n \in launched

\* The record does not claim more than happened: running means that the launch
\* got through its gate, completed and cancelled that its pane is gone or dead.
RecordHonest ==
  /\ record.state = "running" => record.launch \in entered
  /\ record.state \in {"completed", "cancelled"}
       => record.launch \in entered /\ ~Alive(record.launch)

\* Once Archive, Abandon or Remove is complete there is no session and no
\* clone, and no late effect of the attempt brings one back.
CleanedStaysClean ==
  tomb.policy \in {"archive", "abandon"} /\ tomb.phase = "completed"
    => session = None /\ worktree \in kept

\* A settled attempt stays settled: no late result of an effect that was
\* superseded overwrites it; only its removal does.
SettledStaysSettled ==
  [][record.state \in {"completed", "failed", "cancelled"}
       => record' = record \/ record'.state = "none"]_vars

=============================================================================
