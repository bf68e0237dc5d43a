----------------------------- MODULE Supervisor -----------------------------
(***************************************************************************)
(* The optional orchestrator agent and what supervises it: one operation   *)
(* token with a queue of operators' commands that preempt background work, *)
(* the tmux conversation, one-shot heartbeat audits and their report, the  *)
(* handoff that prompts the conversation about an attempt that needs       *)
(* attention, and the runner that carries out the proposal the agent       *)
(* leaves in a file.                                                       *)
(*                                                                         *)
(* Whatever holds the token reads and writes the persisted state alone,    *)
(* step by step; audits, the runner between its calls, the agent, the      *)
(* owner's projection and restarts of the daemon interleave with it.       *)
(*                                                                         *)
(* What is wrong with an attempt and the digest the supervisor knows it by *)
(* are two things. The digest is of the whole status, with the owner's     *)
(* causality token, which changes with whatever the owner notes of the     *)
(* attempt, and with every start, though the same stays wrong.             *)
(*                                                                         *)
(* Abstracted: what is wrong is a fact that is 0 while an attempt needs no *)
(* attention, a token is the epoch of the observation it hashes and a      *)
(* number for the rest, and a digest is what it digests. Time is three     *)
(* events: the backoff of a failed start ends, a handoff is late, a        *)
(* heartbeat is due. Writes of state, report and handoff file succeed. A   *)
(* proposal is one that waits for an action of the owner: those that set a *)
(* machine status are in MachineStatus.                                    *)
(***************************************************************************)
EXTENDS Naturals, Sequences, FiniteSets, SequencesExt, FiniteSetsExt

CONSTANTS MaxAttempts,   \* bound on the attempts in the projection
          MaxFacts,      \* bound on what can be wrong with one
          Locals,        \* what local manifests alone show of an attempt
          MaxTokens,     \* bound on what else its token can hash, in one epoch
          Commands,      \* operators' calls, each made once at most
          Kinds,         \* what they may ask for
          Impatient,     \* those of them whose callers may go away
          Actions,       \* what the agent proposes for a handoff
          Audits,        \* an audit command is configured
          MaxChanges,    \* bound on changes of the projection, faults and restarts before
          MaxProposals,  \* bound on proposals the agent submits
          MaxBoots,      \* bound on daemon starts
          MaxFaults      \* bound on lost conversations, failed starts, changes before

ASSUME SupervisorAssumption ==
  /\ MaxAttempts \in Nat \ {0} /\ MaxFacts \in Nat \ {0} /\ MaxTokens \in Nat
  /\ Locals \subseteq 0..MaxFacts /\ Locals # {}
  /\ Kinds \subseteq {"recover", "clear", "rebuild", "investigate"}
  /\ Actions \subseteq {"check_in", "retry", "attention"}
  /\ Impatient \subseteq Commands /\ Audits \in BOOLEAN
  /\ MaxChanges \in Nat /\ MaxProposals \in Nat
  /\ MaxBoots \in Nat \ {0} /\ MaxFaults \in Nat

VARIABLES
  owner,     \* what is wrong with each attempt, and what the projection shows
  state,     \* orchestrator-agent.json
  report,    \* the heartbeat report, and the conversation it was made for
  file,      \* the proposal artifact
  tmux,      \* the conversation: whether its pane lives, and how many there were
  memory,    \* what the daemon holds in memory
  op,        \* the holder of the operation token
  foreground,\* commands that wait for it, in order, each with its kind
  calls,     \* where each command is
  audits,    \* audit processes
  runner,    \* the proposal runner
  prompted,  \* history: what it was prompted about and is still shown, and the
             \* troubles of acknowledged wakes that are still there
  acted,     \* history: proposals whose action was carried out
  bounds     \* changes, proposals, daemon starts and faults so far

vars == <<owner, state, report, file, tmux, memory, op, foreground, calls, audits,
          runner, prompted, acted, bounds>>

-----------------------------------------------------------------------------
(* Types *)

Attempts    == 1..MaxAttempts
\* What a projection shows of an attempt: sanitizedStatus, whose digest it is.
Statuses    == [fact : 0..MaxFacts, epoch : Nat, token : 0..MaxTokens]
Nothing     == [fact |-> 0, epoch |-> 0, token |-> 0]
Projections == [Attempts -> Statuses]
Unknown     == [a \in Attempts |-> Nothing]
Owners      == [wrong : [Attempts -> 0..MaxFacts], shows : Projections]
Items       == Attempts \X Statuses
NoItem      == <<0, Nothing>>
Troubles    == Attempts \X (0..MaxFacts)
Proposals   == 1..MaxProposals
Outcomes    == {"succeeded", "failed", "refused"}
Terminal    == {"recovered", "human-attention"}

\* A handoff's identity is made of its target and of the whole projection.
Handoff   == [attempt : 0..MaxAttempts, seen : Projections,
              state : {"none", "waking", "waiting", "action-running", "verifying"} \cup Terminal,
              action : {"none", "check_in", "retry", "attention"}, binding : {0} \cup Proposals]
State     == [state : {"starting", "running", "degraded"}, backoff : BOOLEAN,
              known : BOOLEAN, seen : Projections, handled : SUBSET Items,
              handoff : Handoff, binding : {0} \cup Proposals,
              resolution : {"none", "running"} \cup Outcomes, consumed : {0} \cup Proposals]
Proposal  == [id : {0} \cup Proposals, action : {"none", "check_in", "retry", "attention"},
              attempt : 0..MaxAttempts, bound : BOOLEAN, seen : Projections]
Memory    == [projection : Projections, known : BOOLEAN, checked : BOOLEAN,
              proposal : BOOLEAN, audit : BOOLEAN, manual : {NoItem} \cup Items,
              stopped : BOOLEAN]
\* current: of the last audit generation and of this conversation's epoch.
Audit     == [current : BOOLEAN, context : Nat, manual : BOOLEAN, seen : Projections]

Calls   == [Commands -> {"new", "queued", "running", "returned"}]
Waiting == [call : Commands, kind : Kinds]
OpKinds == {"none", "observe", "audit"} \cup Kinds
Points  == {"free", "check", "recover", "stop", "start", "launch", "schedule", "write",
            "supersede", "prepare", "audit", "publish", "handoff", "paste", "enter",
            "woken", "unwoken", "end"}

NoHandoff  == [attempt |-> 0, seen |-> Unknown, state |-> "none", action |-> "none",
               binding |-> 0]
NoProposal == [id |-> 0, action |-> "none", attempt |-> 0, bound |-> FALSE, seen |-> Unknown]
NoAudit    == [current |-> FALSE, context |-> 0, manual |-> FALSE, seen |-> Unknown]
\* last is the state's last projection before the operation, or the one it will
\* have; ok says that an audit is due, or that its report is published.
Free       == [kind |-> "none", at |-> "free", call |-> "none", cancelled |-> FALSE,
               target |-> 0, seen |-> Unknown, last |-> [known |-> FALSE, seen |-> Unknown],
               ok |-> FALSE, audit |-> NoAudit]
IdleRunner == [at |-> "idle", proposal |-> NoProposal, seen |-> Unknown, outcome |-> "failed"]
NewMemory  == [projection |-> Unknown, known |-> FALSE, checked |-> FALSE,
               proposal |-> FALSE, audit |-> FALSE, manual |-> NoItem,
               stopped |-> FALSE]

\* Every variable has its type.
TypeOK ==
  /\ owner \in Owners /\ state \in State
  /\ report.state \in {"none", "running", "completed", "failed"} /\ report.context \in Nat
  /\ file \in Proposal /\ tmux.live \in BOOLEAN /\ tmux.context \in Nat
  /\ memory \in Memory
  /\ op.kind \in OpKinds /\ op.at \in Points /\ op.audit \in Audit
  /\ op.call \in {"none"} \cup Commands /\ op.seen \in Projections
  /\ ToSet(foreground) \subseteq Waiting /\ calls \in Calls
  /\ audits \subseteq Audit
  /\ runner.at \in {"idle", "validate", "refuse", "begin", "act", "settle"}
  /\ runner.proposal \in Proposal
  /\ prompted.targets \subseteq Items /\ prompted.wakes \subseteq Troubles
  /\ acted \subseteq Proposals

Init ==
  /\ owner = [wrong |-> [a \in Attempts |-> 1],
              shows |-> [a \in Attempts |-> [fact |-> 1, epoch |-> 1, token |-> 0]]]
  /\ state = [state |-> "starting", backoff |-> FALSE, known |-> FALSE, seen |-> Unknown,
              handled |-> {}, handoff |-> NoHandoff, binding |-> 0,
              resolution |-> "none", consumed |-> 0]
  /\ report = [state |-> "none", context |-> 0]
  /\ file = NoProposal /\ tmux = [live |-> FALSE, context |-> 0]
  /\ memory = NewMemory /\ op = Free /\ foreground = <<>>
  /\ calls = [c \in Commands |-> "new"]
  /\ audits = {} /\ runner = IdleRunner
  /\ prompted = [targets |-> {}, wakes |-> {}] /\ acted = {}
  /\ bounds = [changes |-> 0, proposals |-> 0, boots |-> 1, faults |-> 0]

(* An operator that stands directly before a definition and differs from it *)
(* in one detail is that definition with a plausible mistake. No action     *)
(* uses it: putting it in place of the definition must break a property.    *)

-----------------------------------------------------------------------------
(* The operation token *)

Holds(kind, p) == op.kind = kind /\ op.at = p
At(p)          == op.at = p
To(p)          == op' = [op EXCEPT !.at = p]

outside == UNCHANGED <<owner, calls, foreground, acted, bounds>>
machine == UNCHANGED <<file, tmux, audits, runner, prompted>>

\* Where a command starts.
FirstPoint(kind) ==
  CASE kind = "investigate" -> "check" [] kind = "recover" -> "recover" [] OTHER -> "stop"
Granted(c, kind) == [Free EXCEPT !.kind = kind, !.at = FirstPoint(kind), !.call = c]

\* reserveOperation: background work and the runner's calls never wait.
available == op = Free /\ foreground = <<>> /\ ~memory.stopped

\* reserveForeground: a command waits in order, and ends background work.
enqueue(c) ==
  /\ calls[c] = "new"
  /\ \E kind \in Kinds :
       IF memory.stopped
       THEN /\ calls' = [calls EXCEPT ![c] = "returned"]
            /\ UNCHANGED <<op, foreground>>
       ELSE IF op = Free
       THEN /\ op' = Granted(c, kind)
            /\ calls' = [calls EXCEPT ![c] = "running"]
            /\ UNCHANGED foreground
       ELSE /\ foreground' = Append(foreground, [call |-> c, kind |-> kind])
            /\ calls' = [calls EXCEPT ![c] = "queued"]
            /\ op' = [op EXCEPT !.cancelled = (@ \/ op.kind \in {"observe", "audit"})]
  /\ machine
  /\ UNCHANGED <<owner, state, report, memory, acted, bounds>>

\* Its caller goes away: it leaves the queue, or its context ends.
contextEnds(c) ==
  /\ c \in Impatient
  /\ \/ /\ calls[c] = "queued"
        /\ \E i \in 1..Len(foreground) :
             foreground[i].call = c /\ foreground' = RemoveAt(foreground, i)
        /\ calls' = [calls EXCEPT ![c] = "returned"]
        /\ UNCHANGED op
     \/ /\ calls[c] = "running" /\ ~op.cancelled
        /\ op' = [op EXCEPT !.cancelled = TRUE]
        /\ UNCHANGED <<calls, foreground>>
  /\ machine
  /\ UNCHANGED <<owner, state, report, memory, acted, bounds>>

invalidated(r, completed) ==
  IF r.state = "running" \/ (completed /\ r.state = "completed")
  THEN [r EXCEPT !.state = "failed"] ELSE r

\* release, with promoteForegroundLocked and what an audit's completion and an
\* operator's call leave behind.
release ==
  /\ At("end")
  /\ LET done == IF op.call = "none" THEN calls
                 ELSE [calls EXCEPT ![op.call] = "returned"]
         next == Head(foreground)
     IN  IF foreground = <<>>
         THEN op' = Free /\ calls' = done /\ UNCHANGED foreground
         ELSE /\ op' = Granted(next.call, next.kind)
              /\ calls' = [done EXCEPT ![next.call] = "running"]
              /\ foreground' = Tail(foreground)
  /\ IF op.kind # "audit" THEN UNCHANGED <<memory, report>>
     ELSE /\ memory' = [memory EXCEPT !.audit = FALSE, !.manual = NoItem]
          /\ report' = IF memory.stopped \/ op.ok THEN report ELSE invalidated(report, FALSE)
  /\ machine
  /\ UNCHANGED <<owner, state, acted, bounds>>

-----------------------------------------------------------------------------
(* The conversation: recover, restart and start *)

\* What follows a successful recover or start.
Then == CASE op.kind = "observe" -> "schedule" [] op.kind = "investigate" -> "supersede"
          [] OTHER -> "end"

recover ==
  /\ At("recover")
  /\ \/ op.cancelled /\ To("end") /\ UNCHANGED state
     \/ /\ ~op.cancelled /\ tmux.live /\ To(Then)
        /\ state' = [state EXCEPT !.state = "running", !.backoff = FALSE]
     \/ /\ ~op.cancelled /\ ~tmux.live
        /\ To(IF state.backoff THEN "end" ELSE "start") /\ UNCHANGED state
  /\ machine /\ outside /\ UNCHANGED <<report, memory>>

\* restart: Clear keeps the projection as seen, Rebuild forgets it. stop drops
\* the proposal before it kills the conversation.
restart ==
  /\ At("stop")
  /\ file' = NoProposal
  /\ IF op.cancelled THEN To("end") /\ UNCHANGED tmux
     ELSE /\ tmux' = [tmux EXCEPT !.live = FALSE]
          /\ op' = [op EXCEPT !.at = "start",
                 !.last = [known |-> op.kind = "clear" /\ memory.known,
                           seen |-> IF op.kind = "clear" THEN memory.projection ELSE Unknown]]
  /\ outside /\ UNCHANGED <<state, report, memory, audits, runner, prompted>>

\* An audit that is superseded, or whose conversation ends, is not current, and
\* nothing but its conversation matters any more.
superseded   == {[a EXCEPT !.current = FALSE, !.manual = FALSE, !.seen = Unknown] : a \in audits}
withoutAudit == [memory EXCEPT !.audit = FALSE, !.manual = NoItem]

startForgets ==
  /\ At("start")
  /\ IF op.cancelled THEN To("end") /\ UNCHANGED <<memory, report, audits>>
     ELSE /\ memory' = withoutAudit /\ audits' = superseded
          /\ report' = invalidated(report, TRUE)
          /\ To("launch")
  /\ outside /\ UNCHANGED <<state, file, tmux, runner, prompted>>

\* A context is at hand: of this projection, or the one written before.
canStart == memory.known \/ tmux.context > 0 \/ op.kind = "clear"
kept(s)  == IF op.kind \in {"clear", "rebuild"}
            THEN [s EXCEPT !.known = op.last.known, !.seen = op.last.seen] ELSE s

fault == /\ bounds.faults + bounds.changes < MaxFaults
         /\ bounds' = [bounds EXCEPT !.faults = @ + 1]

start ==
  /\ At("launch") /\ ~op.cancelled /\ canStart
  /\ file' = NoProposal
  /\ tmux' = [live |-> TRUE, context |-> tmux.context + 1]
  /\ state' = [kept(state) EXCEPT !.state = "running", !.backoff = FALSE]
  /\ To(Then)
  /\ outside /\ UNCHANGED <<report, memory, audits, runner, prompted>>

failed ==
  /\ At("launch")
  /\ IF op.cancelled \/ ~canStart THEN UNCHANGED bounds ELSE fault
  /\ file' = NoProposal
  /\ tmux' = [tmux EXCEPT !.live = op.cancelled /\ @]
  /\ state' = [kept(state) EXCEPT !.state = "degraded", !.backoff = TRUE]
  /\ To("end")
  /\ UNCHANGED <<owner, calls, foreground, acted, report, memory, audits, runner,
                 prompted>>

-----------------------------------------------------------------------------
(* Heartbeat audits *)

\* failStaleAudit: a report that a dead daemon left running belongs to no audit.
failStaleAudit == IF memory.checked THEN report ELSE invalidated(report, FALSE)

prepareAudit == report' = [state |-> "running", context |-> tmux.context]

launchAudit ==
  /\ At("audit")
  /\ IF memory.stopped
     THEN /\ memory' = [memory EXCEPT !.audit = FALSE, !.manual = NoItem]
          /\ report' = invalidated(report, FALSE)
          /\ state' = IF op.kind # "observe" THEN state
                      ELSE [state EXCEPT !.known = op.last.known, !.seen = op.last.seen]
          /\ UNCHANGED audits
     ELSE LET manual == op.kind = "investigate"
          IN  /\ memory' = [memory EXCEPT !.manual =
                     IF manual THEN <<op.target, memory.projection[op.target]>> ELSE NoItem]
              /\ audits' = superseded \cup
                   {[current |-> TRUE, context |-> tmux.context, manual |-> manual,
                     seen |-> memory.projection]}
              /\ UNCHANGED <<report, state>>
  /\ To("end")
  /\ outside /\ UNCHANGED <<file, tmux, runner, prompted>>

\* claimAuditCompletion: only the audit of this generation and conversation.
claimsStale(a) == ~memory.stopped
claims(a)      == ~memory.stopped /\ a.current

\* runAudit: the process has ended, and waits for the token.
auditEnds(a) ==
  /\ a \in audits
  /\ IF claims(a)
     THEN /\ op = Free
          /\ op' = [Free EXCEPT !.kind = "audit", !.at = "publish", !.audit = a]
          /\ UNCHANGED memory
     ELSE /\ memory' = IF a.current THEN withoutAudit ELSE memory
          /\ UNCHANGED op
  /\ audits' = audits \ {a}
  /\ outside /\ UNCHANGED <<state, report, file, tmux, runner, prompted>>

\* A manual audit looks at one attempt: its digest is the projection's only if
\* there is no other.
ofProjection(a) == a.seen = memory.projection /\ (a.manual => MaxAttempts = 1)

publish ==
  /\ At("publish")
  /\ IF op.cancelled THEN To("end") /\ UNCHANGED report
     ELSE /\ \E s \in {"completed", "failed"} :
               report' = [state |-> s, context |-> op.audit.context]
          /\ op' = [op EXCEPT !.ok = TRUE,
                              !.at = IF ofProjection(op.audit) THEN "handoff" ELSE "end"]
  /\ machine /\ outside /\ UNCHANGED <<state, memory>>

\* Investigate: the audit of one attempt takes the place of the running one.
investigateChecks ==
  /\ Holds("investigate", "check")
  /\ report' = failStaleAudit /\ memory' = [memory EXCEPT !.checked = TRUE]
  /\ \E a \in Attempts :
       op' = [op EXCEPT !.at = IF memory.known THEN "recover" ELSE "end", !.target = a]
  /\ machine /\ outside /\ UNCHANGED state

sameManualAudit ==
  memory.audit /\ memory.manual = <<op.target, memory.projection[op.target]>>

supersedeAudit ==
  /\ At("supersede")
  /\ IF sameManualAudit \/ ~Audits THEN To("end") /\ UNCHANGED <<memory, report, audits>>
     ELSE /\ memory' = withoutAudit /\ audits' = superseded
          /\ report' = IF memory.audit THEN invalidated(report, FALSE) ELSE report
          /\ To("prepare")
  /\ outside /\ UNCHANGED <<state, file, tmux, runner, prompted>>

investigatePrepares ==
  /\ At("prepare")
  /\ prepareAudit /\ memory' = [memory EXCEPT !.audit = TRUE]
  /\ To("audit")
  /\ machine /\ outside /\ UNCHANGED state

-----------------------------------------------------------------------------
(* Observation of a cycle, and the attention handoff *)

observeCycle ==
  /\ available
  /\ op' = [Free EXCEPT !.kind = "observe", !.at = "check", !.seen = owner.shows]
  /\ machine /\ outside /\ UNCHANGED <<state, report, memory>>

observeChecks ==
  /\ Holds("observe", "check")
  /\ report' = failStaleAudit
  /\ memory' = [memory EXCEPT !.checked = TRUE, !.projection = op.seen, !.known = TRUE]
  /\ op' = [op EXCEPT !.at = "recover", !.seen = Unknown]
  /\ machine /\ outside /\ UNCHANGED state

\* attentionCandidates
candidate(p, a) == p[a].fact # 0
unhandled(p) == {a \in Attempts : candidate(p, a) /\ <<a, p[a]>> \notin state.handled}
ended(h)     == h.state \in Terminal \cup {"none"}

\* reconcileAttention: what a fresh projection makes of the handoff.
observedHandoff(h, p, late) ==
  LET end == [h EXCEPT !.state = "human-attention"]
  IN  CASE h.state = "none" -> h
        [] h.state \in Terminal ->
             IF candidate(p, h.attempt) THEN h ELSE [h EXCEPT !.state = "recovered"]
        [] h.state = "waking" -> end
        [] ~candidate(p, h.attempt) -> [h EXCEPT !.state = "recovered"]
        [] p[h.attempt] # h.seen[h.attempt] -> end
        [] h.state = "verifying" -> end
        [] late -> end
        [] OTHER -> h

changed == ~state.known \/ state.seen # memory.projection

\* An audit is due when the projection changed, or when its time has come.
schedule ==
  /\ At("schedule")
  /\ \E due \in BOOLEAN :
       LET audit == Audits /\ ~memory.audit /\ (changed \/ due)
       IN  /\ op' = [op EXCEPT !.at = "write", !.ok = audit,
                               !.last = [known |-> state.known, seen |-> state.seen]]
           /\ memory' = [memory EXCEPT !.audit = @ \/ audit]
           /\ IF audit THEN prepareAudit ELSE UNCHANGED report
  /\ machine /\ outside /\ UNCHANGED state

writeState(late) ==
  /\ At("write")
  /\ LET p == memory.projection
         seen == (op.ok \/ ~Audits) /\ changed
     IN  /\ state' = [state EXCEPT
              !.handled = {i \in @ : p[i[1]] = i[2]},
              !.handoff = observedHandoff(@, p, late),
              !.known = @ \/ seen, !.seen = IF seen THEN p ELSE @]
         /\ To(IF op.ok THEN "audit"
               ELSE IF ~memory.audit /\ (~Audits \/ ~changed) THEN "handoff" ELSE "end")
  /\ machine /\ outside /\ UNCHANGED <<report, memory>>

Waking(a) == [attempt |-> a, seen |-> memory.projection, state |-> "waking",
              action |-> "none", binding |-> 0]

\* startAttentionHandoff: the handoff and its target are on disk before the
\* conversation hears of them.
wakesUnhandled ==
  /\ At("handoff")
  /\ LET able == state.state = "running" /\ ended(state.handoff)
                 /\ unhandled(memory.projection) # {} /\ ~(op.kind = "audit" /\ op.cancelled)
         a == Min(unhandled(memory.projection))
     IN  IF ~able THEN To("end") /\ UNCHANGED state
         ELSE /\ state' = [state EXCEPT !.handoff = Waking(a)]
              /\ To("paste")
  /\ machine /\ outside /\ UNCHANGED <<report, memory>>
startAttentionHandoff ==
  /\ At("handoff")
  /\ LET able == state.state = "running" /\ ended(state.handoff)
                 /\ unhandled(memory.projection) # {} /\ ~(op.kind = "audit" /\ op.cancelled)
         a == Min(unhandled(memory.projection))
     IN  IF ~able THEN To("end") /\ UNCHANGED state
         ELSE /\ state' = [state EXCEPT !.handoff = Waking(a),
                                       !.handled = @ \cup {<<a, memory.projection[a]>>}]
              /\ To("paste")
  /\ machine /\ outside /\ UNCHANGED <<report, memory>>

\* wakeAttention: paste-buffer, then Enter. Either may fail or run out of time.
Target  == <<state.handoff.attempt, state.handoff.seen[state.handoff.attempt]>>
Trouble == <<Target[1], Target[2].fact>>
\* Of the history, what the owner still shows, and what is still wrong.
StillShown(items, o) == {i \in items : o.shows[i[1]] = i[2]}
StillWrong(items, o) == {i \in items : o.wrong[i[1]] = i[2]}
reachable == ~op.cancelled /\ tmux.live

paste ==
  /\ At("paste") /\ reachable
  /\ prompted' = [prompted EXCEPT !.targets = @ \cup StillShown({Target}, owner)]
  /\ To("enter")
  /\ outside /\ UNCHANGED <<state, report, memory, file, tmux, audits, runner>>

enter ==
  /\ At("enter") /\ reachable /\ To("woken")
  /\ machine /\ outside /\ UNCHANGED <<state, report, memory>>

wakeFails ==
  /\ op.at \in {"paste", "enter"}
  /\ IF reachable THEN fault ELSE UNCHANGED bounds
  /\ To("unwoken")
  /\ machine
  /\ UNCHANGED <<owner, calls, foreground, acted, state, report, memory>>

recordWake ==
  /\ op.at \in {"woken", "unwoken"}
  /\ state' = [state EXCEPT
       !.handled = @ \cup {Target},
       !.handoff.state = IF op.at = "woken" THEN "waiting" ELSE "human-attention"]
  /\ prompted' = IF op.at = "woken"
                 THEN [prompted EXCEPT !.wakes = @ \cup StillWrong({Trouble}, owner)]
                 ELSE prompted
  /\ To("end")
  /\ outside /\ UNCHANGED <<file, tmux, audits, runner, report, memory>>

-----------------------------------------------------------------------------
(* Proposals *)

still == UNCHANGED <<owner, report, tmux, op, foreground, calls, audits, prompted,
                     bounds>>
Validated(p) == runner' = [runner EXCEPT !.at = p, !.seen = Unknown]
RunnerIdle   == runner' = IdleRunner
pr           == runner.proposal

\* MessageProposal, on a state whose running proposal died with its daemon.
abandonedRunningKept(s) ==
  [s EXCEPT !.resolution = "failed",
            !.handoff.state = IF s.handoff.state # "none" /\ s.handoff.binding = s.binding
                              THEN "human-attention" ELSE @]
abandonedRunning(s) ==
  [s EXCEPT !.resolution = "failed", !.consumed = s.binding,
            !.handoff.state = IF s.handoff.state # "none" /\ s.handoff.binding = s.binding
                              THEN "human-attention" ELSE @]

MessageProposal ==
  /\ runner.at = "idle" /\ available /\ state.state = "running"
  /\ \/ /\ state.resolution = "running" /\ ~memory.proposal
        /\ state' = abandonedRunning(state)
        /\ UNCHANGED runner
     \/ /\ state.resolution # "running" /\ file.id \notin {0, state.consumed}
        /\ runner' = [IdleRunner EXCEPT !.at = "validate", !.proposal = file,
                                    !.seen = owner.shows]
        /\ UNCHANGED state
  /\ still /\ UNCHANGED <<memory, file, acted>>

\* ValidateAttentionProposal: the handoff waits for it, and the projection the
\* runner read still has its target as it was.
HandoffOf(p) == p.bound /\ p.attempt = state.handoff.attempt /\ p.seen = state.handoff.seen
waited(p)    == state.handoff.state = "waiting" /\ HandoffOf(p)
                  /\ candidate(runner.seen, p.attempt)
                  /\ runner.seen[p.attempt] = p.seen[p.attempt]

\* A proposal without a handoff is checked against owner facts that are not
\* here, and so is what an action asks of its target. No free token refuses.
ValidateAttentionProposal ==
  /\ runner.at = "validate"
  /\ \/ /\ pr.bound => available /\ waited(pr)
        /\ Validated("begin")
     \/ /\ pr.action # "attention" \/ ~(available /\ waited(pr))
        /\ Validated("refuse")
  /\ still /\ UNCHANGED <<state, memory, file, acted>>

\* resolveMessageProposal
resolvable(id, final) ==
  file.id = id \/ (final /\ state.binding = id /\ state.resolution = "running")
touches(id) ==
  state.handoff.state # "none" /\ (HandoffOf(file) \/ state.handoff.binding = id)
resolvedHandoff(h, resolution) ==
  [h EXCEPT !.state = IF resolution # "succeeded" \/ h.action = "attention"
                      THEN "human-attention"
                      ELSE IF h.action = "check_in" THEN "waiting" ELSE "verifying"]

resolves(resolution) ==
  /\ state' = [state EXCEPT
       !.binding = pr.id, !.resolution = resolution,
       !.consumed = IF resolution = "running" THEN @ ELSE pr.id,
       !.handoff = IF ~touches(pr.id) THEN @
                   ELSE IF resolution # "running" THEN resolvedHandoff(@, resolution)
                   ELSE [@ EXCEPT !.state = "action-running", !.action = file.action,
                                  !.binding = pr.id]]
  /\ memory' = [memory EXCEPT !.proposal = resolution = "running"]

\* The runner gives up this time: the token is taken, or the file has changed.
ResolveMessageProposal(resolution, next) ==
  /\ IF available /\ resolvable(pr.id, resolution # "running")
     THEN resolves(resolution) /\ runner' = next
     ELSE UNCHANGED <<state, memory>> /\ RunnerIdle
  /\ still /\ UNCHANGED <<file, acted>>

refuse == runner.at = "refuse" /\ ResolveMessageProposal("refused", IdleRunner)
begin  == runner.at = "begin"
            /\ ResolveMessageProposal("running", [runner EXCEPT !.at = "act"])
settle == runner.at = "settle" /\ ResolveMessageProposal(runner.outcome, IdleRunner)

\* The fixed action: a cycle, a recovery or a check-in; to ask for attention
\* always succeeds.
act ==
  /\ runner.at = "act"
  /\ acted' = acted \cup {pr.id}
  /\ \E o \in {"succeeded"} \cup (IF pr.action = "attention" THEN {} ELSE {"failed"}) :
       runner' = [runner EXCEPT !.at = "settle", !.outcome = o]
  /\ still /\ UNCHANGED <<state, memory, file>>

-----------------------------------------------------------------------------
(* The world around it *)

\* The agent submits a proposal: for the handoff it can read, or, to retry a
\* transition, for none.
submit ==
  /\ tmux.live /\ bounds.proposals < MaxProposals
  /\ bounds' = [bounds EXCEPT !.proposals = @ + 1]
  /\ LET new == [NoProposal EXCEPT !.id = bounds.proposals + 1]
         h == state.handoff
     IN  \/ file' = [new EXCEPT !.action = "retry"]
         \/ /\ h.state # "none"
            /\ \E action \in Actions :
                 file' = [new EXCEPT !.action = action, !.bound = TRUE,
                                     !.attempt = h.attempt, !.seen = h.seen]
  /\ UNCHANGED <<owner, state, report, tmux, memory, op, foreground, calls, audits, runner,
                 prompted, acted>>

\* The history forgets what the owner no longer shows, or what is no longer wrong.
remembered(o) == [targets |-> StillShown(prompted.targets, o),
                  wakes   |-> StillWrong(prompted.wakes, o)]
world == UNCHANGED <<state, file, tmux, acted>>

\* The first apply of a start shows what was left out, and writes its epoch into
\* every observation, those included that say what they said before.
ownerApplies ==
  /\ \E a \in Attempts :
       /\ owner.shows[a].epoch # bounds.boots
       /\ owner' = [owner EXCEPT !.shows[a] =
                      [@ EXCEPT !.fact = owner.wrong[a], !.epoch = bounds.boots]]
  /\ prompted' = remembered(owner')
  /\ world /\ UNCHANGED <<report, memory, op, foreground, calls, audits, runner, bounds>>

\* Something of an attempt changes: what is wrong, as far as this start has observed
\* it, or only what else the token hashes, an effect or the cycle that wrote it.
ownerChanges ==
  /\ bounds.changes + bounds.faults + bounds.boots <= MaxChanges
  /\ bounds' = [bounds EXCEPT !.changes = @ + 1]
  /\ \E a \in Attempts, f \in 0..MaxFacts, t \in 0..MaxTokens :
       LET was == owner.shows[a]
       IN  /\ <<f, t>> # <<was.fact, was.token>>
           /\ owner' = [owner EXCEPT
                !.wrong[a] = IF was.epoch = bounds.boots THEN f ELSE @,
                !.shows[a] = [@ EXCEPT !.fact = f, !.token = t]]
  /\ prompted' = remembered(owner')
  /\ world /\ UNCHANGED <<report, memory, op, foreground, calls, audits, runner>>

paneDies ==
  /\ tmux.live /\ fault
  /\ tmux' = [tmux EXCEPT !.live = FALSE]
  /\ UNCHANGED <<owner, state, report, file, memory, op, foreground, calls, audits, runner,
                 prompted, acted>>

backoffEnds ==
  /\ state.backoff /\ state' = [state EXCEPT !.backoff = FALSE]
  /\ machine /\ outside /\ UNCHANGED <<report, memory, op>>

\* Shutdown ends waiting commands and what runs, then the report that was
\* running; a crash does none of it. Either way the next daemon starts anew.
Shutdown ==
  /\ ~memory.stopped /\ bounds.boots < MaxBoots
  /\ memory' = [memory EXCEPT !.stopped = TRUE]
  /\ op' = IF op = Free THEN op ELSE [op EXCEPT !.cancelled = TRUE]
  /\ calls' = [c \in Commands |-> IF calls[c] = "queued" THEN "returned" ELSE calls[c]]
  /\ foreground' = <<>>
  /\ machine /\ UNCHANGED <<owner, acted, bounds, state, report>>

\* The projection leaves out every observation of an older epoch: until the first
\* apply an attempt is what its local manifest says of it, or nothing.
bootShows == {[a \in Attempts |-> [owner.shows[a] EXCEPT !.fact = p[a]]] :
                p \in [Attempts -> Locals]}

boot ==
  /\ bounds.boots < MaxBoots
  /\ bounds' = [bounds EXCEPT !.boots = @ + 1]
  /\ report' = IF memory.stopped /\ op = Free THEN invalidated(report, FALSE) ELSE report
  /\ memory' = NewMemory /\ op' = Free /\ foreground' = <<>>
  /\ calls' = [c \in Commands |-> IF calls[c] = "new" THEN "new" ELSE "returned"]
  /\ audits' = {} /\ runner' = IdleRunner
  /\ \E p \in bootShows : owner' = [owner EXCEPT !.shows = p]
  /\ prompted' = remembered(owner') /\ world

-----------------------------------------------------------------------------
(* Specification *)

HoldsToken ==
  \/ release \/ recover \/ restart \/ startForgets \/ start \/ failed
  \/ launchAudit \/ publish \/ investigateChecks \/ supersedeAudit \/ investigatePrepares
  \/ observeChecks \/ schedule \/ \E late \in BOOLEAN : writeState(late)
  \/ startAttentionHandoff \/ paste \/ enter \/ wakeFails \/ recordWake
RunnerStep == ValidateAttentionProposal \/ refuse \/ begin \/ act \/ settle

Next ==
  \/ HoldsToken \/ observeCycle \/ \E a \in audits : auditEnds(a)
  \/ MessageProposal \/ RunnerStep
  \/ \E c \in Commands : enqueue(c) \/ contextEnds(c)
  \/ submit \/ ownerApplies \/ ownerChanges \/ paneDies \/ backoffEnds
  \/ Shutdown \/ boot

\* Who holds the token goes on; audits end and wait for it; cycles return for
\* ever, so they do not find it taken each time, nor is a handoff never late;
\* a daemon that was stopped is started again.
Fairness ==
  /\ WF_vars(HoldsToken) /\ WF_vars(backoffEnds)
  /\ SF_vars(observeCycle) /\ SF_vars(writeState(TRUE))
  /\ SF_vars(\E a \in audits : auditEnds(a))
  /\ WF_vars(memory.stopped /\ boot)

Spec     == Init /\ [][Next]_vars
FairSpec == Spec /\ Fairness

-----------------------------------------------------------------------------
(* Properties *)

\* A wake that was acknowledged is not repeated while what is wrong with the attempt
\* stays as it is, whatever restarts, new conversations and cycles come between
\* (docs/architecture.md: a restart never repeats an acknowledged wake).
WokenOnce ==
  [][At("paste") /\ op'.at = "enter" => Trouble \notin prompted.wakes]_vars

\* The conversation is prompted about a target digest at most once for as long as the
\* projection shows it, acknowledged or not: over crashes before a start's first apply,
\* new conversations, superseded audits and cycles that observe a projection late.
TargetWokenOnce ==
  [][At("paste") /\ op'.at = "enter" => Target \notin prompted.targets]_vars

\* A completed report is of the conversation that can read it, and nobody is
\* prompted while a report is still being made: startAttentionHandoff waits
\* for the audit, and claimAuditCompletion keeps out an audit of another
\* generation.
ReportHonest ==
  /\ report.state = "completed" => report.context = tmux.context
  /\ At("enter") => report.state # "running"

\* The action of a proposal is carried out once, also when the daemon dies in
\* the middle of it: a running proposal that is found after a start has failed.
ActedOnce ==
  [][runner.at = "act" /\ runner'.at = "settle" => pr.id \notin acted]_vars

\* A handoff does not stay open: it recovers or ends with a human's attention,
\* though wakes fail, proposals never come and daemons die.
HandoffSettles == (~ended(state.handoff)) ~> ended(state.handoff)

\* A report that says running does not say so for ever: its audit publishes,
\* is superseded, or is found to have died with its daemon.
ReportSettles == (report.state = "running") ~> (report.state # "running")

=============================================================================
