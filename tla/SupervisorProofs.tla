-------------------------- MODULE SupervisorProofs ---------------------------
(***************************************************************************)
(* TLAPS proofs about Supervisor, for any number of attempts, commands,    *)
(* proposals, daemon starts and faults, with and without audits.           *)
(***************************************************************************)
EXTENDS Supervisor, SequenceTheorems, WellFoundedInduction, TLAPS

-----------------------------------------------------------------------------
(* The invariant *)

Reports == [state : {"none", "running", "completed", "failed"}, context : Nat]
Ops     == [kind : OpKinds, at : Points, call : {"none"} \cup Commands, cancelled : BOOLEAN,
            target : 0..MaxAttempts, seen : Projections,
            last : [known : BOOLEAN, seen : Projections], ok : BOOLEAN, audit : Audit]
Runner  == [at : {"idle", "validate", "refuse", "begin", "act", "settle"},
            proposal : Proposal, seen : Projections, outcome : Outcomes]
Bounds  == [changes : Nat, proposals : 0..MaxProposals, boots : Nat, faults : Nat]
Prompts == [targets : SUBSET Items, wakes : SUBSET Troubles]

\* The types.
TypeInv ==
  /\ owner \in Owners /\ state \in State /\ report \in Reports /\ file \in Proposal
  /\ tmux \in [live : BOOLEAN, context : Nat] /\ memory \in Memory /\ op \in Ops
  /\ foreground \in Seq(Waiting) /\ calls \in Calls
  /\ audits \subseteq Audit /\ runner \in Runner
  /\ prompted \in Prompts /\ acted \subseteq Proposals /\ bounds \in Bounds

\* Which holder of the token can be where. Past its first step an observation, and an
\* investigation, has dealt with a dead daemon's report. What Shutdown meets is
\* cancelled, and nothing follows it.
TokenInv ==
  /\ op.kind = "observe" /\ op.at # "check" => memory.checked /\ memory.known
  /\ op.kind = "investigate" /\ op.at # "check" => memory.checked /\ op.target \in Attempts
  /\ op.at \in {"schedule", "write"} => op.kind = "observe"
  /\ op.at = "publish" => op.kind = "audit"
  /\ op.at \in {"supersede", "prepare"} => op.kind = "investigate"
  /\ op.at = "audit" => op.kind \in {"observe", "investigate"}
  /\ op.at \in {"handoff", "paste", "enter"} => op.kind \in {"observe", "audit"}
  /\ memory.stopped => foreground = <<>> /\ (op = Free \/ op.cancelled)

\* An audit that is current is of the conversation there is, and while its successor is
\* launched none is. A running report has its audit, until the daemon is stopped, and
\* who may prompt has seen that none is running.
ReportInv ==
  /\ report.state = "completed" => report.context = tmux.context
  /\ \A a \in audits : a.current => a.context = tmux.context
  /\ At("launch") => report.state \in {"none", "failed"} /\ \A a \in audits : ~a.current
  /\ At("publish") => op.audit.context = tmux.context
  /\ op.kind = "audit" /\ op.ok => report.state # "running"
  /\ report.state = "running" /\ memory.checked /\ ~memory.stopped => memory.audit
  /\ op.at \in {"handoff", "paste"} /\ ~op.cancelled => report.state # "running"
  /\ At("enter") => report.state # "running"

\* Where the conversation is being prompted, and what came of it recorded.
Wakes == {"paste", "enter", "woken", "unwoken"}

\* What was prompted, and is still shown, is handled, and every projection that decides
\* what stays handled shows it: the one a cycle was handed, and the one in memory. A
\* target is handled before it is prompted.
PromptInv ==
  /\ \A i \in prompted.targets : owner.shows[i[1]] = i[2] /\ i \in state.handled
  /\ Holds("observe", "check") => \A i \in prompted.targets : op.seen[i[1]] = i[2]
  /\ memory.known => \A i \in prompted.targets : memory.projection[i[1]] = i[2]
  /\ op.at \in Wakes => state.handoff.attempt \in Attempts
  /\ At("paste") => /\ state.handoff.seen = memory.projection
                    /\ Target \in state.handled /\ Target \notin prompted.targets

\* Proposals are submitted, begun and consumed in order. One whose action was carried
\* out is consumed, or it is the one that the state says is running.
ProposalInv ==
  /\ state.consumed <= state.binding /\ state.binding <= bounds.proposals
  /\ file.id \in {0, bounds.proposals} /\ pr.id <= bounds.proposals
  /\ runner.at \in {"validate", "refuse", "begin"} =>
       state.consumed < pr.id /\ state.resolution # "running"
  /\ runner.at \in {"act", "settle"} =>
       pr.id # 0 /\ state.binding = pr.id /\ state.resolution = "running"
  /\ runner.at = "act" => pr.id \notin acted
  /\ \A i \in acted : i <= state.consumed \/ (i = state.binding /\ state.resolution = "running")

SupervisorInv == TypeInv /\ TokenInv /\ ReportInv /\ PromptInv /\ ProposalInv

-----------------------------------------------------------------------------
(* Sets and sequences *)

\* A set of natural numbers that is not empty has a least.
LEMMA LeastNatural ==
  ASSUME NEW S, S \subseteq Nat, S # {}
  PROVE  Min(S) \in S /\ \A u \in S : Min(S) <= u
<1>1. IsWellFoundedOn(OpToRel(<, Nat), Nat)
  BY NatLessThanWellFounded
<1>2. PICK t \in S : \A u \in S : ~(<<u, t>> \in OpToRel(<, Nat))
  BY <1>1, WFMin
<1>3. ASSUME NEW u \in S
      PROVE  t <= u
  <2>1. u < t => <<u, t>> \in OpToRel(<, Nat)
    BY DEF OpToRel
  <2>2. ~(u < t)
    BY <2>1, <1>2, Zenon
  <2>. QED  BY <2>2
<1>. QED  BY <1>3 DEF Min

\* What is left of a queue is a queue.
LEMMA RemoveAtShortens ==
  ASSUME NEW S, NEW s \in Seq(S), NEW i \in 1..Len(s)
  PROVE  RemoveAt(s, i) \in Seq(S)
<1>. DEFINE l == SubSeq(s, 1, i-1)  r == SubSeq(s, i+1, Len(s))
<1>1. Len(s) \in Nat /\ i \in Nat /\ i >= 1 /\ i <= Len(s)
  OBVIOUS
<1>2. l \in Seq(S) /\ r \in Seq(S)
  BY <1>1, SubSeqProperties
<1>3. RemoveAt(s, i) = l \o r
  BY DEF RemoveAt
<1>. HIDE DEF l, r
<1>. QED  BY <1>2, <1>3, ConcatProperties

-----------------------------------------------------------------------------
(* Types *)

\* The records that the actions start from have their types.
LEMMA Records ==
  ASSUME SupervisorAssumption
  PROVE  /\ Nothing \in Statuses /\ Unknown \in Projections /\ NoHandoff \in Handoff /\ NoProposal \in Proposal
         /\ NoAudit \in Audit /\ Free \in Ops /\ IdleRunner \in Runner /\ NewMemory \in Memory
         /\ Free.kind = "none" /\ Free.at = "free" /\ Kinds \subseteq OpKinds
<1>0. Nothing \in Statuses
  BY DEF SupervisorAssumption, Nothing, Statuses
<1>1. Unknown \in Projections
  BY <1>0 DEF Unknown, Projections
<1>2. NoHandoff \in Handoff /\ NoProposal \in Proposal /\ NoAudit \in Audit
  BY <1>1 DEF SupervisorAssumption, NoHandoff, Handoff, NoProposal, Proposal, NoAudit, Audit,
     Terminal
<1>3. Free \in Ops
  BY <1>1, <1>2 DEF SupervisorAssumption, Free, Ops, OpKinds, Points
<1>4. IdleRunner \in Runner
  BY <1>1, <1>2 DEF IdleRunner, Runner, Outcomes
<1>5. NewMemory \in Memory
  BY <1>1 DEF NewMemory, Memory
<1>. QED  BY <1>0, <1>1, <1>2, <1>3, <1>4, <1>5 DEF Free, OpKinds, SupervisorAssumption

\* The initial states satisfy the invariant.
LEMMA InitInv ==
  ASSUME SupervisorAssumption, Init
  PROVE  SupervisorInv
<1>1. owner \in Owners
  <2>1. 1 \in 0..MaxFacts /\ 0 \in 0..MaxTokens
    BY DEF SupervisorAssumption
  <2>2. [fact |-> 1, epoch |-> 1, token |-> 0] \in Statuses
    BY <2>1 DEF Statuses
  <2>. QED  BY <2>1, <2>2 DEF Init, Owners, Projections
<1>2. state \in State
  BY Records DEF Init, State
<1>3. report \in Reports /\ tmux \in [live : BOOLEAN, context : Nat] /\ calls \in Calls
  BY DEF Init, Reports, Calls
<1>4. bounds \in Bounds
  BY DEF SupervisorAssumption, Init, Bounds
<1>5. TypeInv
  BY <1>1, <1>2, <1>3, <1>4, Records DEF Init, TypeInv, Prompts
<1>6. TokenInv
  BY DEF Init, TokenInv, Free, NewMemory
<1>7. ReportInv
  BY DEF Init, ReportInv, Free, NewMemory, At
<1>8. PromptInv
  BY DEF Init, PromptInv, Free, NewMemory, At, Holds, Wakes
<1>9. ProposalInv
  BY DEF Init, ProposalInv, IdleRunner, NoProposal, pr
<1>. QED  BY <1>5, <1>6, <1>7, <1>8, <1>9 DEF SupervisorInv

\* A report that is invalidated no longer runs, and stays with its conversation.
LEMMA Invalidated ==
  ASSUME NEW r \in Reports, NEW completed \in BOOLEAN
  PROVE  /\ invalidated(r, completed) \in Reports
         /\ invalidated(r, completed).context = r.context
         /\ invalidated(r, completed).state # "running"
         /\ invalidated(r, completed).state \in {r.state, "failed"}
         /\ completed => invalidated(r, completed).state \in {"none", "failed"}
<1>1. CASE r.state = "running" \/ (completed /\ r.state = "completed")
  BY <1>1 DEF invalidated, Reports
<1>2. CASE ~(r.state = "running" \/ (completed /\ r.state = "completed"))
  BY <1>2 DEF invalidated, Reports
<1>. QED  BY <1>1, <1>2

\* Superseded audits are not current.
LEMMA Superseded ==
  ASSUME SupervisorAssumption, audits \subseteq Audit
  PROVE  \A a \in superseded : a \in Audit /\ ~a.current
<1>. DEFINE old(b) == [b EXCEPT !.current = FALSE, !.manual = FALSE, !.seen = Unknown]
<1>1. ASSUME NEW b \in audits
      PROVE  old(b) \in Audit /\ ~old(b).current
  BY Records DEF Audit
<1>2. superseded = {old(b) : b \in audits}
  BY DEF superseded
<1>. HIDE DEF old
<1>. QED  BY <1>1, <1>2

\* What superseding an audit does to the memory.
LEMMA WithoutAudit ==
  ASSUME memory \in Memory
  PROVE  /\ withoutAudit \in Memory /\ withoutAudit.known = memory.known
         /\ withoutAudit.projection = memory.projection
         /\ withoutAudit.checked = memory.checked /\ withoutAudit.stopped = memory.stopped
BY DEF withoutAudit, Memory

\* The holder of the token goes on to p.
LEMMA Moved ==
  ASSUME op \in Ops, NEW p \in Points, To(p)
  PROVE  /\ op' \in Ops /\ op'.at = p /\ op'.kind = op.kind /\ op'.cancelled = op.cancelled
         /\ op'.seen = op.seen /\ op'.ok = op.ok /\ op'.audit = op.audit
         /\ op'.last = op.last /\ op'.call = op.call /\ op'.target = op.target
BY DEF To, Ops

\* A command that is granted the token starts at its first point.
LEMMA GrantedOp ==
  ASSUME SupervisorAssumption, NEW c \in Commands, NEW kind \in Kinds
  PROVE  /\ Granted(c, kind) \in Ops /\ Granted(c, kind).kind = kind
         /\ Granted(c, kind).at = FirstPoint(kind) /\ ~Granted(c, kind).ok
         /\ FirstPoint(kind) \in {"check", "recover", "stop"}
         /\ FirstPoint(kind) = "check" <=> kind = "investigate"
         /\ kind \notin {"none", "observe", "audit"}
<1>1. kind \in {"recover", "clear", "rebuild", "investigate"}
  BY DEF SupervisorAssumption
<1>2. FirstPoint(kind) \in {"check", "recover", "stop"}
      /\ (FirstPoint(kind) = "check" <=> kind = "investigate")
  BY <1>1 DEF FirstPoint
<1>3. FirstPoint(kind) \in Points /\ kind \in OpKinds
  BY <1>2 DEF Points, OpKinds
<1>4. Granted(c, kind) \in Ops /\ Granted(c, kind).kind = kind
      /\ Granted(c, kind).at = FirstPoint(kind) /\ Granted(c, kind).ok = Free.ok
  BY <1>3, Records DEF Granted, Ops
<1>. QED  BY <1>1, <1>2, <1>4 DEF Free

-----------------------------------------------------------------------------
(* What a part of the invariant depends on *)

\* A part of the invariant stays when what it is about does.
LEMMA ProposalFrame ==
  ASSUME ProposalInv, runner' = runner, acted' = acted,
         state'.consumed = state.consumed, state'.binding = state.binding,
         state'.resolution = state.resolution, file'.id \in {0, file.id},
         bounds'.proposals = bounds.proposals
  PROVE  ProposalInv'
BY DEF ProposalInv, pr

LEMMA PromptFrame ==
  ASSUME PromptInv, prompted' = prompted, owner' = owner,
         state'.handled = state.handled, op'.at \notin Wakes,
         memory'.known => memory.known /\ memory'.projection = memory.projection,
         Holds("observe", "check")' => Holds("observe", "check") /\ op'.seen = op.seen
  PROVE  PromptInv'
BY DEF PromptInv, At, Wakes

\* Of the report, when neither it nor the audits nor the conversation change and the
\* holder of the token goes on to where the report does not matter.
LEMMA ReportFrame ==
  ASSUME ReportInv, report' = report, tmux'.context = tmux.context, audits' = audits,
         memory'.checked = memory.checked, memory'.stopped = memory.stopped,
         memory'.audit = memory.audit,
         op'.kind = "audit" /\ op'.ok => op.kind = "audit" /\ op.ok,
         op'.at \notin {"launch", "publish", "handoff", "paste", "enter"}
  PROVE  ReportInv'
BY DEF ReportInv, At

-----------------------------------------------------------------------------
(* The conversation *)

LEMMA RecoverKeeps ==
  ASSUME SupervisorAssumption, SupervisorInv, recover
  PROVE  SupervisorInv'
<1>. USE DEF SupervisorInv
<1>0. PICK p \in {"end", "start", "schedule", "supersede"} :
        /\ To(p) /\ (p = "schedule" => op.kind = "observe")
        /\ (p = "supersede" => op.kind = "investigate")
  BY DEF recover, Then
<1>1. op \in Ops /\ p \in Points /\ op.at = "recover" /\ memory \in Memory
  BY DEF TypeInv, recover, At, Points
<1>2. /\ op' \in Ops /\ op'.at = p /\ op'.kind = op.kind /\ op'.cancelled = op.cancelled
      /\ op'.ok = op.ok /\ op'.target = op.target
  BY <1>0, <1>1, Moved
<1>3. /\ UNCHANGED <<owner, calls, foreground, acted, bounds, file, tmux, audits, runner,
                     prompted, report, memory>>
      /\ state' \in State /\ state'.handled = state.handled
      /\ state'.consumed = state.consumed /\ state'.binding = state.binding
      /\ state'.resolution = state.resolution
  <2>1. /\ state \in State
        /\ \/ state' = state
           \/ state' = [state EXCEPT !.state = "running", !.backoff = FALSE]
    BY DEF TypeInv, recover
  <2>2. UNCHANGED <<owner, calls, foreground, acted, bounds, file, tmux, audits, runner,
                    prompted, report, memory>>
    BY DEF recover, machine, outside
  <2>. QED  BY <2>1, <2>2 DEF State
<1>4. TypeInv'
  BY <1>2, <1>3 DEF TypeInv
<1>5. TokenInv'
  BY <1>0, <1>1, <1>2, <1>3 DEF TokenInv, Free
<1>6. ReportInv'
  BY <1>2, <1>3, ReportFrame
<1>7. PromptInv'
  BY <1>2, <1>3, PromptFrame DEF Holds, Wakes
<1>8. ProposalInv'
  BY <1>3, ProposalFrame
<1>. QED  BY <1>4, <1>5, <1>6, <1>7, <1>8

LEMMA RestartKeeps ==
  ASSUME SupervisorAssumption, SupervisorInv, restart
  PROVE  SupervisorInv'
<1>. USE DEF SupervisorInv
<1>1. /\ op \in Ops /\ op.at = "stop" /\ memory \in Memory /\ Unknown \in Projections
      /\ memory.known \in BOOLEAN /\ memory.projection \in Projections
  BY Records DEF TypeInv, restart, At, Memory
<1>2. /\ op' \in Ops /\ op'.at \in {"end", "start"} /\ op'.kind = op.kind
      /\ op'.cancelled = op.cancelled /\ op'.ok = op.ok /\ op'.target = op.target
  <2>1. CASE op.cancelled
    BY <1>1, <2>1, Moved DEF restart, Points
  <2>2. CASE ~op.cancelled
    <3>. DEFINE known == op.kind = "clear" /\ memory.known
                seen == IF op.kind = "clear" THEN memory.projection ELSE Unknown
    <3>1. op' = [op EXCEPT !.at = "start", !.last = [known |-> known, seen |-> seen]]
      BY <2>2 DEF restart
    <3>2. known \in BOOLEAN /\ seen \in Projections /\ "start" \in Points
      BY <1>1 DEF Points
    <3>. HIDE DEF known, seen
    <3>. QED  BY <1>1, <3>1, <3>2 DEF Ops
  <2>. QED  BY <2>1, <2>2
<1>3. /\ UNCHANGED <<owner, calls, foreground, acted, bounds, state, audits, runner,
                     prompted, report, memory>>
      /\ tmux' \in [live : BOOLEAN, context : Nat] /\ tmux'.context = tmux.context
      /\ file' = NoProposal
  BY DEF TypeInv, restart, outside
<1>4. TypeInv'
  BY <1>2, <1>3, Records DEF TypeInv
<1>5. TokenInv'
  BY <1>1, <1>2, <1>3 DEF TokenInv, Free
<1>6. ReportInv'
  BY <1>2, <1>3, ReportFrame
<1>7. PromptInv'
  BY <1>2, <1>3, PromptFrame DEF Holds, Wakes
<1>8. ProposalInv'
  BY <1>3, ProposalFrame DEF NoProposal
<1>. QED  BY <1>4, <1>5, <1>6, <1>7, <1>8

LEMMA StartForgetsKeeps ==
  ASSUME SupervisorAssumption, SupervisorInv, startForgets
  PROVE  SupervisorInv'
<1>. USE DEF SupervisorInv
<1>1. op \in Ops /\ op.at = "start" /\ memory \in Memory /\ audits \subseteq Audit
      /\ report \in Reports
  BY DEF TypeInv, startForgets, At
<1>2. /\ op' \in Ops /\ op'.at = (IF op.cancelled THEN "end" ELSE "launch")
      /\ op'.kind = op.kind /\ op'.cancelled = op.cancelled /\ op'.ok = op.ok /\ op'.target = op.target
  BY <1>1, Moved DEF startForgets, Points
<1>3. UNCHANGED <<owner, calls, foreground, acted, bounds, state, file, tmux, runner,
                  prompted>>
  BY DEF startForgets, outside
<1>4. CASE op.cancelled
  <2>1. UNCHANGED <<memory, report, audits>>
    BY <1>4 DEF startForgets
  <2>2. TypeInv'
    BY <1>2, <1>3, <2>1 DEF TypeInv
  <2>3. TokenInv'
    BY <1>1, <1>2, <1>3, <1>4, <2>1 DEF TokenInv, Free
  <2>4. ReportInv'
    BY <1>2, <1>3, <1>4, <2>1, ReportFrame
  <2>5. PromptInv'
    BY <1>2, <1>3, <1>4, <2>1, PromptFrame DEF Holds, Wakes
  <2>6. ProposalInv'
    BY <1>3, ProposalFrame
  <2>. QED  BY <2>2, <2>3, <2>4, <2>5, <2>6
<1>5. CASE ~op.cancelled
  <2>1. /\ memory' = withoutAudit /\ audits' = superseded
        /\ report' = invalidated(report, TRUE)
    BY <1>5 DEF startForgets
  <2>2. memory' \in Memory /\ memory'.known = memory.known
        /\ memory'.projection = memory.projection /\ memory'.stopped = memory.stopped
        /\ memory'.checked = memory.checked
    BY <1>1, <2>1, WithoutAudit
  <2>3. \A a \in audits' : a \in Audit /\ ~a.current
    BY <1>1, <2>1, Superseded
  <2>4. report' \in Reports /\ report'.state \in {"none", "failed"}
    BY <1>1, <2>1, Invalidated
  <2>5. TypeInv'
    BY <1>2, <1>3, <2>2, <2>3, <2>4 DEF TypeInv
  <2>6. TokenInv'
    BY <1>1, <1>2, <1>3, <1>5, <2>2 DEF TokenInv, Free
  <2>7. ReportInv'
    BY <1>2, <1>5, <2>3, <2>4 DEF ReportInv, At
  <2>8. PromptInv'
    BY <1>2, <1>3, <1>5, <2>2, PromptFrame DEF Holds, Wakes
  <2>9. ProposalInv'
    BY <1>3, ProposalFrame
  <2>. QED  BY <2>5, <2>6, <2>7, <2>8, <2>9
<1>. QED  BY <1>4, <1>5

\* The state of a cleared or rebuilt conversation differs in what the projection was.
LEMMA KeptState ==
  ASSUME state \in State, op \in Ops
  PROVE  /\ kept(state) \in State /\ kept(state).handled = state.handled
         /\ kept(state).consumed = state.consumed /\ kept(state).binding = state.binding
         /\ kept(state).resolution = state.resolution
         /\ kept(state).handoff = state.handoff
<1>1. op.last.known \in BOOLEAN /\ op.last.seen \in Projections
  BY DEF Ops
<1>. QED  BY <1>1 DEF kept, State

LEMMA StartKeeps ==
  ASSUME SupervisorAssumption, SupervisorInv, start
  PROVE  SupervisorInv'
<1>. USE DEF SupervisorInv
<1>1. /\ op \in Ops /\ op.at = "launch" /\ memory \in Memory /\ state \in State
      /\ tmux \in [live : BOOLEAN, context : Nat]
  BY DEF TypeInv, start, At
<1>0. PICK p \in {"end", "schedule", "supersede"} :
        /\ To(p) /\ (p = "schedule" => op.kind = "observe")
        /\ (p = "supersede" => op.kind = "investigate")
  BY DEF start, Then
<1>2. /\ op' \in Ops /\ op'.at = p /\ op'.kind = op.kind /\ op'.cancelled = op.cancelled
      /\ op'.ok = op.ok /\ op'.target = op.target
  BY <1>0, <1>1, Moved DEF Points
<1>3. /\ UNCHANGED <<owner, calls, foreground, acted, bounds, report, memory, audits, runner,
                     prompted>>
      /\ file' = NoProposal /\ tmux' \in [live : BOOLEAN, context : Nat]
  BY <1>1 DEF start, outside
<1>4. /\ state' \in State /\ state'.handled = state.handled
      /\ state'.consumed = state.consumed /\ state'.binding = state.binding
      /\ state'.resolution = state.resolution
  <2>1. state' = [kept(state) EXCEPT !.state = "running", !.backoff = FALSE]
    BY DEF start
  <2>. QED  BY <1>1, <2>1, KeptState DEF State
<1>5. TypeInv'
  BY <1>2, <1>3, <1>4, Records DEF TypeInv
<1>6. TokenInv'
  BY <1>0, <1>1, <1>2, <1>3 DEF TokenInv, Free
<1>7. ReportInv'
  BY <1>1, <1>2, <1>3 DEF ReportInv, At
<1>8. PromptInv'
  BY <1>2, <1>3, <1>4, PromptFrame DEF Holds, Wakes
<1>9. ProposalInv'
  BY <1>3, <1>4, ProposalFrame DEF NoProposal
<1>. QED  BY <1>5, <1>6, <1>7, <1>8, <1>9

\* A fault is counted.
LEMMA Faulted ==
  ASSUME bounds \in Bounds, fault
  PROVE  bounds' \in Bounds /\ bounds'.proposals = bounds.proposals
BY DEF fault, Bounds

LEMMA FailedKeeps ==
  ASSUME SupervisorAssumption, SupervisorInv, failed
  PROVE  SupervisorInv'
<1>. USE DEF SupervisorInv
<1>1. /\ op \in Ops /\ op.at = "launch" /\ memory \in Memory /\ state \in State
      /\ tmux \in [live : BOOLEAN, context : Nat] /\ bounds \in Bounds
  BY DEF TypeInv, failed, At
<1>2. /\ op' \in Ops /\ op'.at = "end" /\ op'.kind = op.kind /\ op'.cancelled = op.cancelled
      /\ op'.ok = op.ok /\ op'.target = op.target
  BY <1>1, Moved DEF failed, Points
<1>3. /\ UNCHANGED <<owner, calls, foreground, acted, report, memory, audits, runner, prompted>>
      /\ file' = NoProposal
      /\ tmux' \in [live : BOOLEAN, context : Nat] /\ tmux'.context = tmux.context
  <2>1. op.cancelled \in BOOLEAN /\ tmux.live \in BOOLEAN
    BY <1>1 DEF Ops
  <2>. QED  BY <1>1, <2>1 DEF failed
<1>4. /\ state' \in State /\ state'.handled = state.handled
      /\ state'.consumed = state.consumed /\ state'.binding = state.binding
      /\ state'.resolution = state.resolution
  <2>1. state' = [kept(state) EXCEPT !.state = "degraded", !.backoff = TRUE]
    BY DEF failed
  <2>. QED  BY <1>1, <2>1, KeptState DEF State
<1>5. bounds' \in Bounds /\ bounds'.proposals = bounds.proposals
  BY <1>1, Faulted DEF failed
<1>6. TypeInv'
  BY <1>2, <1>3, <1>4, <1>5, Records DEF TypeInv
<1>7. TokenInv'
  BY <1>1, <1>2, <1>3 DEF TokenInv, Free
<1>8. ReportInv'
  BY <1>2, <1>3, ReportFrame
<1>9. PromptInv'
  BY <1>2, <1>3, <1>4, PromptFrame DEF Holds, Wakes
<1>10. ProposalInv'
  BY <1>3, <1>4, <1>5, ProposalFrame DEF NoProposal
<1>. QED  BY <1>6, <1>7, <1>8, <1>9, <1>10

-----------------------------------------------------------------------------
(* Audits *)

\* What a dead daemon left running has failed once the report was checked.
LEMMA Checked ==
  ASSUME report \in Reports, report' = failStaleAudit, memory \in Memory
  PROVE  /\ report' \in Reports /\ report'.context = report.context
         /\ report'.state \in {report.state, "failed"}
         /\ report'.state = "running" => memory.checked /\ report.state = "running"
BY Invalidated DEF failStaleAudit

LEMMA LaunchAuditKeeps ==
  ASSUME SupervisorAssumption, SupervisorInv, launchAudit
  PROVE  SupervisorInv'
<1>. USE DEF SupervisorInv
<1>1. /\ op \in Ops /\ op.at = "audit" /\ memory \in Memory /\ state \in State
      /\ tmux \in [live : BOOLEAN, context : Nat] /\ report \in Reports
      /\ audits \subseteq Audit /\ op.kind \in {"observe", "investigate"}
  BY DEF TypeInv, TokenInv, launchAudit, At
<1>2. /\ op' \in Ops /\ op'.at = "end" /\ op'.kind = op.kind /\ op'.cancelled = op.cancelled
      /\ op'.ok = op.ok /\ op'.target = op.target
  BY <1>1, Moved DEF launchAudit, Points
<1>3. UNCHANGED <<owner, calls, foreground, acted, bounds, file, tmux, runner, prompted>>
  BY DEF launchAudit, outside
<1>4. CASE memory.stopped
  <2>1. /\ memory' = withoutAudit /\ report' = invalidated(report, FALSE) /\ audits' = audits
        /\ state' = IF op.kind # "observe" THEN state
                    ELSE [state EXCEPT !.known = op.last.known, !.seen = op.last.seen]
    BY <1>4 DEF launchAudit, withoutAudit
  <2>2. op.last.known \in BOOLEAN /\ op.last.seen \in Projections
    BY <1>1 DEF Ops
  <2>3. /\ state' \in State /\ state'.handled = state.handled
        /\ state'.consumed = state.consumed /\ state'.binding = state.binding
        /\ state'.resolution = state.resolution
    BY <1>1, <2>1, <2>2 DEF State
  <2>4. memory' \in Memory /\ memory'.known = memory.known
        /\ memory'.projection = memory.projection /\ memory'.stopped = memory.stopped
        /\ memory'.checked = memory.checked
    BY <1>1, <2>1, WithoutAudit
  <2>5. report' \in Reports /\ report'.context = report.context
        /\ report'.state \in {report.state, "failed"} /\ report'.state # "running"
    BY <1>1, <2>1, Invalidated
  <2>6. TypeInv'
    BY <1>2, <1>3, <2>1, <2>3, <2>4, <2>5 DEF TypeInv
  <2>7. TokenInv'
    BY <1>1, <1>2, <1>3, <1>4, <2>4 DEF TokenInv, Free
  <2>8. ReportInv'
    BY <1>1, <1>2, <1>3, <2>1, <2>5 DEF ReportInv, At
  <2>9. PromptInv'
    BY <1>2, <1>3, <2>3, <2>4, PromptFrame DEF Holds, Wakes
  <2>10. ProposalInv'
    BY <1>3, <2>3, ProposalFrame
  <2>. QED  BY <2>6, <2>7, <2>8, <2>9, <2>10
<1>5. CASE ~memory.stopped
  <2>. DEFINE manual == op.kind = "investigate"
              item == IF manual THEN <<op.target, memory.projection[op.target]>> ELSE NoItem
              new == [current |-> TRUE, context |-> tmux.context, manual |-> manual,
                      seen |-> memory.projection]
  <2>1. /\ memory' = [memory EXCEPT !.manual = item] /\ audits' = superseded \cup {new}
        /\ UNCHANGED <<report, state>>
    BY <1>5 DEF launchAudit
  <2>2. item \in {NoItem} \cup Items
    <3>1. CASE manual
      <4>1. op.target \in Attempts /\ memory.projection \in Projections
        BY <1>1, <3>1 DEF TokenInv, Memory
      <4>. QED  BY <3>1, <4>1 DEF Projections, Items
    <3>. QED  BY <3>1
  <2>3. new \in Audit /\ new.context = tmux.context
    BY <1>1 DEF Audit, Memory
  <2>. HIDE DEF item, new
  <2>4. memory' \in Memory /\ memory'.known = memory.known /\ memory'.audit = memory.audit
        /\ memory'.projection = memory.projection /\ memory'.stopped = memory.stopped
        /\ memory'.checked = memory.checked
    BY <1>1, <2>1, <2>2 DEF Memory
  <2>5. \A a \in audits' : a \in Audit /\ (a.current => a.context = tmux.context)
    BY <1>1, <2>1, <2>3, Superseded
  <2>6. TypeInv'
    BY <1>2, <1>3, <2>1, <2>4, <2>5 DEF TypeInv
  <2>7. TokenInv'
    BY <1>1, <1>2, <1>3, <1>5, <2>4 DEF TokenInv
  <2>8. ReportInv'
    BY <1>1, <1>2, <1>3, <2>1, <2>4, <2>5 DEF ReportInv, At
  <2>9. PromptInv'
    BY <1>2, <1>3, <2>1, <2>4, PromptFrame DEF Holds, Wakes
  <2>10. ProposalInv'
    BY <1>3, <2>1, ProposalFrame
  <2>. QED  BY <2>6, <2>7, <2>8, <2>9, <2>10
<1>. QED  BY <1>4, <1>5

LEMMA PublishKeeps ==
  ASSUME SupervisorAssumption, SupervisorInv, publish
  PROVE  SupervisorInv'
<1>. USE DEF SupervisorInv
<1>1. /\ op \in Ops /\ op.at = "publish" /\ op.kind = "audit" /\ memory \in Memory
      /\ op.audit \in Audit /\ op.audit.context = tmux.context /\ report \in Reports
  BY DEF TypeInv, TokenInv, ReportInv, publish, At, Ops
<1>2. UNCHANGED <<owner, calls, foreground, acted, bounds, file, tmux, audits, runner,
                  prompted, state, memory>>
  BY DEF publish, machine, outside
<1>3. /\ op' \in Ops /\ op'.at \in {"handoff", "end"} /\ op'.kind = op.kind
      /\ op'.cancelled = op.cancelled
  <2>1. CASE op.cancelled
    BY <1>1, <2>1, Moved DEF publish, Points
  <2>2. CASE ~op.cancelled
    <3>1. PICK p \in {"handoff", "end"} : op' = [op EXCEPT !.ok = TRUE, !.at = p]
      BY <2>2 DEF publish
    <3>2. p \in Points
      BY DEF Points
    <3>. QED  BY <1>1, <3>1, <3>2 DEF Ops
  <2>. QED  BY <2>1, <2>2
<1>4. /\ report' \in Reports /\ (report'.state = "completed" => report'.context = tmux.context)
      /\ \/ op.cancelled /\ report' = report /\ op'.ok = op.ok /\ op'.at = "end"
         \/ report'.state # "running"
  <2>1. CASE op.cancelled
    BY <1>1, <2>1, Moved DEF TypeInv, ReportInv, publish, Points
  <2>2. CASE ~op.cancelled
    BY <1>1, <2>2 DEF publish, Reports, Audit
  <2>. QED  BY <2>1, <2>2
<1>5. TypeInv'
  BY <1>2, <1>3, <1>4 DEF TypeInv
<1>6. TokenInv'
  BY <1>1, <1>2, <1>3 DEF TokenInv, Free
<1>7. ReportInv'
  BY <1>1, <1>2, <1>3, <1>4 DEF ReportInv, At
<1>8. PromptInv'
  BY <1>2, <1>3, PromptFrame DEF Holds, Wakes
<1>9. ProposalInv'
  BY <1>2, ProposalFrame
<1>. QED  BY <1>5, <1>6, <1>7, <1>8, <1>9

LEMMA InvestigateChecksKeeps ==
  ASSUME SupervisorAssumption, SupervisorInv, investigateChecks
  PROVE  SupervisorInv'
<1>. USE DEF SupervisorInv
<1>1. /\ op \in Ops /\ op.at = "check" /\ op.kind = "investigate" /\ memory \in Memory
      /\ report \in Reports
  BY DEF TypeInv, investigateChecks, Holds
<1>2. UNCHANGED <<owner, calls, foreground, acted, bounds, file, tmux, audits, runner,
                  prompted, state>>
  BY DEF investigateChecks, machine, outside
<1>0. PICK a \in Attempts, p \in {"recover", "end"} :
        op' = [op EXCEPT !.at = p, !.target = a]
  BY DEF investigateChecks
<1>3. /\ op' \in Ops /\ op'.at = p /\ op'.kind = op.kind /\ op'.cancelled = op.cancelled
      /\ op'.ok = op.ok /\ op'.target = a
  <2>1. p \in Points /\ a \in 0..MaxAttempts
    BY DEF Points, Attempts, SupervisorAssumption
  <2>. QED  BY <1>1, <1>0, <2>1 DEF Ops
<1>4. /\ memory' \in Memory /\ memory'.known = memory.known /\ memory'.audit = memory.audit
      /\ memory'.projection = memory.projection /\ memory'.stopped = memory.stopped
      /\ memory'.checked
  BY <1>1 DEF investigateChecks, Memory
<1>5. /\ report' \in Reports /\ report'.context = report.context
      /\ report'.state \in {report.state, "failed"}
      /\ report'.state = "running" => memory.checked /\ report.state = "running"
  BY <1>1, Checked DEF investigateChecks
<1>6. TypeInv'
  BY <1>2, <1>3, <1>4, <1>5 DEF TypeInv
<1>7. TokenInv'
  BY <1>1, <1>2, <1>3, <1>4 DEF TokenInv, Free
<1>8. ReportInv'
  BY <1>1, <1>2, <1>3, <1>4, <1>5 DEF ReportInv, At
<1>9. PromptInv'
  BY <1>2, <1>3, <1>4, PromptFrame DEF Holds, Wakes
<1>10. ProposalInv'
  BY <1>2, ProposalFrame
<1>. QED  BY <1>6, <1>7, <1>8, <1>9, <1>10

LEMMA SupersedeAuditKeeps ==
  ASSUME SupervisorAssumption, SupervisorInv, supersedeAudit
  PROVE  SupervisorInv'
<1>. USE DEF SupervisorInv
<1>1. /\ op \in Ops /\ op.at = "supersede" /\ op.kind = "investigate" /\ memory.checked
      /\ memory \in Memory /\ report \in Reports /\ audits \subseteq Audit
  BY DEF TypeInv, TokenInv, supersedeAudit, At
<1>2. UNCHANGED <<owner, calls, foreground, acted, bounds, file, tmux, runner, prompted,
                  state>>
  BY DEF supersedeAudit, outside
<1>0. PICK p \in {"end", "prepare"} : To(p)
  BY DEF supersedeAudit
<1>3. /\ op' \in Ops /\ op'.at = p /\ op'.kind = op.kind /\ op'.cancelled = op.cancelled
      /\ op'.ok = op.ok /\ op'.target = op.target
  BY <1>1, <1>0, Moved DEF Points
<1>4. CASE sameManualAudit \/ ~Audits
  <2>1. UNCHANGED <<memory, report, audits>>
    BY <1>4 DEF supersedeAudit
  <2>2. TypeInv'
    BY <1>2, <1>3, <2>1 DEF TypeInv
  <2>3. TokenInv'
    BY <1>1, <1>2, <1>3, <2>1 DEF TokenInv, Free
  <2>4. ReportInv'
    BY <1>2, <1>3, <2>1, ReportFrame
  <2>5. PromptInv'
    BY <1>2, <1>3, <2>1, PromptFrame DEF Holds, Wakes
  <2>6. ProposalInv'
    BY <1>2, ProposalFrame
  <2>. QED  BY <2>2, <2>3, <2>4, <2>5, <2>6
<1>5. CASE ~(sameManualAudit \/ ~Audits)
  <2>1. /\ memory' = withoutAudit /\ audits' = superseded
        /\ report' = IF memory.audit THEN invalidated(report, FALSE) ELSE report
    BY <1>5 DEF supersedeAudit
  <2>2. memory' \in Memory /\ memory'.known = memory.known
        /\ memory'.projection = memory.projection /\ memory'.stopped = memory.stopped
        /\ memory'.checked = memory.checked
    BY <1>1, <2>1, WithoutAudit
  <2>3. \A a \in audits' : a \in Audit /\ ~a.current
    BY <1>1, <2>1, Superseded
  <2>4. /\ report' \in Reports /\ report'.context = report.context
        /\ report'.state \in {report.state, "failed"}
        /\ report'.state = "running" => ~memory.audit /\ report.state = "running"
    BY <1>1, <2>1, Invalidated
  <2>5. TypeInv'
    BY <1>2, <1>3, <2>2, <2>3, <2>4 DEF TypeInv
  <2>6. TokenInv'
    BY <1>1, <1>2, <1>3, <2>2 DEF TokenInv, Free
  <2>7. ReportInv'
    BY <1>1, <1>2, <1>3, <2>2, <2>3, <2>4 DEF ReportInv, At
  <2>8. PromptInv'
    BY <1>2, <1>3, <2>2, PromptFrame DEF Holds, Wakes
  <2>9. ProposalInv'
    BY <1>2, ProposalFrame
  <2>. QED  BY <2>5, <2>6, <2>7, <2>8, <2>9
<1>. QED  BY <1>4, <1>5

LEMMA InvestigatePreparesKeeps ==
  ASSUME SupervisorAssumption, SupervisorInv, investigatePrepares
  PROVE  SupervisorInv'
<1>. USE DEF SupervisorInv
<1>1. /\ op \in Ops /\ op.at = "prepare" /\ op.kind = "investigate" /\ memory \in Memory
      /\ tmux \in [live : BOOLEAN, context : Nat]
  BY DEF TypeInv, TokenInv, investigatePrepares, At
<1>2. UNCHANGED <<owner, calls, foreground, acted, bounds, file, tmux, audits, runner,
                  prompted, state>>
  BY DEF investigatePrepares, machine, outside
<1>3. /\ op' \in Ops /\ op'.at = "audit" /\ op'.kind = op.kind
      /\ op'.cancelled = op.cancelled /\ op'.ok = op.ok /\ op'.target = op.target
  BY <1>1, Moved DEF investigatePrepares, Points
<1>4. /\ memory' \in Memory /\ memory'.known = memory.known /\ memory'.audit
      /\ memory'.projection = memory.projection /\ memory'.stopped = memory.stopped
      /\ memory'.checked = memory.checked
  BY <1>1 DEF investigatePrepares, Memory
<1>5. report' \in Reports /\ report'.state = "running"
  BY <1>1 DEF investigatePrepares, prepareAudit, Reports
<1>6. TypeInv'
  BY <1>2, <1>3, <1>4, <1>5 DEF TypeInv
<1>7. TokenInv'
  BY <1>1, <1>2, <1>3, <1>4 DEF TokenInv, Free
<1>8. ReportInv'
  BY <1>1, <1>2, <1>3, <1>4, <1>5 DEF ReportInv, At
<1>9. PromptInv'
  BY <1>2, <1>3, <1>4, PromptFrame DEF Holds, Wakes
<1>10. ProposalInv'
  BY <1>2, ProposalFrame
<1>. QED  BY <1>6, <1>7, <1>8, <1>9, <1>10

-----------------------------------------------------------------------------
(* Observation *)

LEMMA ObserveCycleKeeps ==
  ASSUME SupervisorAssumption, SupervisorInv, observeCycle
  PROVE  SupervisorInv'
<1>. USE DEF SupervisorInv
<1>1. op = Free /\ ~memory.stopped /\ owner.shows \in Projections
  BY DEF TypeInv, Owners, observeCycle, available
<1>2. UNCHANGED <<owner, calls, foreground, acted, bounds, file, tmux, audits, runner,
                  prompted, state, report, memory>>
  BY DEF observeCycle, machine, outside
<1>3. /\ op' \in Ops /\ op'.at = "check" /\ op'.kind = "observe" /\ op'.seen = owner.shows
  <2>1. Free \in Ops /\ "check" \in Points /\ "observe" \in OpKinds
    BY Records DEF Points, OpKinds
  <2>. QED  BY <1>1, <2>1 DEF observeCycle, Ops
<1>4. TypeInv'
  BY <1>2, <1>3 DEF TypeInv
<1>5. TokenInv'
  BY <1>1, <1>2, <1>3 DEF TokenInv
<1>6. ReportInv'
  BY <1>2, <1>3, ReportFrame
<1>7. PromptInv'
  BY <1>2, <1>3 DEF PromptInv, Holds, At, Wakes
<1>8. ProposalInv'
  BY <1>2, ProposalFrame
<1>. QED  BY <1>4, <1>5, <1>6, <1>7, <1>8

LEMMA ObserveChecksKeeps ==
  ASSUME SupervisorAssumption, SupervisorInv, observeChecks
  PROVE  SupervisorInv'
<1>. USE DEF SupervisorInv
<1>1. /\ op \in Ops /\ op.at = "check" /\ op.kind = "observe" /\ memory \in Memory
      /\ report \in Reports /\ Holds("observe", "check")
      /\ op.seen \in Projections
  BY DEF TypeInv, observeChecks, Holds, Ops
<1>2. UNCHANGED <<owner, calls, foreground, acted, bounds, file, tmux, audits, runner,
                  prompted, state>>
  BY DEF observeChecks, machine, outside
<1>3. /\ op' \in Ops /\ op'.at = "recover" /\ op'.kind = op.kind
      /\ op'.cancelled = op.cancelled /\ op'.ok = op.ok
  BY <1>1, Records DEF observeChecks, Ops, Points
<1>4. /\ memory' \in Memory /\ memory'.known /\ memory'.audit = memory.audit
      /\ memory'.projection = op.seen /\ memory'.stopped = memory.stopped
      /\ memory'.checked
  BY <1>1 DEF observeChecks, Memory
<1>5. /\ report' \in Reports /\ report'.context = report.context
      /\ report'.state \in {report.state, "failed"}
      /\ report'.state = "running" => memory.checked /\ report.state = "running"
  BY <1>1, Checked DEF observeChecks
<1>6. TypeInv'
  BY <1>2, <1>3, <1>4, <1>5 DEF TypeInv
<1>7. TokenInv'
  BY <1>1, <1>2, <1>3, <1>4 DEF TokenInv, Free
<1>8. ReportInv'
  BY <1>1, <1>2, <1>3, <1>4, <1>5 DEF ReportInv, At
<1>9. PromptInv'
  BY <1>1, <1>2, <1>3, <1>4 DEF PromptInv, Holds, At, Wakes
<1>10. ProposalInv'
  BY <1>2, ProposalFrame
<1>. QED  BY <1>6, <1>7, <1>8, <1>9, <1>10

LEMMA ScheduleKeeps ==
  ASSUME SupervisorAssumption, SupervisorInv, schedule
  PROVE  SupervisorInv'
<1>. USE DEF SupervisorInv
<1>1. /\ op \in Ops /\ op.at = "schedule" /\ op.kind = "observe" /\ memory \in Memory
      /\ report \in Reports /\ tmux \in [live : BOOLEAN, context : Nat] /\ state \in State
  BY DEF TypeInv, TokenInv, schedule, At
<1>2. UNCHANGED <<owner, calls, foreground, acted, bounds, file, tmux, audits, runner,
                  prompted, state>>
  BY DEF schedule, machine, outside
<1>0. PICK audit \in BOOLEAN :
        /\ op' = [op EXCEPT !.at = "write", !.ok = audit,
                            !.last = [known |-> state.known, seen |-> state.seen]]
        /\ memory' = [memory EXCEPT !.audit = @ \/ audit]
        /\ IF audit THEN prepareAudit ELSE UNCHANGED report
  <2>1. PICK due \in BOOLEAN :
          LET audit == Audits /\ ~memory.audit /\ (changed \/ due)
          IN  /\ op' = [op EXCEPT !.at = "write", !.ok = audit,
                                  !.last = [known |-> state.known, seen |-> state.seen]]
              /\ memory' = [memory EXCEPT !.audit = @ \/ audit]
              /\ IF audit THEN prepareAudit ELSE UNCHANGED report
    BY DEF schedule
  <2>2. (Audits /\ ~memory.audit /\ (changed \/ due)) \in BOOLEAN
    OBVIOUS
  <2>. QED  BY <2>1, <2>2, Zenon
<1>3. /\ op' \in Ops /\ op'.at = "write" /\ op'.kind = op.kind
      /\ op'.cancelled = op.cancelled
  <2>1. [known |-> state.known, seen |-> state.seen] \in [known : BOOLEAN, seen : Projections]
    BY <1>1 DEF State
  <2>2. "write" \in Points
    BY DEF Points
  <2>. QED  BY <1>1, <1>0, <2>1, <2>2 DEF Ops
<1>4. /\ memory' \in Memory /\ memory'.known = memory.known
      /\ memory'.audit = (memory.audit \/ audit)
      /\ memory'.projection = memory.projection /\ memory'.stopped = memory.stopped
      /\ memory'.checked = memory.checked
  BY <1>1, <1>0 DEF Memory
<1>5. /\ report' \in Reports
      /\ report' = report \/ (audit /\ report'.state = "running")
  BY <1>1, <1>0 DEF prepareAudit, Reports
<1>6. TypeInv'
  BY <1>2, <1>3, <1>4, <1>5 DEF TypeInv
<1>7. TokenInv'
  BY <1>1, <1>2, <1>3, <1>4 DEF TokenInv, Free
<1>8. ReportInv'
  BY <1>1, <1>2, <1>3, <1>4, <1>5 DEF ReportInv, At
<1>9. PromptInv'
  BY <1>2, <1>3, <1>4, PromptFrame DEF Holds, Wakes
<1>10. ProposalInv'
  BY <1>2, ProposalFrame
<1>. QED  BY <1>6, <1>7, <1>8, <1>9, <1>10

-----------------------------------------------------------------------------
(* The attention handoff *)

\* An observation ends a handoff, or leaves it.
LEMMA ObservedType ==
  ASSUME NEW h \in Handoff, NEW p, NEW late \in BOOLEAN
  PROVE  observedHandoff(h, p, late) \in Handoff
<1>1. [h EXCEPT !.state = "human-attention"] \in Handoff
  BY DEF Handoff, Terminal
<1>2. [h EXCEPT !.state = "recovered"] \in Handoff
  BY DEF Handoff, Terminal
<1>. QED  BY <1>1, <1>2 DEF observedHandoff

LEMMA WriteStateKeeps ==
  ASSUME SupervisorAssumption, SupervisorInv, NEW late \in BOOLEAN, writeState(late)
  PROVE  SupervisorInv'
<1>. USE DEF SupervisorInv
<1>1. /\ op \in Ops /\ op.at = "write" /\ op.kind = "observe" /\ memory \in Memory
      /\ memory.checked /\ memory.known /\ state \in State /\ memory.projection \in Projections
      /\ state.handoff \in Handoff
  BY DEF TypeInv, TokenInv, writeState, At, Memory, State
<1>2. UNCHANGED <<owner, calls, foreground, acted, bounds, file, tmux, audits, runner,
                  prompted, report, memory>>
  BY DEF writeState, machine, outside
<1>0. PICK p \in {"audit", "handoff", "end"} :
        To(p) /\ (p = "handoff" => ~memory.audit)
  BY DEF writeState
<1>3. /\ op' \in Ops /\ op'.at = p /\ op'.kind = op.kind
      /\ op'.cancelled = op.cancelled /\ op'.ok = op.ok
  BY <1>1, <1>0, Moved DEF Points
<1>4. PICK h \in Handoff, known \in BOOLEAN, seen \in Projections :
        state' = [state EXCEPT !.handled = {i \in @ : memory.projection[i[1]] = i[2]},
                               !.handoff = h, !.known = known, !.seen = seen]
  <2>. DEFINE b == (op.ok \/ ~Audits) /\ changed
              h == observedHandoff(state.handoff, memory.projection, late)
              known == state.known \/ b
              seen == IF b THEN memory.projection ELSE state.seen
  <2>1. state' = [state EXCEPT !.handled = {i \in @ : memory.projection[i[1]] = i[2]},
                               !.handoff = h, !.known = known, !.seen = seen]
    BY DEF writeState
  <2>2. h \in Handoff
    BY <1>1, ObservedType
  <2>3. known \in BOOLEAN /\ seen \in Projections
    BY <1>1 DEF State
  <2>. HIDE DEF h, known, seen
  <2>. QED  BY <2>1, <2>2, <2>3
<1>5. /\ state' \in State
      /\ state'.handled = {i \in state.handled : memory.projection[i[1]] = i[2]}
      /\ state'.consumed = state.consumed /\ state'.binding = state.binding
      /\ state'.resolution = state.resolution
  BY <1>1, <1>4 DEF State
<1>6. TypeInv'
  BY <1>2, <1>3, <1>5 DEF TypeInv
<1>7. TokenInv'
  BY <1>1, <1>2, <1>3 DEF TokenInv, Free
<1>8. ReportInv'
  <2>1. p = "handoff" /\ ~op.cancelled => report.state # "running"
    BY <1>0, <1>1 DEF ReportInv, TokenInv, Free
  <2>. QED  BY <1>1, <1>2, <1>3, <2>1 DEF ReportInv, At
<1>9. PromptInv'
  <2>1. \A i \in prompted.targets : i \in state'.handled
    BY <1>1, <1>5 DEF PromptInv
  <2>. QED  BY <1>2, <1>3, <2>1 DEF PromptInv, Holds, At, Wakes
<1>10. ProposalInv'
  BY <1>2, <1>5, ProposalFrame
<1>. QED  BY <1>6, <1>7, <1>8, <1>9, <1>10

LEMMA StartAttentionHandoffKeeps ==
  ASSUME SupervisorAssumption, SupervisorInv, startAttentionHandoff
  PROVE  SupervisorInv'
<1>. USE DEF SupervisorInv
<1>1. /\ op \in Ops /\ op.at = "handoff" /\ memory \in Memory /\ state \in State
      /\ memory.projection \in Projections
  BY DEF TypeInv, startAttentionHandoff, At, Memory
<1>2. UNCHANGED <<owner, calls, foreground, acted, bounds, file, tmux, audits, runner,
                  prompted, report, memory>>
  BY DEF startAttentionHandoff, machine, outside
<1>. DEFINE able == state.state = "running" /\ ended(state.handoff)
                    /\ unhandled(memory.projection) # {} /\ ~(op.kind = "audit" /\ op.cancelled)
            a == Min(unhandled(memory.projection))
<1>3. CASE ~able
  <2>1. To("end") /\ UNCHANGED state
    BY <1>3 DEF startAttentionHandoff
  <2>2. /\ op' \in Ops /\ op'.at = "end" /\ op'.kind = op.kind
        /\ op'.cancelled = op.cancelled /\ op'.ok = op.ok /\ op'.target = op.target
    BY <1>1, <2>1, Moved DEF Points
  <2>3. TypeInv'
    BY <1>2, <2>1, <2>2 DEF TypeInv
  <2>4. TokenInv'
    BY <1>1, <1>2, <2>2 DEF TokenInv, Free
  <2>5. ReportInv'
    BY <1>2, <2>2, ReportFrame
  <2>6. PromptInv'
    BY <1>2, <2>1, <2>2, PromptFrame DEF Holds, Wakes
  <2>7. ProposalInv'
    BY <1>2, <2>1, ProposalFrame
  <2>. QED  BY <2>3, <2>4, <2>5, <2>6, <2>7
<1>4. CASE able
  <2>1. a \in unhandled(memory.projection)
    <3>1. unhandled(memory.projection) \subseteq Nat /\ unhandled(memory.projection) # {}
      BY <1>4 DEF unhandled, Attempts
    <3>. QED  BY <3>1, LeastNatural
  <2>2. /\ state' = [state EXCEPT !.handoff = Waking(a),
                                  !.handled = @ \cup {<<a, memory.projection[a]>>}]
        /\ To("paste")
    BY <1>4 DEF startAttentionHandoff
  <2>. HIDE DEF a
  <2>3. a \in Attempts /\ <<a, memory.projection[a]>> \notin state.handled
    BY <2>1 DEF unhandled
  <2>4. <<a, memory.projection[a]>> \in Items /\ Waking(a) \in Handoff
        /\ Waking(a).attempt = a /\ Waking(a).seen = memory.projection
    <3>1. a \in 0..MaxAttempts /\ memory.projection[a] \in Statuses
      BY <1>1, <2>3 DEF Attempts, Projections, SupervisorAssumption
    <3>. QED  BY <1>1, <2>3, <3>1 DEF Items, Waking, Handoff
  <2>5. /\ state' \in State /\ state'.handoff = Waking(a)
        /\ state'.handled = state.handled \cup {<<a, memory.projection[a]>>}
        /\ state'.consumed = state.consumed /\ state'.binding = state.binding
        /\ state'.resolution = state.resolution
    BY <1>1, <2>2, <2>4 DEF State
  <2>6. /\ op' \in Ops /\ op'.at = "paste" /\ op'.kind = op.kind
        /\ op'.cancelled = op.cancelled /\ op'.ok = op.ok
    BY <1>1, <2>2, Moved DEF Points
  <2>7. TypeInv'
    BY <1>2, <2>5, <2>6 DEF TypeInv
  <2>8. TokenInv'
    BY <1>1, <1>2, <2>6 DEF TokenInv, Free
  <2>9. ReportInv'
    BY <1>1, <1>2, <2>6 DEF ReportInv, At
  <2>10. PromptInv'
    <3>1. Target' = <<a, memory.projection[a]>>
      BY <2>4, <2>5 DEF Target
    <3>2. Target' \in state'.handled /\ Target' \notin prompted.targets
      BY <2>3, <2>5, <3>1 DEF PromptInv
    <3>. QED  BY <1>2, <2>3, <2>4, <2>5, <2>6, <3>2 DEF PromptInv, Holds, At, Wakes
  <2>11. ProposalInv'
    BY <1>2, <2>5, ProposalFrame
  <2>. QED  BY <2>7, <2>8, <2>9, <2>10, <2>11
<1>. QED  BY <1>3, <1>4

\* The target of a handoff that has one.
LEMMA TargetItem ==
  ASSUME state \in State, state.handoff.attempt \in Attempts
  PROVE  Target \in Items /\ Target[1] = state.handoff.attempt
         /\ Target[2] = state.handoff.seen[state.handoff.attempt] /\ Trouble \in Troubles
<1>1. state.handoff.seen \in Projections
  BY DEF State, Handoff
<1>2. Target \in Items /\ Target[1] = state.handoff.attempt
      /\ Target[2] = state.handoff.seen[state.handoff.attempt] /\ Target[2] \in Statuses
  BY <1>1 DEF Target, Items, Projections
<1>. QED  BY <1>2 DEF Trouble, Troubles, Statuses

LEMMA PasteKeeps ==
  ASSUME SupervisorAssumption, SupervisorInv, paste
  PROVE  SupervisorInv'
<1>. USE DEF SupervisorInv
<1>1. /\ op \in Ops /\ op.at = "paste" /\ ~op.cancelled /\ state \in State
      /\ state.handoff.attempt \in Attempts /\ state.handoff.seen = memory.projection
      /\ Target \in state.handled
  BY DEF TypeInv, PromptInv, paste, reachable, At, Wakes
<1>2. UNCHANGED <<owner, calls, foreground, acted, bounds, file, tmux, audits, runner,
                  state, report, memory>>
  BY DEF paste, outside
<1>3. /\ op' \in Ops /\ op'.at = "enter" /\ op'.kind = op.kind
      /\ op'.cancelled = op.cancelled /\ op'.ok = op.ok
  BY <1>1, Moved DEF paste, Points
<1>4. /\ \A i \in prompted'.targets : \/ i \in prompted.targets
                                      \/ i = Target /\ owner.shows[i[1]] = i[2]
      /\ prompted'.targets \subseteq prompted.targets \cup {Target}
      /\ prompted' = [prompted EXCEPT !.targets = prompted'.targets]
  <2>1. /\ prompted \in Prompts
        /\ prompted' = [prompted EXCEPT !.targets = @ \cup StillShown({Target}, owner)]
    BY DEF TypeInv, paste
  <2>2. prompted'.targets = prompted.targets \cup StillShown({Target}, owner)
    BY <2>1 DEF Prompts
  <2>. QED  BY <2>1, <2>2 DEF StillShown
<1>5. Target \in Items /\ memory.projection[Target[1]] = Target[2]
  BY <1>1, TargetItem
<1>6. TypeInv'
  <2>1. prompted' \in Prompts
    BY <1>4, <1>5 DEF TypeInv, Prompts
  <2>. QED  BY <1>2, <1>3, <2>1 DEF TypeInv
<1>7. TokenInv'
  BY <1>1, <1>2, <1>3 DEF TokenInv, Free
<1>8. ReportInv'
  BY <1>1, <1>2, <1>3 DEF ReportInv, At
<1>9. PromptInv'
  <2>1. \A i \in prompted'.targets : owner.shows[i[1]] = i[2] /\ i \in state.handled
    BY <1>1, <1>4 DEF PromptInv
  <2>2. memory.known => \A i \in prompted'.targets : memory.projection[i[1]] = i[2]
    BY <1>4, <1>5 DEF PromptInv
  <2>. QED  BY <1>1, <1>2, <1>3, <2>1, <2>2 DEF PromptInv, Holds, At, Wakes
<1>10. ProposalInv'
  BY <1>2, ProposalFrame
<1>. QED  BY <1>6, <1>7, <1>8, <1>9, <1>10

LEMMA EnterKeeps ==
  ASSUME SupervisorAssumption, SupervisorInv, enter \/ wakeFails
  PROVE  SupervisorInv'
<1>. USE DEF SupervisorInv
<1>1. /\ op \in Ops /\ op.at \in {"paste", "enter"} /\ bounds \in Bounds
      /\ state.handoff.attempt \in Attempts
  BY DEF TypeInv, PromptInv, enter, wakeFails, At, Wakes
<1>2. UNCHANGED <<owner, calls, foreground, acted, file, tmux, audits, runner, prompted,
                  state, report, memory>>
  BY DEF enter, wakeFails, machine, outside
<1>3. bounds' \in Bounds /\ bounds'.proposals = bounds.proposals
  BY <1>1, Faulted DEF enter, wakeFails, outside
<1>0. PICK p \in {"woken", "unwoken"} : To(p)
  BY DEF enter, wakeFails
<1>4. /\ op' \in Ops /\ op'.at = p /\ op'.kind = op.kind
      /\ op'.cancelled = op.cancelled /\ op'.ok = op.ok /\ op'.target = op.target
  BY <1>1, <1>0, Moved DEF Points
<1>5. TypeInv'
  BY <1>2, <1>3, <1>4 DEF TypeInv
<1>6. TokenInv'
  BY <1>1, <1>2, <1>4 DEF TokenInv, Free
<1>7. ReportInv'
  BY <1>2, <1>4, ReportFrame
<1>8. PromptInv'
  BY <1>1, <1>2, <1>4 DEF PromptInv, Holds, At, Wakes
<1>9. ProposalInv'
  BY <1>2, <1>3, ProposalFrame
<1>. QED  BY <1>5, <1>6, <1>7, <1>8, <1>9

LEMMA RecordWakeKeeps ==
  ASSUME SupervisorAssumption, SupervisorInv, recordWake
  PROVE  SupervisorInv'
<1>. USE DEF SupervisorInv
<1>1. /\ op \in Ops /\ op.at \in {"woken", "unwoken"} /\ state \in State
      /\ state.handoff.attempt \in Attempts /\ state.handoff \in Handoff
  BY DEF TypeInv, PromptInv, recordWake, Wakes, State
<1>2. UNCHANGED <<owner, calls, foreground, acted, bounds, file, tmux, audits, runner,
                  report, memory>>
  BY DEF recordWake, outside
<1>3. /\ op' \in Ops /\ op'.at = "end" /\ op'.kind = op.kind
      /\ op'.cancelled = op.cancelled /\ op'.ok = op.ok /\ op'.target = op.target
  BY <1>1, Moved DEF recordWake, Points
<1>4. PICK h \in Handoff :
        state' = [state EXCEPT !.handled = @ \cup {Target}, !.handoff = h]
  <2>1. PICK s \in {"waiting", "human-attention"} :
          state' = [state EXCEPT !.handled = @ \cup {Target}, !.handoff.state = s]
    BY DEF recordWake
  <2>2. [state.handoff EXCEPT !.state = s] \in Handoff
    BY <1>1 DEF Handoff, Terminal
  <2>. QED  BY <1>1, <2>1, <2>2 DEF State
<1>5. /\ state' \in State /\ state.handled \subseteq state'.handled
      /\ state'.consumed = state.consumed /\ state'.binding = state.binding
      /\ state'.resolution = state.resolution
  BY <1>1, <1>4, TargetItem DEF State
<1>0. prompted' \in Prompts /\ prompted'.targets = prompted.targets
  <2>1. prompted \in Prompts /\ StillWrong({Trouble}, owner) \subseteq Troubles
    BY <1>1, TargetItem DEF TypeInv, StillWrong
  <2>2. \/ prompted' = prompted
        \/ prompted' = [prompted EXCEPT !.wakes = @ \cup StillWrong({Trouble}, owner)]
    BY DEF recordWake
  <2>. QED  BY <2>1, <2>2 DEF Prompts
<1>6. TypeInv'
  BY <1>0, <1>2, <1>3, <1>5 DEF TypeInv
<1>7. TokenInv'
  BY <1>1, <1>2, <1>3 DEF TokenInv, Free
<1>8. ReportInv'
  BY <1>2, <1>3, ReportFrame
<1>9. PromptInv'
  BY <1>0, <1>2, <1>3, <1>5 DEF PromptInv, Holds, At, Wakes
<1>10. ProposalInv'
  BY <1>2, <1>5, ProposalFrame
<1>. QED  BY <1>6, <1>7, <1>8, <1>9, <1>10

-----------------------------------------------------------------------------
(* The token and the commands *)

LEMMA ReleaseKeeps ==
  ASSUME SupervisorAssumption, SupervisorInv, release
  PROVE  SupervisorInv'
<1>. USE DEF SupervisorInv
<1>1. /\ op \in Ops /\ op.at = "end" /\ memory \in Memory /\ report \in Reports
      /\ calls \in Calls /\ op.call \in {"none"} \cup Commands /\ foreground \in Seq(Waiting)
  BY DEF TypeInv, release, At, Ops
<1>2. UNCHANGED <<owner, state, acted, bounds, file, tmux, audits, runner, prompted>>
  BY DEF release, machine
<1>. DEFINE done == IF op.call = "none" THEN calls ELSE [calls EXCEPT ![op.call] = "returned"]
            next == Head(foreground)
<1>3. done \in Calls
  BY <1>1 DEF Calls
<1>4. ASSUME foreground # <<>>
      PROVE  next.call \in Commands /\ next.kind \in Kinds
  <2>1. next \in Waiting
    BY <1>1, <1>4
  <2>. HIDE DEF next
  <2>. QED  BY <2>1 DEF Waiting
<1>5. /\ op' \in Ops /\ op'.at \in {"free", "check", "recover", "stop"}
      /\ op'.kind \notin {"observe", "audit"}
      /\ op'.kind = "investigate" => op'.at = "check"
      /\ foreground = <<>> => op' = Free /\ foreground' = foreground
      /\ foreground' \in Seq(Waiting) /\ calls' \in Calls
  <2>1. CASE foreground = <<>>
    BY <1>1, <1>3, <2>1, Records DEF release
  <2>2. CASE foreground # <<>>
    <3>1. /\ op' = Granted(next.call, next.kind) /\ foreground' = Tail(foreground)
          /\ calls' = [done EXCEPT ![next.call] = "running"]
      BY <2>2 DEF release
    <3>2. foreground' \in Seq(Waiting)
      BY <1>1, <2>2, <3>1
    <3>. HIDE DEF done, next
    <3>3. calls' \in Calls
      BY <1>3, <3>1 DEF Calls
    <3>. QED  BY <1>4, <2>2, <3>1, <3>2, <3>3, GrantedOp
  <2>. QED  BY <2>1, <2>2
<1>6. /\ memory' \in Memory /\ memory'.known = memory.known
      /\ memory'.projection = memory.projection /\ memory'.stopped = memory.stopped
      /\ memory'.checked = memory.checked
      /\ report' \in Reports /\ report'.context = report.context
      /\ report'.state \in {report.state, "failed"}
      /\ report'.state = "running" /\ memory.checked /\ ~memory.stopped => memory'.audit
  <2>1. CASE op.kind # "audit"
    BY <1>1, <2>1 DEF release, ReportInv
  <2>2. CASE op.kind = "audit"
    <3>1. /\ memory' = withoutAudit
          /\ report' = IF memory.stopped \/ op.ok THEN report ELSE invalidated(report, FALSE)
      BY <2>2 DEF release, withoutAudit
    <3>2. op.ok => report.state # "running"
      BY <2>2 DEF ReportInv
    <3>. QED  BY <1>1, <3>1, <3>2, WithoutAudit, Invalidated
  <2>. QED  BY <2>1, <2>2
<1>7. TypeInv'
  BY <1>2, <1>5, <1>6 DEF TypeInv
<1>8. TokenInv'
  BY <1>5, <1>6 DEF TokenInv
<1>9. ReportInv'
  BY <1>2, <1>5, <1>6 DEF ReportInv, At
<1>10. PromptInv'
  BY <1>2, <1>5, <1>6, PromptFrame DEF Holds, Wakes
<1>11. ProposalInv'
  BY <1>2, ProposalFrame
<1>. QED  BY <1>7, <1>8, <1>9, <1>10, <1>11

LEMMA AuditEndsKeeps ==
  ASSUME SupervisorAssumption, SupervisorInv, NEW a \in audits, auditEnds(a)
  PROVE  SupervisorInv'
<1>. USE DEF SupervisorInv
<1>1. /\ op \in Ops /\ a \in Audit /\ memory \in Memory /\ Free \in Ops
      /\ audits' \subseteq audits /\ (a.current => a.context = tmux.context)
  BY Records DEF TypeInv, ReportInv, auditEnds
<1>2. UNCHANGED <<owner, calls, foreground, acted, bounds, state, report, file, tmux, runner,
                  prompted>>
  BY DEF auditEnds, outside
<1>3. CASE claims(a)
  <2>1. /\ op = Free /\ op' = [Free EXCEPT !.kind = "audit", !.at = "publish", !.audit = a]
        /\ memory' = memory /\ a.current /\ ~memory.stopped
    BY <1>3 DEF auditEnds, claims
  <2>2. /\ op' \in Ops /\ op'.kind = "audit" /\ op'.at = "publish" /\ op'.audit = a
        /\ ~op'.ok
    <3>1. "audit" \in OpKinds /\ "publish" \in Points /\ ~Free.ok
      BY DEF OpKinds, Points, Free
    <3>. QED  BY <1>1, <2>1, <3>1 DEF Ops
  <2>3. TypeInv'
    BY <1>1, <1>2, <2>1, <2>2 DEF TypeInv
  <2>4. TokenInv'
    BY <1>2, <2>1, <2>2 DEF TokenInv
  <2>5. ReportInv'
    BY <1>1, <1>2, <2>1, <2>2 DEF ReportInv, At
  <2>6. PromptInv'
    BY <1>2, <2>1, <2>2, PromptFrame DEF Holds, Wakes
  <2>7. ProposalInv'
    BY <1>2, ProposalFrame
  <2>. QED  BY <2>3, <2>4, <2>5, <2>6, <2>7
<1>4. CASE ~claims(a)
  <2>1. op' = op /\ memory' = IF a.current THEN withoutAudit ELSE memory
    BY <1>4 DEF auditEnds
  <2>2. /\ memory' \in Memory /\ memory'.known = memory.known
        /\ memory'.projection = memory.projection /\ memory'.stopped = memory.stopped
        /\ memory'.checked = memory.checked
        /\ memory.stopped \/ memory'.audit = memory.audit
    BY <1>1, <1>4, <2>1, WithoutAudit DEF claims
  <2>3. TypeInv'
    BY <1>1, <1>2, <2>1, <2>2 DEF TypeInv
  <2>4. TokenInv'
    BY <1>2, <2>1, <2>2 DEF TokenInv
  <2>5. ReportInv'
    BY <1>1, <1>2, <2>1, <2>2 DEF ReportInv, At
  <2>6. PromptInv'
    BY <1>2, <2>1, <2>2 DEF PromptInv, Holds, At, Wakes, Target
  <2>7. ProposalInv'
    BY <1>2, ProposalFrame
  <2>. QED  BY <2>3, <2>4, <2>5, <2>6, <2>7
<1>. QED  BY <1>3, <1>4

\* The commands change the token, the queue and themselves.
LEMMA CommandFrame ==
  ASSUME TypeInv, machine, UNCHANGED <<owner, state, report, memory, acted, bounds>>,
         op' \in Ops, foreground' \in Seq(Waiting), calls' \in Calls
  PROVE  TypeInv'
BY DEF TypeInv, machine

LEMMA EnqueueKeeps ==
  ASSUME SupervisorAssumption, SupervisorInv, NEW c \in Commands, enqueue(c)
  PROVE  SupervisorInv'
<1>. USE DEF SupervisorInv
<1>1. op \in Ops /\ calls \in Calls /\ foreground \in Seq(Waiting)
  BY DEF TypeInv
<1>2. /\ machine /\ UNCHANGED <<owner, state, report, memory, acted, bounds>>
      /\ UNCHANGED <<file, tmux, audits, runner, prompted>>
  BY DEF enqueue, machine
<1>3. PICK kind \in Kinds :
        IF memory.stopped
        THEN /\ calls' = [calls EXCEPT ![c] = "returned"]
             /\ UNCHANGED <<op, foreground>>
        ELSE IF op = Free
        THEN /\ op' = Granted(c, kind)
             /\ calls' = [calls EXCEPT ![c] = "running"]
             /\ UNCHANGED foreground
        ELSE /\ foreground' = Append(foreground, [call |-> c, kind |-> kind])
             /\ calls' = [calls EXCEPT ![c] = "queued"]
             /\ op' = [op EXCEPT !.cancelled = (@ \/ op.kind \in {"observe", "audit"})]
  BY DEF enqueue
<1>4. calls' \in Calls
  BY <1>1, <1>3 DEF Calls
<1>5. /\ foreground' \in Seq(Waiting)
      /\ memory.stopped => foreground' = foreground
  <2>. DEFINE w == [call |-> c, kind |-> kind]
  <2>1. w \in Waiting
    BY DEF Waiting
  <2>2. foreground' \in {foreground, Append(foreground, w)}
    BY <1>3
  <2>. HIDE DEF w
  <2>3. foreground' \in Seq(Waiting)
    BY <1>1, <2>1, <2>2
  <2>. QED  BY <1>3, <2>3
<1>6. /\ op' \in Ops
      /\ \/ op' = op
         \/ op = Free /\ ~memory.stopped /\ op'.at \in {"check", "recover", "stop"}
              /\ op'.kind \notin {"observe", "audit"}
              /\ (op'.kind = "investigate" => op'.at = "check")
         \/ ~memory.stopped /\ op'.at = op.at /\ op'.kind = op.kind /\ op'.ok = op.ok
              /\ op'.seen = op.seen /\ op'.audit = op.audit /\ op'.target = op.target
              /\ (op.cancelled => op'.cancelled)
  <2>1. CASE memory.stopped
    BY <1>1, <1>3, <2>1
  <2>2. CASE ~memory.stopped /\ op = Free
    BY <1>3, <2>2, GrantedOp
  <2>3. CASE ~memory.stopped /\ op # Free
    <3>1. PICK b \in BOOLEAN : op' = [op EXCEPT !.cancelled = (@ \/ b)]
      BY <1>3, <2>3
    <3>. QED  BY <1>1, <2>3, <3>1 DEF Ops
  <2>. QED  BY <2>1, <2>2, <2>3
<1>7. TypeInv'
  BY <1>2, <1>4, <1>5, <1>6, CommandFrame
<1>8. TokenInv'
  BY <1>2, <1>5, <1>6 DEF TokenInv
<1>9. ReportInv'
  BY <1>2, <1>6 DEF ReportInv, At
<1>10. PromptInv'
  BY <1>2, <1>6 DEF PromptInv, Holds, At, Wakes, Target
<1>11. ProposalInv'
  BY <1>2, ProposalFrame
<1>. QED  BY <1>7, <1>8, <1>9, <1>10, <1>11

LEMMA ContextEndsKeeps ==
  ASSUME SupervisorAssumption, SupervisorInv, NEW c \in Commands, contextEnds(c)
  PROVE  SupervisorInv'
<1>. USE DEF SupervisorInv
<1>1. op \in Ops /\ calls \in Calls /\ foreground \in Seq(Waiting)
  BY DEF TypeInv
<1>2. /\ machine /\ UNCHANGED <<owner, state, report, memory, acted, bounds>>
      /\ UNCHANGED <<file, tmux, audits, runner, prompted>>
  BY DEF contextEnds, machine
<1>3. CASE calls[c] = "queued" /\ UNCHANGED op
  <2>1. PICK i \in 1..Len(foreground) : foreground' = RemoveAt(foreground, i)
    BY <1>3 DEF contextEnds
  <2>2. calls' = [calls EXCEPT ![c] = "returned"]
    BY <1>3 DEF contextEnds
  <2>3. calls' \in Calls
    BY <1>1, <2>2 DEF Calls
  <2>4. foreground' \in Seq(Waiting)
    BY <1>1, <2>1, RemoveAtShortens
  <2>5. TypeInv'
    BY <1>1, <1>2, <1>3, <2>3, <2>4, CommandFrame
  <2>6. TokenInv'
    <3>1. foreground # <<>>
      BY <1>1, <2>1
    <3>. QED  BY <1>2, <1>3, <3>1 DEF TokenInv
  <2>7. ReportInv' /\ PromptInv'
    BY <1>2, <1>3 DEF ReportInv, PromptInv, Holds, At, Wakes, Target
  <2>8. ProposalInv'
    BY <1>2, ProposalFrame
  <2>. QED  BY <2>5, <2>6, <2>7, <2>8
<1>4. CASE op' = [op EXCEPT !.cancelled = TRUE] /\ UNCHANGED <<calls, foreground>>
  <2>1. /\ op' \in Ops /\ op'.at = op.at /\ op'.kind = op.kind /\ op'.ok = op.ok
        /\ op'.seen = op.seen /\ op'.audit = op.audit /\ op'.target = op.target
        /\ op'.cancelled
    BY <1>1, <1>4 DEF Ops
  <2>2. TypeInv'
    BY <1>1, <1>2, <1>4, <2>1, CommandFrame
  <2>3. TokenInv'
    BY <1>2, <1>4, <2>1 DEF TokenInv
  <2>4. ReportInv'
    BY <1>2, <2>1 DEF ReportInv, At
  <2>5. PromptInv'
    BY <1>2, <2>1 DEF PromptInv, Holds, At, Wakes, Target
  <2>6. ProposalInv'
    BY <1>2, ProposalFrame
  <2>. QED  BY <2>2, <2>3, <2>4, <2>5, <2>6
<1>. QED  BY <1>3, <1>4 DEF contextEnds

-----------------------------------------------------------------------------
(* Proposals *)

\* A step of the runner changes it, and of the rest only what it says.
LEMMA RunnerFrame ==
  ASSUME SupervisorInv, still, file' = file, state' \in State, state'.handled = state.handled,
         op.at \in Wakes => state' = state,
         memory' \in Memory, memory'.known = memory.known,
         memory'.projection = memory.projection, memory'.stopped = memory.stopped,
         memory'.checked = memory.checked, memory'.audit = memory.audit,
         runner' \in Runner, acted' \subseteq Proposals
  PROVE  TypeInv' /\ TokenInv' /\ ReportInv' /\ PromptInv'
<1>. USE DEF SupervisorInv
<1>1. TypeInv'
  BY DEF TypeInv, still
<1>2. TokenInv'
  BY DEF TokenInv, still
<1>3. ReportInv'
  BY DEF ReportInv, still, At
<1>4. PromptInv'
  BY DEF PromptInv, still, At, Holds, Wakes, Target
<1>. QED  BY <1>1, <1>2, <1>3, <1>4

\* The token is free, so nobody is prompting.
LEMMA AvailableQuiet ==
  ASSUME available
  PROVE  op.at \notin Wakes
BY DEF available, Free, Wakes

LEMMA MessageProposalKeeps ==
  ASSUME SupervisorAssumption, SupervisorInv, MessageProposal
  PROVE  SupervisorInv'
<1>. USE DEF SupervisorInv
<1>1. /\ state \in State /\ state.handoff \in Handoff /\ runner \in Runner /\ file \in Proposal
      /\ owner.shows \in Projections /\ memory \in Memory /\ acted \subseteq Proposals
      /\ still /\ UNCHANGED <<memory, file, acted>> /\ bounds \in Bounds
      /\ op.at \notin Wakes /\ runner.at = "idle"
      /\ state.binding \in {0} \cup Proposals /\ state.consumed \in {0} \cup Proposals
  BY AvailableQuiet DEF TypeInv, Owners, MessageProposal, State
<1>2. CASE /\ state.resolution = "running" /\ state' = abandonedRunning(state)
           /\ UNCHANGED runner
  <2>1. PICK h \in Handoff :
          state' = [state EXCEPT !.resolution = "failed", !.consumed = state.binding,
                                 !.handoff = h]
    <3>1. PICK s : state' = [state EXCEPT !.resolution = "failed", !.consumed = state.binding,
                                          !.handoff.state = s]
                   /\ s \in {"human-attention", state.handoff.state}
      BY <1>1, <1>2 DEF abandonedRunning, State
    <3>2. [state.handoff EXCEPT !.state = s] \in Handoff
      BY <1>1, <3>1 DEF Handoff, Terminal
    <3>. QED  BY <1>1, <3>1, <3>2 DEF State
  <2>2. /\ state' \in State /\ state'.handled = state.handled /\ state'.consumed = state.binding
        /\ state'.binding = state.binding /\ state'.resolution = "failed"
    BY <1>1, <2>1 DEF State, Outcomes
  <2>3. TypeInv' /\ TokenInv' /\ ReportInv' /\ PromptInv'
    BY <1>1, <1>2, <2>2, RunnerFrame
  <2>4. ProposalInv'
    <3>1. \A i \in acted : i <= state.binding
      BY <1>1 DEF ProposalInv, Proposals, SupervisorAssumption
    <3>2. state.binding \in Nat /\ pr' = pr
      BY <1>1, <1>2 DEF Proposals, pr
    <3>. QED  BY <1>1, <1>2, <2>2, <3>1, <3>2 DEF ProposalInv, still
  <2>. QED  BY <2>3, <2>4
<1>3. CASE /\ state.resolution # "running" /\ file.id \notin {0, state.consumed}
           /\ runner' = [IdleRunner EXCEPT !.at = "validate", !.proposal = file,
                                          !.seen = owner.shows]
           /\ UNCHANGED state
  <2>1. runner' \in Runner /\ runner'.at = "validate" /\ runner'.proposal = file
    BY <1>1, <1>3, Records DEF Runner
  <2>2. TypeInv' /\ TokenInv' /\ ReportInv' /\ PromptInv'
    BY <1>1, <1>3, <2>1, RunnerFrame
  <2>3. ProposalInv'
    <3>1. /\ bounds.proposals \in Nat /\ state.consumed \in Nat /\ state.binding \in Nat
          /\ file.id \in Nat
      BY <1>1 DEF Bounds, Proposals, SupervisorAssumption, Proposal
    <3>2. state.consumed < file.id /\ file.id <= bounds.proposals
      BY <1>3, <3>1 DEF ProposalInv
    <3>. QED  BY <1>1, <1>3, <2>1, <3>2 DEF ProposalInv, pr, still
  <2>. QED  BY <2>2, <2>3
<1>. QED  BY <1>2, <1>3 DEF MessageProposal

\* The runner goes on with its proposal.
LEMMA RunnerMoves ==
  ASSUME SupervisorAssumption, runner \in Runner, NEW p \in {"refuse", "begin"}, Validated(p)
  PROVE  runner' \in Runner /\ runner'.at = p /\ runner'.proposal = runner.proposal
BY Records DEF Validated, Runner

LEMMA ValidateKeeps ==
  ASSUME SupervisorAssumption, SupervisorInv, ValidateAttentionProposal
  PROVE  SupervisorInv'
<1>. USE DEF SupervisorInv
<1>1. /\ runner \in Runner /\ state \in State /\ memory \in Memory /\ acted \subseteq Proposals
      /\ still /\ UNCHANGED <<state, memory, file, acted>> /\ runner.at = "validate"
  BY DEF TypeInv, ValidateAttentionProposal
<1>2. PICK p \in {"refuse", "begin"} : Validated(p)
  BY DEF ValidateAttentionProposal
<1>3. runner' \in Runner /\ runner'.at = p /\ runner'.proposal = runner.proposal
  BY <1>1, <1>2, RunnerMoves
<1>4. TypeInv' /\ TokenInv' /\ ReportInv' /\ PromptInv'
  BY <1>1, <1>3, RunnerFrame
<1>5. ProposalInv'
  BY <1>1, <1>3 DEF ProposalInv, pr, still
<1>. QED  BY <1>4, <1>5

\* A resolution is of the handoff that its proposal was for.
LEMMA ResolvesType ==
  ASSUME SupervisorAssumption, TypeInv, NEW resolution \in Outcomes \cup {"running"},
         pr.id # 0, resolves(resolution)
  PROVE  /\ state' \in State /\ state'.handled = state.handled /\ state'.binding = pr.id
         /\ state'.resolution = resolution
         /\ state'.consumed = IF resolution = "running" THEN state.consumed ELSE pr.id
         /\ memory' \in Memory /\ memory'.known = memory.known
         /\ memory'.projection = memory.projection /\ memory'.stopped = memory.stopped
         /\ memory'.checked = memory.checked /\ memory'.audit = memory.audit
<1>1. /\ state \in State /\ state.handoff \in Handoff /\ runner \in Runner /\ file \in Proposal
      /\ memory \in Memory
  BY DEF TypeInv, State
<1>2. pr \in Proposal /\ pr.id \in Proposals /\ state.consumed \in {0} \cup Proposals
  BY <1>1 DEF pr, Runner, Proposal, State
<1>. DEFINE h == IF ~touches(pr.id) THEN state.handoff
                 ELSE IF resolution # "running" THEN resolvedHandoff(state.handoff, resolution)
                 ELSE [state.handoff EXCEPT !.state = "action-running", !.action = file.action,
                                            !.binding = pr.id]
            consumed == IF resolution = "running" THEN state.consumed ELSE pr.id
<1>3. state' = [state EXCEPT !.binding = pr.id, !.resolution = resolution,
                             !.consumed = consumed, !.handoff = h]
  BY DEF resolves
<1>4. h \in Handoff
  <2>1. resolvedHandoff(state.handoff, resolution) \in Handoff
    <3>1. PICK s \in {"human-attention", "waiting", "verifying"} :
            resolvedHandoff(state.handoff, resolution) = [state.handoff EXCEPT !.state = s]
      BY DEF resolvedHandoff
    <3>. QED  BY <1>1, <3>1 DEF Handoff, Terminal
  <2>2. [state.handoff EXCEPT !.state = "action-running", !.action = file.action,
                              !.binding = pr.id] \in Handoff
    BY <1>1, <1>2 DEF Handoff, Proposal
  <2>. QED  BY <1>1, <2>1, <2>2
<1>5. consumed \in {0} \cup Proposals
  BY <1>2
<1>. HIDE DEF h, consumed
<1>6. /\ state' \in State /\ state'.handled = state.handled /\ state'.binding = pr.id
      /\ state'.resolution = resolution /\ state'.consumed = consumed
  BY <1>1, <1>2, <1>3, <1>4, <1>5 DEF State
<1>7. memory' = [memory EXCEPT !.proposal = (resolution = "running")]
  BY DEF resolves
<1>8. /\ memory' \in Memory /\ memory'.known = memory.known
      /\ memory'.projection = memory.projection /\ memory'.stopped = memory.stopped
      /\ memory'.checked = memory.checked /\ memory'.audit = memory.audit
  BY <1>1, <1>7 DEF Memory
<1>. QED  BY <1>6, <1>8 DEF consumed

LEMMA ResolveKeeps ==
  ASSUME SupervisorAssumption, SupervisorInv, refuse \/ begin \/ settle
  PROVE  SupervisorInv'
<1>. USE DEF SupervisorInv
<1>1. /\ runner \in Runner /\ state \in State /\ memory \in Memory /\ acted \subseteq Proposals
      /\ runner.outcome \in Outcomes /\ bounds \in Bounds /\ IdleRunner \in Runner
      /\ pr.id \in {0} \cup Proposals /\ state.consumed \in {0} \cup Proposals
      /\ state.binding \in {0} \cup Proposals
  BY Records DEF TypeInv, Runner, pr, Proposal, State
<1>2. PICK resolution \in Outcomes \cup {"running"},
           next \in {IdleRunner, [runner EXCEPT !.at = "act"]} :
        /\ ResolveMessageProposal(resolution, next)
        /\ resolution = "running" <=> runner.at = "begin"
        /\ resolution = "running" => next = [runner EXCEPT !.at = "act"]
        /\ resolution # "running" => next = IdleRunner
        /\ runner.at \in {"refuse", "begin", "settle"}
  <2>1. CASE refuse
    BY <2>1 DEF refuse, Outcomes
  <2>2. CASE begin
    BY <2>2 DEF begin, Outcomes
  <2>3. CASE settle
    BY <1>1, <2>3 DEF settle, Outcomes
  <2>. QED  BY <2>1, <2>2, <2>3
<1>3. still /\ UNCHANGED <<file, acted>>
  BY <1>2 DEF ResolveMessageProposal
<1>4. CASE available /\ resolves(resolution) /\ runner' = next
  <2>1. pr.id # 0
    <3>1. CASE runner.at \in {"refuse", "begin"}
      <4>1. state.consumed < pr.id /\ state.consumed \in Nat
        BY <1>1, <3>1 DEF ProposalInv, Proposals
      <4>. QED  BY <4>1
    <3>2. CASE runner.at = "settle"
      BY <3>2 DEF ProposalInv
    <3>. QED  BY <1>2, <3>1, <3>2
  <2>2. /\ state' \in State /\ state'.handled = state.handled /\ state'.binding = pr.id
        /\ state'.resolution = resolution
        /\ state'.consumed = IF resolution = "running" THEN state.consumed ELSE pr.id
        /\ memory' \in Memory /\ memory'.known = memory.known
        /\ memory'.projection = memory.projection /\ memory'.stopped = memory.stopped
        /\ memory'.checked = memory.checked /\ memory'.audit = memory.audit
    BY <1>4, <2>1, ResolvesType
  <2>3. /\ runner' \in Runner
        /\ resolution = "running" => runner'.at = "act" /\ runner'.proposal = runner.proposal
        /\ resolution # "running" => runner'.at = "idle" /\ runner'.proposal.id = 0
    <3>1. CASE resolution = "running"
      BY <1>1, <1>2, <1>4, <3>1 DEF Runner
    <3>2. CASE resolution # "running"
      <4>1. runner' = IdleRunner
        BY <1>2, <1>4, <3>2
      <4>. QED  BY <1>1, <3>2, <4>1 DEF IdleRunner, NoProposal
    <3>. QED  BY <3>1, <3>2
  <2>4. TypeInv' /\ TokenInv' /\ ReportInv' /\ PromptInv'
    BY <1>1, <1>3, <1>4, <2>2, <2>3, AvailableQuiet, RunnerFrame
  <2>5. /\ pr.id \in Nat /\ state.consumed \in Nat /\ state.binding \in Nat
        /\ \A i \in acted : i \in Nat
    BY <1>1 DEF Proposals
  <2>6. state.consumed < pr.id \/ (runner.at = "settle" /\ state.binding = pr.id)
    BY <1>2 DEF ProposalInv
  <2>7. ProposalInv'
    <3>1. CASE resolution = "running"
      <4>1. state.consumed < pr.id /\ \A i \in acted : i <= state.consumed
        BY <1>2, <3>1 DEF ProposalInv
      <4>2. pr' = pr /\ pr.id \notin acted /\ runner'.at = "act" /\ pr.id # 0
        BY <2>1, <2>3, <2>5, <3>1, <4>1 DEF pr
      <4>3. /\ state'.consumed = state.consumed /\ state'.binding = pr.id
            /\ state'.resolution = "running"
        BY <2>2, <3>1
      <4>. QED  BY <1>3, <2>5, <4>1, <4>2, <4>3 DEF ProposalInv, still
    <3>2. CASE resolution # "running"
      <4>1. \A i \in acted : i <= pr.id
        BY <1>2, <2>5, <2>6 DEF ProposalInv
      <4>2. state'.consumed = pr.id /\ state'.binding = pr.id /\ state'.resolution # "running"
        BY <2>2, <3>2
      <4>3. pr'.id = 0 /\ runner'.at = "idle"
        BY <2>3, <3>2 DEF pr
      <4>4. bounds.proposals \in Nat
        BY <1>1 DEF Bounds
      <4>. QED  BY <1>3, <2>5, <4>1, <4>2, <4>3, <4>4 DEF ProposalInv, still
    <3>. QED  BY <3>1, <3>2
  <2>. QED  BY <2>4, <2>7
<1>5. CASE UNCHANGED <<state, memory>> /\ runner' = IdleRunner
  <2>1. TypeInv' /\ TokenInv' /\ ReportInv' /\ PromptInv'
    BY <1>1, <1>3, <1>5, RunnerFrame
  <2>2. runner'.at = "idle" /\ pr'.id = 0 /\ bounds.proposals \in Nat
    BY <1>1, <1>5 DEF IdleRunner, NoProposal, pr, Bounds
  <2>3. ProposalInv'
    BY <1>3, <1>5, <2>2 DEF ProposalInv, still
  <2>. QED  BY <2>1, <2>3
<1>. QED  BY <1>2, <1>4, <1>5 DEF ResolveMessageProposal, RunnerIdle

LEMMA ActKeeps ==
  ASSUME SupervisorAssumption, SupervisorInv, act
  PROVE  SupervisorInv'
<1>. USE DEF SupervisorInv
<1>1. /\ runner \in Runner /\ state \in State /\ memory \in Memory /\ acted \subseteq Proposals
      /\ still /\ UNCHANGED <<state, memory, file>> /\ runner.at = "act"
      /\ acted' = acted \cup {pr.id} /\ pr.id \in {0} \cup Proposals /\ pr.id # 0
      /\ state.binding = pr.id /\ state.resolution = "running"
  BY DEF TypeInv, ProposalInv, act, pr, Runner, Proposal
<1>2. PICK o \in Outcomes : runner' = [runner EXCEPT !.at = "settle", !.outcome = o]
  BY DEF act, Outcomes
<1>3. runner' \in Runner /\ runner'.at = "settle" /\ runner'.proposal = runner.proposal
  BY <1>1, <1>2 DEF Runner
<1>4. TypeInv' /\ TokenInv' /\ ReportInv' /\ PromptInv'
  BY <1>1, <1>3, RunnerFrame
<1>5. ProposalInv'
  BY <1>1, <1>3 DEF ProposalInv, pr, still
<1>. QED  BY <1>4, <1>5

-----------------------------------------------------------------------------
(* The world around it *)

LEMMA SubmitKeeps ==
  ASSUME SupervisorAssumption, SupervisorInv, submit
  PROVE  SupervisorInv'
<1>. USE DEF SupervisorInv
<1>1. /\ state \in State /\ state.handoff \in Handoff /\ bounds \in Bounds
      /\ bounds.proposals < MaxProposals
      /\ bounds' = [bounds EXCEPT !.proposals = @ + 1]
      /\ UNCHANGED <<owner, state, report, tmux, memory, op, foreground, calls, audits, runner,
                     prompted, acted>>
      /\ state.binding \in {0} \cup Proposals /\ pr.id \in {0} \cup Proposals
  BY DEF TypeInv, submit, State, pr, Runner, Proposal
<1>2. /\ bounds' \in Bounds /\ bounds'.proposals = bounds.proposals + 1
      /\ bounds.proposals + 1 \in Proposals /\ bounds.proposals \in Nat
  BY <1>1 DEF Bounds, Proposals, SupervisorAssumption
<1>. DEFINE new == [NoProposal EXCEPT !.id = bounds.proposals + 1]
<1>3. new \in Proposal /\ new.id = bounds.proposals + 1
  BY <1>2, Records DEF Proposal
<1>4. file' \in Proposal /\ file'.id = bounds.proposals + 1
  <2>1. CASE file' = [new EXCEPT !.action = "retry"]
    <3>. HIDE DEF new
    <3>. QED  BY <1>3, <2>1 DEF Proposal
  <2>2. CASE \E x \in Actions :
               file' = [new EXCEPT !.action = x, !.bound = TRUE,
                                   !.attempt = state.handoff.attempt,
                                   !.seen = state.handoff.seen]
    <3>1. PICK x \in {"check_in", "retry", "attention"} :
            file' = [new EXCEPT !.action = x, !.bound = TRUE,
                                !.attempt = state.handoff.attempt, !.seen = state.handoff.seen]
      BY <2>2 DEF SupervisorAssumption
    <3>2. state.handoff.attempt \in 0..MaxAttempts /\ state.handoff.seen \in Projections
      BY <1>1 DEF Handoff
    <3>. HIDE DEF new
    <3>. QED  BY <1>3, <3>1, <3>2 DEF Proposal
  <2>. QED  BY <2>1, <2>2 DEF submit
<1>5. TypeInv'
  BY <1>1, <1>2, <1>4 DEF TypeInv
<1>6. TokenInv' /\ ReportInv' /\ PromptInv'
  BY <1>1 DEF TokenInv, ReportInv, PromptInv, At, Holds, Wakes, Target
<1>7. ProposalInv'
  <2>1. state.binding \in Nat /\ pr.id \in Nat
    BY <1>1 DEF Proposals
  <2>. QED  BY <1>1, <1>2, <1>4, <2>1 DEF ProposalInv, pr
<1>. QED  BY <1>5, <1>6, <1>7

\* What the history keeps of its targets is shown.
LEMMA Remembered ==
  ASSUME prompted \in Prompts, NEW o, prompted' = remembered(o)
  PROVE  /\ prompted' \in Prompts /\ prompted'.targets \subseteq prompted.targets
         /\ \A i \in prompted'.targets : o.shows[i[1]] = i[2]
<1>1. /\ StillShown(prompted.targets, o) \subseteq prompted.targets
      /\ \A i \in StillShown(prompted.targets, o) : o.shows[i[1]] = i[2]
      /\ StillWrong(prompted.wakes, o) \subseteq prompted.wakes
  BY DEF StillShown, StillWrong
<1>. QED  BY <1>1 DEF remembered, Prompts

\* The owner notes something of one attempt.
LEMMA OwnerKeepsType ==
  ASSUME owner \in Owners, NEW a \in Attempts, NEW f \in 0..MaxFacts, NEW s \in Statuses,
         owner' = [owner EXCEPT !.wrong[a] = f, !.shows[a] = s]
  PROVE  owner' \in Owners
BY DEF Owners, Projections

\* The owner, the history and the bounds change, and the rest does not.
LEMMA OwnerFrame ==
  ASSUME SupervisorInv, owner' \in Owners, prompted' = remembered(owner'),
         bounds' \in Bounds, bounds'.proposals = bounds.proposals,
         UNCHANGED <<state, report, file, tmux, memory, op, foreground, calls, audits, runner,
                     acted>>
  PROVE  SupervisorInv'
<1>. USE DEF SupervisorInv
<1>1. /\ prompted' \in Prompts /\ prompted'.targets \subseteq prompted.targets
      /\ \A i \in prompted'.targets : owner'.shows[i[1]] = i[2]
  BY Remembered DEF TypeInv
<1>2. TypeInv'
  BY <1>1 DEF TypeInv
<1>3. TokenInv' /\ ReportInv'
  BY DEF TokenInv, ReportInv, At
<1>4. PromptInv'
  BY <1>1 DEF PromptInv, At, Holds, Wakes, Target
<1>5. ProposalInv'
  BY ProposalFrame
<1>. QED  BY <1>2, <1>3, <1>4, <1>5

LEMMA OwnerAppliesKeeps ==
  ASSUME SupervisorAssumption, SupervisorInv, ownerApplies
  PROVE  SupervisorInv'
<1>. USE DEF SupervisorInv
<1>1. /\ bounds \in Bounds /\ owner \in Owners /\ prompted' = remembered(owner')
      /\ UNCHANGED <<state, report, file, tmux, memory, op, foreground, calls, audits, runner,
                     acted, bounds>>
  BY DEF TypeInv, ownerApplies, world
<1>2. PICK a \in Attempts :
        owner' = [owner EXCEPT !.shows[a] = [@ EXCEPT !.fact = owner.wrong[a],
                                                      !.epoch = bounds.boots]]
  BY DEF ownerApplies
<1>. DEFINE s == [owner.shows[a] EXCEPT !.fact = owner.wrong[a], !.epoch = bounds.boots]
<1>3. owner.wrong[a] \in 0..MaxFacts /\ s \in Statuses
  <2>1. /\ owner.wrong[a] \in 0..MaxFacts /\ owner.shows[a] \in Statuses
        /\ bounds.boots \in Nat
    BY <1>1 DEF Owners, Projections, Bounds
  <2>. QED  BY <2>1 DEF Statuses
<1>4. owner' = [owner EXCEPT !.wrong[a] = owner.wrong[a], !.shows[a] = s]
  BY <1>1, <1>2 DEF Owners
<1>. HIDE DEF s
<1>5. owner' \in Owners
  BY <1>1, <1>3, <1>4, OwnerKeepsType
<1>. QED  BY <1>1, <1>5, OwnerFrame

LEMMA OwnerChangesKeeps ==
  ASSUME SupervisorAssumption, SupervisorInv, ownerChanges
  PROVE  SupervisorInv'
<1>. USE DEF SupervisorInv
<1>1. /\ bounds \in Bounds /\ owner \in Owners /\ prompted' = remembered(owner')
      /\ UNCHANGED <<state, report, file, tmux, memory, op, foreground, calls, audits, runner,
                     acted>>
  BY DEF TypeInv, ownerChanges, world
<1>2. bounds' \in Bounds /\ bounds'.proposals = bounds.proposals
  BY <1>1 DEF ownerChanges, Bounds
<1>3. PICK a \in Attempts, f \in 0..MaxFacts, t \in 0..MaxTokens :
        owner' = [owner EXCEPT
          !.wrong[a] = IF owner.shows[a].epoch = bounds.boots THEN f ELSE @,
          !.shows[a] = [@ EXCEPT !.fact = f, !.token = t]]
  BY DEF ownerChanges
<1>. DEFINE w == IF owner.shows[a].epoch = bounds.boots THEN f ELSE owner.wrong[a]
            s == [owner.shows[a] EXCEPT !.fact = f, !.token = t]
<1>4. w \in 0..MaxFacts /\ s \in Statuses
  BY <1>1 DEF Owners, Projections, Statuses
<1>5. owner' = [owner EXCEPT !.wrong[a] = w, !.shows[a] = s]
  BY <1>3
<1>. HIDE DEF w, s
<1>6. owner' \in Owners
  BY <1>1, <1>4, <1>5, OwnerKeepsType
<1>. QED  BY <1>1, <1>2, <1>6, OwnerFrame

LEMMA PaneDiesKeeps ==
  ASSUME SupervisorAssumption, SupervisorInv, paneDies
  PROVE  SupervisorInv'
<1>. USE DEF SupervisorInv
<1>1. /\ bounds \in Bounds /\ tmux \in [live : BOOLEAN, context : Nat]
      /\ UNCHANGED <<owner, state, report, file, memory, op, foreground, calls, audits, runner,
                     prompted, acted>>
  BY DEF TypeInv, paneDies
<1>2. bounds' \in Bounds /\ bounds'.proposals = bounds.proposals
  BY <1>1, Faulted DEF paneDies
<1>3. tmux' \in [live : BOOLEAN, context : Nat] /\ tmux'.context = tmux.context
  BY <1>1 DEF paneDies
<1>4. TypeInv'
  BY <1>1, <1>2, <1>3 DEF TypeInv
<1>5. TokenInv' /\ ReportInv' /\ PromptInv'
  BY <1>1, <1>3 DEF TokenInv, ReportInv, PromptInv, At, Holds, Wakes, Target
<1>6. ProposalInv'
  BY <1>1, <1>2, ProposalFrame
<1>. QED  BY <1>4, <1>5, <1>6

LEMMA BackoffEndsKeeps ==
  ASSUME SupervisorAssumption, SupervisorInv, backoffEnds
  PROVE  SupervisorInv'
<1>. USE DEF SupervisorInv
<1>1. /\ state \in State
      /\ UNCHANGED <<owner, report, file, tmux, memory, op, foreground, calls, audits, runner,
                     prompted, acted, bounds>>
  BY DEF TypeInv, backoffEnds, machine, outside
<1>2. /\ state' \in State /\ state'.handled = state.handled /\ state'.handoff = state.handoff
      /\ state'.consumed = state.consumed /\ state'.binding = state.binding
      /\ state'.resolution = state.resolution
  BY <1>1 DEF backoffEnds, State
<1>3. TypeInv'
  BY <1>1, <1>2 DEF TypeInv
<1>4. TokenInv' /\ ReportInv' /\ PromptInv'
  BY <1>1, <1>2 DEF TokenInv, ReportInv, PromptInv, At, Holds, Wakes, Target
<1>5. ProposalInv'
  BY <1>1, <1>2, ProposalFrame
<1>. QED  BY <1>3, <1>4, <1>5

LEMMA ShutdownKeeps ==
  ASSUME SupervisorAssumption, SupervisorInv, Shutdown
  PROVE  SupervisorInv'
<1>. USE DEF SupervisorInv
<1>1. /\ op \in Ops /\ memory \in Memory /\ calls \in Calls
      /\ UNCHANGED <<owner, state, report, file, tmux, audits, runner, prompted, acted, bounds>>
      /\ foreground' = <<>>
  BY DEF TypeInv, Shutdown, machine
<1>2. /\ memory' \in Memory /\ memory'.known = memory.known
      /\ memory'.projection = memory.projection /\ memory'.stopped
      /\ memory'.checked = memory.checked
  BY <1>1 DEF Shutdown, Memory
<1>3. /\ op' \in Ops /\ op'.at = op.at /\ op'.kind = op.kind /\ op'.ok = op.ok
      /\ op'.seen = op.seen /\ op'.audit = op.audit /\ op'.target = op.target
      /\ (op.cancelled => op'.cancelled) /\ (op' = Free \/ op'.cancelled)
  BY <1>1 DEF Shutdown, Ops
<1>4. calls' \in Calls
  BY <1>1 DEF Shutdown, Calls
<1>5. TypeInv'
  BY <1>1, <1>2, <1>3, <1>4 DEF TypeInv
<1>6. TokenInv'
  BY <1>1, <1>2, <1>3 DEF TokenInv
<1>7. ReportInv'
  BY <1>1, <1>2, <1>3 DEF ReportInv, At
<1>8. PromptInv'
  BY <1>1, <1>2, <1>3 DEF PromptInv, At, Holds, Wakes, Target
<1>9. ProposalInv'
  BY <1>1, ProposalFrame
<1>. QED  BY <1>5, <1>6, <1>7, <1>8, <1>9

LEMMA BootKeeps ==
  ASSUME SupervisorAssumption, SupervisorInv, boot
  PROVE  SupervisorInv'
<1>. USE DEF SupervisorInv
<1>1. /\ report \in Reports /\ calls \in Calls /\ bounds \in Bounds
      /\ UNCHANGED <<state, file, tmux, acted>>
      /\ prompted' = remembered(owner') /\ prompted \in Prompts /\ owner \in Owners
      /\ memory' = NewMemory /\ op' = Free /\ foreground' = <<>> /\ audits' = {}
      /\ runner' = IdleRunner
  BY DEF TypeInv, boot, world
<1>2. bounds' \in Bounds /\ bounds'.proposals = bounds.proposals
  BY <1>1 DEF boot, Bounds
<1>3. calls' \in Calls
  BY <1>1 DEF boot, Calls
<1>4. /\ report' \in Reports /\ report'.context = report.context
      /\ report'.state \in {report.state, "failed"}
  BY <1>1, Invalidated DEF boot
<1>0. owner' \in Owners
  <2>1. PICK p \in bootShows : owner' = [owner EXCEPT !.shows = p]
    BY DEF boot
  <2>2. PICK q \in [Attempts -> Locals] :
          p = [a \in Attempts |-> [owner.shows[a] EXCEPT !.fact = q[a]]]
    BY <2>1 DEF bootShows
  <2>3. ASSUME NEW a \in Attempts
        PROVE  [owner.shows[a] EXCEPT !.fact = q[a]] \in Statuses
    <3>1. owner.shows[a] \in Statuses /\ q[a] \in 0..MaxFacts
      BY <1>1, <2>2 DEF Owners, Projections, SupervisorAssumption
    <3>. QED  BY <3>1 DEF Statuses
  <2>4. p \in Projections
    BY <2>2, <2>3 DEF Projections
  <2>. QED  BY <1>1, <2>1, <2>4 DEF Owners
<1>10. /\ prompted' \in Prompts /\ prompted'.targets \subseteq prompted.targets
       /\ \A i \in prompted'.targets : owner'.shows[i[1]] = i[2]
  BY <1>1, Remembered
<1>5. TypeInv'
  BY <1>0, <1>1, <1>2, <1>3, <1>4, <1>10, Records DEF TypeInv
<1>6. TokenInv'
  BY <1>1 DEF TokenInv, Free, NewMemory
<1>7. ReportInv'
  BY <1>1, <1>4 DEF ReportInv, At, Free, NewMemory
<1>8. PromptInv'
  BY <1>1, <1>10 DEF PromptInv, At, Holds, Wakes, Free, NewMemory
<1>9. ProposalInv'
  <2>1. bounds.proposals \in Nat /\ runner'.at = "idle" /\ pr'.id = 0
    BY <1>1 DEF Bounds, IdleRunner, NoProposal, pr
  <2>. QED  BY <1>1, <1>2, <2>1 DEF ProposalInv
<1>. QED  BY <1>5, <1>6, <1>7, <1>8, <1>9

-----------------------------------------------------------------------------
(* Theorems *)

\* Every step keeps the invariant.
LEMMA NextInv ==
  ASSUME SupervisorAssumption, SupervisorInv, [Next]_vars
  PROVE  SupervisorInv'
<1>1. CASE HoldsToken
  BY <1>1, ReleaseKeeps, RecoverKeeps, RestartKeeps, StartForgetsKeeps, StartKeeps, FailedKeeps,
     LaunchAuditKeeps, PublishKeeps, InvestigateChecksKeeps, SupersedeAuditKeeps,
     InvestigatePreparesKeeps, ObserveChecksKeeps, ScheduleKeeps, WriteStateKeeps,
     StartAttentionHandoffKeeps, PasteKeeps, EnterKeeps, RecordWakeKeeps DEF HoldsToken
<1>2. CASE observeCycle
  BY <1>2, ObserveCycleKeeps
<1>3. CASE \E a \in audits : auditEnds(a)
  BY <1>3, AuditEndsKeeps
<1>4. CASE MessageProposal
  BY <1>4, MessageProposalKeeps
<1>5. CASE RunnerStep
  BY <1>5, ValidateKeeps, ResolveKeeps, ActKeeps DEF RunnerStep
<1>6. CASE \E c \in Commands : enqueue(c) \/ contextEnds(c)
  BY <1>6, EnqueueKeeps, ContextEndsKeeps
<1>7. CASE submit \/ ownerApplies \/ ownerChanges \/ paneDies \/ backoffEnds
  BY <1>7, SubmitKeeps, OwnerAppliesKeeps, OwnerChangesKeeps, PaneDiesKeeps, BackoffEndsKeeps
<1>8. CASE Shutdown \/ boot
  BY <1>8, ShutdownKeeps, BootKeeps
<1>9. CASE UNCHANGED vars
  <2>1. TypeInv' /\ TokenInv'
    BY <1>9 DEF SupervisorInv, vars, TypeInv, TokenInv
  <2>2. ReportInv' /\ PromptInv' /\ ProposalInv'
    BY <1>9 DEF SupervisorInv, vars, ReportInv, PromptInv, ProposalInv, At, Holds, Wakes,
       Target, pr
  <2>. QED  BY <2>1, <2>2 DEF SupervisorInv
<1>. QED  BY <1>1, <1>2, <1>3, <1>4, <1>5, <1>6, <1>7, <1>8, <1>9 DEF Next

\* The token, the report, what was prompted and the proposals stay in step with each
\* other, and every variable has its type.
THEOREM SupervisorInductive == Spec => []SupervisorInv
<1>1. Init => SupervisorInv
  BY SupervisorAssumption, InitInv
<1>2. SupervisorInv /\ [Next]_vars => SupervisorInv'
  BY SupervisorAssumption, NextInv
<1>. QED  BY <1>1, <1>2, PTL DEF Spec

\* Every variable of the supervisor has its type.
THEOREM SupervisorTypes == Spec => []TypeOK
<1>1. SupervisorInv => TypeOK
  <2>. SUFFICES ASSUME SupervisorInv PROVE TypeOK
    OBVIOUS
  <2>. USE DEF SupervisorInv, TypeInv
  <2>1. report.state \in {"none", "running", "completed", "failed"} /\ report.context \in Nat
    BY DEF Reports
  <2>2. /\ op.kind \in OpKinds /\ op.at \in Points /\ op.audit \in Audit
        /\ op.call \in {"none"} \cup Commands /\ op.seen \in Projections
    BY DEF Ops
  <2>3. ToSet(foreground) \subseteq Waiting
    BY DEF ToSet
  <2>4. /\ runner.at \in {"idle", "validate", "refuse", "begin", "act", "settle"}
        /\ runner.proposal \in Proposal
    BY DEF Runner
  <2>5. prompted.targets \subseteq Items /\ prompted.wakes \subseteq Troubles
    BY DEF Prompts
  <2>. QED  BY <2>1, <2>2, <2>3, <2>4, <2>5 DEF TypeOK
<1>. QED  BY <1>1, SupervisorInductive, PTL

\* The report that a conversation reads is its own, and nobody is prompted while it is
\* being made: claimAuditCompletion keeps older audits out, startAttentionHandoff waits.
THEOREM ReportIsHonest == Spec => []ReportHonest
<1>1. SupervisorInv => ReportHonest
  BY DEF SupervisorInv, ReportInv, ReportHonest
<1>. QED  BY <1>1, SupervisorInductive, PTL

\* A target digest that the conversation was prompted about it is not prompted about again
\* while the projection shows that digest: startAttentionHandoff has written it as handled
\* before the prompt is pasted, and what decides that it stays handled has not changed. The
\* theorem is about digests, not about what is wrong: a restart gives the same trouble
\* another digest, and it is prompted again.
THEOREM TargetsWokenOnce == Spec => TargetWokenOnce
<1>1. SupervisorInv /\ [Next]_vars
        => [At("paste") /\ op'.at = "enter" => Target \notin prompted.targets]_vars
  BY DEF SupervisorInv, PromptInv
<1>. QED  BY <1>1, SupervisorInductive, PTL DEF Spec, TargetWokenOnce

\* The action of a proposal is carried out once, whatever daemons die in between:
\* MessageProposal fails what it finds running.
THEOREM ActsOnce == Spec => ActedOnce
<1>1. SupervisorInv /\ [Next]_vars
        => [runner.at = "act" /\ runner'.at = "settle" => pr.id \notin acted]_vars
  BY DEF SupervisorInv, ProposalInv
<1>. QED  BY <1>1, SupervisorInductive, PTL DEF Spec, ActedOnce
=============================================================================
