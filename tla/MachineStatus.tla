---------------------------- MODULE MachineStatus ----------------------------
(***************************************************************************)
(* The machine status of one issue, from the intent in the runtime ledger  *)
(* to the comment and the needs-attention label on GitHub. A worker, the   *)
(* orchestrator's supervisor and destructive operator commands admit       *)
(* statuses; the reconciliation cycle and the supervisor publish the       *)
(* latest one through owner effects, one at a time under the issue's key.  *)
(*                                                                         *)
(* A status is its sequence and what it asks of the label: the reason, the *)
(* attempt and the source's own sequence are fixed by the sequence. A      *)
(* GitHub request whose answer is lost may still be carried out later, the *)
(* daemon can crash between any two steps, and a run can be cancelled.     *)
(* Sources "worker", "orchestrator" and "destructive" are modelled, the    *)
(* dependency source is not.                                               *)
(***************************************************************************)
EXTENDS Naturals, FiniteSets, FiniteSetsExt

CONSTANTS MaxSeq,        \* bound on admitted statuses
          MaxProposals,  \* bound on the supervisor's proposals
          MaxFaults      \* bound on crashes, lost requests and failures

ASSUME StatusAssumption ==
  MaxSeq \in Nat /\ MaxProposals \in Nat /\ MaxFaults \in Nat

VARIABLES
  status,    \* MachineStatuses: sequence, applied sequence, source, request
  effects,   \* Effects: the issue's machine-status intents
  attempt,   \* whether the current attempt has a live record
  obs,       \* Observations: what the last applied collection saw
  comments,  \* GitHub: status comments of the coordinator
  label,     \* GitHub: the needs-attention label
  flight,    \* requests without an answer that GitHub may still carry out
  markers,   \* reconciliation-effects/<id>.done
  run,       \* holder of the issue's key and its progress
  cache,     \* read snapshot of the cycle's API value, at most one view
  cycle,     \* progress of the reconciliation cycle
  sup,       \* progress of the supervisor's proposal
  since,     \* what changed since the supervisor's projection or snapshot
  proposals, \* proposals so far
  faults,    \* faults so far
  refused    \* history: an admitted change failed the ledger's validation

ledger == <<status, effects, attempt, obs>>
remote == <<comments, label, flight>>
counts == <<proposals, faults>>
vars   == <<ledger, remote, markers, run, cache, cycle, sup, since, counts,
            refused>>

-----------------------------------------------------------------------------
(* Types *)

Seqs == 0..MaxSeq
Ids  == Nat \ {0}
View == [top : Seqs, asked : BOOLEAN, label : BOOLEAN]
Fact == [top : Seqs, asked : BOOLEAN, attention : BOOLEAN]
Status == [seq : Seqs, applied : Seqs, want : BOOLEAN,
           source : {"none", "worker", "orchestrator", "destructive"}]
\* base, of a pending intent: the observation it was planned from is still the
\* ledger's, or only its cycle was refreshed, or its generation has advanced.
Effect == [id : Ids, seq : Seqs, dispatched : BOOLEAN,
           base : {"same", "refreshed", "old"},
           state : {"pending", "completed", "invalidated", "resolved"}]
Request == [kind : {"comment", "label"}, seq : Seqs, on : BOOLEAN, n : Nat]
Run == [by : {"nobody", "resolve", "resume", "phase", "supervisor"},
        id : Ids \cup {0}, seq : Seqs, want : BOOLEAN, applied : BOOLEAN,
        pc : {"idle", "target", "check", "authorize", "ensure", "post", "label",
              "relabel", "verify", "confirm", "mark", "finish", "unmark",
              "settle"},
        doomed : BOOLEAN, cancelled : BOOLEAN]
Cycle == [pc : {"idle", "collect", "apply", "scan", "resolve", "resume",
                "status", "acquire", "runtime", "monitor"},
          seen : View, todo : SUBSET Ids, settled : BOOLEAN, expected : Seqs,
          id : Ids \cup {0}]
\* result: of the last proposal; one that failed or was refused has none.
Sup == [pc : {"idle", "proposed", "admitted", "begin", "await", "awaiting",
              "replan", "acquire", "executing", "observe"},
        want : BOOLEAN, seq : Seqs, plan : Seqs, id : Ids \cup {0},
        result : {"none", "succeeded"}]

NoView  == [top |-> 0, asked |-> FALSE, label |-> FALSE]
NoRun   == [by |-> "nobody", id |-> 0, seq |-> 0, want |-> FALSE,
            applied |-> FALSE, pc |-> "idle", doomed |-> FALSE,
            cancelled |-> FALSE]
NoCycle == [pc |-> "idle", seen |-> NoView, todo |-> {}, settled |-> FALSE,
            expected |-> 0, id |-> 0]
NoSup   == [pc |-> "idle", want |-> FALSE, seq |-> 0, plan |-> 0, id |-> 0,
            result |-> "none"]
NoObs   == [present |-> FALSE, old |-> FALSE,
            seen |-> [top |-> 0, asked |-> FALSE, attention |-> FALSE]]

\* Every variable has its type.
TypeOK ==
  /\ status \in Status /\ effects \in SUBSET Effect
  /\ attempt \in BOOLEAN
  /\ obs \in [present : BOOLEAN, seen : Fact, old : BOOLEAN]
  /\ comments \in SUBSET [seq : Seqs, asked : BOOLEAN] /\ label \in BOOLEAN
  /\ flight \in SUBSET Request
  /\ markers \in SUBSET Ids
  /\ run \in Run /\ cache \in SUBSET View /\ Cardinality(cache) <= 1
  /\ cycle \in Cycle /\ sup \in Sup
  /\ since \in SUBSET {"commit", "observation"}
  /\ proposals \in 0..MaxProposals /\ faults \in 0..MaxFaults
  /\ refused \in BOOLEAN

Init ==
  /\ status = [seq |-> 0, applied |-> 0, want |-> FALSE, source |-> "none"]
  /\ effects = {} /\ attempt = TRUE /\ obs = NoObs
  /\ comments = {} /\ label = FALSE /\ flight = {}
  /\ markers = {}
  /\ run = NoRun /\ cache = {} /\ cycle = NoCycle /\ sup = NoSup
  /\ since = {} /\ proposals = 0 /\ faults = 0 /\ refused = FALSE

(* An operator that stands directly before a definition and differs from it *)
(* in one detail is that definition with a plausible mistake. No action     *)
(* uses it: putting it in place of the definition must break a property.    *)

-----------------------------------------------------------------------------
(* GitHub *)

\* The coordinator's comment with the highest sequence wins, and the label is
\* read with it. The two reads are one step: a single late request between
\* them gives the view from before or after it.
directStatus ==
  LET top == Max({0} \cup {c.seq : c \in comments})
  IN  [top   |-> top,
       asked |-> \E c \in comments : c.seq = top /\ c.asked,
       label |-> label]

factCommentOnly(v) ==
  [top |-> v.top, asked |-> v.asked, attention |-> v.asked]

\* What a collection records: a comment without its label, or a label without
\* its comment, counts as attention.
fact(v) == [top |-> v.top, asked |-> v.asked, attention |-> v.asked \/ v.label]

appliedLabelOnly(v, seq, want) == v.label = want

\* The comment of that sequence is the latest and the label agrees with it.
OwnerStatusApplied(v, seq, want) ==
  v.top = seq /\ v.asked = want /\ v.label = want

\* A request without an answer is carried out late, or never.
Land(m) ==
  /\ flight' = flight \ {m}
  /\ \/ /\ m.kind = "comment"
        /\ comments' = comments \cup {[seq |-> m.seq, asked |-> m.on]}
        /\ UNCHANGED label
     \/ m.kind = "label" /\ label' = m.on /\ UNCHANGED comments
  /\ UNCHANGED <<ledger, markers, run, cache, cycle, sup, since, counts,
                 refused>>

Drop(m) ==
  /\ flight' = flight \ {m}
  /\ UNCHANGED <<ledger, comments, label, markers, run, cache, cycle, sup,
                 since, counts, refused>>

-----------------------------------------------------------------------------
(* The ledger *)

Pending == {e \in effects : e.state = "pending"}
Known(id) == \E e \in effects : e.id = id
Intent(id) == CHOOSE e \in effects : e.id = id

\* validateRuntimeOwnerState, as far as statuses and their intents go.
validLedger(st, effs) ==
  /\ st.applied <= st.seq
  /\ \A e \in effs :
       /\ e.state \in {"invalidated", "resolved"} =>
            e.dispatched /\ e.seq < st.seq
       /\ e.state = "resolved" => st.applied = st.seq

\* The supervisor compares its token when it admits, its revision and the
\* observation when it begins.
Note(what) ==
  since' = IF sup.pc \in {"proposed", "admitted", "begin"} THEN since \cup what
           ELSE {}

\* finishRuntimeOwnerTransition commits a candidate that validates, and fails
\* the command otherwise.
accept(st, effs) ==
  validLedger(st, effs) /\ status' = st /\ effects' = effs /\ UNCHANGED refused

refuse(st, effs) ==
  ~validLedger(st, effs) /\ refused' = TRUE /\ UNCHANGED <<status, effects>>

Same == UNCHANGED <<status, effects, since, refused>>

admitted(source, want) ==
  [status EXCEPT !.seq = @ + 1, !.source = source, !.want = want]

\* An admission forgets intents that never reached GitHub and remembers the
\* ones that may have.
superseded(effs) ==
  {e \in effs : e.state # "pending"}
    \cup {[e EXCEPT !.state = "invalidated", !.base = "old"] :
            e \in {p \in effs : p.state = "pending" /\ p.dispatched}}

\* The status the last observation saw is the one the ledger asks for.
remoteCurrent(st) ==
  /\ obs.seen.top = st.seq /\ obs.seen.asked = st.want
  /\ obs.seen.attention = st.want

\* planMachineStatusUpdates: there is something to publish for a status. (A
\* completed intent of a status that is not applied would also be skipped, but
\* completion and application are one commit.)
planned(st) ==
  st.seq > 0 /\ obs.present /\ ~(st.applied = st.seq /\ remoteCurrent(st))

\* Identities are recycled once nothing remembers them.
remembered == {e.id : e \in effects} \cup markers \cup cycle.todo
                \cup {run.id, sup.id, cycle.id}
newId == Min(1..(Cardinality(remembered) + 1) \ remembered)

\* A new intent; completed ones are pruned.
begun(id) ==
  {e \in effects : e.state # "completed"}
    \cup {[id |-> id, seq |-> status.seq, dispatched |-> FALSE, base |-> "same",
           state |-> "pending"]}

isPending(id) == \E e \in Pending : e.id = id

\* What an intent meets at its authorization and at its completion.
current(id) == \E e \in Pending : e.id = id /\ e.seq = status.seq

\* The completion of an intent: its status is applied, and the invalidated
\* intents that were resolved before are forgotten.
appliedStatus == [status EXCEPT !.applied = status.seq]
completed(id) ==
  {IF e.id = id THEN [e EXCEPT !.state = "completed", !.base = "old"] ELSE e :
     e \in {x \in effects : x.state # "resolved"}}

-----------------------------------------------------------------------------
(* Results *)

\* A cycle that asks for fresh observations is followed by another one, and
\* whoever awaits it keeps waiting.
EndCycle(how) ==
  /\ cycle' = NoCycle /\ cache' = {}
  /\ sup' = IF sup.pc # "awaiting" \/ how = "recollect" THEN sup
            ELSE IF how = "ok" THEN [sup EXCEPT !.pc = "replan"]
            ELSE NoSup

failUnreported(stale, c) ==
  run' = NoRun /\ since' = {} /\ UNCHANGED <<cycle, cache, sup>>

\* A failed run releases the key. The cycle ends, unless it was resuming a
\* pending intent: then it records the diagnostic and goes on.
Fail(stale, c) ==
  /\ run' = NoRun
  /\ \/ /\ run.by \in {"resolve", "phase"}
        /\ EndCycle(IF stale THEN "recollect" ELSE "error")
        /\ UNCHANGED since
     \/ /\ run.by = "resume" /\ cache' = c /\ UNCHANGED <<cycle, sup>>
        /\ Note(IF isPending(run.id) THEN {"commit"} ELSE {})
     \/ /\ run.by = "supervisor" /\ sup' = NoSup /\ since' = {}
        /\ UNCHANGED <<cycle, cache>>

-----------------------------------------------------------------------------
(* A run: executeIssueUpdateMode, or resolveOneInvalidatedGitHubEffect. The *)
(* cycle's runs read through its snapshot, which their own mutations clear; *)
(* the resolver and the supervisor read GitHub.                             *)

Caching   == run.by \in {"resume", "phase"}
Seen      == IF Caching /\ cache # {} THEN CHOOSE v \in cache : TRUE
             ELSE directStatus
Filled    == IF Caching THEN {Seen} ELSE cache
Cleared   == IF Caching THEN {} ELSE cache
\* Only these steps use the run's context.
Network == {"target", "check", "authorize", "ensure", "post", "label",
            "relabel", "verify", "confirm"}
At(pc) == run.pc = pc /\ (pc \in Network => ~run.cancelled)
To(pc) == run' = [run EXCEPT !.pc = pc] /\ UNCHANGED <<cycle, sup, since>>

\* The resolver publishes whatever status is current when it has the key.
RunTarget ==
  /\ At("target")
  /\ run' = [run EXCEPT !.seq = status.seq, !.want = status.want,
                        !.pc = "ensure"]
  /\ UNCHANGED <<ledger, remote, markers, cache, cycle, sup, since, counts,
                 refused>>

RunCheck ==
  /\ At("check")
  /\ cache' = Filled
  /\ run' = [run EXCEPT !.applied = OwnerStatusApplied(Seen, run.seq, run.want),
                        !.pc = "authorize"]
  /\ UNCHANGED <<ledger, remote, markers, cycle, sup, since, counts, refused>>

\* From here on the intent may have reached GitHub.
RunAuthorize ==
  /\ At("authorize")
  /\ \/ /\ current(run.id)
        /\ accept(status, {IF e.id = run.id THEN [e EXCEPT !.dispatched = TRUE]
                           ELSE e : e \in effects})
        /\ run' = [run EXCEPT !.applied = FALSE, !.pc =
                     IF run.applied THEN "confirm" ELSE "ensure"]
        /\ Note(IF Intent(run.id).dispatched THEN {} ELSE {"commit"})
        /\ UNCHANGED <<cache, cycle, sup>>
     \/ ~current(run.id) /\ Fail(TRUE, cache)
        /\ UNCHANGED <<status, effects, refused>>
  /\ UNCHANGED <<attempt, obs, remote, markers, counts>>

\* EnsureOwnerStatus: a later comment on GitHub is an error, an earlier one is
\* followed by ours, and the label is repaired last.
RunEnsure ==
  /\ At("ensure")
  /\ \/ Seen.top > run.seq /\ Fail(FALSE, Filled)
     \/ /\ Seen.top <= run.seq /\ cache' = Filled
        /\ To(IF OwnerStatusApplied(Seen, run.seq, run.want) THEN "confirm"
              ELSE IF Seen.top < run.seq THEN "post" ELSE "label")
  /\ UNCHANGED <<ledger, remote, markers, counts, refused>>

RunPost ==
  /\ At("post")
  /\ comments' = comments \cup {[seq |-> run.seq, asked |-> run.want]}
  /\ cache' = Cleared /\ To("label")
  /\ UNCHANGED <<ledger, label, flight, markers, counts, refused>>

RunLabel ==
  /\ At("label")
  /\ cache' = Filled
  /\ To(IF Seen.label = run.want THEN "verify" ELSE "relabel")
  /\ UNCHANGED <<ledger, remote, markers, counts, refused>>

RunRelabel ==
  /\ At("relabel")
  /\ label' = run.want /\ cache' = Cleared /\ To("verify")
  /\ UNCHANGED <<ledger, comments, flight, markers, counts, refused>>

RunVerify ==
  /\ At("verify")
  /\ IF OwnerStatusApplied(Seen, run.seq, run.want)
     THEN cache' = Filled /\ To("confirm")
     ELSE Fail(FALSE, Filled)
  /\ UNCHANGED <<ledger, remote, markers, counts, refused>>

\* The proof the result rests on. A resolver that does not see its status
\* leaves the intent for the next cycle.
RunConfirm ==
  /\ At("confirm")
  /\ \/ /\ OwnerStatusApplied(Seen, run.seq, run.want) /\ cache' = Filled
        /\ To(IF run.by = "resolve" THEN "settle" ELSE "mark")
     \/ /\ ~OwnerStatusApplied(Seen, run.seq, run.want)
        /\ IF run.by = "resolve"
           THEN run' = NoRun /\ UNCHANGED <<cache, cycle, sup, since>>
           ELSE Fail(FALSE, Filled)
  /\ UNCHANGED <<ledger, remote, markers, counts, refused>>

RunMark ==
  /\ At("mark")
  /\ markers' = markers \cup {run.id} /\ To("finish")
  /\ UNCHANGED <<ledger, remote, cache, counts, refused>>

\* finishReconciliationMarker, under the daemon's context. A result that lost
\* its intent leaves the marker to the next start.
RunFinish ==
  /\ At("finish")
  /\ \/ /\ current(run.id) /\ accept(appliedStatus, completed(run.id))
        /\ run' = [run EXCEPT !.pc = "unmark"] /\ Note({"commit"})
        /\ UNCHANGED <<cache, cycle, sup>>
     \/ /\ Known(run.id) /\ Intent(run.id).state = "completed"
        /\ To("unmark") /\ UNCHANGED <<status, effects, cache, refused>>
     \/ /\ ~current(run.id)
        /\ Known(run.id) => Intent(run.id).state # "completed"
        /\ Fail(TRUE, cache) /\ UNCHANGED <<status, effects, refused>>
  /\ UNCHANGED <<attempt, obs, remote, markers, counts>>

RunUnmark ==
  /\ At("unmark")
  /\ markers' = markers \ {run.id} /\ run' = NoRun
  /\ IF run.by = "supervisor"
     THEN sup' = [sup EXCEPT !.pc = "observe"] /\ UNCHANGED <<cache, cycle>>
     ELSE EndCycle("recollect")
  /\ UNCHANGED <<ledger, remote, since, counts, refused>>

\* The newer status that was published is still the current one.
settles ==
  /\ \E e \in effects : e.id = run.id /\ e.state = "invalidated"
  /\ run.seq = status.seq

\* resolveInvalidatedReconciliationEffect
RunSettle ==
  /\ At("settle")
  /\ IF settles
     THEN /\ accept(appliedStatus,
                    {IF e.id = run.id THEN [e EXCEPT !.state = "resolved"]
                     ELSE e : e \in effects})
          /\ run' = NoRun /\ cycle' = [cycle EXCEPT !.settled = TRUE]
          /\ Note({"commit"}) /\ UNCHANGED <<cache, sup>>
     ELSE Fail(TRUE, cache) /\ UNCHANGED <<status, effects, refused>>
  /\ UNCHANGED <<attempt, obs, remote, markers, counts>>

\* cancelInvalidated, after the operator's commit.
Cancel ==
  /\ run.doomed /\ ~run.cancelled
  /\ run' = [run EXCEPT !.cancelled = TRUE]
  /\ UNCHANGED <<ledger, remote, markers, cache, cycle, sup, since, counts,
                 refused>>

RunCancelled ==
  /\ run.pc \in Network /\ run.cancelled /\ Fail(FALSE, cache)
  /\ UNCHANGED <<ledger, remote, markers, counts, refused>>

\* A read fails, or the run's caller gives up.
RunAbort ==
  /\ run.pc \in Network /\ ~run.cancelled /\ faults < MaxFaults
  /\ faults' = faults + 1 /\ UNCHANGED proposals /\ Fail(FALSE, cache)
  /\ UNCHANGED <<ledger, remote, markers, refused>>

\* A mutation whose answer is lost: GitHub may carry it out at any later time.
RunLost ==
  /\ run.pc \in {"post", "relabel"} /\ faults < MaxFaults
  /\ faults' = faults + 1 /\ UNCHANGED proposals
  /\ flight' = flight \cup
       {[kind |-> IF run.pc = "post" THEN "comment" ELSE "label",
         seq |-> run.seq, on |-> run.want, n |-> faults]}
  /\ Fail(FALSE, Cleared)
  /\ UNCHANGED <<ledger, comments, label, markers, refused>>

-----------------------------------------------------------------------------
(* The reconciliation cycle: cycleFromSnapshot *)

Acquire(by, id) ==
  run' = [NoRun EXCEPT !.by = by, !.id = id, !.seq = Intent(id).seq,
                       !.want = status.want,
                       !.pc = IF by = "resolve" THEN "target" ELSE "check"]

CycleStart ==
  /\ cycle.pc = "idle"
  /\ cycle' = [cycle EXCEPT !.pc = "collect"]
  /\ sup' = IF sup.pc = "await" THEN [sup EXCEPT !.pc = "awaiting"] ELSE sup
  /\ UNCHANGED <<ledger, remote, markers, run, cache, since, counts, refused>>

CycleCollect ==
  /\ cycle.pc = "collect"
  /\ cycle' = [cycle EXCEPT !.pc = "apply", !.seen = directStatus]
  /\ cache' = {directStatus}
  /\ UNCHANGED <<ledger, remote, markers, run, sup, since, counts, refused>>

\* applyReconciliation rewrites the observation when a fact of the issue
\* changed (its generation advances), or after a restart. Other facts of the
\* issue than its status may have changed as well. Runs planned from an older
\* generation are cancelled.
CycleApply ==
  /\ cycle.pc = "apply"
  /\ \E base \in {"same", "refreshed", "old"} :
       /\ base = "same" => obs = [present |-> TRUE, old |-> FALSE,
                                  seen |-> fact(cycle.seen)]
       /\ base = "refreshed" => obs.present /\ obs.seen = fact(cycle.seen)
       /\ obs' = [present |-> TRUE, old |-> FALSE, seen |-> fact(cycle.seen)]
       /\ effects' = {IF base = "same" \/ e.base = "old" THEN e
                      ELSE [e EXCEPT !.base = base] : e \in effects}
       /\ Note(IF base = "same" THEN {} ELSE {"commit", "observation"})
  /\ run' = [run EXCEPT !.cancelled =
               @ \/ /\ run.by # "nobody"
                    /\ ~\E e \in effects' : /\ e.id = run.id /\ e.base # "old"
                                            /\ e.state = "pending"]
  /\ cycle' = [cycle EXCEPT !.pc = "scan", !.seen = NoView]
  /\ UNCHANGED <<status, attempt, remote, markers, cache, sup, counts, refused>>

CycleScan ==
  /\ cycle.pc = "scan"
  /\ cycle' = [cycle EXCEPT !.pc = "resolve",
        !.todo = {e.id : e \in {x \in effects : x.state = "invalidated"}}]
  /\ UNCHANGED <<ledger, remote, markers, run, cache, sup, since, counts,
                 refused>>

\* Every invalidated intent is superseded on GitHub by the current status
\* before anything new is published.
CycleResolve ==
  /\ cycle.pc = "resolve" /\ run.by # "resolve"
  /\ \/ /\ cycle.todo = {} /\ cycle.settled /\ EndCycle("recollect")
        /\ UNCHANGED run
     \/ /\ cycle.todo = {} /\ ~cycle.settled
        /\ cycle' = [cycle EXCEPT !.pc = "resume",
                                  !.todo = {e.id : e \in Pending}]
        /\ UNCHANGED <<run, cache, sup>>
     \/ /\ run = NoRun
        /\ \E id \in cycle.todo :
             /\ Acquire("resolve", id)
             /\ cycle' = [cycle EXCEPT !.todo = @ \ {id}]
        /\ UNCHANGED <<cache, sup>>
  /\ UNCHANGED <<ledger, remote, markers, since, counts, refused>>

\* A marked intent is finished from its marker, without the key; the others
\* run again.
CycleResume ==
  /\ cycle.pc = "resume" /\ run.by # "resume"
  /\ \/ /\ cycle.todo = {} /\ cycle' = [cycle EXCEPT !.pc = "status"]
        /\ UNCHANGED <<markers, run, cache, sup>> /\ Same
     \/ \E id \in cycle.todo \cap markers :
          \/ /\ current(id) /\ accept(appliedStatus, completed(id))
             /\ Note({"commit"})
             /\ markers' = markers \ {id} /\ EndCycle("recollect")
             /\ UNCHANGED run
          \/ /\ Known(id) /\ Intent(id).state = "completed"
             /\ markers' = markers \ {id} /\ EndCycle("recollect")
             /\ UNCHANGED run /\ Same
          \/ /\ ~current(id)
             /\ Known(id) => Intent(id).state # "completed"
             /\ cycle' = [cycle EXCEPT !.todo = @ \ {id}]
             /\ UNCHANGED <<markers, run, cache, sup>> /\ Same
     \/ \E id \in cycle.todo \ markers :
          /\ IF Known(id) THEN run = NoRun /\ Acquire("resume", id)
             ELSE UNCHANGED run
          /\ cycle' = [cycle EXCEPT !.todo = @ \ {id}]
          /\ UNCHANGED <<markers, cache, sup>> /\ Same
  /\ UNCHANGED <<attempt, obs, remote, counts>>

\* runMachineStatusPhase plans from a snapshot and admits the intent; a commit
\* between the two is a stale begin, see CycleFails.
CycleStatus ==
  /\ cycle.pc = "status"
  /\ \/ /\ ~planned(status) /\ cycle' = [cycle EXCEPT !.pc = "runtime"]
        /\ UNCHANGED <<cache, sup>> /\ Same
     \/ /\ planned(status) /\ Pending = {}
        /\ accept(status, begun(newId)) /\ Note({"commit"})
        /\ cycle' = [cycle EXCEPT !.pc = "acquire", !.id = newId]
        /\ UNCHANGED <<cache, sup>>
     \/ \E e \in Pending :
          /\ planned(status) /\ Same
          /\ IF e.seq = status.seq /\ e.base = "same"
             THEN /\ cycle' = [cycle EXCEPT !.pc = "acquire", !.id = e.id]
                  /\ UNCHANGED <<cache, sup>>
             ELSE EndCycle("error")
  /\ UNCHANGED <<attempt, obs, remote, markers, run, counts>>

CycleAcquire ==
  /\ cycle.pc = "acquire" /\ run.by # "phase"
  /\ \/ /\ run = NoRun /\ Known(cycle.id) /\ Acquire("phase", cycle.id)
        /\ UNCHANGED <<cycle, cache, sup>>
     \/ ~Known(cycle.id) /\ EndCycle("recollect") /\ UNCHANGED run
  /\ UNCHANGED <<ledger, remote, markers, since, counts, refused>>

CycleDone ==
  /\ cycle.pc = "runtime" /\ EndCycle("ok")
  /\ UNCHANGED <<ledger, remote, markers, run, since, counts, refused>>

\* The first preparation of the next attempt clears the status, unless an
\* invalidated intent has yet to be resolved.
CycleNewAttempt ==
  /\ cycle.pc = "runtime" /\ status.seq < MaxSeq
  /\ ~\E e \in effects : e.state = "invalidated"
  /\ LET st   == IF status.seq = 0 THEN status
                 ELSE admitted("destructive", FALSE)
         effs == {e \in superseded(effects) : e.state # "completed"}
     IN  \/ /\ accept(st, effs) /\ Note({"commit", "observation"})
            /\ attempt' = TRUE /\ obs' = NoObs /\ EndCycle("recollect")
         \/ /\ refuse(st, effs) /\ EndCycle("error")
            /\ UNCHANGED <<attempt, obs, since>>
  /\ UNCHANGED <<remote, markers, run, counts>>

\* The monitor effect remembers the status it starts from.
CycleMonitorBegin ==
  /\ cycle.pc = "runtime" /\ attempt
  /\ cycle' = [cycle EXCEPT !.pc = "monitor", !.expected = status.seq]
  /\ Note({"commit"})
  /\ UNCHANGED <<ledger, remote, markers, run, cache, sup, counts, refused>>

\* A worker's report is admitted unless another status came first, and is
\* then dropped.
CycleMonitorFinish ==
  /\ cycle.pc = "monitor"
  /\ \/ ~attempt /\ EndCycle("recollect") /\ Same
     \/ /\ attempt /\ Note({"commit"}) /\ EndCycle("ok")
        /\ UNCHANGED <<status, effects, refused>>
     \/ \E want \in BOOLEAN :
          /\ attempt /\ cycle.expected = status.seq /\ status.seq < MaxSeq
          /\ LET st == admitted("worker", want)
             IN  \/ /\ accept(st, superseded(effects)) /\ Note({"commit"})
                    /\ EndCycle("ok")
                 \/ /\ refuse(st, superseded(effects)) /\ EndCycle("error")
                    /\ UNCHANGED since
  /\ UNCHANGED <<attempt, obs, remote, markers, run, counts>>

\* A phase fails, or loses a race for the revision it planned from.
CycleFails ==
  /\ cycle.pc # "idle" /\ run.by \in {"nobody", "supervisor"}
  /\ faults < MaxFaults /\ faults' = faults + 1 /\ UNCHANGED proposals
  /\ \E how \in {"error", "recollect"} : EndCycle(how)
  /\ UNCHANGED <<ledger, remote, markers, run, since, refused>>

-----------------------------------------------------------------------------
(* Destructive operator commands: applyInvalidateAttempt *)

Dismiss ==
  /\ attempt /\ status.seq < MaxSeq
  /\ LET st == admitted("destructive", FALSE)
     IN  \/ /\ accept(st, superseded(effects)) /\ Note({"commit"})
            /\ attempt' = FALSE
            /\ run' = [run EXCEPT !.doomed = run.by # "nobody"]
         \/ refuse(st, superseded(effects)) /\ UNCHANGED <<attempt, run, since>>
  /\ UNCHANGED <<obs, remote, markers, cache, cycle, sup, counts>>

-----------------------------------------------------------------------------
(* The supervisor's status proposals: supervisorProposalServiceV2.process *)

\* The agent proposes from a projection of the ledger.
SupProject(want) ==
  /\ sup.pc = "idle" /\ proposals < MaxProposals /\ proposals' = proposals + 1
  /\ sup' = [NoSup EXCEPT !.pc = "proposed", !.want = want] /\ since' = {}
  /\ UNCHANGED <<ledger, remote, markers, run, cache, cycle, faults, refused>>

\* The admission is bound to the projection; a proposal read again after a
\* restart finds its own status.
SupAdmit ==
  /\ sup.pc = "proposed"
  /\ \/ /\ attempt /\ sup.seq # 0 /\ sup.seq = status.seq
        /\ sup' = [sup EXCEPT !.pc = "admitted",
                     !.plan = IF planned(status) THEN status.seq ELSE 0]
        /\ since' = {} /\ UNCHANGED <<status, effects, refused>>
     \/ /\ attempt /\ since = {} /\ status.seq < MaxSeq
        /\ LET st == admitted("orchestrator", sup.want)
           IN  \/ /\ accept(st, superseded(effects))
                  /\ sup' = [sup EXCEPT !.pc = "admitted", !.seq = st.seq,
                               !.plan = IF planned(st) THEN st.seq ELSE 0]
               \/ refuse(st, superseded(effects)) /\ sup' = NoSup
        /\ UNCHANGED since
     \/ /\ ~attempt \/ since # {} \/ status.seq = MaxSeq
        /\ sup.seq = 0 \/ sup.seq # status.seq \/ ~attempt
        /\ sup' = NoSup /\ since' = {} /\ UNCHANGED <<status, effects, refused>>
  /\ UNCHANGED <<attempt, obs, remote, markers, run, cache, cycle, counts>>

\* The proposal is recorded as running; without an observation to plan from,
\* the supervisor waits for a cycle.
SupRun ==
  /\ sup.pc = "admitted"
  /\ sup' = [sup EXCEPT !.pc = IF sup.plan = 0 THEN "await" ELSE "begin"]
  /\ since' = IF sup.plan = 0 THEN {} ELSE since
  /\ UNCHANGED <<ledger, remote, markers, run, cache, cycle, counts, refused>>

\* applyBeginReconciliationEffect: join the same intent, or begin one from the
\* revision it was planned from.
SupBegin ==
  /\ sup.pc = "begin" /\ since' = {}
  /\ \/ /\ sup.plan = status.seq /\ Pending = {} /\ since = {}
        /\ accept(status, begun(newId))
        /\ sup' = [sup EXCEPT !.pc = "acquire", !.id = newId]
     \/ /\ UNCHANGED <<status, effects, refused>>
        /\ \E e \in Pending :
             /\ sup.plan = status.seq /\ e.seq = sup.plan /\ e.base = "same"
             /\ "observation" \notin since
             /\ sup' = [sup EXCEPT !.pc = "acquire", !.id = e.id]
     \/ /\ \/ sup.plan # status.seq
           \/ Pending = {} /\ since # {}
           \/ \E e \in Pending : e.base # "same" \/ "observation" \in since
        /\ sup' = NoSup /\ UNCHANGED <<status, effects, refused>>
  /\ UNCHANGED <<attempt, obs, remote, markers, run, cache, cycle, counts>>

SupAcquire ==
  /\ sup.pc = "acquire"
  /\ \/ /\ run = NoRun /\ Known(sup.id) /\ Acquire("supervisor", sup.id)
        /\ sup' = [sup EXCEPT !.pc = "executing"]
     \/ ~Known(sup.id) /\ sup' = NoSup /\ UNCHANGED run
  /\ UNCHANGED <<ledger, remote, markers, cache, cycle, since, counts, refused>>

supervisorStatusObserved ==
  sup.seq # 0 /\ sup.seq = status.seq /\ status.applied = status.seq

\* After the cycle it waited for.
SupReplan ==
  /\ sup.pc = "replan"
  /\ sup' = IF planned(status)
            THEN [sup EXCEPT !.pc = "begin", !.plan = status.seq]
            ELSE IF supervisorStatusObserved THEN [sup EXCEPT !.pc = "observe"]
            ELSE NoSup
  /\ since' = {}
  /\ UNCHANGED <<ledger, remote, markers, run, cache, cycle, counts, refused>>

SupObserve ==
  /\ sup.pc = "observe"
  /\ sup' = IF supervisorStatusObserved
            THEN [NoSup EXCEPT !.seq = sup.seq, !.result = "succeeded"]
            ELSE NoSup
  /\ UNCHANGED <<ledger, remote, markers, run, cache, cycle, since, counts,
                 refused>>

\* The five seconds are over.
SupTimeout ==
  /\ sup.pc \in {"begin", "await", "awaiting", "replan", "acquire", "observe"}
  /\ sup' = NoSup /\ since' = {}
  /\ UNCHANGED <<ledger, remote, markers, run, cache, cycle, counts, refused>>

-----------------------------------------------------------------------------
(* A crash, and the next start. Pending intents with a marker are completed, *)
(* the others are diagnosed, and markers without a pending intent reclaimed. *)
(* A proposal that was running has failed; one that was not is read again.   *)

Crash ==
  /\ faults < MaxFaults /\ faults' = faults + 1 /\ UNCHANGED proposals
  /\ IF \E e \in Pending : e.id \in markers /\ current(e.id)
     THEN LET e == CHOOSE x \in Pending : x.id \in markers
          IN  accept(appliedStatus, completed(e.id))
     ELSE UNCHANGED <<status, effects, refused>>
  /\ markers' = {} /\ run' = NoRun /\ cycle' = NoCycle /\ cache' = {}
  /\ obs' = [obs EXCEPT !.old = TRUE]
  /\ sup' = CASE sup.pc = "idle" -> sup
              [] sup.pc \in {"proposed", "admitted"} ->
                   [sup EXCEPT !.pc = "proposed", !.plan = 0]
              [] OTHER -> NoSup
  /\ Note(IF Pending # {} \/ sup.pc = "admitted" THEN {"commit"} ELSE {})
  /\ UNCHANGED <<attempt, remote>>

-----------------------------------------------------------------------------
(* The specification *)

RunNext ==
  \/ RunTarget \/ RunCheck \/ RunAuthorize \/ RunEnsure \/ RunPost \/ RunLabel
  \/ RunRelabel \/ RunVerify \/ RunConfirm \/ RunMark \/ RunFinish \/ RunUnmark
  \/ RunSettle \/ RunCancelled

CycleNext ==
  \/ CycleStart \/ CycleCollect \/ CycleApply \/ CycleScan \/ CycleResolve
  \/ CycleResume \/ CycleStatus \/ CycleAcquire \/ CycleDone \/ CycleNewAttempt
  \/ CycleMonitorBegin \/ CycleMonitorFinish

SupNext ==
  SupAdmit \/ SupRun \/ SupBegin \/ SupAcquire \/ SupReplan \/ SupObserve

Faults == RunAbort \/ RunLost \/ CycleFails \/ Crash

Next ==
  \/ RunNext \/ Cancel \/ CycleNext \/ Dismiss
  \/ \E want \in BOOLEAN : SupProject(want)
  \/ SupNext \/ SupTimeout \/ Faults
  \/ \E m \in flight : Land(m) \/ Drop(m)

\* The key's holder, the cycle and the supervisor go on; a five-second timer
\* fires; a request without an answer is settled. Nobody has to propose,
\* report, dismiss or fail.
Fairness ==
  /\ WF_vars(RunNext) /\ WF_vars(Cancel) /\ WF_vars(CycleNext)
  /\ WF_vars(SupNext) /\ WF_vars(SupTimeout)
  /\ WF_vars(\E m \in flight : Land(m) \/ Drop(m))

Spec == Init /\ [][Next]_vars /\ Fairness

-----------------------------------------------------------------------------
(* Properties *)

Published(seq) == \E c \in comments : c.seq = seq

\* No status is recorded as applied before its comment is on GitHub
\* (AppliedSequence, state_owner.go and reconciliation_effects_v2.go), whichever
\* of the runs, markers and restarts recorded it, and a proposal succeeds ("the
\* owner-issued machine status was observed on GitHub") only when its status was
\* published.
AppliedIsPublished ==
  /\ status.applied # 0 => Published(status.applied)
  /\ \A id \in markers : current(id) => Published(status.seq)
  /\ sup.result = "succeeded" => Published(sup.seq)

\* Once statuses stop coming, the last one is on GitHub for good, and a status
\* that clears attention has removed the label, late requests included.
LatestPublished ==
  <>[](status.seq # 0 => /\ Published(status.seq)
                         /\ status.applied = status.seq
                         /\ ~status.want => ~label)

\* A proposal ends with a result, whatever the cycle it waits for does.
SupervisorFinishes == (sup.pc # "idle") ~> (sup.pc = "idle")

\* "Destructive commands first commit a generation change and tombstone"
\* (docs/architecture.md:32): a command that passed every precondition is not
\* turned down because the state it leads to fails the ledger's validation
\* (finishRuntimeOwnerTransition). The code violates it: an intent resolved
\* after its invalidation blocks every later admission of the issue.
NoAdmissionRefused == ~refused

=============================================================================
