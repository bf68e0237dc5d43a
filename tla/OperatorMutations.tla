-------------------------- MODULE OperatorMutations --------------------------
(***************************************************************************)
(* The operator's requests about one attempt of one issue: Cancel,         *)
(* Recover, Dismiss, Archive and Abandon, from the admission that reserves *)
(* the attempt to the durable receipt a client can replay for ever.        *)
(*                                                                         *)
(* The ledger is one variable and every owner command is one step on it    *)
(* (StateOwner shows why that is sound). Around it run the clients' calls, *)
(* the service's workers, each keyed by a request or by an effect, and the *)
(* reconciliation cycle, which observes GitHub, wakes admissions and       *)
(* publishes terminal failures and retries of its own. The daemon can stop *)
(* between any two steps.                                                  *)
(*                                                                         *)
(* Abstracted: what a request digest covers (an effect is its kind), cycle *)
(* numbers (a captured cycle is the owner's last one or it is not), and    *)
(* the generation of an observation, which is the facts it holds.          *)
(***************************************************************************)
EXTENDS Naturals, Sequences, FiniteSets, FiniteSetsExt

CONSTANTS Requests,     \* request identities the clients use
          Scenes,       \* what the requests ask for, and of which attempt, and
                        \* how many receipts the owner keeps (maxControlReceipts)
          MaxEffects,   \* bound on effect intents
          MaxBoots,     \* bound on daemon starts
          MaxAborts,    \* bound on calls whose client goes away
          Faults        \* do GitHub and the machine fail

Destructive == {"dismiss", "archive", "abandon"}
Actions     == Destructive \cup {"cancel", "recover"}

ASSUME OperatorAssumption ==
  /\ Scenes \subseteq [asks : [Requests -> Actions],
                       man : {"running", "completed", "failed"},
                       slots : Nat \ {0}]
  /\ MaxEffects \in Nat /\ MaxBoots \in Nat \ {0} /\ MaxAborts \in Nat
  /\ Faults \in BOOLEAN

VARIABLES
  asks,     \* the action of each request, fixed by the clients
  slots,    \* the number of receipts the owner keeps, fixed
  ledger,   \* committed owner state of the attempt
  github,   \* the issue on GitHub: listed, closed, its two comments
  process,  \* is the worker's process alive
  tree,     \* do the attempt's worktree and session remain
  markers,  \* effects with a completion marker on disk
  admit,    \* threads preparing an admission: a client's call, a worker
  exec,     \* the goroutine that holds or waits for an effect's key
  boots,    \* daemon starts so far
  aborts    \* bound: calls abandoned so far

world   == <<github, process, tree>>
threads == <<admit, exec>>
vars    == <<asks, slots, ledger, world, markers, threads, boots, aborts>>

-----------------------------------------------------------------------------
(* Types *)

Phases   == {"admission-pending", "cleanup-pending", "cleanup-started",
             "stop-pending", "terminal-awaiting", "terminal-pending",
             "retry-awaiting", "retry-pending", "completed"}
Awaiting == {"terminal-awaiting", "retry-awaiting"}
Sensitive == {"dismiss", "recover"}
Effects  == 1..MaxEffects
States   == {"running", "completed", "failed", "cancelled", "none"}
Facts    == [present : BOOLEAN, closed : BOOLEAN, terminal : BOOLEAN,
             retry : BOOLEAN]

\* An admission pins the generation and the manifest it was reserved for. What
\* it pins of the last observation every applied cycle rebinds.
Admission == [gen : Nat, man : States]
NoAdm     == [gen |-> 0, man |-> "none"]
Receipt   == [id : Requests, phase : Phases, effect : Nat, adm : Admission,
              result : {"none", "ok", "refused"}, diagnosed : BOOLEAN]
Effect    == [kind : {"stop", "cleanup", "failure", "retry"},
              by : Actions \cup {"cycle"},
              status : {"pending", "completed", "gone"}, gen : Nat, facts : Facts]
Ledger    == [gen : Nat, man : States, facts : Facts, fresh : BOOLEAN,
              tomb : [action : Actions \cup {"none"}, effect : Nat,
                      phase : {"none", "pending", "cleanup-started", "completed"}],
              effects : Seq(Effect), receipts : Seq(Receipt)]

\* A thread that prepares an admission holds the snapshot it started from;
\* "seen" is whether the cycle observed in it is still the owner's last.
Thread   == [pc : {"idle", "prepare", "begin"}, gen : Nat, man : States,
             seen : BOOLEAN, plan : {"none", "stop", "cleanup", "retry", "attach"}]
Worker   == [pc : {"idle", "resume", "advance", "authorize", "act", "finish"},
             seen : BOOLEAN]
Idle     == [pc |-> "idle", gen |-> 0, man |-> "none", seen |-> FALSE,
             plan |-> "none"]
Resting  == [pc |-> "idle", seen |-> FALSE]
Callers  == {"call", "worker"} \X Requests

\* Every variable has its type.
TypeOK ==
  /\ asks \in [Requests -> Actions] /\ slots \in Nat
  /\ ledger \in Ledger
  /\ Len(ledger.effects) <= MaxEffects /\ Len(ledger.receipts) <= slots
  /\ github \in Facts /\ process \in BOOLEAN /\ tree \in BOOLEAN
  /\ markers \subseteq Effects
  /\ admit \in [Callers -> Thread]
  /\ exec \in [Effects -> Worker]
  /\ boots \in 1..MaxBoots
  /\ aborts \in 0..MaxAborts

Collected == [present |-> TRUE, closed |-> FALSE, terminal |-> FALSE,
              retry |-> FALSE]

\* A failed attempt has been reported; the first cycle has observed it.
Init ==
  /\ \E s \in Scenes :
       LET f == [Collected EXCEPT !.terminal = (s.man = "failed")] IN
         /\ asks = s.asks /\ slots = s.slots
         /\ ledger = [gen |-> 1, man |-> s.man, facts |-> f, fresh |-> TRUE,
                      tomb |-> [action |-> "none", effect |-> 0, phase |-> "none"],
                      effects |-> <<>>, receipts |-> <<>>]
         /\ github = f
         /\ process \in (IF s.man = "running" THEN BOOLEAN ELSE {FALSE})
  /\ tree = TRUE /\ markers = {}
  /\ admit = [t \in Callers |-> Idle]
  /\ exec = [e \in Effects |-> Resting]
  /\ boots = 1
  /\ aborts = 0

(* An operator that stands directly before a definition and differs from it *)
(* in one detail is that definition with a plausible mistake. No action     *)
(* uses it: putting it in place of the definition must break a property.    *)

-----------------------------------------------------------------------------
(* Receipts and effects *)

open(x)    == x.phase # "completed"
waiting(x) == x.phase = "admission-pending"

\* operatorReceiptByID
has(L, r)     == \E i \in DOMAIN L.receipts : L.receipts[i].id = r
receipt(L, r) == L.receipts[CHOOSE i \in DOMAIN L.receipts : L.receipts[i].id = r]
admitted(L, r) == has(L, r) /\ waiting(receipt(L, r))

\* matchingOperatorAdmissions: one action, one admission.
matching(x, y) ==
  waiting(x) /\ waiting(y) /\ asks[x.id] = asks[y.id] /\ x.adm = y.adm

\* operatorAdmissionLeader: the first receipt of an admission.
leadsAlone(L, r) ==
  \E i \in DOMAIN L.receipts :
    /\ L.receipts[i].id = r /\ waiting(L.receipts[i])
    /\ \A j \in DOMAIN L.receipts \ {i} : ~matching(L.receipts[j], L.receipts[i])
leads(L, r) ==
  \E i \in DOMAIN L.receipts :
    /\ L.receipts[i].id = r /\ waiting(L.receipts[i])
    /\ \A j \in 1..(i - 1) : ~matching(L.receipts[j], L.receipts[i])

pendingEffects(L) == {e \in DOMAIN L.effects : L.effects[e].status = "pending"}
pendingOf(L, kinds) == {e \in pendingEffects(L) : L.effects[e].kind \in kinds}

\* effectReferencedByReceipt, tombstoneReferencesEffect
referenced(L, e) ==
  \/ \E i \in DOMAIN L.receipts : L.receipts[i].effect = e
  \/ L.tomb.effect = e

\* slices.DeleteFunc: what remains of s, in its order, without the indices D.
without(s, D) ==
  LET K == DOMAIN s \ D
  IN  [n \in 1..Cardinality(K) |->
         s[CHOOSE k \in K : Cardinality({j \in K : j <= k}) = n]]
withoutRequest(L, r) ==
  [L EXCEPT !.receipts = without(@, {i \in DOMAIN @ : @[i].id = r})]

\* Deletes those of the effects that nothing refers to.
prune(L, S) ==
  [L EXCEPT !.effects = [e \in DOMAIN @ |->
     IF e \in S /\ ~referenced(L, e)
     THEN [kind |-> @[e].kind, by |-> "cycle", status |-> "gone", gen |-> 0,
           facts |-> Collected]
     ELSE @[e]]]

entry(r, phase, e, adm) ==
  [id |-> r, phase |-> phase, effect |-> e, adm |-> adm, result |-> "none",
   diagnosed |-> FALSE]
pendingEntry(r, phase, e) == entry(r, phase, e, NoAdm)

settled(x, result) ==
  [x EXCEPT !.phase = "completed", !.adm = NoAdm, !.result = result,
            !.diagnosed = FALSE]

onReceipts(L, Op(_)) ==
  [L EXCEPT !.receipts = [i \in DOMAIN @ |-> Op(@[i])]]

\* appendOperatorReceipt evicts the oldest completed receipt of a full list and
\* the completed effect only that receipt referred to.
room(L) ==
  Len(L.receipts) < slots \/ \E i \in DOMAIN L.receipts : ~open(L.receipts[i])
withReceipt(L, x) ==
  IF Len(L.receipts) < slots
  THEN [L EXCEPT !.receipts = Append(@, x)]
  ELSE LET i == Min({j \in DOMAIN L.receipts : ~open(L.receipts[j])})
           M == [L EXCEPT !.receipts = without(@, {i})]
           S == {e \in DOMAIN M.effects : e = L.receipts[i].effect
                                          /\ M.effects[e].status = "completed"}
       IN  [prune(M, S) EXCEPT !.receipts = Append(@, x)]

\* An intent pins the generation and the facts it was planned on.
withIntent(L, kind, by) ==
  [L EXCEPT !.effects = Append(@, [kind |-> kind, by |-> by, status |-> "pending",
                                   gen |-> L.gen, facts |-> L.facts])]
nextId(L) == Len(L.effects) + 1
fits(L)   == Len(L.effects) < MaxEffects

\* completeOperatorReceipts, advanceRecoverReceipts
completeReceipts(L, e) ==
  onReceipts(L, LAMBDA x : IF x.effect = e /\ open(x) THEN settled(x, "ok") ELSE x)
moveReceipts(L, e, from, to, f) ==
  onReceipts(L, LAMBDA x : IF x.phase = from /\ x.effect = e
                           THEN [x EXCEPT !.phase = to, !.effect = f, !.diagnosed = FALSE]
                           ELSE x)
staged(L, e, phases) ==
  \E i \in DOMAIN L.receipts : L.receipts[i].phase \in phases
                               /\ L.receipts[i].effect = e

\* supersedePendingOperatorWorkflows: open receipts of another action are
\* refused, and the effects only they referred to are deleted.
refusing(L, action) ==
  LET other(x) == asks[x.id] # action
      S == {L.receipts[i].effect : i \in {j \in DOMAIN L.receipts : other(L.receipts[j])}}
      M == onReceipts(L, LAMBDA x : IF other(x)
                                    THEN [settled(x, "refused") EXCEPT !.effect = 0] ELSE x)
  IN  prune(M, S \cap DOMAIN M.effects)
supersede(L, action) ==
  LET other(x) == open(x) /\ asks[x.id] # action
      S == {L.receipts[i].effect : i \in {j \in DOMAIN L.receipts : other(L.receipts[j])}}
      M == onReceipts(L, LAMBDA x : IF other(x)
                                    THEN [settled(x, "refused") EXCEPT !.effect = 0] ELSE x)
  IN  prune(M, S \cap DOMAIN M.effects)

\* planReconciliationAttemptIssueUpdates for this attempt: what is to be said
\* on GitHub about an attempt that ended. Recovery is authorised throughout.
plannedByState(L) ==
  IF ~L.facts.present \/ L.man \notin {"failed", "cancelled"} THEN "none"
  ELSE IF L.man = "failed" /\ ~L.facts.terminal THEN "failure"
  ELSE IF L.facts.retry THEN "none" ELSE "retry"
planned(L) ==
  IF ~L.facts.present \/ L.man \notin {"failed", "cancelled"} THEN "none"
  ELSE LET kind == IF ~L.facts.terminal THEN "failure" ELSE "retry"
       IN  IF \/ (L.facts.terminal /\ L.facts.retry)
              \/ \E e \in DOMAIN L.effects :
                   /\ L.effects[e].status = "completed" /\ L.effects[e].kind = kind
                   /\ L.effects[e].gen = L.gen /\ L.effects[e].facts = L.facts
           THEN "none" ELSE kind

-----------------------------------------------------------------------------
(* Transitions of the owner. A transition is refused as stale or as a       *)
(* conflict, or yields the next ledger and the effect to execute, if any.   *)

\* operatorReceiptMatchesEffect, operatorReceiptEffectState
kindOf(x) ==
  CASE asks[x.id] \in Destructive -> "cleanup"
    [] asks[x.id] = "cancel" \/ x.phase \in {"stop-pending", "terminal-awaiting"} -> "stop"
    [] x.phase \in {"terminal-pending", "retry-awaiting"} -> "failure"
    [] OTHER -> "retry"
statusOf(x) == IF x.phase \in Awaiting \cup {"completed"} THEN "completed" ELSE "pending"

\* validateRuntimeOwnerState, which every candidate must pass. All admissions of
\* the attempt are one, and current. A receipt answers a request of its own, has a
\* result when it is completed, and an effect of its kind in the state its phase
\* calls for. An effect that no receipt needs is of the current generation, and a
\* tombstone owns its cleanup.
validAdmissions(L) ==
  LET R == L.receipts IN
  \A i, j \in DOMAIN R : waiting(R[i]) /\ waiting(R[j]) =>
    /\ matching(R[i], R[j])
    /\ R[i].adm = [gen |-> L.gen, man |-> L.man] /\ L.man # "none"
    /\ R[i].effect = 0 /\ ~R[i].diagnosed
    /\ asks[R[i].id] = "recover" => L.facts.present
validReceipts(L) ==
  LET R == L.receipts IN
  /\ Len(R) <= slots
  /\ \A i, j \in DOMAIN R : R[i].id = R[j].id => i = j
  /\ \A i \in DOMAIN R :
       /\ open(R[i]) <=> R[i].result = "none"
       /\ ~waiting(R[i]) => R[i].adm = NoAdm
       /\ open(R[i]) => waiting(R[i]) \/ R[i].effect # 0
       /\ R[i].effect # 0 =>
            /\ R[i].effect \in DOMAIN L.effects
            /\ L.effects[R[i].effect].kind = kindOf(R[i])
            /\ L.effects[R[i].effect].status = statusOf(R[i])
validEffects(L) ==
  \A e \in DOMAIN L.effects :
    \/ L.effects[e].status = "gone" \/ L.effects[e].gen = L.gen
    \/ L.effects[e].status = "completed" /\ \E i \in DOMAIN L.receipts : L.receipts[i].effect = e
validTombstone(L) ==
  L.tomb.action # "none" =>
    /\ L.tomb.effect \in DOMAIN L.effects
    /\ LET x == L.effects[L.tomb.effect] IN
         /\ x.kind = "cleanup" /\ x.gen = L.gen
         /\ x.status = (IF L.tomb.phase = "completed" THEN "completed" ELSE "pending")
valid(L) == validAdmissions(L) /\ validReceipts(L) /\ validEffects(L) /\ validTombstone(L)

Refused(why)   == [refusal |-> why]
Commits(L, e)  == [refusal |-> "none", ledger |-> L, effect |-> e]
\* finishRuntimeOwnerTransition: only an outdated admission makes a request stale.
checked(next) ==
  IF next.refusal # "none" \/ valid(next.ledger) THEN next
  ELSE Refused(IF validAdmissions(next.ledger) THEN "conflict" ELSE "stale")

Joins(L, r, phase, e) ==
  IF room(L) THEN Commits(withReceipt(L, pendingEntry(r, phase, e)), e)
  ELSE Refused("conflict")
Settles(L, r, e) ==
  IF room(L) THEN Commits(withReceipt(L, settled(pendingEntry(r, "completed", e), "ok")), 0)
  ELSE Refused("conflict")

\* replayOperatorTombstone: only the action that left the tombstone is replayed.
replay(L, r) ==
  IF L.tomb.action # asks[r] THEN Refused("conflict")
  ELSE IF L.tomb.phase = "completed" THEN Settles(L, r, L.tomb.effect)
  ELSE Joins(L, r, IF L.tomb.phase = "pending" THEN "cleanup-pending" ELSE "cleanup-started",
             L.tomb.effect)

\* currentRetryEffect: the one retry of this generation.
currentRetry(L) ==
  LET E == {e \in DOMAIN L.effects : /\ L.effects[e].kind = "retry"
                                     /\ L.effects[e].status # "gone"
                                     /\ L.effects[e].gen = L.gen}
  IN  IF Cardinality(E) = 1 THEN E ELSE {}

ongoing(L) == {i \in DOMAIN L.receipts : /\ open(L.receipts[i]) /\ ~waiting(L.receipts[i])
                                         /\ asks[L.receipts[i].id] = "recover"}

\* attachOperatorRecovery: a Recover joins the stage another one has reached,
\* or the retry that is on its way or done.
attaches(L) == ongoing(L) # {} \/ currentRetry(L) # {}
attach(L, r, gen) ==
  IF ongoing(L) # {}
  THEN LET x == L.receipts[Min(ongoing(L))]
       IN  IF L.effects[x.effect].gen = L.gen /\ gen \in {L.gen - 1, L.gen}
           THEN Joins(L, r, x.phase, x.effect) ELSE Refused("conflict")
  ELSE LET e == CHOOSE x \in currentRetry(L) : TRUE
       IN  IF gen # L.gen THEN Refused("conflict")
           ELSE IF L.effects[e].status = "completed" THEN Settles(L, r, e)
           ELSE Joins(L, r, "retry-pending", e)

\* applyBeginRuntimeEffect with Stop: a new generation carries the intent.
beginStop(L, r) ==
  IF pendingOf(L, {"stop"}) # {} THEN Refused("conflict")
  ELSE LET M == [L EXCEPT !.gen = @ + 1]
           N == supersede(withIntent(M, "stop", asks[r]), asks[r])
       IN  Joins(N, r, "stop-pending", nextId(L))

\* applyBeginReconciliationEffect with an issue update.
beginUpdate(L, kind, by) ==
  LET same == {e \in pendingOf(L, {"retry"}) : kind = "retry" /\ L.effects[e].gen = L.gen}
      M == prune(L, {e \in DOMAIN L.effects : L.effects[e].status = "completed"})
  IN  IF L.tomb.action # "none" THEN Refused("stale")
      ELSE IF same # {} THEN Commits(L, Min(same))
      ELSE IF pendingEffects(L) # {} THEN Refused("conflict")
      ELSE Commits(withIntent(M, kind, by), nextId(L))

\* applyInvalidateAttempt: the record gives way to a tombstone that owns the
\* cleanup; other workflows of the attempt end.
invalidate(L, r) ==
  LET M == prune([L EXCEPT !.gen = @ + 1, !.man = "none"], DOMAIN L.effects)
      N == [withIntent(M, "cleanup", asks[r]) EXCEPT
              !.tomb = [action |-> asks[r], effect |-> nextId(L), phase |-> "pending"]]
  IN  Joins(supersede(N, asks[r]), r, "cleanup-pending", nextId(L))

\* validDestructiveOperatorStatus, canDismissClosedAttempt
orphaned(L) == ~L.facts.present
eligible(L, action) ==
  CASE action = "archive" -> L.man = "completed" /\ ~orphaned(L)
    [] action = "abandon" -> L.man # "none" /\ orphaned(L)
    [] action = "dismiss" -> \/ L.man \in {"completed", "failed", "cancelled"}
                             \/ L.man # "none" /\ orphaned(L)
    [] OTHER -> L.man # "none"

\* applyBeginOperatorMutation for a command prepared by thread t. A request
\* without its admission is checked against the owner itself.
transition(L, r, t, own, gen) ==
  LET stops == {e \in pendingOf(L, {"stop"}) : /\ L.effects[e].by = asks[r]
                                               /\ L.effects[e].gen = L.gen}
  IN
  IF L.tomb.action # "none"
  THEN IF gen \in {L.gen - 1, L.gen} THEN replay(L, r) ELSE Refused("stale")
  ELSE IF \/ ~L.facts.present /\ asks[r] \notin {"dismiss", "abandon"}
          \/ ~own /\ ~(L.fresh /\ t.seen)
       THEN Refused("stale")
  ELSE IF asks[r] = "recover" /\ attaches(L) THEN attach(L, r, gen)
  ELSE IF t.plan = "stop" /\ stops # {} THEN Joins(L, r, "stop-pending", Min(stops))
  ELSE IF gen # L.gen \/ t.man # L.man THEN Refused("stale")
  ELSE CASE t.plan = "cleanup" ->
              IF eligible(L, asks[r]) THEN invalidate(L, r) ELSE Refused("conflict")
         [] t.plan = "stop" ->
              IF L.man = "running" THEN beginStop(L, r) ELSE Refused("conflict")
         [] t.plan = "retry" ->
              LET begun == beginUpdate(L, "retry", "recover") IN
                IF begun.refusal = "none"
                THEN Joins(begun.ledger, r, "retry-pending", begun.effect) ELSE begun
         [] OTHER -> Refused("conflict")

\* The admission is used up by the transition, and every request that shares
\* it gets a copy of the receipt.
beginUnchecked(L, r, t) ==
  LET own  == admitted(L, r)
      M    == IF own THEN withoutRequest(L, r) ELSE L
      next == transition(M, r, t, own, IF own THEN receipt(L, r).adm.gen ELSE t.gen)
      isTwin(x) == own /\ x.id # r /\ matching(x, receipt(L, r))
      twins == without(L.receipts, {i \in DOMAIN L.receipts : ~isTwin(L.receipts[i])})
      copied == [i \in DOMAIN twins |->
                   [receipt(next.ledger, r) EXCEPT !.id = twins[i].id]]
  IN  IF has(L, r) /\ ~own
      THEN IF open(receipt(L, r)) THEN Commits(L, receipt(L, r).effect) ELSE Commits(L, 0)
      ELSE IF next.refusal # "none" THEN next
      ELSE LET N == [next.ledger EXCEPT !.receipts =
                       without(@, {i \in DOMAIN @ : isTwin(@[i])}) \o copied]
           IN  checked(Commits(N, next.effect))

begin(L, r, t) ==
  IF /\ admitted(L, r)
     /\ LET A == receipt(L, r).adm IN
          A.gen # L.gen \/ A.man # t.man \/ (asks[r] \in Sensitive /\ ~t.seen)
  THEN Refused("stale") ELSE beginUnchecked(L, r, t)

\* applyReserveOperatorAdmission: one action at a time is admitted.
reserve(L, r) ==
  LET P == {i \in DOMAIN L.receipts : waiting(L.receipts[i])}
      x == L.receipts[Min(P)]
      adm == IF P # {} THEN x.adm ELSE [gen |-> L.gen, man |-> L.man]
  IN  IF \/ P # {} /\ asks[x.id] # asks[r]
         \/ P = {} /\ ~eligible(L, asks[r])
         \/ ~room(L)
         \/ ~valid(withReceipt(L, entry(r, "admission-pending", 0, adm)))
      THEN Refused("conflict")
      ELSE Commits(withReceipt(L, entry(r, "admission-pending", 0, adm)), 0)

\* applyFailOperatorAdmission settles every request of the admission.
failAdmission(L, r) ==
  IF ~admitted(L, r) THEN L
  ELSE LET x == receipt(L, r)
       IN  onReceipts(L, LAMBDA y : IF matching(y, x) THEN settled(y, "refused") ELSE y)

\* What an applied collection does to the attempt: the facts are GitHub's, and
\* sensitive admissions are rebound to them or refused (reconcileOperatorAdmissions).
observedOnly(L) == [L EXCEPT !.facts = github, !.fresh = TRUE]
observed(L) ==
  LET lost(x) == /\ waiting(x)
                 /\ \/ asks[x.id] = "recover" /\ ~github.present
                    \/ asks[x.id] = "dismiss" /\ github.present /\ ~github.closed
  IN  onReceipts([L EXCEPT !.facts = github, !.fresh = TRUE],
                 LAMBDA x : IF lost(x) THEN settled(x, "refused") ELSE x)

\* applyFinishRuntimeEffect with completeOperatorReceipts, and
\* applyFinishReconciliationEffect: a failure is recorded only while the issue
\* is as it was planned on, a retry while it is open.
committable(L, e) ==
  LET x == L.effects[e] IN
    /\ x.status = "pending" /\ x.gen = L.gen
    /\ x.kind = "failure" => L.tomb.action = "none" /\ L.facts = x.facts
    /\ x.kind = "retry" => L.tomb.action = "none" /\ L.facts.present /\ ~L.facts.closed
finish(L, e) ==
  LET M == [L EXCEPT !.effects[e].status = "completed"]
  IN  CASE M.effects[e].kind = "stop" /\ M.effects[e].by = "recover" ->
             moveReceipts([M EXCEPT !.man = "cancelled"], e, "stop-pending", "terminal-awaiting", e)
        [] M.effects[e].kind = "stop" -> completeReceipts([M EXCEPT !.man = "cancelled"], e)
        [] M.effects[e].kind = "failure" ->
             moveReceipts(M, e, "terminal-pending", "retry-awaiting", e)
        [] M.effects[e].kind = "retry" -> completeReceipts(M, e)
        [] OTHER -> completeReceipts([M EXCEPT !.tomb.phase = "completed"], e)

finishable(L, e) == committable(L, e) /\ valid(finish(L, e))

-----------------------------------------------------------------------------
(* Threads *)

\* dispatchResume starts one goroutine per request or effect and finds the ones
\* that are already active. Workers of admissions run for the leaders.
workersOf(L, A) ==
  [t \in Callers |->
     IF t[1] = "worker" /\ leads(L, t[2]) /\ A[t].pc = "idle"
     THEN [Idle EXCEPT !.pc = "prepare", !.gen = L.gen, !.man = L.man, !.seen = TRUE]
     ELSE A[t]]

resumed(E, e) ==
  IF e # 0 /\ E[e].pc = "idle" THEN [E EXCEPT ![e] = [pc |-> "resume", seen |-> FALSE]] ELSE E

\* A new cycle is the owner's last: what a thread saw before no longer is.
unseenA(A) == [t \in Callers |-> [A[t] EXCEPT !.seen = FALSE]]
unseenE(E) == [e \in Effects |-> [E[e] EXCEPT !.seen = FALSE]]

sees(L) == [Idle EXCEPT !.pc = "prepare", !.gen = L.gen, !.man = L.man, !.seen = TRUE]

\* perform: a request the ledger knows is resumed where it stands; a tombstone
\* or another Recover is joined; any other request is admitted first.
Perform(r) ==
  /\ admit[<<"call", r>>].pc = "idle"
  /\ LET L == ledger
         act == asks[r]
         next == IF L.tomb.action # "none" THEN checked(replay(L, r))
                 ELSE IF act = "recover" /\ attaches(L)
                 THEN IF L.fresh /\ L.facts.present
                      THEN checked(attach(L, r, L.gen)) ELSE Refused("stale")
                 ELSE reserve(L, r)
     IN
       IF has(L, r)
       THEN /\ open(receipt(L, r)) /\ UNCHANGED ledger
            /\ IF waiting(receipt(L, r))
               THEN /\ leads(L, r) /\ UNCHANGED exec
                    /\ admit' = [admit EXCEPT ![<<"call", r>>] = sees(L)]
               ELSE /\ exec' = resumed(exec, receipt(L, r).effect)
                    /\ exec' # exec /\ UNCHANGED admit
       ELSE /\ next.refusal = "none"
            /\ ledger' = next.ledger
            /\ exec' = resumed(exec, next.effect)
            /\ admit' = IF leads(next.ledger, r)
                        THEN [admit EXCEPT ![<<"call", r>>] = sees(L)] ELSE admit
  /\ UNCHANGED <<asks, slots, world, markers, boots, aborts>>

\* What a thread of an admission does when it is told "stale": a call leaves the
\* admission to a worker, a worker to the next cycle (resolvedReservedAdmission,
\* pendingReservedAdmission).
stale(t) ==
  /\ admit' = [(IF t[1] = "call" THEN workersOf(ledger, admit) ELSE admit) EXCEPT ![t] = Idle]
  /\ UNCHANGED <<ledger, exec>>

refuse(t) ==
  /\ ledger' = failAdmission(ledger, t[2])
  /\ admit' = [admit EXCEPT ![t] = Idle]
  /\ UNCHANGED exec

\* prepareAdmission: everything that is read or inspected before the owner is
\* asked. An attempt that is not as admitted, or that is not observed, is stale
\* (operatorAttempt); only Dismiss and Abandon may act on one whose issue is gone.
unreadable(L, r, t) ==
  \/ L.man = "none"
  \/ IF admitted(L, r) THEN receipt(L, r).adm.man # t.man ELSE ~L.fresh
  \/ ~L.facts.present /\ asks[r] \notin {"dismiss", "abandon"}

\* What makes a request impossible: Dismiss of an open issue, Recover of a live
\* worker, of a completed attempt, or with no retry to publish or to join.
hopeless(L, r, t) ==
  \/ asks[r] = "dismiss" /\ ~github.closed
  \/ /\ asks[r] = "recover"
     /\ \/ t.man = "running" /\ process
        \/ t.man = "completed"
        \/ /\ t.man \in {"failed", "cancelled"}
           /\ ~github.present \/ (~attaches(L) /\ planned(L) # "retry")

\* Recover of an ended attempt collects the issue and commits what it saw. Any
\* step can fail, and a failure that is no staleness settles the admission.
Prepare(t) ==
  LET r == t[2]
      L == observed(ledger)
      plan(p) == /\ admit' = [admit EXCEPT ![t].pc = "begin", ![t].plan = p]
                 /\ UNCHANGED <<ledger, exec>>
      refreshed(p) == /\ ledger' = L /\ exec' = unseenE(exec)
                      /\ admit' = [unseenA(admit) EXCEPT
                                     ![t] = [pc |-> "begin", gen |-> L.gen, man |-> L.man,
                                             seen |-> TRUE, plan |-> p]]
  IN
  /\ admit[t].pc = "prepare"
  /\ IF unreadable(ledger, r, admit[t]) THEN stale(t)
     ELSE \/ Faults /\ refuse(t)
          \/ hopeless(L, r, admit[t]) /\ refuse(t)
          \/ asks[r] = "cancel" /\ plan("stop")
          \/ asks[r] \in {"archive", "abandon"} /\ plan("cleanup")
          \/ asks[r] = "dismiss" /\ github.closed /\ plan("cleanup")
          \/ asks[r] = "recover" /\ admit[t].man = "running" /\ ~process /\ plan("stop")
          \/ /\ asks[r] = "recover" /\ admit[t].man \in {"failed", "cancelled"}
             /\ github.present
             /\ \/ ~admitted(ledger, r) /\ stale(t)
                \/ admitted(ledger, r) /\ attaches(L) /\ refreshed("attach")
                \/ /\ admitted(ledger, r) /\ ~attaches(L) /\ planned(L) = "retry"
                   /\ refreshed("retry")
  /\ UNCHANGED <<asks, slots, world, markers, boots, aborts>>

\* beginOperatorMutation, and what the thread does with its answer.
Begin(t) ==
  LET r == t[2]
      next == begin(ledger, r, admit[t]) IN
  /\ admit[t].pc = "begin"
  /\ CASE next.refusal = "stale" -> stale(t)
       [] next.refusal = "conflict" -> refuse(t)
       [] OTHER -> /\ Len(next.ledger.effects) <= MaxEffects
                   /\ ledger' = next.ledger
                   /\ exec' = IF next.effect = 0 THEN exec
                              ELSE [exec EXCEPT ![next.effect].pc =
                                      IF @ # "idle" THEN @
                                      ELSE IF staged(next.ledger, next.effect, Awaiting)
                                              \/ admit[t].plan = "attach"
                                      THEN "resume" ELSE "authorize"]
                   /\ admit' = [admit EXCEPT ![t] = Idle]
  /\ UNCHANGED <<asks, slots, world, markers, boots, aborts>>

\* The client of a call that still prepares goes away: abortReservedAdmission
\* deletes its receipt, and other admissions are woken.
Abort(r) ==
  LET t == <<"call", r>>
      L == withoutRequest(ledger, r) IN
  /\ admit[t].pc = "prepare" /\ admitted(ledger, r) /\ aborts < MaxAborts
  /\ ledger' = L
  /\ admit' = workersOf(L, [admit EXCEPT ![t] = Idle])
  /\ aborts' = aborts + 1
  /\ UNCHANGED <<asks, slots, world, markers, exec, boots>>

-----------------------------------------------------------------------------
(* Execution of an effect *)

pcOf(e, pc) == [exec EXCEPT ![e] = [pc |-> pc, seen |-> FALSE]]

\* diagnosed receipts are not resumed at the next start.
diagnose(L, e) ==
  onReceipts(L, LAMBDA x : IF x.effect = e /\ x.phase \in Awaiting
                           THEN [x EXCEPT !.diagnosed = TRUE] ELSE x)

\* resumeReceiptReserved: an awaiting receipt collects the issue for its next
\* stage; a marker is committed; a runtime effect is executed again; an issue
\* update without a marker is looked for on GitHub and otherwise must be
\* planned again exactly as it was (resumeUnmarkedReconciliation).
Resume(e) ==
  LET x == ledger.effects[e]
      L == observed(ledger)
      after(pc) == [unseenE(exec) EXCEPT ![e] = [pc |-> pc, seen |-> pc = "advance"]]
      collects(M, pc) == /\ ledger' = M /\ exec' = after(pc) /\ admit' = unseenA(admit)
      goes(pc) == exec' = pcOf(e, pc) /\ UNCHANGED <<ledger, admit, markers>>
  IN
  /\ exec[e].pc = "resume"
  /\ IF staged(ledger, e, Awaiting)
     THEN /\ \/ collects(L, "advance")
             \/ /\ Faults /\ ledger' = diagnose(ledger, e) /\ exec' = pcOf(e, "idle") /\ UNCHANGED admit
          /\ UNCHANGED markers
     ELSE IF x.status # "pending" THEN goes("idle")
     ELSE IF e \in markers THEN goes("finish")
     ELSE IF x.kind \in {"stop", "cleanup"} THEN goes("authorize")
     ELSE \/ Faults /\ goes("idle")
          \/ IF x.kind = "retry" /\ github.retry
             THEN collects(L, "finish") /\ markers' = markers \cup {e}
             ELSE /\ IF planned(L) = x.kind /\ L.facts = x.facts
                     THEN collects(L, "authorize") ELSE collects(L, "idle")
                  /\ UNCHANGED markers
  /\ UNCHANGED <<asks, slots, world, boots, aborts>>

\* prepareRecoveryAdmission and advanceOperatorRecovery: the next stage of every
\* Recover that waits for this effect. No such plan leaves a diagnostic.
Advance(e) ==
  LET from == IF staged(ledger, e, {"terminal-awaiting"})
              THEN "terminal-awaiting" ELSE "retry-awaiting"
      kind == IF from = "terminal-awaiting" THEN "failure" ELSE "retry"
      next == beginUpdate(ledger, kind, "recover")
      to   == IF kind = "failure" THEN "terminal-pending" ELSE "retry-pending"
  IN
  /\ exec[e].pc = "advance"
  /\ IF ~staged(ledger, e, Awaiting) \/ ~exec[e].seen
     THEN exec' = pcOf(e, "idle") /\ UNCHANGED ledger
     ELSE IF planned(ledger) # kind
     THEN ledger' = diagnose(ledger, e) /\ exec' = pcOf(e, "idle")
     ELSE IF next.refusal # "none"
     THEN exec' = pcOf(e, "idle") /\ UNCHANGED ledger
     ELSE /\ Len(next.ledger.effects) <= MaxEffects
          /\ ledger' = moveReceipts(next.ledger, e, from, to, next.effect)
          /\ exec' = [pcOf(e, "idle") EXCEPT ![next.effect].pc =
                         IF @ = "idle" THEN "authorize" ELSE @]
  /\ UNCHANGED <<asks, slots, world, markers, admit, boots, aborts>>

class(e) == ledger.effects[e].kind \in {"stop", "cleanup"}
\* The key of the attempt, or of the issue, admits one executor.
keyTaken(e) == \E f \in Effects \ {e} : /\ exec[f].pc \in {"act", "finish"}
                                        /\ class(f) = class(e)

\* authorizeRuntimeEffect (with startOperatorCleanup) and
\* authorizeReconciliationEffect, asked with the key held.
Authorize(e) ==
  LET x == ledger.effects[e]
      current == /\ x.status = "pending" /\ x.gen = ledger.gen
                 /\ ~class(e) => ledger.tomb.action = "none" /\ ledger.facts = x.facts
  IN
  /\ exec[e].pc = "authorize" /\ ~keyTaken(e)
  /\ IF ~current THEN exec' = pcOf(e, "idle") /\ UNCHANGED ledger
     ELSE /\ exec' = pcOf(e, "act")
          /\ ledger' = IF x.kind # "cleanup" THEN ledger
                       ELSE [onReceipts(ledger, LAMBDA y : IF y.effect = e /\ open(y)
                               THEN [y EXCEPT !.phase = "cleanup-started"] ELSE y)
                             EXCEPT !.tomb.phase = "cleanup-started"]
  /\ UNCHANGED <<asks, slots, world, markers, admit, boots, aborts>>

\* What the effect does to the world. It may fail before it does anything, or
\* after: a terminal comment whose answer is lost is an error, a retry comment
\* is looked for again. Success leaves a marker.
physical(e) ==
  CASE ledger.effects[e].kind = "stop"    -> process' = FALSE /\ UNCHANGED <<tree, github>>
    [] ledger.effects[e].kind = "cleanup" -> process' = FALSE /\ tree' = FALSE /\ UNCHANGED github
    [] ledger.effects[e].kind = "failure" -> /\ github' = [github EXCEPT !.terminal = TRUE]
                                             /\ UNCHANGED <<process, tree>>
    [] ledger.effects[e].kind = "retry"   -> /\ github' = [github EXCEPT !.retry = TRUE]
                                             /\ UNCHANGED <<process, tree>>
    [] OTHER -> UNCHANGED world
ActMarksFirst(e) ==
  /\ exec[e].pc = "act"
  /\ \/ physical(e) /\ exec' = pcOf(e, "finish")
     \/ Faults /\ exec' = pcOf(e, "idle") /\ UNCHANGED world
  /\ markers' = markers \cup {e}
  /\ UNCHANGED <<asks, slots, ledger, admit, boots, aborts>>
Act(e) ==
  /\ exec[e].pc = "act"
  /\ \/ physical(e) /\ markers' = markers \cup {e} /\ exec' = pcOf(e, "finish")
     \/ /\ Faults /\ physical(e) /\ ledger.effects[e].kind # "retry"
        /\ exec' = pcOf(e, "idle") /\ UNCHANGED markers
     \/ Faults /\ exec' = pcOf(e, "idle") /\ UNCHANGED <<world, markers>>
  /\ UNCHANGED <<asks, slots, ledger, admit, boots, aborts>>

\* finishOperatorRuntimeEffect, finishReconciliationMarker: the marker goes with
\* the commit, and receipts that now wait for a further stage are resumed.
Finish(e) ==
  /\ exec[e].pc = "finish"
  /\ IF finishable(ledger, e)
     THEN /\ ledger' = finish(ledger, e)
          /\ markers' = markers \ {e}
          /\ exec' = pcOf(e, IF staged(finish(ledger, e), e, Awaiting) THEN "resume" ELSE "idle")
     ELSE /\ exec' = pcOf(e, "idle") /\ UNCHANGED <<ledger, markers>>
  /\ UNCHANGED <<asks, slots, world, admit, boots, aborts>>

-----------------------------------------------------------------------------
(* The reconciliation cycle, the world, and restarts *)

\* A cycle applies what it collected and wakes the admissions that still wait.
Observe ==
  LET L == observed(ledger) IN
  /\ ledger' = L
  /\ admit' = workersOf(L, unseenA(admit))
  /\ exec' = unseenE(exec)
  /\ UNCHANGED <<asks, slots, world, markers, boots, aborts>>

\* runIssueUpdatePhase: the cycle publishes what its facts call for, whether or
\* not a Recover is about to.
Publish ==
  LET kind == planned(ledger)
      next == beginUpdate(ledger, kind, "cycle") IN
  /\ ledger.fresh /\ kind # "none" /\ next.refusal = "none"
  /\ Len(next.ledger.effects) <= MaxEffects
  /\ exec[next.effect].pc = "idle"
  /\ ledger' = next.ledger
  /\ exec' = pcOf(next.effect, "authorize")
  /\ UNCHANGED <<asks, slots, world, markers, admit, boots, aborts>>

\* Pending effects that no receipt will resume are the cycle's.
ResumePending(e) ==
  /\ e \in pendingEffects(ledger) /\ exec[e].pc = "idle" /\ ledger.fresh
  /\ ~\E i \in DOMAIN ledger.receipts : /\ open(ledger.receipts[i])
                                        /\ ledger.receipts[i].effect = e
  /\ exec' = resumed(exec, e)
  /\ UNCHANGED <<asks, slots, ledger, world, markers, admit, boots, aborts>>

\* The issue is closed, and a closed issue is no longer listed.
World ==
  /\ \/ ~github.closed /\ github' = [github EXCEPT !.closed = TRUE]
     \/ github.closed /\ github.present /\ github' = [github EXCEPT !.present = FALSE]
  /\ UNCHANGED <<asks, slots, ledger, process, tree, markers, threads, boots, aborts>>

\* The process ends anywhere and starts again: resumePending wakes admissions,
\* receipts with an effect, and stages nobody has diagnosed.
Restart ==
  LET L == [ledger EXCEPT !.fresh = FALSE]
      due(e) == \E i \in DOMAIN L.receipts :
                  /\ L.receipts[i].effect = e
                  /\ open(L.receipts[i]) /\ ~waiting(L.receipts[i])
                  /\ L.receipts[i].phase \in Awaiting => ~L.receipts[i].diagnosed
  IN
  /\ boots < MaxBoots
  /\ ledger' = L
  /\ admit' = workersOf(L, [t \in Callers |-> Idle])
  /\ exec' = [e \in Effects |-> IF due(e) THEN [pc |-> "resume", seen |-> FALSE] ELSE Resting]
  /\ boots' = boots + 1
  /\ UNCHANGED <<asks, slots, world, markers, aborts>>

ExecStep(e) == Resume(e) \/ Advance(e) \/ Authorize(e) \/ Act(e) \/ Finish(e)

Next ==
  \/ \E r \in Requests : Perform(r) \/ Abort(r)
  \/ \E t \in Callers : Prepare(t) \/ Begin(t)
  \/ \E e \in Effects : ExecStep(e) \/ ResumePending(e)
  \/ Observe \/ Publish \/ World \/ Restart

Spec == Init /\ [][Next]_vars

callable(r) ==
  /\ admit[<<"call", r>>].pc = "idle"
  /\ IF has(ledger, r)
     THEN /\ open(receipt(ledger, r))
          /\ IF waiting(receipt(ledger, r)) THEN leads(ledger, r)
             ELSE exec[receipt(ledger, r).effect].pc = "idle"
     ELSE ledger.tomb.action = "none" /\ reserve(ledger, r).refusal = "none"
news == \/ observed(ledger) # ledger
        \/ \E r \in Requests : leads(ledger, r) /\ admit[<<"worker", r>>].pc = "idle"
due  == /\ ledger.fresh /\ planned(ledger) # "none" /\ fits(ledger)
        /\ pendingEffects(ledger) = {} /\ ledger.tomb.action = "none"
runs(e) == /\ exec[e].pc # "idle" /\ fits(ledger)
           /\ exec[e].pc = "authorize" => ~keyTaken(e)

\* Goroutines run and cycles come; clients, the world and restarts need not. Each
\* conjunct is weak fairness with the enabling condition spelled out, which TLC
\* evaluates faster than ENABLED.
Fairness ==
  /\ \A t \in Callers :
       /\ []<>(admit[t].pc # "prepare") \/ []<><<Prepare(t)>>_vars
       /\ []<>(admit[t].pc # "begin" \/ ~fits(ledger)) \/ []<><<Begin(t)>>_vars
  /\ \A e \in Effects : []<>(~runs(e)) \/ []<><<ExecStep(e)>>_vars
  /\ \A e \in Effects : WF_vars(ResumePending(e))
  /\ []<>(~news) \/ []<><<Observe>>_vars
  /\ []<>(~due) \/ []<><<Publish>>_vars
FairSpec == Spec /\ Fairness

-----------------------------------------------------------------------------
(* Properties *)

\* Commands that reserve an admission, begin, replay or join a mutation, or finish an
\* effect can be refused for what they would leave; no other command leaves a ledger
\* that the next daemon could not load and resume (validateRuntimeOwnerState,
\* resumePending).
LedgerValid == valid(ledger)

\* What a receipt reports as done is done, whoever executed it and however often
\* it was joined, replayed or resumed (completeOperatorReceipts, attach).
HonestResults ==
  \A i \in DOMAIN ledger.receipts :
    LET x == ledger.receipts[i] IN
    x.result = "ok" =>
      CASE asks[x.id] = "cancel"  -> ~process
        [] asks[x.id] = "recover" -> github.retry
        [] OTHER -> ~tree

\* Nothing of an attempt is removed before its tombstone says that the removal
\* has started (startOperatorCleanup), and a retry is asked for on GitHub only
\* after the terminal failure it follows.
NothingUnannounced ==
  /\ ~tree => ledger.tomb.phase \in {"cleanup-started", "completed"}
  /\ github.retry => github.terminal

\* An attempt is destroyed once, by one action, and the answer a client has been
\* given is never taken back: a settled receipt stays as it is until it is
\* evicted.
SettledStays ==
  [][/\ ledger.tomb.action # "none" =>
          ledger'.tomb.action = ledger.tomb.action /\ ledger'.tomb.effect = ledger.tomb.effect
     /\ \A r \in Requests :
          has(ledger, r) /\ ~open(receipt(ledger, r)) /\ has(ledger', r) =>
            receipt(ledger', r).result = receipt(ledger, r).result]_vars

\* An admission that pins no observation is decided while the issue is listed:
\* it does not block the attempt for ever, even if its client leaves or the daemon
\* stops (scanPendingAdmissions, resumePending).
AdmissionSettles ==
  \A r \in Requests :
    (admitted(ledger, r) /\ asks[r] \notin Sensitive)
      ~> (~admitted(ledger, r) \/ orphaned(ledger))

=============================================================================
