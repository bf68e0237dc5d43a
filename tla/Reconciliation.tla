--------------------------- MODULE Reconciliation ---------------------------
(***************************************************************************)
(* What GitHub says and what the owner does about it: cycles and operators *)
(* collect an issue's facts at their own pace, the owner reduces and       *)
(* applies them, and the cycle schedules, prepares, binds, starts,         *)
(* monitors and publishes attempts from the owner's state, records their   *)
(* failures and asks for the retry, while people edit the issues and       *)
(* operators stop and discard attempts.                                    *)
(*                                                                         *)
(* Abstracted: an issue is read at one instant; labels, filter, priority,  *)
(* dependencies and cancellation are the one flag "ready"; all issues have *)
(* one priority; a pull request is merged or stays open; the generations   *)
(* of an observation, which pin effects, are left out, and its owner's     *)
(* generation, which every valid ledger keeps equal to the issue's; a      *)
(* cancelled attempt is a failed one; beginning and finishing an effect is *)
(* one step where nothing of this module can come between them. Reviews,   *)
(* handoffs and machine statuses are in modules of their own.              *)
(***************************************************************************)
EXTENDS Integers, FiniteSets, FiniteSetsExt

CONSTANTS Issues,      \* the repository's issues
          MaxAttempt,  \* bound on the attempts of an issue
          Cycle,       \* the reconciliation cycle
          Operators,   \* operators' requests that collect one issue
          Capacity,    \* concurrency
          Overlaps,    \* pairs of issues whose path scopes overlap
          MaxCycles,   \* bound on the collections begun in one boot
          MaxEdits,    \* bound on what people change on GitHub
          MaxBoots     \* bound on daemon starts

ASSUME ReconciliationAssumption ==
  /\ Issues \subseteq Nat \ {0} /\ IsFiniteSet(Issues)
  /\ MaxAttempt \in Nat \ {0} /\ Capacity \in Nat \ {0}
  /\ Cycle \notin Operators
  /\ \A pair \in Overlaps : pair \subseteq Issues
  /\ MaxCycles \in Nat /\ MaxEdits \in Nat /\ MaxBoots \in Nat \ {0}

VARIABLES
  ledger,   \* the owner's durable state, by issue
  github,   \* the issues, their markers and pull requests
  cycleID,  \* collections begun since the start
  applied,  \* appliedCycles: the newest collection applied to an issue
  collect,  \* what each collector has captured and read
  newest,   \* history: the newest collection an issue accepted since the start
  bounds    \* edits and daemon starts so far

vars == <<ledger, github, cycleID, applied, collect, newest, bounds>>

Attempts   == 1..MaxAttempt
Collectors == Operators \cup {Cycle}
NoRetry    == -1

\* The facts of no issue.
NoFact == [attempt |-> 0, current |-> 0, active |-> FALSE, completed |-> FALSE,
           retry |-> FALSE, authorized |-> FALSE, recoverable |-> FALSE,
           binding |-> 0, terminals |-> {}]
Nothing    == [a \in Attempts |-> "none"]
Unlisted   == [listed |-> FALSE, fact |-> NoFact, listing |-> Nothing]
Unobserved == [known |-> FALSE, current |-> FALSE, present |-> FALSE,
               fact |-> NoFact, entries |-> Nothing]
Idle == [phase |-> "idle", id |-> 0, scope |-> {},
         gen |-> [i \in Issues |-> 0],
         attemptGen |-> [i \in Issues |-> [a \in Attempts |-> 0]],
         seen |-> [i \in Issues |-> Unlisted]]

Facts == [attempt : 0..(MaxAttempt + 1), current : {0} \cup Attempts,
          active : BOOLEAN, completed : BOOLEAN, retry : BOOLEAN,
          authorized : BOOLEAN, recoverable : BOOLEAN,
          binding : {0} \cup Attempts, terminals : SUBSET Attempts]
Remote == [Attempts -> {"none", "active", "blocked", "completed", "failed"}]
Phases == {"idle", "read", "apply", "prepare", "bind", "start", "monitor",
           "publish", "update"}

TypeOK ==
  /\ ledger \in [Issues ->
       [gen : Nat, attemptGen : [Attempts -> Nat], tombs : SUBSET Attempts,
        attempts : [Attempts -> {"none", "preparing", "running", "watched",
                                 "completed", "failed"}],
        obs : [known : BOOLEAN, current : BOOLEAN, present : BOOLEAN,
               fact : Facts, entries : Remote]]]
  /\ github \in [Issues ->
       [ready : BOOLEAN, open : BOOLEAN, retry : {NoRetry} \cup 0..MaxAttempt,
        bound : SUBSET Attempts, failed : SUBSET Attempts,
        pulls : [Attempts -> {"none", "open", "merged"}]]]
  /\ cycleID \in 0..MaxCycles
  /\ applied \in [Issues -> 0..MaxCycles]
  /\ \A c \in Collectors : collect[c].phase \in Phases
  /\ newest \in [Issues ->
       [id : 0..MaxCycles, attemptGen : [Attempts -> Nat],
        seen : [listed : BOOLEAN, fact : Facts, listing : Remote]]]
  /\ bounds \in [edits : 0..MaxEdits, boots : 1..MaxBoots]

\* GitHub may already hold the binding of an attempt the ledger has lost.
Init ==
  /\ ledger = [i \in Issues |->
       [gen |-> 0, attemptGen |-> [a \in Attempts |-> 0], tombs |-> {},
        attempts |-> Nothing, obs |-> Unobserved]]
  /\ \E lost \in [Issues -> {{}, {1}}] :
       github = [i \in Issues |->
         [ready |-> TRUE, open |-> TRUE, retry |-> NoRetry, bound |-> lost[i],
          failed |-> {}, pulls |-> Nothing]]
  /\ cycleID = 0
  /\ applied = [i \in Issues |-> 0]
  /\ collect = [c \in Collectors |-> Idle]
  /\ newest = [i \in Issues |->
       [id |-> 0, attemptGen |-> [a \in Attempts |-> 0], seen |-> Unlisted]]
  /\ bounds = [edits |-> 0, boots |-> 1]

(* An operator that stands directly before a definition and differs from it *)
(* in one detail is that definition with a plausible mistake. No action     *)
(* uses it: putting it in place of the definition must break a property.    *)

-----------------------------------------------------------------------------
(* The facts of an issue, as a collection reads them *)

highest(S) == Max(S \cup {0})

\* fetchActiveAttempts, fetchTerminalFailures: bindings neither failed nor published
unresolved(g) == {a \in g.bound \ g.failed : g.pulls[a] = "none"}
binding(g)    == IF unresolved(g) = {} THEN 0 ELSE Min(unresolved(g))
merged(g)     == {a \in Attempts : g.pulls[a] = "merged"}
published(g)  == {a \in Attempts : g.pulls[a] = "open" /\ g.open}
pulled(g)     == {a \in Attempts : g.pulls[a] # "none"}
\* A second unresolved binding contradicts the first.
conflict(g)   == Cardinality(unresolved(g)) > 1

unretriedAny(g) == g.failed # {} /\ g.retry = NoRetry
\* retryAuthorizesFailure: the retry must be later than the last failure.
unretried(g) == g.failed # {} /\ g.retry < Max(g.failed)

\* fetchRecoveryIssueFact
fact(g) ==
  LET next == highest(pulled(g) \cup g.failed \cup {binding(g)}) + 1 IN
  [attempt     |-> IF binding(g) > 0 THEN binding(g)
                   ELSE IF published(g) # {} THEN Max(published(g)) ELSE next,
   current     |-> highest(pulled(g) \cup g.failed \cup {binding(g)}),
   active      |-> published(g) # {} \/ binding(g) > 0,
   completed   |-> merged(g) # {},
   retry       |-> g.retry # NoRetry,
   authorized  |-> g.ready /\ g.open /\ ~conflict(g) /\ ~unretried(g),
   recoverable |-> g.ready /\ g.open /\ ~conflict(g) /\ merged(g) = {},
   binding     |-> binding(g),
   terminals   |-> g.bound \cap g.failed]

\* The attempts the collection lists, fetchRecoveryAttemptFact for published ones.
listing(g) ==
  [a \in Attempts |->
     IF g.pulls[a] = "merged" THEN "completed"
     ELSE IF g.pulls[a] = "open" THEN (IF g.open THEN "active" ELSE "blocked")
     ELSE IF a = binding(g) THEN "active"
     ELSE IF a \in g.bound \cap g.failed THEN "failed" ELSE "none"]

\* fetchIssueFacts, collectionFromSnapshot: open issues, and completed ones.
reads(g) ==
  IF g.open \/ merged(g) # {}
  THEN [listed |-> TRUE, fact |-> fact(g), listing |-> listing(g)]
  ELSE Unlisted

-----------------------------------------------------------------------------
(* Applying a collection *)

owned(L) == {a \in Attempts : L.attempts[a] # "none"}

\* reconciliationIssueGenerationMatches
matches(x, i) ==
  LET L == ledger[i] IN
  x.gen[i] = L.gen \/ (x.gen[i] = 0 /\ L.gen = 1 /\ L.obs.known)

\* The issues a collection says something about.
concerns(c, i) ==
  LET L == ledger[i] IN
  /\ i \in collect[c].scope
  /\ collect[c].seen[i].listed \/ L.obs.known \/ owned(L) # {} \/ c # Cycle

\* maskStaleIssueAttemptFacts: facts of attempts that have moved on since.
masked(f, gens, L) ==
  LET stands(a) == gens[a] # 0 /\ gens[a] = L.attemptGen[a] /\ a \notin L.tombs
  IN [f EXCEPT !.binding = IF @ # 0 /\ stands(@) THEN @ ELSE 0,
               !.terminals = {a \in @ : stands(a)}]

\* applyReconciliationIssue, and the absence of an issue no longer listed.
reduced(L, s, gens) ==
  LET same(a) == gens[a] = L.attemptGen[a]
      f == masked(s.fact, gens, L)
      kept == IF L.obs.present /\ L.obs.fact = f THEN L.obs.entries ELSE Nothing
      entries == [a \in Attempts |->
        IF s.listing[a] # "none" /\ same(a) /\ a \notin L.tombs THEN s.listing[a]
        ELSE IF s.listing[a] = "none" /\ same(a) /\ L.attemptGen[a] # 0 THEN "none"
        ELSE kept[a]]
  IN IF s.listed
     THEN [L EXCEPT !.gen = Max({@, 1}),
                    !.obs = [known |-> TRUE, current |-> TRUE, present |-> TRUE,
                             fact |-> f, entries |-> entries]]
     ELSE [L EXCEPT !.obs = [Unobserved EXCEPT !.known = TRUE, !.current = TRUE]]

\* deleteAttemptObservation
forgets(o, a) ==
  [o EXCEPT !.entries[a] = "none", !.fact.binding = IF @ = a THEN 0 ELSE @,
            !.fact.terminals = @ \ {a}]

\* currentReconciliationObservation
current(L) == L.gen # 0 /\ L.obs.known /\ L.obs.present /\ L.obs.current

\* observedReconciliationAttempt
observed(L, a) ==
  IF L.obs.entries[a] # "none" THEN L.obs.entries[a]
  ELSE IF L.obs.fact.binding = a THEN "active"
  ELSE IF a \in L.obs.fact.terminals THEN "failed" ELSE "none"

-----------------------------------------------------------------------------
(* Scheduling and planning *)

eligible(f) == f.authorized /\ ~f.active /\ ~f.completed

\* capacityBlocker, scopeConflict: room beside the issues that are locked.
fits(i, locks) ==
  Cardinality(locks) < Capacity /\ \A j \in locks : {i, j} \notin Overlaps

\* Schedule: those that fit beside the busy ones and the ones before them.
Schedule(busy, waiting) ==
  UNION {S \in SUBSET waiting :
           \A i \in waiting : i \in S <=> fits(i, busy \cup {j \in S : j < i})}

\* What the planner schedules: the issues' current observations.
runnable ==
  Schedule({i \in Issues : current(ledger[i]) /\ ledger[i].obs.fact.active
                           /\ ~ledger[i].obs.fact.completed},
           {i \in Issues : current(ledger[i]) /\ eligible(ledger[i].obs.fact)})

noReplacement(L, n) == 0
\* currentPreparingReplacement
replacement(L, n) ==
  highest({a \in Attempts : a > n /\ L.attempts[a] = "preparing"})

\* firstUnreservedAttempt; none above the bound on attempts.
unreserved(L, n) ==
  LET free == {a \in Attempts : a >= n /\ L.attemptGen[a] = 0} IN
  IF free = {} THEN 0 ELSE Min(free)

\* The attempt planRuntimeLifecycle considers for an issue.
target(L) ==
  LET f == L.obs.fact
      n == IF f.binding # 0 THEN f.binding ELSE f.attempt IN
  IF n \in Attempts /\ (observed(L, n) = "active" \/ L.attempts[n] # "none") THEN n
  ELSE IF replacement(L, n) # 0 THEN replacement(L, n)
  ELSE unreserved(L, n)

\* planRuntimeLifecycle, for an issue of the cycle's own collection.
Plans(action, i) ==
  LET L == ledger[i]  a == target(L) IN
  /\ i \in collect[Cycle].scope
  /\ current(L) /\ L.obs.fact.authorized
  /\ a # 0 /\ a \notin L.tombs
  /\ CASE action = "prepare" ->
            /\ L.attempts[a] = "none" /\ L.attemptGen[a] = 0
            /\ i \in runnable \/ observed(L, a) = "active"
       [] action = "start" ->
            L.attempts[a] = "preparing" /\ observed(L, a) = "active"
       [] action = "monitor" -> L.attempts[a] = "running"

Planned(action) == {i \in Issues : Plans(action, i)}

\* planReconciliationBinds, reconciliationBindMatchesObservation
binds(i, a) ==
  LET L == ledger[i]  f == L.obs.fact IN
  /\ L.attempts[a] = "preparing" /\ L.obs.present /\ f.authorized
  /\ \/ f.attempt = a
     \/ /\ replacement(L, f.attempt) = a
        /\ \A b \in Attempts : L.obs.entries[b] # "active"
  /\ observed(L, a) # "active"

Pairs == Issues \X Attempts
Before(p, q) == p[1] < q[1] \/ (p[1] = q[1] /\ p[2] < q[2])
First(S) == CHOOSE p \in S : \A q \in S \ {p} : Before(p, q)

Binds == {p \in Pairs : binds(p[1], p[2])}

\* executionCandidates, planReconciliationPublications: reviewed clean work.
Publications ==
  {p \in Pairs : /\ p[1] \in collect[Cycle].scope /\ current(ledger[p[1]])
                 /\ ledger[p[1]].attempts[p[2]] = "completed"
                 /\ github[p[1]].pulls[p[2]] = "none"}

\* planReconciliationAttemptIssueUpdates, for a failed attempt.
updates(i, a) ==
  LET L == ledger[i]  f == L.obs.fact IN
  /\ i \in collect[Cycle].scope /\ L.obs.present /\ L.attempts[a] = "failed"
  /\ f.attempt = a \/ f.current = a
  /\ a \in f.terminals => f.recoverable /\ ~f.retry

Updates == {p \in Pairs : updates(p[1], p[2])}

-----------------------------------------------------------------------------
(* What the status replica shows *)

projectsOld(L) == L.gen # 0 /\ L.obs.known /\ L.obs.present
\* projectOwnerStatus: an issue with a current observation.
projects(L) == current(L)

\* recoveryAttemptFacts
shown(L, a) == IF projects(L) THEN observed(L, a) ELSE "none"

\* RecoverChecked: attempts of one issue that cannot all be authoritative.
contradictory(L) ==
  LET live == {a \in Attempts : shown(L, a) = "active"}
      done == {a \in Attempts : shown(L, a) = "completed"} IN
  \/ Cardinality(live) > 1 \/ Cardinality(done) > 1
  \/ live # {} /\ done # {}

\* RecoverChecked: the state of an attempt's card.
card(L, a) ==
  LET f == shown(L, a)  m == L.attempts[a] IN
  CASE f = "none" -> IF m = "none" THEN "none" ELSE "orphaned"
    [] f = "completed" /\ (m # "none" \/ ~contradictory(L)) -> "completed"
    [] f # "none" /\ f # "completed" /\ ~contradictory(L)
         /\ (f = "failed" \/ m = "failed") -> "failed"
    [] f = "active" /\ ~contradictory(L)
         /\ m \in {"running", "watched", "completed"} -> "active"
    [] OTHER -> "blocked"

\* addTerminalAttemptBlockers: a local outcome GitHub does not show.
unreported(L) ==
  \E a \in Attempts : L.attempts[a] \in {"failed", "completed"}
                      /\ a # L.obs.fact.binding /\ a \notin L.obs.fact.terminals
                      /\ ~(L.attempts[a] = "completed" /\ shown(L, a) # "none")

\* projectRecoveryStatuses: a prepared or running attempt occupies its issue.
occupied(L) ==
  \/ L.obs.fact.active
  \/ \E a \in Attempts : L.attempts[a] \in {"preparing", "running", "watched"}

\* joinIssueProjection: an issue without a card gets one from the schedule.
queued ==
  {i \in Issues : LET L == ledger[i] IN
     /\ projects(L) /\ eligible(L.obs.fact) /\ ~occupied(L) /\ ~unreported(L)}
announced ==
  {i \in Schedule({i \in Issues : /\ projects(ledger[i]) /\ occupied(ledger[i])
                                  /\ ~ledger[i].obs.fact.completed}, queued) :
     /\ \A a \in Attempts : card(ledger[i], a) = "none"
     /\ ledger[i].obs.fact.attempt \notin ledger[i].tombs}

-----------------------------------------------------------------------------
(* Collecting and applying *)

\* reconciliationSnapshot: the cycle's or a request's next collection begins.
Begin(c) ==
  /\ collect[c].phase = "idle" /\ cycleID < MaxCycles
  /\ cycleID' = cycleID + 1
  /\ \E S \in IF c = Cycle THEN {Issues} ELSE {{i} : i \in Issues} :
       collect' = [collect EXCEPT ![c] =
         [Idle EXCEPT !.phase = "read", !.id = cycleID', !.scope = S,
            !.gen = [i \in Issues |-> IF i \in S THEN ledger[i].gen ELSE 0],
            !.attemptGen = [i \in Issues |->
               IF i \in S THEN ledger[i].attemptGen ELSE Idle.attemptGen[i]]]]
  /\ UNCHANGED <<ledger, github, applied, newest, bounds>>

\* collect, collectIssueFactsV2
Read(c) ==
  /\ collect[c].phase = "read"
  /\ collect' = [collect EXCEPT ![c].phase = "apply",
       ![c].seen = [i \in Issues |->
          IF i \in collect[c].scope THEN reads(github[i]) ELSE Unlisted]]
  /\ UNCHANGED <<ledger, github, cycleID, applied, newest, bounds>>

\* The issues a collection is accepted for: neither moved on nor overtaken.
accepted(c) ==
  {i \in Issues : /\ concerns(c, i) /\ matches(collect[c], i)
                  /\ collect[c].id > applied[i]}

\* What the collection makes of an issue.
result(c, i) == reduced(ledger[i], collect[c].seen[i], collect[c].attemptGen[i])

changedBy(c) == {i \in accepted(c) : result(c, i) # ledger[i]}
\* recordAppliedReconciliationCycles: whether or not it changed anything.
recorded(c) == accepted(c)

\* applyReconciliation, and for the cycle what follows.
Apply(c) ==
  LET x == collect[c] IN
  /\ x.phase = "apply"
  /\ ledger' = [i \in Issues |->
       IF i \in accepted(c) THEN result(c, i) ELSE ledger[i]]
  /\ applied' = [i \in Issues |-> IF i \in recorded(c) THEN x.id ELSE applied[i]]
  /\ newest' = [i \in Issues |->
       IF concerns(c, i) /\ matches(x, i) /\ x.id > newest[i].id
       THEN [id |-> x.id, attemptGen |-> x.attemptGen[i], seen |-> x.seen[i]]
       ELSE newest[i]]
  /\ collect' = [collect EXCEPT ![c] =
       IF c = Cycle
       THEN [Idle EXCEPT !.phase = "prepare",
                         !.scope = {i \in Issues : x.seen[i].listed}]
       ELSE Idle]
  /\ UNCHANGED <<github, cycleID, bounds>>

-----------------------------------------------------------------------------
(* The phases of the cycle: cycleFromSnapshot *)

at(phase) == collect[Cycle].phase = phase
goes(phase) == collect' = [collect EXCEPT ![Cycle].phase = phase]
over == collect' = [collect EXCEPT ![Cycle] = Idle]

local(i, a, s) == ledger' = [ledger EXCEPT ![i].attempts[a] = s]

\* The upsert of a new attempt forgets what was observed of the issue.
reserved(L, a, s) ==
  [L EXCEPT !.gen = @ + 1, !.attemptGen[a] = 1, !.attempts[a] = s,
            !.obs = Unobserved]

\* runRuntimePhase: every attempt that is planned, each from a new snapshot.
Prepare ==
  /\ at("prepare") /\ Planned("prepare") # {}
  /\ LET i == Min(Planned("prepare"))  a == target(ledger[i]) IN
       \/ ledger' = [ledger EXCEPT ![i] = reserved(@, a, "preparing")] /\ goes("prepare")
       \/ ledger' = [ledger EXCEPT ![i] = reserved(@, a, "failed")] /\ over
  /\ UNCHANGED <<github, cycleID, applied, newest, bounds>>

\* runBindPhase, EnsureActiveAttempt: one marker, and then collect again.
Bind ==
  /\ at("bind") /\ Binds # {}
  /\ LET p == First(Binds)  g == github[p[1]] IN
       /\ ~conflict(g) /\ \A b \in g.bound : b <= p[2]
       /\ github' = [github EXCEPT ![p[1]].bound = @ \cup {p[2]}]
       /\ IF p[2] \in g.bound THEN goes("start") ELSE over
  /\ UNCHANGED <<ledger, cycleID, applied, newest, bounds>>

Start ==
  /\ at("start") /\ Planned("start") # {}
  /\ LET i == Min(Planned("start"))  a == target(ledger[i]) IN
       \/ local(i, a, "running") /\ goes("start")
       \/ local(i, a, "failed") /\ over
  /\ UNCHANGED <<github, cycleID, applied, newest, bounds>>

\* The monitor effect is dispatched and outlives the cycle.
Monitor ==
  /\ at("monitor") /\ Planned("monitor") # {}
  /\ LET i == Min(Planned("monitor")) IN local(i, target(ledger[i]), "watched")
  /\ UNCHANGED <<github, cycleID, applied, collect, newest, bounds>>

\* The monitored worker has ended.
Settle(i, a) ==
  /\ ledger[i].attempts[a] = "watched"
  /\ \E s \in {"completed", "failed"} : local(i, a, s)
  /\ UNCHANGED <<github, cycleID, applied, collect, newest, bounds>>

\* runPublicationPhase
Publish ==
  /\ at("publish") /\ Publications # {}
  /\ LET p == First(Publications) IN
       github' = [github EXCEPT ![p[1]].pulls[p[2]] = "open"]
  /\ over
  /\ UNCHANGED <<ledger, cycleID, applied, newest, bounds>>

lastFailure(i) ==
  highest(github[i].failed \cup {a \in Attempts : ledger[i].attempts[a] = "failed"})

\* runIssueUpdatePhase after the runtime: a failure is recorded, then retried.
Update ==
  /\ at("update") /\ Updates # {}
  /\ LET p == First(Updates) IN
       IF p[2] \in ledger[p[1]].obs.fact.terminals
       THEN github' = [github EXCEPT ![p[1]].retry = lastFailure(p[1])]
       ELSE github' = [github EXCEPT ![p[1]].failed = @ \cup {p[2]}]
  /\ over
  /\ UNCHANGED <<ledger, cycleID, applied, newest, bounds>>

\* A phase with nothing to do ends; the cycle may publish later or not at all.
Proceed ==
  /\ \/ at("prepare") /\ Planned("prepare") = {} /\ goes("bind")
     \/ at("bind") /\ Binds = {} /\ goes("start")
     \/ at("start") /\ Planned("start") = {} /\ goes("monitor")
     \/ at("monitor") /\ Planned("monitor") = {} /\ goes("publish")
     \/ at("publish") /\ goes("update")
     \/ at("update") /\ Updates = {} /\ over
  /\ UNCHANGED <<ledger, github, cycleID, applied, newest, bounds>>

\* An error, a stale result or a lost connection ends the cycle at any point.
Fail(c) ==
  /\ collect[c].phase # "idle"
  /\ collect' = [collect EXCEPT ![c] = Idle]
  /\ UNCHANGED <<ledger, github, cycleID, applied, newest, bounds>>

-----------------------------------------------------------------------------
(* Operators *)

\* Cancel: the stop effect's upsert moves the attempt's generation.
stoppedAttempt(L, a) ==
  [L EXCEPT !.attemptGen[a] = @ + 1, !.attempts[a] = "failed",
            !.obs = forgets(@, a)]

\* applyInvalidateAttempt
discarded(L, a) ==
  [L EXCEPT !.attemptGen[a] = @ + 1, !.attempts[a] = "none",
            !.tombs = @ \cup {a}, !.obs = forgets(@, a)]

\* operatorAttempt: an owned attempt of an issue observed since the start.
judged(L) == L.obs.known /\ L.obs.current

Stop(i, a) ==
  LET L == ledger[i] IN
  /\ judged(L) /\ L.obs.present /\ L.attempts[a] \in {"running", "watched"}
  /\ ledger' = [ledger EXCEPT ![i] = stoppedAttempt(@, a)]
  /\ UNCHANGED <<github, cycleID, applied, collect, newest, bounds>>

\* archive, abandon, dismiss; applyRemoteOnlyOperatorMutation without a record.
Discard(i, a) ==
  LET L == ledger[i] IN
  /\ judged(L)
  /\ \/ /\ L.attempts[a] # "none"
        /\ \/ card(L, a) = "completed" /\ L.obs.present
           \/ card(L, a) = "orphaned"
           \/ ~github[i].open /\ card(L, a) = "failed" /\ L.obs.present
     \/ /\ L.attempts[a] = "none" /\ L.obs.present /\ a \notin L.tombs
        /\ L.obs.fact.current = a /\ L.obs.entries[a] = "completed"
  /\ ledger' = [ledger EXCEPT ![i] = discarded(@, a)]
  /\ UNCHANGED <<github, cycleID, applied, collect, newest, bounds>>

-----------------------------------------------------------------------------
(* People on GitHub, restarts *)

\* Authorizing, closing, asking for a retry, merging.
Edit(i) ==
  /\ bounds.edits < MaxEdits
  /\ bounds' = [bounds EXCEPT !.edits = @ + 1]
  /\ \/ github' = [github EXCEPT ![i].ready = ~@]
     \/ github' = [github EXCEPT ![i].open = ~@]
     \/ github' = [github EXCEPT ![i].retry = lastFailure(i)]
     \/ \E a \in published(github[i]) :
          github' = [github EXCEPT ![i].pulls[a] = "merged"]
  /\ UNCHANGED <<ledger, cycleID, applied, collect, newest>>

\* A new epoch: what is in memory is gone, what was observed is of the old one.
Restart ==
  /\ bounds.boots < MaxBoots
  /\ bounds' = [bounds EXCEPT !.boots = @ + 1]
  /\ cycleID' = 0
  /\ applied' = [i \in Issues |-> 0]
  /\ collect' = [c \in Collectors |-> Idle]
  /\ newest' = [i \in Issues |->
       [id |-> 0, attemptGen |-> [a \in Attempts |-> 0], seen |-> Unlisted]]
  /\ ledger' = [i \in Issues |-> [ledger[i] EXCEPT !.obs.current = FALSE]]
  /\ UNCHANGED github

Next ==
  \/ \E c \in Collectors : Begin(c) \/ Read(c) \/ Apply(c) \/ Fail(c)
  \/ Prepare \/ Bind \/ Start \/ Monitor \/ Publish \/ Update \/ Proceed
  \/ \E i \in Issues, a \in Attempts : Settle(i, a) \/ Stop(i, a) \/ Discard(i, a)
  \/ \E i \in Issues : Edit(i)
  \/ Restart

Spec == Init /\ [][Next]_vars

-----------------------------------------------------------------------------
(* Properties *)

\* What the owner holds to be true of an issue is what the newest collection
\* it accepted since its start has read, less the attempts that have moved on
\* since that collection began: overlapping collections of the cycle and of
\* operators, applied in any order, unchanged facts and changes of the ledger
\* in between never bring an older reading back (applyReconciliation).
ObservationIsNewest ==
  \A i \in Issues :
    LET L == ledger[i]  n == newest[i] IN
    L.obs.known /\ L.obs.current =>
      /\ L.obs.present = n.seen.listed
      /\ L.obs.fact = masked(n.seen.fact, n.attemptGen, L)
      /\ \A a \in Attempts :
           L.obs.entries[a] =
             IF n.attemptGen[a] = L.attemptGen[a] /\ a \notin L.tombs
             THEN n.seen.listing[a] ELSE "none"

\* An issue never has two attempts that are prepared or running: the planner
\* works from observations that lag behind its own bindings, and must find the
\* attempt it already has (planRuntimeLifecycle, currentPreparingReplacement).
OneLiveAttempt ==
  \A i \in Issues :
    Cardinality({a \in Attempts :
      ledger[i].attempts[a] \in {"preparing", "running", "watched"}}) <= 1

\* A new attempt is prepared only when each earlier one that was ever bound to
\* the issue is published, or is recorded as failed and a retry was asked for
\* after it failed (retryAuthorizesFailure, docs/cli.md).
PriorWorkResolved ==
  [][\A i \in Issues, b \in Attempts :
       ledger[i].attemptGen[b] = 0 /\ ledger'[i].attempts[b] = "preparing" =>
         \A a \in github[i].bound : a < b =>
           \/ github[i].pulls[a] # "none"
           \/ a \in github[i].failed /\ github[i].retry >= a]_vars

\* What the dashboard announces as runnable is what the planner dispatches from
\* the same ledger, although the one schedules with local attempts and the
\* other without (joinIssueProjection, planRuntimeLifecycle). With overlapping
\* scopes this takes that GitHub shows the attempts the daemon has: one that it
\* does not show yet holds its rivals back on the dashboard alone.
RunnableIsDispatched ==
  \A i \in announced :
    /\ \A j \in Issues : ~unreported(ledger[j])
    /\ \/ Overlaps = {}
       \/ \A j \in Issues : projects(ledger[j]) =>
            (occupied(ledger[j]) <=> ledger[j].obs.fact.active)
    => /\ i \in runnable /\ ledger[i].obs.fact.authorized
       /\ target(ledger[i]) \in {0, ledger[i].obs.fact.attempt}

\* "exhausted concurrency also prevents dispatch" (docs/cli.md): never more
\* running attempts than the configured concurrency, and never two issues with
\* overlapping path scopes at work together.
CapacityKept ==
  LET working == {i \in Issues : \E a \in Attempts :
                    ledger[i].attempts[a] \in {"running", "watched"}} IN
  /\ Cardinality(working) <= Capacity
  /\ \A i, j \in working : i # j => {i, j} \notin Overlaps
=============================================================================
