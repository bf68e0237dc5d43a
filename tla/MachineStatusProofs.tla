------------------------- MODULE MachineStatusProofs -------------------------
(***************************************************************************)
(* TLAPS proofs about MachineStatus, for any number of statuses, proposals *)
(* and faults.                                                             *)
(***************************************************************************)
EXTENDS MachineStatus, FiniteSetTheorems, WellFoundedInduction, TLAPS

-----------------------------------------------------------------------------
(* The invariant *)

\* A status whose comment is on GitHub, or none.
Reached(seq) == seq = 0 \/ Published(seq)

\* Intents have identities of their own, one of them at most is pending, and each
\* is of a status that was admitted.
LedgerInv ==
  /\ Reached(status.applied)
  /\ \A e, f \in effects : e.id = f.id => e = f
  /\ \A e, f \in Pending : e = f
  /\ \A e \in effects : e.seq # 0

\* What remembers identities is finite, so that there is always a new one.
MemoryInv == IsFiniteSet(effects) /\ IsFiniteSet(markers) /\ IsFiniteSet(cycle.todo)

\* A marker of an intent that its result would still be accepted for.
MarkerInv == \A id \in markers : current(id) => Published(status.seq)

\* A run publishes the status of its intent, the resolver the one that it found; who
\* is past the last proof has seen that status on GitHub.
Proved == {"mark", "finish", "unmark", "settle"}
RunInv ==
  /\ IF run.by = "nobody" THEN run.pc = "idle" ELSE run.id # 0
  /\ run.by = "resolve" =>
       /\ run.pc \in Network \cup {"settle"} /\ run.pc \notin {"check", "authorize"}
       /\ cycle.pc = "resolve" /\ run.id \notin cycle.todo
  /\ run.by \notin {"nobody", "resolve"} =>
       /\ run.pc \notin {"target", "settle"}
       /\ \A e \in effects : e.id = run.id => e.seq = run.seq
  /\ run.by = "supervisor" => sup.pc = "executing"
  /\ run.pc \in Proved => Reached(run.seq)

\* A view of GitHub is out of date at worst, and an intent to resolve stays until it is.
CycleInv ==
  /\ \A v \in cache : Reached(v.top)
  /\ cycle.pc = "resolve" =>
       \A id \in cycle.todo : \E e \in effects : e.id = id /\ e.state = "invalidated"

SupInv ==
  /\ sup.pc # "idle" => sup.result = "none"
  /\ sup.pc = "begin" => sup.plan # 0
  /\ sup.result = "succeeded" => Published(sup.seq)

MachineStatusInv ==
  /\ TypeOK /\ LedgerInv /\ MemoryInv /\ MarkerInv /\ RunInv /\ CycleInv /\ SupInv

-----------------------------------------------------------------------------
(* Sets *)

\* A set of natural numbers that is not empty has a least.
LEMMA LeastNatural ==
  ASSUME NEW S, S \subseteq Nat, S # {}
  PROVE  Min(S) \in S /\ \A u \in S : Min(S) <= u
<1>1. IsWellFoundedOn(OpToRel(<, Nat), Nat)
  BY NatLessThanWellFounded
<1>2. PICK t \in S : \A u \in S : ~(<<u, t>> \in OpToRel(<, Nat))
  BY <1>1, WFMin
<1>3. ASSUME NEW u \in S
      PROVE  t <= u
  <2>1. u < t => <<u, t>> \in OpToRel(<, Nat)
    BY DEF OpToRel
  <2>2. ~(u < t)
    BY <2>1, <1>2, Zenon
  <2>. QED  BY <2>2
<1>. QED  BY <1>3 DEF Min

\* And a greatest, if it is bounded.
LEMMA GreatestNatural ==
  ASSUME NEW n \in Nat, NEW S, S \subseteq 0..n, S # {}
  PROVE  Max(S) \in S /\ \A u \in S : u <= Max(S)
<1>. DEFINE T == {n - u : u \in S}
<1>0. \A u \in S : u \in Nat /\ n - u \in Nat
  OBVIOUS
<1>1. T \subseteq Nat /\ T # {}
  BY <1>0
<1>2. Min(T) \in T /\ \A v \in T : Min(T) <= v
  BY <1>1, LeastNatural
<1>3. PICK t \in S : Min(T) = n - t
  BY <1>2
<1>4. ASSUME NEW u \in S
      PROVE  u <= t
  <2>1. n - u \in T
    OBVIOUS
  <2>2. n - t <= n - u
    BY <1>2, <1>3, <2>1
  <2>. QED  BY <1>0, <2>2
<1>. QED  BY <1>0, <1>4 DEF Max

\* The image of a finite set is finite.
LEMMA FiniteImage ==
  ASSUME NEW S, IsFiniteSet(S), NEW f, DOMAIN f = S, f = [x \in S |-> f[x]]
  PROVE  IsFiniteSet({f[x] : x \in S})
<1>. DEFINE T == {f[x] : x \in S}
<1>1. f \in [S -> T]
  OBVIOUS
<1>2. \A t \in T : \E x \in S : f[x] = t
  OBVIOUS
<1>3. f \in Surjection(S, T)
  BY <1>1, <1>2 DEF Surjection
<1>. QED  BY <1>3, FS_Surjection

\* A finite set misses one of the first numbers.
LEMMA NewNumber ==
  ASSUME NEW S, IsFiniteSet(S)
  PROVE  /\ Min(1..(Cardinality(S) + 1) \ S) \in Nat \ {0}
         /\ Min(1..(Cardinality(S) + 1) \ S) \notin S
<1>. DEFINE n == Cardinality(S)
            T == 1..(n + 1)
<1>1. n \in Nat
  BY FS_CardinalityType
<1>2. IsFiniteSet(T) /\ Cardinality(T) = n + 1
  BY <1>1, FS_Interval
<1>3. T \ S # {}
  <2>1. SUFFICES ASSUME T \subseteq S PROVE FALSE
    OBVIOUS
  <2>2. Cardinality(T) <= Cardinality(S)
    BY <2>1, FS_Subset, Zenon
  <2>. QED  BY <1>1, <1>2, <2>2
<1>4. T \ S \subseteq Nat
  BY <1>1
<1>5. Min(T \ S) \in T \ S
  BY <1>3, <1>4, LeastNatural
<1>. QED  BY <1>1, <1>5

-----------------------------------------------------------------------------
(* Operators of the model *)

\* Whose identity it has is the intent.
LEMMA IntentOf ==
  ASSUME LedgerInv, NEW e \in effects
  PROVE  Intent(e.id) = e /\ Known(e.id)
BY DEF LedgerInv, Intent, Known

\* An identity that is new to all that remember one.
LEMMA NewId ==
  ASSUME MemoryInv
  PROVE  /\ newId \in Ids /\ newId \notin markers \cup cycle.todo
         /\ newId \notin {run.id, sup.id, cycle.id}
         /\ \A e \in effects : e.id # newId
<1>. DEFINE f == [e \in effects |-> e.id]
            ids == {f[e] : e \in effects}
<1>1. IsFiniteSet(ids)
  BY FiniteImage DEF MemoryInv
<1>2. ids = {e.id : e \in effects}
  OBVIOUS
<1>. HIDE DEF ids
<1>3. IsFiniteSet(ids \cup markers \cup cycle.todo)
  BY <1>1, FS_Union DEF MemoryInv
<1>4. IsFiniteSet(ids \cup markers \cup cycle.todo \cup {run.id, sup.id, cycle.id})
  <2>1. IsFiniteSet(ids \cup markers \cup cycle.todo \cup {run.id})
    BY <1>3, FS_AddElement
  <2>2. IsFiniteSet(ids \cup markers \cup cycle.todo \cup {run.id} \cup {sup.id})
    BY <2>1, FS_AddElement
  <2>3. IsFiniteSet(ids \cup markers \cup cycle.todo \cup {run.id} \cup {sup.id}
                      \cup {cycle.id})
    BY <2>2, FS_AddElement
  <2>4. ids \cup markers \cup cycle.todo \cup {run.id, sup.id, cycle.id} =
        ids \cup markers \cup cycle.todo \cup {run.id} \cup {sup.id} \cup {cycle.id}
    OBVIOUS
  <2>. QED  BY <2>3, <2>4
<1>5. IsFiniteSet(remembered)
  BY <1>2, <1>4 DEF remembered
<1>6. newId \in Nat \ {0} /\ newId \notin remembered
  BY <1>5, NewNumber DEF newId
<1>. QED  BY <1>6 DEF remembered, Ids

\* What is read of GitHub is of its type, and its status has its comment.
LEMMA DirectView ==
  ASSUME StatusAssumption, TypeOK
  PROVE  directStatus \in View /\ Reached(directStatus.top)
<1>. DEFINE S == {0} \cup {c.seq : c \in comments}
<1>1. S \subseteq 0..MaxSeq /\ S # {} /\ MaxSeq \in Nat
  BY DEF TypeOK, Seqs, StatusAssumption
<1>2. Max(S) \in S
  BY <1>1, GreatestNatural
<1>3. directStatus.top = Max(S)
  BY DEF directStatus
<1>4. directStatus \in View
  BY <1>1, <1>2, <1>3 DEF directStatus, View, TypeOK, Seqs
<1>. QED  BY <1>2, <1>3, <1>4 DEF Reached, Published

\* So are what a run reads and what the cycle's snapshot holds then.
LEMMA SeenView ==
  ASSUME StatusAssumption, MachineStatusInv
  PROVE  /\ Seen \in View /\ Reached(Seen.top)
         /\ \A c \in {cache, Filled, Cleared} :
              /\ c \in SUBSET View /\ Cardinality(c) <= 1
              /\ \A v \in c : Reached(v.top)
<1>1. directStatus \in View /\ Reached(directStatus.top)
  BY DirectView DEF MachineStatusInv
<1>2. Seen \in View /\ Reached(Seen.top)
  BY <1>1 DEF Seen, MachineStatusInv, TypeOK, CycleInv
<1>3. Cardinality({Seen}) = 1 /\ Cardinality({}) = 0
  BY FS_Singleton, FS_EmptySet
<1>4. /\ cache \in SUBSET View /\ Cardinality(cache) <= 1
      /\ \A v \in cache : Reached(v.top)
  BY DEF MachineStatusInv, TypeOK, CycleInv
<1>5. Filled \in {cache, {Seen}} /\ Cleared \in {cache, {}}
  BY DEF Filled, Cleared
<1>. QED  BY <1>2, <1>3, <1>4, <1>5

-----------------------------------------------------------------------------
(* The intents after a change *)

\* Intents that may stand in the ledger.
Sound(E) ==
  /\ E \in SUBSET Effect /\ IsFiniteSet(E)
  /\ \A e, f \in E : e.id = f.id => e = f
  /\ \A e, f \in E : e.state = "pending" /\ f.state = "pending" => e = f
  /\ \A e \in E : e.seq # 0

\* What a marker or the run names is an intent of before, and has not become pending.
Descend(E) ==
  \A f \in E : f.id \in markers \cup {run.id} => \E e \in effects :
    f.id = e.id /\ f.seq = e.seq /\ (f.state = "pending" => e.state = "pending")

\* What has to be resolved still has to be.
Retain(E, id) ==
  \A e \in effects : e.id # id /\ e.state = "invalidated" =>
    \E f \in E : f.id = e.id /\ f.state = "invalidated"

Settled(E) == \A f \in E : f.state # "pending"

\* The intents of the ledger are sound.
LEMMA NowSound ==
  ASSUME MachineStatusInv
  PROVE  Sound(effects)
BY DEF MachineStatusInv, TypeOK, LedgerInv, MemoryInv, Sound, Pending

\* Intents that a change which keeps identity and status makes of them are sound.
LEMMA Mapped ==
  ASSUME MachineStatusInv, NEW g, g = [e \in effects |-> g[e]],
         \A e \in effects :
           /\ g[e] \in Effect /\ g[e].id = e.id /\ g[e].seq = e.seq
           /\ g[e].state = "pending" => e.state = "pending",
         NEW E, E \subseteq {g[e] : e \in effects}
  PROVE  Sound(E) /\ Descend(E)
<1>1. IsFiniteSet({g[e] : e \in effects})
  BY FiniteImage DEF MachineStatusInv, MemoryInv
<1>2. IsFiniteSet(E)
  BY <1>1, FS_Subset
<1>3. Descend(E)
  BY DEF Descend
<1>4. \A e, f \in effects : e.id = f.id => e = f
  BY DEF MachineStatusInv, LedgerInv
<1>5. \A e, f \in effects : e.state = "pending" /\ f.state = "pending" => e = f
  BY DEF MachineStatusInv, LedgerInv, Pending
<1>6. \A e, f \in E : e.id = f.id => e = f
  BY <1>4
<1>7. \A e, f \in E : e.state = "pending" /\ f.state = "pending" => e = f
  BY <1>5
<1>8. \A e \in E : e.seq # 0
  BY DEF MachineStatusInv, LedgerInv
<1>. QED  BY <1>2, <1>3, <1>6, <1>7, <1>8 DEF Sound

\* An admission leaves no intent pending.
LEMMA Superseded ==
  ASSUME MachineStatusInv, NEW E, E \subseteq superseded(effects)
  PROVE  Sound(E) /\ Descend(E) /\ Settled(E)
<1>. DEFINE g == [e \in effects |->
                    IF e.state = "pending"
                    THEN [e EXCEPT !.state = "invalidated", !.base = "old"] ELSE e]
<1>1. effects \in SUBSET Effect
  BY DEF MachineStatusInv, TypeOK
<1>2. \A e \in effects :
        /\ g[e] \in Effect /\ g[e].id = e.id /\ g[e].seq = e.seq
        /\ g[e].state # "pending"
  BY <1>1 DEF Effect
<1>3. superseded(effects) \subseteq {g[e] : e \in effects}
  BY DEF superseded
<1>. HIDE DEF g
<1>4. g = [e \in effects |-> g[e]]
  BY DEF g
<1>5. Settled(E)
  BY <1>2, <1>3 DEF Settled
<1>. QED  BY <1>2, <1>3, <1>4, <1>5, Mapped

\* Nor does it forget one that was invalidated.
LEMMA SupersededRetains ==
  ASSUME MachineStatusInv, NEW id
  PROVE  Retain(superseded(effects), id)
BY DEF Retain, superseded

\* A new intent of the current status, when none is pending.
LEMMA Begun ==
  ASSUME MachineStatusInv, StatusAssumption, Pending = {}, status.seq # 0
  PROVE  /\ Sound(begun(newId)) /\ \A id : Retain(begun(newId), id)
         /\ Descend(begun(newId))
         /\ \E e \in begun(newId) : e.id = newId
<1>. DEFINE n == [id |-> newId, seq |-> status.seq, dispatched |-> FALSE,
                  base |-> "same", state |-> "pending"]
            old == {e \in effects : e.state # "completed"}
<1>1. begun(newId) = old \cup {n}
  BY DEF begun
<1>2. newId \in Ids /\ \A e \in effects : e.id # newId
  BY NewId DEF MachineStatusInv
<1>3. n \in Effect /\ n.id = newId /\ n.seq # 0
  BY <1>2 DEF MachineStatusInv, TypeOK, Status, Effect
<1>4. Sound(effects)
  BY NowSound
<1>5. IsFiniteSet(old)
  BY <1>4, FS_Subset DEF Sound
<1>6. IsFiniteSet(old \cup {n})
  BY <1>5, FS_AddElement
<1>7. \A e \in effects : e.state # "pending"
  BY DEF Pending
<1>8. Sound(old \cup {n})
  <2>. HIDE DEF n
  <2>. QED  BY <1>2, <1>3, <1>4, <1>6, <1>7 DEF Sound
<1>9. Descend(old \cup {n})
  <2>1. newId \notin markers \cup {run.id}
    BY NewId DEF MachineStatusInv
  <2>. HIDE DEF n
  <2>. QED  BY <1>3, <2>1 DEF Descend
<1>. QED  BY <1>1, <1>3, <1>8, <1>9 DEF Retain

\* The completion of an intent.
LEMMA Completed ==
  ASSUME MachineStatusInv, NEW id
  PROVE  /\ Sound(completed(id)) /\ Descend(completed(id))
         /\ \A e \in completed(id) : e.id = id => e.state # "pending"
         /\ current(id) => \A j : Retain(completed(id), j)
<1>. DEFINE g == [e \in effects |->
             IF e.id = id THEN [e EXCEPT !.state = "completed", !.base = "old"] ELSE e]
<1>1. effects \in SUBSET Effect
  BY DEF MachineStatusInv, TypeOK
<1>2. ASSUME NEW e \in effects
      PROVE  /\ g[e] \in Effect /\ g[e].id = e.id /\ g[e].seq = e.seq
             /\ g[e].state = "pending" => e.state = "pending"
             /\ e.id = id => g[e].state # "pending"
             /\ e.id # id => g[e] = e
  <2>1. CASE e.id = id
    <3>1. g[e] = [e EXCEPT !.state = "completed", !.base = "old"]
      BY <2>1
    <3>. QED  BY <3>1, <2>1, <1>1 DEF Effect
  <2>2. CASE e.id # id
    BY <2>2, <1>1
  <2>. QED  BY <2>1, <2>2
<1>3. completed(id) = {g[e] : e \in {x \in effects : x.state # "resolved"}}
  BY DEF completed
<1>. HIDE DEF g
<1>4. g = [e \in effects |-> g[e]]
  BY DEF g
<1>5. Sound(completed(id)) /\ Descend(completed(id))
  <2>1. completed(id) \subseteq {g[e] : e \in effects}
    BY <1>3
  <2>. QED  BY <2>1, <1>2, <1>4, Mapped
<1>6. \A e \in completed(id) : e.id = id => e.state # "pending"
  BY <1>2, <1>3
<1>7. ASSUME current(id), NEW j PROVE Retain(completed(id), j)
  <2>1. \A e \in effects : e.id = id => e.state = "pending"
    BY <1>7 DEF current, Pending, MachineStatusInv, LedgerInv
  <2>. QED  BY <2>1, <1>2, <1>3 DEF Retain
<1>. QED  BY <1>5, <1>6, <1>7

-----------------------------------------------------------------------------
(* The two halves of the invariant *)

WorldTypes ==
  /\ status \in Status /\ effects \in SUBSET Effect /\ attempt \in BOOLEAN
  /\ obs \in [present : BOOLEAN, seen : Fact, old : BOOLEAN]
  /\ comments \in SUBSET [seq : Seqs, asked : BOOLEAN] /\ label \in BOOLEAN
  /\ flight \in SUBSET Request /\ markers \in SUBSET Ids
  /\ proposals \in 0..MaxProposals /\ faults \in 0..MaxFaults /\ refused \in BOOLEAN

\* The ledger, GitHub and the markers.
WorldInv ==
  /\ WorldTypes /\ LedgerInv /\ MarkerInv
  /\ IsFiniteSet(effects) /\ IsFiniteSet(markers)

\* What a view of GitHub may be.
Shown(c) ==
  c \in SUBSET View /\ Cardinality(c) <= 1 /\ \A v \in c : Reached(v.top)

\* The run, the cycle and the supervisor.
ActorInv ==
  /\ run \in Run /\ RunInv
  /\ cycle \in Cycle /\ IsFiniteSet(cycle.todo) /\ Shown(cache) /\ CycleInv
  /\ sup \in Sup /\ SupInv /\ since \in SUBSET {"commit", "observation"}

LEMMA Halves == MachineStatusInv <=> WorldInv /\ ActorInv
BY DEF MachineStatusInv, TypeOK, WorldInv, WorldTypes, ActorInv, Shown, CycleInv,
       MemoryInv

LEMMA HalvesNext == MachineStatusInv' <=> WorldInv' /\ ActorInv'
BY DEF MachineStatusInv, TypeOK, WorldInv, WorldTypes, ActorInv, Shown, CycleInv,
       MemoryInv

\* Comments stay.
Grow == comments \subseteq comments'

LEMMA ReachedStays ==
  ASSUME Grow, NEW seq
  PROVE  (Reached(seq) => Reached(seq)') /\ (Published(seq) => Published(seq)')
BY DEF Grow, Reached, Published

LEMMA ShownStays ==
  ASSUME Grow, NEW c
  PROVE  Shown(c) => Shown(c)'
BY ReachedStays DEF Shown

\* A step that leaves the ledger alone.
LEMMA LedgerKept ==
  ASSUME MachineStatusInv, WorldTypes', UNCHANGED ledger, Grow, markers' \subseteq markers
  PROVE  WorldInv'
<1>1. WorldInv
  BY Halves
<1>2. IsFiniteSet(markers')
  BY <1>1, FS_Subset DEF WorldInv
<1>3. status' = status /\ effects' = effects
  BY DEF ledger
<1>4. LedgerInv' /\ MarkerInv'
  BY <1>1, <1>3, ReachedStays
     DEF WorldInv, LedgerInv, MarkerInv, Pending, current
<1>. QED  BY <1>1, <1>2, <1>3, <1>4 DEF WorldInv

\* A step that changes it, and leaves the status or no intent pending.
LEMMA LedgerChanged ==
  ASSUME MachineStatusInv, WorldTypes', Grow, markers' \subseteq markers,
         Sound(effects'), Reached(status.applied)',
         (status'.seq = status.seq /\ Descend(effects')) \/ Settled(effects')
  PROVE  WorldInv'
<1>1. WorldInv
  BY Halves
<1>2. IsFiniteSet(markers')
  BY <1>1, FS_Subset DEF WorldInv
<1>3. LedgerInv' /\ IsFiniteSet(effects')
  BY DEF Sound, LedgerInv, Pending
<1>4. MarkerInv'
  BY <1>1, ReachedStays
     DEF WorldInv, MarkerInv, Pending, current, Descend, Settled
<1>. QED  BY <1>1, <1>2, <1>3, <1>4 DEF WorldInv

-----------------------------------------------------------------------------
(* The ends of runs and cycles *)

\* The supervisor is left alone, is done, or is woken.
Woken ==
  \/ sup' \in {sup, NoSup}
  \/ sup.pc = "awaiting" /\ sup' = [sup EXCEPT !.pc = "replan"]

LEMMA WokenKeeps ==
  ASSUME StatusAssumption, MachineStatusInv, Grow, Woken
  PROVE  sup' \in Sup /\ SupInv'
<1>1. sup \in Sup /\ SupInv
  BY DEF MachineStatusInv, TypeOK
<1>2. NoSup \in Sup
  BY DEF NoSup, Sup, Seqs, StatusAssumption
<1>3. SupInv'
  BY <1>1, ReachedStays DEF Woken, SupInv, NoSup, Sup
<1>. QED  BY <1>1, <1>2, <1>3 DEF Woken, Sup

\* The cycle ends.
LEMMA EndCycleKeeps ==
  ASSUME StatusAssumption, MachineStatusInv, Grow, NEW how, EndCycle(how)
  PROVE  /\ cycle' = NoCycle /\ cycle' \in Cycle /\ IsFiniteSet(cycle'.todo)
         /\ Shown(cache)' /\ CycleInv' /\ Woken
<1>1. cycle' = NoCycle /\ cache' = {} /\ Woken
  BY DEF EndCycle, Woken
<1>2. NoCycle \in Cycle
  BY DEF NoCycle, NoView, Cycle, View, Seqs, StatusAssumption
<1>3. NoCycle.todo = {} /\ NoCycle.pc = "idle"
  BY DEF NoCycle
<1>4. IsFiniteSet({}) /\ Cardinality({}) = 0
  BY FS_EmptySet
<1>5. Shown(cache)'
  BY <1>1, <1>4 DEF Shown
<1>6. CycleInv'
  BY <1>1, <1>3 DEF CycleInv
<1>. QED  BY <1>1, <1>2, <1>3, <1>4, <1>5, <1>6

\* Nobody runs.
LEMMA NobodyRuns ==
  ASSUME StatusAssumption, run' = NoRun
  PROVE  run' \in Run /\ RunInv'
<1>1. NoRun \in Run
  BY DEF NoRun, Run, Seqs, StatusAssumption
<1>2. NoRun.by = "nobody" /\ NoRun.pc = "idle"
  BY DEF NoRun
<1>3. RunInv'
  BY <1>2 DEF RunInv, Proved
<1>. QED  BY <1>1, <1>3

\* A run goes on where the cycle does, and what it works on is still what it was.
LEMMA RunGoesOn ==
  ASSUME MachineStatusInv, Grow, Descend(effects'), run' \in Run,
         run'.by = run.by, run'.id = run.id, run'.seq = run.seq, run'.pc = run.pc,
         cycle' = cycle \/ run.by # "resolve", sup.pc = "executing" => sup' = sup
  PROVE  RunInv'
<1>1. RunInv
  BY DEF MachineStatusInv
<1>2. \A e \in effects' : e.id = run.id =>
        \E f \in effects : f.id = run.id /\ e.seq = f.seq
  BY DEF Descend
<1>. QED  BY <1>1, <1>2, ReachedStays DEF RunInv

\* The cycle stays where it is.
LEMMA CycleStays ==
  ASSUME MachineStatusInv, Grow, NEW id, Retain(effects', id), id \notin cycle.todo,
         UNCHANGED cycle, Shown(cache)'
  PROVE  cycle' \in Cycle /\ IsFiniteSet(cycle'.todo) /\ CycleInv'
<1>1. cycle \in Cycle /\ IsFiniteSet(cycle.todo) /\ CycleInv
  BY DEF MachineStatusInv, TypeOK, MemoryInv
<1>2. CycleInv'
  BY <1>1 DEF CycleInv, Retain, Shown
<1>. QED  BY <1>1, <1>2

\* A failed run releases the key; whatever else ends with it.
LEMMA FailKeeps ==
  ASSUME StatusAssumption, MachineStatusInv, Grow, NEW stale, NEW c,
         c \in {cache, Filled, Cleared}, Fail(stale, c), UNCHANGED effects
  PROVE  ActorInv'
<1>1. run' \in Run /\ RunInv'
  BY NobodyRuns DEF Fail
<1>2. Retain(effects', 0) /\ 0 \notin cycle.todo
  BY DEF Retain, MachineStatusInv, TypeOK, Cycle, Ids
<1>3. Shown(cache) /\ Shown(c)
  BY SeenView DEF Shown
<1>4. since \in SUBSET {"commit", "observation"}
  BY DEF MachineStatusInv, TypeOK
<1>5. CASE run.by \in {"resolve", "phase"}
  <2>1. PICK how : EndCycle(how)
    BY <1>5 DEF Fail
  <2>2. UNCHANGED since
    BY <1>5 DEF Fail
  <2>3. cycle' \in Cycle /\ IsFiniteSet(cycle'.todo) /\ Shown(cache)' /\ CycleInv' /\ Woken
    BY <2>1, EndCycleKeeps
  <2>. QED  BY <1>1, <1>4, <2>2, <2>3, WokenKeeps DEF ActorInv
<1>6. CASE run.by = "resume"
  <2>1. cache' = c /\ UNCHANGED <<cycle, sup>>
    BY <1>6 DEF Fail
  <2>2. since' \in SUBSET {"commit", "observation"}
    BY <1>4, <1>6 DEF Fail, Note
  <2>3. Shown(cache)'
    BY <1>3, <2>1, ReachedStays DEF Shown
  <2>4. Woken
    BY <2>1 DEF Woken
  <2>. QED  BY <1>1, <1>2, <2>1, <2>2, <2>3, <2>4, WokenKeeps, CycleStays DEF ActorInv
<1>7. CASE run.by = "supervisor"
  <2>1. UNCHANGED <<cycle, cache>> /\ sup' = NoSup /\ since' = {}
    BY <1>7 DEF Fail
  <2>2. Shown(cache)'
    BY <1>3, <2>1, ReachedStays DEF Shown
  <2>3. Woken
    BY <2>1 DEF Woken
  <2>. QED  BY <1>1, <1>2, <2>1, <2>2, <2>3, WokenKeeps, CycleStays DEF ActorInv
<1>. QED  BY <1>5, <1>6, <1>7 DEF Fail

-----------------------------------------------------------------------------
(* The steps of a run *)

Pcs == {"target", "check", "authorize", "ensure", "post", "label", "relabel", "verify",
        "confirm", "mark", "finish", "unmark", "settle"}

\* Where a run may go.
Suits(pc) ==
  /\ run.by = "resolve" => pc \in Network \cup {"settle"} /\ pc \notin {"check", "authorize"}
  /\ run.by # "resolve" => pc \notin {"target", "settle"}
  /\ pc \in Proved => Reached(run.seq)

\* The intents that the run, the markers and the cycle know go on.
Follow == Descend(effects') /\ Retain(effects', 0)

LEMMA StillFollow ==
  ASSUME UNCHANGED effects
  PROVE  Follow
BY DEF Follow, Descend, Retain

\* A run goes to its next step.
LEMMA RunMoves ==
  ASSUME MachineStatusInv, Grow, Follow, UNCHANGED <<cycle, sup>>, Shown(cache)',
         NEW pc \in Pcs, NEW applied \in BOOLEAN,
         run' = [run EXCEPT !.pc = pc, !.applied = applied],
         run.pc # "idle", Suits(pc), since' \in SUBSET {"commit", "observation"}
  PROVE  ActorInv'
<1>1. run \in Run /\ RunInv /\ sup \in Sup /\ SupInv
  BY DEF MachineStatusInv, TypeOK
<1>2. run' \in Run
  BY <1>1 DEF Run, Pcs
<1>3. /\ run'.by = run.by /\ run'.id = run.id /\ run'.seq = run.seq /\ run'.pc = pc
      /\ run.by # "nobody"
  BY <1>1 DEF Run, RunInv
<1>4. RunInv'
  <2>1. \A e \in effects' : e.id = run.id =>
          \E f \in effects : f.id = run.id /\ e.seq = f.seq
    BY DEF Follow, Descend
  <2>. QED  BY <1>1, <1>3, <2>1, ReachedStays DEF RunInv, Suits
<1>5. cycle' \in Cycle /\ IsFiniteSet(cycle'.todo) /\ CycleInv'
  <2>1. Retain(effects', 0) /\ 0 \notin cycle.todo
    BY DEF Follow, MachineStatusInv, TypeOK, Cycle, Ids
  <2>. QED  BY <2>1, CycleStays
<1>6. SupInv'
  BY <1>1, ReachedStays DEF SupInv
<1>. QED  BY <1>1, <1>2, <1>4, <1>5, <1>6 DEF ActorInv

\* To is such a step.
LEMMA RunTo ==
  ASSUME MachineStatusInv, Grow, Follow, Shown(cache)', NEW pc \in Pcs,
         To(pc), run.pc # "idle", Suits(pc)
  PROVE  ActorInv'
<1>1. run \in Run /\ since \in SUBSET {"commit", "observation"}
  BY DEF MachineStatusInv, TypeOK
<1>2. run' = [run EXCEPT !.pc = pc, !.applied = run.applied] /\ run.applied \in BOOLEAN
  BY <1>1 DEF To, Run
<1>3. UNCHANGED <<cycle, sup>> /\ since' \in SUBSET {"commit", "observation"}
  BY <1>1 DEF To
<1>. QED  BY <1>2, <1>3, RunMoves

\* Who runs with what.
LEMMA RunIs ==
  ASSUME MachineStatusInv
  PROVE  /\ run \in Run /\ RunInv /\ run.seq \in Seqs /\ run.want \in BOOLEAN
         /\ run.pc # "idle" => run.by # "nobody"
BY DEF MachineStatusInv, TypeOK, RunInv, Run

LEMMA RunTargetKeeps ==
  ASSUME StatusAssumption, MachineStatusInv, RunTarget
  PROVE  MachineStatusInv'
<1>0. Grow /\ UNCHANGED ledger
  BY DEF RunTarget, remote, Grow
<1>1. WorldInv'
  BY <1>0, LedgerKept DEF RunTarget, MachineStatusInv, TypeOK, WorldTypes, ledger, remote, counts
<1>2. run.by = "resolve"
  BY RunIs DEF RunTarget, At, RunInv
<1>3. run' \in Run
  BY RunIs DEF RunTarget, Run, MachineStatusInv, TypeOK, Status
<1>4. RunInv'
  BY <1>2, RunIs DEF RunTarget, RunInv, Run, Proved, Network
<1>5. ActorInv'
  BY <1>3, <1>4, Halves
     DEF RunTarget, ActorInv, ledger, remote, CycleInv, SupInv, Shown, Reached, Published
<1>. QED  BY <1>1, <1>5, HalvesNext

LEMMA RunCheckKeeps ==
  ASSUME StatusAssumption, MachineStatusInv, RunCheck
  PROVE  MachineStatusInv'
<1>0. Grow /\ UNCHANGED ledger
  BY DEF RunCheck, remote, Grow
<1>1. WorldInv'
  BY <1>0, LedgerKept DEF RunCheck, MachineStatusInv, TypeOK, WorldTypes, ledger, remote, counts
<1>2. Shown(cache)'
  <2>1. Shown(Filled)
    BY SeenView DEF Shown
  <2>. QED  BY <1>0, <2>1, ReachedStays DEF RunCheck, Shown
<1>3. run.by # "resolve"
  BY RunIs DEF RunCheck, At, RunInv
<1>4. Suits("authorize") /\ OwnerStatusApplied(Seen, run.seq, run.want) \in BOOLEAN
  BY <1>3 DEF Suits, Proved, OwnerStatusApplied
<1>5. run.pc # "idle" /\ since' \in SUBSET {"commit", "observation"}
  BY DEF RunCheck, At, MachineStatusInv, TypeOK
<1>6. run' = [run EXCEPT !.pc = "authorize",
                         !.applied = OwnerStatusApplied(Seen, run.seq, run.want)]
  BY DEF RunCheck, MachineStatusInv, TypeOK, Run
<1>7. UNCHANGED <<cycle, sup>> /\ "authorize" \in Pcs /\ Follow
  BY StillFollow DEF RunCheck, ledger, Pcs
<1>8. ActorInv'
  BY <1>0, <1>2, <1>4, <1>5, <1>6, <1>7, RunMoves
<1>. QED  BY <1>1, <1>8, HalvesNext

\* The authorization changes no intent's status.
LEMMA Authorized ==
  ASSUME StatusAssumption, MachineStatusInv, NEW id
  PROVE  LET E == {IF e.id = id THEN [e EXCEPT !.dispatched = TRUE] ELSE e : e \in effects}
         IN  Sound(E) /\ Descend(E) /\ Retain(E, 0)
<1>. DEFINE g == [e \in effects |-> IF e.id = id THEN [e EXCEPT !.dispatched = TRUE] ELSE e]
            E == {IF e.id = id THEN [e EXCEPT !.dispatched = TRUE] ELSE e : e \in effects}
<1>1. effects \in SUBSET Effect
  BY DEF MachineStatusInv, TypeOK
<1>2. ASSUME NEW e \in effects
      PROVE  g[e] \in Effect /\ g[e].id = e.id /\ g[e].seq = e.seq /\ g[e].state = e.state
  <2>1. g[e] \in {e, [e EXCEPT !.dispatched = TRUE]}
    OBVIOUS
  <2>. HIDE DEF g
  <2>. QED  BY <1>1, <2>1 DEF Effect
<1>3. E = {g[e] : e \in effects}
  OBVIOUS
<1>. HIDE DEF g, E
<1>4. g = [e \in effects |-> g[e]]
  BY DEF g
<1>5. Sound(E) /\ Descend(E)
  BY <1>2, <1>3, <1>4, Mapped
<1>6. Retain(E, 0)
  BY <1>2, <1>3 DEF Retain
<1>. QED  BY <1>5, <1>6 DEF E

LEMMA RunAuthorizeKeeps ==
  ASSUME StatusAssumption, MachineStatusInv, RunAuthorize
  PROVE  MachineStatusInv'
<1>0. Grow /\ UNCHANGED markers
  BY DEF RunAuthorize, remote, Grow
<1>. DEFINE E == {IF e.id = run.id THEN [e EXCEPT !.dispatched = TRUE] ELSE e : e \in effects}
<1>1. ASSUME accept(status, E), UNCHANGED <<cache, cycle, sup>>,
             run' = [run EXCEPT !.applied = FALSE,
                                !.pc = IF run.applied THEN "confirm" ELSE "ensure"],
             Note(IF Intent(run.id).dispatched THEN {} ELSE {"commit"})
      PROVE  MachineStatusInv'
  <2>1. Sound(effects') /\ Follow
    BY <1>1, Authorized DEF accept, Follow
  <2>2. WorldTypes'
    BY <1>1, <2>1 DEF RunAuthorize, MachineStatusInv, TypeOK, WorldTypes, accept, Sound, remote, counts
  <2>3. Reached(status.applied)' /\ status'.seq = status.seq
    BY <1>0, <1>1, ReachedStays DEF MachineStatusInv, LedgerInv, accept
  <2>4. WorldInv'
    BY <1>0, <2>1, <2>2, <2>3, LedgerChanged DEF Follow
  <2>5. PICK pc \in {"confirm", "ensure"} : run' = [run EXCEPT !.pc = pc, !.applied = FALSE]
    BY <1>1
  <2>6. run.pc # "idle" /\ run.by # "resolve"
    BY RunIs DEF RunAuthorize, At, RunInv
  <2>7. Suits(pc) /\ pc \in Pcs
    BY <2>6 DEF Suits, Proved, Pcs
  <2>8. Shown(cache)'
    BY <1>0, <1>1, SeenView, ReachedStays DEF Shown
  <2>9. since' \in SUBSET {"commit", "observation"}
    BY <1>1 DEF Note, MachineStatusInv, TypeOK
  <2>10. ActorInv'
    BY <1>0, <1>1, <2>1, <2>5, <2>6, <2>7, <2>8, <2>9, RunMoves
  <2>. QED  BY <2>4, <2>10, HalvesNext
<1>2. ASSUME Fail(TRUE, cache), UNCHANGED <<status, effects, refused>>
      PROVE  MachineStatusInv'
  <2>1. WorldTypes' /\ UNCHANGED ledger
    BY <1>2 DEF RunAuthorize, MachineStatusInv, TypeOK, WorldTypes, remote, counts, ledger
  <2>2. WorldInv'
    BY <1>0, <2>1, LedgerKept
  <2>3. ActorInv'
    BY <1>0, <1>2, FailKeeps
  <2>. QED  BY <2>2, <2>3, HalvesNext
<1>. QED  BY <1>1, <1>2 DEF RunAuthorize

\* A step that leaves ledger, GitHub and markers alone.
LEMMA WorldStands ==
  ASSUME MachineStatusInv, UNCHANGED <<ledger, remote, markers, counts, refused>>
  PROVE  WorldInv' /\ Grow /\ Follow /\ UNCHANGED effects
<1>1. Grow /\ Follow /\ UNCHANGED effects
  BY StillFollow DEF Grow, remote, ledger
<1>2. WorldTypes'
  BY DEF MachineStatusInv, TypeOK, WorldTypes, ledger, remote, counts
<1>. QED  BY <1>1, <1>2, LedgerKept

\* What is read now is still good for the cycle's snapshot.
LEMMA ReadStays ==
  ASSUME StatusAssumption, MachineStatusInv, Grow
  PROVE  cache' \in {cache, Filled, Cleared} => Shown(cache)'
<1>1. \A c \in {cache, Filled, Cleared} : Shown(c)
  BY SeenView DEF Shown
<1>. QED  BY <1>1, ReachedStays DEF Shown

LEMMA RunEnsureKeeps ==
  ASSUME StatusAssumption, MachineStatusInv, RunEnsure
  PROVE  MachineStatusInv'
<1>1. WorldInv' /\ Grow /\ Follow /\ UNCHANGED effects
  BY WorldStands DEF RunEnsure
<1>2. ASSUME Fail(FALSE, Filled) PROVE ActorInv'
  BY <1>1, <1>2, FailKeeps
<1>3. ASSUME NEW pc \in {"confirm", "post", "label"}, To(pc), cache' = Filled
      PROVE  ActorInv'
  <2>1. run.pc # "idle" /\ pc \in Pcs
    BY DEF RunEnsure, At, Pcs
  <2>2. Suits(pc)
    BY DEF Suits, Proved, Network
  <2>. QED  BY <1>1, <1>3, <2>1, <2>2, ReadStays, RunTo
<1>. QED  BY <1>1, <1>2, <1>3, HalvesNext DEF RunEnsure

LEMMA RunPostKeeps ==
  ASSUME StatusAssumption, MachineStatusInv, RunPost
  PROVE  MachineStatusInv'
<1>1. Grow /\ Follow /\ UNCHANGED ledger
  BY StillFollow DEF RunPost, ledger, Grow
<1>2. WorldTypes'
  BY RunIs DEF RunPost, MachineStatusInv, TypeOK, WorldTypes, ledger, counts
<1>3. WorldInv'
  BY <1>1, <1>2, LedgerKept DEF RunPost
<1>4. run.pc # "idle" /\ Suits("label") /\ "label" \in Pcs
  BY DEF RunPost, At, Suits, Proved, Network, Pcs
<1>5. ActorInv'
  BY <1>1, <1>4, ReadStays, RunTo DEF RunPost
<1>. QED  BY <1>3, <1>5, HalvesNext

LEMMA RunLabelKeeps ==
  ASSUME StatusAssumption, MachineStatusInv, RunLabel
  PROVE  MachineStatusInv'
<1>1. WorldInv' /\ Grow /\ Follow
  BY WorldStands DEF RunLabel
<1>2. PICK pc \in {"verify", "relabel"} : To(pc)
  BY DEF RunLabel
<1>3. run.pc # "idle" /\ pc \in Pcs /\ Suits(pc)
  BY DEF RunLabel, At, Pcs, Suits, Proved, Network
<1>4. ActorInv'
  BY <1>1, <1>2, <1>3, ReadStays, RunTo DEF RunLabel
<1>. QED  BY <1>1, <1>4, HalvesNext

LEMMA RunRelabelKeeps ==
  ASSUME StatusAssumption, MachineStatusInv, RunRelabel
  PROVE  MachineStatusInv'
<1>1. Grow /\ Follow /\ UNCHANGED ledger
  BY StillFollow DEF RunRelabel, ledger, Grow
<1>2. WorldTypes'
  BY RunIs DEF RunRelabel, MachineStatusInv, TypeOK, WorldTypes, ledger, counts
<1>3. WorldInv'
  BY <1>1, <1>2, LedgerKept DEF RunRelabel
<1>4. run.pc # "idle" /\ Suits("verify") /\ "verify" \in Pcs
  BY DEF RunRelabel, At, Suits, Proved, Network, Pcs
<1>5. ActorInv'
  BY <1>1, <1>4, ReadStays, RunTo DEF RunRelabel
<1>. QED  BY <1>3, <1>5, HalvesNext

LEMMA RunVerifyKeeps ==
  ASSUME StatusAssumption, MachineStatusInv, RunVerify
  PROVE  MachineStatusInv'
<1>1. WorldInv' /\ Grow /\ Follow /\ UNCHANGED effects
  BY WorldStands DEF RunVerify
<1>2. ASSUME Fail(FALSE, Filled) PROVE ActorInv'
  BY <1>1, <1>2, FailKeeps
<1>3. run.pc # "idle" /\ Suits("confirm") /\ "confirm" \in Pcs
  BY DEF RunVerify, At, Suits, Proved, Network, Pcs
<1>4. ASSUME To("confirm"), cache' = Filled PROVE ActorInv'
  BY <1>1, <1>3, <1>4, ReadStays, RunTo
<1>. QED  BY <1>1, <1>2, <1>4, HalvesNext DEF RunVerify

\* Who confirms has seen the status on GitHub, and so it is there.
LEMMA RunConfirmKeeps ==
  ASSUME StatusAssumption, MachineStatusInv, RunConfirm
  PROVE  MachineStatusInv'
<1>1. WorldInv' /\ Grow /\ Follow /\ UNCHANGED effects
  BY WorldStands DEF RunConfirm
<1>2. ASSUME Fail(FALSE, Filled) PROVE ActorInv'
  BY <1>1, <1>2, FailKeeps
<1>3. ASSUME OwnerStatusApplied(Seen, run.seq, run.want), cache' = Filled,
             NEW pc, pc = IF run.by = "resolve" THEN "settle" ELSE "mark", To(pc)
      PROVE  ActorInv'
  <2>1. Reached(run.seq)
    BY <1>3, SeenView DEF OwnerStatusApplied
  <2>2. run.pc # "idle" /\ Suits(pc) /\ pc \in Pcs
    BY <1>3, <2>1 DEF RunConfirm, At, Suits, Proved, Network, Pcs
  <2>. QED  BY <1>1, <1>3, <2>2, ReadStays, RunTo
<1>4. ASSUME run' = NoRun, UNCHANGED <<cache, cycle, sup, since>> PROVE ActorInv'
  <2>1. run' \in Run /\ RunInv'
    BY <1>4, NobodyRuns
  <2>2. Retain(effects', 0) /\ 0 \notin cycle.todo
    BY <1>1 DEF Follow, MachineStatusInv, TypeOK, Cycle, Ids
  <2>3. Shown(cache)'
    BY <1>1, <1>4, ReadStays
  <2>4. Woken /\ since' \in SUBSET {"commit", "observation"}
    BY <1>4 DEF Woken, MachineStatusInv, TypeOK
  <2>. QED  BY <1>1, <1>4, <2>1, <2>2, <2>3, <2>4, WokenKeeps, CycleStays DEF ActorInv
<1>. QED  BY <1>1, <1>2, <1>3, <1>4, HalvesNext DEF RunConfirm

\* A marker is written by a run that has seen the status of its intent on GitHub.
LEMMA RunMarkKeeps ==
  ASSUME StatusAssumption, MachineStatusInv, RunMark
  PROVE  MachineStatusInv'
<1>1. Grow /\ Follow /\ UNCHANGED <<ledger, comments>>
  BY StillFollow DEF RunMark, ledger, remote, Grow
<1>2. run.by \notin {"nobody", "resolve"} /\ Reached(run.seq) /\ run.id \in Ids
  BY RunIs DEF RunMark, At, RunInv, Proved, Network, Run
<1>3. WorldInv'
  <2>1. WorldInv
    BY Halves
  <2>2. status' = status /\ effects' = effects /\ markers' = markers \cup {run.id}
    BY <1>1 DEF RunMark, ledger
  <2>3. WorldTypes'
    BY <1>2, <2>2 DEF RunMark, MachineStatusInv, TypeOK, WorldTypes, ledger, remote, counts
  <2>4. LedgerInv' /\ IsFiniteSet(effects') /\ IsFiniteSet(markers')
    BY <1>1, <2>1, <2>2, FS_AddElement, ReachedStays DEF WorldInv, LedgerInv, Pending
  <2>5. current(run.id) => Published(status.seq)
    BY <1>2, RunIs, <2>1 DEF current, Pending, RunInv, Reached, WorldInv, LedgerInv
  <2>6. MarkerInv'
    BY <1>1, <2>1, <2>2, <2>5, ReachedStays DEF WorldInv, MarkerInv, Pending, current
  <2>. QED  BY <2>3, <2>4, <2>6 DEF WorldInv
<1>4. run.pc # "idle" /\ Suits("finish") /\ "finish" \in Pcs
  BY <1>2 DEF RunMark, At, Suits, Proved, Network, Pcs
<1>5. ActorInv'
  BY <1>1, <1>4, ReadStays, RunTo DEF RunMark
<1>. QED  BY <1>3, <1>5, HalvesNext

\* A result is applied for the intent whose status was seen on GitHub.
LEMMA RunFinishKeeps ==
  ASSUME StatusAssumption, MachineStatusInv, RunFinish
  PROVE  MachineStatusInv'
<1>1. Grow /\ UNCHANGED <<attempt, obs, remote, markers, counts>>
  BY DEF RunFinish, remote, Grow
<1>2. run.by \notin {"nobody", "resolve"} /\ Reached(run.seq) /\ run.pc # "idle"
  BY RunIs DEF RunFinish, At, RunInv, Proved, Network
<1>3. Suits("unmark") /\ "unmark" \in Pcs
  BY <1>2 DEF Suits, Proved, Pcs
<1>4. ASSUME current(run.id), accept(appliedStatus, completed(run.id)),
             run' = [run EXCEPT !.pc = "unmark"], Note({"commit"}),
             UNCHANGED <<cache, cycle, sup>>
      PROVE  MachineStatusInv'
  <2>1. Sound(effects') /\ Follow
    BY <1>4, Completed DEF accept, Follow
  <2>2. status' = appliedStatus /\ status'.seq = status.seq
        /\ status'.applied = status.seq /\ status' \in Status
    BY <1>4 DEF accept, appliedStatus, Status, MachineStatusInv, TypeOK
  <2>3. Reached(status.seq)
    BY <1>2, <1>4, RunIs DEF RunInv, current, Pending
  <2>4. Reached(status.applied)'
    BY <1>1, <2>2, <2>3, ReachedStays DEF Reached, Published
  <2>5. WorldTypes'
    BY <1>1, <1>4, <2>1, <2>2
       DEF MachineStatusInv, TypeOK, WorldTypes, accept, Sound, remote, counts
  <2>6. WorldInv'
    BY <1>1, <2>1, <2>2, <2>4, <2>5, LedgerChanged DEF Follow
  <2>7. run' = [run EXCEPT !.pc = "unmark", !.applied = run.applied]
        /\ run.applied \in BOOLEAN
    BY <1>4, RunIs DEF Run
  <2>8. since' \in SUBSET {"commit", "observation"}
    BY <1>4 DEF Note, MachineStatusInv, TypeOK
  <2>9. Shown(cache)'
    BY <1>1, <1>4, ReadStays
  <2>10. ActorInv'
    BY <1>1, <1>2, <1>3, <1>4, <2>1, <2>7, <2>8, <2>9, RunMoves
  <2>. QED  BY <2>6, <2>10, HalvesNext
<1>5. ASSUME UNCHANGED <<status, effects, refused>>
      PROVE  WorldInv' /\ Follow /\ UNCHANGED effects
  <2>1. UNCHANGED ledger
    BY <1>1, <1>5 DEF ledger
  <2>. QED  BY <1>1, <1>5, <2>1, WorldStands
<1>6. ASSUME To("unmark"), UNCHANGED <<status, effects, cache, refused>>
      PROVE  MachineStatusInv'
  <2>1. ActorInv'
    BY <1>1, <1>2, <1>3, <1>5, <1>6, ReadStays, RunTo
  <2>. QED  BY <1>5, <1>6, <2>1, HalvesNext
<1>7. ASSUME Fail(TRUE, cache), UNCHANGED <<status, effects, refused>>
      PROVE  MachineStatusInv'
  <2>1. ActorInv'
    BY <1>1, <1>5, <1>7, FailKeeps
  <2>. QED  BY <1>5, <1>7, <2>1, HalvesNext
<1>. QED  BY <1>4, <1>6, <1>7 DEF RunFinish

LEMMA RunUnmarkKeeps ==
  ASSUME StatusAssumption, MachineStatusInv, RunUnmark
  PROVE  MachineStatusInv'
<1>1. Grow /\ Follow /\ UNCHANGED ledger
  BY StillFollow DEF RunUnmark, ledger, remote, Grow
<1>2. WorldTypes'
  BY DEF RunUnmark, MachineStatusInv, TypeOK, WorldTypes, ledger, remote, counts
<1>3. WorldInv'
  BY <1>1, <1>2, LedgerKept DEF RunUnmark
<1>4. run' \in Run /\ RunInv' /\ since' \in SUBSET {"commit", "observation"}
  BY NobodyRuns DEF RunUnmark, MachineStatusInv, TypeOK
<1>5. CASE run.by = "supervisor"
  <2>1. sup' = [sup EXCEPT !.pc = "observe"] /\ UNCHANGED <<cache, cycle>>
    BY <1>5 DEF RunUnmark
  <2>2. sup' \in Sup /\ SupInv'
    BY <1>1, <1>5, <2>1, ReachedStays, RunIs DEF RunInv, Sup, SupInv, MachineStatusInv, TypeOK
  <2>3. Shown(cache)' /\ Retain(effects', 0) /\ 0 \notin cycle.todo
    BY <1>1, <2>1, ReadStays DEF Follow, MachineStatusInv, TypeOK, Cycle, Ids
  <2>4. cycle' \in Cycle /\ IsFiniteSet(cycle'.todo) /\ CycleInv'
    BY <1>1, <2>1, <2>3, CycleStays
  <2>. QED  BY <1>3, <1>4, <2>2, <2>3, <2>4, HalvesNext DEF ActorInv
<1>6. CASE run.by # "supervisor"
  <2>1. EndCycle("recollect")
    BY <1>6 DEF RunUnmark
  <2>2. ActorInv'
    BY <1>1, <1>4, <2>1, EndCycleKeeps, WokenKeeps DEF ActorInv
  <2>. QED  BY <1>3, <2>2, HalvesNext
<1>. QED  BY <1>5, <1>6

\* An intent is resolved when the status of the present was seen on GitHub.
LEMMA RunSettleKeeps ==
  ASSUME StatusAssumption, MachineStatusInv, RunSettle
  PROVE  MachineStatusInv'
<1>1. Grow /\ UNCHANGED <<attempt, obs, remote, markers, counts>>
  BY DEF RunSettle, remote, Grow
<1>2. run.by = "resolve" /\ Reached(run.seq) /\ cycle.pc = "resolve"
      /\ run.id \notin cycle.todo
  BY RunIs DEF RunSettle, At, RunInv, Proved
<1>. DEFINE E == {IF e.id = run.id THEN [e EXCEPT !.state = "resolved"] ELSE e : e \in effects}
            g == [e \in effects |->
                    IF e.id = run.id THEN [e EXCEPT !.state = "resolved"] ELSE e]
<1>3. ASSUME settles, accept(appliedStatus, E), run' = NoRun,
             cycle' = [cycle EXCEPT !.settled = TRUE], Note({"commit"}),
             UNCHANGED <<cache, sup>>
      PROVE  MachineStatusInv'
  <2>1. ASSUME NEW e \in effects
        PROVE  /\ g[e] \in Effect /\ g[e].id = e.id /\ g[e].seq = e.seq
               /\ g[e].state = "pending" => e.state = "pending"
               /\ e.id # run.id => g[e] = e
    <3>1. e \in Effect
      BY DEF MachineStatusInv, TypeOK
    <3>2. CASE e.id = run.id
      BY <3>1, <3>2 DEF Effect
    <3>. QED  BY <3>1, <3>2
  <2>2. E = {g[e] : e \in effects}
    OBVIOUS
  <2>3. effects' = E /\ status' = appliedStatus
    BY <1>3 DEF accept
  <2>. HIDE DEF g, E
  <2>4. g = [e \in effects |-> g[e]]
    BY DEF g
  <2>5. Sound(effects') /\ Descend(effects')
    BY <2>1, <2>2, <2>3, <2>4, Mapped
  <2>6. Retain(effects', run.id)
    BY <2>1, <2>2, <2>3 DEF Retain
  <2>7. status'.seq = status.seq /\ status'.applied = status.seq /\ status' \in Status
    BY <2>3 DEF appliedStatus, Status, MachineStatusInv, TypeOK
  <2>8. Reached(status.applied)'
    BY <1>1, <1>2, <1>3, <2>7, ReachedStays DEF Reached, Published, settles
  <2>9. WorldTypes'
    BY <1>1, <1>3, <2>5, <2>7
       DEF MachineStatusInv, TypeOK, WorldTypes, accept, Sound, remote, counts
  <2>10. WorldInv'
    BY <1>1, <2>5, <2>7, <2>8, <2>9, LedgerChanged
  <2>11. run' \in Run /\ RunInv'
    BY <1>3, NobodyRuns
  <2>12. cycle' \in Cycle /\ cycle'.todo = cycle.todo /\ cycle'.pc = cycle.pc
    BY <1>3 DEF Cycle, MachineStatusInv, TypeOK
  <2>13. Shown(cache)'
    BY <1>1, <1>3, ReadStays
  <2>14. CycleInv'
    BY <1>2, <2>6, <2>12, <2>13 DEF CycleInv, Shown, Retain, MachineStatusInv
  <2>15. Woken /\ since' \in SUBSET {"commit", "observation"}
    BY <1>3 DEF Woken, Note, MachineStatusInv, TypeOK
  <2>16. IsFiniteSet(cycle'.todo)
    BY <2>12 DEF MachineStatusInv, MemoryInv
  <2>17. ActorInv'
    BY <1>1, <2>11, <2>12, <2>13, <2>14, <2>15, <2>16, WokenKeeps DEF ActorInv
  <2>. QED  BY <2>10, <2>17, HalvesNext
<1>4. ASSUME Fail(TRUE, cache), UNCHANGED <<status, effects, refused>>
      PROVE  MachineStatusInv'
  <2>1. UNCHANGED ledger
    BY <1>1, <1>4 DEF ledger
  <2>2. WorldInv'
    BY <1>1, <1>4, <2>1, WorldStands
  <2>3. ActorInv'
    BY <1>1, <1>4, FailKeeps
  <2>. QED  BY <2>2, <2>3, HalvesNext
<1>. QED  BY <1>3, <1>4 DEF RunSettle

LEMMA CancelKeeps ==
  ASSUME StatusAssumption, MachineStatusInv, Cancel
  PROVE  MachineStatusInv'
<1>1. WorldInv' /\ Grow /\ Follow
  BY WorldStands DEF Cancel
<1>2. /\ run' \in Run /\ run'.by = run.by /\ run'.id = run.id /\ run'.seq = run.seq
      /\ run'.pc = run.pc
  BY RunIs DEF Cancel, Run
<1>3. RunInv'
  BY <1>1, <1>2, RunGoesOn DEF Cancel, Follow
<1>4. ActorInv'
  <2>1. Shown(cache)' /\ Retain(effects', 0) /\ 0 \notin cycle.todo
    BY <1>1, ReadStays DEF Cancel, Follow, MachineStatusInv, TypeOK, Cycle, Ids
  <2>2. Woken /\ since' \in SUBSET {"commit", "observation"}
    BY DEF Cancel, Woken, MachineStatusInv, TypeOK
  <2>. QED  BY <1>1, <1>2, <1>3, <2>1, <2>2, CycleStays, WokenKeeps DEF ActorInv, Cancel
<1>. QED  BY <1>1, <1>4, HalvesNext

LEMMA RunCancelledKeeps ==
  ASSUME StatusAssumption, MachineStatusInv, RunCancelled
  PROVE  MachineStatusInv'
<1>1. WorldInv' /\ Grow /\ UNCHANGED effects
  BY WorldStands DEF RunCancelled
<1>. QED  BY <1>1, FailKeeps, HalvesNext DEF RunCancelled

LEMMA RunAbortKeeps ==
  ASSUME StatusAssumption, MachineStatusInv, RunAbort
  PROVE  MachineStatusInv'
<1>1. Grow /\ UNCHANGED ledger /\ UNCHANGED effects
  BY DEF RunAbort, ledger, remote, Grow
<1>2. WorldTypes'
  BY DEF RunAbort, MachineStatusInv, TypeOK, WorldTypes, ledger, remote, StatusAssumption
<1>3. WorldInv'
  BY <1>1, <1>2, LedgerKept DEF RunAbort
<1>. QED  BY <1>1, <1>3, FailKeeps, HalvesNext DEF RunAbort

LEMMA RunLostKeeps ==
  ASSUME StatusAssumption, MachineStatusInv, RunLost
  PROVE  MachineStatusInv'
<1>1. Grow /\ UNCHANGED ledger /\ UNCHANGED effects
  BY DEF RunLost, ledger, Grow
<1>2. WorldTypes'
  <2>1. flight' \in SUBSET Request
    BY RunIs DEF RunLost, Request, MachineStatusInv, TypeOK
  <2>. QED  BY <2>1 DEF RunLost, MachineStatusInv, TypeOK, WorldTypes, ledger, StatusAssumption
<1>3. WorldInv'
  BY <1>1, <1>2, LedgerKept DEF RunLost
<1>. QED  BY <1>1, <1>3, FailKeeps, HalvesNext DEF RunLost

-----------------------------------------------------------------------------
(* The steps of the cycle *)

\* The cycle ends while others run.
LEMMA CycleEnds ==
  ASSUME StatusAssumption, MachineStatusInv, Grow, Descend(effects'), NEW how, EndCycle(how),
         UNCHANGED run, run.by # "resolve", since' \in SUBSET {"commit", "observation"}
  PROVE  ActorInv'
<1>1. /\ cycle' \in Cycle /\ IsFiniteSet(cycle'.todo) /\ Shown(cache)' /\ CycleInv' /\ Woken
  BY EndCycleKeeps
<1>2. sup.pc = "executing" => sup' = sup
  BY DEF EndCycle
<1>3. RunInv'
  BY <1>2, RunIs, RunGoesOn
<1>. QED  BY <1>1, <1>3, RunIs, WokenKeeps DEF ActorInv

\* The cycle goes on while others run.
LEMMA CycleMoves ==
  ASSUME StatusAssumption, MachineStatusInv, Grow, Descend(effects'),
         cycle' \in Cycle, IsFiniteSet(cycle'.todo), cycle'.pc # "resolve",
         UNCHANGED <<run, sup>>, run.by # "resolve", Shown(cache)',
         since' \in SUBSET {"commit", "observation"}
  PROVE  ActorInv'
<1>1. RunInv'
  BY RunIs, RunGoesOn
<1>2. CycleInv' /\ Woken
  BY DEF CycleInv, Shown, Woken
<1>. QED  BY <1>1, <1>2, RunIs, WokenKeeps DEF ActorInv

\* A run that gets the key works on an intent of the ledger.
LEMMA AcquireKeeps ==
  ASSUME StatusAssumption, MachineStatusInv, UNCHANGED effects,
         NEW by \in {"resolve", "resume", "phase", "supervisor"}, NEW e \in effects,
         Acquire(by, e.id),
         by = "resolve" => cycle'.pc = "resolve" /\ e.id \notin cycle'.todo,
         by = "supervisor" => sup'.pc = "executing"
  PROVE  run' \in Run /\ RunInv'
<1>1. Intent(e.id) = e
  BY IntentOf DEF MachineStatusInv
<1>2. e \in Effect /\ status.want \in BOOLEAN
  BY DEF MachineStatusInv, TypeOK, Status
<1>3. /\ run'.by = by /\ run'.id = e.id /\ run'.seq = e.seq /\ run' \in Run
      /\ run'.pc = IF by = "resolve" THEN "target" ELSE "check"
  BY <1>1, <1>2 DEF Acquire, NoRun, Run, Effect
<1>4. \A f \in effects : f.id = e.id => f = e
  BY DEF MachineStatusInv, LedgerInv
<1>5. run'.id # 0
  BY <1>2, <1>3 DEF Effect, Ids
<1>. QED  BY <1>3, <1>4, <1>5 DEF RunInv, Proved, Network

\* What the cycle and its snapshot are.
LEMMA CycleIs ==
  ASSUME MachineStatusInv
  PROVE  /\ cycle \in Cycle /\ IsFiniteSet(cycle.todo) /\ CycleInv /\ cycle.todo \subseteq Ids
         /\ run.by = "resolve" => cycle.pc = "resolve"
         /\ since \in SUBSET {"commit", "observation"} /\ 0 \notin cycle.todo
BY DEF MachineStatusInv, TypeOK, MemoryInv, RunInv, Cycle, Ids

LEMMA CycleStartKeeps ==
  ASSUME StatusAssumption, MachineStatusInv, CycleStart
  PROVE  MachineStatusInv'
<1>1. WorldInv' /\ Grow /\ Follow
  BY WorldStands DEF CycleStart
<1>2. cycle' \in Cycle /\ cycle'.todo = cycle.todo /\ cycle'.pc # "resolve"
  BY CycleIs DEF CycleStart, Cycle
<1>3. sup' \in Sup /\ SupInv' /\ (sup.pc = "executing" => sup' = sup)
  BY <1>1, ReachedStays DEF CycleStart, Sup, SupInv, MachineStatusInv, TypeOK
<1>4. RunInv'
  BY <1>1, <1>3, RunIs, CycleIs, RunGoesOn DEF CycleStart, Follow
<1>5. Shown(cache)'
  BY <1>1, ReadStays DEF CycleStart
<1>6. CycleInv'
  BY <1>2, <1>5 DEF CycleInv, Shown
<1>. QED  BY <1>1, <1>2, <1>3, <1>4, <1>5, <1>6, RunIs, CycleIs, HalvesNext
          DEF ActorInv, CycleStart

LEMMA CycleCollectKeeps ==
  ASSUME StatusAssumption, MachineStatusInv, CycleCollect
  PROVE  MachineStatusInv'
<1>1. WorldInv' /\ Grow /\ Follow
  BY WorldStands DEF CycleCollect
<1>2. directStatus \in View /\ Reached(directStatus.top)
  BY DirectView DEF MachineStatusInv
<1>3. cycle' \in Cycle /\ cycle'.todo = cycle.todo /\ cycle'.pc # "resolve"
  BY <1>2, CycleIs DEF CycleCollect, Cycle
<1>4. Shown(cache)'
  <2>0. cache' = {directStatus}
    BY DEF CycleCollect
  <2>. HIDE DEF directStatus
  <2>1. Cardinality(cache') = 1
    BY <2>0, FS_Singleton
  <2>. QED  BY <1>1, <1>2, <2>0, <2>1, ReachedStays DEF Shown
<1>5. ActorInv'
  BY <1>1, <1>3, <1>4, CycleIs, CycleMoves DEF Follow, CycleCollect
<1>. QED  BY <1>1, <1>5, HalvesNext

LEMMA CycleScanKeeps ==
  ASSUME StatusAssumption, MachineStatusInv, CycleScan
  PROVE  MachineStatusInv'
<1>1. WorldInv' /\ Grow /\ Follow /\ UNCHANGED effects
  BY WorldStands DEF CycleScan
<1>. DEFINE S == {x \in effects : x.state = "invalidated"}
            f == [e \in S |-> e.id]
<1>2. IsFiniteSet({f[e] : e \in S})
  <2>1. IsFiniteSet(S)
    BY FS_Subset DEF MachineStatusInv, MemoryInv
  <2>. QED  BY <2>1, FiniteImage
<1>3. cycle'.todo = {f[e] : e \in S} /\ cycle'.pc = "resolve" /\ cycle' \in Cycle
  <2>1. {f[e] : e \in S} = {e.id : e \in S} /\ {e.id : e \in S} \subseteq Ids
    BY DEF MachineStatusInv, TypeOK, Effect
  <2>2. cycle' = [cycle EXCEPT !.pc = "resolve", !.todo = {e.id : e \in S}]
    BY DEF CycleScan
  <2>. HIDE DEF S, f
  <2>. QED  BY <2>1, <2>2, CycleIs DEF Cycle
<1>4. Shown(cache)'
  BY <1>1, ReadStays DEF CycleScan
<1>5. CycleInv'
  BY <1>1, <1>3, <1>4 DEF CycleInv, Shown
<1>6. RunInv'
  <2>1. run.by # "resolve"
    BY CycleIs DEF CycleScan
  <2>. QED  BY <1>1, <2>1, RunIs, RunGoesOn DEF CycleScan, Follow
<1>7. Woken
  BY DEF Woken, CycleScan
<1>. QED  BY <1>1, <1>2, <1>3, <1>4, <1>5, <1>6, <1>7, RunIs, CycleIs, WokenKeeps,
             HalvesNext DEF ActorInv, CycleScan

LEMMA CycleApplyKeeps ==
  ASSUME StatusAssumption, MachineStatusInv, CycleApply
  PROVE  MachineStatusInv'
<1>1. PICK base \in {"same", "refreshed", "old"} :
        /\ obs' = [present |-> TRUE, old |-> FALSE, seen |-> fact(cycle.seen)]
        /\ effects' = {IF base = "same" \/ e.base = "old" THEN e
                       ELSE [e EXCEPT !.base = base] : e \in effects}
        /\ Note(IF base = "same" THEN {} ELSE {"commit", "observation"})
  BY DEF CycleApply
<1>2. Grow /\ UNCHANGED <<status, attempt, remote, markers, counts, refused>>
  BY DEF CycleApply, remote, Grow
<1>. DEFINE g == [e \in effects |-> IF base = "same" \/ e.base = "old" THEN e
                                    ELSE [e EXCEPT !.base = base]]
<1>3. ASSUME NEW e \in effects
      PROVE  g[e] \in Effect /\ g[e].id = e.id /\ g[e].seq = e.seq /\ g[e].state = e.state
  <2>1. g[e] \in {e, [e EXCEPT !.base = base]} /\ e \in Effect
    BY DEF MachineStatusInv, TypeOK
  <2>. HIDE DEF g
  <2>. QED  BY <2>1 DEF Effect
<1>4. effects' = {g[e] : e \in effects}
  BY <1>1
<1>. HIDE DEF g
<1>5. g = [e \in effects |-> g[e]]
  BY DEF g
<1>6. Sound(effects') /\ Follow
  BY <1>3, <1>4, <1>5, Mapped DEF Follow, Retain
<1>7. WorldTypes'
  <2>1. fact(cycle.seen) \in Fact
    BY CycleIs DEF fact, Fact, Cycle, View
  <2>. QED  BY <1>1, <1>2, <1>6, <2>1
            DEF MachineStatusInv, TypeOK, WorldTypes, Sound, remote, counts
<1>8. WorldInv'
  BY <1>2, <1>6, <1>7, LedgerChanged, ReachedStays
     DEF Follow, MachineStatusInv, LedgerInv, Reached, Published
<1>9. ActorInv'
  <2>1. run.by # "resolve"
    BY CycleIs DEF CycleApply
  <2>2. /\ run' \in Run /\ run'.by = run.by /\ run'.id = run.id /\ run'.seq = run.seq
        /\ run'.pc = run.pc
    BY RunIs DEF CycleApply, Run
  <2>3. RunInv'
    BY <1>2, <1>6, <2>1, <2>2, RunGoesOn DEF Follow, CycleApply
  <2>4. cycle' \in Cycle /\ cycle'.todo = cycle.todo /\ cycle'.pc # "resolve"
    <3>1. NoView \in View
      BY DEF NoView, View, Seqs, StatusAssumption
    <3>. QED  BY <3>1, CycleIs DEF CycleApply, Cycle
  <2>5. Shown(cache)'
    BY <1>2, ReadStays DEF CycleApply
  <2>6. CycleInv' /\ Woken
    BY <2>4, <2>5 DEF CycleInv, Shown, Woken, CycleApply
  <2>7. since' \in SUBSET {"commit", "observation"}
    BY <1>1, CycleIs DEF Note
  <2>. QED  BY <1>2, <2>2, <2>3, <2>4, <2>5, <2>6, <2>7, CycleIs, WokenKeeps DEF ActorInv
<1>. QED  BY <1>8, <1>9, HalvesNext

LEMMA CycleResolveKeeps ==
  ASSUME StatusAssumption, MachineStatusInv, CycleResolve
  PROVE  MachineStatusInv'
<1>1. WorldInv' /\ Grow /\ Follow /\ UNCHANGED effects /\ UNCHANGED since
  BY WorldStands DEF CycleResolve
<1>2. run.by # "resolve" /\ cycle.pc = "resolve"
  BY DEF CycleResolve
<1>3. ASSUME EndCycle("recollect"), UNCHANGED run
      PROVE  ActorInv'
  BY <1>1, <1>2, <1>3, CycleIs, CycleEnds DEF Follow
<1>4. ASSUME cycle' = [cycle EXCEPT !.pc = "resume", !.todo = {e.id : e \in Pending}],
             UNCHANGED <<run, cache, sup>>
      PROVE  ActorInv'
  <2>. DEFINE f == [e \in Pending |-> e.id]
  <2>1. IsFiniteSet({f[e] : e \in Pending})
    <3>1. IsFiniteSet(Pending)
      BY FS_Subset DEF MachineStatusInv, MemoryInv, Pending
    <3>. QED  BY <3>1, FiniteImage
  <2>2. {f[e] : e \in Pending} = {e.id : e \in Pending} /\ {e.id : e \in Pending} \subseteq Ids
    BY DEF MachineStatusInv, TypeOK, Effect, Pending
  <2>. HIDE DEF f
  <2>3. cycle' \in Cycle /\ IsFiniteSet(cycle'.todo) /\ cycle'.pc # "resolve"
    BY <1>4, <2>1, <2>2, CycleIs DEF Cycle
  <2>4. Shown(cache)'
    BY <1>1, <1>4, ReadStays
  <2>. QED  BY <1>1, <1>2, <1>4, <2>3, <2>4, CycleIs, CycleMoves DEF Follow
<1>5. ASSUME NEW id \in cycle.todo, run = NoRun, Acquire("resolve", id),
             cycle' = [cycle EXCEPT !.todo = @ \ {id}], UNCHANGED <<cache, sup>>
      PROVE  ActorInv'
  <2>1. PICK e \in effects : e.id = id
    BY <1>2, <1>5, CycleIs DEF CycleInv
  <2>2. /\ cycle' \in Cycle /\ cycle'.pc = "resolve" /\ cycle'.todo = cycle.todo \ {id}
    BY <1>2, <1>5, CycleIs DEF Cycle
  <2>3. IsFiniteSet(cycle'.todo)
    BY <2>2, CycleIs, FS_RemoveElement
  <2>4. run' \in Run /\ RunInv'
    BY <1>1, <1>5, <2>1, <2>2, AcquireKeeps
  <2>5. Shown(cache)'
    BY <1>1, <1>5, ReadStays
  <2>6. CycleInv'
    BY <1>1, <1>2, <2>2, <2>5, CycleIs DEF CycleInv, Shown
  <2>7. Woken
    BY <1>5 DEF Woken
  <2>. QED  BY <1>1, <2>2, <2>3, <2>4, <2>5, <2>6, <2>7, CycleIs, WokenKeeps DEF ActorInv
<1>. QED  BY <1>1, <1>3, <1>4, <1>5, HalvesNext DEF CycleResolve

\* A marked intent that its result is still accepted for is one that was published.
LEMMA CycleResumeKeeps ==
  ASSUME StatusAssumption, MachineStatusInv, CycleResume
  PROVE  MachineStatusInv'
<1>1. Grow /\ UNCHANGED <<attempt, obs, remote, counts>>
  BY DEF CycleResume, remote, Grow
<1>2. run.by # "resolve" /\ cycle.pc = "resume"
  BY CycleIs DEF CycleResume
<1>3. ASSUME Same, markers' \subseteq markers
      PROVE  WorldInv' /\ Follow /\ UNCHANGED effects
             /\ since' \in SUBSET {"commit", "observation"}
  <2>1. UNCHANGED ledger /\ UNCHANGED effects /\ UNCHANGED since
    BY <1>1, <1>3 DEF ledger, Same
  <2>2. WorldTypes'
    BY <1>1, <1>3, <2>1 DEF MachineStatusInv, TypeOK, WorldTypes, Same, ledger, remote, counts
  <2>. QED  BY <1>1, <1>3, <2>1, <2>2, CycleIs, LedgerKept, StillFollow
<1>4. ASSUME NEW id \in cycle.todo, cycle' = [cycle EXCEPT !.todo = @ \ {id}]
      PROVE  cycle' \in Cycle /\ IsFiniteSet(cycle'.todo) /\ cycle'.pc # "resolve"
  <2>1. cycle' \in Cycle /\ cycle'.todo = cycle.todo \ {id} /\ cycle'.pc = cycle.pc
    BY <1>4, CycleIs DEF Cycle
  <2>. QED  BY <1>2, <2>1, CycleIs, FS_RemoveElement
<1>5. ASSUME cycle.todo = {}, cycle' = [cycle EXCEPT !.pc = "status"],
             UNCHANGED <<markers, run, cache, sup>>, Same
      PROVE  MachineStatusInv'
  <2>1. cycle' \in Cycle /\ cycle'.todo = cycle.todo /\ cycle'.pc # "resolve"
    BY <1>5, CycleIs DEF Cycle
  <2>2. Shown(cache)'
    BY <1>1, <1>5, ReadStays
  <2>3. ActorInv'
    BY <1>1, <1>2, <1>3, <1>5, <2>1, <2>2, CycleIs, CycleMoves DEF Follow
  <2>. QED  BY <1>3, <1>5, <2>3, HalvesNext
<1>6. ASSUME NEW id \in cycle.todo \cap markers, current(id),
             accept(appliedStatus, completed(id)), Note({"commit"}),
             markers' = markers \ {id}, EndCycle("recollect"), UNCHANGED run
      PROVE  MachineStatusInv'
  <2>1. Sound(effects') /\ Descend(effects')
    BY <1>6, Completed DEF accept
  <2>2. status' = appliedStatus /\ status'.seq = status.seq
        /\ status'.applied = status.seq /\ status' \in Status
    BY <1>6 DEF accept, appliedStatus, Status, MachineStatusInv, TypeOK
  <2>3. Published(status.seq)
    BY <1>6 DEF MachineStatusInv, MarkerInv
  <2>4. Reached(status.applied)'
    BY <1>1, <2>2, <2>3, ReachedStays DEF Reached, Published
  <2>5. WorldTypes'
    BY <1>1, <1>6, <2>1, <2>2
       DEF MachineStatusInv, TypeOK, WorldTypes, accept, Sound, remote, counts
  <2>6. WorldInv'
    BY <1>1, <1>6, <2>1, <2>2, <2>4, <2>5, LedgerChanged
  <2>7. since' \in SUBSET {"commit", "observation"}
    BY <1>6, CycleIs DEF Note
  <2>8. ActorInv'
    BY <1>1, <1>2, <1>6, <2>1, <2>7, CycleEnds
  <2>. QED  BY <2>6, <2>8, HalvesNext
<1>7. ASSUME NEW id, markers' = markers \ {id}, EndCycle("recollect"), UNCHANGED run, Same
      PROVE  MachineStatusInv'
  <2>1. ActorInv'
    BY <1>1, <1>2, <1>3, <1>7, CycleEnds DEF Follow
  <2>. QED  BY <1>3, <1>7, <2>1, HalvesNext
<1>8. ASSUME NEW id \in cycle.todo, cycle' = [cycle EXCEPT !.todo = @ \ {id}],
             UNCHANGED <<markers, run, cache, sup>>, Same
      PROVE  MachineStatusInv'
  <2>1. Shown(cache)'
    BY <1>1, <1>8, ReadStays
  <2>2. ActorInv'
    BY <1>1, <1>2, <1>3, <1>4, <1>8, <2>1, CycleMoves DEF Follow
  <2>. QED  BY <1>3, <1>8, <2>2, HalvesNext
<1>9. ASSUME NEW id \in cycle.todo, Known(id), Acquire("resume", id),
             cycle' = [cycle EXCEPT !.todo = @ \ {id}], UNCHANGED <<markers, cache, sup>>, Same
      PROVE  MachineStatusInv'
  <2>1. PICK e \in effects : e.id = id
    BY <1>9 DEF Known
  <2>2. run' \in Run /\ RunInv'
    BY <1>3, <1>9, <2>1, AcquireKeeps
  <2>3. Shown(cache)'
    BY <1>1, <1>9, ReadStays
  <2>4. CycleInv' /\ Woken
    BY <1>4, <1>9, <2>3 DEF CycleInv, Shown, Woken
  <2>5. ActorInv'
    BY <1>1, <1>3, <1>4, <1>9, <2>2, <2>3, <2>4, WokenKeeps DEF ActorInv
  <2>. QED  BY <1>3, <1>9, <2>5, HalvesNext
<1>. QED  BY <1>5, <1>6, <1>7, <1>8, <1>9 DEF CycleResume

\* A new status leaves no intent pending, so none can be completed for it unpublished.
LEMMA Admission ==
  ASSUME StatusAssumption, MachineStatusInv,
         NEW source \in {"worker", "orchestrator", "destructive"}, NEW want \in BOOLEAN,
         status.seq < MaxSeq, NEW E, E \subseteq superseded(effects),
         accept(admitted(source, want), E) \/ refuse(admitted(source, want), E),
         UNCHANGED <<remote, markers, counts>>, attempt' \in BOOLEAN,
         obs' \in [present : BOOLEAN, seen : Fact, old : BOOLEAN]
  PROVE  WorldInv' /\ Grow /\ Descend(effects')
<1>1. Grow
  BY DEF remote, Grow
<1>2. CASE accept(admitted(source, want), E)
  <2>1. /\ status' = admitted(source, want) /\ effects' = E /\ UNCHANGED refused
    BY <1>2 DEF accept
  <2>2. Sound(E) /\ Descend(E) /\ Settled(E)
    BY Superseded
  <2>3. status' \in Status /\ status'.applied = status.applied
    <3>1. status \in Status /\ status.seq + 1 \in Seqs
      BY DEF Status, Seqs, StatusAssumption, MachineStatusInv, TypeOK
    <3>. QED  BY <2>1, <3>1 DEF admitted, Status
  <2>4. WorldTypes'
    BY <2>1, <2>2, <2>3 DEF MachineStatusInv, TypeOK, WorldTypes, Sound, remote, counts
  <2>5. Reached(status.applied)'
    BY <1>1, <2>3, ReachedStays DEF MachineStatusInv, LedgerInv, Reached, Published
  <2>. QED  BY <1>1, <2>1, <2>2, <2>4, <2>5, LedgerChanged
<1>3. CASE refuse(admitted(source, want), E)
  <2>1. status' = status /\ effects' = effects /\ refused' = TRUE
    BY <1>3 DEF refuse
  <2>2. WorldTypes'
    BY <2>1 DEF MachineStatusInv, TypeOK, WorldTypes, remote, counts
  <2>3. Sound(effects') /\ Descend(effects')
    BY <2>1, NowSound, StillFollow DEF Follow
  <2>4. Reached(status.applied)'
    BY <1>1, <2>1, ReachedStays DEF MachineStatusInv, LedgerInv, Reached, Published
  <2>. QED  BY <1>1, <2>1, <2>2, <2>3, <2>4, LedgerChanged
<1>. QED  BY <1>2, <1>3

LEMMA CycleStatusKeeps ==
  ASSUME StatusAssumption, MachineStatusInv, CycleStatus
  PROVE  MachineStatusInv'
<1>1. Grow /\ UNCHANGED <<attempt, obs, remote, markers, run, counts>>
  BY DEF CycleStatus, remote, Grow
<1>2. run.by # "resolve" /\ cycle.pc = "status"
  BY CycleIs DEF CycleStatus
<1>3. ASSUME Same
      PROVE  WorldInv' /\ Follow /\ since' \in SUBSET {"commit", "observation"}
  <2>1. UNCHANGED ledger /\ UNCHANGED since
    BY <1>1, <1>3 DEF ledger, Same
  <2>. QED  BY <1>1, <1>3, <2>1, CycleIs, WorldStands DEF Same
<1>4. ASSUME cycle' = [cycle EXCEPT !.pc = "runtime"], UNCHANGED <<cache, sup>>, Same
      PROVE  MachineStatusInv'
  <2>1. cycle' \in Cycle /\ IsFiniteSet(cycle'.todo) /\ cycle'.pc # "resolve"
    BY <1>4, CycleIs DEF Cycle
  <2>2. Shown(cache)'
    BY <1>1, <1>4, ReadStays
  <2>3. ActorInv'
    BY <1>1, <1>2, <1>3, <1>4, <2>1, <2>2, CycleMoves DEF Follow
  <2>. QED  BY <1>3, <1>4, <2>3, HalvesNext
<1>5. ASSUME planned(status), Pending = {}, accept(status, begun(newId)), Note({"commit"}),
             cycle' = [cycle EXCEPT !.pc = "acquire", !.id = newId], UNCHANGED <<cache, sup>>
      PROVE  MachineStatusInv'
  <2>1. status.seq # 0
    BY <1>5 DEF planned
  <2>2. effects' = begun(newId) /\ status' = status /\ UNCHANGED refused
    BY <1>5 DEF accept
  <2>3. Sound(effects') /\ Descend(effects')
    BY <1>5, <2>1, <2>2, Begun
  <2>4. WorldTypes'
    BY <1>1, <2>2, <2>3 DEF MachineStatusInv, TypeOK, WorldTypes, Sound, remote, counts
  <2>5. WorldInv'
    BY <1>1, <2>2, <2>3, <2>4, LedgerChanged, ReachedStays
       DEF MachineStatusInv, LedgerInv, Reached, Published
  <2>6. newId \in Ids
    BY NewId DEF MachineStatusInv
  <2>7. cycle' \in Cycle /\ IsFiniteSet(cycle'.todo) /\ cycle'.pc # "resolve"
    BY <1>5, <2>6, CycleIs DEF Cycle
  <2>8. Shown(cache)' /\ since' \in SUBSET {"commit", "observation"}
    BY <1>1, <1>5, ReadStays, CycleIs DEF Note
  <2>9. ActorInv'
    BY <1>1, <1>2, <1>5, <2>3, <2>7, <2>8, CycleMoves
  <2>. QED  BY <2>5, <2>9, HalvesNext
<1>6. ASSUME NEW e \in Pending, Same, cycle' = [cycle EXCEPT !.pc = "acquire", !.id = e.id],
             UNCHANGED <<cache, sup>>
      PROVE  MachineStatusInv'
  <2>1. e.id \in Ids
    BY DEF Pending, MachineStatusInv, TypeOK, Effect
  <2>2. cycle' \in Cycle /\ IsFiniteSet(cycle'.todo) /\ cycle'.pc # "resolve"
    BY <1>6, <2>1, CycleIs DEF Cycle
  <2>3. Shown(cache)'
    BY <1>1, <1>6, ReadStays
  <2>4. ActorInv'
    BY <1>1, <1>2, <1>3, <1>6, <2>2, <2>3, CycleMoves DEF Follow
  <2>. QED  BY <1>3, <1>6, <2>4, HalvesNext
<1>7. ASSUME Same, EndCycle("error")
      PROVE  MachineStatusInv'
  <2>1. ActorInv'
    BY <1>1, <1>2, <1>3, <1>7, CycleEnds DEF Follow
  <2>. QED  BY <1>3, <1>7, <2>1, HalvesNext
<1>. QED  BY <1>4, <1>5, <1>6, <1>7 DEF CycleStatus

LEMMA CycleAcquireKeeps ==
  ASSUME StatusAssumption, MachineStatusInv, CycleAcquire
  PROVE  MachineStatusInv'
<1>1. WorldInv' /\ Grow /\ Follow /\ UNCHANGED effects
      /\ since' \in SUBSET {"commit", "observation"}
  BY WorldStands, CycleIs DEF CycleAcquire
<1>2. run.by # "resolve" /\ cycle.pc = "acquire"
  BY CycleIs DEF CycleAcquire
<1>3. ASSUME Known(cycle.id), Acquire("phase", cycle.id), UNCHANGED <<cycle, cache, sup>>
      PROVE  ActorInv'
  <2>1. PICK e \in effects : e.id = cycle.id
    BY <1>3 DEF Known
  <2>2. run' \in Run /\ RunInv'
    BY <1>1, <1>3, <2>1, AcquireKeeps
  <2>3. Shown(cache)'
    BY <1>1, <1>3, ReadStays
  <2>4. CycleInv' /\ Woken
    BY <1>2, <1>3, <2>3 DEF CycleInv, Shown, Woken
  <2>. QED  BY <1>1, <1>3, <2>2, <2>3, <2>4, CycleIs, WokenKeeps DEF ActorInv
<1>4. ASSUME EndCycle("recollect"), UNCHANGED run
      PROVE  ActorInv'
  BY <1>1, <1>2, <1>4, CycleEnds DEF Follow
<1>. QED  BY <1>1, <1>3, <1>4, HalvesNext DEF CycleAcquire

LEMMA CycleDoneKeeps ==
  ASSUME StatusAssumption, MachineStatusInv, CycleDone
  PROVE  MachineStatusInv'
<1>1. WorldInv' /\ Grow /\ Follow
  BY WorldStands DEF CycleDone
<1>2. run.by # "resolve"
  BY CycleIs DEF CycleDone
<1>3. ActorInv'
  BY <1>1, <1>2, CycleIs, CycleEnds DEF CycleDone, Follow
<1>. QED  BY <1>1, <1>3, HalvesNext

\* The next attempt clears the status, if there is one.
LEMMA CycleNewAttemptKeeps ==
  ASSUME StatusAssumption, MachineStatusInv, CycleNewAttempt
  PROVE  MachineStatusInv'
<1>. DEFINE st   == IF status.seq = 0 THEN status ELSE admitted("destructive", FALSE)
            effs == {e \in superseded(effects) : e.state # "completed"}
<1>1. UNCHANGED <<remote, markers, run, counts>> /\ status.seq < MaxSeq
  BY DEF CycleNewAttempt
<1>2. run.by # "resolve"
  BY CycleIs DEF CycleNewAttempt
<1>3. accept(st, effs) \/ refuse(st, effs)
  BY DEF CycleNewAttempt
<1>4. NoObs \in [present : BOOLEAN, seen : Fact, old : BOOLEAN]
  BY DEF NoObs, Fact, Seqs, StatusAssumption
<1>5. attempt' \in BOOLEAN /\ obs' \in [present : BOOLEAN, seen : Fact, old : BOOLEAN]
  BY <1>4 DEF CycleNewAttempt, MachineStatusInv, TypeOK
<1>6. effs \subseteq superseded(effects)
  OBVIOUS
<1>. HIDE DEF effs
<1>7. WorldInv' /\ Grow /\ Descend(effects')
  <2>1. CASE status.seq # 0
    BY <1>1, <1>3, <1>5, <1>6, <2>1, Admission
  <2>2. CASE status.seq = 0
    <3>1. Grow
      BY <1>1 DEF remote, Grow
    <3>2. status' = status /\ (effects' = effs \/ effects' = effects)
      BY <1>3, <2>2 DEF accept, refuse
    <3>3. Sound(effects') /\ Descend(effects')
      BY <1>6, <3>2, Superseded, NowSound, StillFollow DEF Follow
    <3>4. refused' \in BOOLEAN
      BY <1>3 DEF accept, refuse, MachineStatusInv, TypeOK
    <3>5. WorldTypes'
      BY <1>1, <1>5, <3>2, <3>3, <3>4
         DEF MachineStatusInv, TypeOK, WorldTypes, Sound, remote, counts
    <3>6. WorldInv'
      BY <1>1, <3>1, <3>2, <3>3, <3>5, LedgerChanged, ReachedStays
         DEF MachineStatusInv, LedgerInv, Reached, Published
    <3>. QED  BY <3>1, <3>3, <3>6
  <2>. QED  BY <2>1, <2>2
<1>8. since' \in SUBSET {"commit", "observation"}
  BY CycleIs DEF CycleNewAttempt, Note
<1>9. \E how : EndCycle(how)
  BY DEF CycleNewAttempt
<1>10. ActorInv'
  BY <1>1, <1>2, <1>7, <1>8, <1>9, CycleEnds
<1>. QED  BY <1>7, <1>10, HalvesNext

LEMMA CycleMonitorBeginKeeps ==
  ASSUME StatusAssumption, MachineStatusInv, CycleMonitorBegin
  PROVE  MachineStatusInv'
<1>1. WorldInv' /\ Grow /\ Follow
  BY WorldStands DEF CycleMonitorBegin
<1>2. run.by # "resolve"
  BY CycleIs DEF CycleMonitorBegin
<1>3. cycle' \in Cycle /\ IsFiniteSet(cycle'.todo) /\ cycle'.pc # "resolve"
  BY CycleIs DEF CycleMonitorBegin, Cycle, Status, MachineStatusInv, TypeOK
<1>4. Shown(cache)' /\ since' \in SUBSET {"commit", "observation"}
  BY <1>1, ReadStays, CycleIs DEF CycleMonitorBegin, Note
<1>5. ActorInv'
  BY <1>1, <1>2, <1>3, <1>4, CycleMoves DEF CycleMonitorBegin, Follow
<1>. QED  BY <1>1, <1>5, HalvesNext

LEMMA CycleMonitorFinishKeeps ==
  ASSUME StatusAssumption, MachineStatusInv, CycleMonitorFinish
  PROVE  MachineStatusInv'
<1>1. UNCHANGED <<attempt, obs, remote, markers, run, counts>> /\ run.by # "resolve"
  BY CycleIs DEF CycleMonitorFinish
<1>2. WorldInv' /\ Grow /\ Descend(effects')
  <2>1. CASE UNCHANGED <<status, effects, refused>>
    <3>1. UNCHANGED ledger
      BY <1>1, <2>1 DEF ledger
    <3>. QED  BY <1>1, <2>1, <3>1, WorldStands DEF Follow
  <2>2. ASSUME NEW want \in BOOLEAN, status.seq < MaxSeq,
               \/ accept(admitted("worker", want), superseded(effects))
               \/ refuse(admitted("worker", want), superseded(effects))
        PROVE  WorldInv' /\ Grow /\ Descend(effects')
    <3>1. attempt' \in BOOLEAN /\ obs' \in [present : BOOLEAN, seen : Fact, old : BOOLEAN]
      BY <1>1 DEF MachineStatusInv, TypeOK
    <3>. QED  BY <1>1, <2>2, <3>1, Admission
  <2>. QED  BY <2>1, <2>2 DEF CycleMonitorFinish, Same
<1>3. since' \in SUBSET {"commit", "observation"}
  BY CycleIs DEF CycleMonitorFinish, Note, Same
<1>4. \E how : EndCycle(how)
  BY DEF CycleMonitorFinish
<1>5. ActorInv'
  BY <1>1, <1>2, <1>3, <1>4, CycleEnds
<1>. QED  BY <1>2, <1>5, HalvesNext

LEMMA CycleFailsKeeps ==
  ASSUME StatusAssumption, MachineStatusInv, CycleFails
  PROVE  MachineStatusInv'
<1>1. Grow /\ Follow /\ UNCHANGED ledger /\ run.by # "resolve"
  BY StillFollow DEF CycleFails, ledger, remote, Grow
<1>2. WorldTypes'
  BY DEF CycleFails, MachineStatusInv, TypeOK, WorldTypes, ledger, remote, StatusAssumption
<1>3. WorldInv'
  BY <1>1, <1>2, LedgerKept DEF CycleFails
<1>4. ActorInv'
  BY <1>1, CycleIs, CycleEnds DEF CycleFails, Follow
<1>. QED  BY <1>3, <1>4, HalvesNext

-----------------------------------------------------------------------------
(* The steps of operators, of the supervisor and of GitHub *)

\* The cycle and its snapshot go on through a change of the ledger.
LEMMA CycleRests ==
  ASSUME StatusAssumption, MachineStatusInv, Grow, Retain(effects', 0), UNCHANGED <<cycle, cache>>
  PROVE  cycle' \in Cycle /\ IsFiniteSet(cycle'.todo) /\ CycleInv' /\ Shown(cache)'
BY CycleIs, ReadStays, CycleStays

LEMMA DismissKeeps ==
  ASSUME StatusAssumption, MachineStatusInv, Dismiss
  PROVE  MachineStatusInv'
<1>1. /\ UNCHANGED <<obs, remote, markers, cache, cycle, sup, counts>> /\ status.seq < MaxSeq
      /\ \/ accept(admitted("destructive", FALSE), superseded(effects))
         \/ refuse(admitted("destructive", FALSE), superseded(effects))
  BY DEF Dismiss
<1>2. attempt' \in BOOLEAN /\ obs' \in [present : BOOLEAN, seen : Fact, old : BOOLEAN]
  BY <1>1 DEF Dismiss, MachineStatusInv, TypeOK
<1>3. WorldInv' /\ Grow /\ Descend(effects')
  BY <1>1, <1>2, Admission
<1>4. Retain(effects', 0)
  BY <1>1, SupersededRetains DEF accept, refuse, Retain
<1>5. /\ run' \in Run /\ run'.by = run.by /\ run'.id = run.id /\ run'.seq = run.seq
      /\ run'.pc = run.pc
  BY RunIs DEF Dismiss, Run
<1>6. RunInv'
  BY <1>1, <1>3, <1>5, RunGoesOn
<1>7. since' \in SUBSET {"commit", "observation"} /\ Woken
  BY CycleIs DEF Dismiss, Note, Woken
<1>8. ActorInv'
  BY <1>1, <1>3, <1>4, <1>5, <1>6, <1>7, CycleRests, WokenKeeps DEF ActorInv
<1>. QED  BY <1>3, <1>8, HalvesNext

\* What the supervisor is.
LEMMA SupIs ==
  ASSUME StatusAssumption, MachineStatusInv
  PROVE  /\ sup \in Sup /\ SupInv /\ status.seq \in Seqs /\ 0 \in Seqs
         /\ NoSup \in Sup /\ NoSup.pc = "idle" /\ NoSup.result = "none" /\ NoSup.seq = 0
         /\ NoSup.plan = 0
BY DEF MachineStatusInv, TypeOK, Status, NoSup, Sup, Seqs, StatusAssumption

\* The supervisor goes on, and nobody else does.
LEMMA SupMoves ==
  ASSUME StatusAssumption, MachineStatusInv, Grow, Follow,
         UNCHANGED <<run, cache, cycle>>, sup.pc # "executing", sup' \in Sup, SupInv',
         since' \in SUBSET {"commit", "observation"}
  PROVE  ActorInv'
<1>1. RunInv'
  BY RunIs, RunGoesOn DEF Follow
<1>2. cycle' \in Cycle /\ IsFiniteSet(cycle'.todo) /\ CycleInv' /\ Shown(cache)'
  BY CycleRests DEF Follow
<1>. QED  BY <1>1, <1>2, RunIs DEF ActorInv

LEMMA SupProjectKeeps ==
  ASSUME StatusAssumption, MachineStatusInv, NEW want \in BOOLEAN, SupProject(want)
  PROVE  MachineStatusInv'
<1>1. Grow /\ Follow /\ UNCHANGED ledger
  BY StillFollow DEF SupProject, ledger, remote, Grow
<1>2. WorldTypes'
  BY DEF SupProject, MachineStatusInv, TypeOK, WorldTypes, ledger, remote, StatusAssumption
<1>3. WorldInv'
  BY <1>1, <1>2, LedgerKept DEF SupProject
<1>4. sup' \in Sup /\ SupInv'
  BY SupIs DEF SupProject, Sup, SupInv
<1>5. ActorInv'
  BY <1>1, <1>4, SupMoves DEF SupProject
<1>. QED  BY <1>3, <1>5, HalvesNext

LEMMA SupAdmitKeeps ==
  ASSUME StatusAssumption, MachineStatusInv, SupAdmit
  PROVE  MachineStatusInv'
<1>1. UNCHANGED <<attempt, obs, remote, markers, run, cache, cycle, counts>>
      /\ sup.pc = "proposed" /\ sup.result = "none"
  BY SupIs DEF SupAdmit, SupInv
<1>2. WorldInv' /\ Grow /\ Follow
  <2>1. CASE UNCHANGED <<status, effects, refused>>
    <3>1. UNCHANGED ledger
      BY <1>1, <2>1 DEF ledger
    <3>. QED  BY <1>1, <2>1, <3>1, WorldStands
  <2>2. ASSUME status.seq < MaxSeq,
               \/ accept(admitted("orchestrator", sup.want), superseded(effects))
               \/ refuse(admitted("orchestrator", sup.want), superseded(effects))
        PROVE  WorldInv' /\ Grow /\ Follow
    <3>1. attempt' \in BOOLEAN /\ obs' \in [present : BOOLEAN, seen : Fact, old : BOOLEAN]
      BY <1>1 DEF MachineStatusInv, TypeOK
    <3>2. sup.want \in BOOLEAN
      BY SupIs DEF Sup
    <3>3. Retain(effects', 0)
      BY <2>2, SupersededRetains DEF accept, refuse, Retain
    <3>. QED  BY <1>1, <2>2, <3>1, <3>2, <3>3, Admission DEF Follow
  <2>. QED  BY <2>1, <2>2 DEF SupAdmit
<1>3. sup' \in Sup /\ sup'.pc # "begin" /\ sup'.result = "none"
  <2>1. ASSUME NEW p \in Seqs, sup' = [sup EXCEPT !.pc = "admitted", !.plan = p]
        PROVE  sup' \in Sup /\ sup'.pc # "begin" /\ sup'.result = "none"
    BY <1>1, <2>1, SupIs DEF Sup
  <2>2. ASSUME NEW s \in Seqs, NEW p \in Seqs,
               sup' = [sup EXCEPT !.pc = "admitted", !.seq = s, !.plan = p]
        PROVE  sup' \in Sup /\ sup'.pc # "begin" /\ sup'.result = "none"
    BY <1>1, <2>2, SupIs DEF Sup
  <2>3. CASE sup' = NoSup
    BY <2>3, SupIs
  <2>4. status.seq < MaxSeq => admitted("orchestrator", sup.want).seq \in Seqs
    BY SupIs DEF admitted, Seqs, StatusAssumption, Status, MachineStatusInv, TypeOK
  <2>. QED  BY <2>1, <2>2, <2>3, <2>4, SupIs DEF SupAdmit
<1>4. SupInv'
  BY <1>3 DEF SupInv
<1>5. since' \in SUBSET {"commit", "observation"}
  BY CycleIs DEF SupAdmit
<1>6. ActorInv'
  BY <1>1, <1>2, <1>3, <1>4, <1>5, SupMoves
<1>. QED  BY <1>2, <1>6, HalvesNext

LEMMA SupRunKeeps ==
  ASSUME StatusAssumption, MachineStatusInv, SupRun
  PROVE  MachineStatusInv'
<1>1. WorldInv' /\ Grow /\ Follow
  BY WorldStands DEF SupRun
<1>2. sup' \in Sup /\ SupInv' /\ since' \in SUBSET {"commit", "observation"}
  BY SupIs, CycleIs DEF SupRun, Sup, SupInv
<1>3. ActorInv'
  BY <1>1, <1>2, SupMoves DEF SupRun
<1>. QED  BY <1>1, <1>3, HalvesNext

LEMMA SupBeginKeeps ==
  ASSUME StatusAssumption, MachineStatusInv, SupBegin
  PROVE  MachineStatusInv'
<1>1. /\ UNCHANGED <<attempt, obs, remote, markers, run, cache, cycle, counts>> /\ Grow
      /\ sup.pc = "begin" /\ sup.plan # 0 /\ sup.result = "none"
      /\ since' \in SUBSET {"commit", "observation"}
  BY SupIs DEF SupBegin, SupInv, remote, Grow
<1>2. ASSUME sup.plan = status.seq, Pending = {}, accept(status, begun(newId)),
             sup' = [sup EXCEPT !.pc = "acquire", !.id = newId]
      PROVE  MachineStatusInv'
  <2>1. effects' = begun(newId) /\ status' = status /\ UNCHANGED refused
    BY <1>2 DEF accept
  <2>2. Sound(effects') /\ Follow
    BY <1>1, <1>2, <2>1, Begun DEF Follow
  <2>3. WorldTypes'
    BY <1>1, <2>1, <2>2 DEF MachineStatusInv, TypeOK, WorldTypes, Sound, remote, counts
  <2>4. WorldInv'
    BY <1>1, <2>1, <2>2, <2>3, LedgerChanged, ReachedStays
       DEF Follow, MachineStatusInv, LedgerInv, Reached, Published
  <2>5. newId \in Ids
    BY NewId DEF MachineStatusInv
  <2>6. sup' \in Sup /\ SupInv'
    BY <1>1, <1>2, <2>5, SupIs DEF Sup, SupInv
  <2>7. ActorInv'
    BY <1>1, <2>2, <2>6, SupMoves
  <2>. QED  BY <2>4, <2>7, HalvesNext
<1>3. ASSUME UNCHANGED <<status, effects, refused>>, sup' \in Sup, SupInv'
      PROVE  MachineStatusInv'
  <2>1. UNCHANGED ledger
    BY <1>1, <1>3 DEF ledger
  <2>2. WorldInv' /\ Follow
    BY <1>1, <1>3, <2>1, WorldStands
  <2>3. ActorInv'
    BY <1>1, <1>3, <2>2, SupMoves
  <2>. QED  BY <2>2, <2>3, HalvesNext
<1>4. ASSUME NEW e \in Pending, sup' = [sup EXCEPT !.pc = "acquire", !.id = e.id]
      PROVE  sup' \in Sup /\ SupInv'
  <2>1. e.id \in Ids
    BY DEF Pending, MachineStatusInv, TypeOK, Effect
  <2>. QED  BY <1>1, <1>4, <2>1, SupIs DEF Sup, SupInv
<1>5. ASSUME sup' = NoSup PROVE sup' \in Sup /\ SupInv'
  BY <1>5, SupIs DEF SupInv
<1>. QED  BY <1>2, <1>3, <1>4, <1>5 DEF SupBegin

LEMMA SupAcquireKeeps ==
  ASSUME StatusAssumption, MachineStatusInv, SupAcquire
  PROVE  MachineStatusInv'
<1>1. WorldInv' /\ Grow /\ Follow /\ UNCHANGED effects
      /\ since' \in SUBSET {"commit", "observation"}
  BY WorldStands, CycleIs DEF SupAcquire
<1>2. ASSUME Known(sup.id), Acquire("supervisor", sup.id),
             sup' = [sup EXCEPT !.pc = "executing"]
      PROVE  ActorInv'
  <2>1. PICK e \in effects : e.id = sup.id
    BY <1>2 DEF Known
  <2>2. sup' \in Sup /\ SupInv' /\ sup'.pc = "executing"
    BY <1>2, SupIs DEF SupAcquire, Sup, SupInv
  <2>3. run' \in Run /\ RunInv'
    BY <1>1, <1>2, <2>1, <2>2, AcquireKeeps
  <2>4. cycle' \in Cycle /\ IsFiniteSet(cycle'.todo) /\ CycleInv' /\ Shown(cache)'
    BY <1>1, CycleRests DEF SupAcquire, Follow
  <2>. QED  BY <1>1, <2>2, <2>3, <2>4 DEF ActorInv
<1>3. ASSUME sup' = NoSup, UNCHANGED run
      PROVE  ActorInv'
  <2>1. sup' \in Sup /\ SupInv'
    BY <1>3, SupIs DEF SupInv
  <2>. QED  BY <1>1, <1>3, <2>1, SupMoves DEF SupAcquire
<1>. QED  BY <1>1, <1>2, <1>3, HalvesNext DEF SupAcquire

LEMMA SupReplanKeeps ==
  ASSUME StatusAssumption, MachineStatusInv, SupReplan
  PROVE  MachineStatusInv'
<1>1. WorldInv' /\ Grow /\ Follow
  BY WorldStands DEF SupReplan
<1>2. sup' \in Sup /\ SupInv' /\ since' \in SUBSET {"commit", "observation"}
  <2>1. planned(status) => status.seq # 0
    BY DEF planned
  <2>2. \/ sup' = [sup EXCEPT !.pc = "begin", !.plan = status.seq] /\ status.seq # 0
        \/ sup' = [sup EXCEPT !.pc = "observe"]
        \/ sup' = NoSup
    BY <2>1 DEF SupReplan
  <2>3. since' = {} /\ sup.result = "none"
    BY SupIs DEF SupReplan, SupInv
  <2>. QED  BY <2>2, <2>3, SupIs DEF Sup, SupInv
<1>3. ActorInv'
  BY <1>1, <1>2, SupMoves DEF SupReplan
<1>. QED  BY <1>1, <1>3, HalvesNext

\* A proposal succeeds for a status that is applied, and so was published.
LEMMA SupObserveKeeps ==
  ASSUME StatusAssumption, MachineStatusInv, SupObserve
  PROVE  MachineStatusInv'
<1>1. WorldInv' /\ Grow /\ Follow
  BY WorldStands DEF SupObserve
<1>2. CASE supervisorStatusObserved
  <2>1. sup' = [NoSup EXCEPT !.seq = sup.seq, !.result = "succeeded"]
    BY <1>2 DEF SupObserve
  <2>2. Published(sup.seq)
    BY <1>2 DEF supervisorStatusObserved, MachineStatusInv, LedgerInv, Reached
  <2>3. sup' \in Sup /\ sup'.pc = "idle" /\ sup'.seq = sup.seq
    BY <2>1, SupIs DEF Sup
  <2>. QED  BY <1>1, <2>2, <2>3, ReachedStays, CycleIs, SupMoves, HalvesNext
            DEF SupObserve, SupInv
<1>3. CASE ~supervisorStatusObserved
  <2>1. sup' = NoSup
    BY <1>3 DEF SupObserve
  <2>2. sup' \in Sup /\ SupInv'
    BY <2>1, SupIs DEF SupInv
  <2>. QED  BY <1>1, <2>2, CycleIs, SupMoves, HalvesNext DEF SupObserve
<1>. QED  BY <1>2, <1>3

LEMMA SupTimeoutKeeps ==
  ASSUME StatusAssumption, MachineStatusInv, SupTimeout
  PROVE  MachineStatusInv'
<1>1. WorldInv' /\ Grow /\ Follow
  BY WorldStands DEF SupTimeout
<1>2. sup' \in Sup /\ SupInv' /\ since' = {} /\ sup.pc # "executing"
  BY SupIs DEF SupTimeout, SupInv
<1>3. ActorInv'
  BY <1>1, <1>2, SupMoves DEF SupTimeout
<1>. QED  BY <1>1, <1>3, HalvesNext

\* A request carried out late can only add a comment.
LEMMA LandKeeps ==
  ASSUME StatusAssumption, MachineStatusInv, NEW m \in flight, Land(m) \/ Drop(m)
  PROVE  MachineStatusInv'
<1>1. /\ UNCHANGED <<ledger, markers, run, cache, cycle, sup, since, counts, refused>>
      /\ flight' = flight \ {m}
  BY DEF Land, Drop
<1>2. m \in Request
  BY DEF MachineStatusInv, TypeOK
<1>3. /\ comments' \in {comments, comments \cup {[seq |-> m.seq, asked |-> m.on]}}
      /\ label' \in {label, m.on}
  BY DEF Land, Drop
<1>4. Grow /\ Follow
  BY <1>1, <1>3, StillFollow DEF Grow, ledger
<1>5. comments' \in SUBSET [seq : Seqs, asked : BOOLEAN] /\ label' \in BOOLEAN
  BY <1>2, <1>3 DEF Request, MachineStatusInv, TypeOK
<1>6. WorldTypes'
  BY <1>1, <1>5 DEF MachineStatusInv, TypeOK, WorldTypes, ledger, counts
<1>7. WorldInv'
  BY <1>1, <1>4, <1>6, LedgerKept
<1>8. RunInv'
  BY <1>1, <1>4, RunIs, RunGoesOn DEF Follow
<1>9. cycle' \in Cycle /\ IsFiniteSet(cycle'.todo) /\ CycleInv' /\ Shown(cache)'
  BY <1>1, <1>4, CycleRests DEF Follow
<1>10. sup' \in Sup /\ SupInv'
  BY <1>1, <1>4, WokenKeeps DEF Woken
<1>11. ActorInv'
  BY <1>1, <1>8, <1>9, <1>10, RunIs, CycleIs DEF ActorInv
<1>. QED  BY <1>7, <1>11, HalvesNext

\* A restart completes what a marker vouches for.
LEMMA CrashKeeps ==
  ASSUME StatusAssumption, MachineStatusInv, Crash
  PROVE  MachineStatusInv'
<1>1. /\ Grow /\ markers' = {} /\ run' = NoRun /\ cycle' = NoCycle /\ cache' = {}
      /\ UNCHANGED <<attempt, comments, label, flight, proposals>>
  BY DEF Crash, remote, Grow
<1>2. /\ faults' \in 0..MaxFaults
      /\ obs' \in [present : BOOLEAN, seen : Fact, old : BOOLEAN]
  <2>1. obs' = [obs EXCEPT !.old = TRUE] /\ faults' = faults + 1 /\ faults < MaxFaults
    BY DEF Crash
  <2>2. obs \in [present : BOOLEAN, seen : Fact, old : BOOLEAN] /\ faults \in 0..MaxFaults
    BY DEF MachineStatusInv, TypeOK
  <2>3. obs' \in [present : BOOLEAN, seen : Fact, old : BOOLEAN]
    BY <2>1, <2>2
  <2>. QED  BY <2>1, <2>2, <2>3 DEF StatusAssumption
<1>3. /\ Sound(effects') /\ Descend(effects') /\ Reached(status.applied)
      /\ status' \in Status /\ status'.seq = status.seq /\ Reached(status'.applied)
      /\ refused' \in BOOLEAN
  <2>1. CASE UNCHANGED <<status, effects, refused>>
    BY <2>1, NowSound, StillFollow DEF MachineStatusInv, TypeOK, LedgerInv, Follow
  <2>2. ASSUME NEW d \in Pending, d.id \in markers, current(d.id),
               NEW e \in Pending, accept(appliedStatus, completed(e.id))
        PROVE  /\ Sound(effects') /\ Descend(effects') /\ status' \in Status
               /\ status'.seq = status.seq /\ Reached(status'.applied) /\ refused' = refused
    <3>1. /\ effects' = completed(e.id) /\ status' = appliedStatus /\ refused' = refused
      BY <2>2 DEF accept
    <3>2. status'.seq = status.seq /\ status'.applied = status.seq /\ status' \in Status
      BY <3>1 DEF appliedStatus, Status, MachineStatusInv, TypeOK
    <3>3. Published(status.seq)
      BY <2>2 DEF MachineStatusInv, MarkerInv
    <3>. QED  BY <3>1, <3>2, <3>3, Completed DEF Reached
  <2>3. CASE \E d \in Pending : d.id \in markers /\ current(d.id)
    <3>1. PICK d \in Pending : d.id \in markers /\ current(d.id)
      BY <2>3
    <3>. DEFINE e == CHOOSE x \in Pending : x.id \in markers
    <3>2. e \in Pending
      BY <3>1
    <3>3. accept(appliedStatus, completed(e.id))
      BY <2>3 DEF Crash
    <3>. HIDE DEF e
    <3>. QED  BY <2>2, <3>1, <3>2, <3>3 DEF MachineStatusInv, TypeOK, LedgerInv
  <2>. QED  BY <2>1, <2>3 DEF Crash
<1>4. WorldTypes'
  BY <1>1, <1>2, <1>3 DEF MachineStatusInv, TypeOK, WorldTypes, Sound
<1>5. Reached(status.applied)'
  BY <1>1, <1>3, ReachedStays DEF Reached, Published
<1>6. WorldInv'
  BY <1>1, <1>3, <1>4, <1>5, LedgerChanged
<1>7. run' \in Run /\ RunInv'
  BY <1>1, NobodyRuns
<1>8. cycle' \in Cycle /\ IsFiniteSet(cycle'.todo) /\ Shown(cache)' /\ CycleInv'
  <2>1. NoCycle \in Cycle /\ NoCycle.todo = {} /\ NoCycle.pc = "idle"
    BY DEF NoCycle, NoView, Cycle, View, Seqs, StatusAssumption
  <2>2. Shown(cache)'
    BY <1>1, FS_EmptySet DEF Shown
  <2>. QED  BY <1>1, <2>1, <2>2, FS_EmptySet DEF CycleInv
<1>9. sup' \in Sup /\ SupInv'
  <2>1. CASE sup.pc = "idle"
    <3>1. sup' = sup
      BY <2>1 DEF Crash
    <3>. QED  BY <1>1, <2>1, <3>1, SupIs, ReachedStays DEF SupInv
  <2>2. CASE sup.pc \in {"proposed", "admitted"}
    <3>1. sup' = [sup EXCEPT !.pc = "proposed", !.plan = 0]
      BY <2>2 DEF Crash
    <3>. QED  BY <2>2, <3>1, SupIs DEF Sup, SupInv
  <2>3. CASE sup.pc \notin {"idle", "proposed", "admitted"}
    <3>1. sup' = NoSup
      BY <2>3 DEF Crash
    <3>. QED  BY <3>1, SupIs DEF SupInv
  <2>. QED  BY <2>1, <2>2, <2>3
<1>10. since' \in SUBSET {"commit", "observation"}
  BY CycleIs DEF Crash, Note
<1>11. ActorInv'
  BY <1>7, <1>8, <1>9, <1>10 DEF ActorInv
<1>. QED  BY <1>6, <1>11, HalvesNext

-----------------------------------------------------------------------------
(* The theorems *)

LEMMA InitHolds ==
  ASSUME StatusAssumption, Init
  PROVE  MachineStatusInv
<1>1. 0 \in Seqs /\ IsFiniteSet({}) /\ Cardinality({}) = 0
  BY FS_EmptySet DEF Seqs, StatusAssumption
<1>2. NoRun \in Run /\ NoCycle \in Cycle /\ NoSup \in Sup
      /\ NoObs \in [present : BOOLEAN, seen : Fact, old : BOOLEAN]
  BY <1>1 DEF NoRun, Run, NoCycle, NoView, Cycle, View, NoSup, Sup, NoObs, Fact
<1>3. TypeOK
  <2>1. status \in Status
    BY <1>1 DEF Init, Status
  <2>2. Cardinality(cache) <= 1
    BY <1>1 DEF Init
  <2>3. 0 \in 0..MaxProposals /\ 0 \in 0..MaxFaults
    BY DEF StatusAssumption
  <2>. QED  BY <1>2, <2>1, <2>2, <2>3 DEF Init, TypeOK
<1>4. LedgerInv /\ MemoryInv /\ MarkerInv
  BY <1>1 DEF Init, LedgerInv, MemoryInv, MarkerInv, Pending, Reached, NoCycle
<1>5. RunInv /\ CycleInv /\ SupInv
  BY DEF Init, RunInv, CycleInv, SupInv, NoRun, NoCycle, NoSup, Proved
<1>. QED  BY <1>3, <1>4, <1>5 DEF MachineStatusInv

LEMMA StutterKeeps ==
  ASSUME StatusAssumption, MachineStatusInv, UNCHANGED vars
  PROVE  MachineStatusInv'
<1>1. WorldInv' /\ Grow /\ Follow
  BY WorldStands DEF vars
<1>2. RunInv'
  BY <1>1, RunIs, RunGoesOn DEF Follow, vars
<1>3. cycle' \in Cycle /\ IsFiniteSet(cycle'.todo) /\ CycleInv' /\ Shown(cache)'
  BY <1>1, CycleRests DEF Follow, vars
<1>4. sup' \in Sup /\ SupInv'
  BY <1>1, WokenKeeps DEF Woken, vars
<1>5. ActorInv'
  BY <1>2, <1>3, <1>4, RunIs, CycleIs DEF ActorInv, vars
<1>. QED  BY <1>1, <1>5, HalvesNext

LEMMA NextKeeps ==
  ASSUME StatusAssumption, MachineStatusInv, [Next]_vars
  PROVE  MachineStatusInv'
<1>1. CASE RunNext
  BY <1>1, RunTargetKeeps, RunCheckKeeps, RunAuthorizeKeeps, RunEnsureKeeps, RunPostKeeps,
     RunLabelKeeps, RunRelabelKeeps, RunVerifyKeeps, RunConfirmKeeps, RunMarkKeeps,
     RunFinishKeeps, RunUnmarkKeeps, RunSettleKeeps, RunCancelledKeeps DEF RunNext
<1>2. CASE CycleNext
  BY <1>2, CycleStartKeeps, CycleCollectKeeps, CycleApplyKeeps, CycleScanKeeps,
     CycleResolveKeeps, CycleResumeKeeps, CycleStatusKeeps, CycleAcquireKeeps, CycleDoneKeeps,
     CycleNewAttemptKeeps, CycleMonitorBeginKeeps, CycleMonitorFinishKeeps DEF CycleNext
<1>3. CASE SupNext \/ SupTimeout \/ \E want \in BOOLEAN : SupProject(want)
  BY <1>3, SupAdmitKeeps, SupRunKeeps, SupBeginKeeps, SupAcquireKeeps, SupReplanKeeps,
     SupObserveKeeps, SupTimeoutKeeps, SupProjectKeeps DEF SupNext
<1>4. CASE Cancel \/ Dismiss \/ Faults \/ \E m \in flight : Land(m) \/ Drop(m)
  BY <1>4, CancelKeeps, DismissKeeps, RunAbortKeeps, RunLostKeeps, CycleFailsKeeps,
     CrashKeeps, LandKeeps DEF Faults
<1>5. CASE UNCHANGED vars
  BY <1>5, StutterKeeps
<1>. QED  BY <1>1, <1>2, <1>3, <1>4, <1>5 DEF Next

\* The inductive invariant is one of the specification: intents, markers and runs agree
\* on the status they work for, and whoever is past the last proof has seen it on GitHub.
THEOREM MachineStatusInductive == Spec => []MachineStatusInv
<1>1. Init => MachineStatusInv
  BY StatusAssumption, InitHolds
<1>2. MachineStatusInv /\ [Next]_vars => MachineStatusInv'
  BY StatusAssumption, NextKeeps
<1>. QED  BY <1>1, <1>2, PTL DEF Spec

\* Every variable keeps its type.
THEOREM StatusTypes == Spec => []TypeOK
<1>1. MachineStatusInv => TypeOK
  BY DEF MachineStatusInv
<1>. QED  BY <1>1, MachineStatusInductive, PTL

\* Whichever of the runs, markers and restarts recorded a status as applied, its comment
\* is on GitHub (AppliedSequence), and no proposal succeeds for one that was not.
THEOREM AppliedWasPublished == Spec => []AppliedIsPublished
<1>1. MachineStatusInv => AppliedIsPublished
  BY DEF MachineStatusInv, LedgerInv, MarkerInv, SupInv, Reached, AppliedIsPublished
<1>. QED  BY <1>1, MachineStatusInductive, PTL
=============================================================================
