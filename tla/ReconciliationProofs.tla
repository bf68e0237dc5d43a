------------------------ MODULE ReconciliationProofs ------------------------
(***************************************************************************)
(* TLAPS proofs about Reconciliation, for any finite set of issues, any    *)
(* operators, capacity and path scopes, and any bounds on attempts,        *)
(* collections, edits and daemon starts; and, as the instance Trig at the  *)
(* end, about the trigger that begins its cycles, for any finite set of    *)
(* callers and any number of runs.                                         *)
(***************************************************************************)
EXTENDS Reconciliation, Sequences, FiniteSetTheorems, WellFoundedInduction, TLAPS

-----------------------------------------------------------------------------
(* The types of one issue *)

States  == {"none", "preparing", "running", "watched", "completed", "failed"}
Holds   == [known : BOOLEAN, current : BOOLEAN, present : BOOLEAN,
            fact : Facts, entries : Remote]
Gens    == [Attempts -> Nat]
Ledger  == [gen : Nat, attemptGen : Gens, tombs : SUBSET Attempts,
            attempts : [Attempts -> States], obs : Holds]
Github  == [ready : BOOLEAN, open : BOOLEAN, retry : {NoRetry} \cup 0..MaxAttempt,
            bound : SUBSET Attempts, failed : SUBSET Attempts,
            pulls : [Attempts -> {"none", "open", "merged"}]]
Reading == [listed : BOOLEAN, fact : Facts, listing : Remote]
Newest  == [id : 0..MaxCycles, attemptGen : Gens, seen : Reading]
Capture == [phase : Phases, id : Nat, scope : SUBSET Issues, gen : [Issues -> Nat],
            attemptGen : [Issues -> Gens], seen : [Issues -> Reading]]

-----------------------------------------------------------------------------
(* The invariant *)

live(L)    == {a \in Attempts : L.attempts[a] \in {"preparing", "running", "watched"}}
working(L) == {a \in Attempts : L.attempts[a] \in {"running", "watched"}}

\* Attempts are numbered in order and the last one alone may be alive; what the
\* ledger holds of an attempt it never had is a binding that GitHub has kept.
OwnOf(L) ==
  /\ \A a \in Attempts : L.attempts[a] # "none" => L.attemptGen[a] # 0
  /\ \A a \in L.tombs : L.attempts[a] = "none" /\ L.attemptGen[a] # 0
                        /\ L.obs.entries[a] = "none"
  /\ \A a, b \in Attempts : a < b /\ L.attemptGen[b] # 0 => L.attemptGen[a] # 0
  /\ \A a \in live(L), b \in Attempts : a < b => L.attemptGen[b] = 0
  /\ (\E a \in Attempts : L.attemptGen[a] # 0) => L.gen >= 2
  /\ L.obs.present => L.obs.known
  /\ ~L.obs.present => L.obs.entries = Nothing /\ L.obs.fact = NoFact
GithubOf(L, g) ==
  /\ \A a \in g.bound : a = 1 \/ L.attemptGen[a] # 0
  /\ \A a \in g.failed : L.attemptGen[a] # 0 /\ L.attempts[a] \in {"failed", "none"}
  /\ \A a \in Attempts : g.pulls[a] # "none" =>
       L.attemptGen[a] # 0 /\ L.attempts[a] \in {"completed", "none"}
  /\ \A a \in working(L) : a \in g.bound
  /\ L.obs.present => \A a \in Attempts : L.attemptGen[a] = 0 =>
       L.obs.entries[a] = IF a \in g.bound THEN "active" ELSE "none"

\* What the owner holds is the newest reading (ObservationIsNewest, for one issue).
HoldsNewest(L, n) ==
  L.obs.known /\ L.obs.current =>
    /\ L.obs.present = n.seen.listed
    /\ L.obs.fact = masked(n.seen.fact, n.attemptGen, L)
    /\ \A a \in Attempts :
         L.obs.entries[a] =
           IF n.attemptGen[a] = L.attemptGen[a] /\ a \notin L.tombs
           THEN n.seen.listing[a] ELSE "none"

\* What every reading says, however old: nothing of attempts yet to come.
Plain(s, L, g) ==
  /\ ~s.listed => s = Unlisted
  /\ s.listed => s.fact.attempt >= 1
  /\ s.fact.binding # 0 => s.fact.attempt = s.fact.binding /\ s.fact.binding \in g.bound
  /\ \A a \in Attempts : a < s.fact.attempt => L.attemptGen[a] # 0
  /\ s.listed => \A a \in Attempts : L.attemptGen[a] = 0 =>
       s.listing[a] = IF a \in g.bound THEN "active" ELSE "none"
  /\ \A a \in Attempts : s.listing[a] = "active" => a \in g.bound \/ g.pulls[a] # "none"

\* What a reading says that began after the live attempt was prepared: it does not
\* look past that attempt, and it finds it at work.
Sound(s, L) ==
  s.listed => \A b \in live(L) :
    /\ s.listing[b] = "active" => s.fact.attempt = b
    /\ s.fact.authorized => s.fact.attempt <= b
    /\ s.fact.authorized /\ b \in working(L) => s.fact.attempt = b

\* What a reading says that was taken since the last binding was written: bindings
\* are those that there are, and an issue free for work has none unresolved.
settled(g, a) == g.pulls[a] # "none" \/ (a \in g.failed /\ g.retry >= a)
FreshWork(s, g) ==
  s.listed /\ eligible(s.fact) => \A a \in g.bound : settled(g, a)
FreshBind(s, L, g) ==
  s.listed /\ s.fact.authorized =>
    \A b \in live(L) \cap g.bound : s.fact.attempt = b

\* Collector c is at work on its reading, or has read issue i.
Collecting(c) == collect[c].phase \in {"read", "apply"}
Pending(c, i) == collect[c].phase = "apply" /\ i \in collect[c].scope
Match(c, i)   == collect[c].gen[i] = ledger[i].gen
Observed(L)   == L.obs.known /\ L.obs.current

IssueInv ==
  \A i \in Issues :
    OwnOf(ledger[i]) /\ GithubOf(ledger[i], github[i]) /\ HoldsNewest(ledger[i], newest[i])

ReadingInv ==
  \A i \in Issues :
    /\ Plain(newest[i].seen, ledger[i], github[i])
    /\ Observed(ledger[i]) => Sound(newest[i].seen, ledger[i])
    /\ \A c \in Collectors : Pending(c, i) =>
         /\ Plain(collect[c].seen[i], ledger[i], github[i])
         /\ Match(c, i) /\ collect[c].id > applied[i] =>
              Sound(collect[c].seen[i], ledger[i])

\* Collections are numbered; only the cycle goes on after its reading.
IdInv ==
  /\ \A i \in Issues : applied[i] = newest[i].id /\ applied[i] <= cycleID
  /\ \A c \in Collectors : Collecting(c) => collect[c].id \in 1..cycleID
  /\ \A c, d \in Collectors :
       Collecting(c) /\ Collecting(d) /\ c # d => collect[c].id # collect[d].id
  /\ \A c \in Operators : collect[c].phase \in {"idle", "read", "apply"}
  /\ \A c \in Collectors, i \in Issues :
       Collecting(c) /\ i \notin collect[c].scope => ~collect[c].seen[i].listed

\* Generations only grow, so that a later collection has captured later ones.
Upto(f, h) == \A a \in Attempts : f[a] <= h[a]
GenInv ==
  \A i \in Issues :
    /\ Upto(newest[i].attemptGen, ledger[i].attemptGen)
    /\ \A c \in Collectors : Collecting(c) /\ i \in collect[c].scope =>
         /\ collect[c].gen[i] <= ledger[i].gen
         /\ Upto(collect[c].attemptGen[i], ledger[i].attemptGen)
         /\ collect[c].id > newest[i].id =>
              Upto(newest[i].attemptGen, collect[c].attemptGen[i])
         /\ \A d \in Collectors :
              Collecting(d) /\ i \in collect[d].scope /\ collect[c].id < collect[d].id =>
                Upto(collect[c].attemptGen[i], collect[d].attemptGen[i])
         /\ ~ledger[i].obs.current => \A a \in Attempts :
              \/ collect[c].attemptGen[i][a] = ledger[i].attemptGen[a]
              \/ ledger[i].obs.entries[a] = "none"

\* Only the cycle writes bindings, and it ends when it has written one: readings that
\* began after the cycle did are fresh while it decides.
Fresh(s, i) == FreshWork(s, github[i]) /\ FreshBind(s, ledger[i], github[i])
CycleOf(i) ==
  /\ Collecting(Cycle) =>
       /\ i \in collect[Cycle].scope /\ matches(collect[Cycle], i)
       /\ newest[i].id >= collect[Cycle].id => Fresh(newest[i].seen, i)
       /\ \A c \in Collectors : Pending(c, i) /\ collect[c].id >= collect[Cycle].id =>
            Fresh(collect[c].seen[i], i)
  /\ collect[Cycle].phase \in {"prepare", "bind", "start"} /\ i \in collect[Cycle].scope =>
       /\ Observed(ledger[i]) => Fresh(newest[i].seen, i)
       /\ \A c \in Collectors : Pending(c, i) /\ collect[c].id > applied[i] =>
            /\ FreshWork(collect[c].seen[i], github[i])
            /\ Match(c, i) => FreshBind(collect[c].seen[i], ledger[i], github[i])
CycleInv == \A i \in Issues : CycleOf(i)

ReconciliationInv ==
  /\ TypeOK /\ collect \in [Collectors -> Capture]
  /\ IssueInv /\ ReadingInv /\ IdInv /\ GenInv /\ CycleInv

-----------------------------------------------------------------------------
(* The first and the last of a set *)

\* A set of natural numbers that is not empty has a least.
LEMMA LeastNatural ==
  ASSUME NEW S, S \subseteq Nat, S # {}
  PROVE  Min(S) \in S /\ \A u \in S : Min(S) <= u
<1>1. IsWellFoundedOn(OpToRel(<, Nat), Nat)
  BY NatLessThanWellFounded
<1>2. PICK t \in S : \A u \in S : ~(<<u, t>> \in OpToRel(<, Nat))
  BY <1>1, WFMin
<1>3. ASSUME NEW u \in S
      PROVE  t <= u
  <2>1. u < t => <<u, t>> \in OpToRel(<, Nat)
    BY DEF OpToRel
  <2>2. ~(u < t)
    BY <2>1, <1>2, Zenon
  <2>. QED  BY <2>2
<1>. QED  BY <1>3 DEF Min

\* And a greatest, if it is bounded.
LEMMA GreatestNatural ==
  ASSUME NEW n \in Nat, NEW S, S \subseteq 0..n, S # {}
  PROVE  Max(S) \in S /\ \A u \in S : u <= Max(S)
<1>. DEFINE T == {n - u : u \in S}
<1>0. \A u \in S : u \in Nat /\ n - u \in Nat
  OBVIOUS
<1>1. T \subseteq Nat /\ T # {}
  BY <1>0
<1>2. Min(T) \in T /\ \A v \in T : Min(T) <= v
  BY <1>1, LeastNatural
<1>3. PICK t \in S : Min(T) = n - t
  BY <1>2
<1>4. ASSUME NEW u \in S
      PROVE  u <= t
  <2>1. n - u \in T
    OBVIOUS
  <2>2. n - t <= n - u
    BY <1>2, <1>3, <2>1
  <2>. QED  BY <1>0, <2>2
<1>. QED  BY <1>0, <1>4 DEF Max

\* The highest of some attempts, if there is any.
LEMMA HighestAttempt ==
  ASSUME ReconciliationAssumption, NEW S, S \subseteq {0} \cup Attempts
  PROVE  /\ highest(S) \in S \cup {0} /\ highest(S) \in {0} \cup Attempts
         /\ \A a \in S : a <= highest(S)
<1>1. S \cup {0} \subseteq 0..MaxAttempt /\ MaxAttempt \in Nat
  BY DEF ReconciliationAssumption, Attempts
<1>2. S \cup {0} # {}
  OBVIOUS
<1>. HIDE <1>2
<1>3. Max(S \cup {0}) \in S \cup {0} /\ \A u \in S \cup {0} : u <= Max(S \cup {0})
  BY <1>1, <1>2, GreatestNatural
<1>. QED  BY <1>1, <1>3 DEF highest

\* The highest of some attempts that there are.
LEMMA LastAttempt ==
  ASSUME ReconciliationAssumption, NEW S, S \subseteq Attempts, S # {}
  PROVE  Max(S) \in S /\ \A a \in S : a <= Max(S)
<1>1. S \subseteq 0..MaxAttempt /\ MaxAttempt \in Nat
  BY DEF ReconciliationAssumption, Attempts
<1>. QED  BY <1>1, GreatestNatural

\* The lowest of some attempts that there are.
LEMMA FirstAttempt ==
  ASSUME ReconciliationAssumption, NEW S, S \subseteq Attempts, S # {}
  PROVE  Min(S) \in S /\ \A a \in S : Min(S) <= a
<1>1. S \subseteq Nat
  BY DEF Attempts
<1>. QED  BY <1>1, LeastNatural

\* The first of some issues with their attempts is one of them.
LEMMA FirstPair ==
  ASSUME ReconciliationAssumption, NEW S, S \subseteq Pairs, S # {}
  PROVE  First(S) \in S
<1>. DEFINE I == {p[1] : p \in S}
<1>1. I \subseteq Nat /\ I # {}
  BY DEF ReconciliationAssumption, Pairs
<1>2. Min(I) \in I /\ \A i \in I : Min(I) <= i
  BY <1>1, LeastNatural
<1>. DEFINE A == {a \in Attempts : <<Min(I), a>> \in S}
<1>3. PICK p \in S : p[1] = Min(I)
  BY <1>2
<1>4. p[2] \in A
  BY <1>3 DEF Pairs
<1>5. A \subseteq Attempts /\ A # {}
  BY <1>4
<1>. HIDE DEF A
<1>6. Min(A) \in A /\ \A a \in A : Min(A) <= a
  BY <1>5, FirstAttempt
<1>. DEFINE f == <<Min(I), Min(A)>>
<1>7. f \in S
  BY <1>6 DEF A
<1>8. ASSUME NEW q \in S \ {f}
      PROVE  Before(f, q)
  <2>1. /\ q[1] \in Nat /\ q[2] \in Attempts /\ q = <<q[1], q[2]>>
        /\ Min(I) \in Nat /\ Min(A) \in Attempts /\ Min(I) <= q[1]
    BY <1>1, <1>2, <1>5, <1>6 DEF Pairs, ReconciliationAssumption
  <2>2. CASE q[1] = Min(I)
    <3>1. q[2] \in A
      BY <2>1, <2>2 DEF A
    <3>2. Min(A) <= q[2] /\ q[2] # Min(A)
      BY <3>1, <1>6, <2>1, <2>2
    <3>. QED  BY <2>1, <2>2, <3>2 DEF Before, Attempts
  <2>3. CASE q[1] # Min(I)
    BY <2>1, <2>3 DEF Before
  <2>. QED  BY <2>2, <2>3
<1>. QED  BY <1>7, <1>8 DEF First

\* Two different elements are more than one.
LEMMA NotMoreThanOne ==
  ASSUME ReconciliationAssumption, NEW S, S \subseteq Attempts, ~(Cardinality(S) > 1)
  PROVE  \A a, b \in S : a = b
<1>1. IsFiniteSet(Attempts)
  BY FS_Interval DEF Attempts, ReconciliationAssumption
<1>2. SUFFICES ASSUME NEW a \in S, NEW b \in S, a # b
               PROVE  FALSE
  OBVIOUS
<1>. DEFINE P == {a} \cup {b}
<1>3. P \subseteq S /\ IsFiniteSet(S)
  BY <1>1, FS_Subset
<1>4. Cardinality(P) <= Cardinality(S)
  BY <1>3, FS_Subset
<1>5. Cardinality({a}) = 1 /\ IsFiniteSet({a})
  BY FS_Singleton
<1>6. b \notin {a}
  BY <1>2
<1>7. Cardinality(P) = Cardinality({a}) + 1
  BY <1>5, <1>6, FS_AddElement
<1>. HIDE DEF P
<1>9. Cardinality(P) = 2
  <2>. DEFINE n == Cardinality({a})
  <2>1. n = 1 /\ Cardinality(P) = n + 1
    BY <1>5, <1>7
  <2>. HIDE DEF n
  <2>. QED  BY <2>1
<1>8. Cardinality(S) \in Nat
  BY <1>3, FS_CardinalityType
<1>. QED  BY <1>4, <1>8, <1>9

-----------------------------------------------------------------------------
(* What a collection reads of an issue *)

\* The binding is the first that is not resolved, and the only one if the facts do
\* not contradict each other; the current attempt is the last with any outcome.
LEMMA FactParts ==
  ASSUME ReconciliationAssumption, NEW g \in Github
  PROVE  /\ unresolved(g) \subseteq g.bound /\ g.bound \subseteq Attempts
         /\ binding(g) \in {0} \cup Attempts
         /\ binding(g) = 0 <=> unresolved(g) = {}
         /\ binding(g) # 0 => binding(g) \in unresolved(g)
         /\ \A a \in unresolved(g) : binding(g) <= a
         /\ ~conflict(g) => \A a \in unresolved(g) : a = binding(g)
         /\ fact(g).current \in {0} \cup Attempts
         /\ fact(g).current \in pulled(g) \cup g.failed \cup {0, binding(g)}
         /\ \A a \in pulled(g) \cup g.failed \cup {binding(g)} : a <= fact(g).current
         /\ published(g) \subseteq pulled(g) /\ pulled(g) \subseteq Attempts
         /\ published(g) # {} => Max(published(g)) \in published(g)
         /\ g.failed # {} => Max(g.failed) \in g.failed
                             /\ \A a \in g.failed : a <= Max(g.failed)
<1>1. /\ unresolved(g) \subseteq g.bound /\ g.bound \subseteq Attempts
      /\ g.failed \subseteq Attempts
      /\ published(g) \subseteq pulled(g) /\ pulled(g) \subseteq Attempts
  BY DEF Github, unresolved, published, pulled
<1>2. unresolved(g) # {} =>
        Min(unresolved(g)) \in unresolved(g) /\ \A a \in unresolved(g) : Min(unresolved(g)) <= a
  BY <1>1, FirstAttempt
<1>3. 0 \notin Attempts
  BY DEF Attempts
<1>4. /\ binding(g) \in {0} \cup Attempts
      /\ binding(g) = 0 <=> unresolved(g) = {}
      /\ binding(g) # 0 => binding(g) \in unresolved(g)
      /\ \A a \in unresolved(g) : binding(g) <= a
  BY <1>1, <1>2, <1>3 DEF binding
<1>5. ~conflict(g) => \A a \in unresolved(g) : a = binding(g)
  <2>1. ASSUME ~conflict(g)
        PROVE  \A a, b \in unresolved(g) : a = b
    BY <1>1, <2>1, NotMoreThanOne DEF conflict
  <2>. QED  BY <1>4, <2>1
<1>. DEFINE S == pulled(g) \cup g.failed \cup {binding(g)}
<1>6. S \subseteq {0} \cup Attempts
  BY <1>1, <1>4
<1>7. fact(g).current = highest(S)
  BY DEF fact
<1>. HIDE DEF S
<1>8. /\ highest(S) \in S \cup {0} /\ highest(S) \in {0} \cup Attempts
      /\ \A a \in S : a <= highest(S)
  BY <1>6, HighestAttempt
<1>9. published(g) # {} => Max(published(g)) \in published(g)
  BY <1>1, LastAttempt
<1>10. g.failed # {} => Max(g.failed) \in g.failed /\ \A a \in g.failed : a <= Max(g.failed)
  BY <1>1, LastAttempt
<1>. QED  BY <1>1, <1>4, <1>5, <1>7, <1>8, <1>9, <1>10 DEF S

\* The other facts of an issue.
LEMMA FactFields ==
  ASSUME ReconciliationAssumption, NEW g \in Github
  PROVE  /\ fact(g).attempt = IF binding(g) > 0 THEN binding(g)
                              ELSE IF published(g) # {} THEN Max(published(g))
                              ELSE fact(g).current + 1
         /\ fact(g).active <=> published(g) # {} \/ binding(g) > 0
         /\ fact(g).authorized => g.ready /\ g.open /\ ~conflict(g) /\ ~unretried(g)
         /\ fact(g).binding = binding(g)
         /\ fact(g).terminals = g.bound \cap g.failed
         /\ fact(g) \in Facts
<1>1. /\ fact(g).attempt = IF binding(g) > 0 THEN binding(g)
                           ELSE IF published(g) # {} THEN Max(published(g))
                           ELSE fact(g).current + 1
      /\ fact(g).active <=> published(g) # {} \/ binding(g) > 0
      /\ fact(g).authorized => g.ready /\ g.open /\ ~conflict(g) /\ ~unretried(g)
      /\ fact(g).binding = binding(g)
      /\ fact(g).terminals = g.bound \cap g.failed
  BY DEF fact
<1>2. fact(g).attempt \in 0..(MaxAttempt + 1)
  BY <1>1, FactParts DEF Attempts, ReconciliationAssumption
<1>3. g.ready \in BOOLEAN /\ g.open \in BOOLEAN
  BY DEF Github
<1>4. fact(g) \in Facts
  <2>1. /\ fact(g).active \in BOOLEAN /\ fact(g).completed \in BOOLEAN
        /\ fact(g).retry \in BOOLEAN /\ fact(g).authorized \in BOOLEAN
        /\ fact(g).recoverable \in BOOLEAN
    BY <1>3 DEF fact
  <2>2. /\ fact(g).current \in {0} \cup Attempts /\ fact(g).binding \in {0} \cup Attempts
        /\ fact(g).terminals \in SUBSET Attempts
    BY <1>1, FactParts
  <2>3. fact(g) = [attempt |-> fact(g).attempt, current |-> fact(g).current,
                   active |-> fact(g).active, completed |-> fact(g).completed,
                   retry |-> fact(g).retry, authorized |-> fact(g).authorized,
                   recoverable |-> fact(g).recoverable, binding |-> fact(g).binding,
                   terminals |-> fact(g).terminals]
    BY DEF fact
  <2>. QED  BY <1>2, <2>1, <2>2, <2>3 DEF Facts
<1>. QED  BY <1>1, <1>4

\* What the collection lists as active.
LEMMA ListingParts ==
  ASSUME ReconciliationAssumption, NEW g \in Github
  PROVE  /\ listing(g) \in Remote
         /\ \A a \in Attempts :
              /\ listing(g)[a] = "active" => g.pulls[a] # "none" \/ a = binding(g)
              /\ g.pulls[a] = "none" /\ a \notin g.failed =>
                   listing(g)[a] = IF a = binding(g) THEN "active" ELSE "none"
BY DEF listing, Github, Remote

\* A reading is listed with facts, or says nothing.
LEMMA ReadsParts ==
  ASSUME ReconciliationAssumption, NEW g \in Github
  PROVE  /\ reads(g) \in Reading /\ Unlisted \in Reading
         /\ ~reads(g).listed => reads(g) = Unlisted
         /\ reads(g).listed => reads(g).fact = fact(g) /\ reads(g).listing = listing(g)
<1>1. fact(g) \in Facts /\ listing(g) \in Remote
  BY FactFields, ListingParts
<1>2. NoFact \in Facts /\ Nothing \in Remote
  BY DEF NoFact, Facts, Nothing, Remote, ReconciliationAssumption
<1>. QED  BY <1>1, <1>2 DEF reads, Unlisted, Reading

\* A reading of the present says nothing of attempts yet to come.
LEMMA ReadsPlain ==
  ASSUME ReconciliationAssumption, NEW L \in Ledger, NEW g \in Github,
         OwnOf(L), GithubOf(L, g)
  PROVE  Plain(reads(g), L, g)
<1>. DEFINE s == reads(g)
<1>1. CASE ~s.listed
  <2>1. s = Unlisted
    BY <1>1, ReadsParts
  <2>2. Plain(Unlisted, L, g)
    BY DEF Plain, Unlisted, NoFact, Nothing, Attempts
  <2>. QED  BY <2>1, <2>2
<1>2. CASE s.listed
  <2>1. s.fact = fact(g) /\ s.listing = listing(g)
    BY <1>2, ReadsParts
  <2>2. /\ binding(g) \in {0} \cup Attempts
        /\ binding(g) # 0 => binding(g) \in g.bound
        /\ binding(g) = 0 => \A a \in g.bound : a \in g.failed \/ g.pulls[a] # "none"
    BY FactParts DEF unresolved
  <2>3. /\ fact(g).binding = binding(g)
        /\ fact(g).attempt = IF binding(g) > 0 THEN binding(g)
                             ELSE IF published(g) # {} THEN Max(published(g))
                             ELSE fact(g).current + 1
        /\ published(g) # {} => Max(published(g)) \in pulled(g)
    BY FactFields, FactParts
  <2>4. binding(g) # 0 => binding(g) > 0
    BY <2>2 DEF Attempts
  <2>5. /\ \A a \in pulled(g) \cup g.failed : L.attemptGen[a] # 0
        /\ \A a \in g.bound : a = 1 \/ L.attemptGen[a] # 0
        /\ pulled(g) \subseteq Attempts /\ g.failed \subseteq Attempts
        /\ g.bound \subseteq Attempts
    BY DEF GithubOf, pulled, Github
  <2>6. fact(g).attempt >= 1
    BY <2>2, <2>3, <2>4, <2>5, FactParts DEF Attempts
  <2>7. ASSUME NEW a \in Attempts, a < fact(g).attempt
        PROVE  L.attemptGen[a] # 0
    <3>0. \A b \in Attempts : L.attemptGen[b] # 0 /\ a < b => L.attemptGen[a] # 0
      BY DEF OwnOf
    <3>1. CASE binding(g) > 0
      BY <2>2, <2>3, <2>5, <2>7, <3>0, <3>1 DEF Attempts
    <3>2. CASE binding(g) = 0 /\ published(g) # {}
      BY <2>3, <2>5, <2>7, <3>0, <3>2
    <3>3. CASE binding(g) = 0 /\ published(g) = {}
      <4>1. fact(g).current \in {0} \cup Attempts /\ a <= fact(g).current
        BY <2>3, <2>7, <3>3, FactParts DEF Attempts
      <4>2. fact(g).current \in pulled(g) \cup g.failed \cup {0}
        BY <3>3, FactParts
      <4>3. fact(g).current # 0
        BY <4>1 DEF Attempts
      <4>. QED  BY <4>1, <4>2, <4>3, <2>5, <3>0 DEF Attempts
    <3>. QED  BY <2>2, <2>4, <3>1, <3>2, <3>3
  <2>8. ASSUME NEW a \in Attempts, L.attemptGen[a] = 0
        PROVE  listing(g)[a] = IF a \in g.bound THEN "active" ELSE "none"
    <3>1. g.pulls[a] = "none" /\ a \notin g.failed
      BY <2>5, <2>8 DEF pulled
    <3>2. listing(g)[a] = IF a = binding(g) THEN "active" ELSE "none"
      BY <3>1, ListingParts
    <3>3. a \in g.bound => a = 1 /\ a \in unresolved(g)
      BY <2>5, <2>8, <3>1 DEF unresolved
    <3>4. a \in g.bound => binding(g) = a
      BY <3>3, FactParts DEF Attempts
    <3>. QED  BY <2>2, <3>2, <3>4 DEF Attempts
  <2>9. \A a \in Attempts : listing(g)[a] = "active" => a \in g.bound \/ g.pulls[a] # "none"
    BY <2>2, ListingParts DEF Attempts
  <2>. QED  BY <1>2, <2>1, <2>2, <2>3, <2>4, <2>6, <2>7, <2>8, <2>9 DEF Plain
<1>. QED  BY <1>1, <1>2

\* A reading of the present finds the live attempt at work, or does not look past it.
LEMMA ReadsSound ==
  ASSUME ReconciliationAssumption, NEW L \in Ledger, NEW g \in Github,
         OwnOf(L), GithubOf(L, g)
  PROVE  /\ Sound(reads(g), L) /\ FreshBind(reads(g), L, g)
         /\ FreshWork(reads(g), g)
<1>. DEFINE s == reads(g)
<1>0. SUFFICES ASSUME s.listed
               PROVE  /\ Sound(s, L) /\ FreshBind(s, L, g) /\ FreshWork(s, g)
  BY DEF Sound, FreshBind, FreshWork
<1>1. s.fact = fact(g) /\ s.listing = listing(g)
  BY <1>0, ReadsParts
<1>2. /\ fact(g).attempt = IF binding(g) > 0 THEN binding(g)
                           ELSE IF published(g) # {} THEN Max(published(g))
                           ELSE fact(g).current + 1
      /\ published(g) # {} => Max(published(g)) \in pulled(g)
      /\ fact(g).authorized => ~conflict(g) /\ ~unretried(g)
      /\ fact(g).active <=> published(g) # {} \/ binding(g) > 0
      /\ binding(g) \in {0} \cup Attempts
      /\ binding(g) = 0 <=> unresolved(g) = {}
  BY FactFields, FactParts
<1>3. binding(g) # 0 => binding(g) > 0
  BY <1>2 DEF Attempts
<1>4. ASSUME NEW b \in live(L)
      PROVE  /\ b \in Attempts /\ g.pulls[b] = "none" /\ b \notin g.failed
             /\ L.attemptGen[b] # 0 /\ b \notin pulled(g)
             /\ \A a \in Attempts : L.attemptGen[a] # 0 => a <= b
  BY DEF live, GithubOf, OwnOf, pulled, Attempts
<1>5. ASSUME NEW b \in live(L), fact(g).authorized, b \in g.bound
      PROVE  fact(g).attempt = b
  <2>1. b \in unresolved(g)
    BY <1>4, <1>5 DEF unresolved
  <2>2. b = binding(g)
    BY <1>2, <1>5, <2>1, FactParts
  <2>. QED  BY <1>2, <1>4, <2>2 DEF Attempts
<1>6. Sound(s, L)
  <2>1. SUFFICES ASSUME NEW b \in live(L)
                 PROVE  /\ listing(g)[b] = "active" => fact(g).attempt = b
                        /\ fact(g).authorized => fact(g).attempt <= b
                        /\ fact(g).authorized /\ b \in working(L) => fact(g).attempt = b
    BY <1>1 DEF Sound
  <2>2. listing(g)[b] = "active" => fact(g).attempt = b
    BY <1>2, <1>4, ListingParts DEF Attempts
  <2>3. fact(g).authorized => fact(g).attempt <= b
    <3>1. SUFFICES ASSUME fact(g).authorized, b \notin g.bound
                   PROVE  fact(g).attempt <= b
      BY <1>4, <1>5 DEF Attempts
    <3>2. b # binding(g)
      BY <3>1, <1>3, FactParts, <1>4 DEF Attempts
    <3>3. ASSUME NEW a \in pulled(g) \cup g.failed
          PROVE  a \in Attempts /\ a < b
      BY <1>4 DEF GithubOf, pulled, Github, Attempts
    <3>4. binding(g) <= b /\ binding(g) # b
      <4>1. CASE binding(g) = 0
        BY <4>1, <1>4 DEF Attempts
      <4>2. CASE binding(g) # 0
        <5>1. binding(g) \in g.bound /\ binding(g) \in Attempts
          BY <4>2, FactParts
        <5>2. binding(g) = 1 \/ L.attemptGen[binding(g)] # 0
          BY <5>1 DEF GithubOf
        <5>. QED  BY <1>4, <3>2, <5>1, <5>2 DEF Attempts
      <4>. QED  BY <4>1, <4>2
    <3>5. CASE binding(g) > 0
      BY <1>2, <3>4, <3>5
    <3>6. CASE binding(g) = 0 /\ published(g) # {}
      BY <1>2, <1>4, <3>3, <3>6 DEF Attempts
    <3>7. CASE binding(g) = 0 /\ published(g) = {}
      <4>1. fact(g).current \in pulled(g) \cup g.failed \cup {0}
        BY <3>7, FactParts
      <4>2. fact(g).current < b /\ fact(g).current \in Nat
        BY <4>1, <3>3, <1>4 DEF Attempts
      <4>. QED  BY <1>2, <1>4, <3>7, <4>2 DEF Attempts
    <3>. QED  BY <1>2, <1>3, <3>5, <3>6, <3>7
  <2>4. b \in working(L) => b \in g.bound
    BY DEF GithubOf
  <2>. QED  BY <1>5, <2>2, <2>3, <2>4
<1>7. FreshBind(s, L, g)
  BY <1>1, <1>5 DEF FreshBind
<1>8. FreshWork(s, g)
  <2>1. SUFFICES ASSUME eligible(fact(g)), NEW a \in g.bound
                 PROVE  settled(g, a)
    BY <1>1 DEF FreshWork
  <2>2. unresolved(g) = {} /\ ~unretried(g)
    BY <1>2, <1>3, <2>1 DEF eligible
  <2>3. g.pulls[a] # "none" \/ a \in g.failed
    BY <2>2 DEF unresolved
  <2>4. ASSUME a \in g.failed
        PROVE  g.retry >= a
    <3>1. Max(g.failed) \in g.failed /\ a <= Max(g.failed)
      BY <2>4, FactParts
    <3>2. g.failed \subseteq Attempts /\ g.retry \in {NoRetry} \cup 0..MaxAttempt
      BY DEF Github
    <3>. QED
      BY <2>2, <2>4, <3>1, <3>2
      DEF unretried, Attempts, NoRetry, ReconciliationAssumption
  <2>. QED  BY <2>3, <2>4 DEF settled
<1>. QED  BY <1>6, <1>7, <1>8

-----------------------------------------------------------------------------
(* What the transitions do to the ledger of one issue *)

\* The facts of attempts that have moved on are masked, the others stay.
LEMMA MaskedParts ==
  ASSUME NEW f \in Facts, NEW gens \in Gens, NEW L \in Ledger
  PROVE  LET h == masked(f, gens, L) IN
         /\ h \in Facts
         /\ h.attempt = f.attempt /\ h.current = f.current /\ (h.active <=> f.active)
         /\ (h.completed <=> f.completed) /\ (h.retry <=> f.retry)
         /\ (h.authorized <=> f.authorized) /\ (h.recoverable <=> f.recoverable)
         /\ h.binding \in {0, f.binding}
         /\ h.binding # 0 => gens[f.binding] # 0 /\ gens[f.binding] = L.attemptGen[f.binding]
                             /\ f.binding \notin L.tombs
         /\ f.binding # 0 /\ gens[f.binding] # 0 /\ gens[f.binding] = L.attemptGen[f.binding]
            /\ f.binding \notin L.tombs => h.binding = f.binding
         /\ h.terminals = {a \in f.terminals : gens[a] # 0 /\ gens[a] = L.attemptGen[a]
                                               /\ a \notin L.tombs}
BY DEF masked, Facts

\* Facts are the same if each of them is.
LEMMA SameFacts ==
  ASSUME NEW e \in Facts, NEW f \in Facts,
         e.attempt = f.attempt, e.current = f.current, e.active <=> f.active,
         e.completed <=> f.completed, e.retry <=> f.retry, e.authorized <=> f.authorized,
         e.recoverable <=> f.recoverable, e.binding = f.binding, e.terminals = f.terminals
  PROVE  e = f
<1>1. e.active = f.active /\ e.completed = f.completed /\ e.retry = f.retry
      /\ e.authorized = f.authorized /\ e.recoverable = f.recoverable
  BY DEF Facts
<1>. QED  BY <1>1 DEF Facts

\* The same with generations and tombstones that are the same.
LEMMA MaskedSame ==
  ASSUME NEW f, NEW gens, NEW L, NEW M, M.attemptGen = L.attemptGen, M.tombs = L.tombs
  PROVE  masked(f, gens, M) = masked(f, gens, L)
BY DEF masked

\* One attempt comes to another state.
Local(L, a, s) == [L EXCEPT !.attempts[a] = s]
LEMMA LocalParts ==
  ASSUME NEW L \in Ledger, NEW a \in Attempts, NEW s \in States
  PROVE  LET M == Local(L, a, s) IN
         /\ M \in Ledger /\ M.gen = L.gen /\ M.attemptGen = L.attemptGen
         /\ M.tombs = L.tombs /\ M.obs = L.obs
         /\ M.attempts \in [Attempts -> States]
         /\ \A b \in Attempts : M.attempts[b] = IF b = a THEN s ELSE L.attempts[b]
BY DEF Local, Ledger

\* A live attempt that goes on, or ends.
LEMMA LocalKeeps ==
  ASSUME NEW L \in Ledger, NEW g \in Github, NEW n \in Newest, NEW a \in live(L),
         NEW s \in {"running", "watched", "completed", "failed"},
         s \in {"running", "watched"} => a \in g.bound,
         OwnOf(L), GithubOf(L, g), HoldsNewest(L, n)
  PROVE  LET M == Local(L, a, s) IN
         /\ M \in Ledger /\ OwnOf(M) /\ GithubOf(M, g) /\ HoldsNewest(M, n)
         /\ M.gen = L.gen /\ M.attemptGen = L.attemptGen /\ M.obs = L.obs
         /\ live(M) \subseteq live(L) /\ working(M) \subseteq working(L) \cup {a}
         /\ s \notin {"running", "watched"} => working(M) \subseteq working(L)
<1>. DEFINE M == Local(L, a, s)
<1>1. a \in Attempts /\ s \in States
  BY DEF live, States
<1>2. /\ M \in Ledger /\ M.gen = L.gen /\ M.attemptGen = L.attemptGen
      /\ M.tombs = L.tombs /\ M.obs = L.obs
      /\ \A b \in Attempts : M.attempts[b] = IF b = a THEN s ELSE L.attempts[b]
  BY <1>1, LocalParts
<1>. HIDE DEF M
<1>3. /\ live(M) \subseteq live(L) /\ working(M) \subseteq working(L) \cup {a}
      /\ s \notin {"running", "watched"} => working(M) \subseteq working(L)
  BY <1>1, <1>2 DEF live, working
<1>4. L.attemptGen[a] # 0 /\ a \notin L.tombs /\ a \notin g.failed /\ g.pulls[a] = "none"
  BY <1>1 DEF OwnOf, GithubOf, live
<1>5. OwnOf(M)
  <2>1. \A b \in Attempts : M.attempts[b] # "none" => M.attemptGen[b] # 0
    BY <1>2, <1>4 DEF OwnOf
  <2>2. \A b \in M.tombs : M.attempts[b] = "none" /\ M.attemptGen[b] # 0
                           /\ M.obs.entries[b] = "none"
    BY <1>2, <1>4 DEF OwnOf, Ledger
  <2>. QED  BY <1>2, <1>3, <2>1, <2>2 DEF OwnOf
<1>6. GithubOf(M, g)
  <2>1. \A b \in g.failed : M.attempts[b] \in {"failed", "none"}
    BY <1>2, <1>4 DEF GithubOf, Github
  <2>2. \A b \in Attempts : g.pulls[b] # "none" => M.attempts[b] \in {"completed", "none"}
    BY <1>2, <1>4 DEF GithubOf
  <2>3. \A b \in working(M) : b \in g.bound
    BY <1>3 DEF GithubOf
  <2>. QED  BY <1>2, <2>1, <2>2, <2>3 DEF GithubOf
<1>7. HoldsNewest(M, n)
  <2>1. masked(n.seen.fact, n.attemptGen, M) = masked(n.seen.fact, n.attemptGen, L)
    BY <1>2, MaskedSame
  <2>. QED  BY <1>2, <2>1 DEF HoldsNewest
<1>. QED  BY <1>2, <1>3, <1>5, <1>6, <1>7 DEF M

\* Readings keep what they say while generations and bindings do, and no attempt
\* begins to live or to work.
LEMMA ReadingKept ==
  ASSUME NEW L, NEW M, NEW g, NEW s,
         live(M) \subseteq live(L), working(M) \subseteq working(L), Sound(s, L)
  PROVE  Sound(s, M) /\ (FreshBind(s, L, g) => FreshBind(s, M, g))
BY DEF Sound, FreshBind

\* A new attempt, with the observation forgotten.
LEMMA ReservedParts ==
  ASSUME ReconciliationAssumption,
         NEW L \in Ledger, NEW a \in Attempts, NEW s \in States
  PROVE  LET M == reserved(L, a, s) IN
         /\ M \in Ledger /\ M.gen = L.gen + 1 /\ M.tombs = L.tombs /\ M.obs = Unobserved
         /\ \A b \in Attempts : M.attempts[b] = IF b = a THEN s ELSE L.attempts[b]
         /\ \A b \in Attempts : M.attemptGen[b] = IF b = a THEN 1 ELSE L.attemptGen[b]
<1>. DEFINE M == reserved(L, a, s)
<1>1. Unobserved \in Holds
  BY DEF Unobserved, Holds, NoFact, Facts, Nothing, Remote, Attempts, ReconciliationAssumption
<1>2. M = [gen |-> L.gen + 1, attemptGen |-> [L.attemptGen EXCEPT ![a] = 1],
           tombs |-> L.tombs, attempts |-> [L.attempts EXCEPT ![a] = s],
           obs |-> Unobserved]
  <2>1. L = [gen |-> L.gen, attemptGen |-> L.attemptGen, tombs |-> L.tombs,
             attempts |-> L.attempts, obs |-> L.obs]
    BY DEF Ledger
  <2>2. M = [L EXCEPT !.gen = L.gen + 1, !.attemptGen = [L.attemptGen EXCEPT ![a] = 1],
                      !.attempts = [L.attempts EXCEPT ![a] = s], !.obs = Unobserved]
    BY <2>1 DEF reserved
  <2>. QED  BY <2>1, <2>2
<1>3. L.attempts \in [Attempts -> States] /\ L.attemptGen \in [Attempts -> Nat]
      /\ L.gen \in Nat /\ L.tombs \in SUBSET Attempts
  BY DEF Ledger, Gens
<1>4. [L.attempts EXCEPT ![a] = s] \in [Attempts -> States]
      /\ [L.attemptGen EXCEPT ![a] = 1] \in [Attempts -> Nat] /\ L.gen + 1 \in Nat
  BY <1>3
<1>5. M \in Ledger
  BY <1>1, <1>2, <1>3, <1>4 DEF Ledger, Gens
<1>6. /\ M.gen = L.gen + 1 /\ M.tombs = L.tombs /\ M.obs = Unobserved
      /\ \A b \in Attempts : M.attempts[b] = IF b = a THEN s ELSE L.attempts[b]
      /\ \A b \in Attempts : M.attemptGen[b] = IF b = a THEN 1 ELSE L.attemptGen[b]
  BY <1>2, <1>3
<1>. QED  BY <1>5, <1>6

\* The attempt is the first that the issue had not yet, and none is alive.
LEMMA ReservedKeeps ==
  ASSUME ReconciliationAssumption,
         NEW L \in Ledger, NEW g \in Github, NEW n \in Newest, NEW a \in Attempts,
         NEW s \in {"preparing", "failed"}, OwnOf(L), GithubOf(L, g),
         current(L), live(L) = {}, L.attemptGen[a] = 0,
         \A b \in Attempts : b < a => L.attemptGen[b] # 0
  PROVE  LET M == reserved(L, a, s) IN
         /\ M \in Ledger /\ OwnOf(M) /\ GithubOf(M, g) /\ HoldsNewest(M, n)
         /\ M.gen = L.gen + 1 /\ ~Observed(M) /\ working(M) = {}
         /\ M.obs.entries = Nothing
         /\ \A b \in Attempts : M.attemptGen[b] = IF b = a THEN 1 ELSE L.attemptGen[b]
<1>. DEFINE M == reserved(L, a, s)
<1>1. s \in States
  BY DEF States
<1>2. /\ M \in Ledger /\ M.gen = L.gen + 1 /\ M.tombs = L.tombs /\ M.obs = Unobserved
      /\ \A b \in Attempts : M.attempts[b] = IF b = a THEN s ELSE L.attempts[b]
      /\ \A b \in Attempts : M.attemptGen[b] = IF b = a THEN 1 ELSE L.attemptGen[b]
  BY <1>1, ReservedParts
<1>. HIDE DEF M
<1>3. /\ ~M.obs.known /\ ~M.obs.current /\ ~M.obs.present /\ M.obs.entries = Nothing
      /\ M.obs.fact = NoFact
  BY <1>2 DEF Unobserved
<1>4. L.attempts[a] = "none" /\ a \notin L.tombs /\ a \notin g.failed /\ g.pulls[a] = "none"
  BY DEF OwnOf, GithubOf
<1>5. L.gen \in Nat /\ L.gen >= 1 /\ L.tombs \subseteq Attempts
  BY DEF current, Ledger
<1>6. \A b \in Attempts : b > a => L.attemptGen[b] = 0
  BY DEF OwnOf
<1>7. live(M) \subseteq {a} /\ working(M) = {}
  <2>1. \A b \in Attempts : L.attempts[b] \notin {"preparing", "running", "watched"}
    BY DEF live
  <2>. QED  BY <1>2, <2>1 DEF live, working
<1>8. OwnOf(M)
  <2>1. \A b \in Attempts : M.attempts[b] # "none" => M.attemptGen[b] # 0
    BY <1>2 DEF OwnOf
  <2>2. \A b \in M.tombs : M.attempts[b] = "none" /\ M.attemptGen[b] # 0
                           /\ M.obs.entries[b] = "none"
    BY <1>2, <1>3, <1>4, <1>5 DEF OwnOf, Nothing
  <2>3. \A b, c \in Attempts : b < c /\ M.attemptGen[c] # 0 => M.attemptGen[b] # 0
    BY <1>2, <1>6 DEF OwnOf, Attempts
  <2>4. \A b \in live(M), c \in Attempts : b < c => M.attemptGen[c] = 0
    BY <1>2, <1>6, <1>7 DEF Attempts
  <2>. QED  BY <1>2, <1>3, <1>5, <2>1, <2>2, <2>3, <2>4 DEF OwnOf
<1>9. GithubOf(M, g)
  <2>1. g.bound \subseteq Attempts /\ g.failed \subseteq Attempts
    BY DEF Github
  <2>2. \A b \in g.bound : b = 1 \/ M.attemptGen[b] # 0
    BY <1>2, <2>1 DEF GithubOf
  <2>3. \A b \in g.failed : M.attemptGen[b] # 0 /\ M.attempts[b] \in {"failed", "none"}
    BY <1>2, <1>4, <2>1 DEF GithubOf
  <2>4. \A b \in Attempts : g.pulls[b] # "none" =>
          M.attemptGen[b] # 0 /\ M.attempts[b] \in {"completed", "none"}
    BY <1>2, <1>4 DEF GithubOf
  <2>. QED  BY <1>3, <1>7, <2>2, <2>3, <2>4 DEF GithubOf
<1>10. HoldsNewest(M, n) /\ ~Observed(M)
  BY <1>3 DEF HoldsNewest, Observed
<1>. QED  BY <1>2, <1>3, <1>7, <1>8, <1>9, <1>10 DEF M

\* What an observation becomes when it forgets an attempt.
LEMMA ForgottenParts ==
  ASSUME ReconciliationAssumption, NEW o \in Holds, NEW a \in Attempts
  PROVE  LET p == forgets(o, a)  e == o.fact  f == p.fact IN
         /\ p \in Holds /\ (p.known <=> o.known) /\ (p.current <=> o.current)
         /\ (p.present <=> o.present)
         /\ \A b \in Attempts : p.entries[b] = IF b = a THEN "none" ELSE o.entries[b]
         /\ f.attempt = e.attempt /\ f.current = e.current /\ (f.active <=> e.active)
         /\ (f.completed <=> e.completed) /\ (f.retry <=> e.retry)
         /\ (f.authorized <=> e.authorized) /\ (f.recoverable <=> e.recoverable)
         /\ f.binding = (IF e.binding = a THEN 0 ELSE e.binding)
         /\ f.terminals = e.terminals \ {a}
<1>. DEFINE e == o.fact
            f == [e EXCEPT !.binding = IF e.binding = a THEN 0 ELSE e.binding,
                           !.terminals = e.terminals \ {a}]
            r == [o.entries EXCEPT ![a] = "none"]
            p == forgets(o, a)
<1>1. e \in Facts /\ o.entries \in Remote
  BY DEF Holds
<1>2. /\ f.attempt = e.attempt /\ f.current = e.current /\ f.active = e.active
      /\ f.completed = e.completed /\ f.retry = e.retry
      /\ f.authorized = e.authorized /\ f.recoverable = e.recoverable
      /\ f.binding = (IF e.binding = a THEN 0 ELSE e.binding)
      /\ f.terminals = e.terminals \ {a}
  BY <1>1 DEF Facts
<1>3. f \in Facts
  BY <1>1 DEF Facts
<1>4. r \in Remote /\ \A b \in Attempts : r[b] = IF b = a THEN "none" ELSE o.entries[b]
  BY <1>1 DEF Remote
<1>5. p = [o EXCEPT !.entries = r, !.fact = f]
  BY DEF forgets
<1>. HIDE DEF e, f, r, p
<1>6. /\ p \in Holds /\ p.known = o.known /\ p.current = o.current
      /\ p.present = o.present /\ p.entries = r /\ p.fact = f
  BY <1>3, <1>4, <1>5 DEF Holds
<1>. QED  BY <1>2, <1>4, <1>6 DEF p, e

\* An operator ends an attempt: M is L with that attempt moved on and forgotten.
Moved(L, M, a) ==
  /\ M \in Ledger /\ M.gen = L.gen
  /\ M.tombs \in {L.tombs, L.tombs \cup {a}}
  /\ \A b \in Attempts :
       M.attemptGen[b] = IF b = a THEN L.attemptGen[b] + 1 ELSE L.attemptGen[b]
  /\ \A b \in Attempts \ {a} : M.attempts[b] = L.attempts[b]
  /\ M.attempts[a] \in {"none", "failed"} /\ (a \in M.tombs => M.attempts[a] = "none")
  /\ M.obs = forgets(L.obs, a)

\* Cancel and the destructive commands do so.
LEMMA StoppedParts ==
  ASSUME ReconciliationAssumption, NEW L \in Ledger, NEW a \in Attempts
  PROVE  /\ a \notin L.tombs => Moved(L, stoppedAttempt(L, a), a)
         /\ stoppedAttempt(L, a).attempts[a] = "failed"
         /\ Moved(L, discarded(L, a), a) /\ discarded(L, a).attempts[a] = "none"
<1>1. /\ L.obs \in Holds /\ L.attempts \in [Attempts -> States]
      /\ L.attemptGen \in [Attempts -> Nat] /\ L.gen \in Nat /\ L.tombs \subseteq Attempts
  BY DEF Ledger, Gens
<1>2. forgets(L.obs, a) \in Holds
  BY <1>1, ForgottenParts
<1>. DEFINE f == forgets(L.obs, a)
            t(s) == [L.attempts EXCEPT ![a] = s]
            h == [L.attemptGen EXCEPT ![a] = @ + 1]
<1>3. ASSUME NEW s \in {"none", "failed"}
      PROVE  /\ t(s) \in [Attempts -> States] /\ t(s)[a] = s
             /\ \A b \in Attempts \ {a} : t(s)[b] = L.attempts[b]
  BY <1>1 DEF States
<1>4. /\ h \in [Attempts -> Nat]
      /\ \A b \in Attempts : h[b] = IF b = a THEN L.attemptGen[b] + 1 ELSE L.attemptGen[b]
  BY <1>1
<1>5. stoppedAttempt(L, a) = [L EXCEPT !.attemptGen = h, !.attempts = t("failed"), !.obs = f]
  BY DEF stoppedAttempt
<1>6. discarded(L, a) = [L EXCEPT !.attemptGen = h, !.attempts = t("none"),
                                  !.tombs = L.tombs \cup {a}, !.obs = f]
  BY DEF discarded
<1>. HIDE DEF f, t, h
<1>. DEFINE S == stoppedAttempt(L, a)
            D == discarded(L, a)
<1>7. /\ S \in Ledger /\ S.gen = L.gen /\ S.attemptGen = h /\ S.tombs = L.tombs
      /\ S.attempts = t("failed") /\ S.obs = f
  BY <1>1, <1>2, <1>3, <1>4, <1>5 DEF Ledger, Gens, f
<1>11. L.tombs \cup {a} \subseteq Attempts
  BY <1>1
<1>8. /\ D \in Ledger /\ D.gen = L.gen /\ D.attemptGen = h /\ D.tombs = L.tombs \cup {a}
      /\ D.attempts = t("none") /\ D.obs = f
  BY <1>1, <1>2, <1>3, <1>4, <1>6, <1>11 DEF Ledger, Gens, f
<1>. HIDE DEF S, D
<1>9. a \notin L.tombs => Moved(L, S, a)
  BY <1>3, <1>4, <1>7 DEF Moved, f
<1>10. Moved(L, D, a)
  BY <1>3, <1>4, <1>8 DEF Moved, f
<1>. QED  BY <1>3, <1>7, <1>8, <1>9, <1>10 DEF S, D

\* An attempt the owner has had is ended: nothing older than the newest reading
\* comes back, and that reading no longer stands for it.
LEMMA MovedKeeps ==
  ASSUME ReconciliationAssumption,
         NEW L \in Ledger, NEW M \in Ledger, NEW g \in Github, NEW n \in Newest,
         NEW a \in Attempts, Moved(L, M, a), L.attemptGen[a] # 0,
         M.attempts[a] = "none" \/ L.attempts[a] \in {"running", "watched"},
         OwnOf(L), GithubOf(L, g), HoldsNewest(L, n), Upto(n.attemptGen, L.attemptGen)
  PROVE  /\ OwnOf(M) /\ GithubOf(M, g) /\ HoldsNewest(M, n)
         /\ live(M) \subseteq live(L) /\ working(M) \subseteq working(L)
         /\ Upto(L.attemptGen, M.attemptGen)
         /\ \A b \in Attempts : M.attemptGen[b] = 0 <=> L.attemptGen[b] = 0
         /\ (M.obs.known <=> L.obs.known) /\ (M.obs.current <=> L.obs.current)
         /\ (M.obs.present <=> L.obs.present)
<1>1. /\ L.obs \in Holds /\ M.obs = forgets(L.obs, a) /\ L.tombs \subseteq Attempts
      /\ L.gen \in Nat
  BY DEF Moved, Ledger
<1>2. /\ (M.obs.known <=> L.obs.known) /\ (M.obs.current <=> L.obs.current)
      /\ (M.obs.present <=> L.obs.present)
      /\ \A b \in Attempts : M.obs.entries[b] = IF b = a THEN "none" ELSE L.obs.entries[b]
      /\ M.obs \in Holds
  BY <1>1, ForgottenParts
<1>3. /\ \A b \in Attempts : L.attemptGen[b] \in Nat
      /\ \A b \in Attempts : n.attemptGen[b] \in Nat /\ n.attemptGen[b] <= L.attemptGen[b]
  BY DEF Ledger, Newest, Gens, Upto
<1>4. /\ Upto(L.attemptGen, M.attemptGen)
      /\ \A b \in Attempts : M.attemptGen[b] = 0 <=> L.attemptGen[b] = 0
      /\ M.attemptGen[a] # n.attemptGen[a] /\ M.attemptGen[a] # 0
  BY <1>3 DEF Moved, Upto
<1>5. live(M) \subseteq live(L) /\ working(M) \subseteq working(L) /\ a \notin live(M)
  BY DEF live, working, Moved
<1>6. OwnOf(M)
  <2>1. \A b \in Attempts : M.attempts[b] # "none" => M.attemptGen[b] # 0
    BY <1>4 DEF OwnOf, Moved
  <2>2. ASSUME NEW b \in M.tombs
        PROVE  M.attempts[b] = "none" /\ M.attemptGen[b] # 0 /\ M.obs.entries[b] = "none"
    <3>1. CASE b = a
      BY <1>2, <1>4, <2>2, <3>1 DEF Moved
    <3>2. CASE b # a
      <4>1. b \in L.tombs /\ b \in Attempts
        BY <1>1, <2>2, <3>2 DEF Moved
      <4>. QED  BY <1>2, <1>4, <3>2, <4>1 DEF Moved, OwnOf
    <3>. QED  BY <3>1, <3>2
  <2>3. \A b, c \in Attempts : b < c /\ M.attemptGen[c] # 0 => M.attemptGen[b] # 0
    BY <1>4 DEF OwnOf
  <2>4. \A b \in live(M), c \in Attempts : b < c => M.attemptGen[c] = 0
    BY <1>4, <1>5 DEF OwnOf
  <2>5. (\E b \in Attempts : M.attemptGen[b] # 0) => M.gen >= 2
    BY <1>4 DEF OwnOf, Moved
  <2>6. M.obs.present => M.obs.known
    BY <1>2 DEF OwnOf
  <2>7. ASSUME ~M.obs.present
        PROVE  M.obs.entries = Nothing /\ M.obs.fact = NoFact
    <3>1. L.obs.entries = Nothing /\ L.obs.fact = NoFact
      BY <1>2, <2>7 DEF OwnOf
    <3>2. M.obs.entries = Nothing
      BY <1>1, <3>1 DEF forgets, Nothing, Holds
    <3>3. M.obs.fact = NoFact
      <4>1. NoFact \in Facts
        BY <1>1, <3>1 DEF Holds
      <4>2. NoFact.binding = 0 /\ NoFact.terminals = {}
        BY DEF NoFact
      <4>. DEFINE k == M.obs.fact
      <4>3. /\ k \in Facts /\ k.attempt = NoFact.attempt /\ k.current = NoFact.current
            /\ (k.active <=> NoFact.active) /\ (k.completed <=> NoFact.completed)
            /\ (k.retry <=> NoFact.retry) /\ (k.authorized <=> NoFact.authorized)
            /\ (k.recoverable <=> NoFact.recoverable)
            /\ k.binding = NoFact.binding /\ k.terminals = NoFact.terminals
        BY <1>1, <1>2, <3>1, <4>2, ForgottenParts DEF Holds
      <4>. HIDE DEF k
      <4>4. k = NoFact
        BY <4>1, <4>3, SameFacts
      <4>. QED  BY <4>4 DEF k
    <3>. QED  BY <3>2, <3>3
  <2>. QED  BY <2>1, <2>2, <2>3, <2>4, <2>5, <2>6, <2>7 DEF OwnOf
<1>7. GithubOf(M, g)
  <2>1. \A b \in g.failed : M.attempts[b] \in {"failed", "none"}
    BY DEF GithubOf, Moved, Github
  <2>2. \A b \in Attempts : g.pulls[b] # "none" => M.attempts[b] \in {"completed", "none"}
    BY DEF GithubOf, Moved
  <2>3. M.obs.present => \A b \in Attempts : M.attemptGen[b] = 0 =>
          M.obs.entries[b] = IF b \in g.bound THEN "active" ELSE "none"
    BY <1>2, <1>4 DEF GithubOf
  <2>4. \A b \in working(M) : b \in g.bound
    BY <1>5 DEF GithubOf
  <2>5. g.bound \subseteq Attempts /\ g.failed \subseteq Attempts
    BY DEF Github
  <2>. QED  BY <1>4, <2>1, <2>2, <2>3, <2>4, <2>5 DEF GithubOf
<1>8. ASSUME Observed(M)
      PROVE  /\ M.obs.present = n.seen.listed
             /\ M.obs.fact = masked(n.seen.fact, n.attemptGen, M)
             /\ \A b \in Attempts : M.obs.entries[b] =
                  IF n.attemptGen[b] = M.attemptGen[b] /\ b \notin M.tombs
                  THEN n.seen.listing[b] ELSE "none"
  <2>1. /\ L.obs.present = n.seen.listed
        /\ L.obs.fact = masked(n.seen.fact, n.attemptGen, L)
        /\ \A b \in Attempts : L.obs.entries[b] =
             IF n.attemptGen[b] = L.attemptGen[b] /\ b \notin L.tombs
             THEN n.seen.listing[b] ELSE "none"
    BY <1>2, <1>8 DEF HoldsNewest, Observed
  <2>2. M.obs.present = n.seen.listed
    BY <1>1, <2>1 DEF forgets, Holds
  <2>3. ASSUME NEW b \in Attempts
        PROVE  M.obs.entries[b] =
                 IF n.attemptGen[b] = M.attemptGen[b] /\ b \notin M.tombs
                 THEN n.seen.listing[b] ELSE "none"
    BY <1>2, <1>4, <2>1 DEF Moved
  <2>4. M.obs.fact = masked(n.seen.fact, n.attemptGen, M)
    <3>. DEFINE f == n.seen.fact
                e == masked(f, n.attemptGen, L)
                h == masked(f, n.attemptGen, M)
    <3>1. f \in Facts /\ n.attemptGen \in Gens
      BY DEF Newest, Reading
    <3>. HIDE DEF f
    <3>2. /\ e \in Facts /\ h \in Facts
          /\ e.attempt = h.attempt /\ e.current = h.current /\ (e.active <=> h.active)
          /\ (e.completed <=> h.completed) /\ (e.retry <=> h.retry)
          /\ (e.authorized <=> h.authorized) /\ (e.recoverable <=> h.recoverable)
      BY <3>1, MaskedParts
    <3>3. h.binding = IF e.binding = a THEN 0 ELSE e.binding
      <4>1. /\ e.binding \in {0, f.binding} /\ h.binding \in {0, f.binding}
            /\ f.binding \in {0} \cup Attempts
        BY <3>1, MaskedParts DEF Facts
      <4>6. /\ e.binding # 0 => n.attemptGen[f.binding] # 0 /\ f.binding \notin L.tombs
                               /\ n.attemptGen[f.binding] = L.attemptGen[f.binding]
            /\ f.binding # 0 /\ n.attemptGen[f.binding] # 0 /\ f.binding \notin L.tombs
               /\ n.attemptGen[f.binding] = L.attemptGen[f.binding] => e.binding = f.binding
        BY <3>1, MaskedParts
      <4>7. /\ h.binding # 0 => n.attemptGen[f.binding] # 0 /\ f.binding \notin M.tombs
                               /\ n.attemptGen[f.binding] = M.attemptGen[f.binding]
            /\ f.binding # 0 /\ n.attemptGen[f.binding] # 0 /\ f.binding \notin M.tombs
               /\ n.attemptGen[f.binding] = M.attemptGen[f.binding] => h.binding = f.binding
        BY <3>1, MaskedParts
      <4>. HIDE DEF e, h
      <4>2. f.binding = a => h.binding = 0
        BY <1>4, <4>7
      <4>3. f.binding \in Attempts \ {a} =>
              /\ M.attemptGen[f.binding] = L.attemptGen[f.binding]
              /\ f.binding \in M.tombs <=> f.binding \in L.tombs
        BY DEF Moved
      <4>4. f.binding \in Attempts \ {a} => h.binding = e.binding
        BY <4>1, <4>3, <4>6, <4>7
      <4>5. a # 0
        BY DEF Attempts
      <4>. QED  BY <4>1, <4>2, <4>4, <4>5
    <3>4. h.terminals = e.terminals \ {a}
      <4>1. /\ e.terminals = {b \in f.terminals : n.attemptGen[b] # 0
                 /\ n.attemptGen[b] = L.attemptGen[b] /\ b \notin L.tombs}
            /\ h.terminals = {b \in f.terminals : n.attemptGen[b] # 0
                 /\ n.attemptGen[b] = M.attemptGen[b] /\ b \notin M.tombs}
        BY <3>1, MaskedParts
      <4>2. f.terminals \subseteq Attempts
        BY <3>1 DEF Facts
      <4>3. \A b \in Attempts \ {a} :
              M.attemptGen[b] = L.attemptGen[b] /\ (b \in M.tombs <=> b \in L.tombs)
        BY DEF Moved
      <4>. QED  BY <1>4, <4>1, <4>2, <4>3
    <3>. DEFINE k == M.obs.fact
    <3>8. L.obs.fact = e
      BY <2>1 DEF f
    <3>. HIDE DEF e
    <3>5. /\ k \in Facts /\ k.attempt = e.attempt /\ k.current = e.current
          /\ (k.active <=> e.active) /\ (k.completed <=> e.completed)
          /\ (k.retry <=> e.retry) /\ (k.authorized <=> e.authorized)
          /\ (k.recoverable <=> e.recoverable)
          /\ k.binding = (IF e.binding = a THEN 0 ELSE e.binding)
          /\ k.terminals = e.terminals \ {a}
      BY <1>1, <1>2, <3>8, ForgottenParts DEF Holds
    <3>. HIDE DEF h, k
    <3>6. /\ k \in Facts /\ h \in Facts /\ k.attempt = h.attempt /\ k.current = h.current
          /\ (k.active <=> h.active) /\ (k.completed <=> h.completed)
          /\ (k.retry <=> h.retry) /\ (k.authorized <=> h.authorized)
          /\ (k.recoverable <=> h.recoverable)
          /\ k.binding = h.binding /\ k.terminals = h.terminals
      BY <3>2, <3>3, <3>4, <3>5
    <3>7. k = h
      BY <3>6, SameFacts
    <3>. QED  BY <3>7 DEF k, h, f
  <2>. QED  BY <2>2, <2>3, <2>4
<1>. QED  BY <1>2, <1>4, <1>5, <1>6, <1>7, <1>8 DEF HoldsNewest, Observed


\* What the owner makes of a reading.
LEMMA ReducedParts ==
  ASSUME ReconciliationAssumption, NEW L \in Ledger, NEW s \in Reading, NEW gens \in Gens
  PROVE  LET M == reduced(L, s, gens)
             f == masked(s.fact, gens, L)
             kept == IF L.obs.present /\ L.obs.fact = f THEN L.obs.entries ELSE Nothing IN
         /\ M \in Ledger /\ M.attemptGen = L.attemptGen /\ M.tombs = L.tombs
         /\ M.attempts = L.attempts /\ M.obs.known /\ M.obs.current
         /\ s.listed =>
              /\ M.gen = (IF L.gen = 0 THEN 1 ELSE L.gen) /\ M.obs.present /\ M.obs.fact = f
              /\ \A a \in Attempts : M.obs.entries[a] =
                   IF s.listing[a] # "none" /\ gens[a] = L.attemptGen[a] /\ a \notin L.tombs
                   THEN s.listing[a]
                   ELSE IF s.listing[a] = "none" /\ gens[a] = L.attemptGen[a]
                           /\ L.attemptGen[a] # 0 THEN "none"
                   ELSE kept[a]
         /\ ~s.listed => /\ M.gen = L.gen /\ ~M.obs.present
                         /\ M.obs.fact = NoFact /\ M.obs.entries = Nothing
<1>. DEFINE f == masked(s.fact, gens, L)
            kept == IF L.obs.present /\ L.obs.fact = f THEN L.obs.entries ELSE Nothing
            r == [a \in Attempts |->
                   IF s.listing[a] # "none" /\ gens[a] = L.attemptGen[a] /\ a \notin L.tombs
                   THEN s.listing[a]
                   ELSE IF s.listing[a] = "none" /\ gens[a] = L.attemptGen[a]
                           /\ L.attemptGen[a] # 0 THEN "none"
                   ELSE kept[a]]
            o == [known |-> TRUE, current |-> TRUE, present |-> TRUE,
                  fact |-> f, entries |-> r]
            u == [Unobserved EXCEPT !.known = TRUE, !.current = TRUE]
            m == Max({L.gen, 1})
            M == reduced(L, s, gens)
<1>1. /\ L.obs \in Holds /\ L.gen \in Nat /\ s.fact \in Facts /\ s.listing \in Remote
      /\ L.obs.entries \in Remote /\ s.listed \in BOOLEAN
  BY DEF Ledger, Holds, Reading
<1>2. f \in Facts
  BY <1>1, MaskedParts
<1>3. Nothing \in Remote /\ NoFact \in Facts
  BY DEF Nothing, Remote, NoFact, Facts, ReconciliationAssumption
<1>4. kept \in Remote
  BY <1>1, <1>3
<1>. HIDE DEF kept
<1>5. r \in Remote
  BY <1>1, <1>4 DEF Remote
<1>6. o \in Holds
  BY <1>2, <1>5 DEF Holds
<1>7. /\ u \in Holds /\ u.known /\ u.current /\ ~u.present
      /\ u.fact = NoFact /\ u.entries = Nothing
  BY <1>3 DEF Unobserved, Holds
<1>8. m = IF L.gen = 0 THEN 1 ELSE L.gen
  <2>1. {L.gen, 1} \subseteq 0..(L.gen + 1) /\ L.gen + 1 \in Nat
    BY <1>1
  <2>2. Max({L.gen, 1}) \in {L.gen, 1} /\ \A v \in {L.gen, 1} : v <= Max({L.gen, 1})
    BY <2>1, GreatestNatural
  <2>. QED  BY <1>1, <2>2
<1>9. m \in Nat
  BY <1>1, <1>8
<1>10. M = IF s.listed THEN [L EXCEPT !.gen = m, !.obs = o] ELSE [L EXCEPT !.obs = u]
  BY DEF reduced, kept
<1>11. \A a \in Attempts : o.entries[a] = r[a]
  OBVIOUS
<1>12. o.known /\ o.current /\ o.present /\ o.fact = f /\ o.entries = r
  OBVIOUS
<1>. HIDE DEF m, o, u, M
<1>13. s.listed =>
         /\ M \in Ledger /\ M.attemptGen = L.attemptGen /\ M.tombs = L.tombs
         /\ M.attempts = L.attempts /\ M.gen = m /\ M.obs = o
  BY <1>6, <1>9, <1>10 DEF Ledger
<1>14. ~s.listed =>
         /\ M \in Ledger /\ M.attemptGen = L.attemptGen /\ M.tombs = L.tombs
         /\ M.attempts = L.attempts /\ M.gen = L.gen /\ M.obs = u
  BY <1>7, <1>10 DEF Ledger
<1>15. CASE s.listed
  BY <1>8, <1>12, <1>13, <1>15 DEF kept, M
<1>16. CASE ~s.listed
  BY <1>7, <1>14, <1>16 DEF M
<1>. QED  BY <1>15, <1>16

\* The owner holds the reading it has accepted, and nothing that has moved on.
LEMMA ReducedKeeps ==
  ASSUME ReconciliationAssumption,
         NEW L \in Ledger, NEW g \in Github, NEW n \in Newest, NEW k \in Newest,
         OwnOf(L), GithubOf(L, g), HoldsNewest(L, n), Plain(k.seen, L, g),
         Upto(n.attemptGen, k.attemptGen), Upto(k.attemptGen, L.attemptGen),
         ~L.obs.current => \A a \in Attempts : \/ k.attemptGen[a] = L.attemptGen[a]
                                               \/ L.obs.entries[a] = "none"
  PROVE  LET M == reduced(L, k.seen, k.attemptGen) IN
         /\ M \in Ledger /\ OwnOf(M) /\ GithubOf(M, g) /\ HoldsNewest(M, k)
         /\ M.gen = (IF L.gen = 0 /\ k.seen.listed THEN 1 ELSE L.gen)
         /\ M.attemptGen = L.attemptGen /\ M.attempts = L.attempts
         /\ M.obs.known /\ M.obs.current
<1>. DEFINE M == reduced(L, k.seen, k.attemptGen)
            s == k.seen
            gens == k.attemptGen
            f == masked(s.fact, gens, L)
            kept == IF L.obs.present /\ L.obs.fact = f THEN L.obs.entries ELSE Nothing
<1>1. s \in Reading /\ gens \in Gens /\ s.fact \in Facts /\ s.listing \in Remote
      /\ s.listed \in BOOLEAN
  BY DEF Newest, Reading
<1>. HIDE DEF s, gens
<1>2. /\ M \in Ledger /\ M.attemptGen = L.attemptGen /\ M.tombs = L.tombs
      /\ M.attempts = L.attempts /\ M.obs.known /\ M.obs.current
      /\ s.listed =>
           /\ M.gen = (IF L.gen = 0 THEN 1 ELSE L.gen) /\ M.obs.present /\ M.obs.fact = f
           /\ \A a \in Attempts : M.obs.entries[a] =
                IF s.listing[a] # "none" /\ gens[a] = L.attemptGen[a] /\ a \notin L.tombs
                THEN s.listing[a]
                ELSE IF s.listing[a] = "none" /\ gens[a] = L.attemptGen[a]
                        /\ L.attemptGen[a] # 0 THEN "none"
                ELSE kept[a]
      /\ ~s.listed => /\ M.gen = L.gen /\ ~M.obs.present
                      /\ M.obs.fact = NoFact /\ M.obs.entries = Nothing
  BY <1>1, ReducedParts DEF s, gens
<1>. HIDE DEF M
<1>3. \A a \in Attempts : /\ L.attemptGen[a] \in Nat /\ gens[a] \in Nat
                           /\ n.attemptGen[a] \in Nat
                          /\ n.attemptGen[a] <= gens[a] /\ gens[a] <= L.attemptGen[a]
  BY DEF gens, Upto, Ledger, Newest, Gens
<1>4. L.tombs \subseteq Attempts /\ L.gen \in Nat /\ L.obs.known \in BOOLEAN
  BY DEF Ledger, Holds
<1>5. ASSUME NEW a \in Attempts
      PROVE  M.obs.entries[a] = IF gens[a] = M.attemptGen[a] /\ a \notin M.tombs
                                THEN s.listing[a] ELSE "none"
  <2>1. CASE ~s.listed
    <3>1. s = Unlisted
      BY <2>1 DEF Plain, s
    <3>. QED  BY <1>2, <2>1, <3>1 DEF Unlisted, Nothing
  <2>2. CASE s.listed
    <3>1. kept[a] = "none" \/ (kept[a] = L.obs.entries[a] /\ L.obs.present)
      BY DEF Nothing
    <3>2. CASE a \in L.tombs
      <4>1. L.obs.entries[a] = "none"
        BY <3>2 DEF OwnOf
      <4>2. kept[a] = "none"
        BY <3>1, <4>1
      <4>. QED  BY <1>2, <2>2, <3>2, <4>2
    <3>3. CASE a \notin L.tombs /\ gens[a] # L.attemptGen[a]
      <4>1. gens[a] < L.attemptGen[a]
        BY <1>3, <3>3
      <4>2. L.obs.current /\ L.obs.known => L.obs.entries[a] = "none"
        BY <1>3, <4>1 DEF HoldsNewest
      <4>3. ~L.obs.current => L.obs.entries[a] = "none"
        BY <3>3 DEF gens
      <4>4. L.obs.present => L.obs.known
        BY DEF OwnOf
      <4>5. kept[a] = "none"
        BY <3>1, <4>2, <4>3, <4>4
      <4>. QED  BY <1>2, <2>2, <3>3, <4>5
    <3>4. CASE a \notin L.tombs /\ gens[a] = L.attemptGen[a] /\ s.listing[a] # "none"
      BY <1>2, <2>2, <3>4
    <3>5. CASE a \notin L.tombs /\ gens[a] = L.attemptGen[a] /\ s.listing[a] = "none"
      <4>1. CASE L.attemptGen[a] # 0
        BY <1>2, <2>2, <3>5, <4>1
      <4>2. CASE L.attemptGen[a] = 0
        <5>1. a \notin g.bound
          BY <2>2, <3>5, <4>2 DEF Plain, s
        <5>2. L.obs.present => L.obs.entries[a] = "none"
          BY <4>2, <5>1 DEF GithubOf
        <5>3. kept[a] = "none"
          BY <3>1, <5>2
        <5>. QED  BY <1>2, <2>2, <3>5, <4>2, <5>3
      <4>. QED  BY <4>1, <4>2
    <3>. QED  BY <3>2, <3>3, <3>4, <3>5
  <2>. QED  BY <2>1, <2>2
<1>6. M.obs.present = s.listed /\ M.obs.fact = masked(s.fact, gens, M)
  <2>1. masked(s.fact, gens, M) = masked(s.fact, gens, L)
    BY <1>2, MaskedSame
  <2>2. CASE s.listed
    <3>1. M.obs.present \in BOOLEAN
      BY <1>2 DEF Ledger, Holds
    <3>. QED  BY <1>2, <2>1, <2>2, <3>1
  <2>3. CASE ~s.listed
    <3>1. s.fact = NoFact
      BY <2>3 DEF Plain, s, Unlisted
    <3>2. NoFact \in Facts /\ NoFact.binding = 0 /\ NoFact.terminals = {}
      BY <1>1, <3>1 DEF NoFact
    <3>. DEFINE h == masked(s.fact, gens, M)
    <3>3. /\ h \in Facts /\ h.attempt = s.fact.attempt /\ h.current = s.fact.current
          /\ (h.active <=> s.fact.active) /\ (h.completed <=> s.fact.completed)
          /\ (h.retry <=> s.fact.retry) /\ (h.authorized <=> s.fact.authorized)
          /\ (h.recoverable <=> s.fact.recoverable)
          /\ h.binding \in {0, s.fact.binding}
          /\ h.terminals = {a \in s.fact.terminals : gens[a] # 0 /\ gens[a] = M.attemptGen[a]
                                                     /\ a \notin M.tombs}
      BY <1>1, <1>2, <3>2, MaskedParts
    <3>. HIDE DEF h
    <3>4. h.binding = s.fact.binding /\ h.terminals = s.fact.terminals
      BY <3>1, <3>2, <3>3
    <3>5. h = s.fact
      BY <1>1, <3>3, <3>4, SameFacts
    <3>6. M.obs.present \in BOOLEAN
      BY <1>2 DEF Ledger, Holds
    <3>. QED  BY <1>1, <1>2, <2>3, <3>1, <3>5, <3>6 DEF h
  <2>. QED  BY <2>2, <2>3
<1>7. HoldsNewest(M, k)
  BY <1>5, <1>6 DEF HoldsNewest, s, gens
<1>8. \A a \in M.tombs : M.obs.entries[a] = "none"
  BY <1>2, <1>4, <1>5
<1>9. live(M) = live(L) /\ working(M) = working(L)
  BY <1>2 DEF live, working
<1>10. OwnOf(M)
  <2>1. M.gen >= L.gen
    BY <1>1, <1>2, <1>4
  <2>2. (\E a \in Attempts : M.attemptGen[a] # 0) => M.gen >= 2
    <3>1. (\E a \in Attempts : M.attemptGen[a] # 0) => L.gen >= 2
      BY <1>2 DEF OwnOf
    <3>2. M.gen \in Nat
      BY <1>2 DEF Ledger
    <3>. QED  BY <1>4, <2>1, <3>1, <3>2
  <2>3. ~M.obs.present => M.obs.entries = Nothing /\ M.obs.fact = NoFact
    BY <1>1, <1>2
  <2>4. \A a \in M.tombs : M.attempts[a] = "none" /\ M.attemptGen[a] # 0
    BY <1>2 DEF OwnOf
  <2>. QED  BY <1>2, <1>8, <1>9, <2>2, <2>3, <2>4 DEF OwnOf
<1>11. GithubOf(M, g)
  <2>1. ASSUME M.obs.present, NEW a \in Attempts, M.attemptGen[a] = 0
        PROVE  M.obs.entries[a] = IF a \in g.bound THEN "active" ELSE "none"
    <3>1. gens[a] = 0 /\ L.attemptGen[a] = 0
      BY <1>2, <1>3, <2>1
    <3>2. a \notin M.tombs
      BY <1>2, <2>1 DEF OwnOf
    <3>3. s.listed
      BY <1>2, <2>1
    <3>4. s.listing[a] = IF a \in g.bound THEN "active" ELSE "none"
      BY <3>1, <3>3 DEF Plain, s
    <3>. QED  BY <1>2, <1>5, <3>1, <3>2, <3>4
  <2>. QED  BY <1>2, <1>9, <2>1 DEF GithubOf
<1>12. M.gen = IF L.gen = 0 /\ s.listed THEN 1 ELSE L.gen
  BY <1>1, <1>2
<1>. QED  BY <1>2, <1>7, <1>10, <1>11, <1>12 DEF M, s

\* A start of the daemon: what was observed is of the old one.
LEMMA RestartKeeps ==
  ASSUME NEW L \in Ledger, NEW g, NEW n, OwnOf(L), GithubOf(L, g)
  PROVE  LET M == [L EXCEPT !.obs.current = FALSE] IN
         M \in Ledger /\ OwnOf(M) /\ GithubOf(M, g) /\ HoldsNewest(M, n) /\ ~M.obs.current
         /\ M.attemptGen = L.attemptGen /\ M.attempts = L.attempts
<1>. DEFINE o == [L.obs EXCEPT !.current = FALSE]
            M == [L EXCEPT !.obs = o]
<1>1. /\ o \in Holds /\ o.known = L.obs.known /\ o.present = L.obs.present
      /\ o.fact = L.obs.fact /\ o.entries = L.obs.entries /\ ~o.current
  BY DEF Ledger, Holds
<1>. HIDE DEF o
<1>2. /\ M \in Ledger /\ M.gen = L.gen /\ M.attemptGen = L.attemptGen /\ M.tombs = L.tombs
      /\ M.attempts = L.attempts /\ M.obs = o
  BY <1>1 DEF Ledger
<1>. HIDE DEF M
<1>3. live(M) = live(L) /\ working(M) = working(L)
  BY <1>2 DEF live, working
<1>4. OwnOf(M) /\ GithubOf(M, g)
  BY <1>1, <1>2, <1>3 DEF OwnOf, GithubOf
<1>5. HoldsNewest(M, n)
  BY <1>1, <1>2 DEF HoldsNewest
<1>. QED  BY <1>1, <1>2, <1>4, <1>5 DEF M, o

-----------------------------------------------------------------------------
(* Steps that collect nothing *)

\* The types, issue by issue.
LEMMA Types ==
  TypeOK <=> /\ ledger \in [Issues -> Ledger] /\ github \in [Issues -> Github]
             /\ newest \in [Issues -> Newest] /\ applied \in [Issues -> 0..MaxCycles]
             /\ cycleID \in 0..MaxCycles
             /\ \A c \in Collectors : collect[c].phase \in Phases
             /\ bounds \in [edits : 0..MaxEdits, boots : 1..MaxBoots]
BY DEF TypeOK, Ledger, Github, Newest, Reading, Gens, Holds, States

\* The cycle decides what to do.
Deciding == collect[Cycle].phase \in {"prepare", "bind", "start"}

\* What a step that collects nothing does to the collectors.
CollectStep ==
  /\ collect' \in [Collectors -> Capture]
  /\ \A c \in Collectors : Collecting(c)' => collect'[c] = collect[c]
  /\ \A c \in Operators : collect'[c].phase \in {"idle", "read", "apply"}
  /\ Deciding' => Deciding /\ collect'[Cycle].scope = collect[Cycle].scope

\* What it does to an issue: L becomes M, and g on GitHub h.
Grows(L, M, g, h) ==
  /\ Upto(L.attemptGen, M.attemptGen) /\ g.bound \subseteq h.bound
  /\ \A a \in h.bound \ g.bound : M.attemptGen[a] # 0
  /\ \A a \in Attempts : g.pulls[a] # "none" => h.pulls[a] # "none"
Calm(L, M) ==
  /\ \/ M.gen = L.gen /\ (M.obs.known <=> L.obs.known) /\ live(M) \subseteq live(L)
     \/ M.gen > L.gen /\ ~Observed(M)
  /\ Observed(M) => Observed(L)
  /\ ~M.obs.current => ~L.obs.current \/ M.obs.entries = Nothing
  /\ \A a \in Attempts : \/ M.obs.entries[a] = "none"
                         \/ /\ M.obs.entries[a] = L.obs.entries[a]
                            /\ M.attemptGen[a] = L.attemptGen[a]
StaysSettled(g, h) ==
  h.bound = g.bound /\ \A a \in g.bound : settled(g, a) => settled(h, a)
StepOf(i) ==
  LET L == ledger[i]  M == ledger'[i]  g == github[i]  h == github'[i] IN
  /\ M \in Ledger /\ h \in Github /\ OwnOf(M) /\ GithubOf(M, h) /\ HoldsNewest(M, newest[i])
  /\ Grows(L, M, g, h) /\ Calm(L, M)
  /\ \/ working(M) \subseteq working(L)
     \/ collect[Cycle].phase = "start" /\ i \in collect[Cycle].scope
        /\ live(M) \subseteq live(L) /\ working(M) \subseteq g.bound
  /\ StaysSettled(g, h) \/ ~(Collecting(Cycle) \/ Deciding)'
  /\ M.gen > L.gen => ~Collecting(Cycle)'

\* Readings stay plain.
LEMMA PlainGrows ==
  ASSUME NEW L \in Ledger, NEW M \in Ledger, NEW g \in Github, NEW h \in Github,
         NEW s \in Reading, Grows(L, M, g, h), Plain(s, L, g)
  PROVE  Plain(s, M, h)
<1>1. \A a \in Attempts : /\ L.attemptGen[a] \in Nat /\ M.attemptGen[a] \in Nat
                          /\ L.attemptGen[a] <= M.attemptGen[a]
                          /\ M.attemptGen[a] = 0 => (a \in h.bound <=> a \in g.bound)
  BY DEF Grows, Upto, Ledger, Gens
<1>2. \A a \in Attempts : M.attemptGen[a] = 0 => L.attemptGen[a] = 0
  BY <1>1
<1>3. /\ g.bound \subseteq h.bound
      /\ \A a \in Attempts : g.pulls[a] # "none" => h.pulls[a] # "none"
  BY DEF Grows
<1>4. \A a \in Attempts : a < s.fact.attempt => M.attemptGen[a] # 0
  BY <1>2 DEF Plain
<1>5. s.listed => \A a \in Attempts : M.attemptGen[a] = 0 =>
        s.listing[a] = IF a \in h.bound THEN "active" ELSE "none"
  BY <1>1, <1>2 DEF Plain
<1>. QED  BY <1>3, <1>4, <1>5 DEF Plain

\* And they stay sound, or have been taken since the binding was written.
LEMMA SoundStep ==
  ASSUME NEW L, NEW M, NEW g, NEW s, Sound(s, L), live(M) \subseteq live(L),
         \/ working(M) \subseteq working(L)
         \/ working(M) \subseteq g.bound /\ FreshBind(s, L, g)
  PROVE  Sound(s, M)
<1>1. working(M) \subseteq live(M)
  BY DEF working, live
<1>. QED  BY <1>1 DEF Sound, FreshBind

\* Freshness stays while the cycle goes on.
LEMMA FreshStep ==
  ASSUME NEW L, NEW M, NEW g, NEW h, NEW s, StaysSettled(g, h)
  PROVE  /\ FreshWork(s, g) => FreshWork(s, h)
         /\ live(M) \subseteq live(L) /\ FreshBind(s, L, g) => FreshBind(s, M, h)
BY DEF StaysSettled, FreshWork, FreshBind

LEMMA StepKeeps ==
  ASSUME ReconciliationAssumption, ReconciliationInv, CollectStep,
         ledger' = [i \in Issues |-> ledger'[i]], github' = [i \in Issues |-> github'[i]],
         UNCHANGED <<cycleID, applied, newest>>,
         bounds' \in [edits : 0..MaxEdits, boots : 1..MaxBoots],
         \A i \in Issues : StepOf(i)
  PROVE  ReconciliationInv'
<1>1. /\ \A i \in Issues : /\ ledger[i] \in Ledger /\ github[i] \in Github
                           /\ newest[i] \in Newest /\ newest[i].seen \in Reading
      /\ \A c \in Collectors, i \in Issues :
           collect[c] \in Capture /\ collect[c].seen[i] \in Reading
           /\ collect[c].gen[i] \in Nat /\ collect[c].attemptGen[i] \in Gens
  BY Types DEF ReconciliationInv, Capture, Newest
<1>2. ASSUME NEW c \in Collectors, Collecting(c)'
      PROVE  collect'[c] = collect[c] /\ Collecting(c)
  BY <1>2 DEF CollectStep, Collecting
<1>3. ASSUME NEW c \in Collectors, NEW i \in Issues, Pending(c, i)'
      PROVE  collect'[c] = collect[c] /\ Pending(c, i) /\ Collecting(c)
  BY <1>2, <1>3 DEF Pending, Collecting
<1>4. TypeOK' /\ (collect \in [Collectors -> Capture])'
  <2>1. ledger' \in [Issues -> Ledger] /\ github' \in [Issues -> Github]
    BY DEF StepOf
  <2>2. \A c \in Collectors : collect'[c].phase \in Phases
    BY DEF CollectStep, Capture
  <2>3. TypeOK' <=> /\ ledger' \in [Issues -> Ledger] /\ github' \in [Issues -> Github]
             /\ newest' \in [Issues -> Newest] /\ applied' \in [Issues -> 0..MaxCycles]
             /\ cycleID' \in 0..MaxCycles
             /\ \A c \in Collectors : collect'[c].phase \in Phases
             /\ bounds' \in [edits : 0..MaxEdits, boots : 1..MaxBoots]
    BY DEF TypeOK, Ledger, Github, Newest, Reading, Gens, Holds, States
  <2>. QED  BY <2>1, <2>2, <2>3, Types DEF ReconciliationInv, CollectStep
<1>5. IssueInv'
  BY DEF IssueInv, StepOf
<1>6. ReadingInv'
  <2>. SUFFICES ASSUME NEW i \in Issues
                PROVE  /\ Plain(newest[i].seen, ledger'[i], github'[i])
                       /\ Observed(ledger'[i]) => Sound(newest[i].seen, ledger'[i])
                       /\ \A c \in Collectors : Pending(c, i)' =>
                            /\ Plain(collect[c].seen[i], ledger'[i], github'[i])
                            /\ Match(c, i)' /\ collect[c].id > applied[i] =>
                                 Sound(collect[c].seen[i], ledger'[i])
    BY <1>3 DEF ReadingInv
  <2>. DEFINE L == ledger[i]  M == ledger'[i]  g == github[i]  h == github'[i]
  <2>1. /\ M \in Ledger /\ h \in Github /\ Grows(L, M, g, h) /\ Calm(L, M)
        /\ \/ working(M) \subseteq working(L)
           \/ collect[Cycle].phase = "start" /\ i \in collect[Cycle].scope
              /\ live(M) \subseteq live(L) /\ working(M) \subseteq g.bound
    BY DEF StepOf
  <2>2. L \in Ledger /\ g \in Github /\ newest[i].seen \in Reading
    BY <1>1
  <2>3. /\ Plain(newest[i].seen, L, g)
        /\ Observed(L) => Sound(newest[i].seen, L)
        /\ \A c \in Collectors : Pending(c, i) =>
             /\ Plain(collect[c].seen[i], L, g)
             /\ Match(c, i) /\ collect[c].id > applied[i] => Sound(collect[c].seen[i], L)
    BY DEF ReconciliationInv, ReadingInv
  <2>4. collect[Cycle].phase = "start" /\ i \in collect[Cycle].scope =>
          /\ Observed(L) => FreshBind(newest[i].seen, L, g)
          /\ \A c \in Collectors : Pending(c, i) /\ collect[c].id > applied[i] /\ Match(c, i) =>
               FreshBind(collect[c].seen[i], L, g)
    BY DEF ReconciliationInv, CycleInv, CycleOf, Fresh, Deciding
  <2>5. Observed(M) => Observed(L) /\ live(M) \subseteq live(L)
    BY <2>1 DEF Calm
  <2>6. ASSUME NEW c \in Collectors, Pending(c, i)', Match(c, i)'
        PROVE  Match(c, i) /\ live(M) \subseteq live(L)
    <3>1. collect[c].gen[i] = M.gen /\ collect[c].gen[i] <= L.gen
      BY <1>3, <2>6 DEF Match, ReconciliationInv, GenInv, Pending
    <3>2. M.gen \in Nat /\ L.gen \in Nat
      BY <2>1, <2>2 DEF Ledger
    <3>. QED  BY <2>1, <3>1, <3>2 DEF Calm, Match
  <2>. DEFINE r == newest[i].seen
  <2>. HIDE DEF L, M, g, h, r
  <2>10. /\ r \in Reading /\ Plain(r, L, g)
         /\ Observed(L) => Sound(r, L)
         /\ collect[Cycle].phase = "start" /\ i \in collect[Cycle].scope
            /\ Observed(L) => FreshBind(r, L, g)
    BY <2>2, <2>3, <2>4 DEF r
  <2>7. Plain(r, M, h)
    BY <2>1, <2>2, <2>10, PlainGrows
  <2>8. Observed(M) => Sound(r, M)
    BY <2>1, <2>5, <2>10, SoundStep
  <2>9. ASSUME NEW c \in Collectors, Pending(c, i)'
        PROVE  /\ Plain(collect[c].seen[i], M, h)
               /\ Match(c, i)' /\ collect[c].id > applied[i] => Sound(collect[c].seen[i], M)
    <3>1. Pending(c, i)
      BY <1>3, <2>9
    <3>. DEFINE s == collect[c].seen[i]
    <3>2. s \in Reading /\ Plain(s, L, g)
      BY <1>1, <2>3, <3>1
    <3>3. Plain(s, M, h)
      BY <2>1, <2>2, <3>2, PlainGrows
    <3>4. ASSUME Match(c, i)', collect[c].id > applied[i]
          PROVE  Sound(s, M)
      <4>1. Match(c, i) /\ live(M) \subseteq live(L)
        BY <2>6, <2>9, <3>4
      <4>2. Sound(s, L)
        BY <2>3, <3>1, <3>4, <4>1
      <4>3. collect[Cycle].phase = "start" /\ i \in collect[Cycle].scope => FreshBind(s, L, g)
        BY <2>4, <3>1, <3>4, <4>1
      <4>. HIDE DEF s
      <4>. QED  BY <2>1, <4>1, <4>2, <4>3, SoundStep
    <3>. QED  BY <3>3, <3>4
  <2>. QED  BY <2>7, <2>8, <2>9 DEF L, M, g, h, r
<1>7. IdInv'
  <2>1. \A i \in Issues : applied'[i] = newest'[i].id /\ applied'[i] <= cycleID'
    BY DEF ReconciliationInv, IdInv
  <2>2. \A c \in Collectors : Collecting(c)' => collect'[c].id \in 1..cycleID'
    BY <1>2 DEF ReconciliationInv, IdInv
  <2>3. \A c, d \in Collectors :
          Collecting(c)' /\ Collecting(d)' /\ c # d => collect'[c].id # collect'[d].id
    BY <1>2 DEF ReconciliationInv, IdInv
  <2>4. \A c \in Collectors, i \in Issues :
          Collecting(c)' /\ i \notin collect'[c].scope => ~collect'[c].seen[i].listed
    BY <1>2 DEF ReconciliationInv, IdInv
  <2>. QED  BY <2>1, <2>2, <2>3, <2>4 DEF IdInv, CollectStep
<1>8. GenInv'
  <2>. SUFFICES ASSUME NEW i \in Issues
                PROVE  /\ Upto(newest[i].attemptGen, ledger'[i].attemptGen)
                       /\ \A c \in Collectors : Collecting(c)' /\ i \in collect'[c].scope =>
                            /\ collect[c].gen[i] <= ledger'[i].gen
                            /\ Upto(collect[c].attemptGen[i], ledger'[i].attemptGen)
                            /\ collect[c].id > newest[i].id =>
                                 Upto(newest[i].attemptGen, collect[c].attemptGen[i])
                            /\ \A d \in Collectors :
                                 Collecting(d)' /\ i \in collect'[d].scope
                                 /\ collect[c].id < collect[d].id =>
                                   Upto(collect[c].attemptGen[i], collect[d].attemptGen[i])
                            /\ ~ledger'[i].obs.current => \A a \in Attempts :
                                 \/ collect[c].attemptGen[i][a] = ledger'[i].attemptGen[a]
                                 \/ ledger'[i].obs.entries[a] = "none"
    BY <1>2 DEF GenInv
  <2>. DEFINE L == ledger[i]  M == ledger'[i]
  <2>1. M \in Ledger /\ L \in Ledger /\ Upto(L.attemptGen, M.attemptGen) /\ Calm(L, M)
    BY <1>1 DEF StepOf, Grows
  <2>2. M.gen \in Nat /\ L.gen \in Nat /\ L.gen <= M.gen
    BY <2>1 DEF Calm, Ledger
  <2>3. ASSUME NEW f \in Gens, Upto(f, L.attemptGen)
        PROVE  Upto(f, M.attemptGen)
    BY <2>1, <2>3 DEF Upto, Gens, Ledger
  <2>4. Upto(newest[i].attemptGen, M.attemptGen)
    BY <1>1, <2>3 DEF ReconciliationInv, GenInv, Newest
  <2>5. ASSUME NEW c \in Collectors, Collecting(c)', i \in collect'[c].scope
        PROVE  /\ collect[c].gen[i] <= M.gen
               /\ Upto(collect[c].attemptGen[i], M.attemptGen)
               /\ collect[c].id > newest[i].id =>
                    Upto(newest[i].attemptGen, collect[c].attemptGen[i])
               /\ \A d \in Collectors :
                    Collecting(d)' /\ i \in collect'[d].scope
                    /\ collect[c].id < collect[d].id =>
                      Upto(collect[c].attemptGen[i], collect[d].attemptGen[i])
               /\ ~M.obs.current => \A a \in Attempts :
                    \/ collect[c].attemptGen[i][a] = M.attemptGen[a]
                    \/ M.obs.entries[a] = "none"
    <3>1. /\ Collecting(c) /\ i \in collect[c].scope
          /\ collect[c].attemptGen[i] \in Gens /\ collect[c].gen[i] \in Nat
      BY <1>1, <1>2, <2>5
    <3>2. /\ collect[c].gen[i] <= L.gen
          /\ Upto(collect[c].attemptGen[i], L.attemptGen)
          /\ collect[c].id > newest[i].id =>
               Upto(newest[i].attemptGen, collect[c].attemptGen[i])
          /\ \A d \in Collectors :
               Collecting(d) /\ i \in collect[d].scope /\ collect[c].id < collect[d].id =>
                 Upto(collect[c].attemptGen[i], collect[d].attemptGen[i])
          /\ ~L.obs.current => \A a \in Attempts :
               \/ collect[c].attemptGen[i][a] = L.attemptGen[a]
               \/ L.obs.entries[a] = "none"
      BY <3>1 DEF ReconciliationInv, GenInv
    <3>3. ~M.obs.current => \A a \in Attempts :
            \/ collect[c].attemptGen[i][a] = M.attemptGen[a]
            \/ M.obs.entries[a] = "none"
      BY <2>1, <3>2 DEF Calm, Nothing
    <3>. QED  BY <1>2, <2>2, <2>3, <3>1, <3>2, <3>3
  <2>. QED  BY <2>4, <2>5
<1>9. CycleInv'
  <2>. SUFFICES ASSUME NEW i \in Issues
                PROVE  CycleOf(i)'
    BY DEF CycleInv
  <2>. DEFINE L == ledger[i]  M == ledger'[i]  g == github[i]  h == github'[i]
  <2>1. /\ M \in Ledger /\ L \in Ledger /\ Calm(L, M)
        /\ StaysSettled(g, h) \/ ~(Collecting(Cycle) \/ Deciding)'
        /\ M.gen > L.gen => ~Collecting(Cycle)'
    BY <1>1 DEF StepOf
  <2>2. M.gen \in Nat /\ L.gen \in Nat /\ Cycle \in Collectors
    BY <2>1 DEF Ledger, Collectors
  <2>3. Collecting(Cycle)' => collect'[Cycle] = collect[Cycle] /\ Collecting(Cycle)
    BY <1>2, <2>2
  <2>4. CycleOf(i)
    BY DEF ReconciliationInv, CycleInv
  <2>. HIDE DEF L, M, g, h
  <2>5. StaysSettled(g, h) =>
          \A s \in Reading : FreshWork(s, g) => FreshWork(s, h)
    BY FreshStep
  <2>6. StaysSettled(g, h) /\ live(M) \subseteq live(L) =>
          \A s \in Reading : FreshBind(s, L, g) => FreshBind(s, M, h)
    BY FreshStep
  <2>7. ASSUME Collecting(Cycle)'
        PROVE  /\ i \in collect'[Cycle].scope /\ matches(collect[Cycle], i)'
               /\ newest[i].id >= collect[Cycle].id => Fresh(newest[i].seen, i)'
               /\ \A c \in Collectors : Pending(c, i)' /\ collect[c].id >= collect[Cycle].id =>
                    Fresh(collect[c].seen[i], i)'
    <3>1. M.gen = L.gen /\ (M.obs.known <=> L.obs.known) /\ live(M) \subseteq live(L)
      BY <2>1, <2>2, <2>7 DEF Calm
    <3>2. StaysSettled(g, h)
      BY <2>1, <2>7
    <3>3. \A s \in Reading : FreshWork(s, g) /\ FreshBind(s, L, g) =>
                             FreshWork(s, h) /\ FreshBind(s, M, h)
      BY <2>5, <2>6, <3>1, <3>2
    <3>4. /\ i \in collect[Cycle].scope /\ matches(collect[Cycle], i)
          /\ newest[i].id >= collect[Cycle].id => Fresh(newest[i].seen, i)
          /\ \A c \in Collectors : Pending(c, i) /\ collect[c].id >= collect[Cycle].id =>
               Fresh(collect[c].seen[i], i)
      BY <2>3, <2>4, <2>7 DEF CycleOf
    <3>5. \A s \in Reading : Fresh(s, i) => Fresh(s, i)'
      BY <3>3 DEF Fresh, L, M, g, h
    <3>6. i \in collect'[Cycle].scope
      BY <2>3, <2>7, <3>4
    <3>7. matches(collect[Cycle], i)'
      BY <2>3, <2>7, <3>1, <3>4 DEF matches, L, M
    <3>8. newest[i].id >= collect[Cycle].id => Fresh(newest[i].seen, i)'
      BY <1>1, <3>4, <3>5
    <3>9. ASSUME NEW c \in Collectors, Pending(c, i)', collect[c].id >= collect[Cycle].id
          PROVE  Fresh(collect[c].seen[i], i)'
      <4>1. Pending(c, i) /\ collect'[c] = collect[c] /\ collect[c].seen[i] \in Reading
        BY <1>1, <1>3, <3>9
      <4>. DEFINE s == collect[c].seen[i]
      <4>2. s \in Reading /\ Fresh(s, i)
        BY <3>4, <3>9, <4>1
      <4>3. s' = s
        BY <4>1
      <4>. HIDE DEF s
      <4>4. Fresh(s, i)'
        BY <3>5, <4>2, <4>3 DEF Fresh
      <4>. QED  BY <4>4 DEF s
    <3>. QED  BY <3>6, <3>7, <3>8, <3>9
  <2>8. ASSUME Deciding', i \in collect'[Cycle].scope
        PROVE  /\ Observed(M) => Fresh(newest[i].seen, i)'
               /\ \A c \in Collectors : Pending(c, i)' /\ collect[c].id > applied[i] =>
                    /\ FreshWork(collect[c].seen[i], h)
                    /\ Match(c, i)' => FreshBind(collect[c].seen[i], M, h)
    <3>1. Deciding /\ i \in collect[Cycle].scope
      BY <2>8 DEF CollectStep
    <3>2. StaysSettled(g, h)
      BY <2>1, <2>8
    <3>3. /\ Observed(L) => FreshWork(newest[i].seen, g) /\ FreshBind(newest[i].seen, L, g)
          /\ \A c \in Collectors : Pending(c, i) /\ collect[c].id > applied[i] =>
               /\ FreshWork(collect[c].seen[i], g)
               /\ Match(c, i) => FreshBind(collect[c].seen[i], L, g)
      BY <2>4, <3>1 DEF CycleOf, Deciding, Fresh, L, g
    <3>4. Observed(M) => FreshWork(newest[i].seen, h) /\ FreshBind(newest[i].seen, M, h)
      <4>1. Observed(M) => Observed(L) /\ live(M) \subseteq live(L)
        BY <2>1 DEF Calm
      <4>2. newest[i].seen \in Reading
        BY <1>1
      <4>. QED  BY <2>5, <2>6, <3>2, <3>3, <4>1, <4>2
    <3>5. ASSUME NEW c \in Collectors, Pending(c, i)', collect[c].id > applied[i]
          PROVE  /\ FreshWork(collect[c].seen[i], h)
                 /\ Match(c, i)' => FreshBind(collect[c].seen[i], M, h)
      <4>1. Pending(c, i) /\ collect'[c] = collect[c] /\ collect[c].seen[i] \in Reading
        BY <1>1, <1>3, <3>5
      <4>2. Match(c, i)' => Match(c, i) /\ live(M) \subseteq live(L)
        <5>1. Collecting(c) /\ i \in collect[c].scope /\ collect[c].gen[i] \in Nat
          BY <1>1, <4>1 DEF Pending, Collecting
        <5>2. collect[c].gen[i] <= L.gen
          BY <5>1 DEF ReconciliationInv, GenInv, L
        <5>3. Match(c, i)' => collect[c].gen[i] = M.gen
          BY <4>1 DEF Match, M
        <5>. QED  BY <2>1, <2>2, <5>1, <5>2, <5>3 DEF Calm, Match, L
      <4>. QED  BY <2>5, <2>6, <3>2, <3>3, <3>5, <4>1, <4>2
    <3>6. Observed(M) => Fresh(newest[i].seen, i)'
      BY <3>4 DEF Fresh, M, h
    <3>. QED  BY <3>5, <3>6
  <2>9. Deciding' <=> collect'[Cycle].phase \in {"prepare", "bind", "start"}
    BY DEF Deciding
  <2>10. ASSUME NEW c \in Collectors, Pending(c, i)'
         PROVE  collect'[c] = collect[c]
    BY <1>3, <2>10
  <2>. QED  BY <2>3, <2>7, <2>8, <2>9, <2>10 DEF CycleOf, M, h
<1>. QED  BY <1>4, <1>5, <1>6, <1>7, <1>8, <1>9 DEF ReconciliationInv

\* A collector that stops.
LEMMA StopsCollecting ==
  ASSUME ReconciliationAssumption, ReconciliationInv,
         NEW c \in Collectors, collect' = [collect EXCEPT ![c] = Idle]
  PROVE  CollectStep /\ (c = Cycle => ~(Collecting(Cycle) \/ Deciding)')
<1>1. /\ Idle.phase = "idle" /\ Idle.scope = {} /\ Cycle \in Collectors
      /\ Operators \subseteq Collectors /\ collect \in [Collectors -> Capture]
  BY DEF Idle, Collectors, ReconciliationInv
<1>2. Idle \in Capture
  <2>1. Unlisted \in Reading
    BY DEF Unlisted, Reading, NoFact, Facts, Nothing, Remote, Attempts,
           ReconciliationAssumption
  <2>. QED  BY <2>1 DEF Idle, Capture, Phases, Gens
<1>3. collect' \in [Collectors -> Capture] /\ collect'[c] = Idle
      /\ \A d \in Collectors : d # c => collect'[d] = collect[d]
  BY <1>1, <1>2
<1>4. \A d \in Operators : collect[d].phase \in {"idle", "read", "apply"}
  BY DEF ReconciliationInv, IdInv
<1>. QED  BY <1>1, <1>3, <1>4 DEF CollectStep, Collecting, Deciding

\* The cycle goes on with another phase.
LEMMA GoesOn ==
  ASSUME ReconciliationAssumption, ReconciliationInv,
         NEW p \in Phases \ {"read", "apply"}, goes(p),
         p \in {"prepare", "bind", "start"} => Deciding
  PROVE  CollectStep /\ ~Collecting(Cycle)'
<1>1. /\ Cycle \in Collectors /\ Operators \subseteq Collectors /\ Cycle \notin Operators
      /\ collect \in [Collectors -> Capture]
  BY DEF Collectors, ReconciliationInv, ReconciliationAssumption
<1>. DEFINE x == [collect[Cycle] EXCEPT !.phase = p]
<1>2. x \in Capture /\ x.phase = p /\ x.scope = collect[Cycle].scope
  <2>1. collect[Cycle] \in Capture /\ p \in Phases
    BY <1>1
  <2>. QED  BY <2>1 DEF Capture
<1>. HIDE DEF x
<1>3. collect' = [collect EXCEPT ![Cycle] = x]
  BY DEF goes, x
<1>4. collect' \in [Collectors -> Capture] /\ collect'[Cycle] = x
      /\ \A d \in Collectors : d # Cycle => collect'[d] = collect[d]
  BY <1>1, <1>2, <1>3
<1>5. \A d \in Operators : collect[d].phase \in {"idle", "read", "apply"}
  BY DEF ReconciliationInv, IdInv
<1>. QED  BY <1>1, <1>2, <1>4, <1>5 DEF CollectStep, Collecting, Deciding

\* The collectors do nothing.
LEMMA NobodyCollects ==
  ASSUME ReconciliationInv, UNCHANGED collect
  PROVE  CollectStep
BY DEF ReconciliationInv, IdInv, CollectStep, Deciding

\* An issue that nothing happens to.
LEMMA StaysPut ==
  ASSUME ReconciliationInv, NEW i \in Issues,
         ledger'[i] = ledger[i], github'[i] = github[i]
  PROVE  StepOf(i)
<1>1. /\ ledger[i] \in Ledger /\ github[i] \in Github
      /\ OwnOf(ledger[i]) /\ GithubOf(ledger[i], github[i])
      /\ HoldsNewest(ledger[i], newest[i])
  BY Types DEF ReconciliationInv, IssueInv
<1>2. ledger[i].gen \in Nat /\ \A a \in Attempts : ledger[i].attemptGen[a] \in Nat
  BY <1>1 DEF Ledger, Gens
<1>. QED  BY <1>1, <1>2 DEF StepOf, Grows, Calm, StaysSettled, Upto

\* A step of the ledger of one issue.
LEMMA LedgerStep ==
  ASSUME ReconciliationAssumption, ReconciliationInv, CollectStep,
         NEW i \in Issues, NEW M, ledger' = [ledger EXCEPT ![i] = M],
         UNCHANGED <<github, cycleID, applied, newest, bounds>>, StepOf(i)
  PROVE  ReconciliationInv'
<1>1. /\ ledger \in [Issues -> Ledger] /\ github \in [Issues -> Github]
      /\ bounds \in [edits : 0..MaxEdits, boots : 1..MaxBoots]
  BY Types DEF ReconciliationInv
<1>2. ledger' = [j \in Issues |-> ledger'[j]] /\ github' = [j \in Issues |-> github'[j]]
  BY <1>1
<1>3. ASSUME NEW j \in Issues
      PROVE  StepOf(j)
  <2>1. CASE j = i
    BY <2>1
  <2>2. CASE j # i
    <3>1. ledger'[j] = ledger[j] /\ github'[j] = github[j]
      BY <1>1, <2>2
    <3>. QED  BY <3>1, StaysPut
  <2>. QED  BY <2>1, <2>2
<1>. QED  BY <1>1, <1>2, <1>3, StepKeeps

\* A step of one issue on GitHub.
LEMMA GithubStep ==
  ASSUME ReconciliationAssumption, ReconciliationInv, CollectStep,
         NEW i \in Issues, NEW h, github' = [github EXCEPT ![i] = h],
         bounds' \in [edits : 0..MaxEdits, boots : 1..MaxBoots],
         UNCHANGED <<ledger, cycleID, applied, newest>>, StepOf(i)
  PROVE  ReconciliationInv'
<1>1. ledger \in [Issues -> Ledger] /\ github \in [Issues -> Github]
  BY Types DEF ReconciliationInv
<1>2. ledger' = [j \in Issues |-> ledger'[j]] /\ github' = [j \in Issues |-> github'[j]]
  BY <1>1
<1>3. ASSUME NEW j \in Issues
      PROVE  StepOf(j)
  <2>1. CASE j = i
    BY <2>1
  <2>2. CASE j # i
    <3>1. ledger'[j] = ledger[j] /\ github'[j] = github[j]
      BY <1>1, <2>2
    <3>. QED  BY <3>1, StaysPut
  <2>. QED  BY <2>1, <2>2
<1>. QED  BY <1>2, <1>3, StepKeeps

\* A step of the collectors alone.
LEMMA OtherStep ==
  ASSUME ReconciliationAssumption, ReconciliationInv, CollectStep,
         UNCHANGED <<ledger, github, cycleID, applied, newest, bounds>>
  PROVE  ReconciliationInv'
<1>1. /\ ledger \in [Issues -> Ledger] /\ github \in [Issues -> Github]
      /\ bounds \in [edits : 0..MaxEdits, boots : 1..MaxBoots]
  BY Types DEF ReconciliationInv
<1>2. ledger' = [j \in Issues |-> ledger'[j]] /\ github' = [j \in Issues |-> github'[j]]
  BY <1>1
<1>3. \A j \in Issues : StepOf(j)
  BY StaysPut
<1>. QED  BY <1>1, <1>2, <1>3, StepKeeps

\* A failure ends a collection or the cycle.
LEMMA FailKeeps ==
  ASSUME ReconciliationAssumption, ReconciliationInv, NEW c \in Collectors, Fail(c)
  PROVE  ReconciliationInv'
<1>1. CollectStep
  BY StopsCollecting DEF Fail
<1>. QED  BY <1>1, OtherStep DEF Fail

\* A phase of the cycle follows another.
LEMMA ProceedKeeps ==
  ASSUME ReconciliationAssumption, ReconciliationInv, Proceed
  PROVE  ReconciliationInv'
<1>1. CASE over
  <2>1. CollectStep
    BY <1>1, StopsCollecting DEF over, Collectors
  <2>. QED  BY <2>1, OtherStep DEF Proceed
<1>2. CASE \E p \in {"bind", "start"} : Deciding /\ goes(p)
  <2>1. CollectStep
    BY <1>2, GoesOn DEF Phases
  <2>. QED  BY <2>1, OtherStep DEF Proceed
<1>3. CASE \E p \in {"monitor", "publish", "update"} : goes(p)
  <2>1. CollectStep
    BY <1>3, GoesOn DEF Phases
  <2>. QED  BY <2>1, OtherStep DEF Proceed
<1>. QED  BY <1>1, <1>2, <1>3 DEF Proceed, at, Deciding

\* The ledger's step when an attempt that is alive goes on or ends.
LEMMA LocalStep ==
  ASSUME ReconciliationInv, NEW i \in Issues, NEW a \in live(ledger[i]),
         NEW s \in {"running", "watched", "completed", "failed"}, local(i, a, s),
         UNCHANGED github,
         \/ s \notin {"running", "watched"}
         \/ a \in working(ledger[i])
         \/ a \in github[i].bound /\ collect[Cycle].phase = "start"
            /\ i \in collect[Cycle].scope
  PROVE  StepOf(i)
<1>. DEFINE L == ledger[i]  M == Local(L, a, s)  g == github[i]  n == newest[i]
<1>1. /\ L \in Ledger /\ g \in Github /\ n \in Newest /\ ledger \in [Issues -> Ledger]
      /\ OwnOf(L) /\ GithubOf(L, g) /\ HoldsNewest(L, n)
  BY Types DEF ReconciliationInv, IssueInv
<1>2. ledger'[i] = M /\ github'[i] = g
  BY <1>1 DEF local, Local
<1>3. \A b \in working(L) : b \in g.bound
  BY <1>1 DEF GithubOf
<1>4. s \in {"running", "watched"} => a \in g.bound
  BY <1>3
<1>5. /\ M \in Ledger /\ OwnOf(M) /\ GithubOf(M, g) /\ HoldsNewest(M, n)
      /\ M.gen = L.gen /\ M.attemptGen = L.attemptGen /\ M.obs = L.obs
      /\ live(M) \subseteq live(L) /\ working(M) \subseteq working(L) \cup {a}
      /\ s \notin {"running", "watched"} => working(M) \subseteq working(L)
  BY <1>1, <1>4, LocalKeeps
<1>6. L.gen \in Nat /\ \A b \in Attempts : L.attemptGen[b] \in Nat
  BY <1>1 DEF Ledger, Gens
<1>. HIDE DEF L, M, g, n
<1>7. \/ working(M) \subseteq working(L)
      \/ collect[Cycle].phase = "start" /\ i \in collect[Cycle].scope
         /\ live(M) \subseteq live(L) /\ working(M) \subseteq g.bound
  BY <1>3, <1>5 DEF L, g
<1>8. Grows(L, M, g, g) /\ Calm(L, M) /\ StaysSettled(g, g)
  BY <1>5, <1>6 DEF Grows, Calm, StaysSettled, Upto, Observed
<1>. QED  BY <1>1, <1>2, <1>5, <1>6, <1>7, <1>8 DEF StepOf, L, M, g, n

\* A worker that was watched has ended.
LEMMA SettleKeeps ==
  ASSUME ReconciliationAssumption, ReconciliationInv,
         NEW i \in Issues, NEW a \in Attempts, Settle(i, a)
  PROVE  ReconciliationInv'
<1>1. a \in live(ledger[i])
  BY DEF Settle, live
<1>2. PICK s \in {"completed", "failed"} : local(i, a, s)
  BY DEF Settle
<1>3. StepOf(i)
  BY <1>1, <1>2, LocalStep DEF Settle
<1>4. CollectStep
  BY NobodyCollects DEF Settle
<1>. QED  BY <1>2, <1>3, <1>4, LedgerStep DEF Settle, local

-----------------------------------------------------------------------------
(* The attempt that is planned *)

\* The first of the planned issues is planned.
LEMMA FirstPlanned ==
  ASSUME ReconciliationAssumption, NEW action, Planned(action) # {}
  PROVE  Min(Planned(action)) \in Issues /\ Plans(action, Min(Planned(action)))
<1>1. Planned(action) \subseteq Nat
  BY DEF Planned, ReconciliationAssumption
<1>2. Min(Planned(action)) \in Planned(action)
  BY <1>1, LeastNatural
<1>. QED  BY <1>2 DEF Planned

\* The replacement is prepared and later; no replacement means that there is none.
LEMMA ReplacementParts ==
  ASSUME ReconciliationAssumption, NEW L, NEW t \in Nat
  PROVE  /\ replacement(L, t) \in {0} \cup Attempts
         /\ replacement(L, t) # 0 =>
              replacement(L, t) > t /\ L.attempts[replacement(L, t)] = "preparing"
         /\ replacement(L, t) = 0 =>
              \A b \in Attempts : b > t => L.attempts[b] # "preparing"
<1>. DEFINE S == {b \in Attempts : b > t /\ L.attempts[b] = "preparing"}
<1>1. S \subseteq Attempts
  OBVIOUS
<1>. HIDE DEF S
<1>2. /\ highest(S) \in S \cup {0} /\ highest(S) \in {0} \cup Attempts
      /\ \A b \in S : b <= highest(S)
  BY <1>1, HighestAttempt
<1>3. replacement(L, t) = highest(S)
  BY DEF replacement, S
<1>4. \A b \in Attempts : b > 0
  BY DEF Attempts
<1>5. highest(S) = 0 => S = {}
  BY <1>1, <1>2, <1>4 DEF Attempts
<1>6. highest(S) # 0 => highest(S) \in S
  BY <1>2
<1>. QED  BY <1>2, <1>3, <1>5, <1>6 DEF S

\* The first that is not reserved.
LEMMA UnreservedParts ==
  ASSUME ReconciliationAssumption, NEW L, NEW t \in Nat
  PROVE  LET a == unreserved(L, t) IN
         /\ a \in {0} \cup Attempts
         /\ a # 0 => /\ a >= t
                     /\ \A b \in Attempts : t <= b /\ b < a => L.attemptGen[b] # 0
<1>. DEFINE S == {a \in Attempts : a >= t /\ L.attemptGen[a] = 0}
<1>1. S \subseteq Attempts
  OBVIOUS
<1>2. unreserved(L, t) = IF S = {} THEN 0 ELSE Min(S)
  BY DEF unreserved
<1>. HIDE DEF S
<1>3. S # {} => Min(S) \in S /\ \A b \in S : Min(S) <= b
  BY <1>1, FirstAttempt
<1>4. CASE S = {}
  BY <1>2, <1>4
<1>5. CASE S # {}
  <2>1. Min(S) \in Attempts /\ Min(S) >= t
    BY <1>3, <1>5 DEF S
  <2>2. ASSUME NEW b \in Attempts, t <= b, b < Min(S)
        PROVE  L.attemptGen[b] # 0
    <3>1. b \notin S
      BY <1>3, <1>5, <2>1, <2>2 DEF Attempts
    <3>. QED  BY <2>2, <3>1 DEF S, Attempts
  <2>. QED  BY <1>2, <1>5, <2>1, <2>2
<1>. QED  BY <1>4, <1>5

\* The attempt that is considered.
LEMMA TargetType ==
  ASSUME ReconciliationAssumption, NEW L \in Ledger
  PROVE  target(L) \in {0} \cup Attempts
<1>. DEFINE t == IF L.obs.fact.binding # 0 THEN L.obs.fact.binding ELSE L.obs.fact.attempt
<1>1. t \in Nat
  BY DEF Ledger, Holds, Facts, Attempts, ReconciliationAssumption
<1>. HIDE DEF t
<1>2. replacement(L, t) \in {0} \cup Attempts /\ unreserved(L, t) \in {0} \cup Attempts
  BY <1>1, ReplacementParts, UnreservedParts
<1>. QED  BY <1>2 DEF target, t

\* The observed facts of a current observation.
LEMMA ObservedFacts ==
  ASSUME ReconciliationAssumption,
         NEW L \in Ledger, NEW g \in Github, NEW n \in Newest, current(L),
         HoldsNewest(L, n), Plain(n.seen, L, g)
  PROVE  /\ n.seen.listed /\ Observed(L)
         /\ L.obs.fact.attempt = n.seen.fact.attempt /\ L.obs.fact.attempt \in Nat
         /\ (L.obs.fact.authorized <=> n.seen.fact.authorized)
         /\ (L.obs.fact.active <=> n.seen.fact.active)
         /\ (L.obs.fact.completed <=> n.seen.fact.completed)
         /\ L.obs.fact.binding # 0 =>
              /\ L.obs.fact.binding = n.seen.fact.binding
              /\ L.obs.fact.binding = L.obs.fact.attempt
              /\ L.attemptGen[L.obs.fact.binding] # 0
<1>. DEFINE f == n.seen.fact  gens == n.attemptGen
<1>1. f \in Facts /\ gens \in Gens /\ n.seen.listed \in BOOLEAN /\ L.obs.present \in BOOLEAN
  BY DEF Newest, Reading, Ledger, Holds
<1>2. Observed(L) /\ L.obs.present = n.seen.listed /\ L.obs.fact = masked(f, gens, L)
  BY DEF current, Observed, HoldsNewest
<1>. HIDE DEF f, gens
<1>. DEFINE h == masked(f, gens, L)
<1>3. /\ h.attempt = f.attempt /\ (h.active <=> f.active) /\ (h.completed <=> f.completed)
      /\ (h.authorized <=> f.authorized) /\ h.binding \in {0, f.binding}
      /\ h.binding # 0 => gens[f.binding] # 0 /\ gens[f.binding] = L.attemptGen[f.binding]
  BY <1>1, MaskedParts
<1>4. f.attempt \in Nat
  BY <1>1 DEF Facts, ReconciliationAssumption
<1>5. f.binding # 0 => f.attempt = f.binding
  BY DEF Plain, f
<1>6. n.seen.listed
  BY <1>2 DEF current
<1>. HIDE DEF h
<1>7. L.obs.fact = h
  BY <1>2 DEF h
<1>8. h.binding # 0 => h.binding = f.binding /\ h.binding = h.attempt
                       /\ L.attemptGen[h.binding] # 0
  BY <1>3, <1>5
<1>. QED  BY <1>2, <1>3, <1>4, <1>6, <1>7, <1>8 DEF f

\* An attempt that is observed at work has a binding.
LEMMA ObservedBound ==
  ASSUME ReconciliationAssumption,
         NEW L \in Ledger, NEW g \in Github, NEW n \in Newest, NEW a \in Attempts,
         current(L), HoldsNewest(L, n), Plain(n.seen, L, g), observed(L, a) = "active"
  PROVE  /\ a \in g.bound \/ g.pulls[a] # "none"
         /\ n.seen.listing[a] = "active" \/ n.seen.fact.attempt = a
         /\ L.attemptGen[a] = 0 => L.obs.entries[a] = "active"
<1>1. /\ Observed(L) /\ L.obs.fact.attempt = n.seen.fact.attempt
      /\ L.obs.fact.binding # 0 =>
           /\ L.obs.fact.binding = n.seen.fact.binding
           /\ L.obs.fact.binding = L.obs.fact.attempt
           /\ L.attemptGen[L.obs.fact.binding] # 0
  BY ObservedFacts
<1>2. a # 0
  BY DEF Attempts
<1>3. CASE L.obs.entries[a] = "active"
  <2>1. n.seen.listing[a] = "active"
    BY <1>1, <1>3 DEF HoldsNewest, Observed
  <2>. QED  BY <1>3, <2>1 DEF Plain
<1>4. CASE L.obs.entries[a] # "active"
  <2>1. L.obs.fact.binding = a
    BY <1>4 DEF observed
  <2>2. n.seen.fact.binding = a /\ n.seen.fact.attempt = a /\ L.attemptGen[a] # 0
    BY <1>1, <1>2, <2>1
  <2>3. a \in g.bound
    BY <1>2, <2>2 DEF Plain
  <2>. QED  BY <2>2, <2>3
<1>. QED  BY <1>3, <1>4

\* A new attempt is the next one, and no other is alive.
LEMMA TargetIsNext ==
  ASSUME ReconciliationAssumption,
         NEW L \in Ledger, NEW g \in Github, NEW n \in Newest, current(L),
         L.obs.fact.authorized, OwnOf(L), HoldsNewest(L, n),
         Plain(n.seen, L, g), Sound(n.seen, L), target(L) # 0,
         L.attempts[target(L)] = "none", L.attemptGen[target(L)] = 0
  PROVE  live(L) = {} /\ \A b \in Attempts : b < target(L) => L.attemptGen[b] # 0
<1>. DEFINE a == target(L)  t == n.seen.fact.attempt
<1>1. /\ n.seen.listed /\ L.obs.fact.attempt = t /\ t \in Nat /\ n.seen.fact.authorized
      /\ L.obs.fact.binding # 0 => L.obs.fact.binding = t
  BY ObservedFacts
<1>2. a \in Attempts
  BY TargetType
<1>3. (IF L.obs.fact.binding # 0 THEN L.obs.fact.binding ELSE L.obs.fact.attempt) = t
  BY <1>1
<1>4. /\ \A b \in Attempts : b < t => L.attemptGen[b] # 0
      /\ \A b \in live(L) : t <= b /\ (b \in working(L) => t = b)
  BY <1>1 DEF Plain, Sound
<1>5. \A b \in live(L) : b \in Attempts /\ L.attemptGen[b] # 0
                         /\ \A c \in Attempts : c < b => L.attemptGen[c] # 0
  BY DEF OwnOf, live
<1>. HIDE DEF t
<1>6. a = IF t \in Attempts /\ (observed(L, t) = "active" \/ L.attempts[t] # "none") THEN t
          ELSE IF replacement(L, t) # 0 THEN replacement(L, t)
          ELSE unreserved(L, t)
  BY <1>3 DEF target
<1>7. /\ replacement(L, t) # 0 => L.attempts[replacement(L, t)] = "preparing"
      /\ replacement(L, t) = 0 => \A b \in Attempts : b > t => L.attempts[b] # "preparing"
  BY <1>1, ReplacementParts
<1>8. /\ unreserved(L, t) \in {0} \cup Attempts
      /\ unreserved(L, t) # 0 =>
           /\ unreserved(L, t) >= t
           /\ \A b \in Attempts : t <= b /\ b < unreserved(L, t) => L.attemptGen[b] # 0
  BY <1>1, UnreservedParts
<1>. HIDE DEF a
<1>9. L.attempts[a] = "none" /\ L.attemptGen[a] = 0 /\ a # 0
  BY DEF a
<1>10. CASE a = t
  <2>1. ASSUME NEW b \in live(L)
        PROVE  FALSE
    <3>1. b \in Attempts /\ t <= b /\ L.attemptGen[b] # 0
          /\ \A c \in Attempts : c < b => L.attemptGen[c] # 0
      BY <1>4, <1>5
    <3>2. t \in Attempts /\ L.attemptGen[t] = 0
      BY <1>2, <1>9, <1>10
    <3>3. t # b
      BY <3>1, <3>2
    <3>4. t < b
      BY <1>1, <3>1, <3>3 DEF Attempts
    <3>. QED  BY <3>1, <3>2, <3>4
  <2>. QED  BY <1>4, <1>10, <2>1 DEF a
<1>11. CASE /\ ~(t \in Attempts /\ (observed(L, t) = "active" \/ L.attempts[t] # "none"))
            /\ replacement(L, t) = 0 /\ a = unreserved(L, t)
  <2>1. ASSUME NEW b \in Attempts, b < a
        PROVE  L.attemptGen[b] # 0
    <3>1. b < t \/ t <= b
      BY <1>1 DEF Attempts
    <3>. QED  BY <1>4, <1>8, <1>9, <1>11, <2>1, <3>1
  <2>2. ASSUME NEW b \in live(L)
        PROVE  FALSE
    <3>1. b \in Attempts /\ t <= b /\ (b \in working(L) => t = b)
      BY <1>4, <1>5
    <3>2. L.attempts[b] # "none"
      BY <2>2 DEF live
    <3>3. t # b
      BY <1>11, <3>1, <3>2
    <3>4. b > t
      BY <1>1, <3>1, <3>3 DEF Attempts
    <3>5. b \in working(L)
      BY <1>7, <1>11, <2>2, <3>1, <3>4 DEF live, working
    <3>. QED  BY <3>1, <3>3, <3>5
  <2>. QED  BY <2>1, <2>2 DEF a
<1>. QED  BY <1>6, <1>7, <1>9, <1>10, <1>11

-----------------------------------------------------------------------------
(* What the cycle and operators do to the ledger *)

\* What is known of an issue.
LEMMA Known ==
  ASSUME ReconciliationInv, NEW i \in Issues
  PROVE  /\ ledger \in [Issues -> Ledger] /\ github \in [Issues -> Github]
         /\ ledger[i] \in Ledger /\ github[i] \in Github /\ newest[i] \in Newest
         /\ OwnOf(ledger[i]) /\ GithubOf(ledger[i], github[i])
         /\ HoldsNewest(ledger[i], newest[i])
         /\ Plain(newest[i].seen, ledger[i], github[i])
         /\ Observed(ledger[i]) => Sound(newest[i].seen, ledger[i])
         /\ Upto(newest[i].attemptGen, ledger[i].attemptGen)
BY Types DEF ReconciliationInv, IssueInv, ReadingInv, GenInv

\* An attempt is prepared, or its preparation fails.
LEMMA PrepareStep ==
  ASSUME ReconciliationAssumption, ReconciliationInv, NEW i \in Issues,
         Plans("prepare", i), NEW s \in {"preparing", "failed"},
         ledger' = [ledger EXCEPT ![i] = reserved(@, target(ledger[i]), s)],
         UNCHANGED github, ~Collecting(Cycle)'
  PROVE  StepOf(i)
<1>. DEFINE L == ledger[i]  g == github[i]  n == newest[i]  a == target(L)
            M == reserved(L, a, s)
<1>1. /\ L \in Ledger /\ g \in Github /\ n \in Newest /\ OwnOf(L) /\ GithubOf(L, g)
      /\ HoldsNewest(L, n) /\ Plain(n.seen, L, g) /\ ledger \in [Issues -> Ledger]
      /\ Observed(L) => Sound(n.seen, L)
  BY Known
<1>2. /\ current(L) /\ L.obs.fact.authorized /\ a # 0
      /\ L.attempts[a] = "none" /\ L.attemptGen[a] = 0
  BY DEF Plans
<1>3. ledger'[i] = M /\ github'[i] = g
  BY <1>1
<1>4. a \in Attempts
  BY <1>1, <1>2, TargetType
<1>5. Sound(n.seen, L)
  BY <1>1, <1>2 DEF current, Observed
<1>6. live(L) = {} /\ \A b \in Attempts : b < a => L.attemptGen[b] # 0
  BY <1>1, <1>2, <1>5, TargetIsNext
<1>. HIDE DEF L, g, n, a
<1>7. /\ M \in Ledger /\ OwnOf(M) /\ GithubOf(M, g) /\ HoldsNewest(M, n)
      /\ M.gen = L.gen + 1 /\ ~Observed(M) /\ working(M) = {}
      /\ M.obs.entries = Nothing
      /\ \A b \in Attempts : M.attemptGen[b] = IF b = a THEN 1 ELSE L.attemptGen[b]
  BY <1>1, <1>2, <1>4, <1>6, ReservedKeeps
<1>. HIDE DEF M
<1>8. L.gen \in Nat /\ \A b \in Attempts : L.attemptGen[b] \in Nat
  BY <1>1 DEF Ledger, Gens
<1>9. Grows(L, M, g, g) /\ Calm(L, M) /\ StaysSettled(g, g)
  BY <1>2, <1>7, <1>8 DEF Grows, Calm, StaysSettled, Upto, Nothing
<1>. QED  BY <1>1, <1>3, <1>7, <1>9 DEF StepOf, L, g, n

LEMMA PrepareKeeps ==
  ASSUME ReconciliationAssumption, ReconciliationInv, Prepare
  PROVE  ReconciliationInv'
<1>. DEFINE i == Min(Planned("prepare"))
<1>1. i \in Issues /\ Plans("prepare", i)
  BY FirstPlanned DEF Prepare
<1>. HIDE DEF i
<1>2. PICK s \in {"preparing", "failed"} :
        /\ ledger' = [ledger EXCEPT ![i] = reserved(@, target(ledger[i]), s)]
        /\ goes("prepare") \/ over
  BY DEF Prepare, i
<1>3. Deciding
  BY DEF Prepare, at, Deciding
<1>4. CollectStep /\ ~Collecting(Cycle)'
  BY <1>2, <1>3, GoesOn, StopsCollecting DEF over, Collectors, Phases
<1>5. StepOf(i)
  BY <1>1, <1>2, <1>4, PrepareStep DEF Prepare
<1>. QED  BY <1>1, <1>2, <1>4, <1>5, LedgerStep DEF Prepare

\* A prepared attempt that is observed at work is started, or its start fails.
LEMMA StartKeeps ==
  ASSUME ReconciliationAssumption, ReconciliationInv, Start
  PROVE  ReconciliationInv'
<1>. DEFINE i == Min(Planned("start"))  a == target(ledger[i])
<1>1. i \in Issues /\ Plans("start", i)
  BY FirstPlanned DEF Start
<1>. HIDE DEF i
<1>2. /\ i \in collect[Cycle].scope /\ current(ledger[i]) /\ a # 0
      /\ ledger[i].attempts[a] = "preparing" /\ observed(ledger[i], a) = "active"
  BY <1>1 DEF Plans
<1>3. a \in Attempts
  BY <1>1, <1>2, Known, TargetType
<1>. HIDE DEF a
<1>4. PICK s \in {"running", "failed"} : local(i, a, s) /\ (goes("start") \/ over)
  BY DEF Start, i, a
<1>5. Deciding /\ collect[Cycle].phase = "start"
  BY DEF Start, at, Deciding
<1>6. CollectStep
  BY <1>4, <1>5, GoesOn, StopsCollecting DEF over, Collectors, Phases
<1>7. a \in live(ledger[i])
  BY <1>2, <1>3 DEF live
<1>8. a \in github[i].bound
  <2>1. a \in github[i].bound \/ github[i].pulls[a] # "none"
    BY <1>1, <1>2, <1>3, Known, ObservedBound
  <2>2. github[i].pulls[a] = "none"
    BY <1>1, <1>2, <1>3, Known DEF GithubOf
  <2>. QED  BY <2>1, <2>2
<1>9. StepOf(i)
  BY <1>1, <1>2, <1>4, <1>5, <1>7, <1>8, LocalStep DEF Start
<1>. QED  BY <1>1, <1>4, <1>6, <1>9, LedgerStep DEF Start, local

\* A running attempt is watched.
LEMMA MonitorKeeps ==
  ASSUME ReconciliationAssumption, ReconciliationInv, Monitor
  PROVE  ReconciliationInv'
<1>. DEFINE i == Min(Planned("monitor"))  a == target(ledger[i])
<1>1. i \in Issues /\ Plans("monitor", i)
  BY FirstPlanned DEF Monitor
<1>. HIDE DEF i
<1>2. a # 0 /\ ledger[i].attempts[a] = "running"
  BY <1>1 DEF Plans
<1>3. a \in Attempts
  BY <1>1, <1>2, Known, TargetType
<1>. HIDE DEF a
<1>4. local(i, a, "watched")
  BY DEF Monitor, i, a
<1>5. a \in live(ledger[i]) /\ a \in working(ledger[i])
  BY <1>2, <1>3 DEF live, working
<1>6. StepOf(i)
  BY <1>1, <1>4, <1>5, LocalStep DEF Monitor
<1>7. CollectStep
  BY NobodyCollects DEF Monitor
<1>. QED  BY <1>1, <1>4, <1>6, <1>7, LedgerStep DEF Monitor, local

\* An operator ends an attempt that the owner has had.
LEMMA MovedStep ==
  ASSUME ReconciliationAssumption, ReconciliationInv, NEW i \in Issues, NEW a \in Attempts,
         NEW M, ledger' = [ledger EXCEPT ![i] = M], UNCHANGED github,
         Moved(ledger[i], M, a), ledger[i].attemptGen[a] # 0,
         M.attempts[a] = "none" \/ ledger[i].attempts[a] \in {"running", "watched"}
  PROVE  StepOf(i)
<1>. DEFINE L == ledger[i]  g == github[i]  n == newest[i]
<1>1. /\ L \in Ledger /\ g \in Github /\ n \in Newest /\ OwnOf(L) /\ GithubOf(L, g)
      /\ HoldsNewest(L, n) /\ Upto(n.attemptGen, L.attemptGen)
      /\ ledger \in [Issues -> Ledger]
  BY Known
<1>2. ledger'[i] = M /\ github'[i] = g /\ Moved(L, M, a) /\ L.attemptGen[a] # 0
      /\ (M.attempts[a] = "none" \/ L.attempts[a] \in {"running", "watched"})
  BY <1>1
<1>. HIDE DEF L, g, n
<1>3. M \in Ledger
  BY <1>2 DEF Moved
<1>4. /\ OwnOf(M) /\ GithubOf(M, g) /\ HoldsNewest(M, n)
      /\ live(M) \subseteq live(L) /\ working(M) \subseteq working(L)
      /\ Upto(L.attemptGen, M.attemptGen)
      /\ (M.obs.known <=> L.obs.known) /\ (M.obs.current <=> L.obs.current)
  BY <1>1, <1>2, <1>3, MovedKeeps
<1>5. /\ M.gen = L.gen /\ L.gen \in Nat
      /\ \A b \in Attempts : b # a => M.attemptGen[b] = L.attemptGen[b]
  BY <1>1, <1>2 DEF Moved, Ledger
<1>6. \A b \in Attempts : M.obs.entries[b] = IF b = a THEN "none" ELSE L.obs.entries[b]
  BY <1>1, <1>2, ForgottenParts DEF Moved, Ledger
<1>7. Grows(L, M, g, g) /\ Calm(L, M) /\ StaysSettled(g, g)
  BY <1>4, <1>5, <1>6 DEF Grows, Calm, StaysSettled, Observed
<1>. QED  BY <1>1, <1>2, <1>3, <1>4, <1>5, <1>7 DEF StepOf, L, g, n

LEMMA StopKeeps ==
  ASSUME ReconciliationAssumption, ReconciliationInv,
         NEW i \in Issues, NEW a \in Attempts, Stop(i, a)
  PROVE  ReconciliationInv'
<1>. DEFINE L == ledger[i]  M == stoppedAttempt(L, a)
<1>1. L \in Ledger /\ OwnOf(L) /\ ledger \in [Issues -> Ledger]
  BY Known
<1>2. L.attempts[a] \in {"running", "watched"} /\ ledger' = [ledger EXCEPT ![i] = M]
  BY DEF Stop
<1>3. L.attemptGen[a] # 0 /\ a \notin L.tombs
  BY <1>1, <1>2 DEF OwnOf
<1>4. Moved(L, M, a)
  BY <1>1, <1>3, StoppedParts
<1>. HIDE DEF M
<1>5. StepOf(i)
  BY <1>2, <1>3, <1>4, MovedStep DEF Stop
<1>6. CollectStep
  BY NobodyCollects DEF Stop
<1>. QED  BY <1>2, <1>5, <1>6, LedgerStep DEF Stop

LEMMA DiscardKeeps ==
  ASSUME ReconciliationAssumption, ReconciliationInv,
         NEW i \in Issues, NEW a \in Attempts, Discard(i, a)
  PROVE  ReconciliationInv'
<1>. DEFINE L == ledger[i]  M == discarded(L, a)
<1>1. L \in Ledger /\ OwnOf(L) /\ GithubOf(L, github[i]) /\ ledger \in [Issues -> Ledger]
  BY Known
<1>2. ledger' = [ledger EXCEPT ![i] = M]
  BY DEF Discard
<1>3. L.attemptGen[a] # 0
  <2>1. CASE L.attempts[a] # "none"
    BY <1>1, <2>1 DEF OwnOf
  <2>2. CASE L.obs.present /\ L.obs.entries[a] = "completed"
    BY <1>1, <2>2 DEF GithubOf
  <2>. QED  BY <2>1, <2>2 DEF Discard
<1>4. Moved(L, M, a) /\ M.attempts[a] = "none"
  BY <1>1, StoppedParts
<1>. HIDE DEF M
<1>5. StepOf(i)
  BY <1>2, <1>3, <1>4, MovedStep DEF Discard
<1>6. CollectStep
  BY NobodyCollects DEF Discard
<1>. QED  BY <1>2, <1>5, <1>6, LedgerStep DEF Discard

-----------------------------------------------------------------------------
(* What the cycle and people do to an issue on GitHub *)

\* The ledger is as it was, and GitHub has gone on.
LEMMA GithubStepOf ==
  ASSUME ReconciliationAssumption, ReconciliationInv, NEW i \in Issues, NEW h \in Github,
         github' = [github EXCEPT ![i] = h], UNCHANGED ledger,
         github[i].bound \subseteq h.bound,
         \A a \in h.bound \ github[i].bound : ledger[i].attemptGen[a] # 0,
         \A a \in h.failed \ github[i].failed :
           ledger[i].attemptGen[a] # 0 /\ ledger[i].attempts[a] = "failed",
         \A a \in Attempts : github[i].pulls[a] # "none" => h.pulls[a] # "none",
         \A a \in Attempts : h.pulls[a] # "none" =>
           github[i].pulls[a] # "none" \/ ledger[i].attempts[a] = "completed",
         StaysSettled(github[i], h) \/ ~(Collecting(Cycle) \/ Deciding)'
  PROVE  StepOf(i)
<1>. DEFINE L == ledger[i]  g == github[i]
<1>1. /\ L \in Ledger /\ g \in Github /\ OwnOf(L) /\ GithubOf(L, g)
      /\ HoldsNewest(L, newest[i]) /\ github \in [Issues -> Github]
  BY Known
<1>2. ledger'[i] = L /\ github'[i] = h
  BY <1>1
<1>3. L.gen \in Nat /\ \A a \in Attempts : L.attemptGen[a] \in Nat
  BY <1>1 DEF Ledger, Gens
<1>. HIDE DEF L, g
<1>4. /\ g.bound \subseteq h.bound /\ \A a \in h.bound \ g.bound : L.attemptGen[a] # 0
      /\ \A a \in h.failed \ g.failed : L.attemptGen[a] # 0 /\ L.attempts[a] = "failed"
      /\ \A a \in Attempts : g.pulls[a] # "none" => h.pulls[a] # "none"
      /\ \A a \in Attempts : h.pulls[a] # "none" =>
           g.pulls[a] # "none" \/ L.attempts[a] = "completed"
  BY DEF L, g
<1>5. Grows(L, L, g, h) /\ Calm(L, L)
  BY <1>3, <1>4 DEF Grows, Calm, Upto
<1>6. GithubOf(L, h)
  <2>1. \A a \in h.bound : a = 1 \/ L.attemptGen[a] # 0
    BY <1>1, <1>4 DEF GithubOf
  <2>2. \A a \in h.failed : L.attemptGen[a] # 0 /\ L.attempts[a] \in {"failed", "none"}
    BY <1>1, <1>4 DEF GithubOf
  <2>3. \A a \in Attempts : h.pulls[a] # "none" =>
          L.attemptGen[a] # 0 /\ L.attempts[a] \in {"completed", "none"}
    BY <1>1, <1>4 DEF GithubOf, OwnOf
  <2>4. \A a \in working(L) : a \in h.bound
    BY <1>1, <1>4 DEF GithubOf
  <2>5. L.obs.present => \A a \in Attempts : L.attemptGen[a] = 0 =>
          L.obs.entries[a] = IF a \in h.bound THEN "active" ELSE "none"
    BY <1>1, <1>4 DEF GithubOf
  <2>. QED  BY <2>1, <2>2, <2>3, <2>4, <2>5 DEF GithubOf
<1>. QED  BY <1>1, <1>2, <1>3, <1>5, <1>6 DEF StepOf, L, g

\* The last failure of an issue is an attempt, and the last on GitHub.
LEMMA LastFailureParts ==
  ASSUME ReconciliationAssumption, ReconciliationInv, NEW i \in Issues
  PROVE  /\ lastFailure(i) \in {NoRetry} \cup 0..MaxAttempt
         /\ \A a \in github[i].failed : a <= lastFailure(i)
<1>. DEFINE S == github[i].failed \cup {a \in Attempts : ledger[i].attempts[a] = "failed"}
<1>1. S \subseteq {0} \cup Attempts
  BY Known DEF Github
<1>2. lastFailure(i) = highest(S)
  BY DEF lastFailure
<1>3. github[i].failed \subseteq S
  OBVIOUS
<1>. HIDE DEF S
<1>4. highest(S) \in {0} \cup Attempts /\ \A a \in S : a <= highest(S)
  BY <1>1, HighestAttempt
<1>. QED  BY <1>2, <1>3, <1>4 DEF Attempts, ReconciliationAssumption

\* An issue with an attempt.
LEMMA PairParts ==
  ASSUME NEW p \in Pairs
  PROVE  p[1] \in Issues /\ p[2] \in Attempts /\ p = <<p[1], p[2]>>
BY DEF Pairs

\* A binding is written, and the cycle ends if it is new.
LEMMA BindKeeps ==
  ASSUME ReconciliationAssumption, ReconciliationInv, Bind
  PROVE  ReconciliationInv'
<1>. DEFINE p == First(Binds)
<1>1. p \in Binds
  BY FirstPair DEF Bind, Binds
<1>. HIDE DEF p
<1>10. p \in Pairs /\ binds(p[1], p[2])
  BY <1>1 DEF Binds
<1>2. PICK i \in Issues, a \in Attempts : p = <<i, a>> /\ binds(i, a)
  BY <1>10, PairParts
<1>. DEFINE g == github[i]  h == [g EXCEPT !.bound = g.bound \cup {a}]
<1>3. /\ github' = [github EXCEPT ![i] = h]
      /\ IF a \in g.bound THEN goes("start") ELSE over
  BY <1>2 DEF Bind, p, g
<1>4. g \in Github /\ OwnOf(ledger[i])
  BY Known
<1>. HIDE DEF g
<1>5. /\ h \in Github /\ h.bound = g.bound \cup {a} /\ h.failed = g.failed
      /\ h.pulls = g.pulls /\ h.retry = g.retry
  BY <1>4 DEF Github
<1>. HIDE DEF h
<1>6. ledger[i].attemptGen[a] # 0
  BY <1>2, <1>4 DEF binds, OwnOf
<1>7. CollectStep /\ (a \notin g.bound => ~(Collecting(Cycle) \/ Deciding)')
  <2>1. Deciding
    BY DEF Bind, at, Deciding
  <2>2. CASE a \in g.bound
    BY <1>3, <2>1, <2>2, GoesOn DEF Phases
  <2>3. CASE a \notin g.bound
    BY <1>3, <2>3, StopsCollecting DEF over, Collectors
  <2>. QED  BY <2>2, <2>3
<1>8. a \in g.bound => StaysSettled(g, h)
  BY <1>5 DEF StaysSettled, settled
<1>9. StepOf(i)
  BY <1>3, <1>5, <1>6, <1>7, <1>8, GithubStepOf DEF Bind, g
<1>. QED
  BY <1>3, <1>7, <1>9, GithubStep, Types DEF Bind, ReconciliationInv

\* Reviewed work is published, and the cycle ends.
LEMMA PublishKeeps ==
  ASSUME ReconciliationAssumption, ReconciliationInv, Publish
  PROVE  ReconciliationInv'
<1>. DEFINE p == First(Publications)
<1>1. p \in Publications
  BY FirstPair DEF Publish, Publications
<1>. HIDE DEF p
<1>8. p \in Pairs /\ ledger[p[1]].attempts[p[2]] = "completed"
  BY <1>1 DEF Publications
<1>2. PICK i \in Issues, a \in Attempts :
        p = <<i, a>> /\ ledger[i].attempts[a] = "completed"
  BY <1>8, PairParts
<1>. DEFINE g == github[i]  h == [g EXCEPT !.pulls = [g.pulls EXCEPT ![a] = "open"]]
<1>3. github' = [github EXCEPT ![i] = h]
  BY <1>2 DEF Publish, p
<1>4. g \in Github
  BY Known
<1>. HIDE DEF g
<1>5. /\ h \in Github /\ h.bound = g.bound /\ h.failed = g.failed
      /\ \A b \in Attempts : h.pulls[b] = IF b = a THEN "open" ELSE g.pulls[b]
  <2>1. [g.pulls EXCEPT ![a] = "open"] \in [Attempts -> {"none", "open", "merged"}]
    BY <1>4 DEF Github
  <2>2. h \in Github /\ h.bound = g.bound /\ h.failed = g.failed
    BY <1>4, <2>1 DEF Github
  <2>3. /\ h.pulls = [g.pulls EXCEPT ![a] = "open"]
        /\ g.pulls \in [Attempts -> {"none", "open", "merged"}]
    BY <1>4 DEF Github
  <2>. QED  BY <2>2, <2>3
<1>. HIDE DEF h
<1>6. CollectStep /\ ~(Collecting(Cycle) \/ Deciding)'
  BY StopsCollecting DEF Publish, over, Collectors
<1>7. StepOf(i)
  <2>1. UNCHANGED ledger
    BY DEF Publish
  <2>2. \A b \in Attempts : h.pulls[b] # "none" => g.pulls[b] # "none" \/ b = a
    BY <1>5
  <2>3. \A b \in Attempts : g.pulls[b] # "none" => h.pulls[b] # "none"
    BY <1>5
  <2>. QED  BY <1>2, <1>3, <1>5, <1>6, <2>1, <2>2, <2>3, GithubStepOf DEF g
<1>. QED
  BY <1>3, <1>6, <1>7, GithubStep, Types DEF Publish, ReconciliationInv

\* A failure is recorded or a retry asked for, and the cycle ends.
LEMMA UpdateKeeps ==
  ASSUME ReconciliationAssumption, ReconciliationInv, Update
  PROVE  ReconciliationInv'
<1>. DEFINE p == First(Updates)
<1>1. p \in Updates
  BY FirstPair DEF Update, Updates
<1>. HIDE DEF p
<1>. DEFINE i == p[1]  a == p[2]
<1>2. i \in Issues /\ a \in Attempts /\ updates(i, a)
  BY <1>1, PairParts DEF Updates
<1>. DEFINE g == github[i]
            r == [g EXCEPT !.retry = lastFailure(i)]
            f == [g EXCEPT !.failed = g.failed \cup {a}]
<1>12. github' = [github EXCEPT ![i] = r] \/ github' = [github EXCEPT ![i] = f]
  BY DEF Update, p
<1>. HIDE DEF i, a
<1>13. UNCHANGED ledger
  BY DEF Update
<1>3. PICK h \in {r, f} : github' = [github EXCEPT ![i] = h]
  <2>. HIDE DEF r, f
  <2>. QED  BY <1>12
<1>4. g \in Github /\ OwnOf(ledger[i]) /\ lastFailure(i) \in {NoRetry} \cup 0..MaxAttempt
  BY <1>2, Known, LastFailureParts
<1>. HIDE DEF g
<1>5. r \in Github /\ r.bound = g.bound /\ r.failed = g.failed /\ r.pulls = g.pulls
  BY <1>2, <1>4 DEF Github
<1>6. f \in Github /\ f.bound = g.bound /\ f.failed = g.failed \cup {a} /\ f.pulls = g.pulls
  BY <1>2, <1>4 DEF Github
<1>. HIDE DEF r, f
<1>7. ledger[i].attempts[a] = "failed" /\ ledger[i].attemptGen[a] # 0
  BY <1>2, <1>4 DEF updates, OwnOf
<1>8. CollectStep /\ ~(Collecting(Cycle) \/ Deciding)'
  BY StopsCollecting DEF Update, over, Collectors
<1>9. /\ h \in Github /\ h.bound = g.bound
      /\ h.failed \subseteq g.failed \cup {a} /\ h.pulls = g.pulls
  BY <1>3, <1>5, <1>6
<1>10. StepOf(i)
  BY <1>2, <1>3, <1>7, <1>8, <1>9, <1>13, GithubStepOf DEF g
<1>. QED
  BY <1>2, <1>3, <1>8, <1>10, GithubStep, Types DEF Update, ReconciliationInv

\* What people do settles no less than before.
LEMMA EditKeeps ==
  ASSUME ReconciliationAssumption, ReconciliationInv, NEW i \in Issues, Edit(i)
  PROVE  ReconciliationInv'
<1>. DEFINE g == github[i]
            Settles(h) == /\ h \in Github /\ h.bound = g.bound /\ h.failed = g.failed
                          /\ \A a \in Attempts : h.pulls[a] # "none" <=> g.pulls[a] # "none"
                          /\ \A a \in g.failed : g.retry >= a => h.retry >= a
<1>1. /\ g \in Github /\ lastFailure(i) \in {NoRetry} \cup 0..MaxAttempt
      /\ \A a \in g.failed : a <= lastFailure(i)
  BY Known, LastFailureParts
<1>2. \E h : Settles(h) /\ github' = [github EXCEPT ![i] = h]
  <2>. HIDE DEF g
  <2>1. Settles([g EXCEPT !.ready = ~g.ready]) /\ Settles([g EXCEPT !.open = ~g.open])
    BY <1>1 DEF Github
  <2>2. Settles([g EXCEPT !.retry = lastFailure(i)])
    <3>. DEFINE h == [g EXCEPT !.retry = lastFailure(i)]
    <3>1. /\ h \in Github /\ h.bound = g.bound /\ h.failed = g.failed /\ h.pulls = g.pulls
          /\ h.retry = lastFailure(i)
      BY <1>1 DEF Github
    <3>2. g.failed \subseteq Attempts
      BY <1>1 DEF Github
    <3>3. lastFailure(i) \in Int
      BY <1>1 DEF NoRetry
    <3>. HIDE DEF h
    <3>4. \A a \in g.failed : h.retry >= a
      BY <1>1, <3>1, <3>2, <3>3 DEF Attempts
    <3>5. Settles(h)
      BY <3>1, <3>4
    <3>. QED  BY <3>5 DEF h
  <2>3. ASSUME NEW a \in published(g)
        PROVE  Settles([g EXCEPT !.pulls = [g.pulls EXCEPT ![a] = "merged"]])
    <3>. DEFINE m == [g.pulls EXCEPT ![a] = "merged"]
    <3>1. a \in Attempts /\ g.pulls[a] = "open"
      BY DEF published
    <3>2. /\ m \in [Attempts -> {"none", "open", "merged"}]
          /\ \A b \in Attempts : m[b] # "none" <=> g.pulls[b] # "none"
      BY <1>1, <3>1 DEF Github
    <3>. HIDE DEF m
    <3>3. Settles([g EXCEPT !.pulls = m])
      BY <1>1, <3>2 DEF Github
    <3>. QED  BY <3>3 DEF m
  <2>5. \/ github' = [github EXCEPT ![i] = [g EXCEPT !.ready = ~g.ready]]
        \/ github' = [github EXCEPT ![i] = [g EXCEPT !.open = ~g.open]]
        \/ github' = [github EXCEPT ![i] = [g EXCEPT !.retry = lastFailure(i)]]
        \/ \E a \in published(g) : github' =
             [github EXCEPT ![i] = [g EXCEPT !.pulls = [g.pulls EXCEPT ![a] = "merged"]]]
    BY DEF Edit, g
  <2>. HIDE DEF Settles
  <2>. QED  BY <2>1, <2>2, <2>3, <2>5
<1>3. PICK h : Settles(h) /\ github' = [github EXCEPT ![i] = h]
  BY <1>2
<1>4. CollectStep
  BY NobodyCollects DEF Edit
<1>5. StaysSettled(g, h)
  <2>1. g.bound \subseteq Attempts
    BY <1>1 DEF Github
  <2>. QED  BY <1>3, <2>1 DEF StaysSettled, settled
<1>6. StepOf(i)
  BY <1>3, <1>5, GithubStepOf DEF Edit
<1>7. bounds' \in [edits : 0..MaxEdits, boots : 1..MaxBoots]
  <2>1. bounds \in [edits : 0..MaxEdits, boots : 1..MaxBoots] /\ MaxEdits \in Nat
    BY Types DEF ReconciliationInv, ReconciliationAssumption
  <2>. QED  BY <2>1 DEF Edit
<1>. QED  BY <1>3, <1>4, <1>6, <1>7, GithubStep DEF Edit

-----------------------------------------------------------------------------
(* Collecting *)

\* An issue that was never listed has no attempts.
LEMMA MatchesOrIdle ==
  ASSUME ReconciliationAssumption, ReconciliationInv, NEW i \in Issues, NEW c \in Collectors,
         matches(collect[c], i)
  PROVE  Match(c, i) \/ live(ledger[i]) = {}
<1>1. OwnOf(ledger[i])
  BY Known
<1>2. ledger[i].gen = 1 => \A a \in Attempts : ledger[i].attemptGen[a] = 0
  BY <1>1 DEF OwnOf
<1>3. ledger[i].gen = 1 => live(ledger[i]) = {}
  BY <1>1, <1>2 DEF OwnOf, live
<1>. QED  BY <1>3 DEF matches, Match

\* What is known of a collector.
LEMMA KnownOf ==
  ASSUME ReconciliationInv, NEW c \in Collectors, NEW i \in Issues
  PROVE  /\ collect \in [Collectors -> Capture] /\ collect[c] \in Capture
         /\ collect[c].gen[i] \in Nat /\ collect[c].attemptGen[i] \in Gens
         /\ collect[c].seen[i] \in Reading
         /\ Pending(c, i) => /\ Collecting(c) /\ i \in collect[c].scope
                             /\ Plain(collect[c].seen[i], ledger[i], github[i])
         /\ Pending(c, i) /\ Match(c, i) /\ collect[c].id > applied[i] =>
              Sound(collect[c].seen[i], ledger[i])
         /\ Collecting(c) => collect[c].id \in 1..cycleID
         /\ Collecting(c) /\ i \in collect[c].scope =>
              /\ collect[c].gen[i] <= ledger[i].gen
              /\ Upto(collect[c].attemptGen[i], ledger[i].attemptGen)
              /\ collect[c].id > newest[i].id =>
                   Upto(newest[i].attemptGen, collect[c].attemptGen[i])
              /\ \A d \in Collectors :
                   Collecting(d) /\ i \in collect[d].scope /\ collect[c].id < collect[d].id =>
                     Upto(collect[c].attemptGen[i], collect[d].attemptGen[i])
              /\ ~ledger[i].obs.current => \A a \in Attempts :
                   \/ collect[c].attemptGen[i][a] = ledger[i].attemptGen[a]
                   \/ ledger[i].obs.entries[a] = "none"
<1>1. collect \in [Collectors -> Capture] /\ collect[c] \in Capture
  BY DEF ReconciliationInv
<1>2. /\ collect[c].gen[i] \in Nat /\ collect[c].attemptGen[i] \in Gens
      /\ collect[c].seen[i] \in Reading
  BY <1>1 DEF Capture
<1>3. Pending(c, i) => Collecting(c) /\ i \in collect[c].scope
  BY DEF Pending, Collecting
<1>4. Pending(c, i) => /\ Plain(collect[c].seen[i], ledger[i], github[i])
                       /\ Match(c, i) /\ collect[c].id > applied[i] =>
                            Sound(collect[c].seen[i], ledger[i])
  BY DEF ReconciliationInv, ReadingInv
<1>5. Collecting(c) => collect[c].id \in 1..cycleID
  BY DEF ReconciliationInv, IdInv
<1>. QED  BY <1>1, <1>2, <1>3, <1>4, <1>5 DEF ReconciliationInv, GenInv

\* A collection begins.
LEMMA BeginKeeps ==
  ASSUME ReconciliationAssumption, ReconciliationInv, NEW c \in Collectors, Begin(c)
  PROVE  ReconciliationInv'
<1>1. PICK S \in SUBSET Issues :
        /\ c = Cycle => S = Issues
        /\ collect' = [collect EXCEPT ![c] =
             [Idle EXCEPT !.phase = "read", !.id = cycleID', !.scope = S,
                !.gen = [i \in Issues |-> IF i \in S THEN ledger[i].gen ELSE 0],
                !.attemptGen = [i \in Issues |->
                  IF i \in S THEN ledger[i].attemptGen ELSE Idle.attemptGen[i]]]]
  <2>1. PICK S \in IF c = Cycle THEN {Issues} ELSE {{i} : i \in Issues} :
          collect' = [collect EXCEPT ![c] =
            [Idle EXCEPT !.phase = "read", !.id = cycleID', !.scope = S,
               !.gen = [i \in Issues |-> IF i \in S THEN ledger[i].gen ELSE 0],
               !.attemptGen = [i \in Issues |->
                 IF i \in S THEN ledger[i].attemptGen ELSE Idle.attemptGen[i]]]]
    BY DEF Begin
  <2>2. S \in SUBSET Issues /\ (c = Cycle => S = Issues)
    OBVIOUS
  <2>. QED  BY <2>1, <2>2
<1>2. /\ cycleID \in Nat /\ cycleID' = cycleID + 1 /\ cycleID' \in 0..MaxCycles
      /\ ledger \in [Issues -> Ledger]
  BY Types DEF ReconciliationInv, Begin, ReconciliationAssumption
<1>. DEFINE x == collect'[c]
            r == [i \in Issues |-> IF i \in S THEN ledger[i].gen ELSE 0]
            q == [i \in Issues |-> IF i \in S THEN ledger[i].attemptGen ELSE Idle.attemptGen[i]]
            y == [Idle EXCEPT !.phase = "read", !.id = cycleID', !.scope = S,
                              !.gen = r, !.attemptGen = q]
<1>3. r \in [Issues -> Nat] /\ q \in [Issues -> Gens]
  <2>1. \A i \in Issues : ledger[i].gen \in Nat /\ ledger[i].attemptGen \in Gens
                          /\ Idle.attemptGen[i] \in Gens
    BY <1>2 DEF Ledger, Idle, Gens
  <2>. QED  BY <2>1
<1>4. Idle.seen \in [Issues -> Reading] /\ \A i \in Issues : ~Idle.seen[i].listed
  <2>1. Unlisted \in Reading
    BY DEF Unlisted, Reading, NoFact, Facts, Nothing, Remote, Attempts,
           ReconciliationAssumption
  <2>. QED  BY <2>1 DEF Idle, Unlisted
<1>5. /\ \A i \in S : r[i] = ledger[i].gen /\ q[i] = ledger[i].attemptGen
      /\ cycleID' \in Nat
  BY <1>2
<1>. HIDE DEF r, q
<1>6. /\ y.phase = "read" /\ y.id = cycleID' /\ y.scope = S /\ y.gen = r
      /\ y.attemptGen = q /\ y.seen = Idle.seen
  BY DEF Idle
<1>7. y \in Capture
  <2>1. Idle \in Capture
    BY <1>4 DEF Idle, Capture, Phases, Gens
  <2>2. "read" \in Phases
    BY DEF Phases
  <2>. QED  BY <1>3, <1>5, <2>1, <2>2 DEF Capture
<1>8. collect' = [collect EXCEPT ![c] = y]
  BY <1>1 DEF r, q
<1>. HIDE DEF y
<1>9. /\ collect \in [Collectors -> Capture] /\ Cycle \in Collectors
      /\ Operators \subseteq Collectors
  BY DEF ReconciliationInv, Collectors
<1>10. /\ collect' \in [Collectors -> Capture] /\ collect'[c] = y
       /\ \A d \in Collectors : d # c => collect'[d] = collect[d]
  BY <1>7, <1>8, <1>9
<1>11. UNCHANGED <<ledger, github, applied, newest, bounds>> /\ collect[c].phase = "idle"
  BY DEF Begin
<1>12. ASSUME NEW d \in Collectors, d # c
       PROVE  /\ collect'[d] = collect[d] /\ (Collecting(d)' <=> Collecting(d))
              /\ Collecting(d) => collect[d].id \in 1..cycleID
  BY <1>10, <1>12 DEF Collecting, ReconciliationInv, IdInv
<1>13. Collecting(c)' /\ \A i \in Issues : ~Pending(c, i)'
  BY <1>6, <1>10 DEF Collecting, Pending
<1>14. TypeOK' /\ (collect \in [Collectors -> Capture])'
  <2>1. \A d \in Collectors : collect'[d].phase \in Phases
    BY <1>10 DEF Capture
  <2>. QED  BY <1>2, <1>10, <1>11, <2>1 DEF ReconciliationInv, TypeOK
<1>15. IssueInv'
  BY <1>11 DEF ReconciliationInv, IssueInv
<1>16. ReadingInv'
  <2>. SUFFICES ASSUME NEW i \in Issues
                PROVE  /\ Plain(newest[i].seen, ledger[i], github[i])
                       /\ Observed(ledger[i]) => Sound(newest[i].seen, ledger[i])
                       /\ \A d \in Collectors : Pending(d, i)' =>
                            /\ Plain(collect'[d].seen[i], ledger[i], github[i])
                            /\ Match(d, i)' /\ collect'[d].id > applied[i] =>
                                 Sound(collect'[d].seen[i], ledger[i])
    BY <1>11 DEF ReadingInv
  <2>1. ASSUME NEW d \in Collectors, Pending(d, i)'
        PROVE  d # c /\ Pending(d, i) /\ collect'[d] = collect[d]
    BY <1>10, <1>13, <2>1 DEF Pending
  <2>. QED  BY <1>11, <2>1 DEF ReconciliationInv, ReadingInv, Match
<1>17. IdInv'
  <2>1. \A i \in Issues : applied'[i] = newest'[i].id /\ applied'[i] <= cycleID'
    <3>1. applied \in [Issues -> 0..MaxCycles]
      BY Types DEF ReconciliationInv
    <3>. QED  BY <1>2, <1>11, <3>1 DEF ReconciliationInv, IdInv
  <2>2. \A d \in Collectors : Collecting(d)' => collect'[d].id \in 1..cycleID'
    BY <1>2, <1>6, <1>10, <1>12
  <2>3. \A d, e \in Collectors :
          Collecting(d)' /\ Collecting(e)' /\ d # e => collect'[d].id # collect'[e].id
    <3>1. \A d \in Collectors : d # c /\ Collecting(d)' => collect'[d].id < y.id
      BY <1>2, <1>6, <1>12
    <3>2. \A d \in Collectors : d # c /\ Collecting(d)' => collect'[d].id # y.id
      BY <3>1, <1>2, <1>6, <1>12
    <3>. QED  BY <1>10, <1>12, <3>2 DEF ReconciliationInv, IdInv
  <2>4. \A d \in Operators : collect'[d].phase \in {"idle", "read", "apply"}
    BY <1>6, <1>9, <1>10 DEF ReconciliationInv, IdInv
  <2>5. \A d \in Collectors, i \in Issues :
          Collecting(d)' /\ i \notin collect'[d].scope => ~collect'[d].seen[i].listed
    BY <1>4, <1>6, <1>10, <1>12 DEF ReconciliationInv, IdInv
  <2>. QED  BY <2>1, <2>2, <2>3, <2>4, <2>5 DEF IdInv
<1>18. GenInv'
  <2>. SUFFICES ASSUME NEW i \in Issues
                PROVE  /\ Upto(newest[i].attemptGen, ledger[i].attemptGen)
                       /\ \A d \in Collectors : Collecting(d)' /\ i \in collect'[d].scope =>
                            /\ collect'[d].gen[i] <= ledger[i].gen
                            /\ Upto(collect'[d].attemptGen[i], ledger[i].attemptGen)
                            /\ collect'[d].id > newest[i].id =>
                                 Upto(newest[i].attemptGen, collect'[d].attemptGen[i])
                            /\ \A e \in Collectors :
                                 Collecting(e)' /\ i \in collect'[e].scope
                                 /\ collect'[d].id < collect'[e].id =>
                                   Upto(collect'[d].attemptGen[i], collect'[e].attemptGen[i])
                            /\ ~ledger[i].obs.current => \A a \in Attempts :
                                 \/ collect'[d].attemptGen[i][a] = ledger[i].attemptGen[a]
                                 \/ ledger[i].obs.entries[a] = "none"
    BY <1>11 DEF GenInv
  <2>0. Upto(newest[i].attemptGen, ledger[i].attemptGen)
    BY Known
  <2>1. ASSUME NEW d \in Collectors, Collecting(d)', i \in collect'[d].scope, d = c
        PROVE  /\ collect'[d].gen[i] = ledger[i].gen
               /\ collect'[d].attemptGen[i] = ledger[i].attemptGen
               /\ \A e \in Collectors : Collecting(e)' => ~(collect'[d].id < collect'[e].id)
    BY <1>2, <1>5, <1>6, <1>10, <1>12, <2>1
  <2>2. ledger[i].gen \in Nat /\ \A a \in Attempts : ledger[i].attemptGen[a] \in Nat
    BY <1>2 DEF Ledger, Gens
  <2>3. Upto(ledger[i].attemptGen, ledger[i].attemptGen)
    BY <2>2 DEF Upto
  <2>4. ASSUME NEW d \in Collectors, Collecting(d)', i \in collect'[d].scope, d # c
        PROVE  /\ collect'[d] = collect[d] /\ Collecting(d) /\ i \in collect[d].scope
               /\ Upto(collect[d].attemptGen[i], ledger[i].attemptGen)
    BY <1>12, <2>4, KnownOf
  <2>5. ASSUME NEW d \in Collectors, Collecting(d)', i \in collect'[d].scope, d # c,
               NEW e \in Collectors, Collecting(e)', i \in collect'[e].scope,
               collect'[d].id < collect'[e].id
        PROVE  Upto(collect'[d].attemptGen[i], collect'[e].attemptGen[i])
    <3>1. CASE e = c
      BY <1>5, <1>6, <1>10, <2>4, <2>5, <3>1
    <3>2. CASE e # c
      <4>1. collect'[e] = collect[e] /\ Collecting(e) /\ i \in collect[e].scope
        BY <2>4, <2>5, <3>2
      <4>2. collect'[d] = collect[d] /\ Collecting(d) /\ i \in collect[d].scope
        BY <2>4, <2>5
      <4>. QED  BY <2>5, <4>1, <4>2, KnownOf
    <3>. QED  BY <3>1, <3>2
  <2>6. ASSUME NEW d \in Collectors, Collecting(d)', i \in collect'[d].scope
        PROVE  /\ collect'[d].gen[i] <= ledger[i].gen
               /\ Upto(collect'[d].attemptGen[i], ledger[i].attemptGen)
               /\ collect'[d].id > newest[i].id =>
                    Upto(newest[i].attemptGen, collect'[d].attemptGen[i])
               /\ ~ledger[i].obs.current => \A a \in Attempts :
                    \/ collect'[d].attemptGen[i][a] = ledger[i].attemptGen[a]
                    \/ ledger[i].obs.entries[a] = "none"
    <3>1. CASE d = c
      BY <2>0, <2>1, <2>2, <2>3, <2>6, <3>1
    <3>2. CASE d # c
      <4>1. collect'[d] = collect[d] /\ Collecting(d) /\ i \in collect[d].scope
        BY <2>4, <2>6, <3>2
      <4>. QED  BY <4>1, KnownOf
    <3>. QED  BY <3>1, <3>2
  <2>7. ASSUME NEW d \in Collectors, Collecting(d)', i \in collect'[d].scope,
               NEW e \in Collectors, Collecting(e)', i \in collect'[e].scope,
               collect'[d].id < collect'[e].id
        PROVE  Upto(collect'[d].attemptGen[i], collect'[e].attemptGen[i])
    BY <2>1, <2>5, <2>7
  <2>. QED  BY <2>0, <2>6, <2>7
<1>19. CycleInv'
  <2>. SUFFICES ASSUME NEW i \in Issues
                PROVE  CycleOf(i)'
    BY DEF CycleInv
  <2>1. CycleOf(i)
    BY DEF ReconciliationInv, CycleInv
  <2>2. ASSUME NEW d \in Collectors, Pending(d, i)'
        PROVE  /\ d # c /\ Pending(d, i) /\ collect'[d] = collect[d]
               /\ Collecting(d) /\ collect[d].id \in 1..cycleID
    BY <1>10, <1>12, <1>13, <2>2 DEF Pending, Collecting
  <2>3. CASE c = Cycle
    <3>1. /\ i \in collect'[Cycle].scope /\ collect'[Cycle].gen[i] = ledger[i].gen
          /\ collect'[Cycle].phase = "read" /\ collect'[Cycle].id = cycleID + 1
      BY <1>1, <1>2, <1>5, <1>6, <1>10, <2>3
    <3>2. newest[i].id \in Nat /\ newest[i].id <= cycleID
      BY Known DEF ReconciliationInv, IdInv, Newest
    <3>3. ~(newest[i].id >= collect'[Cycle].id)
      BY <1>2, <3>1, <3>2
    <3>4. \A d \in Collectors : Pending(d, i)' => ~(collect'[d].id >= collect'[Cycle].id)
      BY <1>2, <2>2, <3>1
    <3>. QED  BY <1>11, <3>1, <3>3, <3>4 DEF CycleOf, matches
  <2>4. CASE c # Cycle
    <3>1. collect'[Cycle] = collect[Cycle] /\ (Collecting(Cycle)' <=> Collecting(Cycle))
      BY <1>9, <1>12, <2>4
    <3>. QED  BY <1>11, <2>1, <2>2, <3>1 DEF CycleOf, matches, Fresh, Match
  <2>. QED  BY <2>3, <2>4
<1>. QED  BY <1>14, <1>15, <1>16, <1>17, <1>18, <1>19 DEF ReconciliationInv

\* A collection reads GitHub.
LEMMA ReadKeeps ==
  ASSUME ReconciliationAssumption, ReconciliationInv, NEW c \in Collectors, Read(c)
  PROVE  ReconciliationInv'
<1>. DEFINE x == collect[c]
            r == [i \in Issues |-> IF i \in x.scope THEN reads(github[i]) ELSE Unlisted]
            y == [x EXCEPT !.phase = "apply", !.seen = r]
<1>1. /\ collect' = [collect EXCEPT ![c] = y] /\ x.phase = "read"
      /\ UNCHANGED <<ledger, github, cycleID, applied, newest, bounds>>
  BY DEF Read
<1>2. /\ collect \in [Collectors -> Capture] /\ x \in Capture /\ Cycle \in Collectors
      /\ github \in [Issues -> Github]
  BY Types DEF ReconciliationInv, Collectors
<1>3. Unlisted \in Reading /\ ~Unlisted.listed
  BY DEF Unlisted, Reading, NoFact, Facts, Nothing, Remote, Attempts,
         ReconciliationAssumption
<1>4. r \in [Issues -> Reading]
  <2>1. \A i \in Issues : reads(github[i]) \in Reading
    BY <1>2, ReadsParts
  <2>. QED  BY <1>3, <2>1
<1>5. /\ \A i \in Issues : i \in x.scope => r[i] = reads(github[i])
      /\ \A i \in Issues : i \notin x.scope => ~r[i].listed
  BY <1>3
<1>. HIDE DEF r, x
<1>6. /\ y \in Capture /\ y.phase = "apply" /\ y.id = x.id /\ y.scope = x.scope
      /\ y.gen = x.gen /\ y.attemptGen = x.attemptGen /\ y.seen = r
  <2>1. "apply" \in Phases
    BY DEF Phases
  <2>. QED  BY <1>2, <1>4, <2>1 DEF Capture
<1>. HIDE DEF y
<1>7. /\ collect' \in [Collectors -> Capture] /\ collect'[c] = y
      /\ \A d \in Collectors : d # c => collect'[d] = collect[d]
  BY <1>1, <1>2, <1>6
<1>8. \A d \in Collectors :
        /\ Collecting(d)' <=> Collecting(d)
        /\ collect'[d].id = collect[d].id /\ collect'[d].scope = collect[d].scope
        /\ collect'[d].gen = collect[d].gen /\ collect'[d].attemptGen = collect[d].attemptGen
        /\ d # c => collect'[d] = collect[d]
  BY <1>1, <1>6, <1>7 DEF Collecting, x
<1>9. ASSUME NEW i \in Issues, i \in x.scope
      PROVE  /\ Plain(r[i], ledger[i], github[i]) /\ Sound(r[i], ledger[i])
             /\ Fresh(r[i], i)
  BY <1>5, <1>9, Known, ReadsPlain, ReadsSound DEF Fresh
<1>10. ASSUME NEW d \in Collectors, NEW i \in Issues, Pending(d, i)'
       PROVE  \/ d = c /\ collect'[d].seen[i] = r[i] /\ i \in x.scope
              \/ collect'[d] = collect[d] /\ Pending(d, i)
  BY <1>6, <1>7, <1>10 DEF Pending
<1>11. TypeOK' /\ (collect \in [Collectors -> Capture])'
  <2>1. \A d \in Collectors : collect'[d].phase \in Phases
    BY <1>7 DEF Capture
  <2>. QED  BY <1>1, <1>7, <2>1 DEF ReconciliationInv, TypeOK
<1>12. IssueInv'
  BY <1>1 DEF ReconciliationInv, IssueInv
<1>13. ReadingInv'
  <2>. SUFFICES ASSUME NEW i \in Issues
                PROVE  /\ Plain(newest[i].seen, ledger[i], github[i])
                       /\ Observed(ledger[i]) => Sound(newest[i].seen, ledger[i])
                       /\ \A d \in Collectors : Pending(d, i)' =>
                            /\ Plain(collect'[d].seen[i], ledger[i], github[i])
                            /\ Match(d, i)' /\ collect'[d].id > applied[i] =>
                                 Sound(collect'[d].seen[i], ledger[i])
    BY <1>1 DEF ReadingInv
  <2>1. ASSUME NEW d \in Collectors, Pending(d, i)'
        PROVE  /\ Plain(collect'[d].seen[i], ledger[i], github[i])
               /\ Match(d, i)' /\ collect'[d].id > applied[i] =>
                    Sound(collect'[d].seen[i], ledger[i])
    <3>1. CASE d = c /\ collect'[d].seen[i] = r[i] /\ i \in x.scope
      BY <1>9, <3>1
    <3>2. CASE collect'[d] = collect[d] /\ Pending(d, i)
      <4>1. Match(d, i)' <=> Match(d, i)
        BY <1>1, <3>2 DEF Match
      <4>. QED  BY <3>2, <4>1 DEF ReconciliationInv, ReadingInv
    <3>. QED  BY <1>10, <2>1, <3>1, <3>2
  <2>. QED  BY <2>1, Known
<1>14. IdInv'
  <2>1. \A i \in Issues : applied'[i] = newest'[i].id /\ applied'[i] <= cycleID'
    BY <1>1 DEF ReconciliationInv, IdInv
  <2>2. \A d \in Collectors : Collecting(d)' => collect'[d].id \in 1..cycleID'
    BY <1>1, <1>8 DEF ReconciliationInv, IdInv
  <2>3. \A d, e \in Collectors :
          Collecting(d)' /\ Collecting(e)' /\ d # e => collect'[d].id # collect'[e].id
    BY <1>8 DEF ReconciliationInv, IdInv
  <2>4. \A d \in Operators : collect'[d].phase \in {"idle", "read", "apply"}
    BY <1>6, <1>7 DEF ReconciliationInv, IdInv, Collectors
  <2>5. \A d \in Collectors, i \in Issues :
          Collecting(d)' /\ i \notin collect'[d].scope => ~collect'[d].seen[i].listed
    BY <1>5, <1>6, <1>7, <1>8 DEF ReconciliationInv, IdInv
  <2>. QED  BY <2>1, <2>2, <2>3, <2>4, <2>5 DEF IdInv
<1>15. GenInv'
  BY <1>1, <1>8 DEF ReconciliationInv, GenInv
<1>16. CycleInv'
  <2>. SUFFICES ASSUME NEW i \in Issues
                PROVE  CycleOf(i)'
    BY DEF CycleInv
  <2>1. CycleOf(i)
    BY DEF ReconciliationInv, CycleInv
  <2>2. ASSUME Collecting(Cycle)'
        PROVE  /\ i \in collect'[Cycle].scope /\ matches(collect[Cycle], i)'
               /\ newest'[i].id >= collect'[Cycle].id => Fresh(newest[i].seen, i)'
               /\ \A d \in Collectors :
                    Pending(d, i)' /\ collect'[d].id >= collect'[Cycle].id =>
                      Fresh(collect[d].seen[i], i)'
    <3>1. /\ i \in collect[Cycle].scope /\ matches(collect[Cycle], i)
          /\ newest[i].id >= collect[Cycle].id => Fresh(newest[i].seen, i)
          /\ \A d \in Collectors : Pending(d, i) /\ collect[d].id >= collect[Cycle].id =>
               Fresh(collect[d].seen[i], i)
      BY <1>2, <1>8, <2>1, <2>2 DEF CycleOf
    <3>2. matches(collect[Cycle], i)'
      BY <1>1, <1>2, <1>8, <3>1 DEF matches
    <3>3. \A d \in Collectors : Pending(d, i)' /\ collect'[d].id >= collect'[Cycle].id =>
            Fresh(collect[d].seen[i], i)'
      BY <1>1, <1>2, <1>8, <1>9, <1>10, <3>1 DEF Fresh
    <3>. QED  BY <1>1, <1>2, <1>8, <3>1, <3>2, <3>3 DEF Fresh
  <2>3. ASSUME collect'[Cycle].phase \in {"prepare", "bind", "start"},
               i \in collect'[Cycle].scope
        PROVE  /\ Observed(ledger'[i]) => Fresh(newest[i].seen, i)'
               /\ \A d \in Collectors : Pending(d, i)' /\ collect'[d].id > applied'[i] =>
                    /\ FreshWork(collect'[d].seen[i], github'[i])
                    /\ Match(d, i)' => FreshBind(collect'[d].seen[i], ledger'[i], github'[i])
    <3>1. c # Cycle /\ collect'[Cycle] = collect[Cycle]
      BY <1>2, <1>6, <1>7, <2>3
    <3>2. /\ Observed(ledger[i]) => Fresh(newest[i].seen, i)
          /\ \A d \in Collectors : Pending(d, i) /\ collect[d].id > applied[i] =>
               /\ FreshWork(collect[d].seen[i], github[i])
               /\ Match(d, i) => FreshBind(collect[d].seen[i], ledger[i], github[i])
      BY <2>1, <2>3, <3>1 DEF CycleOf
    <3>. QED  BY <1>1, <1>9, <1>10, <3>2 DEF Fresh, Match
  <2>. QED  BY <2>2, <2>3 DEF CycleOf
<1>. QED  BY <1>11, <1>12, <1>13, <1>14, <1>15, <1>16 DEF ReconciliationInv

\* A daemon starts: nothing of the collections is left.
LEMMA RestartStep ==
  ASSUME ReconciliationAssumption, ReconciliationInv, Restart
  PROVE  ReconciliationInv'
<1>1. /\ cycleID' = 0 /\ applied' = [i \in Issues |-> 0]
      /\ collect' = [c \in Collectors |-> Idle]
      /\ newest' = [i \in Issues |->
           [id |-> 0, attemptGen |-> [a \in Attempts |-> 0], seen |-> Unlisted]]
      /\ ledger' = [i \in Issues |-> [ledger[i] EXCEPT !.obs.current = FALSE]]
      /\ github' = github
  BY DEF Restart
<1>2. Unlisted \in Reading
  BY DEF Unlisted, Reading, NoFact, Facts, Nothing, Remote, Attempts,
         ReconciliationAssumption
<1>3. Idle \in Capture
  BY <1>2 DEF Idle, Capture, Phases, Gens
<1>4. /\ newest' \in [Issues -> Newest]
      /\ \A i \in Issues : /\ newest'[i].id = 0 /\ newest'[i].seen = Unlisted
                           /\ \A a \in Attempts : newest'[i].attemptGen[a] = 0
  BY <1>1, <1>2 DEF Newest, Gens, ReconciliationAssumption
<1>5. /\ collect' \in [Collectors -> Capture]
      /\ \A c \in Collectors : collect'[c].phase = "idle"
  BY <1>1, <1>3 DEF Idle
<1>6. ASSUME NEW i \in Issues
      PROVE  /\ ledger'[i] \in Ledger /\ OwnOf(ledger'[i]) /\ GithubOf(ledger'[i], github[i])
             /\ HoldsNewest(ledger'[i], newest'[i]) /\ ~ledger'[i].obs.current
  BY <1>1, Known, RestartKeeps
<1>7. TypeOK' /\ (collect \in [Collectors -> Capture])'
  <2>1. ledger' \in [Issues -> Ledger]
    BY <1>1, <1>6
  <2>2. bounds' \in [edits : 0..MaxEdits, boots : 1..MaxBoots]
    <3>1. bounds \in [edits : 0..MaxEdits, boots : 1..MaxBoots] /\ MaxBoots \in Nat
      BY Types DEF ReconciliationInv, ReconciliationAssumption
    <3>. QED  BY <3>1 DEF Restart
  <2>3. cycleID' \in 0..MaxCycles /\ applied' \in [Issues -> 0..MaxCycles]
    BY <1>1 DEF ReconciliationAssumption
  <2>4. github' \in [Issues -> Github]
    BY <1>1, Types DEF ReconciliationInv
  <2>. QED
    BY <1>4, <1>5, <2>1, <2>2, <2>3, <2>4
    DEF TypeOK, Ledger, Github, Newest, Reading, Gens, Holds, States, Phases
<1>8. IssueInv'
  BY <1>1, <1>6 DEF IssueInv
<1>9. ReadingInv'
  <2>1. ASSUME NEW i \in Issues
        PROVE  Plain(Unlisted, ledger'[i], github'[i])
    BY DEF Plain, Unlisted, NoFact, Nothing, Attempts
  <2>. QED  BY <1>4, <1>5, <1>6, <2>1 DEF ReadingInv, Observed, Pending
<1>10. IdInv'
  <2>1. \A c \in Collectors : ~Collecting(c)'
    BY <1>5 DEF Collecting
  <2>2. \A i \in Issues : applied'[i] = newest'[i].id /\ applied'[i] <= cycleID'
    BY <1>1, <1>4
  <2>. QED  BY <1>5, <2>1, <2>2 DEF IdInv, Collectors
<1>11. GenInv'
  <2>1. \A i \in Issues, a \in Attempts : ledger'[i].attemptGen[a] \in Nat
    BY <1>6 DEF Ledger, Gens
  <2>2. \A i \in Issues : Upto(newest'[i].attemptGen, ledger'[i].attemptGen)
    BY <1>4, <2>1 DEF Upto
  <2>. QED  BY <1>5, <2>2 DEF GenInv, Collecting
<1>12. CycleInv'
  BY <1>5 DEF CycleInv, CycleOf, Collecting, Collectors
<1>. QED  BY <1>7, <1>8, <1>9, <1>10, <1>11, <1>12 DEF ReconciliationInv

-----------------------------------------------------------------------------
(* Applying *)

\* What an accepted collection has read of an issue.
taken(c, i) == [id |-> collect[c].id, attemptGen |-> collect[c].attemptGen[i],
                seen |-> collect[c].seen[i]]

\* What an accepted collection does to an issue.
LEMMA AcceptedStep ==
  ASSUME ReconciliationAssumption, ReconciliationInv, NEW c \in Collectors,
         collect[c].phase = "apply", NEW i \in accepted(c)
  PROVE  /\ i \in Issues /\ taken(c, i) \in Newest
         /\ Pending(c, i) /\ matches(collect[c], i) /\ collect[c].id > applied[i]
         /\ result(c, i) \in Ledger /\ OwnOf(result(c, i))
         /\ GithubOf(result(c, i), github[i]) /\ HoldsNewest(result(c, i), taken(c, i))
         /\ result(c, i).attemptGen = ledger[i].attemptGen
         /\ live(result(c, i)) = live(ledger[i])
         /\ working(result(c, i)) = working(ledger[i])
         /\ result(c, i).obs.known /\ result(c, i).obs.current
         /\ \/ result(c, i).gen = ledger[i].gen
            \/ result(c, i).gen = 1 /\ ledger[i].gen = 0 /\ live(ledger[i]) = {}
         /\ Plain(taken(c, i).seen, result(c, i), github[i])
         /\ Sound(taken(c, i).seen, ledger[i])
<1>. DEFINE L == ledger[i]  M == result(c, i)  g == github[i]  n == newest[i]
            k == taken(c, i)
<1>1. /\ i \in Issues /\ i \in collect[c].scope /\ matches(collect[c], i)
      /\ collect[c].id > applied[i]
  BY DEF accepted, concerns
<1>2. Pending(c, i) /\ Collecting(c)
  BY <1>1 DEF Pending, Collecting
<1>3. /\ L \in Ledger /\ g \in Github /\ n \in Newest /\ OwnOf(L) /\ GithubOf(L, g)
      /\ HoldsNewest(L, n) /\ cycleID \in Nat /\ cycleID <= MaxCycles
  <2>1. cycleID \in 0..MaxCycles /\ MaxCycles \in Nat
    BY Types DEF ReconciliationInv, ReconciliationAssumption
  <2>. QED  BY <1>1, <2>1, Known
<1>4. /\ collect[c].attemptGen[i] \in Gens /\ collect[c].seen[i] \in Reading
      /\ Plain(collect[c].seen[i], L, g) /\ collect[c].id \in 1..cycleID
      /\ Upto(collect[c].attemptGen[i], L.attemptGen)
      /\ collect[c].id > n.id => Upto(n.attemptGen, collect[c].attemptGen[i])
      /\ ~L.obs.current => \A a \in Attempts :
           \/ collect[c].attemptGen[i][a] = L.attemptGen[a]
           \/ L.obs.entries[a] = "none"
      /\ Match(c, i) /\ collect[c].id > applied[i] => Sound(collect[c].seen[i], L)
  BY <1>1, <1>2, KnownOf
<1>5. applied[i] = n.id
  BY <1>1 DEF ReconciliationInv, IdInv
<1>6. k \in Newest
  BY <1>3, <1>4 DEF Newest, taken
<1>7. /\ k.attemptGen = collect[c].attemptGen[i] /\ k.seen = collect[c].seen[i]
      /\ M = reduced(L, k.seen, k.attemptGen)
  BY DEF result, taken
<1>. HIDE DEF L, g, n, k, M
<1>8. /\ Plain(k.seen, L, g) /\ Upto(n.attemptGen, k.attemptGen)
      /\ Upto(k.attemptGen, L.attemptGen)
      /\ ~L.obs.current => \A a \in Attempts : \/ k.attemptGen[a] = L.attemptGen[a]
                                               \/ L.obs.entries[a] = "none"
  BY <1>1, <1>4, <1>5, <1>7
<1>9. /\ M \in Ledger /\ OwnOf(M) /\ GithubOf(M, g) /\ HoldsNewest(M, k)
      /\ M.gen = (IF L.gen = 0 /\ k.seen.listed THEN 1 ELSE L.gen)
      /\ M.attemptGen = L.attemptGen /\ M.attempts = L.attempts
      /\ M.obs.known /\ M.obs.current
  BY <1>3, <1>6, <1>7, <1>8, ReducedKeeps
<1>10. live(M) = live(L) /\ working(M) = working(L)
  BY <1>9 DEF live, working
<1>11. L.gen = 0 => live(L) = {}
  BY <1>3 DEF OwnOf, live
<1>12. \A a \in Attempts : L.attemptGen[a] \in Nat
  BY <1>3 DEF Ledger, Gens
<1>13. Grows(L, M, g, g)
  BY <1>9, <1>12 DEF Grows, Upto
<1>14. k.seen \in Reading
  BY <1>6 DEF Newest
<1>15. Plain(k.seen, M, g)
  BY <1>3, <1>8, <1>9, <1>13, <1>14, PlainGrows
<1>16. Sound(k.seen, L)
  <2>1. Match(c, i) \/ live(L) = {}
    BY <1>1, MatchesOrIdle DEF L
  <2>2. live(L) = {} => Sound(k.seen, L)
    BY DEF Sound
  <2>. QED  BY <1>1, <1>4, <1>7, <2>1, <2>2
<1>. QED
  BY <1>1, <1>2, <1>6, <1>9, <1>10, <1>11, <1>15, <1>16 DEF L, M, g, k

\* The effect of an application, issue by issue.
ApplyOf(c, i) ==
  IF i \in accepted(c)
  THEN /\ ledger'[i] = result(c, i) /\ applied'[i] = collect[c].id
       /\ newest'[i] = taken(c, i)
  ELSE ledger'[i] = ledger[i] /\ applied'[i] = applied[i] /\ newest'[i] = newest[i]

LEMMA ApplyParts ==
  ASSUME ReconciliationAssumption, ReconciliationInv, NEW c \in Collectors, Apply(c)
  PROVE  /\ collect[c].phase = "apply" /\ Collecting(c) /\ ~Collecting(c)'
         /\ UNCHANGED <<github, cycleID, bounds>>
         /\ \A i \in Issues : ApplyOf(c, i)
         /\ ledger' = [i \in Issues |-> ledger'[i]] /\ newest' = [i \in Issues |-> newest'[i]]
         /\ applied' = [i \in Issues |-> applied'[i]]
         /\ collect' \in [Collectors -> Capture]
         /\ \A d \in Collectors : d # c => collect'[d] = collect[d]
         /\ c # Cycle => collect'[c].phase = "idle"
         /\ c = Cycle => /\ collect'[c].phase = "prepare"
                         /\ \A i \in collect'[c].scope :
                              i \in Issues /\ collect[c].seen[i].listed
<1>. DEFINE S == {i \in Issues : collect[c].seen[i].listed}
            y == IF c = Cycle THEN [Idle EXCEPT !.phase = "prepare", !.scope = S] ELSE Idle
<1>1. /\ collect[c].phase = "apply" /\ UNCHANGED <<github, cycleID, bounds>>
      /\ collect' = [collect EXCEPT ![c] = y]
      /\ ledger' = [i \in Issues |-> IF i \in accepted(c) THEN result(c, i) ELSE ledger[i]]
      /\ applied' = [i \in Issues |-> IF i \in recorded(c) THEN collect[c].id ELSE applied[i]]
      /\ newest' = [i \in Issues |->
           IF concerns(c, i) /\ matches(collect[c], i) /\ collect[c].id > newest[i].id
           THEN [id |-> collect[c].id, attemptGen |-> collect[c].attemptGen[i],
                 seen |-> collect[c].seen[i]]
           ELSE newest[i]]
  BY DEF Apply
<1>2. Idle \in Capture /\ Idle.phase = "idle"
  <2>1. Unlisted \in Reading
    BY DEF Unlisted, Reading, NoFact, Facts, Nothing, Remote, Attempts,
           ReconciliationAssumption
  <2>. QED  BY <2>1 DEF Idle, Capture, Phases, Gens
<1>3. y \in Capture /\ (c # Cycle => y.phase = "idle")
      /\ (c = Cycle => y.phase = "prepare" /\ y.scope = S)
  <2>1. "prepare" \in Phases
    BY DEF Phases
  <2>2. [Idle EXCEPT !.phase = "prepare", !.scope = S] \in Capture
    BY <1>2, <2>1 DEF Capture
  <2>3. /\ [Idle EXCEPT !.phase = "prepare", !.scope = S].phase = "prepare"
        /\ [Idle EXCEPT !.phase = "prepare", !.scope = S].scope = S
    BY <1>2 DEF Capture
  <2>. QED  BY <1>2, <2>2, <2>3
<1>4. collect \in [Collectors -> Capture]
  BY DEF ReconciliationInv
<1>5. \A i \in S : i \in Issues /\ collect[c].seen[i].listed
  OBVIOUS
<1>. HIDE DEF y, S
<1>6. /\ collect' \in [Collectors -> Capture] /\ collect'[c] = y
      /\ \A d \in Collectors : d # c => collect'[d] = collect[d]
  BY <1>1, <1>3, <1>4
<1>7. ASSUME NEW i \in Issues
      PROVE  ApplyOf(c, i)
  <2>1. applied[i] = newest[i].id
    BY DEF ReconciliationInv, IdInv
  <2>2. i \in accepted(c) <=>
          concerns(c, i) /\ matches(collect[c], i) /\ collect[c].id > newest[i].id
    BY <2>1 DEF accepted
  <2>. HIDE DEF accepted
  <2>3. CASE i \in accepted(c)
    BY <1>1, <2>2, <2>3 DEF ApplyOf, recorded, taken
  <2>4. CASE i \notin accepted(c)
    BY <1>1, <2>2, <2>4 DEF ApplyOf, recorded
  <2>. QED  BY <2>3, <2>4
<1>8. Collecting(c) /\ ~Collecting(c)'
  BY <1>1, <1>3, <1>6 DEF Collecting
<1>9. /\ ledger' = [i \in Issues |-> ledger'[i]] /\ newest' = [i \in Issues |-> newest'[i]]
      /\ applied' = [i \in Issues |-> applied'[i]]
  BY <1>1
<1>. QED  BY <1>1, <1>3, <1>5, <1>6, <1>7, <1>8, <1>9

\* A collection is applied.
LEMMA ApplyKeeps ==
  ASSUME ReconciliationAssumption, ReconciliationInv, NEW c \in Collectors, Apply(c)
  PROVE  ReconciliationInv'
<1>1. /\ collect[c].phase = "apply" /\ Collecting(c) /\ ~Collecting(c)'
      /\ UNCHANGED <<github, cycleID, bounds>>
      /\ \A i \in Issues : ApplyOf(c, i)
      /\ ledger' = [i \in Issues |-> ledger'[i]] /\ newest' = [i \in Issues |-> newest'[i]]
      /\ applied' = [i \in Issues |-> applied'[i]]
      /\ collect' \in [Collectors -> Capture]
      /\ \A d \in Collectors : d # c => collect'[d] = collect[d]
      /\ c # Cycle => collect'[c].phase = "idle"
      /\ c = Cycle => /\ collect'[c].phase = "prepare"
                      /\ \A i \in collect'[c].scope : i \in Issues /\ collect[c].seen[i].listed
  BY ApplyParts
<1>2. ASSUME NEW i \in accepted(c)
      PROVE  /\ i \in Issues /\ Pending(c, i) /\ matches(collect[c], i)
             /\ collect[c].id > applied[i] /\ applied'[i] = collect[c].id
             /\ newest'[i] \in Newest /\ newest'[i].id = collect[c].id
             /\ newest'[i].attemptGen = collect[c].attemptGen[i]
             /\ newest'[i].seen = collect[c].seen[i]
             /\ ledger'[i] \in Ledger /\ OwnOf(ledger'[i]) /\ GithubOf(ledger'[i], github[i])
             /\ HoldsNewest(ledger'[i], newest'[i])
             /\ ledger'[i].attemptGen = ledger[i].attemptGen
             /\ live(ledger'[i]) = live(ledger[i]) /\ working(ledger'[i]) = working(ledger[i])
             /\ ledger'[i].obs.known /\ ledger'[i].obs.current
             /\ \/ ledger'[i].gen = ledger[i].gen
                \/ ledger'[i].gen = 1 /\ ledger[i].gen = 0 /\ live(ledger[i]) = {}
             /\ Plain(newest'[i].seen, ledger'[i], github[i])
             /\ Sound(newest'[i].seen, ledger[i])
  <2>1. i \in Issues /\ collect[c].phase = "apply"
    BY <1>1, <1>2, AcceptedStep
  <2>2. ledger'[i] = result(c, i) /\ applied'[i] = collect[c].id /\ newest'[i] = taken(c, i)
    BY <1>1, <1>2, <2>1 DEF ApplyOf
  <2>3. /\ taken(c, i).id = collect[c].id /\ taken(c, i).seen = collect[c].seen[i]
        /\ taken(c, i).attemptGen = collect[c].attemptGen[i]
    BY DEF taken
  <2>4. /\ Pending(c, i) /\ matches(collect[c], i) /\ collect[c].id > applied[i]
        /\ newest'[i] \in Newest /\ ledger'[i] \in Ledger /\ OwnOf(ledger'[i])
        /\ GithubOf(ledger'[i], github[i]) /\ HoldsNewest(ledger'[i], newest'[i])
    BY <1>2, <2>1, <2>2, AcceptedStep
  <2>5. /\ ledger'[i].attemptGen = ledger[i].attemptGen
        /\ live(ledger'[i]) = live(ledger[i]) /\ working(ledger'[i]) = working(ledger[i])
        /\ ledger'[i].obs.known /\ ledger'[i].obs.current
        /\ \/ ledger'[i].gen = ledger[i].gen
           \/ ledger'[i].gen = 1 /\ ledger[i].gen = 0 /\ live(ledger[i]) = {}
        /\ Plain(newest'[i].seen, ledger'[i], github[i])
        /\ Sound(newest'[i].seen, ledger[i])
    BY <1>2, <2>1, <2>2, AcceptedStep
  <2>. QED  BY <2>1, <2>2, <2>3, <2>4, <2>5
<1>3. ASSUME NEW i \in Issues, i \notin accepted(c)
      PROVE  ledger'[i] = ledger[i] /\ applied'[i] = applied[i] /\ newest'[i] = newest[i]
  BY <1>1, <1>3 DEF ApplyOf
<1>4. ASSUME NEW i \in Issues
      PROVE  /\ ledger'[i] \in Ledger /\ ledger[i] \in Ledger /\ newest'[i] \in Newest
             /\ applied'[i] \in 0..MaxCycles
             /\ ledger'[i].attemptGen = ledger[i].attemptGen
             /\ live(ledger'[i]) = live(ledger[i]) /\ working(ledger'[i]) = working(ledger[i])
             /\ ledger'[i].gen \in Nat /\ ledger[i].gen \in Nat
             /\ ledger[i].obs.known => ledger'[i].obs.known
             /\ \/ ledger'[i].gen = ledger[i].gen
                \/ /\ ledger'[i].gen = 1 /\ ledger[i].gen = 0 /\ live(ledger[i]) = {}
                   /\ ledger'[i].obs.known
             /\ applied[i] \in Nat /\ applied'[i] \in Nat /\ applied[i] <= applied'[i]
             /\ applied'[i] = newest'[i].id /\ applied[i] = newest[i].id
             /\ applied'[i] <= cycleID
  <2>1. /\ ledger[i] \in Ledger /\ newest[i] \in Newest /\ cycleID \in 0..MaxCycles
        /\ applied[i] \in 0..MaxCycles /\ MaxCycles \in Nat
        /\ applied[i] = newest[i].id /\ applied[i] <= cycleID
    BY Known, Types DEF ReconciliationInv, IdInv, ReconciliationAssumption
  <2>2. collect[c].id \in 1..cycleID
    BY <1>1, KnownOf
  <2>3. ledger[i].gen \in Nat
    BY <2>1 DEF Ledger
  <2>4. CASE i \in accepted(c)
    BY <1>2, <2>1, <2>2, <2>3, <2>4
  <2>5. CASE i \notin accepted(c)
    <3>1. ledger'[i] = ledger[i] /\ applied'[i] = applied[i] /\ newest'[i] = newest[i]
      BY <1>3, <2>5
    <3>2. applied[i] \in Nat /\ applied[i] <= applied[i]
      BY <2>1
    <3>. QED  BY <2>1, <2>3, <3>1, <3>2
  <2>. QED  BY <2>4, <2>5
<1>5. ASSUME NEW d \in Collectors
      PROVE  /\ Collecting(d)' => d # c /\ collect'[d] = collect[d] /\ Collecting(d)
             /\ \A i \in Issues : Pending(d, i)' =>
                  d # c /\ collect'[d] = collect[d] /\ Pending(d, i) /\ Collecting(d)
  BY <1>1 DEF Collecting, Pending
<1>6. ASSUME NEW d \in Collectors, NEW i \in Issues, Pending(d, i)', Match(d, i)'
      PROVE  Match(d, i) \/ live(ledger[i]) = {}
  <2>1. collect'[d].gen[i] = ledger'[i].gen /\ collect'[d] = collect[d]
    BY <1>5, <1>6 DEF Match
  <2>. QED  BY <1>4, <2>1 DEF Match
<1>7. TypeOK' /\ (collect \in [Collectors -> Capture])'
  <2>1. \A d \in Collectors : collect'[d].phase \in Phases
    BY <1>1 DEF Capture
  <2>2. ledger' \in [Issues -> Ledger] /\ newest' \in [Issues -> Newest]
    BY <1>1, <1>4
  <2>3. applied' \in [Issues -> 0..MaxCycles]
    BY <1>1, <1>4
  <2>4. /\ github' \in [Issues -> Github] /\ cycleID' \in 0..MaxCycles
        /\ bounds' \in [edits : 0..MaxEdits, boots : 1..MaxBoots]
    BY <1>1, Types DEF ReconciliationInv
  <2>. QED
    BY <1>1, <2>1, <2>2, <2>3, <2>4
    DEF TypeOK, Ledger, Github, Newest, Reading, Gens, Holds, States
<1>8. IssueInv'
  <2>. SUFFICES ASSUME NEW i \in Issues
                PROVE  OwnOf(ledger'[i]) /\ GithubOf(ledger'[i], github[i])
                       /\ HoldsNewest(ledger'[i], newest'[i])
    BY <1>1 DEF IssueInv
  <2>. QED  BY <1>2, <1>3, Known
<1>9. ReadingInv'
  <2>. SUFFICES ASSUME NEW i \in Issues
                PROVE  /\ Plain(newest'[i].seen, ledger'[i], github[i])
                       /\ Observed(ledger'[i]) => Sound(newest'[i].seen, ledger'[i])
                       /\ \A d \in Collectors : Pending(d, i)' =>
                            /\ Plain(collect'[d].seen[i], ledger'[i], github[i])
                            /\ Match(d, i)' /\ collect'[d].id > applied'[i] =>
                                 Sound(collect'[d].seen[i], ledger'[i])
    BY <1>1 DEF ReadingInv
  <2>1. \A s : Sound(s, ledger[i]) => Sound(s, ledger'[i])
    BY <1>4 DEF Sound
  <2>2. /\ Plain(newest'[i].seen, ledger'[i], github[i])
        /\ Observed(ledger'[i]) => Sound(newest'[i].seen, ledger'[i])
    <3>1. CASE i \in accepted(c)
      BY <1>2, <2>1, <3>1
    <3>2. CASE i \notin accepted(c)
      BY <1>3, <3>2, Known
    <3>. QED  BY <3>1, <3>2
  <2>3. ASSUME NEW d \in Collectors, Pending(d, i)'
        PROVE  /\ Plain(collect'[d].seen[i], ledger'[i], github[i])
               /\ Match(d, i)' /\ collect'[d].id > applied'[i] =>
                    Sound(collect'[d].seen[i], ledger'[i])
    <3>. DEFINE s == collect[d].seen[i]
    <3>1. collect'[d] = collect[d] /\ Pending(d, i) /\ collect[d].id \in Nat
      <4>1. collect'[d] = collect[d] /\ Pending(d, i)
        BY <1>5, <2>3
      <4>2. collect[d] \in Capture
        BY KnownOf
      <4>. QED  BY <4>1, <4>2 DEF Capture
    <3>2. /\ s \in Reading /\ Plain(s, ledger[i], github[i])
          /\ Match(d, i) /\ collect[d].id > applied[i] => Sound(s, ledger[i])
      BY <3>1, KnownOf
    <3>. HIDE DEF s
    <3>3. /\ ledger[i] \in Ledger /\ ledger'[i] \in Ledger /\ github[i] \in Github
          /\ \A a \in Attempts : ledger[i].attemptGen[a] \in Nat
          /\ ledger'[i].attemptGen = ledger[i].attemptGen
      BY <1>4, Known DEF Ledger, Gens
    <3>4. Grows(ledger[i], ledger'[i], github[i], github[i])
      BY <3>3 DEF Grows, Upto
    <3>5. Plain(s, ledger'[i], github[i])
      BY <3>2, <3>3, <3>4, PlainGrows
    <3>6. ASSUME Match(d, i)', collect'[d].id > applied'[i]
          PROVE  Sound(s, ledger'[i])
      <4>1. collect[d].id > applied[i]
        BY <1>4, <3>1, <3>6
      <4>2. CASE Match(d, i)
        BY <2>1, <3>2, <4>1, <4>2
      <4>3. CASE live(ledger[i]) = {}
        BY <1>4, <4>3 DEF Sound
      <4>. QED  BY <1>6, <2>3, <3>6, <4>2, <4>3
    <3>7. collect'[d].seen[i] = s
      BY <3>1 DEF s
    <3>. QED  BY <3>5, <3>6, <3>7
  <2>. QED  BY <2>2, <2>3
<1>10. IdInv'
  <2>1. \A i \in Issues : applied'[i] = newest'[i].id /\ applied'[i] <= cycleID'
    BY <1>1, <1>4
  <2>2. \A d \in Collectors : Collecting(d)' => collect'[d].id \in 1..cycleID'
    BY <1>1, <1>5 DEF ReconciliationInv, IdInv
  <2>3. \A d, e \in Collectors :
          Collecting(d)' /\ Collecting(e)' /\ d # e => collect'[d].id # collect'[e].id
    BY <1>5 DEF ReconciliationInv, IdInv
  <2>4. ASSUME NEW d \in Operators
        PROVE  collect'[d].phase \in {"idle", "read", "apply"}
    <3>1. d \in Collectors /\ d # Cycle
      BY DEF Collectors, ReconciliationAssumption
    <3>. QED  BY <1>1, <3>1 DEF ReconciliationInv, IdInv
  <2>5. \A d \in Collectors, i \in Issues :
          Collecting(d)' /\ i \notin collect'[d].scope => ~collect'[d].seen[i].listed
    BY <1>5 DEF ReconciliationInv, IdInv
  <2>. QED  BY <2>1, <2>2, <2>3, <2>4, <2>5 DEF IdInv
<1>11. GenInv'
  <2>. SUFFICES ASSUME NEW i \in Issues
                PROVE  /\ Upto(newest'[i].attemptGen, ledger'[i].attemptGen)
                       /\ \A d \in Collectors : Collecting(d)' /\ i \in collect'[d].scope =>
                            /\ collect'[d].gen[i] <= ledger'[i].gen
                            /\ Upto(collect'[d].attemptGen[i], ledger'[i].attemptGen)
                            /\ collect'[d].id > newest'[i].id =>
                                 Upto(newest'[i].attemptGen, collect'[d].attemptGen[i])
                            /\ \A e \in Collectors :
                                 Collecting(e)' /\ i \in collect'[e].scope
                                 /\ collect'[d].id < collect'[e].id =>
                                   Upto(collect'[d].attemptGen[i], collect'[e].attemptGen[i])
                            /\ ~ledger'[i].obs.current => \A a \in Attempts :
                                 \/ collect'[d].attemptGen[i][a] = ledger'[i].attemptGen[a]
                                 \/ ledger'[i].obs.entries[a] = "none"
    BY DEF GenInv
  <2>1. Upto(newest'[i].attemptGen, ledger'[i].attemptGen)
    <3>1. CASE i \in accepted(c)
      <4>1. Collecting(c) /\ i \in collect[c].scope
        BY <1>1, <1>2, <3>1 DEF Pending
      <4>2. Upto(collect[c].attemptGen[i], ledger[i].attemptGen)
        BY <4>1, KnownOf
      <4>. QED  BY <1>2, <3>1, <4>2
    <3>2. CASE i \notin accepted(c)
      BY <1>3, <3>2, Known
    <3>. QED  BY <3>1, <3>2
  <2>2. ASSUME NEW d \in Collectors, Collecting(d)', i \in collect'[d].scope
        PROVE  /\ collect'[d].gen[i] <= ledger'[i].gen
               /\ Upto(collect'[d].attemptGen[i], ledger'[i].attemptGen)
               /\ collect'[d].id > newest'[i].id =>
                    Upto(newest'[i].attemptGen, collect'[d].attemptGen[i])
               /\ \A e \in Collectors :
                    Collecting(e)' /\ i \in collect'[e].scope
                    /\ collect'[d].id < collect'[e].id =>
                      Upto(collect'[d].attemptGen[i], collect'[e].attemptGen[i])
               /\ ~ledger'[i].obs.current => \A a \in Attempts :
                    \/ collect'[d].attemptGen[i][a] = ledger'[i].attemptGen[a]
                    \/ ledger'[i].obs.entries[a] = "none"
    <3>1. d # c /\ collect'[d] = collect[d] /\ Collecting(d) /\ i \in collect[d].scope
      BY <1>5, <2>2
    <3>2. /\ collect[d].gen[i] <= ledger[i].gen /\ collect[d].gen[i] \in Nat
          /\ Upto(collect[d].attemptGen[i], ledger[i].attemptGen)
          /\ collect[d].id > newest[i].id =>
               Upto(newest[i].attemptGen, collect[d].attemptGen[i])
          /\ \A e \in Collectors :
               Collecting(e) /\ i \in collect[e].scope /\ collect[d].id < collect[e].id =>
                 Upto(collect[d].attemptGen[i], collect[e].attemptGen[i])
          /\ ~ledger[i].obs.current => \A a \in Attempts :
               \/ collect[d].attemptGen[i][a] = ledger[i].attemptGen[a]
               \/ ledger[i].obs.entries[a] = "none"
      BY <3>1, KnownOf
    <3>3. collect[d].gen[i] <= ledger'[i].gen
      <4>1. /\ ledger'[i].gen \in Nat /\ ledger[i].gen \in Nat
            /\ ledger'[i].gen = ledger[i].gen \/ (ledger'[i].gen = 1 /\ ledger[i].gen = 0)
        BY <1>4
      <4>2. ledger[i].gen <= ledger'[i].gen
        BY <4>1
      <4>. QED  BY <3>2, <4>1, <4>2
    <3>4. Upto(collect[d].attemptGen[i], ledger'[i].attemptGen)
      BY <1>4, <3>2
    <3>5. ASSUME collect[d].id > newest'[i].id
          PROVE  Upto(newest'[i].attemptGen, collect[d].attemptGen[i])
      <4>1. CASE i \in accepted(c)
        <5>1. /\ Collecting(c) /\ i \in collect[c].scope /\ newest'[i].id = collect[c].id
              /\ newest'[i].attemptGen = collect[c].attemptGen[i]
          BY <1>1, <1>2, <4>1 DEF Pending
        <5>2. collect[c].id \in Nat /\ collect[d].id \in Nat
          BY KnownOf DEF Capture
        <5>3. collect[c].id < collect[d].id
          BY <3>5, <5>1, <5>2
        <5>4. Upto(collect[c].attemptGen[i], collect[d].attemptGen[i])
          BY <3>1, <5>1, <5>3, KnownOf
        <5>. QED  BY <5>1, <5>4
      <4>2. CASE i \notin accepted(c)
        BY <1>3, <3>2, <3>5, <4>2
      <4>. QED  BY <4>1, <4>2
    <3>6. ASSUME NEW e \in Collectors, Collecting(e)', i \in collect'[e].scope,
                 collect'[d].id < collect'[e].id
          PROVE  Upto(collect'[d].attemptGen[i], collect'[e].attemptGen[i])
      <4>1. collect'[e] = collect[e] /\ Collecting(e) /\ i \in collect[e].scope
        BY <1>5, <3>6
      <4>. QED  BY <3>1, <3>2, <3>6, <4>1
    <3>7. ASSUME ~ledger'[i].obs.current, NEW a \in Attempts
          PROVE  \/ collect[d].attemptGen[i][a] = ledger'[i].attemptGen[a]
                 \/ ledger'[i].obs.entries[a] = "none"
      <4>1. i \notin accepted(c)
        BY <1>2, <3>7
      <4>. QED  BY <1>3, <3>2, <3>7, <4>1
    <3>. QED  BY <3>1, <3>3, <3>4, <3>5, <3>6, <3>7
  <2>. QED  BY <2>1, <2>2
<1>12. CycleInv'
  <2>. SUFFICES ASSUME NEW i \in Issues
                PROVE  CycleOf(i)'
    BY DEF CycleInv
  <2>1. CycleOf(i) /\ Cycle \in Collectors
    BY DEF ReconciliationInv, CycleInv, Collectors
  <2>2. \A s : FreshBind(s, ledger[i], github[i]) => FreshBind(s, ledger'[i], github[i])
    BY <1>4 DEF FreshBind
  <2>3. \A s : live(ledger[i]) = {} => FreshBind(s, ledger'[i], github[i])
    BY <1>4 DEF FreshBind
  <2>4. ASSUME Collecting(Cycle)'
        PROVE  /\ i \in collect'[Cycle].scope /\ matches(collect[Cycle], i)'
               /\ newest'[i].id >= collect'[Cycle].id =>
                    FreshWork(newest'[i].seen, github[i])
                    /\ FreshBind(newest'[i].seen, ledger'[i], github[i])
               /\ \A d \in Collectors :
                    Pending(d, i)' /\ collect'[d].id >= collect'[Cycle].id =>
                      FreshWork(collect'[d].seen[i], github[i])
                      /\ FreshBind(collect'[d].seen[i], ledger'[i], github[i])
    <3>1. c # Cycle /\ collect'[Cycle] = collect[Cycle] /\ Collecting(Cycle)
      BY <1>5, <2>1, <2>4
    <3>2. /\ i \in collect[Cycle].scope /\ matches(collect[Cycle], i)
          /\ newest[i].id >= collect[Cycle].id =>
               FreshWork(newest[i].seen, github[i])
               /\ FreshBind(newest[i].seen, ledger[i], github[i])
          /\ \A d \in Collectors : Pending(d, i) /\ collect[d].id >= collect[Cycle].id =>
               FreshWork(collect[d].seen[i], github[i])
               /\ FreshBind(collect[d].seen[i], ledger[i], github[i])
      BY <2>1, <3>1 DEF CycleOf, Fresh
    <3>3. matches(collect[Cycle], i)'
      <4>1. collect[Cycle].gen[i] = ledger[i].gen
            \/ (collect[Cycle].gen[i] = 0 /\ ledger[i].gen = 1 /\ ledger[i].obs.known)
        BY <3>2 DEF matches
      <4>2. collect[Cycle].gen[i] = ledger'[i].gen
            \/ (collect[Cycle].gen[i] = 0 /\ ledger'[i].gen = 1 /\ ledger'[i].obs.known)
        BY <1>4, <4>1
      <4>. QED  BY <3>1, <4>2 DEF matches
    <3>4. newest'[i].id >= collect[Cycle].id =>
            FreshWork(newest'[i].seen, github[i])
            /\ FreshBind(newest'[i].seen, ledger'[i], github[i])
      <4>1. CASE i \in accepted(c)
        BY <1>2, <2>2, <3>2, <4>1
      <4>2. CASE i \notin accepted(c)
        BY <1>3, <3>2, <4>2
      <4>. QED  BY <4>1, <4>2
    <3>5. ASSUME NEW d \in Collectors, Pending(d, i)', collect'[d].id >= collect'[Cycle].id
          PROVE  FreshWork(collect'[d].seen[i], github[i])
                 /\ FreshBind(collect'[d].seen[i], ledger'[i], github[i])
      BY <1>5, <2>2, <3>1, <3>2, <3>5
    <3>. QED  BY <3>1, <3>2, <3>3, <3>4, <3>5
  <2>5. ASSUME collect'[Cycle].phase \in {"prepare", "bind", "start"},
               i \in collect'[Cycle].scope
        PROVE  /\ Observed(ledger'[i]) =>
                    FreshWork(newest'[i].seen, github[i])
                    /\ FreshBind(newest'[i].seen, ledger'[i], github[i])
               /\ \A d \in Collectors : Pending(d, i)' /\ collect'[d].id > applied'[i] =>
                    /\ FreshWork(collect'[d].seen[i], github[i])
                    /\ Match(d, i)' => FreshBind(collect'[d].seen[i], ledger'[i], github[i])
    <3>1. CASE c = Cycle
      <4>1. /\ Collecting(Cycle) /\ Pending(Cycle, i) /\ collect[Cycle].seen[i].listed
            /\ i \in collect[Cycle].scope /\ matches(collect[Cycle], i)
        <5>1. Collecting(Cycle) /\ collect[Cycle].seen[i].listed
          BY <1>1, <2>5, <3>1
        <5>2. i \in collect[Cycle].scope /\ matches(collect[Cycle], i)
          BY <2>1, <5>1 DEF CycleOf
        <5>. QED  BY <1>1, <3>1, <5>1, <5>2 DEF Pending
      <4>2. /\ newest[i].id >= collect[Cycle].id =>
                 FreshWork(newest[i].seen, github[i])
                 /\ FreshBind(newest[i].seen, ledger[i], github[i])
            /\ \A d \in Collectors : Pending(d, i) /\ collect[d].id >= collect[Cycle].id =>
                 FreshWork(collect[d].seen[i], github[i])
                 /\ FreshBind(collect[d].seen[i], ledger[i], github[i])
        BY <2>1, <4>1 DEF CycleOf, Fresh
      <4>3. \A d \in Collectors : collect[d].id \in Nat
        BY KnownOf DEF Capture
      <4>4. applied'[i] >= collect[Cycle].id /\ applied[i] \in Nat /\ applied'[i] \in Nat
        <5>1. CASE i \in accepted(c)
          BY <1>2, <1>4, <2>1, <3>1, <4>3, <5>1
        <5>2. CASE i \notin accepted(c)
          <6>1. concerns(c, i)
            BY <3>1, <4>1 DEF concerns
          <6>2. ~(collect[c].id > applied[i])
            BY <3>1, <4>1, <5>2, <6>1 DEF accepted
          <6>. QED  BY <1>3, <1>4, <2>1, <3>1, <4>3, <5>2, <6>2
        <5>. QED  BY <5>1, <5>2
      <4>5. FreshWork(newest'[i].seen, github[i])
            /\ FreshBind(newest'[i].seen, ledger'[i], github[i])
        <5>1. CASE i \in accepted(c)
          <6>1. newest'[i].seen = collect[Cycle].seen[i]
            BY <1>2, <3>1, <5>1
          <6>2. FreshWork(collect[Cycle].seen[i], github[i])
                /\ FreshBind(collect[Cycle].seen[i], ledger[i], github[i])
            BY <2>1, <4>1, <4>2, <4>3
          <6>. QED  BY <2>2, <6>1, <6>2
        <5>2. CASE i \notin accepted(c)
          BY <1>3, <1>4, <4>2, <4>4, <5>2
        <5>. QED  BY <5>1, <5>2
      <4>6. ASSUME NEW d \in Collectors, Pending(d, i)', collect'[d].id > applied'[i]
            PROVE  FreshWork(collect'[d].seen[i], github[i])
                   /\ FreshBind(collect'[d].seen[i], ledger'[i], github[i])
        <5>1. collect'[d] = collect[d] /\ Pending(d, i)
          BY <1>5, <4>6
        <5>2. collect[d].id >= collect[Cycle].id
          BY <2>1, <4>3, <4>4, <4>6, <5>1
        <5>. QED  BY <2>2, <4>2, <5>1, <5>2
      <4>. QED  BY <4>5, <4>6
    <3>2. CASE c # Cycle
      <4>1. collect'[Cycle] = collect[Cycle]
        BY <1>1, <2>1, <3>2
      <4>2. /\ Observed(ledger[i]) =>
                 FreshWork(newest[i].seen, github[i])
                 /\ FreshBind(newest[i].seen, ledger[i], github[i])
            /\ \A d \in Collectors : Pending(d, i) /\ collect[d].id > applied[i] =>
                 /\ FreshWork(collect[d].seen[i], github[i])
                 /\ Match(d, i) => FreshBind(collect[d].seen[i], ledger[i], github[i])
        BY <2>1, <2>5, <4>1 DEF CycleOf, Fresh
      <4>3. Observed(ledger'[i]) =>
              FreshWork(newest'[i].seen, github[i])
              /\ FreshBind(newest'[i].seen, ledger'[i], github[i])
        <5>1. CASE i \in accepted(c)
          <6>1. FreshWork(collect[c].seen[i], github[i])
            BY <1>2, <4>2, <5>1
          <6>2. Match(c, i) \/ live(ledger[i]) = {}
            BY <1>2, <5>1, MatchesOrIdle
          <6>3. FreshBind(collect[c].seen[i], ledger'[i], github[i])
            BY <1>2, <2>2, <2>3, <4>2, <5>1, <6>2
          <6>. QED  BY <1>2, <5>1, <6>1, <6>3
        <5>2. CASE i \notin accepted(c)
          BY <1>3, <4>2, <5>2
        <5>. QED  BY <5>1, <5>2
      <4>4. ASSUME NEW d \in Collectors, Pending(d, i)', collect'[d].id > applied'[i]
            PROVE  /\ FreshWork(collect'[d].seen[i], github[i])
                   /\ Match(d, i)' => FreshBind(collect'[d].seen[i], ledger'[i], github[i])
        <5>1. collect'[d] = collect[d] /\ Pending(d, i)
          BY <1>5, <4>4
        <5>2. collect[d].id \in Nat
          BY KnownOf DEF Capture
        <5>3. collect[d].id > applied[i]
          BY <1>4, <4>4, <5>1, <5>2
        <5>4. Match(d, i)' => Match(d, i) \/ live(ledger[i]) = {}
          BY <1>6, <4>4
        <5>. QED  BY <2>2, <2>3, <4>2, <5>1, <5>3, <5>4
      <4>. QED  BY <4>3, <4>4
    <3>. QED  BY <3>1, <3>2
  <2>6. github' = github
    BY <1>1
  <2>. QED  BY <2>4, <2>5, <2>6 DEF CycleOf, Fresh
<1>. QED  BY <1>7, <1>8, <1>9, <1>10, <1>11, <1>12 DEF ReconciliationInv

-----------------------------------------------------------------------------
(* The invariant holds *)

\* At the first start nothing has been observed, and GitHub may hold the binding of
\* an attempt that the ledger has lost.
LEMMA InitKeeps ==
  ASSUME ReconciliationAssumption, Init
  PROVE  ReconciliationInv
<1>1. PICK lost \in [Issues -> {{}, {1}}] :
        github = [i \in Issues |->
          [ready |-> TRUE, open |-> TRUE, retry |-> NoRetry, bound |-> lost[i],
           failed |-> {}, pulls |-> Nothing]]
  BY DEF Init
<1>2. /\ ledger = [i \in Issues |->
           [gen |-> 0, attemptGen |-> [a \in Attempts |-> 0], tombs |-> {},
            attempts |-> Nothing, obs |-> Unobserved]]
      /\ cycleID = 0 /\ applied = [i \in Issues |-> 0]
      /\ collect = [c \in Collectors |-> Idle]
      /\ newest = [i \in Issues |->
           [id |-> 0, attemptGen |-> [a \in Attempts |-> 0], seen |-> Unlisted]]
      /\ bounds = [edits |-> 0, boots |-> 1]
  BY DEF Init
<1>3. Unlisted \in Reading /\ Unobserved \in Holds /\ 1 \in Attempts
  BY DEF Unlisted, Unobserved, Reading, Holds, NoFact, Facts, Nothing, Remote, Attempts,
         ReconciliationAssumption
<1>4. Idle \in Capture
  BY <1>3 DEF Idle, Capture, Phases, Gens
<1>5. /\ newest \in [Issues -> Newest]
      /\ \A i \in Issues : /\ newest[i].id = 0 /\ newest[i].seen = Unlisted
                           /\ \A a \in Attempts : newest[i].attemptGen[a] = 0
  BY <1>2, <1>3 DEF Newest, Gens, ReconciliationAssumption
<1>6. collect \in [Collectors -> Capture] /\ \A c \in Collectors : collect[c].phase = "idle"
  BY <1>2, <1>4 DEF Idle
<1>7. ASSUME NEW i \in Issues
      PROVE  /\ ledger[i] \in Ledger /\ ledger[i].gen = 0 /\ ledger[i].tombs = {}
             /\ \A a \in Attempts : /\ ledger[i].attemptGen[a] = 0
                                    /\ ledger[i].attempts[a] = "none"
             /\ ledger[i].obs = Unobserved
  BY <1>2, <1>3 DEF Ledger, Gens, States, Nothing
<1>8. ASSUME NEW i \in Issues
      PROVE  /\ github[i] \in Github /\ github[i].bound \subseteq {1} /\ github[i].failed = {}
             /\ \A a \in Attempts : github[i].pulls[a] = "none"
  <2>1. lost[i] \subseteq {1} /\ lost[i] \subseteq Attempts
    BY <1>3
  <2>. QED  BY <1>1, <2>1 DEF Github, Nothing
<1>9. TypeOK /\ collect \in [Collectors -> Capture]
  <2>1. ledger \in [Issues -> Ledger] /\ github \in [Issues -> Github]
    BY <1>1, <1>2, <1>7, <1>8
  <2>2. bounds \in [edits : 0..MaxEdits, boots : 1..MaxBoots]
    BY <1>2 DEF ReconciliationAssumption
  <2>3. cycleID \in 0..MaxCycles /\ applied \in [Issues -> 0..MaxCycles]
    BY <1>2 DEF ReconciliationAssumption
  <2>4. \A c \in Collectors : collect[c].phase \in Phases
    BY <1>6 DEF Phases
  <2>. QED  BY <1>5, <1>6, <2>1, <2>2, <2>3, <2>4, Types
<1>10. IssueInv
  <2>. SUFFICES ASSUME NEW i \in Issues
                PROVE  /\ OwnOf(ledger[i]) /\ GithubOf(ledger[i], github[i])
                       /\ HoldsNewest(ledger[i], newest[i])
    BY DEF IssueInv
  <2>1. /\ ~Unobserved.known /\ ~Unobserved.present /\ Unobserved.entries = Nothing
        /\ Unobserved.fact = NoFact
    BY DEF Unobserved
  <2>2. live(ledger[i]) = {} /\ working(ledger[i]) = {}
    BY <1>7 DEF live, working
  <2>3. OwnOf(ledger[i])
    BY <1>7, <2>1, <2>2 DEF OwnOf
  <2>4. GithubOf(ledger[i], github[i])
    BY <1>7, <1>8, <2>1, <2>2 DEF GithubOf
  <2>5. HoldsNewest(ledger[i], newest[i])
    BY <1>7, <2>1 DEF HoldsNewest
  <2>. QED  BY <2>3, <2>4, <2>5
<1>11. ReadingInv
  <2>1. ASSUME NEW i \in Issues
        PROVE  Plain(newest[i].seen, ledger[i], github[i])
    <3>1. Plain(Unlisted, ledger[i], github[i])
      BY DEF Plain, Unlisted, NoFact, Nothing, Attempts
    <3>. QED  BY <1>5, <3>1
  <2>2. ASSUME NEW i \in Issues
        PROVE  ~Observed(ledger[i])
    BY <1>7 DEF Observed, Unobserved
  <2>3. \A c \in Collectors, i \in Issues : ~Pending(c, i)
    BY <1>6 DEF Pending
  <2>. QED  BY <2>1, <2>2, <2>3 DEF ReadingInv
<1>12. IdInv
  <2>1. \A c \in Collectors : ~Collecting(c)
    BY <1>6 DEF Collecting
  <2>2. \A i \in Issues : applied[i] = newest[i].id /\ applied[i] <= cycleID
    BY <1>2, <1>5
  <2>3. \A c \in Operators : collect[c].phase \in {"idle", "read", "apply"}
    BY <1>6 DEF Collectors
  <2>. QED  BY <2>1, <2>2, <2>3 DEF IdInv
<1>13. GenInv
  <2>1. \A i \in Issues : Upto(newest[i].attemptGen, ledger[i].attemptGen)
    BY <1>5, <1>7 DEF Upto
  <2>2. \A c \in Collectors : ~Collecting(c)
    BY <1>6 DEF Collecting
  <2>. QED  BY <2>1, <2>2 DEF GenInv
<1>14. CycleInv
  BY <1>6 DEF CycleInv, CycleOf, Collecting, Collectors
<1>. QED  BY <1>9, <1>10, <1>11, <1>12, <1>13, <1>14 DEF ReconciliationInv

\* Every step keeps it.
LEMMA NextKeeps ==
  ASSUME ReconciliationAssumption, ReconciliationInv, [Next]_vars
  PROVE  ReconciliationInv'
<1>1. CASE UNCHANGED vars
  <2>1. CollectStep
    BY <1>1, NobodyCollects DEF vars
  <2>. QED  BY <1>1, <2>1, OtherStep DEF vars
<1>2. ASSUME NEW c \in Collectors, Begin(c) \/ Read(c) \/ Apply(c) \/ Fail(c)
      PROVE  ReconciliationInv'
  BY <1>2, BeginKeeps, ReadKeeps, ApplyKeeps, FailKeeps
<1>3. ASSUME Prepare \/ Bind \/ Start \/ Monitor \/ Publish \/ Update \/ Proceed
      PROVE  ReconciliationInv'
  BY <1>3, PrepareKeeps, BindKeeps, StartKeeps, MonitorKeeps, PublishKeeps, UpdateKeeps,
     ProceedKeeps
<1>4. ASSUME NEW i \in Issues, NEW a \in Attempts,
             Settle(i, a) \/ Stop(i, a) \/ Discard(i, a)
      PROVE  ReconciliationInv'
  BY <1>4, SettleKeeps, StopKeeps, DiscardKeeps
<1>5. ASSUME NEW i \in Issues, Edit(i)
      PROVE  ReconciliationInv'
  BY <1>5, EditKeeps
<1>6. CASE Restart
  BY <1>6, RestartStep
<1>. QED  BY <1>1, <1>2, <1>3, <1>4, <1>5, <1>6 DEF Next

\* The inductive invariant is one of the specification: what the owner knows of every
\* attempt, what every reading in the air says of it, and the order of the collections.
THEOREM ReconciliationInductive == Spec => []ReconciliationInv
<1>1. Init => ReconciliationInv
  BY ReconciliationAssumption, InitKeeps
<1>2. ReconciliationInv /\ [Next]_vars => ReconciliationInv'
  BY ReconciliationAssumption, NextKeeps
<1>. QED  BY <1>1, <1>2, PTL DEF Spec

\* Every variable keeps its type.
THEOREM ReconciliationTypes == Spec => []TypeOK
<1>1. ReconciliationInv => TypeOK
  BY DEF ReconciliationInv
<1>. QED  BY <1>1, ReconciliationInductive, PTL

\* What the owner holds of an issue is always what the newest collection it accepted
\* has read, less what has moved on since (applyReconciliation).
THEOREM ObservationsNewest == Spec => []ObservationIsNewest
<1>1. ReconciliationInv => ObservationIsNewest
  BY DEF ReconciliationInv, IssueInv, HoldsNewest, ObservationIsNewest
<1>. QED  BY <1>1, ReconciliationInductive, PTL

\* Attempts of which no two differ are one at most.
LEMMA AtMostOne ==
  ASSUME NEW S, \A a, b \in S : a = b
  PROVE  Cardinality(S) <= 1
<1>1. CASE S = {}
  BY <1>1, FS_EmptySet
<1>2. CASE S # {}
  <2>1. PICK a : a \in S
    BY <1>2
  <2>2. S = {a}
    BY <2>1
  <2>. QED  BY <2>2, FS_Singleton
<1>. QED  BY <1>1, <1>2

\* However late the observations the cycle works from, an issue never has two
\* attempts that are prepared or running: the last attempt alone may be alive.
THEOREM OneLiveEver == Spec => []OneLiveAttempt
<1>1. ASSUME ReconciliationInv, NEW i \in Issues
      PROVE  Cardinality(live(ledger[i])) <= 1
  <2>1. \A a \in live(ledger[i]) : ledger[i].attemptGen[a] # 0 /\ a \in Attempts
    BY <1>1, Known DEF OwnOf, live
  <2>2. \A a \in live(ledger[i]), b \in Attempts : a < b => ledger[i].attemptGen[b] = 0
    BY <1>1, Known DEF OwnOf
  <2>3. ASSUME NEW a \in live(ledger[i]), NEW b \in live(ledger[i])
        PROVE  a = b
    <3>1. ~(a < b) /\ ~(b < a)
      BY <2>1, <2>2
    <3>2. a \in Nat /\ b \in Nat
      BY <2>1 DEF Attempts
    <3>. QED  BY <3>1, <3>2
  <2>. QED  BY <2>3, AtMostOne
<1>2. ReconciliationInv => OneLiveAttempt
  BY <1>1 DEF OneLiveAttempt, live
<1>. QED  BY <1>2, ReconciliationInductive, PTL

-----------------------------------------------------------------------------
(* A new attempt *)

\* An attempt that comes to another state than prepared is not a prepared one.
LEMMA LocalPrepares ==
  ASSUME ReconciliationAssumption, ReconciliationInv, NEW j \in Issues, NEW a \in Attempts,
         NEW s \in States \ {"preparing"}, local(j, a, s),
         NEW i \in Issues, NEW b \in Attempts, ledger'[i].attempts[b] = "preparing"
  PROVE  ledger[i].attempts[b] = "preparing"
<1>1. ledger \in [Issues -> Ledger] /\ ledger[j] \in Ledger
  BY Known
<1>2. ledger'[i] = IF i = j THEN Local(ledger[j], a, s) ELSE ledger[i]
  BY <1>1 DEF local, Local
<1>3. Local(ledger[j], a, s).attempts[b] = IF b = a THEN s ELSE ledger[j].attempts[b]
  BY <1>1, LocalParts
<1>. QED  BY <1>2, <1>3

\* Only the cycle's prepare phase takes a new attempt for an issue.
LEMMA OnlyPrepareReserves ==
  ASSUME ReconciliationAssumption, ReconciliationInv, [Next]_vars,
         NEW i \in Issues, NEW b \in Attempts,
         ledger[i].attemptGen[b] = 0, ledger'[i].attempts[b] = "preparing"
  PROVE  Prepare
<1>1. /\ ledger \in [Issues -> Ledger] /\ ledger[i] \in Ledger /\ OwnOf(ledger[i])
  BY Known
<1>2. ledger[i].attempts[b] # "preparing" /\ b \notin live(ledger[i])
  <2>1. ledger[i].attempts[b] = "none"
    BY <1>1 DEF OwnOf
  <2>. QED  BY <2>1 DEF live
<1>3. ledger'[i] # ledger[i]
  BY <1>2
<1>4. ASSUME NEW c \in Collectors, Apply(c)
      PROVE  FALSE
  <2>1. /\ collect[c].phase = "apply" /\ \A k \in Issues : ApplyOf(c, k)
    BY <1>4, ApplyParts
  <2>2. ApplyOf(c, i)
    BY <2>1
  <2>3. i \in accepted(c) /\ ledger'[i] = result(c, i)
    BY <1>3, <2>2 DEF ApplyOf
  <2>4. live(ledger'[i]) = live(ledger[i])
    BY <2>1, <2>3, AcceptedStep
  <2>5. b \in live(ledger'[i])
    BY DEF live
  <2>. QED  BY <1>2, <2>4, <2>5
<1>5. ASSUME Start
      PROVE  FALSE
  <2>. DEFINE j == Min(Planned("start"))  a == target(ledger[j])
  <2>1. j \in Issues /\ Plans("start", j)
    BY <1>5, FirstPlanned DEF Start
  <2>. HIDE DEF j
  <2>2. a \in Attempts
    BY <2>1, Known, TargetType DEF Plans
  <2>3. \E s \in {"running", "failed"} : local(j, a, s)
    BY <1>5 DEF Start, j
  <2>. HIDE DEF a
  <2>. QED  BY <1>2, <2>1, <2>2, <2>3, LocalPrepares DEF States
<1>6. ASSUME Monitor
      PROVE  FALSE
  <2>. DEFINE j == Min(Planned("monitor"))  a == target(ledger[j])
  <2>1. j \in Issues /\ Plans("monitor", j)
    BY <1>6, FirstPlanned DEF Monitor
  <2>. HIDE DEF j
  <2>2. a \in Attempts
    BY <2>1, Known, TargetType DEF Plans
  <2>3. local(j, a, "watched")
    BY <1>6 DEF Monitor, j
  <2>. HIDE DEF a
  <2>. QED  BY <1>2, <2>1, <2>2, <2>3, LocalPrepares DEF States
<1>7. ASSUME NEW j \in Issues, NEW a \in Attempts, Settle(j, a)
      PROVE  FALSE
  <2>1. \E s \in {"completed", "failed"} : local(j, a, s)
    BY <1>7 DEF Settle
  <2>. QED  BY <1>2, <2>1, LocalPrepares DEF States
<1>8. ASSUME NEW j \in Issues, NEW a \in Attempts, NEW M,
             \/ Stop(j, a) /\ M = stoppedAttempt(ledger[j], a)
             \/ Discard(j, a) /\ M = discarded(ledger[j], a)
      PROVE  FALSE
  <2>1. ledger' = [ledger EXCEPT ![j] = M]
    BY <1>8 DEF Stop, Discard
  <2>2. i = j /\ ledger'[i] = M /\ ledger[j] \in Ledger
    BY <1>1, <1>3, <2>1
  <2>3. Moved(ledger[j], M, a)
    <3>1. CASE Stop(j, a) /\ M = stoppedAttempt(ledger[j], a)
      <4>1. a \notin ledger[j].tombs
        BY <1>1, <2>2, <3>1 DEF Stop, OwnOf
      <4>. QED  BY <2>2, <3>1, <4>1, StoppedParts
    <3>2. CASE Discard(j, a) /\ M = discarded(ledger[j], a)
      BY <2>2, <3>2, StoppedParts
    <3>. QED  BY <1>8, <3>1, <3>2
  <2>4. M.attempts[b] = ledger[i].attempts[b] \/ M.attempts[b] \in {"none", "failed"}
    BY <2>2, <2>3 DEF Moved
  <2>. QED  BY <1>2, <2>2, <2>4
<1>9. ASSUME Restart
      PROVE  FALSE
  <2>1. ledger'[i] = [ledger[i] EXCEPT !.obs.current = FALSE]
    BY <1>9 DEF Restart
  <2>2. ledger'[i].attempts = ledger[i].attempts
    BY <1>1, <2>1 DEF Ledger
  <2>. QED  BY <1>2, <2>2
<1>10. \/ UNCHANGED ledger
       \/ \E c \in Collectors : Apply(c)
       \/ Prepare \/ Start \/ Monitor
       \/ \E j \in Issues, a \in Attempts : Settle(j, a) \/ Stop(j, a) \/ Discard(j, a)
       \/ Restart
  BY DEF Next, vars, Begin, Read, Fail, Bind, Publish, Update, Proceed, Edit
<1>. QED  BY <1>3, <1>4, <1>5, <1>6, <1>7, <1>8, <1>9, <1>10

\* The issues that fit are among those that wait.
LEMMA ScheduledWaits ==
  ASSUME NEW busy, NEW waiting
  PROVE  Schedule(busy, waiting) \subseteq waiting
BY DEF Schedule

\* A new attempt is prepared only when no earlier one that was ever bound to the issue
\* has work to do: it is published, or has failed and a retry was asked for since.
LEMMA NewIsNext ==
  ASSUME ReconciliationAssumption, ReconciliationInv, NEW i \in Issues,
         Plans("prepare", i), Deciding
  PROVE  \A a \in github[i].bound : a < target(ledger[i]) => settled(github[i], a)
<1>. DEFINE L == ledger[i]  g == github[i]  n == newest[i]  t == target(L)
<1>1. /\ L \in Ledger /\ g \in Github /\ n \in Newest /\ OwnOf(L) /\ GithubOf(L, g)
      /\ HoldsNewest(L, n) /\ Plain(n.seen, L, g)
  BY Known
<1>2. /\ i \in collect[Cycle].scope /\ current(L) /\ t # 0
      /\ L.attempts[t] = "none" /\ L.attemptGen[t] = 0
      /\ i \in runnable \/ observed(L, t) = "active"
  BY DEF Plans
<1>3. t \in Attempts
  BY <1>1, <1>2, TargetType
<1>4. CASE i \in runnable
  <2>1. eligible(L.obs.fact)
    <3>. DEFINE B == {j \in Issues : current(ledger[j]) /\ ledger[j].obs.fact.active
                                     /\ ~ledger[j].obs.fact.completed}
                W == {j \in Issues : current(ledger[j]) /\ eligible(ledger[j].obs.fact)}
    <3>1. runnable = Schedule(B, W)
      BY DEF runnable
    <3>. HIDE DEF B
    <3>2. i \in W
      BY <1>4, <3>1, ScheduledWaits
    <3>. QED  BY <3>2
  <2>2. n.seen.listed /\ Observed(L) /\ eligible(n.seen.fact)
    BY <1>1, <1>2, <2>1, ObservedFacts DEF eligible
  <2>3. CycleOf(i)
    BY DEF ReconciliationInv, CycleInv
  <2>4. FreshWork(n.seen, g)
    BY <1>2, <2>2, <2>3 DEF CycleOf, Deciding, Fresh
  <2>. QED  BY <2>2, <2>4 DEF FreshWork
<1>5. CASE observed(L, t) = "active"
  <2>1. L.obs.entries[t] = "active" /\ (t \in g.bound \/ g.pulls[t] # "none")
    BY <1>1, <1>2, <1>3, <1>5, ObservedBound
  <2>2. t \in g.bound
    BY <1>1, <1>2, <1>3, <2>1 DEF GithubOf
  <2>3. t = 1
    BY <1>1, <1>2, <2>2 DEF GithubOf
  <2>4. \A a \in g.bound : a \in Nat \ {0}
    BY <1>1 DEF Github, Attempts
  <2>. QED  BY <2>3, <2>4
<1>. QED  BY <1>2, <1>4, <1>5

\* No attempt is begun over another that may still be worked on, although the cycle
\* decides from readings that are old when it acts (retryAuthorizesFailure).
THEOREM PriorWorkIsResolved == Spec => PriorWorkResolved
<1>1. ASSUME ReconciliationInv, [Next]_vars, NEW i \in Issues, NEW b \in Attempts,
             ledger[i].attemptGen[b] = 0, ledger'[i].attempts[b] = "preparing"
      PROVE  \A a \in github[i].bound : a < b =>
               \/ github[i].pulls[a] # "none"
               \/ a \in github[i].failed /\ github[i].retry >= a
  <2>1. Prepare
    BY <1>1, ReconciliationAssumption, OnlyPrepareReserves
  <2>. DEFINE j == Min(Planned("prepare"))  t == target(ledger[j])
  <2>2. j \in Issues /\ Plans("prepare", j)
    BY <2>1, ReconciliationAssumption, FirstPlanned DEF Prepare
  <2>3. \E s \in {"preparing", "failed"} :
          ledger' = [ledger EXCEPT ![j] = reserved(@, t, s)]
    BY <2>1 DEF Prepare
  <2>. HIDE DEF j
  <2>4. /\ ledger \in [Issues -> Ledger] /\ ledger[j] \in Ledger /\ ledger[i] \in Ledger
        /\ OwnOf(ledger[i])
    BY <1>1, <2>2, Known
  <2>5. t \in Attempts
    BY <2>2, <2>4, ReconciliationAssumption, TargetType DEF Plans
  <2>. HIDE DEF t
  <2>6. PICK s \in States : ledger' = [ledger EXCEPT ![j] = reserved(@, t, s)]
    BY <2>3 DEF States
  <2>7. ledger[i].attempts[b] # "preparing"
    BY <1>1, <2>4 DEF OwnOf
  <2>8. i = j /\ ledger'[i] = reserved(ledger[j], t, s)
    BY <1>1, <2>4, <2>6, <2>7
  <2>9. reserved(ledger[j], t, s).attempts[b] = IF b = t THEN s ELSE ledger[j].attempts[b]
    BY <2>4, <2>5, ReconciliationAssumption, ReservedParts
  <2>10. b = t
    BY <1>1, <2>7, <2>8, <2>9
  <2>11. Deciding
    BY <2>1 DEF Prepare, at, Deciding
  <2>12. \A a \in github[i].bound : a < t => settled(github[i], a)
    BY <1>1, <2>2, <2>8, <2>11, ReconciliationAssumption, NewIsNext DEF t
  <2>. QED  BY <2>10, <2>12 DEF settled
<1>2. ReconciliationInv /\ [Next]_vars =>
        [\A i \in Issues, b \in Attempts :
           ledger[i].attemptGen[b] = 0 /\ ledger'[i].attempts[b] = "preparing" =>
             \A a \in github[i].bound : a < b =>
               \/ github[i].pulls[a] # "none"
               \/ a \in github[i].failed /\ github[i].retry >= a]_vars
  BY <1>1
<1>. QED  BY <1>2, ReconciliationInductive, PTL DEF Spec, PriorWorkResolved

-----------------------------------------------------------------------------
(* What is announced *)

\* Among the issues, more take more places.
LEMMA MoreIssues ==
  ASSUME ReconciliationAssumption, NEW T \in SUBSET Issues, NEW S \in SUBSET T
  PROVE  /\ Cardinality(S) \in Nat /\ Cardinality(T) \in Nat
         /\ Cardinality(S) <= Cardinality(T)
<1>1. IsFiniteSet(T)
  BY FS_Subset DEF ReconciliationAssumption
<1>. QED  BY <1>1, FS_Subset, FS_CardinalityType

\* The places taken when it is issue k's turn: the busy ones, and those of T before it.
takenBefore(busy, T, k) == busy \cup {l \in T : l < k}
LEMMA PlacesBefore ==
  ASSUME ReconciliationAssumption, NEW busy \in SUBSET Issues, NEW T \in SUBSET Issues,
         NEW j \in Issues, NEW k \in Issues, j < k
  PROVE  /\ Cardinality(takenBefore(busy, T, j)) \in Nat
         /\ Cardinality(takenBefore(busy, T, k)) \in Nat
         /\ Cardinality(takenBefore(busy, T, j)) <= Cardinality(takenBefore(busy, T, k))
<1>. DEFINE B == takenBefore(busy, T, j)
            C == takenBefore(busy, T, k)
<1>1. \A l \in T : l < j => l < k
  BY DEF ReconciliationAssumption
<1>2. C \in SUBSET Issues /\ B \in SUBSET C
  BY <1>1 DEF takenBefore
<1>. HIDE DEF B, C
<1>3. Cardinality(B) \in Nat /\ Cardinality(C) \in Nat /\ Cardinality(B) <= Cardinality(C)
  BY <1>2, MoreIssues
<1>. QED  BY <1>3 DEF B, C

\* Without overlapping scopes, an issue that is scheduled fits beside the busy ones and
\* all that wait before it ...
LEMMA ScheduledFits ==
  ASSUME ReconciliationAssumption, Overlaps = {}, NEW busy \in SUBSET Issues,
         NEW waiting \in SUBSET Issues, NEW i \in Schedule(busy, waiting)
  PROVE  i \in waiting /\ Cardinality(takenBefore(busy, waiting, i)) < Capacity
<1>1. PICK S \in SUBSET waiting :
        i \in S /\ \A k \in waiting : k \in S <=> fits(k, busy \cup {j \in S : j < k})
  BY DEF Schedule
<1>2. \A k \in waiting : k \in S <=> Cardinality(takenBefore(busy, S, k)) < Capacity
  BY <1>1 DEF fits, takenBefore
<1>3. i \in waiting /\ i \in Issues /\ Cardinality(takenBefore(busy, S, i)) < Capacity
  BY <1>1, <1>2
<1>4. ASSUME NEW k \in waiting, k < i
      PROVE  k \in S
  <2>1. S \in SUBSET Issues /\ k \in Issues
    OBVIOUS
  <2>2. /\ Cardinality(takenBefore(busy, S, k)) \in Nat
        /\ Cardinality(takenBefore(busy, S, i)) \in Nat
        /\ Cardinality(takenBefore(busy, S, k)) <= Cardinality(takenBefore(busy, S, i))
    BY <1>3, <1>4, <2>1, PlacesBefore
  <2>3. Cardinality(takenBefore(busy, S, k)) < Capacity
    BY <1>3, <2>2 DEF ReconciliationAssumption
  <2>. QED  BY <1>2, <2>3
<1>5. takenBefore(busy, S, i) = takenBefore(busy, waiting, i)
  BY <1>1, <1>4 DEF takenBefore
<1>. QED  BY <1>3, <1>5

\* ... and one that does is scheduled.
LEMMA FittingIsScheduled ==
  ASSUME ReconciliationAssumption, Overlaps = {}, NEW busy \in SUBSET Issues,
         NEW waiting \in SUBSET Issues, NEW i \in waiting,
         Cardinality(takenBefore(busy, waiting, i)) < Capacity
  PROVE  i \in Schedule(busy, waiting)
<1>. DEFINE S == {k \in waiting : Cardinality(takenBefore(busy, waiting, k)) < Capacity}
<1>1. \A k \in waiting : k \in Nat /\ k \in Issues
  BY DEF ReconciliationAssumption
<1>2. /\ S \in SUBSET waiting /\ S \in SUBSET Issues /\ i \in S
      /\ \A k \in waiting :
           k \in S <=> Cardinality(takenBefore(busy, waiting, k)) < Capacity
  OBVIOUS
<1>. HIDE DEF S
<1>3. Capacity \in Nat
  BY DEF ReconciliationAssumption
<1>4. ASSUME NEW k \in waiting
      PROVE  k \in S <=> Cardinality(takenBefore(busy, S, k)) < Capacity
  <2>1. CASE k \in S
    <3>1. ASSUME NEW j \in waiting, j < k
          PROVE  j \in S
      <4>1. Cardinality(takenBefore(busy, waiting, k)) < Capacity
        BY <1>2, <2>1
      <4>2. /\ Cardinality(takenBefore(busy, waiting, j)) \in Nat
            /\ Cardinality(takenBefore(busy, waiting, k)) \in Nat
            /\ Cardinality(takenBefore(busy, waiting, j))
                 <= Cardinality(takenBefore(busy, waiting, k))
        BY <1>1, <3>1, PlacesBefore
      <4>3. Cardinality(takenBefore(busy, waiting, j)) < Capacity
        BY <1>3, <4>1, <4>2
      <4>. QED  BY <1>2, <4>3
    <3>2. takenBefore(busy, S, k) = takenBefore(busy, waiting, k)
      BY <1>2, <3>1 DEF takenBefore
    <3>. QED  BY <1>2, <2>1, <3>2
  <2>2. CASE k \notin S
    <3>. DEFINE R == {j \in waiting : j \notin S}
    <3>1. R \subseteq Nat /\ R # {} /\ k \in R
      BY <1>1, <2>2
    <3>. HIDE DEF R
    <3>2. PICK m \in R : m <= k /\ \A u \in R : m <= u
      BY <3>1, LeastNatural
    <3>3. m \in waiting /\ m \notin S /\ m \in Nat /\ k \in Nat
      BY <1>1, <3>2 DEF R
    <3>4. \A j \in waiting : j < m => j \in S
      BY <1>1, <3>2, <3>3 DEF R
    <3>5. takenBefore(busy, S, m) = takenBefore(busy, waiting, m)
      BY <1>2, <3>4 DEF takenBefore
    <3>6. ~(Cardinality(takenBefore(busy, S, m)) < Capacity)
      BY <1>2, <3>3, <3>5
    <3>7. CASE m = k
      BY <2>2, <3>6, <3>7
    <3>8. CASE m < k
      <4>1. /\ Cardinality(takenBefore(busy, S, m)) \in Nat
            /\ Cardinality(takenBefore(busy, S, k)) \in Nat
            /\ Cardinality(takenBefore(busy, S, m)) <= Cardinality(takenBefore(busy, S, k))
        BY <1>1, <1>2, <3>3, <3>8, PlacesBefore
      <4>2. ~(Cardinality(takenBefore(busy, S, k)) < Capacity)
        BY <1>3, <3>6, <4>1
      <4>. QED  BY <2>2, <4>2
    <3>. QED  BY <3>2, <3>3, <3>7, <3>8
  <2>. QED  BY <2>1, <2>2
<1>5. \A k \in waiting : k \in S <=> fits(k, busy \cup {j \in S : j < k})
  BY <1>4 DEF fits, takenBefore
<1>. QED  BY <1>2, <1>5 DEF Schedule

\* An attempt without a record that has been one is discarded.
Buried(L) ==
  \A a \in Attempts : L.attempts[a] = "none" /\ L.attemptGen[a] # 0 => a \in L.tombs

\* What is announced is waiting on the dashboard.
LEMMA AnnouncedWaits ==
  ASSUME NEW i \in announced
  PROVE  /\ i \in Issues /\ current(ledger[i]) /\ eligible(ledger[i].obs.fact)
         /\ ~occupied(ledger[i]) /\ ~unreported(ledger[i])
         /\ \A a \in Attempts : card(ledger[i], a) = "none"
         /\ ledger[i].obs.fact.attempt \notin ledger[i].tombs
<1>. DEFINE B == {j \in Issues : /\ projects(ledger[j]) /\ occupied(ledger[j])
                                 /\ ~ledger[j].obs.fact.completed}
<1>1. i \in Schedule(B, queued)
  BY DEF announced
<1>. HIDE DEF B
<1>2. i \in queued
  BY <1>1, ScheduledWaits
<1>. QED  BY <1>2 DEF announced, queued, projects

\* The planner schedules it as well: without overlapping scopes it has fewer issues to
\* place before it, and with them the same ones.
LEMMA AnnouncedIsRunnable ==
  ASSUME ReconciliationAssumption, NEW i \in announced,
         \A j \in Issues : ~unreported(ledger[j]),
         \/ Overlaps = {}
         \/ \A j \in Issues : projects(ledger[j]) =>
              (occupied(ledger[j]) <=> ledger[j].obs.fact.active)
  PROVE  i \in runnable
<1>. DEFINE A == {j \in Issues : /\ projects(ledger[j]) /\ occupied(ledger[j])
                                 /\ ~ledger[j].obs.fact.completed}
            B == {j \in Issues : current(ledger[j]) /\ ledger[j].obs.fact.active
                                 /\ ~ledger[j].obs.fact.completed}
            W == {j \in Issues : current(ledger[j]) /\ eligible(ledger[j].obs.fact)}
            Q == queued
<1>1. i \in Schedule(A, Q) /\ runnable = Schedule(B, W)
  BY DEF announced, runnable
<1>2. Q = {j \in W : ~occupied(ledger[j])}
  BY DEF queued, projects
<1>3. /\ A \in SUBSET Issues /\ B \in SUBSET Issues /\ W \in SUBSET Issues
      /\ Q \in SUBSET W
  BY <1>2
<1>4. \A j \in W : ~ledger[j].obs.fact.active /\ ~ledger[j].obs.fact.completed
  BY DEF eligible
<1>5. B \subseteq A /\ \A j \in W : j \in Q \/ j \in A
  BY <1>2, <1>4 DEF projects, occupied
<1>6. CASE \A j \in Issues : projects(ledger[j]) =>
             (occupied(ledger[j]) <=> ledger[j].obs.fact.active)
  <2>1. A = B
    BY <1>6 DEF projects
  <2>2. Q = W
    BY <1>2, <1>4, <1>6 DEF projects
  <2>. HIDE DEF A, B, W, Q
  <2>. QED  BY <1>1, <2>1, <2>2
<1>7. CASE Overlaps = {}
  <2>. DEFINE S == takenBefore(B, W, i)
              T == takenBefore(A, Q, i)
  <2>. HIDE DEF A, B, W, Q
  <2>1. i \in Q /\ Cardinality(T) < Capacity
    BY <1>1, <1>3, <1>7, ScheduledFits
  <2>2. T \in SUBSET Issues /\ S \in SUBSET T
    BY <1>3, <1>5 DEF takenBefore
  <2>3. /\ Cardinality(S) \in Nat /\ Cardinality(T) \in Nat
        /\ Cardinality(S) <= Cardinality(T)
    BY <2>2, MoreIssues
  <2>. HIDE DEF T
  <2>4. Cardinality(S) < Capacity /\ i \in W
    BY <1>3, <2>1, <2>3 DEF ReconciliationAssumption
  <2>. QED  BY <1>1, <1>3, <1>7, <2>4, FittingIsScheduled
<1>. QED  BY <1>6, <1>7

\* An issue without a card has no attempt at all, observed or recorded.
LEMMA NothingKnown ==
  ASSUME NEW i \in announced, NEW a \in Attempts
  PROVE  observed(ledger[i], a) = "none" /\ ledger[i].attempts[a] = "none"
<1>1. card(ledger[i], a) = "none" /\ projects(ledger[i])
  BY AnnouncedWaits DEF projects
<1>2. shown(ledger[i], a) = observed(ledger[i], a)
  BY <1>1 DEF shown
<1>. QED  BY <1>1, <1>2 DEF card

\* So the planner prepares the attempt that the facts name, or none.
LEMMA AnnouncedTarget ==
  ASSUME ReconciliationAssumption, ReconciliationInv, NEW i \in announced,
         Buried(ledger[i])
  PROVE  target(ledger[i]) \in {0, ledger[i].obs.fact.attempt}
<1>. DEFINE L == ledger[i]  g == github[i]  n == newest[i]  f == L.obs.fact
<1>1. /\ i \in Issues /\ current(L) /\ f.attempt \notin L.tombs
      /\ \A a \in Attempts : observed(L, a) = "none" /\ L.attempts[a] = "none"
  BY AnnouncedWaits, NothingKnown
<1>2. /\ L \in Ledger /\ g \in Github /\ n \in Newest /\ HoldsNewest(L, n)
      /\ Plain(n.seen, L, g)
  BY <1>1, Known
<1>. HIDE DEF L, g, n
<1>3. f.attempt \in 0..(MaxAttempt + 1) /\ f.binding \in {0} \cup Attempts
  BY <1>2 DEF Ledger, Holds, Facts
<1>4. n.seen.listed /\ f.attempt = n.seen.fact.attempt
  BY <1>1, <1>2, ObservedFacts
<1>5. f.attempt >= 1
  BY <1>2, <1>4 DEF Plain
<1>6. f.binding = 0
  <2>1. \A a \in Attempts : f.binding = a => observed(L, a) # "none"
    BY DEF observed
  <2>. QED  BY <1>1, <1>3, <2>1
<1>7. replacement(L, f.attempt) = 0
  <2>1. {a \in Attempts : a > f.attempt /\ L.attempts[a] = "preparing"} = {}
    BY <1>1
  <2>2. highest({}) \in {} \cup {0}
    BY HighestAttempt
  <2>. QED  BY <2>1, <2>2 DEF replacement
<1>8. target(L) = unreserved(L, f.attempt)
  BY <1>1, <1>6, <1>7 DEF target
<1>9. unreserved(L, f.attempt) \in {0, f.attempt}
  <2>. DEFINE t == unreserved(L, f.attempt)
  <2>1. /\ t \in {0} \cup Attempts /\ f.attempt \in Nat
        /\ t # 0 => t >= f.attempt /\ \A b \in Attempts :
                      f.attempt <= b /\ b < t => L.attemptGen[b] # 0
    BY <1>3, UnreservedParts DEF ReconciliationAssumption
  <2>. HIDE DEF t, f
  <2>2. ASSUME t # 0, t # f.attempt
        PROVE  FALSE
    <3>1. t \in 1..MaxAttempt /\ f.attempt < t /\ f.attempt \in Attempts
      BY <1>5, <2>1, <2>2 DEF Attempts, ReconciliationAssumption
    <3>2. L.attemptGen[f.attempt] # 0
      BY <2>1, <3>1
    <3>3. f.attempt \in L.tombs
      BY <1>1, <3>1, <3>2 DEF Buried, L
    <3>. QED  BY <1>1, <3>3
  <2>3. t \in {0, f.attempt}
    BY <2>2
  <2>. QED  BY <2>3 DEF t
<1>. QED  BY <1>8, <1>9 DEF L, f

\* Every step keeps what is discarded among the tombstones.
LEMMA BuriedStep ==
  ASSUME ReconciliationAssumption, ReconciliationInv, [Next]_vars, NEW i \in Issues,
         Buried(ledger[i])
  PROVE  Buried(ledger'[i])
<1>1. ledger \in [Issues -> Ledger] /\ ledger[i] \in Ledger
  BY Known
<1>2. ASSUME NEW M, M.attempts = ledger[i].attempts, M.tombs = ledger[i].tombs,
             M.attemptGen = ledger[i].attemptGen
      PROVE  Buried(M)
  BY <1>2 DEF Buried
<1>3. ASSUME NEW j \in Issues, NEW a \in Attempts, NEW s \in States \ {"none"},
             local(j, a, s)
      PROVE  Buried(ledger'[i])
  <2>. DEFINE M == Local(ledger[i], a, s)
  <2>1. ledger'[i] = IF i = j THEN M ELSE ledger[i]
    BY <1>1, <1>3 DEF local, Local
  <2>2. /\ M.attemptGen = ledger[i].attemptGen /\ M.tombs = ledger[i].tombs
        /\ \A b \in Attempts : M.attempts[b] = IF b = a THEN s ELSE ledger[i].attempts[b]
    BY <1>1, LocalParts
  <2>. HIDE DEF M
  <2>3. Buried(M)
    BY <2>2 DEF Buried
  <2>. QED  BY <2>1, <2>3
<1>4. ASSUME NEW c \in Collectors, Apply(c)
      PROVE  Buried(ledger'[i])
  <2>1. collect[c].phase = "apply" /\ ApplyOf(c, i)
    BY <1>4, ApplyParts
  <2>2. CASE i \in accepted(c)
    <3>. DEFINE M == result(c, i)
    <3>1. ledger'[i] = M
      BY <2>1, <2>2 DEF ApplyOf
    <3>2. /\ M.attempts = ledger[i].attempts /\ M.tombs = ledger[i].tombs
          /\ M.attemptGen = ledger[i].attemptGen
      BY <1>1 DEF result, reduced, Ledger
    <3>. HIDE DEF M
    <3>. QED  BY <1>2, <3>1, <3>2
  <2>3. CASE i \notin accepted(c)
    BY <2>1, <2>3 DEF ApplyOf
  <2>. QED  BY <2>2, <2>3
<1>5. CASE Prepare
  <2>. DEFINE j == Min(Planned("prepare"))  a == target(ledger[j])
  <2>1. j \in Issues /\ Plans("prepare", j)
    BY <1>5, FirstPlanned DEF Prepare
  <2>2. PICK s \in {"preparing", "failed"} :
          ledger' = [ledger EXCEPT ![j] = reserved(@, a, s)]
    BY <1>5 DEF Prepare
  <2>. HIDE DEF j
  <2>3. a \in Attempts
    BY <2>1, Known, TargetType DEF Plans
  <2>. HIDE DEF a
  <2>. DEFINE M == reserved(ledger[i], a, s)
  <2>4. ledger'[i] = IF i = j THEN M ELSE ledger[i]
    BY <1>1, <2>2
  <2>5. /\ M.tombs = ledger[i].tombs
        /\ \A b \in Attempts : M.attempts[b] = IF b = a THEN s ELSE ledger[i].attempts[b]
        /\ \A b \in Attempts :
             M.attemptGen[b] = IF b = a THEN 1 ELSE ledger[i].attemptGen[b]
    <3>1. s \in States
      BY DEF States
    <3>. QED  BY <1>1, <2>3, <3>1, ReservedParts
  <2>. HIDE DEF M
  <2>6. Buried(M)
    BY <2>5 DEF Buried
  <2>. QED  BY <2>4, <2>6
<1>6. CASE Start \/ Monitor
  <2>1. PICK p \in {"start", "monitor"} :
          /\ Planned(p) # {}
          /\ \E s \in {"running", "failed", "watched"} :
               local(Min(Planned(p)), target(ledger[Min(Planned(p))]), s)
    BY <1>6 DEF Start, Monitor
  <2>. DEFINE j == Min(Planned(p))  a == target(ledger[j])
  <2>2. j \in Issues /\ Plans(p, j)
    BY <2>1, FirstPlanned
  <2>3. \E s \in {"running", "failed", "watched"} : local(j, a, s)
    BY <2>1
  <2>. HIDE DEF j
  <2>4. a \in Attempts
    BY <2>2, Known, TargetType DEF Plans
  <2>. HIDE DEF a
  <2>. QED  BY <1>3, <2>2, <2>3, <2>4 DEF States
<1>7. ASSUME NEW j \in Issues, NEW a \in Attempts, Settle(j, a)
      PROVE  Buried(ledger'[i])
  BY <1>3, <1>7 DEF Settle, States
<1>8. ASSUME NEW j \in Issues, NEW a \in Attempts, Stop(j, a)
      PROVE  Buried(ledger'[i])
  <2>. DEFINE M == stoppedAttempt(ledger[i], a)
  <2>1. ledger'[i] = IF i = j THEN M ELSE ledger[i]
    BY <1>1, <1>8 DEF Stop
  <2>2. /\ M.tombs = ledger[i].tombs /\ M.attempts[a] = "failed"
        /\ \A b \in Attempts \ {a} : /\ M.attempts[b] = ledger[i].attempts[b]
                                     /\ M.attemptGen[b] = ledger[i].attemptGen[b]
    BY <1>1 DEF stoppedAttempt, Ledger, Gens
  <2>. HIDE DEF M
  <2>3. Buried(M)
    BY <2>2 DEF Buried
  <2>. QED  BY <2>1, <2>3
<1>9. ASSUME NEW j \in Issues, NEW a \in Attempts, Discard(j, a)
      PROVE  Buried(ledger'[i])
  <2>. DEFINE M == discarded(ledger[i], a)
  <2>1. ledger'[i] = IF i = j THEN M ELSE ledger[i]
    BY <1>1, <1>9 DEF Discard
  <2>2. /\ M.tombs = ledger[i].tombs \cup {a}
        /\ \A b \in Attempts \ {a} : /\ M.attempts[b] = ledger[i].attempts[b]
                                     /\ M.attemptGen[b] = ledger[i].attemptGen[b]
    BY <1>1 DEF discarded, Ledger, Gens
  <2>. HIDE DEF M
  <2>3. Buried(M)
    BY <2>2 DEF Buried
  <2>. QED  BY <2>1, <2>3
<1>10. CASE Restart
  <2>1. ledger'[i] = [ledger[i] EXCEPT !.obs.current = FALSE]
    BY <1>10 DEF Restart
  <2>2. /\ ledger'[i].attempts = ledger[i].attempts /\ ledger'[i].tombs = ledger[i].tombs
        /\ ledger'[i].attemptGen = ledger[i].attemptGen
    BY <1>1, <2>1 DEF Ledger
  <2>. QED  BY <1>2, <2>2
<1>11. CASE UNCHANGED ledger
  BY <1>11
<1>12. \/ UNCHANGED ledger
       \/ \E c \in Collectors : Apply(c)
       \/ Prepare \/ Start \/ Monitor
       \/ \E j \in Issues, a \in Attempts : Settle(j, a) \/ Stop(j, a) \/ Discard(j, a)
       \/ Restart
  BY DEF Next, vars, Begin, Read, Fail, Bind, Publish, Update, Proceed, Edit
<1>. QED  BY <1>4, <1>5, <1>6, <1>7, <1>8, <1>9, <1>10, <1>11, <1>12

\* What the dashboard announces as runnable the planner dispatches, and prepares for it
\* the attempt that the dashboard names (joinIssueProjection, planRuntimeLifecycle).
THEOREM AnnouncedIsDispatched == Spec => []RunnableIsDispatched
<1>. DEFINE BuriedInv == \A i \in Issues : Buried(ledger[i])
<1>1. Init => BuriedInv
  BY DEF Init, Buried
<1>2. ReconciliationInv /\ BuriedInv /\ [Next]_vars => BuriedInv'
  BY ReconciliationAssumption, BuriedStep
<1>3. ReconciliationInv /\ BuriedInv => RunnableIsDispatched
  <2>. SUFFICES ASSUME ReconciliationInv, BuriedInv, NEW i \in announced,
                       \A j \in Issues : ~unreported(ledger[j]),
                       \/ Overlaps = {}
                       \/ \A j \in Issues : projects(ledger[j]) =>
                            (occupied(ledger[j]) <=> ledger[j].obs.fact.active)
                PROVE  /\ i \in runnable /\ ledger[i].obs.fact.authorized
                       /\ target(ledger[i]) \in {0, ledger[i].obs.fact.attempt}
    BY DEF RunnableIsDispatched
  <2>1. i \in Issues /\ ledger[i].obs.fact.authorized
    BY AnnouncedWaits DEF eligible
  <2>2. i \in runnable
    BY ReconciliationAssumption, AnnouncedIsRunnable
  <2>3. target(ledger[i]) \in {0, ledger[i].obs.fact.attempt}
    BY ReconciliationAssumption, <2>1, AnnouncedTarget
  <2>. QED  BY <2>1, <2>2, <2>3
<1>. QED  BY <1>1, <1>2, <1>3, ReconciliationInductive, PTL DEF Spec

-----------------------------------------------------------------------------
(***************************************************************************)
(* The trigger that asks for the cycles: ReconciliationTrigger, for any    *)
(* finite set of callers and any bound on the run ids.                     *)
(***************************************************************************)
CONSTANTS Callers, MaxRuns
VARIABLES stopped, cancelled, wake, queuedID, nextID, waiters, nilMap, loop, id,
          parked, pc, ctx, wait, outcome, stopper, begun, since

Trig == INSTANCE ReconciliationTrigger

Bounded == IsFiniteSet(Callers) /\ MaxRuns \in Nat

\* Callers that have made their request.
Asked == {c \in Callers : pc[c] # "idle"}

\* The queued id is the newest, and the only one that can be in the wake channel;
\* the run that was taken from it is another from the moment it begins. Ids are
\* drawn by callers, once each, and by MaxRuns others; each begins one cycle.
RunIdInv ==
  /\ nextID <= MaxRuns + Cardinality(Asked)
  /\ queuedID # 0 => queuedID = nextID
  /\ wake # 0 => wake = queuedID
  /\ loop = "begin" => id # 0 /\ id = queuedID /\ wake = 0
  /\ loop = "run" => id # 0 /\ id <= nextID /\ id # queuedID
  /\ begun <= nextID
  /\ queuedID # 0 => begun < nextID

\* A caller waits for one run and has no answer yet; one that has not asked
\* has neither an answer nor an outcome.
WaiterInv ==
  /\ \A i \in Trig!IDs : \A c \in waiters[i] :
       /\ pc[c] # "idle" /\ wait[c] = <<>>
       /\ \A j \in Trig!IDs : c \in waiters[j] => j = i
  /\ \A c \in Callers : pc[c] = "idle" => wait[c] = <<>> /\ outcome[c].run = 0

\* Who waits for the run that is under way asked before it began, and an answer
\* names a cycle that began after its caller asked.
AnswerInv ==
  /\ \A c \in Callers : since[c] <= begun
  /\ loop = "run" => \A c \in waiters[id] : since[c] < begun
  /\ \A c \in Callers :
       wait[c] # <<>> /\ wait[c][1].run # 0 => since[c] < wait[c][1].run
  /\ Trig!FreshCycle

\* No goroutine waits on a full channel with r.mu held: the wake channel is
\* empty whenever a new id is drawn, and each waiter is answered once.
NeverParked == ~parked

TriggerInv ==
  Bounded /\ Trig!TypeOK /\ NeverParked /\ RunIdInv /\ WaiterInv /\ AnswerInv

-----------------------------------------------------------------------------
(* Bounds *)

\* The trigger counts with the cardinality of the library.
LEMMA SameCount == \A S : Trig!Cardinality(S) = Cardinality(S)
BY DEF Trig!Cardinality, Cardinality

LEMMA TriggerIsBounded == Trig!TriggerAssumption => Bounded
BY DEF Trig!TriggerAssumption, Trig!IsFiniteSet, IsFiniteSet, Bounded

\* The run ids are those the bound and one request of each caller allow.
LEMMA RunIds ==
  ASSUME Bounded
  PROVE  /\ MaxRuns \in Nat /\ IsFiniteSet(Callers) /\ Cardinality(Callers) \in Nat
         /\ Trig!IDs = 1..(MaxRuns + Cardinality(Callers))
         /\ Trig!Cardinality(Trig!IDs) = MaxRuns + Cardinality(Callers)
<1>1. MaxRuns \in Nat /\ IsFiniteSet(Callers)
  BY DEF Bounded
<1>2. Cardinality(Callers) \in Nat
  BY <1>1, FS_CardinalityType
<1>3. Trig!IDs = 1..(MaxRuns + Cardinality(Callers))
  BY SameCount DEF Trig!IDs
<1>4. Cardinality(1..(MaxRuns + Cardinality(Callers))) = MaxRuns + Cardinality(Callers)
  BY <1>1, <1>2, FS_Interval
<1>. QED  BY <1>1, <1>2, <1>3, <1>4, SameCount

\* Ids stay within IDs, since each caller draws one at most.
LEMMA RunBounds ==
  ASSUME Bounded
  PROVE  /\ Trig!Cardinality(Trig!IDs) \in Nat
         /\ Trig!IDs = 1..Trig!Cardinality(Trig!IDs) /\ Trig!IDs \subseteq Nat
         /\ Trig!Cardinality(Trig!IDs) = MaxRuns + Cardinality(Callers)
         /\ MaxRuns \in Nat /\ Cardinality(Callers) \in Nat
         /\ IsFiniteSet(Asked) /\ Cardinality(Asked) \in Nat
         /\ Cardinality(Asked) <= Cardinality(Callers)
<1>1. Asked \subseteq Callers
  BY DEF Asked
<1>2. IsFiniteSet(Asked) /\ Cardinality(Asked) \in Nat
      /\ Cardinality(Asked) <= Cardinality(Callers)
  BY <1>1, RunIds, FS_Subset, FS_CardinalityType
<1>. QED  BY <1>2, RunIds

\* A caller that makes its request is one more that has asked.
LEMMA OneMoreAsked ==
  ASSUME Bounded, Trig!TypeOK, NEW c \in Callers, pc[c] = "idle",
         NEW s \in {"waiting", "returned"}, pc' = [pc EXCEPT ![c] = s]
  PROVE  Cardinality(Asked') = Cardinality(Asked) + 1
<1>1. Asked' = Asked \cup {c} /\ c \notin Asked
  BY DEF Asked, Trig!TypeOK
<1>2. IsFiniteSet(Asked)
  BY RunBounds
<1>. QED  BY <1>1, <1>2, FS_AddElement

\* A caller that goes on or returns has asked as before.
LEMMA SameAsked ==
  ASSUME Bounded, Trig!TypeOK, NEW c \in Callers, pc[c] # "idle",
         NEW s \in {"leaving", "returned"}, pc' = [pc EXCEPT ![c] = s]
  PROVE  Asked' = Asked
BY DEF Asked, Trig!TypeOK

\* Every id that is drawn is within the bound.
LEMMA TargetFits ==
  ASSUME Bounded, Trig!TypeOK, RunIdInv,
         \/ queuedID # 0 \/ nextID < MaxRuns
         \/ \E c \in Callers : pc[c] = "idle"
  PROVE  Trig!target \in Trig!IDs /\ Trig!target \in Nat /\ Trig!target >= 1
<1>1. CASE \E c \in Callers : pc[c] = "idle"
  <2>1. PICK c \in Callers : pc[c] = "idle"
    BY <1>1
  <2>2. Asked \subseteq Callers \ {c}
    BY <2>1 DEF Asked
  <2>3. /\ IsFiniteSet(Callers \ {c})
        /\ Cardinality(Callers \ {c}) = Cardinality(Callers) - 1
    BY RunIds, FS_RemoveElement
  <2>4. Cardinality(Asked) <= Cardinality(Callers) - 1
    BY <2>2, <2>3, RunIds, FS_Subset
  <2>. QED  BY <2>4, RunBounds DEF Trig!target, Trig!TypeOK, RunIdInv
<1>2. CASE queuedID # 0 \/ nextID < MaxRuns
  BY <1>2, RunBounds DEF Trig!target, Trig!TypeOK, RunIdInv
<1>. QED  BY <1>1, <1>2

-----------------------------------------------------------------------------
(* Each part is preserved *)

\* Ids are drawn, taken and begun one after the other.
LEMMA RunIdStep ==
  ASSUME TriggerInv, [Trig!Next]_(Trig!vars)
  PROVE  RunIdInv'
<1>a. Bounded /\ Trig!TypeOK /\ RunIdInv
  BY DEF TriggerInv
<1>b. Trig!IDs \subseteq Nat /\ Cardinality(Asked) \in Nat
  BY <1>a, RunBounds
<1>. USE <1>a, <1>b DEF Bounded, Trig!TypeOK, RunIdInv, Trig!enqueue, Trig!target, Trig!queue,
                                     Trig!calls
<1>1. CASE Trig!receiveWake
  BY <1>1 DEF Trig!receiveWake, Asked
<1>2. CASE Trig!seeCancelled
  BY <1>2 DEF Trig!seeCancelled, Asked
<1>3. CASE Trig!beginRun
  BY <1>3 DEF Trig!beginRun, Asked
<1>4. CASE Trig!endRun
  <2>1. CASE Trig!recollect
    BY <1>4, <2>1 DEF Trig!endRun, Trig!recollect, Asked
  <2>2. ASSUME NEW ending \in Trig!Endings, Trig!complete(ending) PROVE RunIdInv'
    BY <1>4, <2>2 DEF Trig!endRun, Trig!complete, Trig!answer, Asked
  <2>. QED  BY <1>4, <2>1, <2>2 DEF Trig!endRun
<1>5. CASE Trig!checkContext
  BY <1>5 DEF Trig!checkContext, Asked
<1>6. CASE Trig!closeWaiters
  BY <1>6 DEF Trig!closeWaiters, Trig!answer, Asked
<1>7. CASE Trig!closeDone
  BY <1>7 DEF Trig!closeDone, Asked
<1>8. CASE Trig!trigger
  BY <1>8 DEF Trig!trigger, Asked
<1>9. CASE Trig!lifecycleEnds
  BY <1>9 DEF Trig!lifecycleEnds, Asked
<1>10. CASE Trig!shutdown
  BY <1>10 DEF Trig!shutdown, Trig!stop, Asked
<1>11. CASE Trig!shutdownJoins
  BY <1>11 DEF Trig!shutdownJoins, Asked
<1>12. CASE Trig!shutdownTimeout
  BY <1>12 DEF Trig!shutdownTimeout, Asked
<1>13. ASSUME NEW c \in Callers, Trig!request(c) PROVE RunIdInv'
  <2>1. Cardinality(Asked') = Cardinality(Asked) + 1
    BY <1>13, OneMoreAsked DEF Trig!request, Trig!return
  <2>2. CASE UNCHANGED Trig!queue
    BY <1>13, <2>1, <2>2 DEF Trig!request
  <2>3. CASE Trig!enqueue(Trig!target)
    <3>1. UNCHANGED <<loop, id, begun>>
      BY <1>13 DEF Trig!request
    <3>2. CASE queuedID # 0
      <4>1. UNCHANGED <<nextID, queuedID, wake>>
        BY <2>3, <3>2
      <4>. QED  BY <2>1, <3>1, <4>1
    <3>3. CASE queuedID = 0
      <4>1. wake = 0
        BY <3>3
      <4>2. nextID' = nextID + 1 /\ queuedID' = nextID + 1 /\ wake' = nextID + 1
        BY <2>3, <3>3, <4>1
      <4>. QED  BY <2>1, <3>1, <3>3, <4>2
    <3>. QED  BY <3>2, <3>3
  <2>. QED  BY <1>13, <2>2, <2>3 DEF Trig!request
<1>14. ASSUME NEW c \in Callers, Trig!contextEnds(c) PROVE RunIdInv'
  BY <1>14 DEF Trig!contextEnds, Asked
<1>15. ASSUME NEW c \in Callers, Trig!takeAnswer(c) PROVE RunIdInv'
  BY <1>15, SameAsked DEF Trig!takeAnswer, Trig!return
<1>16. ASSUME NEW c \in Callers, Trig!seeDone(c) PROVE RunIdInv'
  BY <1>16, SameAsked DEF Trig!seeDone, Trig!return
<1>17. ASSUME NEW c \in Callers, Trig!seeContext(c) PROVE RunIdInv'
  BY <1>17, SameAsked DEF Trig!seeContext
<1>18. ASSUME NEW c \in Callers, Trig!removeWaiter(c) PROVE RunIdInv'
  BY <1>18, SameAsked DEF Trig!removeWaiter, Trig!return
<1>19. CASE UNCHANGED Trig!vars
  BY <1>19 DEF Trig!vars, Trig!queue, Trig!calls, Asked
<1>. QED
  BY <1>1, <1>2, <1>3, <1>4, <1>5, <1>6, <1>7, <1>8, <1>9, <1>10,
     <1>11, <1>12, <1>13, <1>14, <1>15, <1>16, <1>17, <1>18, <1>19
  DEF Trig!Next, Trig!LoopStep, Trig!CallerStep

\* The wake channel has room for a new id, and a waiter's channel for its answer.
LEMMA ParkStep ==
  ASSUME TriggerInv, [Trig!Next]_(Trig!vars)
  PROVE  NeverParked'
<1>a. Bounded /\ Trig!TypeOK /\ RunIdInv /\ WaiterInv /\ ~parked
  BY DEF TriggerInv, NeverParked
<1>. USE <1>a DEF Trig!TypeOK, RunIdInv, WaiterInv, NeverParked, Trig!enqueue, Trig!target,
                  Trig!queue, Trig!calls
<1>1. CASE Trig!receiveWake
  BY <1>1 DEF Trig!receiveWake
<1>2. CASE Trig!seeCancelled
  BY <1>2 DEF Trig!seeCancelled
<1>3. CASE Trig!beginRun
  BY <1>3 DEF Trig!beginRun
<1>4. CASE Trig!endRun
  <2>1. CASE Trig!recollect
    BY <1>4, <2>1 DEF Trig!endRun, Trig!recollect
  <2>2. ASSUME NEW ending \in Trig!Endings, Trig!complete(ending) PROVE NeverParked'
    BY <1>4, <2>2 DEF Trig!endRun, Trig!complete, Trig!answer
  <2>. QED  BY <1>4, <2>1, <2>2 DEF Trig!endRun
<1>5. CASE Trig!checkContext
  BY <1>5 DEF Trig!checkContext
<1>6. CASE Trig!closeWaiters
  BY <1>6 DEF Trig!closeWaiters, Trig!answer
<1>7. CASE Trig!closeDone
  BY <1>7 DEF Trig!closeDone
<1>8. CASE Trig!trigger
  BY <1>8 DEF Trig!trigger
<1>9. CASE Trig!lifecycleEnds
  BY <1>9 DEF Trig!lifecycleEnds
<1>10. CASE Trig!shutdown
  BY <1>10 DEF Trig!shutdown, Trig!stop
<1>11. CASE Trig!shutdownJoins
  BY <1>11 DEF Trig!shutdownJoins
<1>12. CASE Trig!shutdownTimeout
  BY <1>12 DEF Trig!shutdownTimeout
<1>13. ASSUME NEW c \in Callers, Trig!request(c) PROVE NeverParked'
  <2>a. Trig!target > nextID => wake = 0
    BY DEF Trig!target
  <2>. QED  BY <1>13, <2>a DEF Trig!request
<1>14. ASSUME NEW c \in Callers, Trig!contextEnds(c) PROVE NeverParked'
  BY <1>14 DEF Trig!contextEnds
<1>15. ASSUME NEW c \in Callers, Trig!takeAnswer(c) PROVE NeverParked'
  BY <1>15 DEF Trig!takeAnswer
<1>16. ASSUME NEW c \in Callers, Trig!seeDone(c) PROVE NeverParked'
  BY <1>16 DEF Trig!seeDone
<1>17. ASSUME NEW c \in Callers, Trig!seeContext(c) PROVE NeverParked'
  BY <1>17 DEF Trig!seeContext
<1>18. ASSUME NEW c \in Callers, Trig!removeWaiter(c) PROVE NeverParked'
  BY <1>18 DEF Trig!removeWaiter
<1>19. CASE UNCHANGED Trig!vars
  BY <1>19 DEF Trig!vars, Trig!queue, Trig!calls
<1>. QED
  BY <1>1, <1>2, <1>3, <1>4, <1>5, <1>6, <1>7, <1>8, <1>9, <1>10,
     <1>11, <1>12, <1>13, <1>14, <1>15, <1>16, <1>17, <1>18, <1>19
  DEF Trig!Next, Trig!LoopStep, Trig!CallerStep

\* Every variable keeps its type.
LEMMA TriggerTypeStep ==
  ASSUME TriggerInv, [Trig!Next]_(Trig!vars)
  PROVE  Trig!TypeOK'
<1>a. Bounded /\ Trig!TypeOK /\ RunIdInv
  BY DEF TriggerInv
<1>b. /\ Trig!IDs = 1..Trig!Cardinality(Trig!IDs) /\ Trig!Cardinality(Trig!IDs) \in Nat
      /\ Trig!NoAnswer \in Trig!Answer
  BY <1>a, RunBounds DEF Trig!NoAnswer, Trig!Unserved, Trig!Answer
<1>. USE <1>a, <1>b DEF Bounded, Trig!TypeOK, RunIdInv, Trig!enqueue, Trig!queue, Trig!calls
<1>1. CASE Trig!receiveWake
  BY <1>1 DEF Trig!receiveWake
<1>2. CASE Trig!seeCancelled
  BY <1>2 DEF Trig!seeCancelled
<1>3. CASE Trig!beginRun
  BY <1>3 DEF Trig!beginRun
<1>4. CASE Trig!endRun
  <2>1. CASE Trig!recollect
    BY <1>4, <2>1, TargetFits DEF Trig!endRun, Trig!recollect, Trig!movedTo
  <2>2. ASSUME NEW ending \in Trig!Endings, Trig!complete(ending) PROVE Trig!TypeOK'
    <3>. DEFINE a == [err |-> IF ending = "error" THEN "error" ELSE "nil",
                      run |-> begun, ending |-> ending]
    <3>2. a \in Trig!Answer
      BY DEF Trig!Answer
    <3>3. /\ wait' \in [Callers -> Seq(Trig!Answer)]
          /\ \A c \in Callers : Len(wait'[c]) <= 1
      BY <2>2, <3>2 DEF Trig!complete, Trig!answer
    <3>. QED  BY <1>4, <2>2, <3>3 DEF Trig!endRun, Trig!complete, Trig!answer
  <2>. QED  BY <1>4, <2>1, <2>2 DEF Trig!endRun
<1>5. CASE Trig!checkContext
  BY <1>5 DEF Trig!checkContext
<1>6. CASE Trig!closeWaiters
  BY <1>6 DEF Trig!closeWaiters, Trig!answer
<1>7. CASE Trig!closeDone
  BY <1>7 DEF Trig!closeDone
<1>8. CASE Trig!trigger
  BY <1>8, TargetFits DEF Trig!trigger
<1>9. CASE Trig!lifecycleEnds
  BY <1>9 DEF Trig!lifecycleEnds
<1>10. CASE Trig!shutdown
  BY <1>10 DEF Trig!shutdown, Trig!stop
<1>11. CASE Trig!shutdownJoins
  BY <1>11 DEF Trig!shutdownJoins
<1>12. CASE Trig!shutdownTimeout
  BY <1>12 DEF Trig!shutdownTimeout
<1>13. ASSUME NEW c \in Callers, Trig!request(c) PROVE Trig!TypeOK'
  <2>a. Trig!target \in Trig!IDs /\ Trig!target \in Nat /\ Trig!target >= 1
    BY <1>13, TargetFits DEF Trig!request
  <2>1. CASE stopped
    BY <1>13, <2>1 DEF Trig!request, Trig!return, Trig!NoAnswer, Trig!Unserved
  <2>2. CASE ~stopped /\ nilMap
    BY <1>13, <2>2, <2>a DEF Trig!request, Trig!return, Trig!NoAnswer, Trig!Unserved
  <2>3. CASE ~stopped /\ ~nilMap
    <3>1. waiters' \in [Trig!IDs -> SUBSET Callers]
      <4>1. waiters' = [waiters EXCEPT ![Trig!target] = @ \cup {c}]
        BY <1>13, <2>3 DEF Trig!request
      <4>2. /\ waiters \in [Trig!IDs -> SUBSET Callers]
            /\ waiters[Trig!target] \cup {c} \in SUBSET Callers
        BY <2>a
      <4>. QED  BY <4>1, <4>2
    <3>2. /\ pc' \in [Callers -> {"idle", "waiting", "leaving", "returned"}]
          /\ since' \in [Callers -> 0..Trig!Cardinality(Trig!IDs)]
      <4>1. /\ pc' = [pc EXCEPT ![c] = "waiting"]
            /\ since' = [since EXCEPT ![c] = begun]
        BY <1>13, <2>3 DEF Trig!request
      <4>. QED  BY <4>1
    <3>3. /\ wake' \in {0} \cup Trig!IDs /\ queuedID' \in {0} \cup Trig!IDs
          /\ nextID' \in {0} \cup Trig!IDs /\ parked' \in BOOLEAN
      BY <1>13, <2>3, <2>a DEF Trig!request
    <3>. QED  BY <1>13, <2>3, <3>1, <3>2, <3>3 DEF Trig!request
  <2>. QED  BY <1>13, <2>1, <2>2, <2>3
<1>14. ASSUME NEW c \in Callers, Trig!contextEnds(c) PROVE Trig!TypeOK'
  BY <1>14 DEF Trig!contextEnds
<1>15. ASSUME NEW c \in Callers, Trig!takeAnswer(c) PROVE Trig!TypeOK'
  BY <1>15 DEF Trig!takeAnswer, Trig!return
<1>16. ASSUME NEW c \in Callers, Trig!seeDone(c) PROVE Trig!TypeOK'
  BY <1>16 DEF Trig!seeDone, Trig!return
<1>17. ASSUME NEW c \in Callers, Trig!seeContext(c) PROVE Trig!TypeOK'
  BY <1>17 DEF Trig!seeContext
<1>18. ASSUME NEW c \in Callers, Trig!removeWaiter(c) PROVE Trig!TypeOK'
  BY <1>18 DEF Trig!removeWaiter, Trig!return, Trig!without, Trig!Unserved
<1>19. CASE UNCHANGED Trig!vars
  BY <1>19 DEF Trig!vars, Trig!queue, Trig!calls
<1>. QED
  BY <1>1, <1>2, <1>3, <1>4, <1>5, <1>6, <1>7, <1>8, <1>9, <1>10,
     <1>11, <1>12, <1>13, <1>14, <1>15, <1>16, <1>17, <1>18, <1>19
  DEF Trig!Next, Trig!LoopStep, Trig!CallerStep

\* Waiters are added once, moved as a whole, and leave when they are answered.
LEMMA WaiterStep ==
  ASSUME TriggerInv, [Trig!Next]_(Trig!vars)
  PROVE  WaiterInv'
<1>a. Bounded /\ Trig!TypeOK /\ RunIdInv /\ WaiterInv
  BY DEF TriggerInv
<1>. USE <1>a DEF Trig!TypeOK, RunIdInv, WaiterInv, Trig!queue, Trig!calls
<1>1. CASE Trig!receiveWake
  BY <1>1 DEF Trig!receiveWake
<1>2. CASE Trig!seeCancelled
  BY <1>2 DEF Trig!seeCancelled
<1>3. CASE Trig!beginRun
  BY <1>3 DEF Trig!beginRun
<1>4. CASE Trig!endRun
  <2>a. id \in Trig!IDs /\ Trig!target # id
    BY <1>4 DEF Trig!endRun, Trig!target
  <2>1. CASE Trig!recollect
    <3>1. Trig!target \in Trig!IDs
      BY <2>1, TargetFits DEF Trig!recollect
    <3>2. /\ waiters' = [waiters EXCEPT ![Trig!target] = @ \cup waiters[id], ![id] = {}]
          /\ UNCHANGED <<pc, wait, outcome>>
      BY <1>4, <2>1 DEF Trig!endRun, Trig!recollect, Trig!movedTo
    <3>3. \A i \in Trig!IDs : waiters'[i] =
            IF i = id THEN {}
            ELSE IF i = Trig!target THEN waiters[Trig!target] \cup waiters[id] ELSE waiters[i]
      BY <2>a, <3>1, <3>2
    <3>. QED  BY <2>a, <3>1, <3>2, <3>3
  <2>2. ASSUME NEW ending \in Trig!Endings, Trig!complete(ending) PROVE WaiterInv'
    BY <1>4, <2>2, <2>a DEF Trig!endRun, Trig!complete, Trig!answer
  <2>. QED  BY <1>4, <2>1, <2>2 DEF Trig!endRun
<1>5. CASE Trig!checkContext
  BY <1>5 DEF Trig!checkContext
<1>6. CASE Trig!closeWaiters
  BY <1>6 DEF Trig!closeWaiters, Trig!answer
<1>7. CASE Trig!closeDone
  BY <1>7 DEF Trig!closeDone
<1>8. CASE Trig!trigger
  BY <1>8 DEF Trig!trigger
<1>9. CASE Trig!lifecycleEnds
  BY <1>9 DEF Trig!lifecycleEnds
<1>10. CASE Trig!shutdown
  BY <1>10 DEF Trig!shutdown, Trig!stop
<1>11. CASE Trig!shutdownJoins
  BY <1>11 DEF Trig!shutdownJoins
<1>12. CASE Trig!shutdownTimeout
  BY <1>12 DEF Trig!shutdownTimeout
<1>13. ASSUME NEW c \in Callers, Trig!request(c) PROVE WaiterInv'
  <2>a. Trig!target \in Trig!IDs /\ (loop = "run" => Trig!target # id) /\ pc[c] = "idle"
    BY <1>13, TargetFits DEF Trig!request, Trig!target
  <2>1. CASE stopped
    BY <1>13, <2>1 DEF Trig!request, Trig!return, Trig!NoAnswer, Trig!Unserved
  <2>2. CASE ~stopped /\ nilMap
    BY <1>13, <2>2, <2>a DEF Trig!request, Trig!return, Trig!NoAnswer, Trig!Unserved
  <2>3. CASE ~stopped /\ ~nilMap
    <3>1. /\ waiters' = [waiters EXCEPT ![Trig!target] = @ \cup {c}]
          /\ pc' = [pc EXCEPT ![c] = "waiting"] /\ UNCHANGED <<wait, outcome>>
      BY <1>13, <2>3 DEF Trig!request
    <3>2. \A i \in Trig!IDs : c \notin waiters[i]
      BY <2>a
    <3>3. \A i \in Trig!IDs : \A d \in waiters'[i] :
            IF d = c THEN i = Trig!target ELSE d \in waiters[i]
      BY <2>a, <3>1, <3>2
    <3>4. wait[c] = <<>>
      BY <2>a
    <3>5. pc' \in [Callers -> {"idle", "waiting", "leaving", "returned"}]
          /\ pc'[c] = "waiting" /\ \A d \in Callers \ {c} : pc'[d] = pc[d]
      BY <3>1
    <3>6. \A i \in Trig!IDs : \A d \in waiters'[i] :
            d \in Callers /\ pc'[d] # "idle" /\ wait'[d] = <<>>
      BY <3>1, <3>3, <3>4, <3>5
    <3>. QED  BY <3>1, <3>2, <3>3, <3>5, <3>6
  <2>. QED  BY <1>13, <2>1, <2>2, <2>3
<1>14. ASSUME NEW c \in Callers, Trig!contextEnds(c) PROVE WaiterInv'
  BY <1>14 DEF Trig!contextEnds
<1>15. ASSUME NEW c \in Callers, Trig!takeAnswer(c) PROVE WaiterInv'
  BY <1>15 DEF Trig!takeAnswer, Trig!return, Trig!NoAnswer, Trig!Unserved
<1>16. ASSUME NEW c \in Callers, Trig!seeDone(c) PROVE WaiterInv'
  BY <1>16 DEF Trig!seeDone, Trig!return, Trig!NoAnswer, Trig!Unserved
<1>17. ASSUME NEW c \in Callers, Trig!seeContext(c) PROVE WaiterInv'
  BY <1>17 DEF Trig!seeContext
<1>18. ASSUME NEW c \in Callers, Trig!removeWaiter(c) PROVE WaiterInv'
  BY <1>18 DEF Trig!removeWaiter, Trig!return, Trig!without, Trig!NoAnswer, Trig!Unserved
<1>19. CASE UNCHANGED Trig!vars
  BY <1>19 DEF Trig!vars, Trig!queue, Trig!calls
<1>. QED
  BY <1>1, <1>2, <1>3, <1>4, <1>5, <1>6, <1>7, <1>8, <1>9, <1>10,
     <1>11, <1>12, <1>13, <1>14, <1>15, <1>16, <1>17, <1>18, <1>19
  DEF Trig!Next, Trig!LoopStep, Trig!CallerStep

\* Nobody joins the run that is under way.
LEMMA AnswerStep ==
  ASSUME TriggerInv, [Trig!Next]_(Trig!vars)
  PROVE  AnswerInv'
<1>a. Bounded /\ Trig!TypeOK /\ RunIdInv /\ WaiterInv /\ AnswerInv
  BY DEF TriggerInv
<1>b. Trig!IDs = 1..Trig!Cardinality(Trig!IDs) /\ Trig!Cardinality(Trig!IDs) \in Nat
  BY <1>a, RunBounds
<1>. USE <1>a, <1>b DEF Bounded, Trig!TypeOK, RunIdInv, WaiterInv, AnswerInv,
                        Trig!FreshCycle, Trig!queue, Trig!calls
<1>1. CASE Trig!receiveWake
  BY <1>1 DEF Trig!receiveWake
<1>2. CASE Trig!seeCancelled
  BY <1>2 DEF Trig!seeCancelled
<1>3. CASE Trig!beginRun
  BY <1>3 DEF Trig!beginRun
<1>4. CASE Trig!endRun
  <2>a. id \in Trig!IDs /\ Trig!target # id
    BY <1>4 DEF Trig!endRun, Trig!target
  <2>1. CASE Trig!recollect
    <3>1. Trig!target \in Trig!IDs
      BY <2>1, TargetFits DEF Trig!recollect
    <3>. QED  BY <1>4, <2>1, <2>a, <3>1 DEF Trig!endRun, Trig!recollect, Trig!movedTo
  <2>2. ASSUME NEW ending \in Trig!Endings, Trig!complete(ending) PROVE AnswerInv'
    BY <1>4, <2>2, <2>a DEF Trig!endRun, Trig!complete, Trig!answer
  <2>. QED  BY <1>4, <2>1, <2>2 DEF Trig!endRun
<1>5. CASE Trig!checkContext
  BY <1>5 DEF Trig!checkContext
<1>6. CASE Trig!closeWaiters
  BY <1>6 DEF Trig!closeWaiters, Trig!answer, Trig!NoAnswer, Trig!Unserved
<1>7. CASE Trig!closeDone
  BY <1>7 DEF Trig!closeDone
<1>8. CASE Trig!trigger
  BY <1>8 DEF Trig!trigger
<1>9. CASE Trig!lifecycleEnds
  BY <1>9 DEF Trig!lifecycleEnds
<1>10. CASE Trig!shutdown
  BY <1>10 DEF Trig!shutdown, Trig!stop
<1>11. CASE Trig!shutdownJoins
  BY <1>11 DEF Trig!shutdownJoins
<1>12. CASE Trig!shutdownTimeout
  BY <1>12 DEF Trig!shutdownTimeout
<1>13. ASSUME NEW c \in Callers, Trig!request(c) PROVE AnswerInv'
  <2>1. /\ pc[c] = "idle" /\ wait[c] = <<>> /\ outcome[c].run = 0
        /\ UNCHANGED <<loop, id, begun, wait>>
    BY <1>13 DEF Trig!request
  <2>2. \A d \in Callers : outcome'[d].run # 0 => outcome'[d] = outcome[d]
    BY <1>13 DEF Trig!request, Trig!return, Trig!NoAnswer, Trig!Unserved
  <2>3. /\ \A d \in Callers \ {c} : since'[d] = since[d]
        /\ since'[c] \in {since[c], begun}
    BY <1>13 DEF Trig!request
  <2>4. ASSUME loop = "run" PROVE /\ id \in Trig!IDs /\ c \notin waiters[id]
                                 /\ waiters'[id] = waiters[id]
    <3>1. id \in Trig!IDs /\ Trig!target # id
      BY <2>4 DEF Trig!target
    <3>. QED  BY <1>13, <3>1 DEF Trig!request
  <2>5. ASSUME NEW d \in Callers PROVE since'[d] <= begun'
    <3>1. since[d] <= begun /\ begun <= begun
      OBVIOUS
    <3>. QED  BY <2>1, <2>3, <3>1
  <2>6. loop' = "run" => \A d \in waiters'[id'] : since'[d] < begun'
    BY <2>1, <2>3, <2>4
  <2>7. \A d \in Callers :
          wait'[d] # <<>> /\ wait'[d][1].run # 0 => since'[d] < wait'[d][1].run
    BY <2>1, <2>3
  <2>8. \A d \in Callers : outcome'[d].run # 0 => d # c
    BY <1>13, <2>1, <2>2
  <2>. QED  BY <2>2, <2>3, <2>5, <2>6, <2>7, <2>8
<1>14. ASSUME NEW c \in Callers, Trig!contextEnds(c) PROVE AnswerInv'
  BY <1>14 DEF Trig!contextEnds
<1>15. ASSUME NEW c \in Callers, Trig!takeAnswer(c) PROVE AnswerInv'
  BY <1>15 DEF Trig!takeAnswer, Trig!return, Trig!NoAnswer, Trig!Unserved
<1>16. ASSUME NEW c \in Callers, Trig!seeDone(c) PROVE AnswerInv'
  BY <1>16 DEF Trig!seeDone, Trig!return, Trig!NoAnswer, Trig!Unserved
<1>17. ASSUME NEW c \in Callers, Trig!seeContext(c) PROVE AnswerInv'
  BY <1>17 DEF Trig!seeContext
<1>18. ASSUME NEW c \in Callers, Trig!removeWaiter(c) PROVE AnswerInv'
  BY <1>18 DEF Trig!removeWaiter, Trig!return, Trig!without, Trig!NoAnswer, Trig!Unserved
<1>19. CASE UNCHANGED Trig!vars
  BY <1>19 DEF Trig!vars, Trig!queue, Trig!calls
<1>. QED
  BY <1>1, <1>2, <1>3, <1>4, <1>5, <1>6, <1>7, <1>8, <1>9, <1>10,
     <1>11, <1>12, <1>13, <1>14, <1>15, <1>16, <1>17, <1>18, <1>19
  DEF Trig!Next, Trig!LoopStep, Trig!CallerStep

-----------------------------------------------------------------------------
(* Theorems *)

\* The invariant holds in every reachable state.
THEOREM TriggerInductive == Trig!TriggerAssumption => (Trig!Spec => []TriggerInv)
<1>1. Trig!TriggerAssumption /\ Trig!Init => TriggerInv
  <2>. SUFFICES ASSUME Bounded, Trig!Init PROVE TriggerInv
    BY TriggerIsBounded
  <2>1. Asked = {}
    BY DEF Trig!Init, Asked
  <2>2. Cardinality(Asked) = 0
    BY <2>1, FS_EmptySet
  <2>3. Trig!Cardinality(Trig!IDs) \in Nat
    BY RunIds
  <2>4. Trig!TypeOK
    <3>1. /\ wait \in [Callers -> Seq(Trig!Answer)]
          /\ \A c \in Callers : Len(wait[c]) <= 1
      BY DEF Trig!Init
    <3>2. outcome \in [Callers -> {Trig!Unserved("none")}]
      BY DEF Trig!Init
    <3>3. /\ pc \in [Callers -> {"idle"}] /\ since \in [Callers -> {0}]
          /\ waiters \in [Trig!IDs -> {{}}]
      BY DEF Trig!Init
    <3>4. /\ since \in [Callers -> 0..Trig!Cardinality(Trig!IDs)]
          /\ begun \in 0..Trig!Cardinality(Trig!IDs)
      BY <2>3, <3>3 DEF Trig!Init
    <3>. QED  BY <3>1, <3>2, <3>3, <3>4 DEF Trig!Init, Trig!TypeOK
  <2>5. RunIdInv
    BY <2>2, RunIds DEF Trig!Init, RunIdInv
  <2>6. NeverParked /\ WaiterInv
    BY DEF Trig!Init, NeverParked, WaiterInv, Trig!Unserved
  <2>7. AnswerInv
    BY DEF Trig!Init, AnswerInv, Trig!FreshCycle, Trig!Unserved
  <2>. QED  BY <2>4, <2>5, <2>6, <2>7 DEF TriggerInv
<1>2. TriggerInv /\ [Trig!Next]_(Trig!vars) => TriggerInv'
  BY TriggerTypeStep, ParkStep, RunIdStep, WaiterStep, AnswerStep DEF TriggerInv
<1>. QED  BY <1>1, <1>2, PTL DEF Trig!Spec

\* Every variable of the trigger, its loop and its callers has its type, channels
\* of capacity one included.
THEOREM TriggerTypes == Trig!TriggerAssumption => (Trig!Spec => []Trig!TypeOK)
BY TriggerInductive, PTL DEF TriggerInv

\* Neither a request nor the loop ever sends on a full channel with r.mu held
\* (request, recollect, the deferred function of loop).
THEOREM NeverParks == Trig!TriggerAssumption => (Trig!Spec => []NeverParked)
BY TriggerInductive, PTL DEF TriggerInv

\* A waiter that is told of a cycle is told of one that began after it asked
\* (triggerAndWait, loop).
THEOREM AnswersAreFresh == Trig!TriggerAssumption => (Trig!Spec => []Trig!FreshCycle)
<1>1. TriggerInv => Trig!FreshCycle
  BY DEF TriggerInv, AnswerInv
<1>. QED  BY <1>1, TriggerInductive, PTL

=============================================================================
