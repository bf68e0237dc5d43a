----------------------- MODULE OperatorMutationsProofs -----------------------
(***************************************************************************)
(* TLAPS proofs about OperatorMutations, for any requests, any scenes and  *)
(* any bounds.                                                             *)
(***************************************************************************)
EXTENDS OperatorMutations, FiniteSetTheorems, SequenceTheorems, WellFoundedInduction, TLAPS

-----------------------------------------------------------------------------
(* The invariant *)

Started == {"cleanup-started", "completed"}
underway(x) == open(x) /\ ~waiting(x)

\* What an effect of a kind does to the world, and nothing in the model undoes.
Done(kind) ==
  CASE kind = "stop"    -> ~process
    [] kind = "cleanup" -> ~tree
    [] kind = "failure" -> github.terminal
    [] OTHER            -> github.retry

\* A receipt under way is in a phase of its action's, and its effect is of the
\* current generation; a cleanup is the tombstone's, and a stop was begun by the
\* action that waits for it. Success names the effect that achieved it.
Bound(L, x) ==
  /\ underway(x) => /\ x.effect \in DOMAIN L.effects
                    /\ L.effects[x.effect].gen = L.gen
  /\ x.phase \in {"cleanup-pending", "cleanup-started"} =>
       L.tomb.action = asks[x.id] /\ L.tomb.effect = x.effect
  /\ x.phase = "stop-pending" =>
       asks[x.id] \in {"cancel", "recover"} /\ asks[x.id] = L.effects[x.effect].by
  /\ x.phase \in {"terminal-awaiting", "terminal-pending", "retry-awaiting",
                  "retry-pending"} => asks[x.id] = "recover"
  /\ x.result = "ok" => x.effect # 0
BoundReceipts(L) == \A i \in DOMAIN L.receipts : Bound(L, L.receipts[i])

\* A cleanup is the tombstone's; a completed effect has changed the world, and a
\* retry follows a terminal failure.
SoundEffects(L) ==
  \A e \in DOMAIN L.effects :
    LET x == L.effects[e] IN
    /\ x.kind = "cleanup" => L.tomb.action # "none" /\ L.tomb.effect = e
    /\ x.kind = "retry" => github.terminal
    /\ x.status = "completed" => Done(x.kind)

SoundTombstone(L) ==
  IF L.tomb.action = "none"
  THEN L.tomb.effect = 0 /\ L.tomb.phase = "none"
  ELSE L.tomb.action \in Destructive /\ L.tomb.phase # "none"

Sound(L) ==
  /\ BoundReceipts(L) /\ SoundEffects(L) /\ SoundTombstone(L)
  /\ L.facts.terminal => github.terminal

\* A thread asks for what its request is about.
Planned(r, t) ==
  /\ t.plan = "stop" => asks[r] \in {"cancel", "recover"}
  /\ t.plan = "cleanup" => asks[r] \in Destructive
  /\ t.plan \in {"retry", "attach"} => asks[r] = "recover"
  /\ t.plan = "retry" => github.terminal
AdmitInv == \A t \in Callers : admit[t].pc = "begin" => Planned(t[2], admit[t])

\* A goroutine works on an effect there is. A cleanup that acts is announced, and
\* what is to be committed, or has left a marker, is done.
ExecInv ==
  /\ \A e \in Effects : exec[e].pc # "idle" =>
       /\ e \in DOMAIN ledger.effects
       /\ exec[e].pc = "act" /\ ledger.effects[e].kind = "cleanup" =>
            ledger.tomb.phase \in Started
       /\ exec[e].pc = "finish" => Done(ledger.effects[e].kind)
  /\ \A e \in markers : /\ e \in DOMAIN ledger.effects
                        /\ Done(ledger.effects[e].kind)

MutationInv ==
  /\ TypeOK /\ valid(ledger) /\ Sound(ledger)
  /\ AdmitInv /\ ExecInv /\ NothingUnannounced

\* Receipts of the second ledger come from the first, where they may have been
\* open, or answer one of the requests I.
Derived(L, N, I) ==
  \A i \in DOMAIN N.receipts :
    \/ N.receipts[i].id \in I
    \/ \E j \in DOMAIN L.receipts :
         /\ L.receipts[j].id = N.receipts[i].id
         /\ open(L.receipts[j]) \/ N.receipts[i] = L.receipts[j]

\* Effects stay what they are, and a tombstone stays.
Follows(L, N, I) ==
  /\ DOMAIN L.effects \subseteq DOMAIN N.effects
  /\ \A e \in DOMAIN L.effects : N.effects[e].kind = L.effects[e].kind
  /\ L.tomb.action # "none" =>
       N.tomb.action = L.tomb.action /\ N.tomb.effect = L.tomb.effect
  /\ L.tomb.phase \in Started => N.tomb.phase \in Started
  /\ Derived(L, N, I)
-----------------------------------------------------------------------------
(* Sequences *)

\* A set of natural numbers that is not empty has a least.
LEMMA LeastNatural ==
  ASSUME NEW S, S \subseteq Nat, S # {}
  PROVE  Min(S) \in S /\ \A u \in S : Min(S) <= u
<1>1. IsWellFoundedOn(OpToRel(<, Nat), Nat)
  BY NatLessThanWellFounded
<1>2. PICK t \in S : \A u \in S : ~(<<u, t>> \in OpToRel(<, Nat))
  BY <1>1, WFMin
<1>3. ASSUME NEW u \in S
      PROVE  t <= u
  <2>1. u < t => <<u, t>> \in OpToRel(<, Nat)
    BY DEF OpToRel
  <2>2. ~(u < t)
    BY <2>1, <1>2, Zenon
  <2>. QED  BY <2>2
<1>. QED  BY <1>3 DEF Min

\* The elements of a finite set of numbers have ranks, and every rank is of one.
LEMMA Ranks ==
  ASSUME NEW n \in Nat, NEW K, K \subseteq 1..n
  PROVE  /\ IsFiniteSet(K) /\ Cardinality(K) \in Nat
         /\ \A m \in 1..Cardinality(K) :
              \E k \in K : Cardinality({j \in K : j <= k}) = m
         /\ \A k \in K : Cardinality({j \in K : j <= k}) \in 1..Cardinality(K)
         /\ \A k, l \in K : Cardinality({j \in K : j <= k})
                              = Cardinality({j \in K : j <= l}) => k = l
<1>. DEFINE upTo(k) == {j \in K : j <= k}
            c == Cardinality(K)
            rank == [k \in K |-> Cardinality(upTo(k))]
<1>1. IsFiniteSet(K) /\ c \in Nat
  <2>1. IsFiniteSet(1..n)
    BY FS_Interval
  <2>. QED  BY <2>1, FS_Subset, FS_CardinalityType
<1>2. \A k \in K : IsFiniteSet(upTo(k)) /\ Cardinality(upTo(k)) \in Nat /\ Cardinality(upTo(k)) <= c
  <2>1. \A k \in K : upTo(k) \subseteq K
    OBVIOUS
  <2>. QED  BY <1>1, <2>1, FS_Subset, FS_CardinalityType
<1>3. \A k \in K : Cardinality(upTo(k)) \in 1..c
  <2>. SUFFICES ASSUME NEW k \in K PROVE Cardinality(upTo(k)) # 0
    BY <1>1, <1>2
  <2>1. k \in upTo(k)
    OBVIOUS
  <2>. QED  BY <2>1, <1>2, FS_EmptySet
<1>4. ASSUME NEW k \in K, NEW l \in K, k < l
      PROVE  Cardinality(upTo(k)) # Cardinality(upTo(l))
  <2>1. upTo(k) \subseteq upTo(l) /\ upTo(k) # upTo(l)
    <3>1. l \in upTo(l) /\ l \notin upTo(k)
      BY <1>4
    <3>2. \A j \in K : j <= k => j <= l
      BY <1>4
    <3>. QED  BY <3>1, <3>2
  <2>. QED  BY <2>1, <1>2, FS_Subset
<1>5. \A k, l \in K : Cardinality(upTo(k)) = Cardinality(upTo(l)) => k = l
  BY <1>4
<1>6. rank \in Injection(K, 1..c)
  BY <1>3, <1>5 DEF Injection, IsInjective
<1>7. \A m \in 1..c : \E k \in K : rank[k] = m
  <2>1. IsFiniteSet(1..c) /\ Cardinality(1..c) = c
    BY <1>1, FS_Interval
  <2>2. rank \in Surjection(K, 1..c)
    BY <2>1, <1>6, FS_Injection
  <2>. QED  BY <2>2 DEF Surjection
<1>. QED
  BY <1>1, <1>3, <1>5, <1>7

\* without keeps what it does not delete, each once and in a place of its own.
Remains(w, s, D) ==
  /\ w \in Seq(Receipt) /\ Len(w) = Cardinality(DOMAIN s \ D)
  /\ \E at \in [DOMAIN w -> DOMAIN s \ D] :
       /\ \A m \in DOMAIN w : w[m] = s[at[m]]
       /\ \A m, p \in DOMAIN w : at[m] = at[p] => m = p
       /\ \A k \in DOMAIN s \ D : \E m \in DOMAIN w : at[m] = k

LEMMA WithoutRemains ==
  ASSUME NEW s \in Seq(Receipt), NEW D
  PROVE  Remains(without(s, D), s, D)
<1>. DEFINE w == without(s, D)
<1>. DEFINE K == DOMAIN s \ D
            c == Cardinality(K)
            nth(m) == CHOOSE k \in K : Cardinality({j \in K : j <= k}) = m
            at == [m \in 1..c |-> nth(m)]
<1>1. Len(s) \in Nat /\ K \subseteq 1..Len(s) /\ DOMAIN s = 1..Len(s)
  OBVIOUS
<1>2. /\ c \in Nat
      /\ \A m \in 1..c : \E k \in K : Cardinality({j \in K : j <= k}) = m
      /\ \A k \in K : Cardinality({j \in K : j <= k}) \in 1..c
      /\ \A k, l \in K : Cardinality({j \in K : j <= k})
                           = Cardinality({j \in K : j <= l}) => k = l
  BY <1>1, Ranks
<1>3. \A m \in 1..c : at[m] \in K /\ Cardinality({j \in K : j <= at[m]}) = m
  <2>. SUFFICES ASSUME NEW m \in 1..c
                PROVE  at[m] \in K /\ Cardinality({j \in K : j <= at[m]}) = m
    OBVIOUS
  <2>1. at[m] = CHOOSE k \in K : Cardinality({j \in K : j <= k}) = m
    OBVIOUS
  <2>. HIDE DEF at
  <2>2. \E k \in K : Cardinality({j \in K : j <= k}) = m
    BY <1>2
  <2>. QED  BY <2>1, <2>2
<1>4. w = [m \in 1..c |-> s[at[m]]]
  BY DEF without
<1>. HIDE DEF nth
<1>a. at = [m \in 1..c |-> at[m]]
  OBVIOUS
<1>. HIDE DEF at
<1>. HIDE DEF w
<1>5. \A m \in 1..c : s[at[m]] \in Receipt
  <2>1. \A k \in K : s[k] \in Receipt
    BY <1>1
  <2>. HIDE DEF K
  <2>. QED  BY <1>3, <2>1
<1>6. w \in Seq(Receipt) /\ Len(w) = c /\ DOMAIN w = 1..c
  <2>. HIDE DEF c
  <2>. QED  BY <1>2, <1>4, <1>5
<1>7. \A k \in K : \E m \in DOMAIN w : at[m] = k
  <2>. SUFFICES ASSUME NEW k \in K
                PROVE  \E m \in DOMAIN w : at[m] = k
    OBVIOUS
  <2>. DEFINE m == Cardinality({j \in K : j <= k})
  <2>1. m \in DOMAIN w
    BY <1>2, <1>6
  <2>2. at[m] = k
    <3>1. at[m] \in K /\ Cardinality({j \in K : j <= at[m]}) = m
      BY <2>1, <1>3, <1>6
    <3>. QED  BY <3>1, <1>2
  <2>. QED  BY <2>1, <2>2
<1>8. \A m, p \in DOMAIN w : at[m] = at[p] => m = p
  <2>. SUFFICES ASSUME NEW m \in DOMAIN w, NEW p \in DOMAIN w, at[m] = at[p]
                PROVE  m = p
    OBVIOUS
  <2>1. /\ Cardinality({j \in K : j <= at[m]}) = m
        /\ Cardinality({j \in K : j <= at[p]}) = p
    BY <1>3, <1>6
  <2>. QED  BY <2>1
<1>9. at \in [DOMAIN w -> K]
  <2>2. \A m \in DOMAIN w : at[m] \in K
    BY <1>3, <1>6
  <2>3. at = [m \in DOMAIN w |-> at[m]]
    BY <1>a, <1>6
  <2>. HIDE DEF K, c
  <2>. QED  BY <2>2, <2>3
<1>10. \A m \in DOMAIN w : w[m] = s[at[m]]
  BY <1>4, <1>6
<1>. HIDE DEF K, c
<1>11. \E f \in [DOMAIN w -> K] :
         /\ \A m \in DOMAIN w : w[m] = s[f[m]]
         /\ \A m, p \in DOMAIN w : f[m] = f[p] => m = p
         /\ \A k \in K : \E m \in DOMAIN w : f[m] = k
  BY <1>7, <1>8, <1>9, <1>10
<1>12. Remains(w, s, D)
  BY <1>6, <1>11 DEF K, c, Remains
<1>. QED  BY <1>12 DEF w

LEMMA WithoutKeeps ==
  ASSUME NEW s, NEW D, NEW w, Remains(w, s, D)
  PROVE  /\ w \in Seq(Receipt)
         /\ \A m \in DOMAIN w : \E k \in DOMAIN s : k \notin D /\ w[m] = s[k]
         /\ \A k \in DOMAIN s : k \notin D => \E m \in DOMAIN w : w[m] = s[k]
<1>1. w \in Seq(Receipt)
  BY DEF Remains
<1>2. PICK at \in [DOMAIN w -> DOMAIN s \ D] :
         /\ \A m \in DOMAIN w : w[m] = s[at[m]]
         /\ \A k \in DOMAIN s \ D : \E m \in DOMAIN w : at[m] = k
  BY DEF Remains
<1>. QED  BY <1>1, <1>2

\* It is no longer than it was, and shorter when something is deleted.
LEMMA WithoutShortens ==
  ASSUME NEW s \in Seq(Receipt), NEW D
  PROVE  /\ Len(without(s, D)) <= Len(s)
         /\ D \cap DOMAIN s # {} => Len(without(s, D)) < Len(s)
<1>. DEFINE K == DOMAIN s \ D
<1>1. Len(s) \in Nat /\ DOMAIN s = 1..Len(s) /\ K \subseteq DOMAIN s
  OBVIOUS
<1>2. IsFiniteSet(DOMAIN s) /\ Cardinality(DOMAIN s) = Len(s)
  <2>1. \A n \in Nat : IsFiniteSet(1..n) /\ Cardinality(1..n) = n
    BY FS_Interval
  <2>. QED  BY <1>1, <2>1
<1>3. Len(without(s, D)) = Cardinality(K)
  <2>1. Remains(without(s, D), s, D)
    BY WithoutRemains
  <2>. QED  BY <2>1 DEF Remains
<1>4. Cardinality(K) \in Nat /\ Cardinality(K) <= Len(s)
  BY <1>1, <1>2, FS_Subset, FS_CardinalityType
<1>5. D \cap DOMAIN s # {} => Cardinality(K) # Len(s)
  <2>1. D \cap DOMAIN s # {} => K # DOMAIN s
    OBVIOUS
  <2>. QED  BY <2>1, <1>1, <1>2, FS_Subset
<1>. QED  BY <1>1, <1>3, <1>4, <1>5

-----------------------------------------------------------------------------
(* Ledgers *)

LEMMA LedgerFields ==
  ASSUME NEW L \in Ledger
  PROVE  /\ L.gen \in Nat /\ L.man \in States /\ L.facts \in Facts /\ L.fresh \in BOOLEAN
         /\ L.tomb \in [action : Actions \cup {"none"}, effect : Nat,
                        phase : {"none", "pending", "cleanup-started", "completed"}]
         /\ L.effects \in Seq(Effect) /\ L.receipts \in Seq(Receipt)
         /\ Len(L.effects) \in Nat /\ DOMAIN L.effects = 1..Len(L.effects)
         /\ Len(L.receipts) \in Nat /\ DOMAIN L.receipts = 1..Len(L.receipts)
         /\ \A e \in DOMAIN L.effects : L.effects[e] \in Effect
         /\ \A i \in DOMAIN L.receipts : L.receipts[i] \in Receipt
<1>1. L.effects \in Seq(Effect) /\ L.receipts \in Seq(Receipt)
  BY DEF Ledger
<1>2. \A e \in DOMAIN L.effects : L.effects[e] \in Effect
  BY <1>1
<1>3. \A i \in DOMAIN L.receipts : L.receipts[i] \in Receipt
  BY <1>1
<1>4. /\ Len(L.effects) \in Nat /\ DOMAIN L.effects = 1..Len(L.effects)
      /\ Len(L.receipts) \in Nat /\ DOMAIN L.receipts = 1..Len(L.receipts)
  BY <1>1
<1>5. /\ L.gen \in Nat /\ L.man \in States /\ L.facts \in Facts /\ L.fresh \in BOOLEAN
      /\ L.tomb \in [action : Actions \cup {"none"}, effect : Nat,
                     phase : {"none", "pending", "cleanup-started", "completed"}]
  BY DEF Ledger
<1>. QED  BY <1>1, <1>2, <1>3, <1>4, <1>5

\* One field of a ledger changes.
LEMMA NewReceipts ==
  ASSUME NEW L \in Ledger, NEW R \in Seq(Receipt), NEW N,
         N = [L EXCEPT !.receipts = R]
  PROVE  /\ N \in Ledger /\ N.receipts = R
         /\ N.gen = L.gen /\ N.man = L.man /\ N.facts = L.facts /\ N.fresh = L.fresh
         /\ N.tomb = L.tomb /\ N.effects = L.effects
BY DEF Ledger

LEMMA NewEffects ==
  ASSUME NEW L \in Ledger, NEW E \in Seq(Effect), NEW N,
         N = [L EXCEPT !.effects = E]
  PROVE  /\ N \in Ledger /\ N.effects = E
         /\ N.gen = L.gen /\ N.man = L.man /\ N.facts = L.facts /\ N.fresh = L.fresh
         /\ N.tomb = L.tomb /\ N.receipts = L.receipts
BY DEF Ledger

\* A receipt for each receipt.
LEMMA MapReceipts ==
  ASSUME NEW L \in Ledger, NEW N, NEW R,
         N = [L EXCEPT !.receipts = R], DOMAIN R = DOMAIN L.receipts,
         R = [i \in DOMAIN R |-> R[i]],
         \A i \in DOMAIN R : R[i] \in Receipt
  PROVE  /\ N \in Ledger /\ N.receipts = R /\ Len(R) = Len(L.receipts)
         /\ N.gen = L.gen /\ N.man = L.man /\ N.facts = L.facts /\ N.fresh = L.fresh
         /\ N.tomb = L.tomb /\ N.effects = L.effects
<1>1. R \in Seq(Receipt) /\ Len(R) = Len(L.receipts)
  <2>1. DOMAIN R = 1..Len(L.receipts) /\ Len(L.receipts) \in Nat
    BY LedgerFields
  <2>. QED  BY <2>1
<1>. QED  BY <1>1, NewReceipts

\* prune leaves out effects that are not referred to, and nothing else.
LEMMA PruneShape ==
  ASSUME NEW L \in Ledger, NEW S
  PROVE  LET N == prune(L, S) IN
         /\ N \in Ledger /\ N.receipts = L.receipts
         /\ N.gen = L.gen /\ N.man = L.man /\ N.facts = L.facts /\ N.fresh = L.fresh
         /\ N.tomb = L.tomb
         /\ Len(N.effects) = Len(L.effects) /\ DOMAIN N.effects = DOMAIN L.effects
         /\ \A e \in DOMAIN L.effects :
              \/ N.effects[e] = L.effects[e]
              \/ /\ e \in S /\ ~referenced(L, e)
                 /\ N.effects[e].status = "gone" /\ N.effects[e].kind = L.effects[e].kind
<1>. DEFINE E == [e \in DOMAIN L.effects |->
                    IF e \in S /\ ~referenced(L, e)
                    THEN [kind |-> L.effects[e].kind, by |-> "cycle", status |-> "gone",
                          gen |-> 0, facts |-> Collected]
                    ELSE L.effects[e]]
<1>1. prune(L, S) = [L EXCEPT !.effects = E]
  BY DEF prune
<1>2. \A e \in DOMAIN L.effects : L.effects[e] \in Effect
  BY LedgerFields
<1>3. \A e \in DOMAIN L.effects : E[e] \in Effect
  BY <1>2 DEF Effect, Facts, Collected
<1>4. E \in Seq(Effect) /\ Len(E) = Len(L.effects) /\ DOMAIN E = DOMAIN L.effects
  <2>1. DOMAIN L.effects = 1..Len(L.effects) /\ Len(L.effects) \in Nat
    BY LedgerFields
  <2>2. E = [e \in DOMAIN L.effects |-> E[e]]
    OBVIOUS
  <2>. HIDE DEF E
  <2>3. E = [e \in 1..Len(L.effects) |-> E[e]] /\ \A e \in 1..Len(L.effects) : E[e] \in Effect
    BY <1>3, <2>1, <2>2
  <2>4. E \in Seq(Effect) /\ Len(E) = Len(L.effects)
    BY <2>1, <2>3
  <2>. QED  BY <2>1, <2>2, <2>4
<1>5. \A e \in DOMAIN L.effects :
        \/ E[e] = L.effects[e]
        \/ /\ e \in S /\ ~referenced(L, e)
           /\ E[e].status = "gone" /\ E[e].kind = L.effects[e].kind
  OBVIOUS
<1>. HIDE DEF E
<1>. QED  BY <1>1, <1>4, <1>5, NewEffects

\* withIntent adds one pending effect.
LEMMA IntentShape ==
  ASSUME NEW L \in Ledger, NEW kind \in {"stop", "cleanup", "failure", "retry"},
         NEW by \in Actions \cup {"cycle"}, NEW N, N = withIntent(L, kind, by),
         NEW f \in Nat, f = nextId(L)
  PROVE  /\ N \in Ledger /\ N.receipts = L.receipts
         /\ N.gen = L.gen /\ N.man = L.man /\ N.facts = L.facts /\ N.fresh = L.fresh
         /\ N.tomb = L.tomb
         /\ Len(N.effects) = f
         /\ DOMAIN N.effects = DOMAIN L.effects \cup {f}
         /\ f \notin DOMAIN L.effects /\ f \in Nat \ {0}
         /\ \A e \in DOMAIN L.effects : N.effects[e] = L.effects[e]
         /\ N.effects[f].kind = kind /\ N.effects[f].by = by
         /\ N.effects[f].status = "pending" /\ N.effects[f].gen = L.gen
<1>. DEFINE x == [kind |-> kind, by |-> by, status |-> "pending", gen |-> L.gen,
                  facts |-> L.facts]
            E == Append(L.effects, x)
<1>1. N = [L EXCEPT !.effects = E]
  BY DEF withIntent
<1>2. /\ L.effects \in Seq(Effect) /\ Len(L.effects) \in Nat
      /\ DOMAIN L.effects = 1..Len(L.effects)
  BY LedgerFields
<1>3. x \in Effect
  BY LedgerFields DEF Effect
<1>4. /\ x.kind = kind /\ x.by = by /\ x.status = "pending" /\ x.gen = L.gen
  OBVIOUS
<1>. HIDE DEF x
<1>5. /\ E \in Seq(Effect) /\ Len(E) = Len(L.effects) + 1
      /\ E[Len(L.effects) + 1] = x
      /\ \A e \in 1..Len(L.effects) : E[e] = L.effects[e]
  BY <1>2, <1>3
<1>6. DOMAIN E = 1..(Len(L.effects) + 1)
  BY <1>5
<1>. HIDE DEF E
<1>7. /\ DOMAIN E = DOMAIN L.effects \cup {f} /\ f \notin DOMAIN L.effects
      /\ f = Len(L.effects) + 1 /\ f \in Nat \ {0}
  BY <1>2, <1>6 DEF nextId
<1>. QED  BY <1>1, <1>2, <1>4, <1>5, <1>7, NewEffects

\* What a new receipt may take away, when the list is full, is one completed
\* receipt, and a completed effect that no open receipt and no tombstone names.
LEMMA ReceiptAdded ==
  ASSUME NEW L \in Ledger, NEW x \in Receipt, room(L)
  PROVE  LET N == withReceipt(L, x) IN
         /\ N \in Ledger
         /\ N.gen = L.gen /\ N.man = L.man /\ N.facts = L.facts /\ N.fresh = L.fresh
         /\ N.tomb = L.tomb
         /\ Len(N.effects) = Len(L.effects) /\ DOMAIN N.effects = DOMAIN L.effects
         /\ \A e \in DOMAIN L.effects :
              \/ N.effects[e] = L.effects[e]
              \/ /\ L.effects[e].status = "completed" /\ L.tomb.effect # e
                 /\ \A k \in DOMAIN L.receipts :
                      open(L.receipts[k]) => L.receipts[k].effect # e
                 /\ N.effects[e].status = "gone" /\ N.effects[e].kind = L.effects[e].kind
         /\ \E i \in DOMAIN N.receipts : N.receipts[i] = x
         /\ \A i \in DOMAIN N.receipts :
              N.receipts[i] = x \/ \E j \in DOMAIN L.receipts : N.receipts[i] = L.receipts[j]
<1>. DEFINE N == withReceipt(L, x)
<1>0. L.receipts \in Seq(Receipt)
  BY LedgerFields
<1>1. CASE Len(L.receipts) < slots
  <2>1. N = [L EXCEPT !.receipts = Append(L.receipts, x)]
    BY <1>1 DEF withReceipt
  <2>. DEFINE R == Append(L.receipts, x)
  <2>2. /\ R \in Seq(Receipt)
        /\ \E i \in DOMAIN R : R[i] = x
        /\ \A i \in DOMAIN R : R[i] = x \/ \E j \in DOMAIN L.receipts : R[i] = L.receipts[j]
    <3>1. DOMAIN R = 1..(Len(L.receipts) + 1) /\ R[Len(L.receipts) + 1] = x /\ R \in Seq(Receipt)
      BY <1>0
    <3>2. \A i \in 1..Len(L.receipts) : R[i] = L.receipts[i] /\ i \in DOMAIN L.receipts
      BY <1>0
    <3>3. Len(L.receipts) + 1 \in DOMAIN R
      BY <3>1, <1>0
    <3>4. \A i \in DOMAIN R : i = Len(L.receipts) + 1 \/ i \in 1..Len(L.receipts)
      BY <3>1, <1>0
    <3>. HIDE DEF R
    <3>. QED  BY <3>1, <3>2, <3>3, <3>4
  <2>a. N = [L EXCEPT !.receipts = R]
    BY <2>1
  <2>. HIDE DEF R, N
  <2>3. /\ N \in Ledger /\ N.receipts = R
        /\ N.gen = L.gen /\ N.man = L.man /\ N.facts = L.facts /\ N.fresh = L.fresh
        /\ N.tomb = L.tomb /\ N.effects = L.effects
    BY <2>a, <2>2, NewReceipts
  <2>4. N = withReceipt(L, x)
    BY DEF N
  <2>. QED  BY <2>2, <2>3, <2>4
<1>2. CASE ~(Len(L.receipts) < slots)
  <2>. DEFINE J == {j \in DOMAIN L.receipts : ~open(L.receipts[j])}
              i == Min(J)
              R == without(L.receipts, {i})
              M == [L EXCEPT !.receipts = R]
              S == {e \in DOMAIN M.effects : e = L.receipts[i].effect
                                              /\ M.effects[e].status = "completed"}
              P == prune(M, S)
              Q == Append(R, x)
  <2>1. N = [P EXCEPT !.receipts = Append(P.receipts, x)]
    BY <1>2, Zenon DEF withReceipt
  <2>2. i \in DOMAIN L.receipts /\ ~open(L.receipts[i])
    <3>1. J # {} /\ J \subseteq Nat
      BY <1>2, <1>0 DEF room
    <3>2. Min(J) \in J
      BY <3>1, LeastNatural
    <3>. QED  BY <3>2
  <2>. HIDE DEF i
  <2>3. /\ R \in Seq(Receipt)
        /\ \A m \in DOMAIN R : \E k \in DOMAIN L.receipts \ {i} : R[m] = L.receipts[k]
        /\ \A k \in DOMAIN L.receipts \ {i} : \E m \in DOMAIN R : R[m] = L.receipts[k]
    <3>1. Remains(R, L.receipts, {i})
      BY <1>0, WithoutRemains
    <3>. HIDE DEF R
    <3>. QED  BY <3>1, WithoutKeeps
  <2>. HIDE DEF R
  <2>4. /\ M \in Ledger /\ M.receipts = R
        /\ M.gen = L.gen /\ M.man = L.man /\ M.facts = L.facts /\ M.fresh = L.fresh
        /\ M.tomb = L.tomb /\ M.effects = L.effects
    BY <2>3, NewReceipts
  <2>5. \A e \in S : L.effects[e].status = "completed"
    BY <2>4
  <2>. HIDE DEF M, S
  <2>6. /\ P \in Ledger /\ P.receipts = R
        /\ P.gen = L.gen /\ P.man = L.man /\ P.facts = L.facts /\ P.fresh = L.fresh
        /\ P.tomb = L.tomb
        /\ Len(P.effects) = Len(L.effects) /\ DOMAIN P.effects = DOMAIN L.effects
        /\ \A e \in DOMAIN L.effects :
             \/ P.effects[e] = L.effects[e]
             \/ /\ e \in S /\ ~referenced(M, e)
                /\ P.effects[e].status = "gone" /\ P.effects[e].kind = L.effects[e].kind
    BY <2>4, PruneShape
  <2>. HIDE DEF P
  <2>7. /\ Q \in Seq(Receipt)
        /\ \E m \in DOMAIN Q : Q[m] = x
        /\ \A m \in DOMAIN Q : Q[m] = x \/ \E k \in DOMAIN R : Q[m] = R[k]
    <3>1. DOMAIN Q = 1..(Len(R) + 1) /\ Q[Len(R) + 1] = x /\ Q \in Seq(Receipt)
      BY <2>3
    <3>2. \A m \in 1..Len(R) : Q[m] = R[m] /\ m \in DOMAIN R
      BY <2>3
    <3>3. Len(R) + 1 \in DOMAIN Q
      BY <3>1, <2>3
    <3>4. \A m \in DOMAIN Q : m = Len(R) + 1 \/ m \in 1..Len(R)
      BY <3>1, <2>3
    <3>. HIDE DEF Q
    <3>. QED  BY <3>1, <3>2, <3>3, <3>4
  <2>8. N = [P EXCEPT !.receipts = Q]
    BY <2>1, <2>6
  <2>. HIDE DEF Q
  <2>9. /\ N \in Ledger /\ N.receipts = Q
        /\ N.gen = P.gen /\ N.man = P.man /\ N.facts = P.facts /\ N.fresh = P.fresh
        /\ N.tomb = P.tomb /\ N.effects = P.effects
    BY <2>6, <2>7, <2>8, NewReceipts
  <2>10. \A e \in DOMAIN L.effects :
           \/ N.effects[e] = L.effects[e]
           \/ /\ L.effects[e].status = "completed" /\ L.tomb.effect # e
              /\ \A k \in DOMAIN L.receipts :
                   open(L.receipts[k]) => L.receipts[k].effect # e
              /\ N.effects[e].status = "gone" /\ N.effects[e].kind = L.effects[e].kind
    <3>. SUFFICES ASSUME NEW e \in DOMAIN L.effects, N.effects[e] # L.effects[e]
                  PROVE  /\ L.effects[e].status = "completed" /\ L.tomb.effect # e
                         /\ \A k \in DOMAIN L.receipts :
                              open(L.receipts[k]) => L.receipts[k].effect # e
                         /\ N.effects[e].status = "gone"
                         /\ N.effects[e].kind = L.effects[e].kind
      OBVIOUS
    <3>1. /\ e \in S /\ ~referenced(M, e)
          /\ N.effects[e].status = "gone" /\ N.effects[e].kind = L.effects[e].kind
      BY <2>6, <2>9
    <3>2. L.effects[e].status = "completed"
      BY <3>1, <2>5
    <3>3. L.tomb.effect # e
      BY <3>1, <2>4 DEF referenced
    <3>4. ASSUME NEW k \in DOMAIN L.receipts, open(L.receipts[k])
          PROVE  L.receipts[k].effect # e
      <4>1. k # i
        BY <3>4, <2>2
      <4>2. PICK m \in DOMAIN R : R[m] = L.receipts[k]
        BY <4>1, <2>3
      <4>. QED  BY <4>2, <3>1, <2>4 DEF referenced
    <3>. QED  BY <3>1, <3>2, <3>3, <3>4
  <2>11. \A m \in DOMAIN N.receipts :
           N.receipts[m] = x \/ \E j \in DOMAIN L.receipts : N.receipts[m] = L.receipts[j]
    BY <2>3, <2>7, <2>9
  <2>12. \E m \in DOMAIN N.receipts : N.receipts[m] = x
    BY <2>7, <2>9
  <2>. HIDE DEF N
  <2>13. N = withReceipt(L, x)
    BY DEF N
  <2>. QED  BY <2>6, <2>9, <2>10, <2>11, <2>12, <2>13
<1>. QED  BY <1>1, <1>2

\* What the invariant says of a receipt it says as long as its effect stays.
LEMMA BoundStays ==
  ASSUME NEW L, NEW N, NEW x, Bound(L, x),
         N.gen = L.gen, N.tomb.action = L.tomb.action, N.tomb.effect = L.tomb.effect,
         underway(x) => /\ x.effect \in DOMAIN N.effects
                        /\ N.effects[x.effect].gen = L.effects[x.effect].gen
                        /\ N.effects[x.effect].by = L.effects[x.effect].by
  PROVE  Bound(N, x)
BY DEF Bound, underway, open, waiting

\* What it says of the effects it says of those that stay, complete once they
\* are done, or begin.
LEMMA EffectsStay ==
  ASSUME NEW L, NEW N, SoundEffects(L),
         N.tomb.action = L.tomb.action, N.tomb.effect = L.tomb.effect,
         \A e \in DOMAIN N.effects :
           \/ /\ e \in DOMAIN L.effects /\ N.effects[e].kind = L.effects[e].kind
              /\ N.effects[e].status = "completed" =>
                   L.effects[e].status = "completed" \/ Done(L.effects[e].kind)
           \/ /\ N.effects[e].kind # "cleanup" /\ N.effects[e].status # "completed"
              /\ N.effects[e].kind = "retry" => github.terminal
  PROVE  SoundEffects(N)
BY DEF SoundEffects

\* Steps of a ledger compose.
LEMMA FollowsItself ==
  ASSUME NEW L, NEW I
  PROVE  Follows(L, L, I)
BY DEF Follows, Derived

LEMMA FollowsOn ==
  ASSUME NEW L, NEW M, NEW N, NEW I, NEW K, Follows(L, M, I), Follows(M, N, K),
         I \subseteq K
  PROVE  Follows(L, N, K)
<1>1. DOMAIN L.effects \subseteq DOMAIN N.effects
  BY DEF Follows
<1>2. \A e \in DOMAIN L.effects : N.effects[e].kind = L.effects[e].kind
  BY DEF Follows
<1>3. /\ L.tomb.action # "none" =>
           N.tomb.action = L.tomb.action /\ N.tomb.effect = L.tomb.effect
      /\ L.tomb.phase \in Started => N.tomb.phase \in Started
  BY DEF Follows
<1>4. Derived(L, N, K)
  <2>1. Derived(L, M, K) /\ Derived(M, N, K)
    BY DEF Follows, Derived
  <2>. QED  BY <2>1 DEF Derived
<1>. QED  BY <1>1, <1>2, <1>3, <1>4 DEF Follows

-----------------------------------------------------------------------------
(* Commands that no validation can refuse *)

LEMMA SettledShape ==
  ASSUME NEW x \in Receipt, NEW result \in {"ok", "refused"}
  PROVE  LET y == settled(x, result) IN
         /\ y \in Receipt /\ y.id = x.id /\ y.phase = "completed" /\ y.effect = x.effect
         /\ y.adm = NoAdm /\ y.result = result
BY DEF settled, Receipt, NoAdm, Admission, States, Phases

\* A valid ledger, field by field.
LEMMA ValidWaiting ==
  ASSUME NEW L, valid(L), NEW i \in DOMAIN L.receipts, waiting(L.receipts[i])
  PROVE  L.receipts[i].effect = 0
BY DEF valid, validAdmissions

LEMMA ValidHolds ==
  ASSUME NEW L, valid(L), NEW i \in DOMAIN L.receipts, L.receipts[i].effect # 0
  PROVE  /\ L.receipts[i].effect \in DOMAIN L.effects
         /\ L.effects[L.receipts[i].effect].kind = kindOf(L.receipts[i])
         /\ L.effects[L.receipts[i].effect].status = statusOf(L.receipts[i])
BY DEF valid, validReceipts

\* Admissions are refused, or nothing happens to a receipt, and the facts are
\* observed.
LEMMA RefusedSound ==
  ASSUME NEW L \in Ledger, valid(L), Sound(L), NEW N \in Ledger,
         Len(N.receipts) = Len(L.receipts),
         N.gen = L.gen, N.man = L.man, N.tomb = L.tomb, N.effects = L.effects,
         N.facts.terminal => github.terminal,
         \A i \in DOMAIN L.receipts :
           \/ N.receipts[i] = L.receipts[i]
           \/ waiting(L.receipts[i]) /\ N.receipts[i] = settled(L.receipts[i], "refused"),
         \A i \in DOMAIN L.receipts :
           waiting(N.receipts[i]) /\ asks[N.receipts[i].id] = "recover" => N.facts.present
  PROVE  valid(N) /\ Sound(N) /\ Follows(L, N, {})
<1>. DEFINE R == L.receipts
            Q == N.receipts
<1>1. DOMAIN Q = DOMAIN R /\ \A i \in DOMAIN R : R[i] \in Receipt
  BY LedgerFields
<1>2. \A i \in DOMAIN R :
        /\ Q[i].id = R[i].id /\ Q[i].effect = R[i].effect
        /\ waiting(Q[i]) => Q[i] = R[i]
        /\ Q[i] = R[i] \/ /\ waiting(R[i]) /\ Q[i].effect = 0 /\ Q[i].adm = NoAdm
                          /\ Q[i].phase = "completed" /\ Q[i].result = "refused"
  <2>. SUFFICES ASSUME NEW i \in DOMAIN R
                PROVE  /\ Q[i].id = R[i].id /\ Q[i].effect = R[i].effect
                       /\ waiting(Q[i]) => Q[i] = R[i]
                       /\ Q[i] = R[i] \/ /\ waiting(R[i]) /\ Q[i].effect = 0 /\ Q[i].adm = NoAdm
                                         /\ Q[i].phase = "completed" /\ Q[i].result = "refused"
    OBVIOUS
  <2>1. CASE Q[i] = R[i]
    BY <2>1
  <2>2. CASE waiting(R[i]) /\ Q[i] = settled(R[i], "refused")
    <3>1. /\ Q[i].id = R[i].id /\ Q[i].phase = "completed" /\ Q[i].effect = R[i].effect
          /\ Q[i].adm = NoAdm /\ Q[i].result = "refused"
      BY <1>1, <2>2, SettledShape
    <3>2. R[i].effect = 0
      BY <2>2, ValidWaiting
    <3>. QED  BY <2>2, <3>1, <3>2 DEF waiting
  <2>. QED  BY <2>1, <2>2
<1>3. validAdmissions(N)
  <2>. SUFFICES ASSUME NEW i \in DOMAIN R, NEW j \in DOMAIN R, waiting(Q[i]), waiting(Q[j])
                PROVE  /\ matching(Q[i], Q[j])
                       /\ Q[i].adm = [gen |-> N.gen, man |-> N.man] /\ N.man # "none"
                       /\ Q[i].effect = 0 /\ ~Q[i].diagnosed
                       /\ asks[Q[i].id] = "recover" => N.facts.present
    BY <1>1 DEF validAdmissions
  <2>1. Q[i] = R[i] /\ Q[j] = R[j]
    BY <1>2
  <2>2. validAdmissions(L)
    BY DEF valid
  <2>3. /\ matching(R[i], R[j])
        /\ R[i].adm = [gen |-> L.gen, man |-> L.man] /\ L.man # "none"
        /\ R[i].effect = 0 /\ ~R[i].diagnosed
    BY <2>1, <2>2, Zenon DEF validAdmissions
  <2>. HIDE DEF R, Q
  <2>. QED  BY <2>1, <2>3 DEF R, Q
<1>4. validReceipts(N)
  <2>1. validReceipts(L)
    BY DEF valid
  <2>2. Len(Q) <= slots /\ \A i, j \in DOMAIN Q : Q[i].id = Q[j].id => i = j
    BY <1>1, <1>2, <2>1 DEF validReceipts
  <2>3. ASSUME NEW i \in DOMAIN R
        PROVE  /\ open(Q[i]) <=> Q[i].result = "none"
               /\ ~waiting(Q[i]) => Q[i].adm = NoAdm
               /\ open(Q[i]) => waiting(Q[i]) \/ Q[i].effect # 0
               /\ Q[i].effect # 0 =>
                    /\ Q[i].effect \in DOMAIN N.effects
                    /\ N.effects[Q[i].effect].kind = kindOf(Q[i])
                    /\ N.effects[Q[i].effect].status = statusOf(Q[i])
    <3>1. CASE Q[i] = R[i]
      BY <3>1, <2>1 DEF validReceipts
    <3>2. CASE Q[i] # R[i]
      BY <3>2, <1>2 DEF open, waiting
    <3>. QED  BY <3>1, <3>2
  <2>. QED  BY <1>1, <2>2, <2>3 DEF validReceipts
<1>5. validEffects(N)
  BY <1>1, <1>2 DEF valid, validEffects
<1>6. validTombstone(N)
  BY DEF valid, validTombstone
<1>7. BoundReceipts(N)
  <2>. SUFFICES ASSUME NEW i \in DOMAIN R PROVE Bound(N, Q[i])
    BY <1>1 DEF BoundReceipts
  <2>1. CASE Q[i] = R[i]
    <3>1. Bound(L, R[i])
      BY DEF Sound, BoundReceipts
    <3>. QED  BY <2>1, <3>1 DEF Bound
  <2>2. CASE Q[i] # R[i]
    BY <2>2, <1>2 DEF Bound, underway, open, waiting
  <2>. QED  BY <2>1, <2>2
<1>8. Sound(N)
  BY <1>7, EffectsStay DEF Sound, SoundEffects, SoundTombstone
<1>9. Derived(L, N, {})
  <2>. SUFFICES ASSUME NEW i \in DOMAIN R
                PROVE  R[i].id = Q[i].id /\ (open(R[i]) \/ Q[i] = R[i])
    BY <1>1 DEF Derived
  <2>. QED  BY <1>2 DEF open, waiting
<1>. QED
  BY <1>3, <1>4, <1>5, <1>6, <1>8, <1>9 DEF valid, Follows

\* A request and its admission are deleted.
LEMMA WithoutRequestSound ==
  ASSUME NEW L \in Ledger, valid(L), Sound(L), NEW r, admitted(L, r), slots \in Nat
  PROVE  LET N == withoutRequest(L, r) IN
         /\ N \in Ledger /\ valid(N) /\ Sound(N) /\ Follows(L, N, {}) /\ ~has(N, r)
         /\ N.gen = L.gen /\ N.man = L.man /\ N.facts = L.facts /\ N.fresh = L.fresh
         /\ N.tomb = L.tomb /\ N.effects = L.effects
<1>. DEFINE R == L.receipts
            D == {i \in DOMAIN R : R[i].id = r}
            Q == without(R, D)
            N == withoutRequest(L, r)
<1>1. R \in Seq(Receipt)
  BY LedgerFields
<1>2. Remains(Q, R, D)
  BY <1>1, WithoutRemains
<1>3. Len(Q) <= Len(R)
  BY <1>1, WithoutShortens
<1>4. N = [L EXCEPT !.receipts = Q]
  BY DEF withoutRequest
<1>. HIDE DEF Q, N
<1>5. PICK at \in [DOMAIN Q -> DOMAIN R \ D] :
        /\ \A m \in DOMAIN Q : Q[m] = R[at[m]]
        /\ \A m, p \in DOMAIN Q : at[m] = at[p] => m = p
        /\ \A k \in DOMAIN R \ D : \E m \in DOMAIN Q : at[m] = k
  BY <1>2 DEF Remains
<1>6. Q \in Seq(Receipt)
  BY <1>2 DEF Remains
<1>7. /\ N \in Ledger /\ N.receipts = Q
      /\ N.gen = L.gen /\ N.man = L.man /\ N.facts = L.facts /\ N.fresh = L.fresh
      /\ N.tomb = L.tomb /\ N.effects = L.effects
  BY <1>4, <1>6, NewReceipts
<1>8. \A m \in DOMAIN Q : at[m] \in DOMAIN R /\ at[m] \notin D /\ Q[m] = R[at[m]]
  BY <1>5
<1>9. \A k \in D : waiting(R[k])
  <2>1. PICK k \in DOMAIN R : R[k].id = r /\ waiting(R[k])
    BY DEF admitted, has, receipt
  <2>2. \A i, j \in DOMAIN R : R[i].id = R[j].id => i = j
    BY DEF valid, validReceipts
  <2>. QED  BY <2>1, <2>2
<1>. HIDE DEF D
<1>10. validAdmissions(N)
  <2>. SUFFICES ASSUME NEW i \in DOMAIN Q, NEW j \in DOMAIN Q, waiting(Q[i]), waiting(Q[j])
                PROVE  /\ matching(Q[i], Q[j])
                       /\ Q[i].adm = [gen |-> L.gen, man |-> L.man] /\ L.man # "none"
                       /\ Q[i].effect = 0 /\ ~Q[i].diagnosed
                       /\ asks[Q[i].id] = "recover" => L.facts.present
    BY <1>7, Zenon DEF validAdmissions
  <2>1. /\ at[i] \in DOMAIN R /\ Q[i] = R[at[i]]
        /\ at[j] \in DOMAIN R /\ Q[j] = R[at[j]]
    BY <1>8
  <2>2. \A k, l \in DOMAIN R : waiting(R[k]) /\ waiting(R[l]) =>
          /\ matching(R[k], R[l])
          /\ R[k].adm = [gen |-> L.gen, man |-> L.man] /\ L.man # "none"
          /\ R[k].effect = 0 /\ ~R[k].diagnosed
          /\ asks[R[k].id] = "recover" => L.facts.present
    BY Zenon DEF valid, validAdmissions
  <2>. HIDE DEF R
  <2>. QED  BY <2>1, <2>2, Zenon
<1>11. validReceipts(N)
  <2>1. /\ Len(R) <= slots
        /\ \A i, j \in DOMAIN R : R[i].id = R[j].id => i = j
        /\ \A i \in DOMAIN R :
             /\ open(R[i]) <=> R[i].result = "none"
             /\ ~waiting(R[i]) => R[i].adm = NoAdm
             /\ open(R[i]) => waiting(R[i]) \/ R[i].effect # 0
             /\ R[i].effect # 0 =>
                  /\ R[i].effect \in DOMAIN L.effects
                  /\ L.effects[R[i].effect].kind = kindOf(R[i])
                  /\ L.effects[R[i].effect].status = statusOf(R[i])
    BY DEF valid, validReceipts
  <2>2. Len(R) \in Nat /\ Len(Q) \in Nat
    BY <1>1, <1>6
  <2>. HIDE DEF R
  <2>3. Len(Q) <= slots
    BY <1>3, <2>1, <2>2
  <2>4. \A i, j \in DOMAIN Q : Q[i].id = Q[j].id => i = j
    BY <1>5, <1>8, <2>1
  <2>5. \A i \in DOMAIN Q :
             /\ open(Q[i]) <=> Q[i].result = "none"
             /\ ~waiting(Q[i]) => Q[i].adm = NoAdm
             /\ open(Q[i]) => waiting(Q[i]) \/ Q[i].effect # 0
             /\ Q[i].effect # 0 =>
                  /\ Q[i].effect \in DOMAIN L.effects
                  /\ L.effects[Q[i].effect].kind = kindOf(Q[i])
                  /\ L.effects[Q[i].effect].status = statusOf(Q[i])
    BY <1>8, <2>1
  <2>. QED  BY <1>7, <2>3, <2>4, <2>5 DEF validReceipts
<1>12. validEffects(N)
  <2>. SUFFICES ASSUME NEW e \in DOMAIN L.effects
                PROVE  \/ L.effects[e].status = "gone" \/ L.effects[e].gen = L.gen
                       \/ /\ L.effects[e].status = "completed"
                          /\ \E i \in DOMAIN Q : Q[i].effect = e
    BY <1>7 DEF validEffects
  <2>1. CASE \E i \in DOMAIN R : R[i].effect = e
    <3>1. PICK i \in DOMAIN R : R[i].effect = e
      BY <2>1
    <3>2. e # 0
      BY LedgerFields
    <3>3. i \notin D
      BY <1>9, <3>1, <3>2, ValidWaiting DEF D
    <3>4. PICK m \in DOMAIN Q : at[m] = i
      BY <1>5, <3>3
    <3>5. Q[m].effect = e
      BY <1>8, <3>1, <3>4
    <3>. QED  BY <3>5 DEF valid, validEffects
  <2>2. CASE ~\E i \in DOMAIN R : R[i].effect = e
    BY <2>2 DEF valid, validEffects
  <2>. QED  BY <2>1, <2>2
<1>13. validTombstone(N)
  BY <1>7 DEF valid, validTombstone
<1>14. BoundReceipts(N)
  <2>. SUFFICES ASSUME NEW i \in DOMAIN Q PROVE Bound(N, Q[i])
    BY <1>7 DEF BoundReceipts
  <2>1. Bound(L, Q[i])
    BY <1>8 DEF Sound, BoundReceipts
  <2>. QED  BY <1>7, <2>1 DEF Bound
<1>15. Sound(N)
  BY <1>7, <1>14 DEF Sound, SoundEffects, SoundTombstone
<1>16. Follows(L, N, {})
  <2>1. Derived(L, N, {})
    BY <1>7, <1>8 DEF Derived
  <2>. QED  BY <1>7, <2>1 DEF Follows
<1>17. ~has(N, r)
  BY <1>7, <1>8 DEF has, D
<1>18. valid(N)
  BY <1>10, <1>11, <1>12, <1>13 DEF valid
<1>. QED  BY <1>7, <1>15, <1>16, <1>17, <1>18 DEF N

\* An issue update begins with what it will publish; effects that nothing names
\* make room.
LEMMA UpdateBegins ==
  ASSUME NEW L \in Ledger, valid(L), Sound(L),
         NEW kind \in {"failure", "retry"}, NEW by \in Actions \cup {"cycle"},
         kind = "retry" => github.terminal,
         beginUpdate(L, kind, by).refusal = "none"
  PROVE  LET N == beginUpdate(L, kind, by).ledger
             f == beginUpdate(L, kind, by).effect IN
         /\ N \in Ledger /\ valid(N) /\ Sound(N) /\ Follows(L, N, {})
         /\ N.gen = L.gen /\ N.man = L.man /\ N.facts = L.facts /\ N.fresh = L.fresh
         /\ N.tomb = L.tomb /\ N.receipts = L.receipts /\ L.tomb.action = "none"
         /\ f \in DOMAIN N.effects /\ f \in Nat \ {0}
         /\ N.effects[f].status = "pending" /\ N.effects[f].kind = kind
         /\ N.effects[f].gen = L.gen
<1>. DEFINE same == {e \in pendingOf(L, {"retry"}) : kind = "retry" /\ L.effects[e].gen = L.gen}
            M == prune(L, {e \in DOMAIN L.effects : L.effects[e].status = "completed"})
            W == withIntent(M, kind, by)
            c == beginUpdate(L, kind, by)
<1>1. /\ L.tomb.action = "none"
      /\ \/ same # {} /\ c = Commits(L, Min(same))
         \/ same = {} /\ c = Commits(W, nextId(L))
  BY Zenon DEF beginUpdate, Refused
<1>2. CASE same # {} /\ c = Commits(L, Min(same))
  <2>1. same \subseteq DOMAIN L.effects /\ DOMAIN L.effects \subseteq Nat \ {0}
    BY LedgerFields DEF pendingOf, pendingEffects
  <2>2. Min(same) \in same
    BY <2>1, <1>2, LeastNatural
  <2>3. c.ledger = L /\ c.effect = Min(same)
    BY <1>2 DEF Commits
  <2>4. /\ Min(same) \in DOMAIN L.effects /\ Min(same) \in Nat \ {0}
        /\ L.effects[Min(same)].status = "pending" /\ L.effects[Min(same)].kind = kind
        /\ L.effects[Min(same)].gen = L.gen
    BY <2>1, <2>2 DEF pendingOf, pendingEffects
  <2>5. Follows(L, L, {})
    BY FollowsItself
  <2>. HIDE DEF c, same
  <2>. QED  BY <1>1, <2>3, <2>4, <2>5 DEF c
<1>3. CASE c = Commits(W, nextId(L))
  <2>. DEFINE f == nextId(L)
  <2>1. c.ledger = W /\ c.effect = f
    BY <1>3 DEF Commits
  <2>2. /\ M \in Ledger /\ M.receipts = L.receipts
        /\ M.gen = L.gen /\ M.man = L.man /\ M.facts = L.facts /\ M.fresh = L.fresh
        /\ M.tomb = L.tomb
        /\ Len(M.effects) = Len(L.effects) /\ DOMAIN M.effects = DOMAIN L.effects
        /\ \A e \in DOMAIN L.effects :
             \/ M.effects[e] = L.effects[e]
             \/ /\ ~referenced(L, e)
                /\ M.effects[e].status = "gone" /\ M.effects[e].kind = L.effects[e].kind
    BY PruneShape
  <2>. HIDE DEF M
  <2>3. nextId(M) = f
    BY <2>2 DEF nextId
  <2>4. /\ W \in Ledger /\ W.receipts = M.receipts
        /\ W.gen = M.gen /\ W.man = M.man /\ W.facts = M.facts /\ W.fresh = M.fresh
        /\ W.tomb = M.tomb
        /\ DOMAIN W.effects = DOMAIN M.effects \cup {f}
        /\ f \notin DOMAIN M.effects /\ f \in Nat \ {0}
        /\ \A e \in DOMAIN M.effects : W.effects[e] = M.effects[e]
        /\ W.effects[f].kind = kind /\ W.effects[f].by = by
        /\ W.effects[f].status = "pending" /\ W.effects[f].gen = M.gen
    <3>1. kind \in {"stop", "cleanup", "failure", "retry"}
      OBVIOUS
    <3>2. M \in Ledger /\ W = withIntent(M, kind, by) /\ f \in Nat
      BY <2>2, LedgerFields DEF nextId
    <3>. HIDE DEF W, f
    <3>. QED  BY <2>3, <3>1, <3>2, IntentShape
  <2>. HIDE DEF W, f
  <2>5. /\ W \in Ledger /\ W.receipts = L.receipts
        /\ W.gen = L.gen /\ W.man = L.man /\ W.facts = L.facts /\ W.fresh = L.fresh
        /\ W.tomb = L.tomb
        /\ DOMAIN W.effects = DOMAIN L.effects \cup {f}
        /\ f \notin DOMAIN L.effects /\ f \in Nat \ {0}
        /\ W.effects[f].kind = kind /\ W.effects[f].by = by
        /\ W.effects[f].status = "pending" /\ W.effects[f].gen = L.gen
    BY <2>2, <2>4
  <2>6. \A e \in DOMAIN L.effects :
          \/ W.effects[e] = L.effects[e]
          \/ /\ ~referenced(L, e)
             /\ W.effects[e].status = "gone" /\ W.effects[e].kind = L.effects[e].kind
    BY <2>2, <2>4
  <2>7. \A i \in DOMAIN L.receipts : L.receipts[i].effect # 0 =>
          /\ L.receipts[i].effect \in DOMAIN L.effects
          /\ W.effects[L.receipts[i].effect] = L.effects[L.receipts[i].effect]
    <3>. SUFFICES ASSUME NEW i \in DOMAIN L.receipts, L.receipts[i].effect # 0
                  PROVE  /\ L.receipts[i].effect \in DOMAIN L.effects
                         /\ W.effects[L.receipts[i].effect] = L.effects[L.receipts[i].effect]
      OBVIOUS
    <3>1. L.receipts[i].effect \in DOMAIN L.effects
      BY ValidHolds
    <3>2. referenced(L, L.receipts[i].effect)
      BY DEF referenced
    <3>. QED  BY <2>6, <3>1, <3>2
  <2>8. validAdmissions(W)
    BY <2>5 DEF valid, validAdmissions
  <2>9. validReceipts(W)
    <3>1. validReceipts(L)
      BY DEF valid
    <3>. QED  BY <2>5, <2>7, <3>1 DEF validReceipts
  <2>10. validEffects(W)
    BY <2>5, <2>6 DEF valid, validEffects
  <2>11. validTombstone(W)
    BY <1>1, <2>5 DEF validTombstone
  <2>12. BoundReceipts(W)
    <3>. SUFFICES ASSUME NEW i \in DOMAIN L.receipts
                  PROVE  Bound(W, L.receipts[i])
      BY <2>5 DEF BoundReceipts
    <3>1. Bound(L, L.receipts[i])
      BY DEF Sound, BoundReceipts
    <3>2. underway(L.receipts[i]) =>
            /\ L.receipts[i].effect \in DOMAIN W.effects
            /\ W.effects[L.receipts[i].effect] = L.effects[L.receipts[i].effect]
      <4>1. underway(L.receipts[i]) => L.receipts[i].effect # 0
        BY DEF valid, validReceipts, underway
      <4>. QED  BY <4>1, <2>5, <2>7
    <3>. QED  BY <2>5, <3>1, <3>2, BoundStays
  <2>13. SoundEffects(W)
    <3>1. SoundEffects(L)
      BY DEF Sound
    <3>2. \A e \in DOMAIN W.effects :
            \/ /\ e \in DOMAIN L.effects /\ W.effects[e].kind = L.effects[e].kind
               /\ W.effects[e].status = "completed" => L.effects[e].status = "completed"
            \/ /\ W.effects[e].kind # "cleanup" /\ W.effects[e].status # "completed"
               /\ W.effects[e].kind = "retry" => github.terminal
      BY <2>5, <2>6
    <3>. QED  BY <2>5, <3>1, <3>2, EffectsStay
  <2>14. Sound(W)
    BY <2>5, <2>12, <2>13 DEF Sound, SoundTombstone
  <2>15. Follows(L, W, {})
    BY <2>5, <2>6 DEF Follows, Derived
  <2>16. valid(W)
    BY <2>8, <2>9, <2>10, <2>11 DEF valid
  <2>. HIDE DEF c
  <2>. QED  BY <1>1, <2>1, <2>5, <2>14, <2>15, <2>16 DEF c
<1>. QED  BY <1>1, <1>2, <1>3

\* Receipts move, settle or are annotated one by one.
Moved(L, N, e, from, to, f) ==
  /\ N \in Ledger /\ Len(N.receipts) = Len(L.receipts)
  /\ N.gen = L.gen /\ N.man = L.man /\ N.facts = L.facts /\ N.fresh = L.fresh
  /\ N.tomb = L.tomb /\ N.effects = L.effects
  /\ \A i \in DOMAIN L.receipts :
       IF L.receipts[i].phase = from /\ L.receipts[i].effect = e
       THEN /\ N.receipts[i].id = L.receipts[i].id /\ N.receipts[i].phase = to
            /\ N.receipts[i].effect = f /\ N.receipts[i].adm = L.receipts[i].adm
            /\ N.receipts[i].result = L.receipts[i].result
       ELSE N.receipts[i] = L.receipts[i]

LEMMA MoveShape ==
  ASSUME NEW L \in Ledger, NEW e \in Nat, NEW from \in Phases, NEW to \in Phases, NEW f \in Nat,
         NEW N, N = moveReceipts(L, e, from, to, f)
  PROVE  Moved(L, N, e, from, to, f)
<1>. DEFINE op(x) == IF x.phase = from /\ x.effect = e
                     THEN [x EXCEPT !.phase = to, !.effect = f, !.diagnosed = FALSE]
                     ELSE x
            R == [i \in DOMAIN L.receipts |-> op(L.receipts[i])]
<1>1. N = [L EXCEPT !.receipts = R]
  BY DEF moveReceipts, onReceipts
<1>2. ASSUME NEW x \in Receipt
      PROVE  /\ op(x) \in Receipt
             /\ IF x.phase = from /\ x.effect = e
                THEN /\ op(x).id = x.id /\ op(x).phase = to /\ op(x).effect = f
                     /\ op(x).adm = x.adm /\ op(x).result = x.result
                ELSE op(x) = x
  BY DEF Receipt
<1>. HIDE DEF op
<1>3. \A i \in DOMAIN L.receipts : L.receipts[i] \in Receipt
  BY LedgerFields
<1>4. DOMAIN R = DOMAIN L.receipts /\ R = [i \in DOMAIN R |-> R[i]]
  OBVIOUS
<1>5. \A i \in DOMAIN L.receipts : R[i] = op(L.receipts[i])
  OBVIOUS
<1>. HIDE DEF R
<1>6. \A i \in DOMAIN R : R[i] \in Receipt
  BY <1>2, <1>3, <1>4, <1>5
<1>7. /\ N \in Ledger /\ N.receipts = R /\ Len(R) = Len(L.receipts)
      /\ N.gen = L.gen /\ N.man = L.man /\ N.facts = L.facts /\ N.fresh = L.fresh
      /\ N.tomb = L.tomb /\ N.effects = L.effects
  BY <1>1, <1>4, <1>6, MapReceipts
<1>8. \A i \in DOMAIN L.receipts :
        IF L.receipts[i].phase = from /\ L.receipts[i].effect = e
        THEN /\ R[i].id = L.receipts[i].id /\ R[i].phase = to
             /\ R[i].effect = f /\ R[i].adm = L.receipts[i].adm
             /\ R[i].result = L.receipts[i].result
        ELSE R[i] = L.receipts[i]
  BY <1>2, <1>3, <1>5
<1>. QED  BY <1>7, <1>8 DEF Moved

LEMMA CompleteShape ==
  ASSUME NEW L \in Ledger, NEW e \in Nat, NEW N, N = completeReceipts(L, e)
  PROVE  /\ N \in Ledger /\ Len(N.receipts) = Len(L.receipts)
         /\ N.gen = L.gen /\ N.man = L.man /\ N.facts = L.facts /\ N.fresh = L.fresh
         /\ N.tomb = L.tomb /\ N.effects = L.effects
         /\ \A i \in DOMAIN L.receipts :
              \/ /\ open(L.receipts[i]) /\ L.receipts[i].effect = e
                 /\ N.receipts[i].id = L.receipts[i].id
                 /\ N.receipts[i].phase = "completed" /\ N.receipts[i].effect = e
              \/ N.receipts[i] = L.receipts[i]
<1>. DEFINE op(x) == IF x.effect = e /\ open(x) THEN settled(x, "ok") ELSE x
            R == [i \in DOMAIN L.receipts |-> op(L.receipts[i])]
<1>1. N = [L EXCEPT !.receipts = R]
  BY DEF completeReceipts, onReceipts
<1>2. ASSUME NEW x \in Receipt
      PROVE  /\ op(x) \in Receipt
             /\ \/ /\ open(x) /\ x.effect = e
                   /\ op(x).id = x.id /\ op(x).phase = "completed" /\ op(x).effect = e
                \/ op(x) = x
  BY SettledShape
<1>. HIDE DEF op
<1>3. \A i \in DOMAIN L.receipts : L.receipts[i] \in Receipt
  BY LedgerFields
<1>4. DOMAIN R = DOMAIN L.receipts /\ R = [i \in DOMAIN R |-> R[i]]
  OBVIOUS
<1>5. \A i \in DOMAIN L.receipts : R[i] = op(L.receipts[i])
  OBVIOUS
<1>. HIDE DEF R
<1>6. \A i \in DOMAIN R : R[i] \in Receipt
  BY <1>2, <1>3, <1>4, <1>5
<1>7. /\ N \in Ledger /\ N.receipts = R /\ Len(R) = Len(L.receipts)
      /\ N.gen = L.gen /\ N.man = L.man /\ N.facts = L.facts /\ N.fresh = L.fresh
      /\ N.tomb = L.tomb /\ N.effects = L.effects
  BY <1>1, <1>4, <1>6, MapReceipts
<1>8. \A i \in DOMAIN L.receipts :
        \/ /\ open(L.receipts[i]) /\ L.receipts[i].effect = e
           /\ R[i].id = L.receipts[i].id
           /\ R[i].phase = "completed" /\ R[i].effect = e
        \/ R[i] = L.receipts[i]
  BY <1>2, <1>3, <1>5
<1>. QED  BY <1>7, <1>8

\* Receipts under way go to another stage, whose effect there is.
LEMMA StagesSound ==
  ASSUME NEW L \in Ledger, valid(L), Sound(L), NEW N \in Ledger,
         Len(N.receipts) = Len(L.receipts),
         N.gen = L.gen, N.man = L.man, N.facts = L.facts, N.effects = L.effects,
         N.tomb.action = L.tomb.action, N.tomb.effect = L.tomb.effect,
         \/ N.tomb = L.tomb
         \/ /\ L.tomb.action # "none" /\ L.tomb.phase # "completed"
            /\ N.tomb.phase = "cleanup-started",
         \A i \in DOMAIN L.receipts :
           \/ N.receipts[i] = L.receipts[i]
           \/ /\ underway(L.receipts[i]) /\ underway(N.receipts[i])
              /\ N.receipts[i].id = L.receipts[i].id
              /\ N.receipts[i].adm = L.receipts[i].adm
              /\ N.receipts[i].result = L.receipts[i].result
              /\ N.receipts[i].effect \in DOMAIN L.effects
              /\ L.effects[N.receipts[i].effect].kind = kindOf(N.receipts[i])
              /\ L.effects[N.receipts[i].effect].status = statusOf(N.receipts[i])
              /\ Bound(N, N.receipts[i])
  PROVE  valid(N) /\ Sound(N) /\ Follows(L, N, {})
<1>. DEFINE R == L.receipts
            Q == N.receipts
            same(i) == Q[i] = R[i]
            moved(i) == /\ underway(R[i]) /\ underway(Q[i])
                        /\ Q[i].id = R[i].id /\ Q[i].adm = R[i].adm
                        /\ Q[i].result = R[i].result
                        /\ Q[i].effect \in DOMAIN L.effects
                        /\ L.effects[Q[i].effect].kind = kindOf(Q[i])
                        /\ L.effects[Q[i].effect].status = statusOf(Q[i])
                        /\ Bound(N, Q[i])
<1>1. DOMAIN Q = DOMAIN R /\ \A i \in DOMAIN R : same(i) \/ moved(i)
  BY LedgerFields
<1>2. \A i \in DOMAIN R : Q[i].id = R[i].id /\ (waiting(Q[i]) => same(i))
  BY <1>1 DEF underway
<1>3. validAdmissions(N)
  <2>. SUFFICES ASSUME NEW i \in DOMAIN R, NEW j \in DOMAIN R, waiting(Q[i]), waiting(Q[j])
                PROVE  /\ matching(Q[i], Q[j])
                       /\ Q[i].adm = [gen |-> L.gen, man |-> L.man] /\ L.man # "none"
                       /\ Q[i].effect = 0 /\ ~Q[i].diagnosed
                       /\ asks[Q[i].id] = "recover" => L.facts.present
    BY <1>1, ZenonT(40) DEF validAdmissions
  <2>1. Q[i] = R[i] /\ Q[j] = R[j]
    BY <1>2
  <2>2. \A k, l \in DOMAIN R : waiting(R[k]) /\ waiting(R[l]) =>
          /\ matching(R[k], R[l])
          /\ R[k].adm = [gen |-> L.gen, man |-> L.man] /\ L.man # "none"
          /\ R[k].effect = 0 /\ ~R[k].diagnosed
          /\ asks[R[k].id] = "recover" => L.facts.present
    BY Zenon DEF valid, validAdmissions
  <2>. HIDE DEF R, Q
  <2>. QED  BY <2>1, <2>2, Zenon
<1>4. validReceipts(N)
  <2>1. validReceipts(L)
    BY DEF valid
  <2>2. Len(Q) <= slots /\ \A i, j \in DOMAIN Q : Q[i].id = Q[j].id => i = j
    BY <1>1, <1>2, <2>1 DEF validReceipts
  <2>3. ASSUME NEW i \in DOMAIN R
        PROVE  /\ open(Q[i]) <=> Q[i].result = "none"
               /\ ~waiting(Q[i]) => Q[i].adm = NoAdm
               /\ open(Q[i]) => waiting(Q[i]) \/ Q[i].effect # 0
               /\ Q[i].effect # 0 =>
                    /\ Q[i].effect \in DOMAIN N.effects
                    /\ N.effects[Q[i].effect].kind = kindOf(Q[i])
                    /\ N.effects[Q[i].effect].status = statusOf(Q[i])
    <3>1. CASE same(i)
      BY <3>1, <2>1 DEF validReceipts
    <3>2. CASE moved(i)
      <4>1. open(R[i]) /\ open(Q[i]) /\ ~waiting(R[i]) /\ ~waiting(Q[i])
        BY <3>2 DEF underway
      <4>2. R[i].result = "none" /\ R[i].adm = NoAdm
        BY <4>1, <2>1 DEF validReceipts
      <4>3. Q[i].effect # 0
        BY <3>2, LedgerFields, SMTT(30)
      <4>. QED  BY <3>2, <4>1, <4>2, <4>3
    <3>. QED  BY <1>1, <3>1, <3>2
  <2>. QED  BY <1>1, <2>2, <2>3 DEF validReceipts
<1>5. validEffects(N)
  <2>. SUFFICES ASSUME NEW e \in DOMAIN L.effects
                PROVE  \/ L.effects[e].status = "gone" \/ L.effects[e].gen = L.gen
                       \/ /\ L.effects[e].status = "completed"
                          /\ \E i \in DOMAIN Q : Q[i].effect = e
    BY DEF validEffects
  <2>1. CASE \E i \in DOMAIN R : R[i].effect = e /\ ~same(i)
    <3>1. PICK i \in DOMAIN R : R[i].effect = e /\ moved(i)
      BY <1>1, <2>1
    <3>2. Bound(L, R[i])
      BY DEF Sound, BoundReceipts
    <3>. QED  BY <3>1, <3>2 DEF Bound
  <2>2. CASE \A i \in DOMAIN R : R[i].effect = e => same(i)
    BY <1>1, <2>2 DEF valid, validEffects
  <2>. QED  BY <2>1, <2>2
<1>6. validTombstone(N)
  BY DEF valid, validTombstone
<1>7. BoundReceipts(N)
  <2>. SUFFICES ASSUME NEW i \in DOMAIN R PROVE Bound(N, Q[i])
    BY <1>1 DEF BoundReceipts
  <2>1. CASE same(i)
    <3>1. Bound(L, R[i])
      BY DEF Sound, BoundReceipts
    <3>. QED  BY <2>1, <3>1 DEF Bound
  <2>. QED  BY <1>1, <2>1
<1>8. Sound(N)
  <2>1. SoundEffects(N)
    BY DEF Sound, SoundEffects
  <2>2. SoundTombstone(N)
    BY DEF Sound, SoundTombstone
  <2>. QED  BY <1>7, <2>1, <2>2 DEF Sound
<1>9. Derived(L, N, {})
  <2>. SUFFICES ASSUME NEW i \in DOMAIN R
                PROVE  R[i].id = Q[i].id /\ (open(R[i]) \/ Q[i] = R[i])
    BY <1>1 DEF Derived
  <2>. QED  BY <1>1 DEF underway
<1>. QED
  BY <1>3, <1>4, <1>5, <1>6, <1>8, <1>9 DEF valid, Follows, Started

\* A Recover that waits goes on with the update that has begun.
LEMMA AdvanceSound ==
  ASSUME NEW L \in Ledger, valid(L), Sound(L),
         NEW from \in Awaiting, NEW to, NEW kind, NEW e \in Nat \ {0},
         kind = (IF from = "terminal-awaiting" THEN "failure" ELSE "retry"),
         to = (IF kind = "failure" THEN "terminal-pending" ELSE "retry-pending"),
         NEW f \in DOMAIN L.effects, L.effects[f].status = "pending",
         L.effects[f].kind = kind, L.effects[f].gen = L.gen
  PROVE  LET N == moveReceipts(L, e, from, to, f) IN
         /\ N \in Ledger /\ valid(N) /\ Sound(N) /\ Follows(L, N, {})
         /\ N.effects = L.effects
<1>. DEFINE R == L.receipts
            N == moveReceipts(L, e, from, to, f)
<1>1. /\ from \in Phases /\ to \in Phases /\ f \in Nat /\ e \in Nat
      /\ N = moveReceipts(L, e, from, to, f)
  BY LedgerFields DEF Phases, Awaiting
<1>. HIDE DEF N
<1>2. /\ N \in Ledger /\ Len(N.receipts) = Len(L.receipts)
      /\ N.gen = L.gen /\ N.man = L.man /\ N.facts = L.facts /\ N.fresh = L.fresh
      /\ N.tomb = L.tomb /\ N.effects = L.effects
      /\ \A i \in DOMAIN R :
           IF R[i].phase = from /\ R[i].effect = e
           THEN /\ N.receipts[i].id = R[i].id /\ N.receipts[i].phase = to
                /\ N.receipts[i].effect = f /\ N.receipts[i].adm = R[i].adm
                /\ N.receipts[i].result = R[i].result
           ELSE N.receipts[i] = R[i]
  <2>1. Moved(L, N, e, from, to, f)
    BY <1>1, MoveShape
  <2>. HIDE DEF R
  <2>. QED  BY <2>1 DEF R, Moved
<1>3. ASSUME NEW i \in DOMAIN R, R[i].phase = from
      PROVE  underway(R[i]) /\ asks[R[i].id] = "recover" /\ R[i].result # "ok"
  <2>1. underway(R[i])
    BY <1>3 DEF underway, open, waiting, Awaiting
  <2>2. Bound(L, R[i])
    BY DEF Sound, BoundReceipts
  <2>3. asks[R[i].id] = "recover"
    BY <1>3, <2>2 DEF Bound, Awaiting
  <2>4. R[i].result # "ok"
    BY <2>1 DEF valid, validReceipts, underway
  <2>. QED  BY <2>1, <2>3, <2>4
<1>4. ASSUME NEW i \in DOMAIN R, R[i].phase = from, R[i].effect = e
      PROVE  /\ underway(R[i]) /\ underway(N.receipts[i])
             /\ N.receipts[i].id = R[i].id
             /\ N.receipts[i].adm = R[i].adm
             /\ N.receipts[i].result = R[i].result
             /\ N.receipts[i].effect \in DOMAIN L.effects
             /\ L.effects[N.receipts[i].effect].kind = kindOf(N.receipts[i])
             /\ L.effects[N.receipts[i].effect].status = statusOf(N.receipts[i])
             /\ Bound(N, N.receipts[i])
  <2>1. /\ N.receipts[i].id = R[i].id /\ N.receipts[i].phase = to
        /\ N.receipts[i].effect = f /\ N.receipts[i].adm = R[i].adm
        /\ N.receipts[i].result = R[i].result
    BY <1>2, <1>4
  <2>2. underway(R[i]) /\ asks[N.receipts[i].id] = "recover" /\ N.receipts[i].result # "ok"
    BY <1>3, <1>4, <2>1
  <2>3. to \in {"terminal-pending", "retry-pending"} /\ (to = "terminal-pending" <=> kind = "failure")
    OBVIOUS
  <2>4. kind = kindOf(N.receipts[i])
    BY <2>1, <2>2, <2>3 DEF kindOf, Destructive
  <2>5. statusOf(N.receipts[i]) = "pending"
    BY <2>1, <2>3 DEF statusOf, Awaiting
  <2>6. underway(N.receipts[i])
    BY <2>1, <2>3 DEF underway, open, waiting
  <2>7. Bound(N, N.receipts[i])
    BY <1>2, <2>1, <2>2, <2>3 DEF Bound
  <2>. QED  BY <2>1, <2>2, <2>4, <2>5, <2>6, <2>7
<1>5. \A i \in DOMAIN R :
        \/ N.receipts[i] = R[i]
        \/ /\ underway(R[i]) /\ underway(N.receipts[i])
           /\ N.receipts[i].id = R[i].id
           /\ N.receipts[i].adm = R[i].adm
           /\ N.receipts[i].result = R[i].result
           /\ N.receipts[i].effect \in DOMAIN L.effects
           /\ L.effects[N.receipts[i].effect].kind = kindOf(N.receipts[i])
           /\ L.effects[N.receipts[i].effect].status = statusOf(N.receipts[i])
           /\ Bound(N, N.receipts[i])
  BY <1>2, <1>4
<1>6. valid(N) /\ Sound(N) /\ Follows(L, N, {})
  BY <1>2, <1>5, StagesSound
<1>. QED  BY <1>2, <1>6 DEF N

\* A diagnosis is noted.
LEMMA DiagnoseSound ==
  ASSUME NEW L \in Ledger, valid(L), Sound(L), NEW e \in Nat,
         NEW N, N = diagnose(L, e)
  PROVE  /\ N \in Ledger /\ valid(N) /\ Sound(N) /\ Follows(L, N, {})
         /\ N.effects = L.effects
<1>. DEFINE op(x) == IF x.effect = e /\ x.phase \in Awaiting
                     THEN [x EXCEPT !.diagnosed = TRUE] ELSE x
            R == L.receipts
            Q == [i \in DOMAIN R |-> op(R[i])]
<1>1. N = [L EXCEPT !.receipts = Q]
  BY DEF diagnose, onReceipts
<1>2. ASSUME NEW x \in Receipt
      PROVE  /\ op(x) \in Receipt
             /\ op(x).id = x.id /\ op(x).phase = x.phase /\ op(x).effect = x.effect
             /\ op(x).adm = x.adm /\ op(x).result = x.result
             /\ op(x) = x \/ x.phase \in Awaiting
  BY DEF Receipt
<1>. HIDE DEF op
<1>3. \A i \in DOMAIN R : R[i] \in Receipt
  BY LedgerFields
<1>4. DOMAIN Q = DOMAIN R /\ Q = [i \in DOMAIN Q |-> Q[i]] /\ \A i \in DOMAIN R : Q[i] = op(R[i])
  OBVIOUS
<1>. HIDE DEF Q
<1>5. \A i \in DOMAIN Q : Q[i] \in Receipt
  BY <1>2, <1>3, <1>4
<1>6. /\ N \in Ledger /\ N.receipts = Q /\ Len(Q) = Len(R)
      /\ N.gen = L.gen /\ N.man = L.man /\ N.facts = L.facts /\ N.fresh = L.fresh
      /\ N.tomb = L.tomb /\ N.effects = L.effects
  BY <1>1, <1>4, <1>5, MapReceipts
<1>7. ASSUME NEW i \in DOMAIN R, Q[i] # R[i]
      PROVE  /\ underway(R[i]) /\ underway(Q[i])
             /\ Q[i].id = R[i].id /\ Q[i].adm = R[i].adm /\ Q[i].result = R[i].result
             /\ Q[i].effect \in DOMAIN L.effects
             /\ L.effects[Q[i].effect].kind = kindOf(Q[i])
             /\ L.effects[Q[i].effect].status = statusOf(Q[i])
             /\ Bound(N, Q[i])
  <2>1. /\ Q[i].id = R[i].id /\ Q[i].phase = R[i].phase /\ Q[i].effect = R[i].effect
        /\ Q[i].adm = R[i].adm /\ Q[i].result = R[i].result
        /\ R[i].phase \in Awaiting
    BY <1>2, <1>3, <1>4, <1>7
  <2>2. underway(R[i]) /\ underway(Q[i])
    BY <2>1 DEF underway, open, waiting, Awaiting
  <2>3. R[i].effect # 0
    BY <2>2 DEF valid, validReceipts, underway
  <2>4. /\ R[i].effect \in DOMAIN L.effects
        /\ L.effects[R[i].effect].kind = kindOf(R[i])
        /\ L.effects[R[i].effect].status = statusOf(R[i])
    BY <2>3, ValidHolds
  <2>5. kindOf(Q[i]) = kindOf(R[i]) /\ statusOf(Q[i]) = statusOf(R[i])
    BY <2>1, Zenon DEF kindOf, statusOf
  <2>6. Bound(L, R[i])
    BY DEF Sound, BoundReceipts
  <2>7. Bound(N, Q[i])
    BY <1>6, <2>1, <2>2, <2>6 DEF Bound
  <2>. QED  BY <2>1, <2>2, <2>4, <2>5, <2>7
<1>8. valid(N) /\ Sound(N) /\ Follows(L, N, {})
  BY <1>6, <1>7, StagesSound
<1>. QED  BY <1>6, <1>8

\* The removal of an attempt is announced to the tombstone and its receipts.
announced(L, e) ==
  [onReceipts(L, LAMBDA y : IF y.effect = e /\ open(y)
                            THEN [y EXCEPT !.phase = "cleanup-started"] ELSE y)
   EXCEPT !.tomb.phase = "cleanup-started"]

LEMMA AnnounceSound ==
  ASSUME NEW L \in Ledger, valid(L), Sound(L), NEW e \in DOMAIN L.effects,
         L.effects[e].kind = "cleanup", L.effects[e].status = "pending",
         NEW N, N = announced(L, e)
  PROVE  /\ N \in Ledger /\ valid(N) /\ Sound(N) /\ Follows(L, N, {})
         /\ N.effects = L.effects /\ N.tomb.phase \in Started
<1>. DEFINE op(x) == IF x.effect = e /\ open(x)
                     THEN [x EXCEPT !.phase = "cleanup-started"] ELSE x
            R == L.receipts
            Q == [i \in DOMAIN R |-> op(R[i])]
            M == [L EXCEPT !.receipts = Q]
<1>1. N = [M EXCEPT !.tomb.phase = "cleanup-started"]
  BY DEF announced, onReceipts
<1>2. ASSUME NEW x \in Receipt
      PROVE  /\ op(x) \in Receipt
             /\ op(x).id = x.id /\ op(x).effect = x.effect
             /\ op(x).adm = x.adm /\ op(x).result = x.result
             /\ \/ op(x) = x
                \/ x.effect = e /\ open(x) /\ op(x).phase = "cleanup-started"
  BY DEF Receipt, Phases
<1>. HIDE DEF op
<1>3. \A i \in DOMAIN R : R[i] \in Receipt
  BY LedgerFields
<1>4. DOMAIN Q = DOMAIN R /\ Q = [i \in DOMAIN Q |-> Q[i]] /\ \A i \in DOMAIN R : Q[i] = op(R[i])
  OBVIOUS
<1>. HIDE DEF Q
<1>5. \A i \in DOMAIN Q : Q[i] \in Receipt
  BY <1>2, <1>3, <1>4
<1>6. /\ M \in Ledger /\ M.receipts = Q /\ Len(Q) = Len(R)
      /\ M.gen = L.gen /\ M.man = L.man /\ M.facts = L.facts /\ M.fresh = L.fresh
      /\ M.tomb = L.tomb /\ M.effects = L.effects
  BY <1>4, <1>5, MapReceipts
<1>. HIDE DEF M
<1>7. /\ N \in Ledger /\ N.receipts = Q
      /\ N.gen = L.gen /\ N.man = L.man /\ N.facts = L.facts
      /\ N.tomb.action = L.tomb.action /\ N.tomb.effect = L.tomb.effect
      /\ N.tomb.phase = "cleanup-started" /\ N.effects = L.effects
  <2>. DEFINE T == [M EXCEPT !.tomb.phase = "cleanup-started"]
  <2>1. /\ T \in Ledger /\ T.receipts = Q
        /\ T.gen = L.gen /\ T.man = L.man /\ T.facts = L.facts
        /\ T.tomb.action = L.tomb.action /\ T.tomb.effect = L.tomb.effect
        /\ T.tomb.phase = "cleanup-started" /\ T.effects = L.effects
    BY <1>6 DEF Ledger
  <2>. HIDE DEF T
  <2>2. N = T
    BY <1>1 DEF T
  <2>. QED  BY <2>1, <2>2
<1>8. L.tomb.action # "none" /\ L.tomb.effect = e /\ L.tomb.phase # "completed"
  <2>1. L.tomb.action # "none" /\ L.tomb.effect = e
    BY DEF Sound, SoundEffects
  <2>. QED  BY <2>1 DEF valid, validTombstone
<1>9. e # 0
  BY LedgerFields
<1>10. ASSUME NEW i \in DOMAIN R, Q[i] # R[i]
       PROVE  /\ underway(R[i]) /\ underway(Q[i])
              /\ Q[i].id = R[i].id /\ Q[i].adm = R[i].adm /\ Q[i].result = R[i].result
              /\ Q[i].effect \in DOMAIN L.effects
              /\ L.effects[Q[i].effect].kind = kindOf(Q[i])
              /\ L.effects[Q[i].effect].status = statusOf(Q[i])
              /\ Bound(N, Q[i])
  <2>1. /\ Q[i].id = R[i].id /\ Q[i].phase = "cleanup-started"
        /\ R[i].effect = e /\ Q[i].effect = e
        /\ Q[i].adm = R[i].adm /\ Q[i].result = R[i].result
        /\ open(R[i])
    BY <1>2, <1>3, <1>4, <1>10
  <2>2. underway(R[i]) /\ underway(Q[i])
    BY <1>9, <2>1, ValidWaiting DEF underway, open, waiting
  <2>4. kindOf(R[i]) = "cleanup"
    BY <1>9, <2>1, ValidHolds
  <2>5. asks[R[i].id] \in Destructive
    BY <2>4 DEF kindOf
  <2>6. kindOf(Q[i]) = "cleanup" /\ statusOf(Q[i]) = "pending"
    <3>1. asks[Q[i].id] \in Destructive
      BY <2>1, <2>5
    <3>2. kindOf(Q[i]) = "cleanup"
      BY <2>1, <3>1 DEF kindOf, Destructive
    <3>3. Q[i].phase \notin Awaiting \cup {"completed"}
      BY <2>1 DEF Awaiting
    <3>. QED  BY <3>2, <3>3 DEF statusOf
  <2>7. Bound(L, R[i])
    BY DEF Sound, BoundReceipts
  <2>8. L.tomb.action = asks[R[i].id]
    <3>1. R[i] \in Receipt
      BY <1>3
    <3>2. R[i].phase \in {"cleanup-pending", "cleanup-started"}
      BY <2>2, <2>5, <2>7, <3>1 DEF Bound, underway, open, waiting, Receipt, Phases, Destructive
    <3>. QED  BY <2>7, <3>2 DEF Bound
  <2>9. R[i].result # "ok"
    BY <2>1 DEF valid, validReceipts
  <2>10. Bound(N, Q[i])
    <3>1. L.effects[e].gen = L.gen
      BY <2>1, <2>2, <2>7 DEF Bound
    <3>. QED  BY <1>7, <1>8, <2>1, <2>8, <2>9, <3>1 DEF Bound
  <2>. QED  BY <2>1, <2>2, <2>6, <2>10
<1>11. valid(N) /\ Sound(N) /\ Follows(L, N, {})
  BY <1>6, <1>7, <1>8, <1>10, StagesSound
<1>. QED  BY <1>7, <1>11 DEF Started

\* An effect that is done is committed.
LEMMA CommitSound ==
  ASSUME NEW L \in Ledger, valid(L), Sound(L), NEW N \in Ledger,
         Len(N.receipts) = Len(L.receipts), Len(N.effects) = Len(L.effects),
         N.gen = L.gen, N.facts = L.facts,
         N.tomb.action = L.tomb.action, N.tomb.effect = L.tomb.effect,
         N.tomb = L.tomb \/ (L.tomb.action # "none" /\ N.tomb.phase = "completed"),
         \A d \in DOMAIN L.effects :
           /\ N.effects[d].kind = L.effects[d].kind /\ N.effects[d].gen = L.effects[d].gen
           /\ N.effects[d].by = L.effects[d].by
           /\ N.effects[d] = L.effects[d] \/ Done(L.effects[d].kind),
         \A i \in DOMAIN L.receipts :
           \/ N.receipts[i] = L.receipts[i]
           \/ /\ open(L.receipts[i]) /\ N.receipts[i].id = L.receipts[i].id
              /\ Bound(N, N.receipts[i])
  PROVE  Sound(N) /\ Follows(L, N, {})
<1>1. DOMAIN N.receipts = DOMAIN L.receipts /\ DOMAIN N.effects = DOMAIN L.effects
  BY LedgerFields
<1>2. SoundEffects(N)
  <2>1. SoundEffects(L)
    BY DEF Sound
  <2>. QED  BY <1>1, <2>1, EffectsStay
<1>3. BoundReceipts(N)
  <2>. SUFFICES ASSUME NEW i \in DOMAIN L.receipts PROVE Bound(N, N.receipts[i])
    BY <1>1 DEF BoundReceipts
  <2>1. CASE N.receipts[i] = L.receipts[i]
    <3>1. Bound(L, L.receipts[i])
      BY DEF Sound, BoundReceipts
    <3>2. underway(L.receipts[i]) =>
            /\ L.receipts[i].effect \in DOMAIN N.effects
            /\ N.effects[L.receipts[i].effect].gen = L.effects[L.receipts[i].effect].gen
            /\ N.effects[L.receipts[i].effect].by = L.effects[L.receipts[i].effect].by
      BY <1>1, <3>1 DEF Bound
    <3>. QED  BY <2>1, <3>1, <3>2, BoundStays
  <2>. QED  BY <2>1
<1>4. Sound(N)
  BY <1>2, <1>3 DEF Sound, SoundTombstone
<1>5. Follows(L, N, {})
  BY <1>1 DEF Follows, Derived, Started
<1>. QED  BY <1>4, <1>5

LEMMA FinishSound ==
  ASSUME NEW L \in Ledger, valid(L), Sound(L), NEW e \in DOMAIN L.effects,
         Done(L.effects[e].kind), NEW N, N = finish(L, e)
  PROVE  /\ N \in Ledger /\ Sound(N) /\ Follows(L, N, {})
         /\ Len(N.effects) = Len(L.effects)
<1>. DEFINE R == L.receipts
            E == [L.effects EXCEPT ![e] = [L.effects[e] EXCEPT !.status = "completed"]]
            M == [L EXCEPT !.effects = E]
<1>0. M = [L EXCEPT !.effects[e].status = "completed"]
  OBVIOUS
<1>1. /\ L.effects \in Seq(Effect) /\ L.effects[e] \in Effect /\ e \in Nat \ {0}
      /\ DOMAIN L.effects = 1..Len(L.effects) /\ Len(L.effects) \in Nat
  BY LedgerFields
<1>2. /\ E \in Seq(Effect) /\ Len(E) = Len(L.effects) /\ DOMAIN E = DOMAIN L.effects
      /\ \A d \in DOMAIN L.effects :
           /\ E[d].kind = L.effects[d].kind /\ E[d].gen = L.effects[d].gen
           /\ E[d].by = L.effects[d].by
           /\ E[d] = L.effects[d] \/ Done(L.effects[d].kind)
  <2>. DEFINE y == [L.effects[e] EXCEPT !.status = "completed"]
  <2>1. /\ y \in Effect /\ y.kind = L.effects[e].kind /\ y.gen = L.effects[e].gen
        /\ y.by = L.effects[e].by
    BY <1>1 DEF Effect
  <2>. HIDE DEF y
  <2>2. E = [L.effects EXCEPT ![e] = y]
    BY DEF y
  <2>3. E \in Seq(Effect) /\ Len(E) = Len(L.effects) /\ DOMAIN E = DOMAIN L.effects
    BY <1>1, <2>1, <2>2
  <2>4. \A d \in DOMAIN L.effects : E[d] = IF d = e THEN y ELSE L.effects[d]
    BY <1>1, <2>2
  <2>. HIDE DEF E
  <2>. QED  BY <2>1, <2>3, <2>4
<1>. HIDE DEF E
<1>3. /\ M \in Ledger /\ M.effects = E
      /\ M.gen = L.gen /\ M.man = L.man /\ M.facts = L.facts /\ M.fresh = L.fresh
      /\ M.tomb = L.tomb /\ M.receipts = R
  BY <1>2, NewEffects
<1>. HIDE DEF M
<1>4. M.effects[e].kind = L.effects[e].kind /\ M.effects[e].by = L.effects[e].by
  BY <1>2, <1>3
<1>. DEFINE K == [M EXCEPT !.man = "cancelled"]
            T == [M EXCEPT !.tomb.phase = "completed"]
<1>5. /\ K \in Ledger /\ K.effects = E /\ K.gen = L.gen /\ K.facts = L.facts
      /\ K.tomb = L.tomb /\ K.receipts = R
  BY <1>3 DEF Ledger, States
<1>6. /\ T \in Ledger /\ T.effects = E /\ T.gen = L.gen /\ T.facts = L.facts
      /\ T.receipts = R /\ T.tomb.action = L.tomb.action /\ T.tomb.effect = L.tomb.effect
      /\ T.tomb.phase = "completed"
  BY <1>3 DEF Ledger
<1>7. \/ /\ L.effects[e].kind = "stop" /\ L.effects[e].by = "recover"
         /\ N = moveReceipts(K, e, "stop-pending", "terminal-awaiting", e)
      \/ L.effects[e].kind = "stop" /\ N = completeReceipts(K, e)
      \/ /\ L.effects[e].kind = "failure"
         /\ N = moveReceipts(M, e, "terminal-pending", "retry-awaiting", e)
      \/ L.effects[e].kind = "retry" /\ N = completeReceipts(M, e)
      \/ L.effects[e].kind = "cleanup" /\ N = completeReceipts(T, e)
  <2>1. L.effects[e].kind \in {"stop", "cleanup", "failure", "retry"}
    BY <1>1 DEF Effect
  <2>2. finish(L, e) =
          CASE M.effects[e].kind = "stop" /\ M.effects[e].by = "recover" ->
                 moveReceipts(K, e, "stop-pending", "terminal-awaiting", e)
            [] M.effects[e].kind = "stop" -> completeReceipts(K, e)
            [] M.effects[e].kind = "failure" ->
                 moveReceipts(M, e, "terminal-pending", "retry-awaiting", e)
            [] M.effects[e].kind = "retry" -> completeReceipts(M, e)
            [] OTHER -> completeReceipts(T, e)
    BY <1>0 DEF finish, E, M
  <2>. HIDE DEF K, T
  <2>. QED  BY <1>4, <2>1, <2>2
<1>. HIDE DEF K, T
<1>8. \A i \in DOMAIN R : /\ R[i] \in Receipt /\ Bound(L, R[i])
                          /\ open(R[i]) => R[i].result # "ok"
  BY LedgerFields DEF Sound, BoundReceipts, valid, validReceipts
<1>9. ASSUME NEW H \in Ledger, Len(H.receipts) = Len(R),
             H.effects = E, H.gen = L.gen, H.facts = L.facts,
             H.tomb.action = L.tomb.action, H.tomb.effect = L.tomb.effect,
             H.tomb = L.tomb \/ (L.tomb.action # "none" /\ H.tomb.phase = "completed"),
             \A i \in DOMAIN R :
               \/ H.receipts[i] = R[i]
               \/ /\ open(R[i]) /\ H.receipts[i].id = R[i].id
                  /\ Bound(L, H.receipts[i])
      PROVE  /\ Sound(H) /\ Follows(L, H, {}) /\ Len(H.effects) = Len(L.effects)
  <2>1. /\ H.effects = E /\ H.gen = L.gen /\ H.facts = L.facts
        /\ H.tomb.action = L.tomb.action /\ H.tomb.effect = L.tomb.effect
        /\ H.tomb = L.tomb \/ (L.tomb.action # "none" /\ H.tomb.phase = "completed")
    BY <1>9
  <2>2. \A d \in DOMAIN L.effects :
          /\ H.effects[d].kind = L.effects[d].kind /\ H.effects[d].gen = L.effects[d].gen
          /\ H.effects[d].by = L.effects[d].by
          /\ H.effects[d] = L.effects[d] \/ Done(L.effects[d].kind)
    BY <1>2, <2>1
  <2>3. \A i \in DOMAIN R : Bound(L, H.receipts[i]) => Bound(H, H.receipts[i])
    <3>. SUFFICES ASSUME NEW i \in DOMAIN R, Bound(L, H.receipts[i])
                  PROVE  Bound(H, H.receipts[i])
      OBVIOUS
    <3>1. underway(H.receipts[i]) =>
            /\ H.receipts[i].effect \in DOMAIN H.effects
            /\ H.effects[H.receipts[i].effect].gen = L.effects[H.receipts[i].effect].gen
            /\ H.effects[H.receipts[i].effect].by = L.effects[H.receipts[i].effect].by
      BY <1>2, <2>1, <2>2 DEF Bound
    <3>. QED  BY <2>1, <3>1, BoundStays
  <2>4. Len(H.effects) = Len(L.effects)
    BY <1>2, <2>1
  <2>5. \A i \in DOMAIN L.receipts :
          \/ H.receipts[i] = L.receipts[i]
          \/ /\ open(L.receipts[i]) /\ H.receipts[i].id = L.receipts[i].id
             /\ Bound(H, H.receipts[i])
    BY <1>9, <2>3
  <2>6. Len(H.receipts) = Len(L.receipts)
    BY <1>9
  <2>. QED  BY <2>1, <2>2, <2>4, <2>5, <2>6, CommitSound
<1>10. ASSUME NEW B \in Ledger, B.effects = E, B.gen = L.gen, B.facts = L.facts, B.receipts = R,
              B.tomb.action = L.tomb.action, B.tomb.effect = L.tomb.effect,
              B.tomb = L.tomb \/ (L.tomb.action # "none" /\ B.tomb.phase = "completed"),
              N = completeReceipts(B, e)
       PROVE  /\ N \in Ledger /\ Sound(N) /\ Follows(L, N, {})
              /\ Len(N.effects) = Len(L.effects)
  <2>1. /\ N \in Ledger /\ Len(N.receipts) = Len(B.receipts)
        /\ N.gen = B.gen /\ N.man = B.man /\ N.facts = B.facts /\ N.fresh = B.fresh
        /\ N.tomb = B.tomb /\ N.effects = B.effects
        /\ \A i \in DOMAIN B.receipts :
             \/ /\ open(B.receipts[i]) /\ B.receipts[i].effect = e
                /\ N.receipts[i].id = B.receipts[i].id
                /\ N.receipts[i].phase = "completed" /\ N.receipts[i].effect = e
             \/ N.receipts[i] = B.receipts[i]
    BY <1>1, <1>10, CompleteShape
  <2>2. \A i \in DOMAIN R :
          \/ N.receipts[i] = R[i]
          \/ /\ open(R[i]) /\ N.receipts[i].id = R[i].id /\ Bound(L, N.receipts[i])
    <3>1. \A i \in DOMAIN R :
            N.receipts[i].phase = "completed" /\ N.receipts[i].effect = e
              => Bound(L, N.receipts[i])
      BY <1>1 DEF Bound, underway, open, waiting
    <3>. QED  BY <1>10, <2>1, <3>1
  <2>3. /\ N \in Ledger /\ Len(N.receipts) = Len(R)
        /\ N.effects = E /\ N.gen = L.gen /\ N.facts = L.facts
        /\ N.tomb.action = L.tomb.action /\ N.tomb.effect = L.tomb.effect
        /\ N.tomb = L.tomb \/ (L.tomb.action # "none" /\ N.tomb.phase = "completed")
    BY <1>10, <2>1
  <2>. QED  BY <1>9, <2>2, <2>3
<1>11. ASSUME NEW B \in Ledger, B.effects = E, B.gen = L.gen, B.facts = L.facts, B.receipts = R,
              B.tomb = L.tomb,
              NEW from \in {"stop-pending", "terminal-pending"}, NEW to \in Awaiting,
              from = "stop-pending" => L.effects[e].by = "recover",
              N = moveReceipts(B, e, from, to, e)
       PROVE  /\ N \in Ledger /\ Sound(N) /\ Follows(L, N, {})
              /\ Len(N.effects) = Len(L.effects)
  <2>0. from \in Phases /\ to \in Phases /\ e \in Nat
    BY <1>1 DEF Phases, Awaiting
  <2>1. /\ N \in Ledger /\ Len(N.receipts) = Len(B.receipts)
        /\ N.gen = B.gen /\ N.man = B.man /\ N.facts = B.facts /\ N.fresh = B.fresh
        /\ N.tomb = B.tomb /\ N.effects = B.effects
        /\ \A i \in DOMAIN B.receipts :
             IF B.receipts[i].phase = from /\ B.receipts[i].effect = e
             THEN /\ N.receipts[i].id = B.receipts[i].id /\ N.receipts[i].phase = to
                  /\ N.receipts[i].effect = e /\ N.receipts[i].adm = B.receipts[i].adm
                  /\ N.receipts[i].result = B.receipts[i].result
             ELSE N.receipts[i] = B.receipts[i]
    <3>1. Moved(B, N, e, from, to, e)
      BY <1>11, <2>0, MoveShape
    <3>. QED  BY <3>1 DEF Moved
  <2>2. ASSUME NEW i \in DOMAIN R, R[i].phase = from, R[i].effect = e
        PROVE  open(R[i]) /\ N.receipts[i].id = R[i].id /\ Bound(L, N.receipts[i])
    <3>1. /\ N.receipts[i].id = R[i].id /\ N.receipts[i].phase = to
          /\ N.receipts[i].effect = e /\ N.receipts[i].result = R[i].result
      BY <1>11, <2>1, <2>2
    <3>2. open(R[i]) /\ underway(R[i])
      BY <2>2, <1>11 DEF open, underway, waiting
    <3>3. asks[R[i].id] = "recover" /\ L.effects[e].gen = L.gen
      BY <1>8, <1>11, <2>2, <3>2 DEF Bound
    <3>4. R[i].result # "ok"
      BY <1>8, <3>2
    <3>. QED  BY <3>1, <3>2, <3>3, <3>4 DEF Bound, Awaiting
  <2>3. \A i \in DOMAIN R :
          \/ N.receipts[i] = R[i]
          \/ /\ open(R[i]) /\ N.receipts[i].id = R[i].id /\ Bound(L, N.receipts[i])
    BY <1>11, <2>1, <2>2
  <2>4. /\ N \in Ledger /\ Len(N.receipts) = Len(R)
        /\ N.effects = E /\ N.gen = L.gen /\ N.facts = L.facts /\ N.tomb = L.tomb
    BY <1>11, <2>1
  <2>5. /\ N.tomb.action = L.tomb.action /\ N.tomb.effect = L.tomb.effect
        /\ N.tomb = L.tomb \/ (L.tomb.action # "none" /\ N.tomb.phase = "completed")
    BY <2>4
  <2>. QED  BY <1>9, <2>3, <2>4, <2>5
<1>12. L.effects[e].kind = "cleanup" => L.tomb.action # "none"
  BY DEF Sound, SoundEffects
<1>13. "terminal-awaiting" \in Awaiting /\ "retry-awaiting" \in Awaiting
  BY DEF Awaiting
<1>14. CASE /\ L.effects[e].kind = "stop" /\ L.effects[e].by = "recover"
            /\ N = moveReceipts(K, e, "stop-pending", "terminal-awaiting", e)
  BY <1>5, <1>11, <1>13, <1>14
<1>15. CASE L.effects[e].kind = "stop" /\ N = completeReceipts(K, e)
  <2>1. /\ K.tomb.action = L.tomb.action /\ K.tomb.effect = L.tomb.effect
        /\ K.tomb = L.tomb \/ (L.tomb.action # "none" /\ K.tomb.phase = "completed")
    BY <1>5
  <2>. QED  BY <1>5, <1>10, <1>15, <2>1
<1>16. CASE /\ L.effects[e].kind = "failure"
            /\ N = moveReceipts(M, e, "terminal-pending", "retry-awaiting", e)
  BY <1>3, <1>11, <1>13, <1>16
<1>17. CASE L.effects[e].kind = "retry" /\ N = completeReceipts(M, e)
  <2>1. /\ M.tomb.action = L.tomb.action /\ M.tomb.effect = L.tomb.effect
        /\ M.tomb = L.tomb \/ (L.tomb.action # "none" /\ M.tomb.phase = "completed")
    BY <1>3
  <2>. QED  BY <1>3, <1>10, <1>17, <2>1
<1>18. CASE L.effects[e].kind = "cleanup" /\ N = completeReceipts(T, e)
  BY <1>6, <1>10, <1>12, <1>18
<1>. QED  BY <1>7, <1>14, <1>15, <1>16, <1>17, <1>18

-----------------------------------------------------------------------------
(* Commands that add a receipt *)

LEMMA JoinSound ==
  ASSUME NEW L \in Ledger, Sound(L), NEW x \in Receipt, room(L), Bound(L, x),
         underway(x) =>
           \/ L.effects[x.effect].status # "completed" \/ L.tomb.effect = x.effect
           \/ \E k \in DOMAIN L.receipts :
                open(L.receipts[k]) /\ L.receipts[k].effect = x.effect,
         NEW N, N = withReceipt(L, x)
  PROVE  /\ N \in Ledger /\ Sound(N) /\ Follows(L, N, {x.id}) /\ has(N, x.id)
         /\ Len(N.effects) = Len(L.effects) /\ DOMAIN N.effects = DOMAIN L.effects
<1>1. /\ N \in Ledger
      /\ N.gen = L.gen /\ N.man = L.man /\ N.facts = L.facts /\ N.fresh = L.fresh
      /\ N.tomb = L.tomb
      /\ Len(N.effects) = Len(L.effects) /\ DOMAIN N.effects = DOMAIN L.effects
      /\ \A e \in DOMAIN L.effects :
           \/ N.effects[e] = L.effects[e]
           \/ /\ L.effects[e].status = "completed" /\ L.tomb.effect # e
              /\ \A k \in DOMAIN L.receipts :
                   open(L.receipts[k]) => L.receipts[k].effect # e
              /\ N.effects[e].status = "gone" /\ N.effects[e].kind = L.effects[e].kind
      /\ \E i \in DOMAIN N.receipts : N.receipts[i] = x
      /\ \A i \in DOMAIN N.receipts :
           N.receipts[i] = x \/ \E j \in DOMAIN L.receipts : N.receipts[i] = L.receipts[j]
  BY ReceiptAdded
<1>2. ASSUME NEW y, Bound(L, y),
             underway(y) =>
               \/ L.effects[y.effect].status # "completed" \/ L.tomb.effect = y.effect
               \/ \E k \in DOMAIN L.receipts :
                    open(L.receipts[k]) /\ L.receipts[k].effect = y.effect
      PROVE  Bound(N, y)
  <2>1. underway(y) => y.effect \in DOMAIN L.effects
    BY <1>2 DEF Bound
  <2>2. underway(y) => N.effects[y.effect] = L.effects[y.effect]
    BY <1>1, <1>2, <2>1
  <2>. QED  BY <1>1, <1>2, <2>1, <2>2, BoundStays
<1>3. BoundReceipts(N)
  <2>1. \A j \in DOMAIN L.receipts : Bound(L, L.receipts[j])
    BY DEF Sound, BoundReceipts
  <2>2. \A j \in DOMAIN L.receipts : Bound(N, L.receipts[j])
    BY <1>2, <2>1 DEF underway
  <2>3. Bound(N, x)
    BY <1>2
  <2>. QED  BY <1>1, <2>2, <2>3 DEF BoundReceipts
<1>4. SoundEffects(N)
  <2>1. SoundEffects(L)
    BY DEF Sound
  <2>2. \A e \in DOMAIN N.effects :
          /\ e \in DOMAIN L.effects /\ N.effects[e].kind = L.effects[e].kind
          /\ N.effects[e].status = "completed" => L.effects[e].status = "completed"
    BY <1>1
  <2>. QED  BY <1>1, <2>1, <2>2, EffectsStay
<1>5. Sound(N)
  BY <1>1, <1>3, <1>4 DEF Sound, SoundTombstone
<1>6. Derived(L, N, {x.id})
  BY <1>1 DEF Derived
<1>7. Follows(L, N, {x.id})
  BY <1>1, <1>6 DEF Follows
<1>8. has(N, x.id)
  BY <1>1 DEF has
<1>. QED  BY <1>1, <1>5, <1>7, <1>8

\* A command for request r is refused, or what it leaves.
Outcome(L, r, c) ==
  /\ c.refusal \in {"none", "stale", "conflict"}
  /\ c.refusal = "none" =>
    /\ c.ledger \in Ledger /\ Sound(c.ledger) /\ Follows(L, c.ledger, {r})
    /\ has(c.ledger, r)
    /\ c.effect = 0 \/ c.effect \in DOMAIN c.ledger.effects
Kept(L, c) == c.refusal = "none" => Len(c.ledger.effects) = Len(L.effects)

LEMMA EntryType ==
  ASSUME NEW r \in Requests, NEW phase \in Phases, NEW e \in Nat
  PROVE  LET x == pendingEntry(r, phase, e) IN
         /\ x \in Receipt /\ x.id = r /\ x.phase = phase /\ x.effect = e
         /\ x.result = "none"
BY DEF pendingEntry, entry, Receipt, NoAdm, Admission, States

LEMMA JoinsOutcome ==
  ASSUME NEW L \in Ledger, Sound(L), NEW r \in Requests, NEW phase \in Phases,
         NEW e \in DOMAIN L.effects, NEW x, x = pendingEntry(r, phase, e), Bound(L, x),
         \/ L.effects[e].status # "completed" \/ L.tomb.effect = e
         \/ \E k \in DOMAIN L.receipts : open(L.receipts[k]) /\ L.receipts[k].effect = e,
         NEW c, c = Joins(L, r, phase, e)
  PROVE  Outcome(L, r, c) /\ Kept(L, c)
<1>1. x \in Receipt /\ x.id = r /\ x.effect = e
  BY EntryType, LedgerFields
<1>2. CASE room(L)
  <2>. DEFINE N == withReceipt(L, x)
  <2>1. c.refusal = "none" /\ c.ledger = N /\ c.effect = e
    BY <1>2 DEF Joins, Commits
  <2>2. N = withReceipt(L, x)
    OBVIOUS
  <2>. HIDE DEF N
  <2>3. /\ N \in Ledger /\ Sound(N) /\ Follows(L, N, {r}) /\ has(N, r)
        /\ Len(N.effects) = Len(L.effects) /\ DOMAIN N.effects = DOMAIN L.effects
    BY <1>1, <1>2, <2>2, JoinSound, ZenonT(40)
  <2>. QED  BY <2>1, <2>3 DEF Outcome, Kept
<1>3. CASE ~room(L)
  BY <1>3 DEF Joins, Refused, Outcome, Kept
<1>. QED  BY <1>2, <1>3

LEMMA SettlesOutcome ==
  ASSUME NEW L \in Ledger, Sound(L), NEW r \in Requests, NEW e \in Nat \ {0},
         NEW c, c = Settles(L, r, e)
  PROVE  Outcome(L, r, c) /\ Kept(L, c)
<1>. DEFINE x == settled(pendingEntry(r, "completed", e), "ok")
<1>1. /\ x \in Receipt /\ x.id = r /\ x.phase = "completed" /\ x.effect = e
  <2>1. "completed" \in Phases
    BY DEF Phases
  <2>. QED  BY <2>1, EntryType, SettledShape
<1>2. CASE room(L)
  <2>. DEFINE N == withReceipt(L, x)
  <2>1. c.refusal = "none" /\ c.ledger = N /\ c.effect = 0
    BY <1>2 DEF Settles, Commits
  <2>2. N = withReceipt(L, x)
    OBVIOUS
  <2>. HIDE DEF N, x
  <2>3. Bound(L, x) /\ ~underway(x)
    BY <1>1 DEF Bound, underway, open, waiting
  <2>4. /\ N \in Ledger /\ Sound(N) /\ Follows(L, N, {r}) /\ has(N, r)
        /\ Len(N.effects) = Len(L.effects) /\ DOMAIN N.effects = DOMAIN L.effects
    BY <1>1, <1>2, <2>2, <2>3, JoinSound
  <2>. QED  BY <2>1, <2>4 DEF Outcome, Kept
<1>3. CASE ~room(L)
  BY <1>3 DEF Settles, Refused, Outcome, Kept
<1>. QED  BY <1>2, <1>3

\* A tombstone is joined by the action that left it.
LEMMA ReplayOutcome ==
  ASSUME NEW L \in Ledger, valid(L), Sound(L), NEW r \in Requests,
         L.tomb.action # "none", NEW c, c = replay(L, r)
  PROVE  Outcome(L, r, c) /\ Kept(L, c)
<1>. DEFINE e == L.tomb.effect
            phase == IF L.tomb.phase = "pending" THEN "cleanup-pending" ELSE "cleanup-started"
            x == pendingEntry(r, phase, e)
<1>1. e \in DOMAIN L.effects /\ e \in Nat \ {0} /\ L.effects[e].gen = L.gen
  BY LedgerFields DEF valid, validTombstone
<1>2. phase \in Phases /\ phase \in {"cleanup-pending", "cleanup-started"}
  BY DEF Phases
<1>3. CASE L.tomb.action # asks[r]
  BY <1>3 DEF replay, Refused, Outcome, Kept
<1>4. CASE L.tomb.action = asks[r] /\ L.tomb.phase = "completed"
  <2>1. c = Settles(L, r, e)
    BY <1>4 DEF replay
  <2>. QED  BY <1>1, <2>1, SettlesOutcome
<1>5. CASE L.tomb.action = asks[r] /\ L.tomb.phase # "completed"
  <2>1. c = Joins(L, r, phase, e) /\ x = pendingEntry(r, phase, e)
    BY <1>5 DEF replay
  <2>2. x.id = r /\ x.phase = phase /\ x.effect = e /\ x.result = "none"
    BY <1>1, <1>2, EntryType
  <2>. HIDE DEF phase, x
  <2>3. Bound(L, x)
    BY <1>1, <1>2, <1>5, <2>2 DEF Bound
  <2>. QED  BY <1>1, <1>2, <2>1, <2>3, JoinsOutcome
<1>. QED  BY <1>3, <1>4, <1>5

\* A Recover is joined where it stands.
LEMMA AttachOutcome ==
  ASSUME NEW L \in Ledger, valid(L), Sound(L), NEW r \in Requests,
         asks[r] = "recover", attaches(L), NEW gen, NEW c, c = attach(L, r, gen)
  PROVE  Outcome(L, r, c) /\ Kept(L, c)
<1>1. CASE ongoing(L) # {}
  <2>. DEFINE i == Min(ongoing(L))
              y == L.receipts[i]
              x == pendingEntry(r, y.phase, y.effect)
  <2>1. ongoing(L) \subseteq Nat /\ ongoing(L) \subseteq DOMAIN L.receipts
    BY LedgerFields DEF ongoing
  <2>2. i \in ongoing(L)
    BY <1>1, <2>1, LeastNatural
  <2>. HIDE DEF i
  <2>3. /\ i \in DOMAIN L.receipts /\ open(y) /\ ~waiting(y) /\ asks[y.id] = "recover"
        /\ y \in Receipt
    BY <2>2, LedgerFields DEF ongoing
  <2>4. Bound(L, y)
    BY <2>3 DEF Sound, BoundReceipts
  <2>5. y.effect \in DOMAIN L.effects /\ y.phase \in Phases
    BY <2>3, <2>4 DEF Bound, underway, Receipt
  <2>6. x.id = r /\ x.phase = y.phase /\ x.effect = y.effect /\ x.result = "none"
    BY <2>5, EntryType, LedgerFields
  <2>7. \/ c = Joins(L, r, y.phase, y.effect)
        \/ c = Refused("conflict")
    BY <1>1 DEF attach, i
  <2>8. x = pendingEntry(r, y.phase, y.effect)
    OBVIOUS
  <2>9. \E k \in DOMAIN L.receipts : open(L.receipts[k]) /\ L.receipts[k].effect = y.effect
    BY <2>3
  <2>. HIDE DEF x, y
  <2>10. Bound(L, x)
    BY <2>3, <2>4, <2>6 DEF Bound, underway, open, waiting
  <2>11. CASE c = Joins(L, r, y.phase, y.effect)
    BY <2>5, <2>8, <2>9, <2>10, <2>11, JoinsOutcome
  <2>12. CASE c = Refused("conflict")
    BY <2>12 DEF Refused, Outcome, Kept
  <2>. QED  BY <2>7, <2>11, <2>12
<1>2. CASE ongoing(L) = {}
  <2>. DEFINE e == CHOOSE d \in currentRetry(L) : TRUE
              x == pendingEntry(r, "retry-pending", e)
  <2>1. currentRetry(L) # {}
    BY <1>2 DEF attaches
  <2>2. e \in currentRetry(L)
    BY <2>1
  <2>3. \/ c = Refused("conflict")
        \/ L.effects[e].status = "completed" /\ c = Settles(L, r, e)
        \/ L.effects[e].status # "completed" /\ c = Joins(L, r, "retry-pending", e)
    BY <1>2 DEF attach
  <2>. HIDE DEF e
  <2>4. e \in DOMAIN L.effects /\ L.effects[e].gen = L.gen /\ e \in Nat \ {0}
    <3>1. currentRetry(L) \subseteq {d \in DOMAIN L.effects : L.effects[d].gen = L.gen}
      BY DEF currentRetry
    <3>. QED  BY <2>2, <3>1, LedgerFields
  <2>5. "retry-pending" \in Phases
    BY DEF Phases
  <2>6. x.id = r /\ x.phase = "retry-pending" /\ x.effect = e /\ x.result = "none"
    BY <2>4, <2>5, EntryType
  <2>7. x = pendingEntry(r, "retry-pending", e)
    OBVIOUS
  <2>. HIDE DEF x
  <2>8. Bound(L, x)
    BY <2>4, <2>6 DEF Bound
  <2>9. CASE c = Refused("conflict")
    BY <2>9 DEF Refused, Outcome, Kept
  <2>10. CASE c = Settles(L, r, e)
    BY <2>4, <2>10, SettlesOutcome
  <2>11. CASE L.effects[e].status # "completed" /\ c = Joins(L, r, "retry-pending", e)
    BY <2>4, <2>5, <2>7, <2>8, <2>11, JoinsOutcome
  <2>. QED  BY <2>3, <2>9, <2>10, <2>11
<1>. QED  BY <1>1, <1>2

\* An attempt is reserved.
LEMMA ReserveOutcome ==
  ASSUME NEW L \in Ledger, valid(L), Sound(L), NEW r \in Requests,
         NEW c, c = reserve(L, r)
  PROVE  Outcome(L, r, c) /\ Kept(L, c) /\ (c.refusal = "none" => valid(c.ledger))
<1>. DEFINE P == {i \in DOMAIN L.receipts : waiting(L.receipts[i])}
            adm == IF P # {} THEN L.receipts[Min(P)].adm ELSE [gen |-> L.gen, man |-> L.man]
            x == entry(r, "admission-pending", 0, adm)
            N == withReceipt(L, x)
<1>1. \/ c = Refused("conflict")
      \/ room(L) /\ valid(N) /\ c = Commits(N, 0)
  BY DEF reserve
<1>2. adm \in Admission
  <2>1. CASE P # {}
    <3>1. P \subseteq Nat /\ P \subseteq DOMAIN L.receipts
      BY LedgerFields
    <3>2. Min(P) \in P
      BY <2>1, <3>1, LeastNatural
    <3>3. L.receipts[Min(P)] \in Receipt
      BY <3>1, <3>2, LedgerFields
    <3>. QED  BY <2>1, <3>3 DEF Receipt
  <2>2. CASE P = {}
    BY <2>2, LedgerFields DEF Admission
  <2>. QED  BY <2>1, <2>2
<1>. HIDE DEF adm
<1>3. /\ x \in Receipt /\ x.id = r /\ x.phase = "admission-pending" /\ x.effect = 0
      /\ x.result = "none"
  BY <1>2 DEF entry, Receipt, Phases
<1>4. N = withReceipt(L, x)
  OBVIOUS
<1>. HIDE DEF N, x
<1>5. Bound(L, x) /\ ~underway(x)
  BY <1>3 DEF Bound, underway, open, waiting
<1>6. CASE c = Refused("conflict")
  BY <1>6 DEF Refused, Outcome, Kept
<1>7. CASE room(L) /\ valid(N) /\ c = Commits(N, 0)
  <2>1. /\ N \in Ledger /\ Sound(N) /\ Follows(L, N, {r}) /\ has(N, r)
        /\ Len(N.effects) = Len(L.effects) /\ DOMAIN N.effects = DOMAIN L.effects
    BY <1>3, <1>4, <1>5, <1>7, JoinSound
  <2>2. c.refusal = "none" /\ c.ledger = N /\ c.effect = 0
    BY <1>7 DEF Commits
  <2>. QED  BY <1>7, <2>1, <2>2 DEF Outcome, Kept
<1>. QED  BY <1>1, <1>6, <1>7

\* What other actions wait for is over, and so are the effects only they waited for.
Superseded(L, N, action) ==
  /\ N \in Ledger /\ Len(N.receipts) = Len(L.receipts)
  /\ N.gen = L.gen /\ N.man = L.man /\ N.facts = L.facts /\ N.fresh = L.fresh
  /\ N.tomb = L.tomb
  /\ Len(N.effects) = Len(L.effects) /\ DOMAIN N.effects = DOMAIN L.effects
  /\ \A e \in DOMAIN L.effects :
       \/ N.effects[e] = L.effects[e]
       \/ /\ \E i \in DOMAIN L.receipts : L.receipts[i].effect = e
          /\ N.effects[e].status = "gone" /\ N.effects[e].kind = L.effects[e].kind
  /\ \A i \in DOMAIN L.receipts :
       IF open(L.receipts[i]) /\ asks[L.receipts[i].id] # action
       THEN /\ N.receipts[i].id = L.receipts[i].id
            /\ N.receipts[i].phase = "completed" /\ N.receipts[i].result = "refused"
       ELSE N.receipts[i] = L.receipts[i]

LEMMA SupersedeShape ==
  ASSUME NEW L \in Ledger, NEW action \in Actions
  PROVE  Superseded(L, supersede(L, action), action)
<1>. DEFINE N == supersede(L, action)
<1>. DEFINE R == L.receipts
            other(x) == open(x) /\ asks[x.id] # action
            S == {R[i].effect : i \in {j \in DOMAIN R : other(R[j])}}
            op(x) == IF other(x) THEN [settled(x, "refused") EXCEPT !.effect = 0] ELSE x
            Q == [i \in DOMAIN R |-> op(R[i])]
            M == [L EXCEPT !.receipts = Q]
            D == S \cap DOMAIN M.effects
<1>1. N = prune(M, D)
  BY DEF supersede, onReceipts
<1>. HIDE DEF N
<1>2. ASSUME NEW x \in Receipt
      PROVE  /\ op(x) \in Receipt
             /\ IF other(x)
                THEN op(x).id = x.id /\ op(x).phase = "completed" /\ op(x).result = "refused"
                ELSE op(x) = x
  <2>. DEFINE y == settled(x, "refused")
  <2>1. y \in Receipt /\ y.id = x.id /\ y.phase = "completed" /\ y.result = "refused"
    BY SettledShape
  <2>. HIDE DEF y
  <2>2. LET z == [y EXCEPT !.effect = 0]
        IN  /\ z \in Receipt /\ z.id = x.id /\ z.phase = "completed" /\ z.result = "refused"
    BY <2>1 DEF Receipt
  <2>3. op(x) = IF other(x) THEN [y EXCEPT !.effect = 0] ELSE x
    BY DEF y
  <2>. HIDE DEF op, other
  <2>. QED  BY <2>2, <2>3
<1>. HIDE DEF op
<1>3. \A i \in DOMAIN R : R[i] \in Receipt
  BY LedgerFields
<1>4. DOMAIN Q = DOMAIN R /\ Q = [i \in DOMAIN Q |-> Q[i]] /\ \A i \in DOMAIN R : Q[i] = op(R[i])
  OBVIOUS
<1>. HIDE DEF Q
<1>5. \A i \in DOMAIN Q : Q[i] \in Receipt
  BY <1>2, <1>3, <1>4
<1>6. /\ M \in Ledger /\ M.receipts = Q /\ Len(Q) = Len(R)
      /\ M.gen = L.gen /\ M.man = L.man /\ M.facts = L.facts /\ M.fresh = L.fresh
      /\ M.tomb = L.tomb /\ M.effects = L.effects
  BY <1>4, <1>5, MapReceipts
<1>7. \A e \in D : \E i \in DOMAIN R : R[i].effect = e
  OBVIOUS
<1>. HIDE DEF M, D, S
<1>8. /\ N \in Ledger /\ N.receipts = Q
      /\ N.gen = M.gen /\ N.man = M.man /\ N.facts = M.facts /\ N.fresh = M.fresh
      /\ N.tomb = M.tomb
      /\ Len(N.effects) = Len(M.effects) /\ DOMAIN N.effects = DOMAIN M.effects
      /\ \A e \in DOMAIN M.effects :
           \/ N.effects[e] = M.effects[e]
           \/ /\ e \in D /\ ~referenced(M, e)
              /\ N.effects[e].status = "gone" /\ N.effects[e].kind = M.effects[e].kind
  BY <1>1, <1>6, PruneShape
<1>9. \A i \in DOMAIN R :
        IF other(R[i])
        THEN Q[i].id = R[i].id /\ Q[i].phase = "completed" /\ Q[i].result = "refused"
        ELSE Q[i] = R[i]
  BY <1>2, <1>3, <1>4
<1>10. \A e \in DOMAIN L.effects :
         \/ N.effects[e] = L.effects[e]
         \/ /\ \E i \in DOMAIN R : R[i].effect = e
            /\ N.effects[e].status = "gone" /\ N.effects[e].kind = L.effects[e].kind
  BY <1>6, <1>7, <1>8
<1>11. Superseded(L, N, action)
  BY <1>6, <1>8, <1>9, <1>10 DEF Superseded
<1>. QED  BY <1>11 DEF N

\* Then nothing is under way but what the new generation begins.
LEMMA SupersedeSound ==
  ASSUME NEW L \in Ledger, valid(L), Sound(L), NEW action \in Actions,
         \A i \in DOMAIN L.receipts :
           underway(L.receipts[i]) => asks[L.receipts[i].id] # action,
         NEW K \in Ledger, K.receipts = L.receipts, K.facts = L.facts,
         SoundEffects(K), SoundTombstone(K),
         NEW f \in DOMAIN K.effects, f \notin DOMAIN L.effects,
         NEW N, N = supersede(K, action)
  PROVE  /\ N \in Ledger /\ Sound(N) /\ Follows(K, N, {})
         /\ N.gen = K.gen /\ N.tomb = K.tomb
         /\ f \in DOMAIN N.effects /\ N.effects[f] = K.effects[f]
<1>. DEFINE R == L.receipts
<1>1. /\ N \in Ledger /\ Len(N.receipts) = Len(R)
      /\ N.gen = K.gen /\ N.man = K.man /\ N.facts = K.facts /\ N.fresh = K.fresh
      /\ N.tomb = K.tomb
      /\ Len(N.effects) = Len(K.effects) /\ DOMAIN N.effects = DOMAIN K.effects
      /\ \A e \in DOMAIN K.effects :
           \/ N.effects[e] = K.effects[e]
           \/ /\ \E i \in DOMAIN R : R[i].effect = e
              /\ N.effects[e].status = "gone" /\ N.effects[e].kind = K.effects[e].kind
      /\ \A i \in DOMAIN R :
           IF open(R[i]) /\ asks[R[i].id] # action
           THEN /\ N.receipts[i].id = R[i].id
                /\ N.receipts[i].phase = "completed" /\ N.receipts[i].result = "refused"
           ELSE N.receipts[i] = R[i]
  <2>1. /\ N \in Ledger /\ Len(N.receipts) = Len(K.receipts)
        /\ N.gen = K.gen /\ N.man = K.man /\ N.facts = K.facts /\ N.fresh = K.fresh
        /\ N.tomb = K.tomb
        /\ Len(N.effects) = Len(K.effects) /\ DOMAIN N.effects = DOMAIN K.effects
        /\ \A e \in DOMAIN K.effects :
             \/ N.effects[e] = K.effects[e]
             \/ /\ \E i \in DOMAIN K.receipts : K.receipts[i].effect = e
                /\ N.effects[e].status = "gone" /\ N.effects[e].kind = K.effects[e].kind
        /\ \A i \in DOMAIN K.receipts :
             IF open(K.receipts[i]) /\ asks[K.receipts[i].id] # action
             THEN /\ N.receipts[i].id = K.receipts[i].id
                  /\ N.receipts[i].phase = "completed" /\ N.receipts[i].result = "refused"
             ELSE N.receipts[i] = K.receipts[i]
    <3>1. Superseded(K, N, action)
      BY SupersedeShape
    <3>. QED  BY <3>1 DEF Superseded
  <2>. QED  BY <2>1
<1>2. DOMAIN N.receipts = DOMAIN R
  BY <1>1, LedgerFields
<1>3. \A i \in DOMAIN R : R[i].effect # f
  <2>1. f # 0
    BY LedgerFields
  <2>. QED  BY <2>1, ValidHolds
<1>4. N.effects[f] = K.effects[f] /\ f \in DOMAIN N.effects
  BY <1>1, <1>3
<1>5. BoundReceipts(N)
  <2>. SUFFICES ASSUME NEW i \in DOMAIN R PROVE Bound(N, N.receipts[i])
    BY <1>2 DEF BoundReceipts
  <2>1. CASE open(R[i]) /\ asks[R[i].id] # action
    BY <1>1, <2>1 DEF Bound, underway, open, waiting
  <2>2. CASE ~(open(R[i]) /\ asks[R[i].id] # action)
    <3>1. N.receipts[i] = R[i] /\ ~underway(R[i])
      BY <1>1, <2>2 DEF underway
    <3>2. Bound(L, R[i])
      BY DEF Sound, BoundReceipts
    <3>. QED  BY <3>1, <3>2 DEF Bound, underway, open, waiting
  <2>. QED  BY <2>1, <2>2
<1>6. SoundEffects(N)
  <2>1. \A e \in DOMAIN N.effects :
          /\ e \in DOMAIN K.effects /\ N.effects[e].kind = K.effects[e].kind
          /\ N.effects[e].status = "completed" => K.effects[e].status = "completed"
    BY <1>1
  <2>. QED  BY <1>1, <2>1, EffectsStay
<1>7. Sound(N)
  BY <1>1, <1>5, <1>6 DEF Sound, SoundTombstone
<1>8. Derived(K, N, {})
  <2>. SUFFICES ASSUME NEW i \in DOMAIN R
                PROVE  R[i].id = N.receipts[i].id /\ (open(R[i]) \/ N.receipts[i] = R[i])
    BY <1>2 DEF Derived
  <2>. QED  BY <1>1
<1>9. Follows(K, N, {})
  BY <1>1, <1>8 DEF Follows
<1>. QED  BY <1>1, <1>4, <1>7, <1>9

LEMMA OutcomeAfter ==
  ASSUME NEW L, NEW N, NEW r, NEW c, Follows(L, N, {}), Outcome(N, r, c)
  PROVE  Outcome(L, r, c)
<1>1. SUFFICES ASSUME c.refusal = "none" PROVE Follows(L, c.ledger, {r})
  BY DEF Outcome
<1>2. Follows(N, c.ledger, {r})
  BY <1>1 DEF Outcome
<1>. QED  BY <1>2, FollowsOn

LEMMA StopOutcome ==
  ASSUME NEW L \in Ledger, valid(L), Sound(L), asks \in [Requests -> Actions],
         NEW r \in Requests, asks[r] \in {"cancel", "recover"},
         asks[r] = "recover" => ~attaches(L),
         NEW c, c = beginStop(L, r)
  PROVE  Outcome(L, r, c)
<1>1. CASE pendingOf(L, {"stop"}) # {}
  BY <1>1 DEF beginStop, Refused, Outcome
<1>2. CASE pendingOf(L, {"stop"}) = {}
  <2>. DEFINE M == [L EXCEPT !.gen = L.gen + 1]
              f == nextId(L)
              K == withIntent(M, "stop", asks[r])
              N == supersede(K, asks[r])
              x == pendingEntry(r, "stop-pending", f)
  <2>1. c = Joins(N, r, "stop-pending", f)
    BY <1>2 DEF beginStop
  <2>2. /\ M \in Ledger /\ M.gen = L.gen + 1 /\ M.facts = L.facts /\ M.tomb = L.tomb
        /\ M.effects = L.effects /\ M.receipts = L.receipts
    <3>. DEFINE g == L.gen + 1
    <3>1. g \in Nat
      BY LedgerFields
    <3>2. M = [L EXCEPT !.gen = g]
      OBVIOUS
    <3>. HIDE DEF g
    <3>3. /\ M \in Ledger /\ M.gen = g /\ M.facts = L.facts /\ M.tomb = L.tomb
          /\ M.effects = L.effects /\ M.receipts = L.receipts
      BY <3>1, <3>2 DEF Ledger
    <3>. HIDE DEF M
    <3>. QED  BY <3>3 DEF g
  <2>. HIDE DEF M
  <2>3. f = nextId(M) /\ f \in Nat
    BY <2>2, LedgerFields DEF nextId
  <2>4. K = withIntent(M, "stop", asks[r]) /\ asks[r] \in Actions
    OBVIOUS
  <2>. HIDE DEF K, f
  <2>5. /\ K \in Ledger /\ K.receipts = L.receipts
        /\ K.gen = M.gen /\ K.facts = L.facts
        /\ K.tomb = L.tomb
        /\ DOMAIN K.effects = DOMAIN L.effects \cup {f}
        /\ f \notin DOMAIN L.effects /\ f \in Nat \ {0}
        /\ \A e \in DOMAIN L.effects : K.effects[e] = L.effects[e]
        /\ K.effects[f].kind = "stop" /\ K.effects[f].by = asks[r]
        /\ K.effects[f].status = "pending" /\ K.effects[f].gen = M.gen
    <3>1. /\ K \in Ledger /\ K.receipts = M.receipts
          /\ K.gen = M.gen /\ K.man = M.man /\ K.facts = M.facts /\ K.fresh = M.fresh
          /\ K.tomb = M.tomb
          /\ DOMAIN K.effects = DOMAIN M.effects \cup {f}
          /\ f \notin DOMAIN M.effects /\ f \in Nat \ {0}
          /\ \A e \in DOMAIN M.effects : K.effects[e] = M.effects[e]
          /\ K.effects[f].kind = "stop" /\ K.effects[f].by = asks[r]
          /\ K.effects[f].status = "pending" /\ K.effects[f].gen = M.gen
      BY <2>2, <2>3, <2>4, IntentShape
    <3>. QED  BY <2>2, <3>1
  <2>6. SoundEffects(K) /\ SoundTombstone(K)
    BY <2>5, EffectsStay DEF Sound, SoundTombstone
  <2>7. Follows(L, K, {})
    BY <2>5 DEF Follows, Derived
  <2>8. \A i \in DOMAIN L.receipts :
          underway(L.receipts[i]) => asks[L.receipts[i].id] # asks[r]
    <3>. SUFFICES ASSUME NEW i \in DOMAIN L.receipts, underway(L.receipts[i]),
                         asks[L.receipts[i].id] = asks[r]
                  PROVE  FALSE
      OBVIOUS
    <3>1. asks[r] # "recover"
      <4>1. asks[r] = "recover" => ongoing(L) # {}
        BY DEF ongoing, underway
      <4>. QED  BY <4>1 DEF attaches
    <3>2. asks[r] = "cancel"
      BY <3>1
    <3>3. Bound(L, L.receipts[i]) /\ L.receipts[i] \in Receipt
      BY LedgerFields DEF Sound, BoundReceipts
    <3>4. L.tomb.action # "cancel"
      BY DEF Sound, SoundTombstone, Destructive
    <3>5. L.receipts[i].phase = "stop-pending"
      BY <3>2, <3>3, <3>4 DEF Bound, Receipt, Phases, underway, open, waiting
    <3>6. L.receipts[i].effect # 0
      BY DEF valid, validReceipts, underway
    <3>7. /\ L.receipts[i].effect \in DOMAIN L.effects
          /\ L.effects[L.receipts[i].effect].kind = kindOf(L.receipts[i])
          /\ L.effects[L.receipts[i].effect].status = statusOf(L.receipts[i])
      BY <3>6, ValidHolds
    <3>8. kindOf(L.receipts[i]) = "stop" /\ statusOf(L.receipts[i]) = "pending"
      BY <3>2, <3>5 DEF kindOf, statusOf, Awaiting, Destructive
    <3>9. L.receipts[i].effect \in pendingOf(L, {"stop"})
      BY <3>7, <3>8 DEF pendingOf, pendingEffects
    <3>. QED  BY <1>2, <3>9
  <2>9. N = supersede(K, asks[r])
    OBVIOUS
  <2>. HIDE DEF N
  <2>10. /\ N \in Ledger /\ Sound(N) /\ Follows(K, N, {})
         /\ N.gen = K.gen /\ N.tomb = K.tomb
         /\ f \in DOMAIN N.effects /\ N.effects[f] = K.effects[f]
    BY <2>4, <2>5, <2>6, <2>8, <2>9, SupersedeSound
  <2>11. Follows(L, N, {})
    BY <2>7, <2>10, FollowsOn
  <2>12. "stop-pending" \in Phases
    BY DEF Phases
  <2>13. x = pendingEntry(r, "stop-pending", f)
    OBVIOUS
  <2>14. x.id = r /\ x.phase = "stop-pending" /\ x.effect = f /\ x.result = "none"
    BY <2>3, <2>12, EntryType
  <2>. HIDE DEF x
  <2>15. Bound(N, x)
    BY <2>5, <2>10, <2>14 DEF Bound
  <2>16. N.effects[f].status # "completed"
    BY <2>5, <2>10
  <2>17. Outcome(N, r, c)
    BY <2>1, <2>10, <2>12, <2>13, <2>15, <2>16, JoinsOutcome
  <2>. QED  BY <2>11, <2>17, OutcomeAfter
<1>. QED  BY <1>1, <1>2

\* The record gives way to a tombstone.
LEMMA InvalidateOutcome ==
  ASSUME NEW L \in Ledger, valid(L), Sound(L), asks \in [Requests -> Actions],
         NEW r \in Requests, asks[r] \in Destructive, L.tomb.action = "none",
         NEW c, c = invalidate(L, r)
  PROVE  Outcome(L, r, c)
<1>. DEFINE G == [L EXCEPT !.gen = L.gen + 1, !.man = "none"]
            M == prune(G, DOMAIN L.effects)
            f == nextId(L)
            W == withIntent(M, "cleanup", asks[r])
            T == [action |-> asks[r], effect |-> f, phase |-> "pending"]
            K == [W EXCEPT !.tomb = T]
            N == supersede(K, asks[r])
            x == pendingEntry(r, "cleanup-pending", f)
<1>1. c = Joins(N, r, "cleanup-pending", f)
  BY DEF invalidate
<1>2. /\ G \in Ledger /\ G.facts = L.facts /\ G.tomb = L.tomb
      /\ G.effects = L.effects /\ G.receipts = L.receipts
  <2>. DEFINE g == L.gen + 1
  <2>1. g \in Nat
    BY LedgerFields
  <2>2. G = [L EXCEPT !.gen = g, !.man = "none"]
    OBVIOUS
  <2>. HIDE DEF g, G
  <2>. QED  BY <2>1, <2>2 DEF Ledger, States
<1>. HIDE DEF G
<1>3. /\ M \in Ledger /\ M.receipts = L.receipts /\ M.facts = L.facts
      /\ Len(M.effects) = Len(L.effects) /\ DOMAIN M.effects = DOMAIN L.effects
      /\ \A e \in DOMAIN L.effects : M.effects[e].kind = L.effects[e].kind
      /\ \A e \in DOMAIN L.effects :
           M.effects[e] = L.effects[e] \/ M.effects[e].status = "gone"
  <2>1. /\ M \in Ledger /\ M.receipts = G.receipts
        /\ M.gen = G.gen /\ M.man = G.man /\ M.facts = G.facts /\ M.fresh = G.fresh
        /\ M.tomb = G.tomb
        /\ Len(M.effects) = Len(G.effects) /\ DOMAIN M.effects = DOMAIN G.effects
        /\ \A e \in DOMAIN G.effects :
             \/ M.effects[e] = G.effects[e]
             \/ /\ e \in DOMAIN L.effects /\ ~referenced(G, e)
                /\ M.effects[e].status = "gone" /\ M.effects[e].kind = G.effects[e].kind
    BY <1>2, PruneShape
  <2>. QED  BY <1>2, <2>1
<1>. HIDE DEF M
<1>4. f = nextId(M) /\ f \in Nat
  BY <1>3, LedgerFields DEF nextId
<1>5. W = withIntent(M, "cleanup", asks[r]) /\ asks[r] \in Actions
  OBVIOUS
<1>. HIDE DEF W, f
<1>6. /\ W \in Ledger /\ W.receipts = L.receipts /\ W.facts = L.facts /\ W.gen = M.gen
      /\ DOMAIN W.effects = DOMAIN L.effects \cup {f}
      /\ f \notin DOMAIN L.effects /\ f \in Nat \ {0}
      /\ \A e \in DOMAIN L.effects : W.effects[e] = M.effects[e]
      /\ W.effects[f].kind = "cleanup" /\ W.effects[f].status = "pending"
      /\ W.effects[f].gen = M.gen
  <2>1. /\ W \in Ledger /\ W.receipts = M.receipts
        /\ W.gen = M.gen /\ W.man = M.man /\ W.facts = M.facts /\ W.fresh = M.fresh
        /\ W.tomb = M.tomb
        /\ DOMAIN W.effects = DOMAIN M.effects \cup {f}
        /\ f \notin DOMAIN M.effects /\ f \in Nat \ {0}
        /\ \A e \in DOMAIN M.effects : W.effects[e] = M.effects[e]
        /\ W.effects[f].kind = "cleanup" /\ W.effects[f].by = asks[r]
        /\ W.effects[f].status = "pending" /\ W.effects[f].gen = M.gen
    BY <1>3, <1>4, <1>5, IntentShape
  <2>. QED  BY <1>3, <2>1
<1>7. /\ K \in Ledger /\ K.receipts = L.receipts /\ K.facts = L.facts /\ K.gen = M.gen
      /\ K.tomb = T /\ K.effects = W.effects
  <2>1. T \in [action : Actions \cup {"none"}, effect : Nat,
               phase : {"none", "pending", "cleanup-started", "completed"}]
    BY <1>4, <1>5
  <2>. HIDE DEF T
  <2>. QED  BY <1>6, <2>1 DEF Ledger
<1>8. T.action = asks[r] /\ T.effect = f /\ T.phase = "pending"
  OBVIOUS
<1>. HIDE DEF T, K
<1>9. \A e \in DOMAIN L.effects : L.effects[e].kind # "cleanup"
  BY DEF Sound, SoundEffects
<1>10. SoundEffects(K) /\ SoundTombstone(K)
  <2>1. ASSUME NEW e \in DOMAIN K.effects
        PROVE  /\ K.effects[e].kind = "cleanup" => K.tomb.action # "none" /\ K.tomb.effect = e
               /\ K.effects[e].kind = "retry" => github.terminal
               /\ K.effects[e].status = "completed" => Done(K.effects[e].kind)
    <3>1. CASE e = f
      BY <1>6, <1>7, <1>8, <3>1 DEF Destructive
    <3>2. CASE e \in DOMAIN L.effects
      <4>1. /\ K.effects[e].kind = L.effects[e].kind
            /\ K.effects[e].status = "completed" => L.effects[e].status = "completed"
        BY <1>3, <1>6, <1>7, <3>2
      <4>2. /\ L.effects[e].kind = "retry" => github.terminal
            /\ L.effects[e].status = "completed" => Done(L.effects[e].kind)
        BY <3>2 DEF Sound, SoundEffects
      <4>. QED  BY <1>9, <3>2, <4>1, <4>2
    <3>. QED  BY <1>6, <1>7, <3>1, <3>2
  <2>2. SoundTombstone(K)
    BY <1>7, <1>8 DEF SoundTombstone, Destructive
  <2>. QED  BY <2>1, <2>2 DEF SoundEffects
<1>11. Follows(L, K, {})
  <2>1. L.tomb.phase \notin Started
    BY DEF Sound, SoundTombstone, Started
  <2>. QED  BY <1>3, <1>6, <1>7, <2>1 DEF Follows, Derived
<1>12. \A i \in DOMAIN L.receipts :
         underway(L.receipts[i]) => asks[L.receipts[i].id] # asks[r]
  <2>. SUFFICES ASSUME NEW i \in DOMAIN L.receipts, underway(L.receipts[i]),
                       asks[L.receipts[i].id] = asks[r]
                PROVE  FALSE
    OBVIOUS
  <2>1. Bound(L, L.receipts[i]) /\ L.receipts[i] \in Receipt
    BY LedgerFields DEF Sound, BoundReceipts
  <2>. QED  BY <2>1 DEF Bound, Receipt, Phases, underway, open, waiting, Destructive
<1>13. N = supersede(K, asks[r])
  OBVIOUS
<1>. HIDE DEF N
<1>14. /\ N \in Ledger /\ Sound(N) /\ Follows(K, N, {})
       /\ N.gen = K.gen /\ N.tomb = K.tomb
       /\ f \in DOMAIN N.effects /\ N.effects[f] = K.effects[f]
  <2>1. f \in DOMAIN K.effects
    BY <1>6, <1>7
  <2>. QED  BY <1>5, <1>6, <1>7, <1>10, <1>12, <1>13, <2>1, SupersedeSound
<1>15. Follows(L, N, {})
  BY <1>11, <1>14, FollowsOn
<1>16. "cleanup-pending" \in Phases
  BY DEF Phases
<1>17. x = pendingEntry(r, "cleanup-pending", f)
  OBVIOUS
<1>18. x.id = r /\ x.phase = "cleanup-pending" /\ x.effect = f /\ x.result = "none"
  BY <1>4, <1>16, EntryType
<1>. HIDE DEF x
<1>19. Bound(N, x)
  BY <1>6, <1>7, <1>8, <1>14, <1>18 DEF Bound
<1>20. N.effects[f].status # "completed"
  BY <1>6, <1>7, <1>14
<1>21. Outcome(N, r, c)
  BY <1>1, <1>14, <1>16, <1>17, <1>19, <1>20, JoinsOutcome
<1>. QED  BY <1>15, <1>21, OutcomeAfter

\* A retry is published for a Recover.
LEMMA RetryOutcome ==
  ASSUME NEW L \in Ledger, valid(L), Sound(L), NEW r \in Requests,
         asks[r] = "recover", github.terminal,
         NEW c, c = LET begun == beginUpdate(L, "retry", "recover") IN
                      IF begun.refusal = "none"
                      THEN Joins(begun.ledger, r, "retry-pending", begun.effect) ELSE begun
  PROVE  Outcome(L, r, c)
<1>. DEFINE b == beginUpdate(L, "retry", "recover")
            N == b.ledger
            f == b.effect
            x == pendingEntry(r, "retry-pending", f)
<1>1. CASE b.refusal # "none"
  <2>1. b.refusal \in {"none", "stale", "conflict"}
    BY DEF beginUpdate, Refused, Commits
  <2>. QED  BY <1>1, <2>1 DEF Outcome
<1>2. CASE b.refusal = "none"
  <2>1. c = Joins(N, r, "retry-pending", f)
    BY <1>2
  <2>2. "recover" \in Actions \cup {"cycle"} /\ "retry-pending" \in Phases
    BY DEF Actions, Phases
  <2>3. /\ N \in Ledger /\ valid(N) /\ Sound(N) /\ Follows(L, N, {})
        /\ N.gen = L.gen /\ N.man = L.man /\ N.facts = L.facts /\ N.fresh = L.fresh
        /\ N.tomb = L.tomb /\ N.receipts = L.receipts /\ L.tomb.action = "none"
        /\ f \in DOMAIN N.effects /\ f \in Nat \ {0}
        /\ N.effects[f].status = "pending" /\ N.effects[f].kind = "retry"
        /\ N.effects[f].gen = L.gen
    BY <1>2, <2>2, UpdateBegins
  <2>4. x = pendingEntry(r, "retry-pending", f)
    OBVIOUS
  <2>5. x.id = r /\ x.phase = "retry-pending" /\ x.effect = f /\ x.result = "none"
    BY <2>2, <2>3, EntryType
  <2>. HIDE DEF x, f, N, b
  <2>6. Bound(N, x)
    BY <2>3, <2>5 DEF Bound
  <2>7. Outcome(N, r, c)
    BY <2>1, <2>2, <2>3, <2>4, <2>6, JoinsOutcome
  <2>. QED  BY <2>3, <2>7, OutcomeAfter
<1>. QED  BY <1>1, <1>2

\* What is done for a request that the owner has no answer to yet.
LEMMA TransitionOutcome ==
  ASSUME NEW L \in Ledger, valid(L), Sound(L), asks \in [Requests -> Actions],
         NEW r \in Requests, NEW t, Planned(r, t), NEW own, NEW gen,
         NEW c, c = transition(L, r, t, own, gen)
  PROVE  Outcome(L, r, c)
<1>. DEFINE stops == {e \in pendingOf(L, {"stop"}) : /\ L.effects[e].by = asks[r]
                                                     /\ L.effects[e].gen = L.gen}
            begun == beginUpdate(L, "retry", "recover")
<1>1. \/ \E why \in {"stale", "conflict"} : c = Refused(why)
      \/ L.tomb.action # "none" /\ c = replay(L, r)
      \/ /\ L.tomb.action = "none" /\ asks[r] = "recover" /\ attaches(L)
         /\ c = attach(L, r, gen)
      \/ /\ t.plan = "stop" /\ stops # {}
         /\ c = Joins(L, r, "stop-pending", Min(stops))
      \/ L.tomb.action = "none" /\ t.plan = "cleanup" /\ c = invalidate(L, r)
      \/ /\ t.plan = "stop" /\ (asks[r] = "recover" => ~attaches(L))
         /\ c = beginStop(L, r)
      \/ /\ t.plan = "retry"
         /\ c = IF begun.refusal = "none"
                THEN Joins(begun.ledger, r, "retry-pending", begun.effect) ELSE begun
  <2>. DEFINE rest ==
         CASE t.plan = "cleanup" ->
                IF eligible(L, asks[r]) THEN invalidate(L, r) ELSE Refused("conflict")
           [] t.plan = "stop" ->
                IF L.man = "running" THEN beginStop(L, r) ELSE Refused("conflict")
           [] t.plan = "retry" ->
                IF begun.refusal = "none"
                THEN Joins(begun.ledger, r, "retry-pending", begun.effect) ELSE begun
           [] OTHER -> Refused("conflict")
  <2>1. \/ \E why \in {"stale", "conflict"} : c = Refused(why)
        \/ L.tomb.action # "none" /\ c = replay(L, r)
        \/ /\ L.tomb.action = "none" /\ asks[r] = "recover" /\ attaches(L)
           /\ c = attach(L, r, gen)
        \/ /\ t.plan = "stop" /\ stops # {}
           /\ c = Joins(L, r, "stop-pending", Min(stops))
        \/ /\ L.tomb.action = "none" /\ (asks[r] = "recover" => ~attaches(L))
           /\ c = rest
    BY Zenon DEF transition
  <2>2. \/ \E why \in {"stale", "conflict"} : rest = Refused(why)
        \/ t.plan = "cleanup" /\ rest = invalidate(L, r)
        \/ t.plan = "stop" /\ rest = beginStop(L, r)
        \/ /\ t.plan = "retry"
           /\ rest = IF begun.refusal = "none"
                     THEN Joins(begun.ledger, r, "retry-pending", begun.effect) ELSE begun
    <3>. HIDE DEF begun
    <3>1. CASE t.plan = "cleanup"
      BY <3>1
    <3>2. CASE t.plan = "stop"
      BY <3>2
    <3>3. CASE t.plan = "retry"
      BY <3>3
    <3>4. CASE t.plan \notin {"cleanup", "stop", "retry"}
      BY <3>4
    <3>. QED  BY <3>1, <3>2, <3>3, <3>4
  <2>. HIDE DEF rest, begun, stops
  <2>. QED  BY <2>1, <2>2
<1>2. ASSUME NEW why \in {"stale", "conflict"}, c = Refused(why)
      PROVE  Outcome(L, r, c)
  BY <1>2 DEF Refused, Outcome
<1>3. CASE L.tomb.action # "none" /\ c = replay(L, r)
  BY <1>3, ReplayOutcome
<1>4. CASE asks[r] = "recover" /\ attaches(L) /\ c = attach(L, r, gen)
  BY <1>4, AttachOutcome
<1>5. CASE t.plan = "stop" /\ stops # {} /\ c = Joins(L, r, "stop-pending", Min(stops))
  <2>. DEFINE e == Min(stops)
              x == pendingEntry(r, "stop-pending", e)
  <2>1. stops \subseteq Nat
    BY LedgerFields DEF pendingOf, pendingEffects
  <2>2. e \in stops
    BY <1>5, <2>1, LeastNatural
  <2>. HIDE DEF e
  <2>3. /\ e \in DOMAIN L.effects /\ e \in Nat /\ L.effects[e].status = "pending"
        /\ L.effects[e].by = asks[r] /\ L.effects[e].gen = L.gen
    BY <2>1, <2>2 DEF pendingOf, pendingEffects
  <2>4. "stop-pending" \in Phases
    BY DEF Phases
  <2>5. x.id = r /\ x.phase = "stop-pending" /\ x.effect = e /\ x.result = "none"
    BY <2>3, <2>4, EntryType
  <2>6. c = Joins(L, r, "stop-pending", e) /\ x = pendingEntry(r, "stop-pending", e)
    BY <1>5 DEF e
  <2>. HIDE DEF x, stops
  <2>7. Bound(L, x)
    BY <1>5, <2>3, <2>5 DEF Bound, Planned
  <2>8. L.effects[e].status # "completed"
    BY <2>3
  <2>. QED  BY <2>3, <2>4, <2>6, <2>7, <2>8, JoinsOutcome
<1>6. CASE L.tomb.action = "none" /\ t.plan = "cleanup" /\ c = invalidate(L, r)
  BY <1>6, InvalidateOutcome DEF Planned
<1>7. CASE t.plan = "stop" /\ (asks[r] = "recover" => ~attaches(L)) /\ c = beginStop(L, r)
  BY <1>7, StopOutcome DEF Planned
<1>8. CASE t.plan = "retry" /\ c = IF begun.refusal = "none"
             THEN Joins(begun.ledger, r, "retry-pending", begun.effect) ELSE begun
  <2>1. asks[r] = "recover" /\ github.terminal
    BY <1>8 DEF Planned
  <2>2. c = LET b == beginUpdate(L, "retry", "recover") IN
              IF b.refusal = "none"
              THEN Joins(b.ledger, r, "retry-pending", b.effect) ELSE b
    BY <1>8
  <2>. QED  BY <2>1, <2>2, RetryOutcome
<1>. HIDE DEF stops, begun
<1>. QED  BY <1>1, <1>2, <1>3, <1>4, <1>5, <1>6, <1>7, <1>8

-----------------------------------------------------------------------------
(* A mutation begins *)

\* An owner's command keeps what has been settled: it answers requests that had no
\* receipt, or an open one.
Steady(L, N) ==
  \E I \in SUBSET Requests :
    /\ Follows(L, N, I)
    /\ \A j \in DOMAIN L.receipts : L.receipts[j].id \in I => open(L.receipts[j])

\* A copy of a receipt for another request.
copy(y, x) == [y EXCEPT !.id = x.id]

\* What is left of one list, then a copy for each receipt of another.
copies(s, D, twins, y) == without(s, D) \o [m \in DOMAIN twins |-> copy(y, twins[m])]
Copied(q, s, twins, y) ==
  /\ q \in Seq(Receipt)
  /\ \A i \in DOMAIN q : \/ \E k \in DOMAIN s : q[i] = s[k]
                         \/ \E m \in DOMAIN twins : q[i] = copy(y, twins[m])

LEMMA CopiesShape ==
  ASSUME NEW s \in Seq(Receipt), NEW twins \in Seq(Receipt), NEW D, NEW y \in Receipt
  PROVE  Copied(copies(s, D, twins, y), s, twins, y)
<1>. DEFINE copied == [m \in DOMAIN twins |-> copy(y, twins[m])]
            w == without(s, D)
            q == w \o copied
<1>1. /\ copied \in Seq(Receipt) /\ DOMAIN copied = DOMAIN twins
      /\ \A m \in DOMAIN twins : copied[m] = copy(y, twins[m])
  <2>1. ASSUME NEW m \in DOMAIN twins
        PROVE  copy(y, twins[m]) \in Receipt
    <3>1. twins[m] \in Receipt
      OBVIOUS
    <3>. QED  BY <3>1 DEF Receipt, copy
  <2>2. Len(twins) \in Nat /\ DOMAIN twins = 1..Len(twins)
    OBVIOUS
  <2>. QED  BY <2>1, <2>2
<1>2. /\ w \in Seq(Receipt)
      /\ \A m \in DOMAIN w : \E k \in DOMAIN s : w[m] = s[k]
  <2>1. Remains(w, s, D)
    BY WithoutRemains
  <2>. HIDE DEF w
  <2>2. /\ w \in Seq(Receipt)
        /\ \A m \in DOMAIN w : \E k \in DOMAIN s : k \notin D /\ w[m] = s[k]
    BY <2>1, WithoutKeeps
  <2>. QED  BY <2>2
<1>. HIDE DEF w, copied
<1>4. q \in Seq(Receipt)
  BY <1>1, <1>2
<1>5. ASSUME NEW i \in DOMAIN q
      PROVE  \/ \E m \in DOMAIN w : q[i] = w[m]
             \/ \E m \in DOMAIN copied : q[i] = copied[m]
  <2>1. /\ Len(w) \in Nat /\ Len(copied) \in Nat
        /\ DOMAIN w = 1..Len(w) /\ DOMAIN copied = 1..Len(copied)
    BY <1>1, <1>2
  <2>2. DOMAIN q = 1..(Len(w) + Len(copied))
    BY <1>1, <1>2
  <2>3. q[i] = IF i <= Len(w) THEN w[i] ELSE copied[i - Len(w)]
    BY <1>1, <1>2, <2>2
  <2>. HIDE DEF q
  <2>4. CASE i <= Len(w)
    BY <2>1, <2>2, <2>3, <2>4
  <2>5. CASE ~(i <= Len(w))
    <3>1. i - Len(w) \in DOMAIN copied
      BY <2>1, <2>2, <2>5
    <3>. QED  BY <2>3, <2>5, <3>1
  <2>. QED  BY <2>4, <2>5
<1>. HIDE DEF q
<1>6. \A i \in DOMAIN q : \/ \E k \in DOMAIN s : q[i] = s[k]
                         \/ \E m \in DOMAIN twins : q[i] = copy(y, twins[m])
  BY <1>1, <1>2, <1>5
<1>7. q = copies(s, D, twins, y)
  BY DEF q, w, copied, copies
<1>. QED  BY <1>4, <1>6, <1>7 DEF Copied

\* Every request of an admission gets a copy of the receipt.
LEMMA CopiesSound ==
  ASSUME NEW L \in Ledger, NEW M \in Ledger, NEW r \in Requests, Sound(M), has(M, r),
         Follows(L, M, {r}), NEW twins \in Seq(Receipt),
         \A m \in DOMAIN twins :
           /\ asks[twins[m].id] = asks[r]
           /\ \E k \in DOMAIN L.receipts :
                L.receipts[k].id = twins[m].id /\ open(L.receipts[k]),
         NEW N \in Ledger, N.gen = M.gen, N.facts = M.facts, N.tomb = M.tomb,
         N.effects = M.effects,
         \A i \in DOMAIN N.receipts :
           \/ \E k \in DOMAIN M.receipts : N.receipts[i] = M.receipts[k]
           \/ \E m \in DOMAIN twins : N.receipts[i] = copy(receipt(M, r), twins[m])
  PROVE  Sound(N) /\ Follows(L, N, {r})
<1>. DEFINE y == receipt(M, r)
<1>1. y \in Receipt /\ y.id = r /\ Bound(M, y)
  <2>1. PICK i \in DOMAIN M.receipts : y = M.receipts[i] /\ M.receipts[i].id = r
    BY DEF has, receipt
  <2>2. M.receipts[i] \in Receipt /\ Bound(M, M.receipts[i])
    BY LedgerFields DEF Sound, BoundReceipts
  <2>. HIDE DEF y
  <2>. QED  BY <2>1, <2>2
<1>2. \A i \in DOMAIN N.receipts :
        \/ \E k \in DOMAIN M.receipts : N.receipts[i] = M.receipts[k]
        \/ \E m \in DOMAIN twins : N.receipts[i] = copy(y, twins[m])
  OBVIOUS
<1>. HIDE DEF y
<1>3. ASSUME NEW m \in DOMAIN twins
      PROVE  Bound(M, copy(y, twins[m])) /\ copy(y, twins[m]).id = twins[m].id
  <2>. DEFINE x == copy(y, twins[m])
  <2>1. x.id = twins[m].id /\ x.phase = y.phase /\ x.effect = y.effect /\ x.result = y.result
    BY <1>1 DEF Receipt, copy
  <2>. HIDE DEF x
  <2>2. asks[x.id] = asks[y.id]
    BY <1>1, <2>1
  <2>3. Bound(M, x)
    BY <1>1, <2>1, <2>2 DEF Bound, underway, open, waiting
  <2>. QED  BY <2>1, <2>3 DEF x
<1>4. ASSUME NEW i \in DOMAIN N.receipts
      PROVE  Bound(N, N.receipts[i])
  <2>1. \A k \in DOMAIN M.receipts : Bound(M, M.receipts[k])
    BY DEF Sound, BoundReceipts
  <2>2. Bound(M, N.receipts[i])
    BY <1>2, <1>3, <2>1
  <2>3. underway(N.receipts[i]) => N.receipts[i].effect \in DOMAIN M.effects
    BY <2>2 DEF Bound
  <2>. QED  BY <2>2, <2>3, BoundStays
<1>5. BoundReceipts(N)
  BY <1>4 DEF BoundReceipts
<1>6. Sound(N)
  BY <1>5 DEF Sound, SoundEffects, SoundTombstone
<1>7. Derived(L, N, {r})
  <2>. SUFFICES ASSUME NEW i \in DOMAIN N.receipts
                PROVE  \/ N.receipts[i].id \in {r}
                       \/ \E j \in DOMAIN L.receipts :
                            /\ L.receipts[j].id = N.receipts[i].id
                            /\ open(L.receipts[j]) \/ N.receipts[i] = L.receipts[j]
    BY DEF Derived
  <2>1. CASE \E k \in DOMAIN M.receipts : N.receipts[i] = M.receipts[k]
    BY <2>1 DEF Follows, Derived
  <2>2. CASE \E m \in DOMAIN twins : N.receipts[i] = copy(y, twins[m])
    BY <1>3, <2>2
  <2>. QED  BY <1>2, <2>1, <2>2
<1>8. Follows(L, N, {r})
  BY <1>7 DEF Follows
<1>. QED  BY <1>6, <1>8

\* What a request that owns no admission, or the only one, may not have settled.
LEMMA FollowsSteady ==
  ASSUME NEW L \in Ledger, valid(L), NEW N, NEW r \in Requests, Follows(L, N, {r}),
         has(L, r) => admitted(L, r)
  PROVE  Steady(L, N)
<1>1. ASSUME NEW j \in DOMAIN L.receipts, L.receipts[j].id = r
      PROVE  open(L.receipts[j])
  <2>1. admitted(L, r)
    BY <1>1 DEF has
  <2>2. PICK k \in DOMAIN L.receipts : L.receipts[k].id = r /\ waiting(L.receipts[k])
    BY <2>1 DEF admitted, has, receipt
  <2>3. k = j
    BY <1>1, <2>2 DEF valid, validReceipts
  <2>. QED  BY <2>2, <2>3 DEF open, waiting
<1>2. {r} \in SUBSET Requests
  OBVIOUS
<1>. QED  BY <1>1, <1>2 DEF Steady

LEMMA UnansweredSteady ==
  ASSUME NEW L, NEW N, Follows(L, N, {})
  PROVE  Steady(L, N)
<1>1. {} \in SUBSET Requests /\ \A j \in DOMAIN L.receipts : L.receipts[j].id \notin {}
  OBVIOUS
<1>. QED  BY <1>1 DEF Steady

\* A command that begins a mutation leaves a valid ledger, or is refused.
LEMMA BeginSound ==
  ASSUME NEW L \in Ledger, valid(L), Sound(L), slots \in Nat, asks \in [Requests -> Actions],
         NEW r \in Requests, NEW t, Planned(r, t), NEW c, c = begin(L, r, t),
         c.refusal \notin {"stale", "conflict"}
  PROVE  /\ c.ledger \in Ledger /\ valid(c.ledger) /\ Sound(c.ledger)
         /\ Steady(L, c.ledger)
         /\ c.effect = 0 \/ c.effect \in DOMAIN c.ledger.effects
<1>. DEFINE own == admitted(L, r)
            M == IF own THEN withoutRequest(L, r) ELSE L
            next == transition(M, r, t, own, IF own THEN receipt(L, r).adm.gen ELSE t.gen)
            isTwin(x) == own /\ x.id # r /\ matching(x, receipt(L, r))
            D == {i \in DOMAIN L.receipts : ~isTwin(L.receipts[i])}
            twins == without(L.receipts, D)
            B == next.ledger
            y == receipt(B, r)
            E == {i \in DOMAIN B.receipts : isTwin(B.receipts[i])}
            q == copies(B.receipts, E, twins, y)
            N == [B EXCEPT !.receipts = q]
<1>1. c = beginUnchecked(L, r, t)
  BY DEF begin, Refused
<1>2. \/ /\ has(L, r) /\ ~own
         /\ \/ open(receipt(L, r)) /\ c = Commits(L, receipt(L, r).effect)
            \/ c = Commits(L, 0)
      \/ /\ has(L, r) => own
         /\ \/ next.refusal # "none" /\ c = next
            \/ next.refusal = "none" /\ c = checked(Commits(N, next.effect))
  BY <1>1 DEF beginUnchecked, copies, copy
<1>3. CASE has(L, r) /\ ~own /\ c.ledger = L
           /\ (c.effect = 0 \/ (open(receipt(L, r)) /\ c.effect = receipt(L, r).effect))
  <2>1. Steady(L, L)
    BY FollowsItself, UnansweredSteady
  <2>2. PICK i \in DOMAIN L.receipts : receipt(L, r) = L.receipts[i]
    BY <1>3 DEF has, receipt
  <2>3. c.effect = 0 \/ c.effect \in DOMAIN L.effects
    BY <1>3, <2>2, ValidHolds
  <2>. QED  BY <1>3, <2>1, <2>3
<1>4. CASE (has(L, r) => own) /\ next.refusal = "none" /\ c = checked(Commits(N, next.effect))
  <2>. HIDE DEF N, next
  <2>1. c = Commits(N, next.effect) /\ valid(N)
    <3>1. /\ Commits(N, next.effect).refusal = "none"
          /\ Commits(N, next.effect).ledger = N
      BY DEF Commits
    <3>2. checked(Commits(N, next.effect)).refusal \notin {"stale", "conflict"}
      BY <1>4
    <3>. QED  BY <1>4, <3>1, <3>2 DEF checked, Refused
  <2>2. c.ledger = N /\ c.effect = next.effect
    BY <2>1 DEF Commits
  <2>3. M \in Ledger /\ valid(M) /\ Sound(M) /\ Follows(L, M, {})
    BY WithoutRequestSound, FollowsItself
  <2>4. Outcome(L, r, next)
    <3>0. next = transition(M, r, t, own, IF own THEN receipt(L, r).adm.gen ELSE t.gen)
      BY DEF next
    <3>. HIDE DEF M, own
    <3>1. Outcome(M, r, next)
      BY <2>3, <3>0, TransitionOutcome
    <3>. QED  BY <2>3, <3>1, OutcomeAfter
  <2>5. /\ B \in Ledger /\ Sound(B) /\ Follows(L, B, {r}) /\ has(B, r)
        /\ next.effect = 0 \/ next.effect \in DOMAIN B.effects
    BY <1>4, <2>4 DEF Outcome
  <2>. HIDE DEF M
  <2>6. y \in Receipt
    <3>1. PICK i \in DOMAIN B.receipts : y = B.receipts[i]
      BY <2>5 DEF has, receipt
    <3>. QED  BY <2>5, <3>1, LedgerFields
  <2>7. /\ twins \in Seq(Receipt)
        /\ \A m \in DOMAIN twins :
             \E k \in DOMAIN L.receipts : k \notin D /\ twins[m] = L.receipts[k]
    <3>1. L.receipts \in Seq(Receipt)
      BY LedgerFields
    <3>2. Remains(twins, L.receipts, D)
      BY <3>1, WithoutRemains
    <3>. HIDE DEF twins, D
    <3>. QED  BY <3>2, WithoutKeeps
  <2>8. \A m \in DOMAIN twins :
          /\ asks[twins[m].id] = asks[r]
          /\ \E k \in DOMAIN L.receipts :
               L.receipts[k].id = twins[m].id /\ open(L.receipts[k])
    <3>1. ASSUME NEW k \in DOMAIN L.receipts, k \notin D
          PROVE  asks[L.receipts[k].id] = asks[r] /\ open(L.receipts[k])
      <4>1. own /\ matching(L.receipts[k], receipt(L, r))
        BY <3>1
      <4>2. receipt(L, r).id = r
        BY <4>1 DEF admitted, has, receipt
      <4>. QED  BY <4>1, <4>2 DEF matching, open, waiting
    <3>. HIDE DEF twins, D
    <3>. QED  BY <2>7, <3>1
  <2>. HIDE DEF twins, D, y, E, B
  <2>9. B.receipts \in Seq(Receipt)
    BY <2>5, LedgerFields
  <2>10. /\ q \in Seq(Receipt)
         /\ \A i \in DOMAIN q : \/ \E k \in DOMAIN B.receipts : q[i] = B.receipts[k]
                                \/ \E m \in DOMAIN twins : q[i] = copy(y, twins[m])
    <3>1. Copied(q, B.receipts, twins, y)
      BY <2>6, <2>7, <2>9, CopiesShape
    <3>. HIDE DEF q
    <3>. QED  BY <3>1 DEF Copied
  <2>11. N = [B EXCEPT !.receipts = q]
    BY DEF N
  <2>. HIDE DEF q
  <2>12. /\ N \in Ledger /\ N.receipts = q
         /\ N.gen = B.gen /\ N.man = B.man /\ N.facts = B.facts /\ N.fresh = B.fresh
         /\ N.tomb = B.tomb /\ N.effects = B.effects
    BY <2>5, <2>10, <2>11, NewReceipts
  <2>13. Sound(N) /\ Follows(L, N, {r})
    <3>1. \A i \in DOMAIN N.receipts :
            \/ \E k \in DOMAIN B.receipts : N.receipts[i] = B.receipts[k]
            \/ \E m \in DOMAIN twins : N.receipts[i] = copy(receipt(B, r), twins[m])
      BY <2>10, <2>12 DEF y
    <3>. QED  BY <2>5, <2>7, <2>8, <2>12, <3>1, CopiesSound
  <2>14. Steady(L, N)
    BY <1>4, <2>13, FollowsSteady
  <2>15. next.effect = 0 \/ next.effect \in DOMAIN N.effects
    BY <2>5, <2>12
  <2>. QED  BY <2>1, <2>2, <2>12, <2>13, <2>14, <2>15
<1>5. CASE (has(L, r) => own) /\ next.refusal # "none" /\ c = next
  <2>1. M \in Ledger /\ valid(M) /\ Sound(M)
    BY WithoutRequestSound
  <2>2. next = transition(M, r, t, own, IF own THEN receipt(L, r).adm.gen ELSE t.gen)
    OBVIOUS
  <2>. HIDE DEF M, own, next
  <2>3. Outcome(M, r, next)
    BY <2>1, <2>2, TransitionOutcome
  <2>. QED  BY <1>5, <2>3 DEF Outcome
<1>. HIDE DEF next, N, own
<1>. QED  BY <1>2, <1>3, <1>4, <1>5 DEF Commits

-----------------------------------------------------------------------------
(* Steps *)

\* What a step of any action respects: clients keep their minds, and what has been
\* done in the world is not undone.
Onward ==
  /\ asks' = asks /\ slots' = slots
  /\ ~process => ~process'
  /\ ~tree => ~tree'
  /\ github.terminal => github'.terminal
  /\ github.retry => github'.retry

LEMMA ValidCarries ==
  ASSUME Onward, valid(ledger')
  PROVE  valid(ledger)'
<1>1. validAdmissions(ledger)'
  BY DEF Onward, valid, validAdmissions, matching, waiting
<1>2. validReceipts(ledger)'
  BY DEF Onward, valid, validReceipts, open, waiting, kindOf, statusOf
<1>3. validEffects(ledger)'
  BY DEF valid, validEffects
<1>4. validTombstone(ledger)'
  BY DEF valid, validTombstone
<1>. QED  BY <1>1, <1>2, <1>3, <1>4 DEF valid

LEMMA SoundCarries ==
  ASSUME Onward, Sound(ledger')
  PROVE  Sound(ledger)'
<1>1. BoundReceipts(ledger)'
  BY DEF Onward, Sound, BoundReceipts, Bound, underway, open, waiting
<1>2. SoundEffects(ledger)'
  <2>1. \A e \in DOMAIN ledger'.effects :
          LET x == ledger'.effects[e] IN
          /\ x.kind = "cleanup" => ledger'.tomb.action # "none" /\ ledger'.tomb.effect = e
          /\ x.kind = "retry" => github.terminal
          /\ x.status = "completed" => Done(x.kind)
    BY DEF Sound, SoundEffects
  <2>. QED  BY <2>1 DEF Onward, SoundEffects, Done
<1>3. SoundTombstone(ledger)'
  BY DEF Sound, SoundTombstone
<1>4. ledger'.facts.terminal => github'.terminal
  BY DEF Onward, Sound
<1>. QED  BY <1>1, <1>2, <1>3, <1>4 DEF Sound

LEMMA AdmitStays ==
  ASSUME Onward, AdmitInv,
         \A t \in Callers :
           admit'[t].pc = "begin" => /\ admit[t].pc = "begin"
                                     /\ admit'[t].plan = admit[t].plan
  PROVE  AdmitInv'
BY DEF Onward, AdmitInv, Planned

LEMMA ExecStays ==
  ASSUME Onward, ExecInv, NEW I, Follows(ledger, ledger', I),
         \A e \in Effects : exec'[e].pc # "idle" =>
           \/ exec'[e].pc = exec[e].pc
           \/ /\ e \in DOMAIN ledger'.effects
              /\ exec'[e].pc = "act" /\ ledger'.effects[e].kind = "cleanup" =>
                   ledger'.tomb.phase \in Started
              /\ exec'[e].pc = "finish" => Done(ledger.effects[e].kind)',
         markers' \subseteq Effects,
         \A e \in markers' : \/ e \in markers
                             \/ /\ e \in DOMAIN ledger'.effects
                                /\ Done(ledger.effects[e].kind)'
  PROVE  ExecInv'
<1>1. ASSUME NEW e \in DOMAIN ledger.effects
      PROVE  /\ e \in DOMAIN ledger'.effects
             /\ ledger'.effects[e].kind = ledger.effects[e].kind
  BY <1>1 DEF Follows
<1>2. ASSUME NEW e \in DOMAIN ledger.effects, Done(ledger.effects[e].kind)
      PROVE  Done(ledger.effects[e].kind)'
  <2>. DEFINE kind == ledger.effects[e].kind
  <2>1. ledger'.effects[e].kind = ledger.effects[e].kind
    BY <1>1
  <2>. QED  BY <1>2, <2>1 DEF Onward, Done
<1>3. ASSUME NEW e \in Effects, exec'[e].pc # "idle"
      PROVE  /\ e \in DOMAIN ledger'.effects
             /\ exec'[e].pc = "act" /\ ledger'.effects[e].kind = "cleanup" =>
                  ledger'.tomb.phase \in Started
             /\ exec'[e].pc = "finish" => Done(ledger.effects[e].kind)'
  <2>1. CASE exec'[e].pc = exec[e].pc
    <3>1. /\ e \in DOMAIN ledger.effects
          /\ exec[e].pc = "act" /\ ledger.effects[e].kind = "cleanup" =>
               ledger.tomb.phase \in Started
          /\ exec[e].pc = "finish" => Done(ledger.effects[e].kind)
      BY <1>3, <2>1 DEF ExecInv
    <3>2. ledger.tomb.phase \in Started => ledger'.tomb.phase \in Started
      BY DEF Follows
    <3>. QED  BY <1>1, <1>2, <2>1, <3>1, <3>2
  <2>. QED  BY <1>3, <2>1
<1>4. ASSUME NEW e \in markers'
      PROVE  e \in DOMAIN ledger'.effects /\ Done(ledger.effects[e].kind)'
  <2>1. CASE e \in markers
    <3>1. e \in DOMAIN ledger.effects /\ Done(ledger.effects[e].kind)
      BY <2>1 DEF ExecInv
    <3>. QED  BY <1>1, <1>2, <3>1
  <2>. QED  BY <2>1
<1>. QED  BY <1>3, <1>4 DEF ExecInv

LEMMA AnnouncedStays ==
  ASSUME Onward, NothingUnannounced, NEW I, Follows(ledger, ledger', I),
         tree' = tree, github'.retry => github.retry
  PROVE  NothingUnannounced'
BY DEF Onward, NothingUnannounced, Follows, Started

-----------------------------------------------------------------------------
(* What is observed, and what is refused *)

LEMMA ObservedSound ==
  ASSUME NEW L \in Ledger, valid(L), Sound(L), github \in Facts, NEW N, N = observed(L)
  PROVE  /\ N \in Ledger /\ valid(N) /\ Sound(N) /\ Follows(L, N, {})
         /\ N.gen = L.gen /\ N.man = L.man /\ N.facts = github /\ N.fresh
         /\ N.tomb = L.tomb /\ N.effects = L.effects
<1>. DEFINE lost(x) == /\ waiting(x)
                       /\ \/ asks[x.id] = "recover" /\ ~github.present
                          \/ asks[x.id] = "dismiss" /\ github.present /\ ~github.closed
            op(x) == IF lost(x) THEN settled(x, "refused") ELSE x
            M == [L EXCEPT !.facts = github, !.fresh = TRUE]
            R == L.receipts
            Q == [i \in DOMAIN R |-> op(R[i])]
<1>1. /\ M \in Ledger /\ M.receipts = R /\ M.gen = L.gen /\ M.man = L.man
      /\ M.facts = github /\ M.fresh /\ M.tomb = L.tomb /\ M.effects = L.effects
  BY DEF Ledger
<1>2. N = [M EXCEPT !.receipts = Q]
  BY <1>1 DEF observed, onReceipts
<1>. HIDE DEF M
<1>3. \A i \in DOMAIN R : R[i] \in Receipt
  BY LedgerFields
<1>4. /\ DOMAIN Q = DOMAIN R /\ Q = [i \in DOMAIN Q |-> Q[i]]
      /\ \A i \in DOMAIN R : Q[i] = op(R[i])
  OBVIOUS
<1>. HIDE DEF Q
<1>5. \A i \in DOMAIN R : Q[i] = IF lost(R[i]) THEN settled(R[i], "refused") ELSE R[i]
  BY <1>4
<1>. HIDE DEF lost, R
<1>6. \A i \in DOMAIN R :
        /\ Q[i] \in Receipt
        /\ lost(R[i]) => ~waiting(Q[i])
  <2>. SUFFICES ASSUME NEW i \in DOMAIN R
                PROVE  Q[i] \in Receipt /\ (lost(R[i]) => ~waiting(Q[i]))
    OBVIOUS
  <2>1. CASE lost(R[i])
    <3>1. settled(R[i], "refused") \in Receipt /\ settled(R[i], "refused").phase = "completed"
      BY <1>3, SettledShape
    <3>. QED  BY <1>5, <2>1, <3>1 DEF waiting
  <2>2. CASE ~lost(R[i])
    BY <1>3, <1>5, <2>2
  <2>. QED  BY <2>1, <2>2
<1>7. /\ N \in Ledger /\ N.receipts = Q /\ Len(Q) = Len(R)
      /\ N.gen = M.gen /\ N.man = M.man /\ N.facts = M.facts /\ N.fresh = M.fresh
      /\ N.tomb = M.tomb /\ N.effects = M.effects
  <2>1. DOMAIN Q = DOMAIN M.receipts /\ \A i \in DOMAIN Q : Q[i] \in Receipt
    BY <1>1, <1>4, <1>6
  <2>2. /\ N \in Ledger /\ N.receipts = Q /\ Len(Q) = Len(M.receipts)
        /\ N.gen = M.gen /\ N.man = M.man /\ N.facts = M.facts /\ N.fresh = M.fresh
        /\ N.tomb = M.tomb /\ N.effects = M.effects
    <3>1. Q = [i \in DOMAIN Q |-> Q[i]] /\ M \in Ledger
      BY <1>1, <1>4
    <3>. QED  BY <1>2, <2>1, <3>1, MapReceipts
  <2>. QED  BY <1>1, <2>2
<1>8. \A i \in DOMAIN R : \/ Q[i] = R[i]
                          \/ waiting(R[i]) /\ Q[i] = settled(R[i], "refused")
  BY <1>5 DEF lost
<1>9. \A i \in DOMAIN R :
        waiting(Q[i]) /\ asks[Q[i].id] = "recover" => github.present
  <2>. SUFFICES ASSUME NEW i \in DOMAIN R, waiting(Q[i]), asks[Q[i].id] = "recover"
                PROVE  github.present
    OBVIOUS
  <2>1. ~lost(R[i]) /\ Q[i] = R[i]
    BY <1>5, <1>6
  <2>. QED  BY <2>1 DEF lost
<1>10. valid(N) /\ Sound(N) /\ Follows(L, N, {})
  BY <1>1, <1>7, <1>8, <1>9, RefusedSound DEF R
<1>. QED  BY <1>1, <1>7, <1>10

LEMMA RefuseSound ==
  ASSUME NEW L \in Ledger, valid(L), Sound(L), NEW r, NEW N, N = failAdmission(L, r)
  PROVE  /\ N \in Ledger /\ valid(N) /\ Sound(N) /\ Follows(L, N, {})
         /\ N.effects = L.effects /\ N.tomb = L.tomb
<1>1. CASE ~admitted(L, r)
  BY <1>1, FollowsItself DEF failAdmission
<1>2. CASE admitted(L, r)
  <2>. DEFINE x == receipt(L, r)
              R == L.receipts
              op(y) == IF matching(y, x) THEN settled(y, "refused") ELSE y
              Q == [i \in DOMAIN R |-> op(R[i])]
  <2>1. N = [L EXCEPT !.receipts = Q]
    BY <1>2 DEF failAdmission, onReceipts
  <2>2. /\ DOMAIN Q = DOMAIN R /\ Q = [i \in DOMAIN Q |-> Q[i]]
        /\ \A i \in DOMAIN R : Q[i] = op(R[i])
    OBVIOUS
  <2>. HIDE DEF Q
  <2>3. \A i \in DOMAIN R :
          /\ Q[i] = R[i] \/ (waiting(R[i]) /\ Q[i] = settled(R[i], "refused"))
          /\ waiting(Q[i]) => Q[i] = R[i]
          /\ Q[i] \in Receipt
    <3>. SUFFICES ASSUME NEW i \in DOMAIN R
                  PROVE  /\ Q[i] = R[i] \/ (waiting(R[i]) /\ Q[i] = settled(R[i], "refused"))
                         /\ waiting(Q[i]) => Q[i] = R[i]
                         /\ Q[i] \in Receipt
      OBVIOUS
    <3>1. R[i] \in Receipt
      BY LedgerFields
    <3>2. CASE matching(R[i], x)
      <4>1. settled(R[i], "refused") \in Receipt /\ settled(R[i], "refused").phase = "completed"
        BY <3>1, SettledShape
      <4>2. waiting(R[i]) /\ Q[i] = settled(R[i], "refused")
        BY <2>2, <3>2 DEF matching
      <4>. QED  BY <4>1, <4>2 DEF waiting
    <3>3. CASE ~matching(R[i], x)
      BY <2>2, <3>1, <3>3
    <3>. QED  BY <3>2, <3>3
  <2>. HIDE DEF R, x
  <2>4. /\ N \in Ledger /\ N.receipts = Q /\ Len(Q) = Len(L.receipts)
        /\ N.gen = L.gen /\ N.man = L.man /\ N.facts = L.facts /\ N.fresh = L.fresh
        /\ N.tomb = L.tomb /\ N.effects = L.effects
    BY <2>1, <2>2, <2>3, MapReceipts DEF R
  <2>5. \A i \in DOMAIN R : waiting(R[i]) /\ asks[R[i].id] = "recover" => L.facts.present
    BY DEF valid, validAdmissions, R
  <2>6. N.facts.terminal => github.terminal
    BY <2>4 DEF Sound
  <2>7. valid(N) /\ Sound(N) /\ Follows(L, N, {})
    BY <2>3, <2>4, <2>5, <2>6, RefusedSound DEF R
  <2>. QED  BY <2>4, <2>7
<1>. QED  BY <1>1, <1>2

LEMMA RestartSound ==
  ASSUME NEW L \in Ledger, valid(L), Sound(L), NEW N, N = [L EXCEPT !.fresh = FALSE]
  PROVE  /\ N \in Ledger /\ valid(N) /\ Sound(N) /\ Follows(L, N, {})
         /\ N.effects = L.effects /\ N.tomb = L.tomb /\ N.receipts = L.receipts
<1>1. /\ N \in Ledger /\ N.gen = L.gen /\ N.man = L.man /\ N.facts = L.facts
      /\ N.effects = L.effects /\ N.tomb = L.tomb /\ N.receipts = L.receipts
  BY DEF Ledger
<1>2. /\ validAdmissions(N) /\ validReceipts(N)
      /\ validEffects(N) /\ validTombstone(N)
  <2>1. validAdmissions(N)
    BY <1>1 DEF valid, validAdmissions
  <2>2. validReceipts(N)
    BY <1>1 DEF valid, validReceipts
  <2>3. validEffects(N) /\ validTombstone(N)
    BY <1>1 DEF valid, validEffects, validTombstone
  <2>. QED  BY <2>1, <2>2, <2>3
<1>3. /\ BoundReceipts(N) /\ SoundEffects(N) /\ SoundTombstone(N)
  <2>1. BoundReceipts(N)
    BY <1>1 DEF Sound, BoundReceipts, Bound
  <2>2. SoundEffects(N)
    BY <1>1 DEF Sound, SoundEffects
  <2>3. SoundTombstone(N)
    BY <1>1 DEF Sound, SoundTombstone
  <2>. QED  BY <2>1, <2>2, <2>3
<1>4. valid(N) /\ Sound(N)
  BY <1>1, <1>2, <1>3 DEF valid, Sound
<1>5. Follows(L, N, {})
  BY <1>1 DEF Follows, Derived
<1>. QED  BY <1>1, <1>4, <1>5

-----------------------------------------------------------------------------
(* Threads *)

\* No thread is about to begin that was not.
Quiet(A, B) ==
  \A t \in Callers : B[t].pc = "begin" => A[t].pc = "begin" /\ B[t].plan = A[t].plan

LEMMA RestingThreads ==
  /\ Idle \in Thread /\ Idle.pc = "idle"
  /\ \A L \in Ledger : sees(L) \in Thread /\ sees(L).pc = "prepare"
<1>1. \A L \in Ledger : L.gen \in Nat /\ L.man \in States
  BY DEF Ledger
<1>. QED  BY <1>1 DEF Idle, Thread, States, sees

LEMMA WorkersShape ==
  ASSUME NEW A \in [Callers -> Thread], NEW L \in Ledger, NEW B, B = workersOf(L, A)
  PROVE  B \in [Callers -> Thread] /\ Quiet(A, B)
<1>1. \A t \in Callers : B[t] = A[t] \/ B[t] = sees(L)
  BY DEF workersOf, sees
<1>2. B = [t \in Callers |-> B[t]]
  BY DEF workersOf
<1>3. sees(L) \in Thread /\ sees(L).pc = "prepare"
  BY RestingThreads
<1>. QED  BY <1>1, <1>2, <1>3 DEF Quiet

LEMMA UnseenShape ==
  ASSUME NEW A \in [Callers -> Thread], NEW B, B = unseenA(A)
  PROVE  B \in [Callers -> Thread] /\ Quiet(A, B)
<1>1. \A t \in Callers : A[t] \in Thread /\ B[t] = [A[t] EXCEPT !.seen = FALSE]
  BY DEF unseenA
<1>2. \A t \in Callers : /\ B[t] \in Thread /\ B[t].pc = A[t].pc
                         /\ B[t].plan = A[t].plan
  BY <1>1, ZenonT(40) DEF Thread
<1>3. B = [t \in Callers |-> B[t]]
  BY DEF unseenA
<1>. QED  BY <1>2, <1>3 DEF Quiet

LEMMA TurnShape ==
  ASSUME NEW A \in [Callers -> Thread], NEW t \in Callers, NEW x \in Thread, x.pc # "begin",
         NEW B, B = [A EXCEPT ![t] = x]
  PROVE  B \in [Callers -> Thread] /\ Quiet(A, B)
BY DEF Quiet

LEMMA QuietOn ==
  ASSUME NEW A, NEW B, NEW C, Quiet(A, B), Quiet(B, C)
  PROVE  Quiet(A, C)
BY DEF Quiet

LEMMA QuietStays ==
  ASSUME Onward, AdmitInv, Quiet(admit, admit')
  PROVE  AdmitInv'
BY AdmitStays DEF Quiet

\* What a worker is doing goes on, or is over; what is resumed or authorised has
\* an effect.
Carried(E, F, N) ==
  \A e \in Effects :
    \/ F[e].pc \in {"idle", E[e].pc}
    \/ F[e].pc \in {"resume", "advance", "authorize"} /\ e \in DOMAIN N.effects

LEMMA ResumedShape ==
  ASSUME NEW E \in [Effects -> Worker], NEW N, NEW e, e = 0 \/ e \in DOMAIN N.effects,
         NEW F, F = resumed(E, e)
  PROVE  F \in [Effects -> Worker] /\ Carried(E, F, N)
BY DEF resumed, Worker, Carried

LEMMA UnseenWorkers ==
  ASSUME NEW E \in [Effects -> Worker], NEW F, F = unseenE(E)
  PROVE  F \in [Effects -> Worker] /\ \A e \in Effects : F[e].pc = E[e].pc
<1>1. \A e \in Effects : E[e] \in Worker /\ F[e] = [E[e] EXCEPT !.seen = FALSE]
  BY DEF unseenE
<1>2. \A e \in Effects : F[e] \in Worker /\ F[e].pc = E[e].pc
  BY <1>1 DEF Worker
<1>3. F = [e \in Effects |-> F[e]]
  BY DEF unseenE
<1>. QED  BY <1>2, <1>3

LEMMA CarriedStays ==
  ASSUME Onward, ExecInv, NEW I, Follows(ledger, ledger', I),
         Carried(exec, exec', ledger'), markers' \subseteq markers, markers \subseteq Effects
  PROVE  ExecInv'
<1>1. \A e \in Effects : exec'[e].pc # "idle" =>
           \/ exec'[e].pc = exec[e].pc
           \/ /\ e \in DOMAIN ledger'.effects
              /\ exec'[e].pc = "act" /\ ledger'.effects[e].kind = "cleanup" =>
                   ledger'.tomb.phase \in Started
              /\ exec'[e].pc = "finish" => Done(ledger.effects[e].kind)'
  BY DEF Carried
<1>2. markers' \subseteq Effects
  OBVIOUS
<1>3. \A e \in markers' : \/ e \in markers
                          \/ /\ e \in DOMAIN ledger'.effects
                             /\ Done(ledger.effects[e].kind)'
  OBVIOUS
<1>. QED  BY <1>1, <1>2, <1>3, ExecStays

-----------------------------------------------------------------------------
(* One lemma for each action *)

LEMMA Preserved ==
  ASSUME MutationInv, Onward, ledger' \in Ledger, valid(ledger'), Sound(ledger'),
         Len(ledger'.effects) <= MaxEffects,
         github' \in Facts, process' \in BOOLEAN, tree' \in BOOLEAN, markers' \subseteq Effects,
         admit' \in [Callers -> Thread], exec' \in [Effects -> Worker],
         boots' \in 1..MaxBoots, aborts' \in 0..MaxAborts,
         AdmitInv', ExecInv', NothingUnannounced'
  PROVE  MutationInv'
<1>1. valid(ledger)' /\ Sound(ledger)'
  BY ValidCarries, SoundCarries
<1>2. Len(ledger'.receipts) <= slots
  BY DEF valid, validReceipts
<1>3. TypeOK'
  BY <1>2 DEF MutationInv, TypeOK, Onward
<1>. QED  BY <1>1, <1>3 DEF MutationInv

\* A step that leaves the world alone.
LEMMA OwnersStep ==
  ASSUME MutationInv, UNCHANGED <<asks, slots, world>>,
         ledger' \in Ledger, valid(ledger'), Sound(ledger'),
         NEW I, Follows(ledger, ledger', I), Len(ledger'.effects) <= MaxEffects,
         markers' \subseteq markers, admit' \in [Callers -> Thread], AdmitInv',
         exec' \in [Effects -> Worker], Carried(exec, exec', ledger'),
         boots' \in 1..MaxBoots, aborts' \in 0..MaxAborts
  PROVE  MutationInv'
<1>1. Onward /\ tree' = tree /\ github' = github /\ process' = process
  BY DEF Onward, world
<1>2. /\ ExecInv /\ NothingUnannounced /\ markers \subseteq Effects
      /\ github \in Facts /\ process \in BOOLEAN /\ tree \in BOOLEAN
  BY DEF MutationInv, TypeOK
<1>3. ExecInv'
  BY <1>1, <1>2, CarriedStays
<1>4. NothingUnannounced'
  BY <1>1, <1>2, AnnouncedStays
<1>. QED  BY <1>1, <1>2, <1>3, <1>4, Preserved

LEMMA InvariantParts ==
  ASSUME MutationInv
  PROVE  /\ asks \in [Requests -> Actions] /\ slots \in Nat
         /\ ledger \in Ledger /\ valid(ledger) /\ Sound(ledger)
         /\ Len(ledger.effects) <= MaxEffects /\ Len(ledger.effects) \in Nat
         /\ DOMAIN ledger.effects \subseteq Effects
         /\ github \in Facts /\ markers \subseteq Effects
         /\ admit \in [Callers -> Thread] /\ exec \in [Effects -> Worker]
         /\ boots \in 1..MaxBoots /\ aborts \in 0..MaxAborts
         /\ AdmitInv /\ ExecInv /\ NothingUnannounced
<1>1. TypeOK /\ valid(ledger) /\ Sound(ledger) /\ AdmitInv /\ ExecInv /\ NothingUnannounced
  BY DEF MutationInv
<1>2. ledger \in Ledger /\ Len(ledger.effects) <= MaxEffects
  BY <1>1 DEF TypeOK
<1>3. Len(ledger.effects) \in Nat /\ DOMAIN ledger.effects = 1..Len(ledger.effects)
  BY <1>2, LedgerFields
<1>4. DOMAIN ledger.effects \subseteq Effects
  BY <1>2, <1>3, OperatorAssumption DEF Effects
<1>. QED  BY <1>1, <1>2, <1>3, <1>4 DEF TypeOK

LEMMA PerformStep ==
  ASSUME MutationInv, NEW r \in Requests, Perform(r)
  PROVE  MutationInv' /\ Steady(ledger, ledger')
<1>. DEFINE L == ledger
            next == IF L.tomb.action # "none" THEN checked(replay(L, r))
                    ELSE IF asks[r] = "recover" /\ attaches(L)
                    THEN IF L.fresh /\ L.facts.present
                         THEN checked(attach(L, r, L.gen)) ELSE Refused("stale")
                    ELSE reserve(L, r)
            t == <<"call", r>>
<1>1. /\ asks \in [Requests -> Actions] /\ slots \in Nat
      /\ L \in Ledger /\ valid(L) /\ Sound(L) /\ Len(L.effects) <= MaxEffects
      /\ admit \in [Callers -> Thread] /\ exec \in [Effects -> Worker]
      /\ boots \in 1..MaxBoots /\ aborts \in 0..MaxAborts /\ AdmitInv
  BY InvariantParts
<1>2. UNCHANGED <<asks, slots, world, markers, boots, aborts>>
  BY DEF Perform
<1>3. t \in Callers
  BY DEF Callers
<1>4. Onward
  BY <1>2 DEF Onward, world
<1>5. ASSUME NEW M \in Ledger, admit' = [admit EXCEPT ![t] = sees(M)] \/ admit' = admit
      PROVE  admit' \in [Callers -> Thread] /\ AdmitInv'
  <2>1. sees(M) \in Thread /\ sees(M).pc # "begin"
    BY RestingThreads
  <2>2. admit' \in [Callers -> Thread] /\ Quiet(admit, admit')
    BY <1>1, <1>3, <1>5, <2>1, TurnShape DEF Quiet
  <2>. QED  BY <1>1, <1>4, <2>2, QuietStays
<1>6. CASE has(L, r)
  <2>1. /\ ledger' = ledger
        /\ \/ exec' = exec /\ admit' = [admit EXCEPT ![t] = sees(L)]
           \/ exec' = resumed(exec, receipt(L, r).effect) /\ admit' = admit
    BY <1>6 DEF Perform
  <2>2. receipt(L, r).effect = 0 \/ receipt(L, r).effect \in DOMAIN L.effects
    <3>1. PICK i \in DOMAIN L.receipts : receipt(L, r) = L.receipts[i]
      BY <1>6 DEF has, receipt
    <3>. QED  BY <1>1, <3>1, ValidHolds
  <2>3. exec' \in [Effects -> Worker] /\ Carried(exec, exec', ledger')
    <3>1. CASE exec' = exec
      BY <1>1, <3>1 DEF Carried
    <3>2. CASE exec' = resumed(exec, receipt(L, r).effect)
      BY <1>1, <2>1, <2>2, <3>2, ResumedShape
    <3>. QED  BY <2>1, <3>1, <3>2
  <2>4. admit' \in [Callers -> Thread] /\ AdmitInv'
    BY <1>1, <1>5, <2>1
  <2>5. Follows(ledger, ledger', {})
    BY <2>1, FollowsItself
  <2>6. Steady(ledger, ledger')
    BY <2>5, UnansweredSteady
  <2>. QED  BY <1>1, <1>2, <2>1, <2>3, <2>4, <2>5, <2>6, OwnersStep
<1>7. CASE ~has(L, r)
  <2>1. /\ next.refusal = "none" /\ ledger' = next.ledger
        /\ exec' = resumed(exec, next.effect)
        /\ admit' = [admit EXCEPT ![t] = sees(L)] \/ admit' = admit
    BY <1>7 DEF Perform
  <2>2. Outcome(L, r, next) /\ Kept(L, next) /\ valid(next.ledger)
    <3>1. CASE L.tomb.action # "none"
      <4>1. next = checked(replay(L, r))
        BY <3>1
      <4>2. next = replay(L, r) /\ valid(next.ledger)
        BY <2>1, <4>1 DEF checked, Refused
      <4>. QED  BY <1>1, <3>1, <4>2, ReplayOutcome
    <3>2. CASE L.tomb.action = "none" /\ asks[r] = "recover" /\ attaches(L)
      <4>1. next = checked(attach(L, r, L.gen))
        BY <2>1, <3>2 DEF Refused
      <4>2. next = attach(L, r, L.gen) /\ valid(next.ledger)
        BY <2>1, <4>1 DEF checked, Refused
      <4>. QED  BY <1>1, <3>2, <4>2, AttachOutcome
    <3>3. CASE L.tomb.action = "none" /\ ~(asks[r] = "recover" /\ attaches(L))
      <4>1. next = reserve(L, r)
        BY <3>3
      <4>. QED  BY <1>1, <2>1, <4>1, ReserveOutcome
    <3>. QED  BY <3>1, <3>2, <3>3
  <2>. HIDE DEF next
  <2>3. /\ ledger' \in Ledger /\ valid(ledger') /\ Sound(ledger') /\ Follows(L, ledger', {r})
        /\ next.effect = 0 \/ next.effect \in DOMAIN ledger'.effects
        /\ Len(ledger'.effects) = Len(L.effects)
    BY <2>1, <2>2 DEF Outcome, Kept
  <2>4. exec' \in [Effects -> Worker] /\ Carried(exec, exec', ledger')
    BY <1>1, <2>1, <2>3, ResumedShape
  <2>5. admit' \in [Callers -> Thread] /\ AdmitInv'
    BY <1>1, <1>5, <2>1
  <2>6. Steady(ledger, ledger')
    BY <1>1, <1>7, <2>3, FollowsSteady
  <2>. QED  BY <1>1, <1>2, <2>3, <2>4, <2>5, <2>6, OwnersStep
<1>. QED  BY <1>6, <1>7

LEMMA AbortStep ==
  ASSUME MutationInv, NEW r \in Requests, Abort(r)
  PROVE  MutationInv' /\ Steady(ledger, ledger')
<1>. DEFINE t == <<"call", r>>
            N == withoutRequest(ledger, r)
            A == [admit EXCEPT ![t] = Idle]
<1>1. /\ asks \in [Requests -> Actions] /\ slots \in Nat
      /\ ledger \in Ledger /\ valid(ledger) /\ Sound(ledger)
      /\ Len(ledger.effects) <= MaxEffects
      /\ admit \in [Callers -> Thread] /\ exec \in [Effects -> Worker]
      /\ boots \in 1..MaxBoots /\ aborts \in 0..MaxAborts /\ AdmitInv
  BY InvariantParts
<1>2. /\ UNCHANGED <<asks, slots, world, markers, exec, boots>>
      /\ admitted(ledger, r) /\ aborts < MaxAborts /\ aborts' = aborts + 1
      /\ ledger' = N /\ admit' = workersOf(N, A)
  BY DEF Abort
<1>3. /\ N \in Ledger /\ valid(N) /\ Sound(N) /\ Follows(ledger, N, {})
      /\ N.effects = ledger.effects
  BY <1>1, <1>2, WithoutRequestSound
<1>4. A \in [Callers -> Thread] /\ Quiet(admit, A)
  <2>1. t \in Callers
    BY DEF Callers
  <2>. QED  BY <1>1, <2>1, RestingThreads, TurnShape
<1>. HIDE DEF A, N
<1>5. admit' \in [Callers -> Thread] /\ Quiet(A, admit')
  BY <1>2, <1>3, <1>4, WorkersShape
<1>6. Onward
  BY <1>2 DEF Onward, world
<1>7. AdmitInv'
  BY <1>1, <1>4, <1>5, <1>6, QuietOn, QuietStays
<1>8. Carried(exec, exec', ledger') /\ exec' \in [Effects -> Worker]
  BY <1>1, <1>2 DEF Carried
<1>9. aborts' \in 0..MaxAborts
  BY <1>1, <1>2, OperatorAssumption
<1>10. Steady(ledger, ledger')
  BY <1>2, <1>3, UnansweredSteady
<1>. QED  BY <1>1, <1>2, <1>3, <1>5, <1>7, <1>8, <1>9, <1>10, OwnersStep

\* A thread that is told "stale" leaves the owner alone.
LEMMA StaleStep ==
  ASSUME MutationInv, NEW t \in Callers, stale(t),
         UNCHANGED <<asks, slots, world, markers, boots, aborts>>
  PROVE  MutationInv' /\ Steady(ledger, ledger')
<1>1. /\ asks \in [Requests -> Actions] /\ slots \in Nat
      /\ ledger \in Ledger /\ valid(ledger) /\ Sound(ledger)
      /\ Len(ledger.effects) <= MaxEffects
      /\ admit \in [Callers -> Thread] /\ exec \in [Effects -> Worker]
      /\ boots \in 1..MaxBoots /\ aborts \in 0..MaxAborts /\ AdmitInv
  BY InvariantParts
<1>2. UNCHANGED <<asks, slots, world, markers, boots, aborts>>
  OBVIOUS
<1>3. Onward
  BY DEF Onward, world
<1>4. /\ UNCHANGED <<ledger, exec>>
      /\ \/ admit' = [workersOf(ledger, admit) EXCEPT ![t] = Idle]
         \/ admit' = [admit EXCEPT ![t] = Idle]
  BY DEF stale
<1>5. admit' \in [Callers -> Thread] /\ Quiet(admit, admit')
  <2>1. CASE admit' = [admit EXCEPT ![t] = Idle]
    BY <1>1, <2>1, RestingThreads, TurnShape
  <2>2. CASE admit' = [workersOf(ledger, admit) EXCEPT ![t] = Idle]
    <3>. DEFINE A == workersOf(ledger, admit)
    <3>1. A \in [Callers -> Thread] /\ Quiet(admit, A)
      BY <1>1, WorkersShape
    <3>2. admit' = [A EXCEPT ![t] = Idle]
      BY <2>2
    <3>. HIDE DEF A
    <3>3. admit' \in [Callers -> Thread] /\ Quiet(A, admit')
      BY <3>1, <3>2, RestingThreads, TurnShape
    <3>. QED  BY <3>1, <3>3, QuietOn
  <2>. QED  BY <1>4, <2>1, <2>2
<1>6. AdmitInv'
  BY <1>1, <1>3, <1>5, QuietStays
<1>7. Follows(ledger, ledger', {})
  BY <1>4, FollowsItself
<1>8. Carried(exec, exec', ledger') /\ exec' \in [Effects -> Worker]
  BY <1>1, <1>4 DEF Carried
<1>9. Steady(ledger, ledger')
  BY <1>7, UnansweredSteady
<1>. QED  BY <1>1, <1>2, <1>4, <1>5, <1>6, <1>7, <1>8, <1>9, OwnersStep

\* A thread that settles its admission leaves.
LEMMA RefuseStep ==
  ASSUME MutationInv, NEW t \in Callers, refuse(t),
         UNCHANGED <<asks, slots, world, markers, boots, aborts>>
  PROVE  MutationInv' /\ Steady(ledger, ledger')
<1>1. /\ asks \in [Requests -> Actions] /\ slots \in Nat
      /\ ledger \in Ledger /\ valid(ledger) /\ Sound(ledger)
      /\ Len(ledger.effects) <= MaxEffects
      /\ admit \in [Callers -> Thread] /\ exec \in [Effects -> Worker]
      /\ boots \in 1..MaxBoots /\ aborts \in 0..MaxAborts /\ AdmitInv
  BY InvariantParts
<1>2. UNCHANGED <<asks, slots, world, markers, boots, aborts>>
  OBVIOUS
<1>3. Onward
  BY DEF Onward, world
<1>4. /\ ledger' = failAdmission(ledger, t[2]) /\ exec' = exec
      /\ admit' = [admit EXCEPT ![t] = Idle]
  BY DEF refuse
<1>5. /\ ledger' \in Ledger /\ valid(ledger') /\ Sound(ledger')
      /\ Follows(ledger, ledger', {}) /\ ledger'.effects = ledger.effects
  BY <1>1, <1>4, RefuseSound
<1>6. admit' \in [Callers -> Thread] /\ Quiet(admit, admit')
  BY <1>1, <1>4, RestingThreads, TurnShape
<1>7. AdmitInv'
  BY <1>1, <1>3, <1>6, QuietStays
<1>8. Carried(exec, exec', ledger') /\ exec' \in [Effects -> Worker]
  BY <1>1, <1>4 DEF Carried
<1>9. Steady(ledger, ledger')
  BY <1>5, UnansweredSteady
<1>. QED  BY <1>1, <1>2, <1>5, <1>6, <1>7, <1>8, <1>9, OwnersStep

\* One thread is about to begin what it may.
LEMMA BeginsStays ==
  ASSUME Onward, AdmitInv, NEW t \in Callers, Planned(t[2], admit'[t]),
         \A u \in Callers \ {t} :
           admit'[u].pc = "begin" => /\ admit[u].pc = "begin"
                                     /\ admit'[u].plan = admit[u].plan
  PROVE  AdmitInv'
<1>1. ASSUME NEW u \in Callers, admit'[u].pc = "begin"
      PROVE  Planned(u[2], admit'[u])
  <2>1. CASE u = t
    BY <2>1
  <2>2. CASE u # t
    BY <1>1, <2>2 DEF AdmitInv, Planned
  <2>. QED  BY <2>1, <2>2
<1>. QED  BY <1>1 DEF AdmitInv, Planned, Onward

\* What a thread that prepares does with the owner: nothing, or it refuses the
\* admission, or it commits what it has observed.
LEMMA PrepareStep ==
  ASSUME MutationInv, NEW t \in Callers, Prepare(t)
  PROVE  MutationInv' /\ Steady(ledger, ledger')
<1>. DEFINE r == t[2]
            L == observed(ledger)
            ready(p) == [pc |-> "begin", gen |-> L.gen, man |-> L.man,
                         seen |-> TRUE, plan |-> p]
            plan(p) == /\ admit' = [admit EXCEPT ![t].pc = "begin", ![t].plan = p]
                       /\ UNCHANGED <<ledger, exec>>
            refreshed(p) == /\ ledger' = L /\ exec' = unseenE(exec)
                            /\ admit' = [unseenA(admit) EXCEPT ![t] = ready(p)]
<1>1. /\ asks \in [Requests -> Actions] /\ slots \in Nat
      /\ ledger \in Ledger /\ valid(ledger) /\ Sound(ledger)
      /\ Len(ledger.effects) <= MaxEffects /\ github \in Facts
      /\ admit \in [Callers -> Thread] /\ exec \in [Effects -> Worker]
      /\ boots \in 1..MaxBoots /\ aborts \in 0..MaxAborts /\ AdmitInv
  BY InvariantParts
<1>2. UNCHANGED <<asks, slots, world, markers, boots, aborts>>
  BY DEF Prepare
<1>3. Onward
  BY <1>2 DEF Onward, world
<1>4. \/ stale(t) \/ refuse(t)
      \/ asks[r] \in {"cancel", "recover"} /\ plan("stop")
      \/ asks[r] \in Destructive /\ plan("cleanup")
      \/ asks[r] = "recover" /\ refreshed("attach")
      \/ asks[r] = "recover" /\ planned(L) = "retry" /\ refreshed("retry")
  BY DEF Prepare, Destructive
<1>5. /\ L \in Ledger /\ valid(L) /\ Sound(L) /\ Follows(ledger, L, {})
      /\ L.facts = github /\ L.effects = ledger.effects
  BY <1>1, ObservedSound
<1>6. planned(L) = "retry" => github.terminal
  BY <1>5 DEF planned
<1>. HIDE DEF L
<1>7. CASE stale(t)
  BY <1>2, <1>7, StaleStep
<1>8. CASE refuse(t)
  BY <1>2, <1>8, RefuseStep
<1>9. ASSUME NEW p \in {"stop", "cleanup"}, plan(p),
             p = "stop" => asks[r] \in {"cancel", "recover"},
             p = "cleanup" => asks[r] \in Destructive
      PROVE  MutationInv' /\ Steady(ledger, ledger')
  <2>1. /\ UNCHANGED <<ledger, exec>>
        /\ admit' = [admit EXCEPT ![t] = [admit[t] EXCEPT !.pc = "begin", !.plan = p]]
    BY <1>9
  <2>2. /\ [admit[t] EXCEPT !.pc = "begin", !.plan = p] \in Thread
        /\ [admit[t] EXCEPT !.pc = "begin", !.plan = p].plan = p
    BY <1>1 DEF Thread
  <2>3. /\ admit' \in [Callers -> Thread] /\ admit'[t].plan = p
        /\ \A u \in Callers \ {t} : admit'[u] = admit[u]
    BY <1>1, <2>1, <2>2
  <2>4. AdmitInv'
    <3>1. Planned(t[2], admit'[t])
      BY <1>9, <2>3 DEF Planned
    <3>. QED  BY <1>1, <1>3, <2>3, <3>1, BeginsStays
  <2>5. Follows(ledger, ledger', {})
    BY <2>1, FollowsItself
  <2>6. Carried(exec, exec', ledger') /\ exec' \in [Effects -> Worker]
    BY <1>1, <2>1 DEF Carried
  <2>7. Steady(ledger, ledger')
    BY <2>5, UnansweredSteady
  <2>. QED  BY <1>1, <1>2, <2>1, <2>3, <2>4, <2>5, <2>6, <2>7, OwnersStep
<1>10. ASSUME NEW p \in {"attach", "retry"}, refreshed(p), asks[r] = "recover",
              p = "retry" => github.terminal
       PROVE  MutationInv' /\ Steady(ledger, ledger')
  <2>. DEFINE A == unseenA(admit)
  <2>1. ledger' = L /\ exec' = unseenE(exec) /\ admit' = [A EXCEPT ![t] = ready(p)]
    BY <1>10
  <2>2. ready(p) \in Thread /\ ready(p).plan = p
    <3>1. L.gen \in Nat /\ L.man \in States
      BY <1>5, LedgerFields
    <3>. QED  BY <3>1 DEF Thread
  <2>3. A \in [Callers -> Thread] /\ Quiet(admit, A)
    BY <1>1, UnseenShape
  <2>. HIDE DEF A, ready
  <2>4. /\ admit' \in [Callers -> Thread] /\ admit'[t].plan = p
        /\ \A u \in Callers \ {t} : admit'[u] = A[u]
    BY <2>1, <2>2, <2>3
  <2>5. AdmitInv'
    <3>1. Planned(t[2], admit'[t])
      BY <1>10, <2>4 DEF Planned
    <3>2. \A u \in Callers \ {t} :
            admit'[u].pc = "begin" => /\ admit[u].pc = "begin"
                                      /\ admit'[u].plan = admit[u].plan
      BY <2>3, <2>4 DEF Quiet
    <3>. QED  BY <1>1, <1>3, <3>1, <3>2, BeginsStays
  <2>6. Carried(exec, exec', ledger') /\ exec' \in [Effects -> Worker]
    BY <1>1, <2>1, UnseenWorkers DEF Carried
  <2>7. Steady(ledger, ledger')
    BY <1>5, <2>1, UnansweredSteady
  <2>. QED  BY <1>1, <1>2, <1>5, <2>1, <2>4, <2>5, <2>6, <2>7, OwnersStep
<1>. HIDE DEF plan, refreshed
<1>. QED  BY <1>4, <1>6, <1>7, <1>8, <1>9, <1>10

LEMMA BeginStep ==
  ASSUME MutationInv, NEW t \in Callers, Begin(t)
  PROVE  MutationInv' /\ Steady(ledger, ledger')
<1>. DEFINE r == t[2]
            next == begin(ledger, r, admit[t])
<1>1. /\ asks \in [Requests -> Actions] /\ slots \in Nat
      /\ ledger \in Ledger /\ valid(ledger) /\ Sound(ledger)
      /\ Len(ledger.effects) <= MaxEffects
      /\ admit \in [Callers -> Thread] /\ exec \in [Effects -> Worker]
      /\ boots \in 1..MaxBoots /\ aborts \in 0..MaxAborts /\ AdmitInv
  BY InvariantParts
<1>2. UNCHANGED <<asks, slots, world, markers, boots, aborts>> /\ admit[t].pc = "begin"
  BY DEF Begin
<1>3. Onward
  BY <1>2 DEF Onward, world
<1>4. r \in Requests
  BY DEF Callers
<1>5. \/ stale(t) \/ refuse(t)
      \/ /\ next.refusal \notin {"stale", "conflict"}
         /\ Len(next.ledger.effects) <= MaxEffects
         /\ ledger' = next.ledger
         /\ admit' = [admit EXCEPT ![t] = Idle]
         /\ \/ next.effect = 0 /\ exec' = exec
            \/ \E pc \in {exec[next.effect].pc, "resume", "authorize"} :
                 exec' = [exec EXCEPT ![next.effect].pc = pc]
  <2>. HIDE DEF next
  <2>1. \/ stale(t) \/ refuse(t)
        \/ /\ next.refusal \notin {"stale", "conflict"}
           /\ Len(next.ledger.effects) <= MaxEffects
           /\ ledger' = next.ledger
           /\ exec' = IF next.effect = 0 THEN exec
                      ELSE [exec EXCEPT ![next.effect].pc =
                              IF @ # "idle" THEN @
                              ELSE IF staged(next.ledger, next.effect, Awaiting)
                                      \/ admit[t].plan = "attach"
                              THEN "resume" ELSE "authorize"]
           /\ admit' = [admit EXCEPT ![t] = Idle]
    <3>1. CASE next.refusal = "stale"
      BY <3>1 DEF Begin, next
    <3>2. CASE next.refusal = "conflict"
      BY <3>2 DEF Begin, next
    <3>3. CASE next.refusal \notin {"stale", "conflict"}
      BY <3>3 DEF Begin, next
    <3>. QED  BY <3>1, <3>2, <3>3
  <2>. QED  BY <2>1
<1>6. CASE stale(t)
  BY <1>2, <1>6, StaleStep
<1>7. CASE refuse(t)
  BY <1>2, <1>7, RefuseStep
<1>8. CASE /\ next.refusal \notin {"stale", "conflict"}
           /\ Len(next.ledger.effects) <= MaxEffects
           /\ ledger' = next.ledger
           /\ admit' = [admit EXCEPT ![t] = Idle]
           /\ \/ next.effect = 0 /\ exec' = exec
              \/ \E pc \in {exec[next.effect].pc, "resume", "authorize"} :
                   exec' = [exec EXCEPT ![next.effect].pc = pc]
  <2>1. Planned(r, admit[t])
    BY <1>1, <1>2 DEF AdmitInv
  <2>2. next = begin(ledger, r, admit[t])
    OBVIOUS
  <2>. HIDE DEF next
  <2>3. /\ next.ledger \in Ledger /\ valid(next.ledger) /\ Sound(next.ledger)
        /\ Steady(ledger, next.ledger)
        /\ next.effect = 0 \/ next.effect \in DOMAIN next.ledger.effects
    BY <1>1, <1>4, <1>8, <2>1, <2>2, BeginSound
  <2>4. admit' \in [Callers -> Thread] /\ Quiet(admit, admit')
    BY <1>1, <1>8, RestingThreads, TurnShape
  <2>5. AdmitInv'
    BY <1>1, <1>3, <2>4, QuietStays
  <2>6. Carried(exec, exec', ledger') /\ exec' \in [Effects -> Worker]
    <3>1. CASE exec' = exec
      BY <1>1, <3>1 DEF Carried
    <3>2. ASSUME NEW pc \in {exec[next.effect].pc, "resume", "authorize"},
                 exec' = [exec EXCEPT ![next.effect].pc = pc], next.effect # 0
          PROVE  Carried(exec, exec', ledger') /\ exec' \in [Effects -> Worker]
      <4>1. next.effect \in DOMAIN ledger'.effects
        BY <1>8, <2>3, <3>2
      <4>2. ASSUME NEW e \in Effects
            PROVE  /\ exec'[e] \in Worker
                   /\ \/ exec'[e].pc = exec[e].pc
                      \/ exec'[e].pc \in {"resume", "authorize"} /\ e = next.effect
        BY <1>1, <3>2 DEF Worker
      <4>3. exec' = [e \in Effects |-> exec'[e]]
        BY <1>1, <3>2
      <4>. QED  BY <4>1, <4>2, <4>3 DEF Carried
    <3>3. CASE next.effect = 0
      <4>1. next.effect \notin Effects
        BY <3>3 DEF Effects
      <4>2. exec' = exec
        BY <1>1, <1>8, <4>1
      <4>. QED  BY <3>1, <4>2
    <3>. QED  BY <1>8, <3>1, <3>2, <3>3
  <2>7. PICK I \in SUBSET Requests : Follows(ledger, ledger', I)
    BY <1>8, <2>3 DEF Steady
  <2>8. MutationInv'
    BY <1>1, <1>2, <1>8, <2>3, <2>4, <2>5, <2>6, <2>7, OwnersStep
  <2>. QED  BY <1>8, <2>3, <2>8
<1>. HIDE DEF next
<1>. QED  BY <1>5, <1>6, <1>7, <1>8

-----------------------------------------------------------------------------
(* Workers *)

WorkerPcs == {"idle", "resume", "advance", "authorize", "act", "finish"}

\* One worker moves.
LEMMA PcMoves ==
  ASSUME exec \in [Effects -> Worker], NEW e \in Effects, NEW pc \in WorkerPcs,
         exec' = pcOf(e, pc)
  PROVE  /\ exec' \in [Effects -> Worker] /\ exec'[e].pc = pc
         /\ \A d \in Effects \ {e} : exec'[d].pc = exec[d].pc
<1>1. exec' = [exec EXCEPT ![e] = [pc |-> pc, seen |-> FALSE]]
  BY DEF pcOf
<1>2. [pc |-> pc, seen |-> FALSE] \in Worker
  BY DEF Worker, WorkerPcs
<1>. QED  BY <1>1, <1>2

\* A worker ends, or goes where no promise is attached.
LEMMA MovesCarried ==
  ASSUME NEW e \in Effects, exec'[e].pc \in {"idle", "resume", "advance", "authorize"},
         e \in DOMAIN ledger'.effects, \A d \in Effects \ {e} : exec'[d].pc = exec[d].pc
  PROVE  Carried(exec, exec', ledger')
BY DEF Carried

\* A working goroutine has an effect.
LEMMA WorkersHaveEffects ==
  ASSUME MutationInv, NEW e \in Effects, exec[e].pc # "idle"
  PROVE  e \in DOMAIN ledger.effects /\ e \in Nat \ {0}
BY DEF MutationInv, ExecInv, Effects

\* What the workers' steps leave to themselves: a step that leaves the world alone,
\* in which one worker moves.
LEMMA WorkerStep ==
  ASSUME MutationInv, UNCHANGED <<asks, slots, world, boots, aborts>>,
         ledger' \in Ledger, valid(ledger'), Sound(ledger'), Follows(ledger, ledger', {}),
         Len(ledger'.effects) <= MaxEffects, markers' \subseteq markers,
         admit' = admit \/ admit' = unseenA(admit),
         exec' \in [Effects -> Worker], Carried(exec, exec', ledger')
  PROVE  MutationInv' /\ Steady(ledger, ledger')
<1>1. /\ admit \in [Callers -> Thread] /\ AdmitInv
      /\ boots \in 1..MaxBoots /\ aborts \in 0..MaxAborts
  BY InvariantParts
<1>2. Onward
  BY DEF Onward, world
<1>3. admit' \in [Callers -> Thread] /\ Quiet(admit, admit')
  BY <1>1, UnseenShape DEF Quiet
<1>4. AdmitInv'
  BY <1>1, <1>2, <1>3, QuietStays
<1>5. Steady(ledger, ledger')
  BY UnansweredSteady
<1>. QED  BY <1>1, <1>3, <1>4, <1>5, OwnersStep

\* A step in which a worker comes to commit what is done, or to act on what is
\* announced.
LEMMA WorkerReaches ==
  ASSUME MutationInv, UNCHANGED <<asks, slots, world, boots, aborts>>,
         ledger' \in Ledger, valid(ledger'), Sound(ledger'), Follows(ledger, ledger', {}),
         Len(ledger'.effects) <= MaxEffects,
         admit' = admit \/ admit' = unseenA(admit),
         exec' \in [Effects -> Worker], NEW e \in DOMAIN ledger.effects,
         \A d \in Effects \ {e} : exec'[d].pc = exec[d].pc,
         exec'[e].pc = "act" /\ ledger.effects[e].kind = "cleanup" =>
           ledger'.tomb.phase \in Started,
         exec'[e].pc = "finish" => Done(ledger.effects[e].kind),
         markers' = markers \/ (markers' = markers \cup {e} /\ exec'[e].pc = "finish")
  PROVE  MutationInv' /\ Steady(ledger, ledger')
<1>1. /\ admit \in [Callers -> Thread] /\ AdmitInv /\ ExecInv /\ NothingUnannounced
      /\ boots \in 1..MaxBoots /\ aborts \in 0..MaxAborts
      /\ markers \subseteq Effects /\ DOMAIN ledger.effects \subseteq Effects
      /\ github \in Facts
  BY InvariantParts
<1>2. process \in BOOLEAN /\ tree \in BOOLEAN
  BY DEF MutationInv, TypeOK
<1>3. Onward /\ github' = github /\ process' = process /\ tree' = tree
  BY DEF Onward, world
<1>4. admit' \in [Callers -> Thread] /\ Quiet(admit, admit')
  BY <1>1, UnseenShape DEF Quiet
<1>5. AdmitInv'
  BY <1>1, <1>3, <1>4, QuietStays
<1>6. e \in DOMAIN ledger'.effects /\ ledger'.effects[e].kind = ledger.effects[e].kind
  BY DEF Follows
<1>7. exec'[e].pc = "finish" => Done(ledger.effects[e].kind)'
  BY <1>3, <1>6 DEF Done
<1>8. ExecInv'
  <2>1. \A d \in Effects : exec'[d].pc # "idle" =>
           \/ exec'[d].pc = exec[d].pc
           \/ /\ d \in DOMAIN ledger'.effects
              /\ exec'[d].pc = "act" /\ ledger'.effects[d].kind = "cleanup" =>
                   ledger'.tomb.phase \in Started
              /\ exec'[d].pc = "finish" => Done(ledger.effects[d].kind)'
    BY <1>6, <1>7
  <2>2. /\ markers' \subseteq Effects
        /\ \A d \in markers' : \/ d \in markers
                               \/ /\ d \in DOMAIN ledger'.effects
                                  /\ Done(ledger.effects[d].kind)'
    BY <1>1, <1>6, <1>7
  <2>. QED  BY <1>1, <1>3, <2>1, <2>2, ExecStays
<1>9. NothingUnannounced'
  BY <1>1, <1>3, AnnouncedStays
<1>10. markers' \subseteq Effects
  BY <1>1
<1>11. MutationInv'
  BY <1>1, <1>2, <1>3, <1>4, <1>5, <1>8, <1>9, <1>10, Preserved
<1>. QED  BY <1>11, UnansweredSteady

LEMMA ResumeStep ==
  ASSUME MutationInv, NEW e \in Effects, Resume(e)
  PROVE  MutationInv' /\ Steady(ledger, ledger')
<1>. DEFINE x == ledger.effects[e]
            L == observed(ledger)
            after(pc) == [unseenE(exec) EXCEPT ![e] = [pc |-> pc, seen |-> pc = "advance"]]
            collects(M, pc) == /\ ledger' = M /\ exec' = after(pc) /\ admit' = unseenA(admit)
            goes(pc) == exec' = pcOf(e, pc) /\ UNCHANGED <<ledger, admit, markers>>
            diagnoses == ledger' = diagnose(ledger, e) /\ exec' = pcOf(e, "idle") /\ UNCHANGED admit
<1>1. /\ ledger \in Ledger /\ valid(ledger) /\ Sound(ledger)
      /\ Len(ledger.effects) <= MaxEffects /\ github \in Facts /\ markers \subseteq Effects
      /\ exec \in [Effects -> Worker] /\ ExecInv
  BY InvariantParts
<1>2. UNCHANGED <<asks, slots, world, boots, aborts>> /\ exec[e].pc = "resume"
  BY DEF Resume
<1>3. e \in DOMAIN ledger.effects /\ e \in Nat
  BY <1>2, WorkersHaveEffects
<1>4. \/ markers' = markers /\ (collects(L, "advance") \/ collects(L, "authorize")
                                \/ collects(L, "idle"))
      \/ markers' = markers /\ diagnoses
      \/ goes("idle") \/ goes("authorize")
      \/ e \in markers /\ goes("finish")
      \/ /\ x.kind = "retry" /\ github.retry
         /\ collects(L, "finish") /\ markers' = markers \cup {e}
  BY DEF Resume
<1>5. /\ L \in Ledger /\ valid(L) /\ Sound(L) /\ Follows(ledger, L, {})
      /\ L.effects = ledger.effects
  BY <1>1, ObservedSound
<1>. HIDE DEF L
<1>6. ASSUME NEW pc \in WorkerPcs, exec' = after(pc)
      PROVE  /\ exec' \in [Effects -> Worker] /\ exec'[e].pc = pc
             /\ \A d \in Effects \ {e} : exec'[d].pc = exec[d].pc
  <2>. DEFINE G == unseenE(exec)
              s == (pc = "advance")
  <2>1. G \in [Effects -> Worker] /\ \A d \in Effects : G[d].pc = exec[d].pc
    BY <1>1, UnseenWorkers
  <2>2. exec' = [G EXCEPT ![e] = [pc |-> pc, seen |-> s]]
    BY <1>6
  <2>3. s \in BOOLEAN
    OBVIOUS
  <2>. HIDE DEF G, s
  <2>4. [pc |-> pc, seen |-> s] \in Worker
    BY <2>3 DEF Worker, WorkerPcs
  <2>. QED  BY <2>1, <2>2, <2>4
<1>7. ASSUME NEW pc \in {"idle", "advance", "authorize"}, collects(L, pc), markers' = markers
      PROVE  MutationInv' /\ Steady(ledger, ledger')
  <2>1. ledger' = L /\ exec' = after(pc) /\ admit' = unseenA(admit) /\ pc \in WorkerPcs
    BY <1>7 DEF WorkerPcs
  <2>. HIDE DEF after
  <2>2. /\ exec' \in [Effects -> Worker] /\ exec'[e].pc = pc
        /\ \A d \in Effects \ {e} : exec'[d].pc = exec[d].pc
    BY <1>6, <2>1
  <2>3. Carried(exec, exec', ledger')
    BY <1>3, <1>5, <1>7, <2>1, <2>2, MovesCarried
  <2>. QED  BY <1>1, <1>2, <1>5, <1>7, <2>1, <2>2, <2>3, WorkerStep
<1>8. ASSUME diagnoses, markers' = markers
      PROVE  MutationInv' /\ Steady(ledger, ledger')
  <2>1. /\ ledger' \in Ledger /\ valid(ledger') /\ Sound(ledger') /\ Follows(ledger, ledger', {})
        /\ ledger'.effects = ledger.effects
    BY <1>1, <1>3, <1>8, DiagnoseSound
  <2>2. /\ exec' \in [Effects -> Worker] /\ exec'[e].pc = "idle"
        /\ \A d \in Effects \ {e} : exec'[d].pc = exec[d].pc
    BY <1>1, <1>8, PcMoves DEF WorkerPcs
  <2>3. Carried(exec, exec', ledger')
    BY <1>3, <2>1, <2>2, MovesCarried
  <2>. QED  BY <1>1, <1>2, <1>8, <2>1, <2>2, <2>3, WorkerStep
<1>9. ASSUME NEW pc \in {"idle", "authorize", "finish"}, goes(pc),
             pc = "finish" => e \in markers
      PROVE  MutationInv' /\ Steady(ledger, ledger')
  <2>1. ledger' = ledger /\ admit' = admit /\ markers' = markers /\ exec' = pcOf(e, pc)
    BY <1>9
  <2>2. /\ exec' \in [Effects -> Worker] /\ exec'[e].pc = pc
        /\ \A d \in Effects \ {e} : exec'[d].pc = exec[d].pc
    BY <1>1, <2>1, PcMoves DEF WorkerPcs
  <2>3. pc = "finish" => Done(ledger.effects[e].kind)
    BY <1>1, <1>9 DEF ExecInv
  <2>4. Follows(ledger, ledger', {})
    BY <2>1, FollowsItself
  <2>. QED  BY <1>1, <1>2, <1>3, <2>1, <2>2, <2>3, <2>4, WorkerReaches
<1>10. ASSUME x.kind = "retry", github.retry, collects(L, "finish"), markers' = markers \cup {e}
       PROVE  MutationInv' /\ Steady(ledger, ledger')
  <2>1. ledger' = L /\ exec' = after("finish") /\ admit' = unseenA(admit) /\ "finish" \in WorkerPcs
    BY <1>10 DEF WorkerPcs
  <2>. HIDE DEF after
  <2>2. /\ exec' \in [Effects -> Worker] /\ exec'[e].pc = "finish"
        /\ \A d \in Effects \ {e} : exec'[d].pc = exec[d].pc
    BY <1>6, <2>1
  <2>3. Done(ledger.effects[e].kind)
    BY <1>10 DEF Done
  <2>. QED  BY <1>1, <1>2, <1>3, <1>5, <1>10, <2>1, <2>2, <2>3, WorkerReaches
<1>. HIDE DEF collects, goes, diagnoses, x
<1>. QED  BY <1>4, <1>7, <1>8, <1>9, <1>10

LEMMA AdvanceStep ==
  ASSUME MutationInv, NEW e \in Effects, Advance(e)
  PROVE  MutationInv' /\ Steady(ledger, ledger')
<1>. DEFINE from == IF staged(ledger, e, {"terminal-awaiting"})
                    THEN "terminal-awaiting" ELSE "retry-awaiting"
            kind == IF from = "terminal-awaiting" THEN "failure" ELSE "retry"
            next == beginUpdate(ledger, kind, "recover")
            to   == IF kind = "failure" THEN "terminal-pending" ELSE "retry-pending"
            M == next.ledger
            f == next.effect
            N == moveReceipts(M, e, from, to, f)
<1>1. /\ ledger \in Ledger /\ valid(ledger) /\ Sound(ledger)
      /\ Len(ledger.effects) <= MaxEffects /\ exec \in [Effects -> Worker]
  BY InvariantParts
<1>2. UNCHANGED <<asks, slots, world, markers, admit, boots, aborts>> /\ exec[e].pc = "advance"
  BY DEF Advance
<1>3. e \in DOMAIN ledger.effects /\ e \in Nat \ {0}
  BY <1>2, WorkersHaveEffects
<1>4. \/ exec' = pcOf(e, "idle") /\ (ledger' = ledger \/ ledger' = diagnose(ledger, e))
      \/ /\ planned(ledger) = kind /\ next.refusal = "none"
         /\ Len(M.effects) <= MaxEffects /\ ledger' = N
         /\ exec' = [pcOf(e, "idle") EXCEPT ![f].pc = IF @ = "idle" THEN "authorize" ELSE @]
  BY DEF Advance
<1>5. CASE exec' = pcOf(e, "idle") /\ (ledger' = ledger \/ ledger' = diagnose(ledger, e))
  <2>1. /\ ledger' \in Ledger /\ valid(ledger') /\ Sound(ledger') /\ Follows(ledger, ledger', {})
        /\ ledger'.effects = ledger.effects
    <3>1. CASE ledger' = ledger
      BY <1>1, <3>1, FollowsItself
    <3>2. CASE ledger' = diagnose(ledger, e)
      BY <1>1, <1>3, <3>2, DiagnoseSound
    <3>. QED  BY <1>5, <3>1, <3>2
  <2>2. /\ exec' \in [Effects -> Worker] /\ exec'[e].pc = "idle"
        /\ \A d \in Effects \ {e} : exec'[d].pc = exec[d].pc
    BY <1>1, <1>5, PcMoves DEF WorkerPcs
  <2>3. Carried(exec, exec', ledger')
    BY <1>3, <2>1, <2>2, MovesCarried
  <2>. QED  BY <1>1, <1>2, <2>1, <2>2, <2>3, WorkerStep
<1>6. CASE /\ planned(ledger) = kind /\ next.refusal = "none"
           /\ Len(M.effects) <= MaxEffects /\ ledger' = N
           /\ exec' = [pcOf(e, "idle") EXCEPT ![f].pc = IF @ = "idle" THEN "authorize" ELSE @]
  <2>1. /\ from \in Awaiting /\ kind \in {"failure", "retry"}
        /\ "recover" \in Actions \cup {"cycle"}
    BY DEF Awaiting, Actions
  <2>2. kind = "retry" => github.terminal
    BY <1>1, <1>6 DEF planned, Sound
  <2>3. /\ M \in Ledger /\ valid(M) /\ Sound(M) /\ Follows(ledger, M, {})
        /\ f \in DOMAIN M.effects /\ f \in Nat \ {0}
        /\ M.effects[f].status = "pending" /\ M.effects[f].kind = kind
        /\ M.effects[f].gen = ledger.gen /\ M.gen = ledger.gen
    <3>. HIDE DEF kind
    <3>. QED  BY <1>1, <1>6, <2>1, <2>2, UpdateBegins
  <2>. HIDE DEF next
  <2>4. /\ kind = (IF from = "terminal-awaiting" THEN "failure" ELSE "retry")
        /\ to = (IF kind = "failure" THEN "terminal-pending" ELSE "retry-pending")
    OBVIOUS
  <2>. HIDE DEF M, f, from, kind, to
  <2>5. /\ N \in Ledger /\ valid(N) /\ Sound(N) /\ Follows(M, N, {})
        /\ N.effects = M.effects
    BY <1>3, <2>1, <2>3, <2>4, AdvanceSound
  <2>. HIDE DEF N
  <2>6. Follows(ledger, N, {})
    BY <2>3, <2>5, FollowsOn
  <2>7. exec' \in [Effects -> Worker] /\ Carried(exec, exec', ledger')
    <3>. DEFINE G == pcOf(e, "idle")
    <3>1. /\ G \in [Effects -> Worker] /\ G[e].pc = "idle"
          /\ \A d \in Effects \ {e} : G[d].pc = exec[d].pc
      BY <1>1 DEF pcOf, Worker
    <3>2. exec' = [G EXCEPT ![f].pc = IF @ = "idle" THEN "authorize" ELSE @]
      BY <1>6
    <3>. HIDE DEF G
    <3>3. /\ exec' \in [Effects -> Worker]
          /\ \A d \in Effects : \/ exec'[d].pc = G[d].pc
                                \/ exec'[d].pc = "authorize" /\ d = f
      BY <3>1, <3>2, ZenonT(40) DEF Worker
    <3>4. f \in DOMAIN ledger'.effects
      BY <1>6, <2>3, <2>5
    <3>. QED  BY <3>1, <3>3, <3>4 DEF Carried
  <2>. QED  BY <1>1, <1>2, <1>6, <2>5, <2>6, <2>7, WorkerStep
<1>. HIDE DEF N, M, f, next, kind
<1>. QED  BY <1>4, <1>5, <1>6

LEMMA AuthorizeStep ==
  ASSUME MutationInv, NEW e \in Effects, Authorize(e)
  PROVE  MutationInv' /\ Steady(ledger, ledger')
<1>1. /\ ledger \in Ledger /\ valid(ledger) /\ Sound(ledger)
      /\ Len(ledger.effects) <= MaxEffects /\ exec \in [Effects -> Worker]
  BY InvariantParts
<1>2. /\ UNCHANGED <<asks, slots, world, markers, admit, boots, aborts>>
      /\ exec[e].pc = "authorize"
  BY DEF Authorize
<1>3. e \in DOMAIN ledger.effects
  BY <1>2, WorkersHaveEffects
<1>4. \/ exec' = pcOf(e, "idle") /\ ledger' = ledger
      \/ exec' = pcOf(e, "act") /\ ledger' = ledger /\ ledger.effects[e].kind # "cleanup"
      \/ /\ exec' = pcOf(e, "act") /\ ledger' = announced(ledger, e)
         /\ ledger.effects[e].kind = "cleanup" /\ ledger.effects[e].status = "pending"
  BY DEF Authorize, announced
<1>5. /\ ledger' \in Ledger /\ valid(ledger') /\ Sound(ledger') /\ Follows(ledger, ledger', {})
      /\ ledger'.effects = ledger.effects
      /\ exec' = pcOf(e, "act") /\ ledger.effects[e].kind = "cleanup" =>
           exec' = pcOf(e, "idle") \/ ledger'.tomb.phase \in Started
  <2>1. CASE ledger' = ledger
    BY <1>1, <1>4, <2>1, FollowsItself, AnnounceSound, <1>3
  <2>2. CASE ledger' = announced(ledger, e) /\ ledger.effects[e].kind = "cleanup"
             /\ ledger.effects[e].status = "pending"
    BY <1>1, <1>3, <2>2, AnnounceSound
  <2>. QED  BY <1>4, <2>1, <2>2
<1>6. /\ exec' \in [Effects -> Worker]
      /\ exec' = pcOf(e, "idle") => exec'[e].pc = "idle"
      /\ exec'[e].pc # "finish"
      /\ exec'[e].pc = "act" => exec' = pcOf(e, "act")
      /\ \A d \in Effects \ {e} : exec'[d].pc = exec[d].pc
  BY <1>1, <1>4, PcMoves DEF WorkerPcs
<1>. QED  BY <1>1, <1>2, <1>3, <1>5, <1>6, WorkerReaches

\* What an effect does to the world it does for good, and a removal was announced.
LEMMA ActStep ==
  ASSUME MutationInv, NEW e \in Effects, Act(e)
  PROVE  MutationInv' /\ Steady(ledger, ledger')
<1>. DEFINE kind == ledger.effects[e].kind
<1>1. /\ ledger \in Ledger /\ valid(ledger) /\ Sound(ledger)
      /\ Len(ledger.effects) <= MaxEffects /\ exec \in [Effects -> Worker]
      /\ admit \in [Callers -> Thread] /\ AdmitInv /\ ExecInv /\ NothingUnannounced
      /\ boots \in 1..MaxBoots /\ aborts \in 0..MaxAborts
      /\ markers \subseteq Effects /\ github \in Facts
  BY InvariantParts
<1>2. process \in BOOLEAN /\ tree \in BOOLEAN
  BY DEF MutationInv, TypeOK
<1>3. UNCHANGED <<asks, slots, ledger, admit, boots, aborts>> /\ exec[e].pc = "act"
  BY DEF Act
<1>4. e \in DOMAIN ledger.effects
  BY <1>3, WorkersHaveEffects
<1>5. \/ physical(e) /\ markers' = markers \cup {e} /\ exec' = pcOf(e, "finish")
      \/ physical(e) /\ markers' = markers /\ exec' = pcOf(e, "idle")
      \/ UNCHANGED world /\ markers' = markers /\ exec' = pcOf(e, "idle")
  BY DEF Act
<1>6. kind \in {"stop", "cleanup", "failure", "retry"}
  <2>1. ledger.effects[e] \in Effect
    BY <1>1, <1>4, LedgerFields
  <2>. QED  BY <2>1 DEF Effect
<1>7. physical(e) \/ UNCHANGED world
  BY <1>5
<1>8. CASE physical(e)
  <2>1. /\ Onward /\ Done(kind)'
        /\ github' \in Facts /\ process' \in BOOLEAN /\ tree' \in BOOLEAN
        /\ tree' # tree => kind = "cleanup"
        /\ github'.retry # github.retry => kind = "retry"
    <3>1. CASE kind = "stop"
      <4>1. process' = FALSE /\ UNCHANGED <<tree, github>>
        BY <1>8, <3>1 DEF physical
      <4>. QED  BY <1>1, <1>2, <1>3, <3>1, <4>1 DEF Onward, Done
    <3>2. CASE kind = "cleanup"
      <4>1. process' = FALSE /\ tree' = FALSE /\ UNCHANGED github
        BY <1>8, <3>2 DEF physical
      <4>. QED  BY <1>1, <1>2, <1>3, <3>2, <4>1 DEF Onward, Done
    <3>3. CASE kind = "failure"
      <4>1. github' = [github EXCEPT !.terminal = TRUE] /\ UNCHANGED <<process, tree>>
        BY <1>8, <3>3 DEF physical
      <4>2. github' \in Facts /\ github'.terminal /\ github'.retry = github.retry
        BY <1>1, <4>1 DEF Facts
      <4>. QED  BY <1>1, <1>2, <1>3, <3>3, <4>1, <4>2 DEF Onward, Done
    <3>4. CASE kind = "retry"
      <4>1. github' = [github EXCEPT !.retry = TRUE] /\ UNCHANGED <<process, tree>>
        BY <1>8, <3>4 DEF physical
      <4>2. github' \in Facts /\ github'.retry /\ github'.terminal = github.terminal
        BY <1>1, <4>1 DEF Facts
      <4>. QED  BY <1>1, <1>2, <1>3, <3>4, <4>1, <4>2 DEF Onward, Done
    <3>. QED  BY <1>6, <3>1, <3>2, <3>3, <3>4
  <2>2. NothingUnannounced'
    <3>1. kind = "cleanup" => ledger.tomb.phase \in Started
      BY <1>1, <1>3 DEF ExecInv
    <3>2. kind = "retry" => github.terminal
      BY <1>1, <1>4 DEF Sound, SoundEffects
    <3>3. ~tree' => ledger'.tomb.phase \in {"cleanup-started", "completed"}
      BY <1>1, <1>3, <2>1, <3>1 DEF NothingUnannounced, Started
    <3>4. github'.retry => github'.terminal
      BY <1>1, <1>3, <2>1, <3>2 DEF NothingUnannounced, Onward
    <3>. QED  BY <3>3, <3>4 DEF NothingUnannounced
  <2>. QED
    <3>1. \E pc \in {"idle", "finish"} :
            exec' = pcOf(e, pc) /\ markers' = (IF pc = "idle" THEN markers ELSE markers \cup {e})
      <4>1. CASE UNCHANGED world /\ markers' = markers /\ exec' = pcOf(e, "idle")
        BY <4>1
      <4>. QED  BY <1>5, <4>1
    <3>2. PICK pc \in {"idle", "finish"} :
            exec' = pcOf(e, pc) /\ markers' = (IF pc = "idle" THEN markers ELSE markers \cup {e})
      BY <3>1
    <3>3. /\ exec' \in [Effects -> Worker] /\ exec'[e].pc = pc
          /\ \A d \in Effects \ {e} : exec'[d].pc = exec[d].pc
      BY <1>1, <3>2, PcMoves DEF WorkerPcs
    <3>4. Done(ledger.effects[e].kind)'
      BY <2>1
    <3>5. Follows(ledger, ledger', {})
      BY <1>3, FollowsItself
    <3>6. markers' \subseteq Effects /\ markers' \subseteq markers \cup {e}
          /\ (e \in markers' \ markers => pc = "finish")
      BY <1>1, <3>2
    <3>7. ExecInv'
      <4>1. \A d \in Effects : exec'[d].pc # "idle" =>
               \/ exec'[d].pc = exec[d].pc
               \/ /\ d \in DOMAIN ledger'.effects
                  /\ exec'[d].pc = "act" /\ ledger'.effects[d].kind = "cleanup" =>
                       ledger'.tomb.phase \in Started
                  /\ exec'[d].pc = "finish" => Done(ledger.effects[d].kind)'
        BY <1>3, <1>4, <3>3, <3>4
      <4>2. \A d \in markers' : \/ d \in markers
                                \/ /\ d \in DOMAIN ledger'.effects
                                   /\ Done(ledger.effects[d].kind)'
        BY <1>3, <1>4, <3>4, <3>6
      <4>. QED  BY <1>1, <2>1, <3>5, <3>6, <4>1, <4>2, ExecStays
    <3>8. Quiet(admit, admit')
      BY <1>3 DEF Quiet
    <3>9. AdmitInv'
      BY <1>1, <2>1, <3>8, QuietStays
    <3>10. ledger' \in Ledger /\ valid(ledger') /\ Sound(ledger')
      BY <1>1, <1>3
    <3>11. MutationInv'
      BY <1>1, <1>3, <2>1, <2>2, <3>3, <3>6, <3>7, <3>9, <3>10, Preserved
    <3>. QED  BY <3>5, <3>11, UnansweredSteady
<1>9. CASE UNCHANGED world /\ markers' = markers /\ exec' = pcOf(e, "idle")
  <2>1. /\ exec' \in [Effects -> Worker] /\ exec'[e].pc = "idle"
        /\ \A d \in Effects \ {e} : exec'[d].pc = exec[d].pc
    BY <1>1, <1>9, PcMoves DEF WorkerPcs
  <2>2. Carried(exec, exec', ledger')
    BY <1>3, <1>4, <2>1, MovesCarried
  <2>3. /\ ledger' \in Ledger /\ valid(ledger') /\ Sound(ledger')
        /\ Follows(ledger, ledger', {}) /\ Len(ledger'.effects) <= MaxEffects
    BY <1>1, <1>3, FollowsItself
  <2>. QED  BY <1>3, <1>9, <2>1, <2>2, <2>3, WorkerStep
<1>. QED  BY <1>5, <1>8, <1>9

LEMMA FinishStep ==
  ASSUME MutationInv, NEW e \in Effects, Finish(e)
  PROVE  MutationInv' /\ Steady(ledger, ledger')
<1>. DEFINE N == finish(ledger, e)
<1>1. /\ ledger \in Ledger /\ valid(ledger) /\ Sound(ledger)
      /\ Len(ledger.effects) <= MaxEffects /\ exec \in [Effects -> Worker] /\ ExecInv
  BY InvariantParts
<1>2. UNCHANGED <<asks, slots, world, admit, boots, aborts>> /\ exec[e].pc = "finish"
  BY DEF Finish
<1>3. e \in DOMAIN ledger.effects /\ Done(ledger.effects[e].kind)
  BY <1>1, <1>2 DEF ExecInv
<1>4. \/ /\ valid(N) /\ ledger' = N /\ markers' = markers \ {e}
         /\ exec' = pcOf(e, "resume") \/ exec' = pcOf(e, "idle")
      \/ ledger' = ledger /\ markers' = markers /\ exec' = pcOf(e, "idle")
  BY DEF Finish, finishable
<1>5. /\ N \in Ledger /\ Sound(N) /\ Follows(ledger, N, {})
      /\ Len(N.effects) = Len(ledger.effects)
  BY <1>1, <1>3, FinishSound
<1>. HIDE DEF N
<1>6. /\ ledger' \in Ledger /\ valid(ledger') /\ Sound(ledger') /\ Follows(ledger, ledger', {})
      /\ Len(ledger'.effects) <= MaxEffects /\ markers' \subseteq markers
  BY <1>1, <1>4, <1>5, FollowsItself
<1>7. /\ exec' \in [Effects -> Worker] /\ exec'[e].pc \in {"idle", "resume"}
      /\ \A d \in Effects \ {e} : exec'[d].pc = exec[d].pc
  BY <1>1, <1>4, PcMoves DEF WorkerPcs
<1>8. Carried(exec, exec', ledger')
  <2>1. e \in DOMAIN ledger'.effects
    BY <1>3, <1>6 DEF Follows
  <2>. QED  BY <1>7, <2>1, MovesCarried
<1>. QED  BY <1>2, <1>6, <1>7, <1>8, WorkerStep

LEMMA ResumePendingStep ==
  ASSUME MutationInv, NEW e \in Effects, ResumePending(e)
  PROVE  MutationInv' /\ Steady(ledger, ledger')
<1>1. /\ ledger \in Ledger /\ valid(ledger) /\ Sound(ledger)
      /\ Len(ledger.effects) <= MaxEffects /\ exec \in [Effects -> Worker]
  BY InvariantParts
<1>2. /\ UNCHANGED <<asks, slots, ledger, world, markers, admit, boots, aborts>>
      /\ e \in DOMAIN ledger.effects /\ exec' = resumed(exec, e)
  BY DEF ResumePending, pendingEffects
<1>3. exec' \in [Effects -> Worker] /\ Carried(exec, exec', ledger')
  BY <1>1, <1>2, ResumedShape
<1>4. /\ ledger' \in Ledger /\ valid(ledger') /\ Sound(ledger') /\ Follows(ledger, ledger', {})
      /\ Len(ledger'.effects) <= MaxEffects
  BY <1>1, <1>2, FollowsItself
<1>. QED  BY <1>2, <1>3, <1>4, WorkerStep

-----------------------------------------------------------------------------
(* The cycle, the world and restarts *)

LEMMA ObserveStep ==
  ASSUME MutationInv, Observe
  PROVE  MutationInv' /\ Steady(ledger, ledger')
<1>. DEFINE L == observed(ledger)
            A == unseenA(admit)
<1>1. /\ ledger \in Ledger /\ valid(ledger) /\ Sound(ledger)
      /\ Len(ledger.effects) <= MaxEffects /\ github \in Facts
      /\ admit \in [Callers -> Thread] /\ exec \in [Effects -> Worker]
      /\ boots \in 1..MaxBoots /\ aborts \in 0..MaxAborts /\ AdmitInv
  BY InvariantParts
<1>2. /\ UNCHANGED <<asks, slots, world, markers, boots, aborts>>
      /\ ledger' = L /\ admit' = workersOf(L, A) /\ exec' = unseenE(exec)
  BY DEF Observe
<1>3. /\ L \in Ledger /\ valid(L) /\ Sound(L) /\ Follows(ledger, L, {})
      /\ L.effects = ledger.effects
  BY <1>1, ObservedSound
<1>4. A \in [Callers -> Thread] /\ Quiet(admit, A)
  BY <1>1, UnseenShape
<1>. HIDE DEF L, A
<1>5. admit' \in [Callers -> Thread] /\ Quiet(admit, admit')
  BY <1>2, <1>3, <1>4, WorkersShape, QuietOn
<1>6. Onward
  BY <1>2 DEF Onward, world
<1>7. AdmitInv'
  BY <1>1, <1>5, <1>6, QuietStays
<1>8. exec' \in [Effects -> Worker] /\ Carried(exec, exec', ledger')
  BY <1>1, <1>2, UnseenWorkers DEF Carried
<1>9. Steady(ledger, ledger')
  BY <1>2, <1>3, UnansweredSteady
<1>. QED  BY <1>1, <1>2, <1>3, <1>5, <1>7, <1>8, <1>9, OwnersStep

LEMMA PublishStep ==
  ASSUME MutationInv, Publish
  PROVE  MutationInv' /\ Steady(ledger, ledger')
<1>. DEFINE kind == planned(ledger)
            next == beginUpdate(ledger, kind, "cycle")
<1>1. /\ ledger \in Ledger /\ valid(ledger) /\ Sound(ledger)
      /\ Len(ledger.effects) <= MaxEffects /\ exec \in [Effects -> Worker]
  BY InvariantParts
<1>2. /\ UNCHANGED <<asks, slots, world, markers, admit, boots, aborts>>
      /\ kind # "none" /\ next.refusal = "none" /\ Len(next.ledger.effects) <= MaxEffects
      /\ ledger' = next.ledger /\ exec' = pcOf(next.effect, "authorize")
  BY DEF Publish
<1>3. kind \in {"failure", "retry"} /\ (kind = "retry" => github.terminal)
  BY <1>1, <1>2 DEF planned, Sound
<1>4. /\ ledger' \in Ledger /\ valid(ledger') /\ Sound(ledger') /\ Follows(ledger, ledger', {})
      /\ next.effect \in DOMAIN ledger'.effects
  <2>. HIDE DEF kind
  <2>1. "cycle" \in Actions \cup {"cycle"}
    OBVIOUS
  <2>. QED  BY <1>1, <1>2, <1>3, <2>1, UpdateBegins
<1>5. next.effect \in Effects
  <2>1. DOMAIN ledger'.effects = 1..Len(ledger'.effects) /\ Len(ledger'.effects) \in Nat
    BY <1>4, LedgerFields
  <2>. HIDE DEF next
  <2>. QED  BY <1>2, <1>4, <2>1, OperatorAssumption DEF Effects
<1>. HIDE DEF next, kind
<1>6. /\ exec' \in [Effects -> Worker] /\ exec'[next.effect].pc = "authorize"
      /\ \A d \in Effects \ {next.effect} : exec'[d].pc = exec[d].pc
  BY <1>1, <1>2, <1>5, PcMoves DEF WorkerPcs
<1>7. Carried(exec, exec', ledger')
  BY <1>4, <1>5, <1>6, MovesCarried
<1>. QED  BY <1>1, <1>2, <1>4, <1>6, <1>7, WorkerStep

LEMMA WorldStep ==
  ASSUME MutationInv, World
  PROVE  MutationInv' /\ Steady(ledger, ledger')
<1>1. /\ ledger \in Ledger /\ valid(ledger) /\ Sound(ledger)
      /\ Len(ledger.effects) <= MaxEffects /\ exec \in [Effects -> Worker]
      /\ admit \in [Callers -> Thread] /\ AdmitInv /\ ExecInv /\ NothingUnannounced
      /\ boots \in 1..MaxBoots /\ aborts \in 0..MaxAborts
      /\ markers \subseteq Effects /\ github \in Facts
  BY InvariantParts
<1>2. process \in BOOLEAN /\ tree \in BOOLEAN
  BY DEF MutationInv, TypeOK
<1>3. UNCHANGED <<asks, slots, ledger, process, tree, markers, admit, exec, boots, aborts>>
  BY DEF World, threads
<1>4. github' = [github EXCEPT !.closed = TRUE] \/ github' = [github EXCEPT !.present = FALSE]
  BY DEF World
<1>5. /\ github' \in Facts /\ github'.terminal = github.terminal
      /\ github'.retry = github.retry
  BY <1>1, <1>4 DEF Facts
<1>6. Onward
  BY <1>3, <1>5 DEF Onward
<1>7. Follows(ledger, ledger', {})
  BY <1>3, FollowsItself
<1>8. ExecInv'
  <2>1. Carried(exec, exec', ledger') /\ markers' \subseteq markers
    BY <1>1, <1>3 DEF Carried
  <2>. QED  BY <1>1, <1>6, <1>7, <2>1, CarriedStays
<1>9. NothingUnannounced'
  BY <1>1, <1>3, <1>5, <1>6, <1>7, AnnouncedStays
<1>10. AdmitInv'
  BY <1>1, <1>3, <1>6, QuietStays DEF Quiet
<1>11. ledger' \in Ledger /\ valid(ledger') /\ Sound(ledger')
  BY <1>1, <1>3
<1>12. MutationInv'
  BY <1>1, <1>2, <1>3, <1>5, <1>6, <1>8, <1>9, <1>10, <1>11, Preserved
<1>. QED  BY <1>7, <1>12, UnansweredSteady

LEMMA RestartStep ==
  ASSUME MutationInv, Restart
  PROVE  MutationInv' /\ Steady(ledger, ledger')
<1>. DEFINE L == [ledger EXCEPT !.fresh = FALSE]
            A == [t \in Callers |-> Idle]
            owed(e) == \E i \in DOMAIN L.receipts :
                        /\ L.receipts[i].effect = e
                        /\ open(L.receipts[i]) /\ ~waiting(L.receipts[i])
                        /\ L.receipts[i].phase \in Awaiting => ~L.receipts[i].diagnosed
<1>1. /\ ledger \in Ledger /\ valid(ledger) /\ Sound(ledger)
      /\ Len(ledger.effects) <= MaxEffects
      /\ admit \in [Callers -> Thread] /\ exec \in [Effects -> Worker]
      /\ boots \in 1..MaxBoots /\ aborts \in 0..MaxAborts /\ AdmitInv
  BY InvariantParts
<1>2. /\ UNCHANGED <<asks, slots, world, markers, aborts>>
      /\ boots < MaxBoots /\ boots' = boots + 1
      /\ ledger' = L /\ admit' = workersOf(L, A)
      /\ exec' = [e \in Effects |-> IF owed(e) THEN [pc |-> "resume", seen |-> FALSE] ELSE Resting]
  BY DEF Restart
<1>3. /\ L \in Ledger /\ valid(L) /\ Sound(L) /\ Follows(ledger, L, {})
      /\ L.effects = ledger.effects
  BY <1>1, RestartSound
<1>4. \A e \in Effects : owed(e) => e \in DOMAIN L.effects
  <2>. HIDE DEF L
  <2>. SUFFICES ASSUME NEW e \in Effects, NEW i \in DOMAIN L.receipts,
                       L.receipts[i].effect = e
                PROVE  e \in DOMAIN L.effects
    OBVIOUS
  <2>1. e # 0
    BY DEF Effects
  <2>. QED  BY <1>3, <2>1, ValidHolds
<1>5. A \in [Callers -> Thread] /\ Quiet(admit, A)
  BY RestingThreads DEF Quiet
<1>. HIDE DEF L, A, owed
<1>6. admit' \in [Callers -> Thread] /\ Quiet(admit, admit')
  BY <1>2, <1>3, <1>5, WorkersShape, QuietOn
<1>7. Onward
  BY <1>2 DEF Onward, world
<1>8. AdmitInv'
  BY <1>1, <1>6, <1>7, QuietStays
<1>9. exec' \in [Effects -> Worker] /\ Carried(exec, exec', ledger')
  BY <1>2, <1>4 DEF Carried, Resting, Worker
<1>10. boots' \in 1..MaxBoots
  BY <1>1, <1>2, OperatorAssumption
<1>11. Steady(ledger, ledger')
  BY <1>2, <1>3, UnansweredSteady
<1>. QED  BY <1>1, <1>2, <1>3, <1>6, <1>8, <1>9, <1>10, <1>11, OwnersStep

-----------------------------------------------------------------------------
(* The theorems *)

LEMMA MutationInit ==
  ASSUME Init
  PROVE  MutationInv
<1>1. PICK s \in Scenes :
        LET f == [Collected EXCEPT !.terminal = (s.man = "failed")] IN
          /\ asks = s.asks /\ slots = s.slots
          /\ ledger = [gen |-> 1, man |-> s.man, facts |-> f, fresh |-> TRUE,
                       tomb |-> [action |-> "none", effect |-> 0, phase |-> "none"],
                       effects |-> <<>>, receipts |-> <<>>]
          /\ github = f
          /\ process \in (IF s.man = "running" THEN BOOLEAN ELSE {FALSE})
  BY DEF Init
<1>2. /\ tree = TRUE /\ markers = {}
      /\ admit = [t \in Callers |-> Idle]
      /\ exec = [e \in Effects |-> Resting]
      /\ boots = 1 /\ aborts = 0
  BY DEF Init
<1>3. /\ s.asks \in [Requests -> Actions] /\ s.man \in {"running", "completed", "failed"}
      /\ s.slots \in Nat
  BY OperatorAssumption
<1>4. /\ github \in Facts /\ github = ledger.facts /\ ~github.retry
      /\ github.terminal \in BOOLEAN
  BY <1>1 DEF Facts, Collected
<1>5. /\ ledger.effects = <<>> /\ ledger.receipts = <<>> /\ ledger.gen = 1
      /\ ledger.man = s.man /\ ledger.fresh = TRUE
      /\ ledger.tomb = [action |-> "none", effect |-> 0, phase |-> "none"]
      /\ ledger = [gen |-> 1, man |-> s.man, facts |-> github, fresh |-> TRUE,
                   tomb |-> [action |-> "none", effect |-> 0, phase |-> "none"],
                   effects |-> <<>>, receipts |-> <<>>]
      /\ asks = s.asks /\ slots = s.slots /\ process \in BOOLEAN
  BY <1>1
<1>6. ledger \in Ledger
  BY <1>3, <1>4, <1>5 DEF Ledger, States
<1>7. Len(ledger.effects) = 0 /\ Len(ledger.receipts) = 0
      /\ DOMAIN ledger.effects = {} /\ DOMAIN ledger.receipts = {}
  BY <1>5
<1>8. TypeOK
  <2>1. MaxEffects \in Nat /\ MaxAborts \in Nat /\ 1 \in 1..MaxBoots
    BY OperatorAssumption
  <2>2. Idle \in Thread /\ Resting \in Worker
    BY RestingThreads DEF Resting, Worker
  <2>. QED  BY <1>2, <1>3, <1>4, <1>5, <1>6, <1>7, <2>1, <2>2 DEF TypeOK
<1>9. valid(ledger)
  BY <1>3, <1>5, <1>7 DEF valid, validAdmissions, validReceipts, validEffects, validTombstone
<1>10. Sound(ledger)
  BY <1>4, <1>5, <1>7 DEF Sound, BoundReceipts, SoundEffects, SoundTombstone
<1>11. AdmitInv
  BY <1>2 DEF AdmitInv, Idle
<1>12. ExecInv
  BY <1>2 DEF ExecInv, Resting
<1>13. NothingUnannounced
  BY <1>2, <1>4 DEF NothingUnannounced
<1>. QED  BY <1>8, <1>9, <1>10, <1>11, <1>12, <1>13 DEF MutationInv

LEMMA MutationStep ==
  ASSUME MutationInv, [Next]_vars
  PROVE  MutationInv' /\ Steady(ledger, ledger')
<1>1. CASE UNCHANGED vars
  <2>1. /\ UNCHANGED <<asks, slots, world, boots, aborts>>
        /\ ledger' = ledger /\ markers' = markers /\ admit' = admit /\ exec' = exec
    BY <1>1 DEF vars, threads
  <2>2. /\ ledger \in Ledger /\ valid(ledger) /\ Sound(ledger)
        /\ Len(ledger.effects) <= MaxEffects /\ exec \in [Effects -> Worker]
    BY InvariantParts
  <2>3. Follows(ledger, ledger', {}) /\ Carried(exec, exec', ledger')
    BY <2>1, FollowsItself DEF Carried
  <2>. QED  BY <2>1, <2>2, <2>3, WorkerStep
<1>2. CASE Next
  BY <1>2, PerformStep, AbortStep, PrepareStep, BeginStep, ResumeStep, AdvanceStep,
     AuthorizeStep, ActStep, FinishStep, ResumePendingStep, ObserveStep, PublishStep,
     WorldStep, RestartStep DEF Next, ExecStep
<1>. QED  BY <1>1, <1>2

\* The invariant of the operator's mutations holds in every reachable state.
THEOREM MutationInductive == Spec => []MutationInv
<1>1. Init => MutationInv
  BY MutationInit
<1>2. MutationInv /\ [Next]_vars => MutationInv'
  BY MutationStep
<1>. QED  BY <1>1, <1>2, PTL DEF Spec

\* Every variable keeps its type: the list of receipts never outgrows its slots
\* (appendOperatorReceipt), however requests are admitted, copied and refused.
THEOREM MutationTypes == Spec => []TypeOK
<1>1. MutationInv => TypeOK
  BY DEF MutationInv
<1>. QED  BY <1>1, MutationInductive, PTL

\* Whatever is committed passes validateRuntimeOwnerState: a daemon that starts
\* from it can load it. The commands that refuse or forget a request, record a
\* diagnostic, advance a recovery, start a cleanup, apply a cycle or begin its
\* effect never leave anything else.
THEOREM LedgersAreValid == Spec => []LedgerValid
<1>1. MutationInv => LedgerValid
  BY DEF MutationInv, LedgerValid
<1>. QED  BY <1>1, MutationInductive, PTL

\* A receipt that reports success reports what is done: the worker has ended, the
\* retry is on GitHub, or the attempt is gone.
THEOREM ResultsAreHonest == Spec => []HonestResults
<1>1. MutationInv => HonestResults
  <2>. SUFFICES ASSUME MutationInv, NEW i \in DOMAIN ledger.receipts,
                       ledger.receipts[i].result = "ok"
                PROVE  CASE asks[ledger.receipts[i].id] = "cancel"  -> ~process
                         [] asks[ledger.receipts[i].id] = "recover" -> github.retry
                         [] OTHER -> ~tree
    BY DEF HonestResults
  <2>. DEFINE x == ledger.receipts[i]
              kind == ledger.effects[x.effect].kind
  <2>1. /\ ledger \in Ledger /\ valid(ledger) /\ Sound(ledger) /\ asks \in [Requests -> Actions]
    BY InvariantParts
  <2>2. x \in Receipt /\ x.result = "ok"
    BY <2>1, LedgerFields
  <2>3. x.effect # 0 /\ x.phase = "completed"
    BY <2>1, <2>2 DEF Sound, BoundReceipts, Bound, valid, validReceipts, open
  <2>4. /\ x.effect \in DOMAIN ledger.effects /\ kind = kindOf(x)
        /\ ledger.effects[x.effect].status = statusOf(x)
    BY <2>1, <2>3, ValidHolds
  <2>. HIDE DEF x
  <2>5. ledger.effects[x.effect].status = "completed"
    BY <2>3, <2>4 DEF statusOf
  <2>6. Done(kind)
    BY <2>1, <2>4, <2>5 DEF Sound, SoundEffects
  <2>. HIDE DEF kind
  <2>7. asks[x.id] \in Actions
    BY <2>1, <2>2 DEF Receipt
  <2>8. CASE asks[x.id] = "cancel"
    <3>1. kind = "stop"
      BY <2>3, <2>4, <2>8 DEF kindOf, Destructive
    <3>. QED  BY <2>6, <2>8, <3>1 DEF Done, x
  <2>9. CASE asks[x.id] = "recover"
    <3>1. kind = "retry"
      BY <2>3, <2>4, <2>9 DEF kindOf, Destructive
    <3>. QED  BY <2>6, <2>9, <3>1 DEF Done, x
  <2>10. CASE asks[x.id] \in Destructive
    <3>1. kind = "cleanup"
      BY <2>3, <2>4, <2>10 DEF kindOf, Destructive
    <3>2. asks[x.id] # "cancel" /\ asks[x.id] # "recover"
      BY <2>10 DEF Destructive
    <3>. QED  BY <2>6, <3>1, <3>2 DEF Done, x
  <2>. QED  BY <2>7, <2>8, <2>9, <2>10 DEF Actions
<1>. QED  BY <1>1, MutationInductive, PTL

\* Nothing is removed that no tombstone announces, and no retry is asked for on
\* GitHub that follows no terminal failure.
THEOREM RemovalsAreAnnounced == Spec => []NothingUnannounced
<1>1. MutationInv => NothingUnannounced
  BY DEF MutationInv
<1>. QED  BY <1>1, MutationInductive, PTL

\* What a steady step keeps of a settled receipt.
LEMMA SettledKept ==
  ASSUME NEW L, NEW N, valid(L), Steady(L, N), NEW r \in Requests,
         has(L, r), ~open(receipt(L, r)), has(N, r)
  PROVE  receipt(N, r).result = receipt(L, r).result
<1>1. PICK I \in SUBSET Requests :
        /\ Follows(L, N, I)
        /\ \A j \in DOMAIN L.receipts : L.receipts[j].id \in I => open(L.receipts[j])
  BY DEF Steady
<1>2. PICK k \in DOMAIN L.receipts : L.receipts[k].id = r /\ receipt(L, r) = L.receipts[k]
  BY DEF has, receipt
<1>3. PICK i \in DOMAIN N.receipts : N.receipts[i].id = r /\ receipt(N, r) = N.receipts[i]
  BY DEF has, receipt
<1>4. r \notin I
  BY <1>1, <1>2
<1>5. PICK j \in DOMAIN L.receipts : /\ L.receipts[j].id = r
                                     /\ open(L.receipts[j]) \/ N.receipts[i] = L.receipts[j]
  BY <1>1, <1>3, <1>4 DEF Follows, Derived
<1>6. j = k
  BY <1>2, <1>5 DEF valid, validReceipts
<1>. QED  BY <1>2, <1>3, <1>5, <1>6

\* One action destroys an attempt, once; a client's answer is not taken back.
THEOREM SettledStaysSettled == Spec => SettledStays
<1>. DEFINE Stays ==
       /\ ledger.tomb.action # "none" =>
            ledger'.tomb.action = ledger.tomb.action /\ ledger'.tomb.effect = ledger.tomb.effect
       /\ \A r \in Requests :
            has(ledger, r) /\ ~open(receipt(ledger, r)) /\ has(ledger', r) =>
              receipt(ledger', r).result = receipt(ledger, r).result
<1>1. MutationInv /\ [Next]_vars => Stays
  <2>. SUFFICES ASSUME MutationInv, [Next]_vars PROVE Stays
    OBVIOUS
  <2>1. valid(ledger) /\ Steady(ledger, ledger')
    BY MutationStep, InvariantParts
  <2>2. ledger.tomb.action # "none" =>
          ledger'.tomb.action = ledger.tomb.action /\ ledger'.tomb.effect = ledger.tomb.effect
    BY <2>1 DEF Steady, Follows
  <2>3. \A r \in Requests :
          has(ledger, r) /\ ~open(receipt(ledger, r)) /\ has(ledger', r) =>
            receipt(ledger', r).result = receipt(ledger, r).result
    BY <2>1, SettledKept
  <2>. QED  BY <2>2, <2>3
<1>2. MutationInv /\ [Next]_vars => [Stays]_vars
  BY <1>1
<1>. QED  BY <1>2, MutationInductive, PTL DEF Spec, SettledStays
=============================================================================
