----------------------- MODULE ReviewerLifecycleProofs -----------------------
(***************************************************************************)
(* TLAPS proofs about ReviewerLifecycle, for any number of targets, runs,  *)
(* daemon starts and failures, and both kinds of review.                   *)
(***************************************************************************)
EXTENDS ReviewerLifecycle, FiniteSetTheorems, WellFoundedInduction, TLAPS

-----------------------------------------------------------------------------
(* The ledger, field by field *)

review == ledger.review
runs   == ledger.runs
sweep  == ledger.sweep
proofs == ledger.proofs
stop   == ledger.stop

Book(rv, rs, sw, ps, st) ==
  [review |-> rv, runs |-> rs, sweep |-> sw, proofs |-> ps, stop |-> st]
WithReview(L, x) == [L EXCEPT !.review = x]
WithRuns(L, x)   == [L EXCEPT !.runs = x]
WithSweep(L, x)  == [L EXCEPT !.sweep = x]
WithProofs(L, x) == [L EXCEPT !.proofs = x]
WithStop(L, x)   == [L EXCEPT !.stop = x]

\* A sequence, or a function, with one element replaced.
Put(f, x, v) == [f EXCEPT ![x] = v]

-----------------------------------------------------------------------------
(* The invariant *)

\* The reviewer's process has ended, and its session ends or has ended; or neither
\* was ever there.
ended(r) == world[r].child = "dead" /\ world[r].pane \in {"none", "dead"}
bare(r)  == world[r].child = "none" /\ world[r].pane = "none"

\* Only the last run may still be open, and not beside a sweep or a destructive
\* effect, which has captured the run that it dropped.
OpenInv ==
  /\ \A x \in DOMAIN runs : x < Len(runs) => runs[x].state = "completed"
  /\ \A x \in DOMAIN runs : runs[x].state = "pending" => stop.state = "none" /\ ~sweep
  /\ \A x \in DOMAIN runs : runs[x].state = "dropped" => stop.state # "none"
  /\ stop.state # "none" => ~sweep
  /\ stop.state = "none" => stop.run = 0
  /\ stop.run # 0 => /\ stop.run \in DOMAIN runs
                     /\ runs[stop.run].state = "dropped"
                     /\ stop.requested = runs[stop.run].requested
  /\ review.run \in {0} \cup DOMAIN runs
  /\ sweep => review.run # 0

\* What a run has on the machine it was asked for, and has its tree for as long as
\* it may need it.
WorldOf(r) ==
  /\ world[r].pane # "none" \/ world[r].child # "none" \/ world[r].snap => r \in DOMAIN runs
  /\ world[r].pane # "none" \/ world[r].child # "none" => runs[r].requested
  /\ world[r].pane # "none" \/ alive(r) => world[r].snap
  /\ world[r].pane = "dead" => world[r].child = "dead"
  /\ world[r].pane = "asked" => world[r].child = "none"
  /\ world[r].child = "dead" => world[r].exit # "none"
  /\ world[r].child = "working" => runs[r].bound
  /\ world[r].dead => world[r].child = "dead"
WorldInv == \A r \in Runs : WorldOf(r)

\* What is sealed or concluded of a run is the end of its process.
VerdictOf(r) ==
  /\ runs[r].sealed # "none" => ended(r) /\ world[r].exit = runs[r].sealed
  /\ runs[r].state = "completed" => ended(r) \/ ~runs[r].requested
  /\ runs[r].result \in {"clean", "findings"} => ended(r) /\ world[r].exit = runs[r].result
VerdictInv == \A r \in DOMAIN runs : VerdictOf(r)

\* What a certificate says is the truth.
True(p) ==
  p.run # 0 => /\ p.run \in DOMAIN runs
               /\ p.dead /\ p.bound => ended(p.run)
               /\ p.never => ~runs[p.run].requested
ProofInv == \A t \in Targets : True(proofs[t])

\* Where each kind of job can be, and what it works on.
Stages(job) ==
  CASE job = "idle" -> {"idle"}
    [] job = "launch" -> {"clear", "certify", "request", "create", "never", "mark", "finish"}
    [] job = "replay" -> {"never", "bind", "release", "seal", "mark", "finish"}
    [] job = "sweep" -> {"clean", "settle"}
    [] job = "supersede" -> {"probe", "hold", "kill", "prove", "commit"}
    [] job = "stop" -> {"probe", "hold", "kill", "prove", "clean", "certify", "settle"}
StageInv ==
  /\ holder.at \in Stages(holder.job)
  /\ holder.job \in {"launch", "replay", "sweep", "supersede"} => R \in DOMAIN runs
  /\ holder.job = "stop" =>
       /\ stop.state = "pending" /\ R = stop.run
       /\ holder.at \in {"probe", "hold", "kill", "prove"} => R # 0
  /\ holder.job = "sweep" => (sweep /\ R = review.run) \/ stop.state # "none"
  /\ stop.state = "completed" => holder = Nobody

\* A launch works on a run that nothing exists of, a later stage on what an earlier
\* one has seen or done.
Preparing == holder.job = "launch" /\ holder.at \in {"clear", "certify", "request", "create"}
JobInv ==
  /\ Preparing =>
       /\ bare(R)
       /\ runs[R].state = "pending" => \A t \in Targets : proofs[t].run # R
  /\ holder.job = "launch" /\ holder.at \in {"request", "create"} => W.snap
  /\ holder.job = "launch" /\ holder.at = "create" => runs[R].requested
  /\ holder.at = "seal" => ended(R)
  /\ holder.at = "release" => runs[R].bound
  /\ holder.at \in {"mark", "finish"} => holder.result # "none"
  /\ holder.at = "prove" /\ ~holder.never => ended(R)

\* The files are gone before the destructive effect says so.
Cleaned  == holder.job = "stop" /\ holder.at \in {"certify", "settle"}
CleanInv == Cleaned \/ stop.state = "completed" => \A r \in Runs : ~world[r].snap

ReviewerInv ==
  /\ TypeOK /\ OpenInv /\ WorldInv /\ VerdictInv /\ ProofInv
  /\ StageInv /\ JobInv /\ CleanInv

-----------------------------------------------------------------------------
(* What each owner command does to the ledger *)

\* A set of natural numbers that is not empty has a least.
LEMMA LeastNatural ==
  ASSUME NEW S, S \subseteq Nat, S # {}
  PROVE  \E t \in S : \A u \in S : t <= u
<1>1. IsWellFoundedOn(OpToRel(<, Nat), Nat)
  BY NatLessThanWellFounded
<1>2. PICK t \in S : \A u \in S : ~(<<u, t>> \in OpToRel(<, Nat))
  BY <1>1, WFMin
<1>3. ASSUME NEW u \in S
      PROVE  t <= u
  <2>1. u < t => <<u, t>> \in OpToRel(<, Nat)
    BY DEF OpToRel
  <2>2. ~(u < t)
    BY <2>1, <1>2, Zenon
  <2>. QED  BY <2>2
<1>. QED  BY <1>3

\* The first certificate that a launch clears is one of those it has to clear.
LEMMA EarliestIsEarlier ==
  ASSUME ReviewerAssumption, earlier # {}
  PROVE  earliest \in earlier
<1>1. earlier \subseteq Nat
  BY DEF earlier, Targets
<1>2. PICK t \in earlier : \A u \in earlier : t <= u
  BY <1>1, LeastNatural
<1>. QED  BY <1>2 DEF earliest

\* A ledger is its five fields.
LEMMA BookOfLedger ==
  ASSUME ledger \in Ledger
  PROVE  /\ ledger = Book(review, runs, sweep, proofs, stop)
         /\ review \in Review /\ runs \in Seq(Run) /\ sweep \in BOOLEAN
         /\ proofs \in [Targets -> Proof] /\ stop \in Stop
BY DEF Ledger, Book, review, runs, sweep, proofs, stop

\* Each field is set on its own.
LEMMA Setters ==
  ASSUME NEW rv, NEW rs, NEW sw, NEW ps, NEW st, NEW x
  PROVE  /\ WithReview(Book(rv, rs, sw, ps, st), x) = Book(x, rs, sw, ps, st)
         /\ WithRuns(Book(rv, rs, sw, ps, st), x) = Book(rv, x, sw, ps, st)
         /\ WithSweep(Book(rv, rs, sw, ps, st), x) = Book(rv, rs, x, ps, st)
         /\ WithProofs(Book(rv, rs, sw, ps, st), x) = Book(rv, rs, sw, x, st)
         /\ WithStop(Book(rv, rs, sw, ps, st), x) = Book(rv, rs, sw, ps, x)
BY DEF WithReview, WithRuns, WithSweep, WithProofs, WithStop, Book

\* And read on its own.
LEMMA Getters ==
  ASSUME NEW rv, NEW rs, NEW sw, NEW ps, NEW st
  PROVE  /\ Book(rv, rs, sw, ps, st).review = rv
         /\ Book(rv, rs, sw, ps, st).runs = rs
         /\ Book(rv, rs, sw, ps, st).sweep = sw
         /\ Book(rv, rs, sw, ps, st).proofs = ps
         /\ Book(rv, rs, sw, ps, st).stop = st
BY DEF Book

\* A new certificate replaces the one at its run's target.
LEMMA ProofBook ==
  ASSUME ledger \in Ledger, NEW r, NEW p
  PROVE  withProof(ledger, r, p) =
           Book(review, runs, sweep, Put(proofs, runs[r].target, p), stop)
<1>1. withProof(ledger, r, p) = WithProofs(ledger, Put(ledger.proofs, ledger.runs[r].target, p))
  BY DEF withProof, WithProofs, Put
<1>. QED  BY <1>1, BookOfLedger, Setters DEF runs, proofs

\* The request, the bound group, the sealed result and the revocation are facts of
\* one run.
Requested(u) == [u EXCEPT !.requested = TRUE]
Grouped(u)   == [u EXCEPT !.bound = TRUE]
Sealed(u, v) == [u EXCEPT !.sealed = v]
Outdated(u)  == [u EXCEPT !.revoked = TRUE]
SetRequested(L, r) == [L EXCEPT !.runs[r].requested = TRUE]
SetBound(L, r)     == [L EXCEPT !.runs[r].bound = TRUE]
SetSealed(L, r, v) == [L EXCEPT !.runs[r].sealed = v]
SetRevoked(L, r)   == [L EXCEPT !.runs[r].revoked = TRUE]

\* The ledger with one fact of one run set.
LEMMA RunBook ==
  ASSUME NEW rv, NEW rs, NEW sw, NEW ps, NEW st, NEW r, NEW L,
         L = Book(rv, rs, sw, ps, st)
  PROVE  /\ SetRequested(L, r) = Book(rv, Put(rs, r, Requested(rs[r])), sw, ps, st)
         /\ SetBound(L, r) = Book(rv, Put(rs, r, Grouped(rs[r])), sw, ps, st)
         /\ SetRevoked(L, r) = Book(rv, Put(rs, r, Outdated(rs[r])), sw, ps, st)
<1>1. L.runs = rs
  BY Getters
<1>2. /\ SetRequested(L, r) = WithRuns(L, Put(rs, r, Requested(rs[r])))
      /\ SetBound(L, r) = WithRuns(L, Put(rs, r, Grouped(rs[r])))
      /\ SetRevoked(L, r) = WithRuns(L, Put(rs, r, Outdated(rs[r])))
  BY <1>1 DEF WithRuns, Put, Requested, Grouped, Outdated,
              SetRequested, SetBound, SetRevoked
<1>3. \A x : WithRuns(L, x) = Book(rv, x, sw, ps, st)
  BY Setters
<1>. QED  BY <1>2, <1>3

\* And with its sealed result.
LEMMA SealBook ==
  ASSUME NEW rv, NEW rs, NEW sw, NEW ps, NEW st, NEW r, NEW v, NEW L,
         L = Book(rv, rs, sw, ps, st)
  PROVE  SetSealed(L, r, v) = Book(rv, Put(rs, r, Sealed(rs[r], v)), sw, ps, st)
<1>1. L.runs = rs
  BY Getters
<1>2. SetSealed(L, r, v) = WithRuns(L, Put(rs, r, Sealed(rs[r], v)))
  BY <1>1 DEF WithRuns, Put, Sealed, SetSealed
<1>3. \A x : WithRuns(L, x) = Book(rv, x, sw, ps, st)
  BY Setters
<1>. QED  BY <1>2, <1>3

\* The same of the destructive effect.
LEMMA StopBook ==
  ASSUME ledger \in Ledger, NEW v, NEW ps
  PROVE  LET L == Book(review, runs, sweep, ps, stop)
             B(s) == Book(review, runs, sweep, ps, s) IN
         /\ [L EXCEPT !.stop.bound = v] = B([stop EXCEPT !.bound = v])
         /\ [L EXCEPT !.stop.stopped = v] = B([stop EXCEPT !.stopped = v])
         /\ [L EXCEPT !.stop.cleaned = v] = B([stop EXCEPT !.cleaned = v])
<1>. DEFINE L == Book(review, runs, sweep, ps, stop)
<1>1. L.stop = stop
  BY Getters
<1>2. /\ [L EXCEPT !.stop.bound = v] = WithStop(L, [stop EXCEPT !.bound = v])
      /\ [L EXCEPT !.stop.stopped = v] = WithStop(L, [stop EXCEPT !.stopped = v])
      /\ [L EXCEPT !.stop.cleaned = v] = WithStop(L, [stop EXCEPT !.cleaned = v])
  BY <1>1 DEF WithStop
<1>3. \A x : WithStop(L, x) = Book(review, runs, sweep, ps, x)
  BY Setters
<1>. QED  BY <1>2, <1>3

\* A run is over, with its result.
Over(u, res) == [u EXCEPT !.state = "completed", !.result = res]
SetOver(L, r, res, v) ==
  [L EXCEPT !.runs[r].state = "completed", !.runs[r].result = res, !.review = v]

\* The ledger with a run that is over, and another review.
LEMMA OverBook ==
  ASSUME NEW L, L \in Ledger, NEW r, NEW res, NEW v
  PROVE  SetOver(L, r, res, v)
           = WithReview(WithRuns(L, Put(L.runs, r, Over(L.runs[r], res))), v)
BY DEF SetOver, WithReview, WithRuns, Put, Over, Ledger

\* A result is committed with the review it is of.
LEMMA ConcludedBook ==
  ASSUME ledger \in Ledger, NEW r, NEW res, NEW bad
  PROVE  Concluded(r, res, bad) =
           Book([state |-> res, run |-> r, target |-> runs[r].target, invalid |-> bad],
                Put(runs, r, Over(runs[r], res)), sweep, proofs, stop)
<1>. DEFINE rv == [state |-> res, run |-> r, target |-> runs[r].target, invalid |-> bad]
            us == Put(runs, r, Over(runs[r], res))
<1>1. Concluded(r, res, bad) = SetOver(ledger, r, res, rv)
  BY DEF Concluded, SetOver, runs
<1>. HIDE DEF rv
<1>2. Concluded(r, res, bad) = WithReview(WithRuns(ledger, us), rv)
  BY <1>1, OverBook DEF runs
<1>. HIDE DEF us
<1>3. WithRuns(ledger, us) = Book(review, us, sweep, proofs, stop)
  BY BookOfLedger, Setters
<1>4. Concluded(r, res, bad) = Book(rv, us, sweep, proofs, stop)
  BY <1>2, <1>3, Setters
<1>. QED  BY <1>4 DEF rv, us

-----------------------------------------------------------------------------
(* The owner's commands that leave every run's course alone *)

\* A run keeps its state, its target, and what was asked, sealed and found of it.
SameRun(u, v) ==
  /\ u.state = v.state /\ u.target = v.target /\ u.requested = v.requested
  /\ u.sealed = v.sealed /\ u.result = v.result
  /\ v.bound => u.bound
SameStop(s) == s.state = stop.state /\ s.run = stop.run /\ s.requested = stop.requested
Typed == ledger' \in Ledger /\ Len(ledger'.runs) <= MaxRuns
Quiet ==
  /\ DOMAIN runs' = DOMAIN runs
  /\ \A x \in DOMAIN runs : SameRun(runs'[x], runs[x])
  /\ SameStop(stop') /\ sweep' = sweep /\ review'.run = review.run
  /\ Len(runs') = Len(runs)

\* What is written is what is read.
LEMMA Written ==
  ASSUME NEW rv, NEW rs, NEW sw, NEW ps, NEW st, ledger' = Book(rv, rs, sw, ps, st)
  PROVE  /\ review' = rv /\ runs' = rs /\ sweep' = sw /\ proofs' = ps /\ stop' = st
         /\ rv \in Review /\ rs \in Seq(Run) /\ sw \in BOOLEAN
            /\ ps \in [Targets -> Proof] /\ st \in Stop /\ Len(rs) <= MaxRuns => Typed
<1>1. review' = rv /\ runs' = rs /\ sweep' = sw /\ proofs' = ps /\ stop' = st
  BY DEF review, runs, sweep, proofs, stop, Book
<1>2. rv \in Review /\ rs \in Seq(Run) /\ sw \in BOOLEAN
        /\ ps \in [Targets -> Proof] /\ st \in Stop => ledger' \in Ledger
  BY DEF Ledger, Book
<1>. QED  BY <1>1, <1>2 DEF Typed, runs

\* The ledger and its parts have their types.
LEMMA LedgerTypes ==
  ASSUME TypeOK
  PROVE  /\ ledger \in Ledger /\ Len(runs) <= MaxRuns /\ Len(runs) \in Nat
         /\ review \in Review /\ runs \in Seq(Run) /\ sweep \in BOOLEAN
         /\ proofs \in [Targets -> Proof] /\ stop \in Stop
         /\ DOMAIN runs = 1..Len(runs) /\ DOMAIN runs \subseteq Runs
         /\ \A x \in DOMAIN runs : runs[x] \in Run /\ runs[x].target \in Targets
<1>1. ledger \in Ledger /\ Len(runs) <= MaxRuns
  BY DEF TypeOK, runs
<1>2. /\ review \in Review /\ runs \in Seq(Run) /\ sweep \in BOOLEAN
      /\ proofs \in [Targets -> Proof] /\ stop \in Stop
  BY <1>1, BookOfLedger
<1>3. DOMAIN runs = 1..Len(runs) /\ Len(runs) \in Nat /\ \A x \in DOMAIN runs : runs[x] \in Run
  BY <1>2
<1>4. DOMAIN runs \subseteq Runs
  BY <1>1, <1>3, ReviewerAssumption DEF Runs
<1>5. \A u \in Run : u.target \in Targets
  BY DEF Run
<1>. QED  BY <1>1, <1>2, <1>3, <1>4, <1>5

\* One run of the sequence is replaced.
LEMMA PutRun ==
  ASSUME TypeOK, NEW r \in DOMAIN runs, NEW u \in Run
  PROVE  /\ Put(runs, r, u) \in Seq(Run) /\ Len(Put(runs, r, u)) = Len(runs)
         /\ DOMAIN Put(runs, r, u) = DOMAIN runs
         /\ Put(runs, r, u)[r] = u
         /\ \A x \in DOMAIN runs : x # r => Put(runs, r, u)[x] = runs[x]
BY LedgerTypes DEF Put

\* One certificate is.
LEMMA PutProof ==
  ASSUME TypeOK, NEW t \in Targets, NEW p \in Proof
  PROVE  /\ Put(proofs, t, p) \in [Targets -> Proof]
         /\ Put(proofs, t, p)[t] = p
         /\ \A x \in Targets : x # t => Put(proofs, t, p)[x] = proofs[x]
BY LedgerTypes DEF Put

\* A command that only moves certificates is quiet.
LEMMA QuietProofs ==
  ASSUME TypeOK, NEW ps \in [Targets -> Proof], NEW st \in Stop, SameStop(st),
         ledger' = Book(review, runs, sweep, ps, st)
  PROVE  Quiet /\ Typed /\ runs' = runs /\ proofs' = ps
<1>1. \A x \in DOMAIN runs : SameRun(runs[x], runs[x])
  BY DEF SameRun
<1>. QED  BY <1>1, LedgerTypes, Written DEF Quiet

\* So is one that changes a run where it does not matter.
LEMMA QuietRun ==
  ASSUME TypeOK, NEW r \in DOMAIN runs, NEW u \in Run, SameRun(u, runs[r]),
         NEW ps \in [Targets -> Proof], NEW st \in Stop, SameStop(st),
         ledger' = Book(review, Put(runs, r, u), sweep, ps, st)
  PROVE  Quiet /\ Typed /\ runs'[r] = u /\ proofs' = ps
<1>1. \A x \in DOMAIN runs : SameRun(runs[x], runs[x])
  BY DEF SameRun
<1>2. /\ Put(runs, r, u) \in Seq(Run) /\ Len(Put(runs, r, u)) = Len(runs)
      /\ DOMAIN Put(runs, r, u) = DOMAIN runs
      /\ Put(runs, r, u)[r] = u
      /\ \A x \in DOMAIN runs : x # r => Put(runs, r, u)[x] = runs[x]
  BY PutRun
<1>3. runs' = Put(runs, r, u) /\ proofs' = ps /\ stop' = st /\ sweep' = sweep
      /\ review' = review
  BY Written
<1>4. Typed
  BY <1>2, LedgerTypes, Written
<1>. QED  BY <1>1, <1>2, <1>3, <1>4 DEF Quiet

\* So is one that changes nothing.
LEMMA QuietSame ==
  ASSUME TypeOK, UNCHANGED ledger
  PROVE  Quiet /\ Typed /\ runs' = runs /\ proofs' = proofs
BY LedgerTypes DEF Quiet, Typed, SameRun, SameStop, runs, proofs, stop, sweep,
   review

\* No certificate is one too.
LEMMA NoProofTyped == NoProof \in Proof
BY DEF NoProof, Proof

\* A certificate of a run is one.
LEMMA CertificateTyped ==
  ASSUME NEW r \in Runs, NEW never \in BOOLEAN, NEW dead \in BOOLEAN
  PROVE  Certificate(r, never, dead) \in Proof
<1>1. (~never) \in BOOLEAN
  OBVIOUS
<1>. QED  BY <1>1 DEF Certificate, Proof

\* The target's certificate is the only thing that is replaced.
Recorded(r, p) == proofs' = Put(proofs, runs[r].target, p)

\* A certificate is taken out of a launch's way.
LEMMA ForgetEffect ==
  ASSUME TypeOK, ForgetReviewerProof
  PROVE  /\ Quiet /\ Typed /\ runs' = runs
         /\ \A t \in Targets : proofs'[t] \in {proofs[t], NoProof}
<1>1. ledger' = WithProofs(ledger, Put(ledger.proofs, earliest, NoProof))
  BY DEF ForgetReviewerProof, WithProofs, Put
<1>2. ledger' = Book(review, runs, sweep, Put(proofs, earliest, NoProof), stop)
  BY <1>1, LedgerTypes, BookOfLedger, Setters DEF proofs
<1>3. /\ Put(proofs, earliest, NoProof) \in [Targets -> Proof]
      /\ \A t \in Targets : Put(proofs, earliest, NoProof)[t] \in {proofs[t], NoProof}
  BY LedgerTypes, NoProofTyped DEF Put
<1>4. Quiet /\ Typed /\ runs' = runs /\ proofs' = Put(proofs, earliest, NoProof)
  BY <1>2, <1>3, LedgerTypes, QuietProofs DEF SameStop
<1>. QED  BY <1>3, <1>4

\* A run is certified never to have had a process.
LEMMA NeverRanEffect ==
  ASSUME TypeOK, R \in DOMAIN runs, ProveNeverRan
  PROVE  /\ Quiet /\ Typed /\ runs' = runs
         /\ \/ proofs' = proofs /\ holder' = Nobody
            \/ Recorded(R, Certificate(R, TRUE, TRUE)) /\ ~runs[R].requested
<1>1. CASE UNCHANGED ledger /\ holder' = Nobody
  BY <1>1, QuietSame
<1>2. CASE ledger' = withProof(ledger, R, Certificate(R, TRUE, TRUE)) /\ neverRan(R)
  <2>1. R \in Runs /\ runs[R].target \in Targets
    BY LedgerTypes
  <2>2. ledger' = Book(review, runs, sweep,
                       Put(proofs, runs[R].target, Certificate(R, TRUE, TRUE)), stop)
    BY <1>2, LedgerTypes, ProofBook
  <2>3. Put(proofs, runs[R].target, Certificate(R, TRUE, TRUE)) \in [Targets -> Proof]
    BY <2>1, PutProof, CertificateTyped
  <2>4. Quiet /\ Typed /\ runs' = runs /\ Recorded(R, Certificate(R, TRUE, TRUE))
    BY <2>2, <2>3, LedgerTypes, QuietProofs DEF SameStop, Recorded
  <2>. QED  BY <1>2, <2>4 DEF neverRan, runs
<1>. QED  BY <1>1, <1>2 DEF ProveNeverRan, Leave

\* The reviewer's group is known, to its run or to the Stop that captured it.
LEMMA GroupBook ==
  ASSUME TypeOK, R \in DOMAIN runs, NEW ps \in [Targets -> Proof], NEW L,
         L = Book(review, runs, sweep, ps, stop), ledger' = SetBound(L, R)
  PROVE  Quiet /\ Typed /\ proofs' = ps /\ runs'[R].bound
<1>1. runs[R] \in Run /\ stop \in Stop
  BY LedgerTypes
<1>2. ledger' = Book(review, Put(runs, R, Grouped(runs[R])), sweep, ps, stop)
  BY RunBook
<1>3. Grouped(runs[R]) \in Run /\ SameRun(Grouped(runs[R]), runs[R]) /\ Grouped(runs[R]).bound
  BY <1>1 DEF Run, SameRun, Grouped
<1>. QED  BY <1>1, <1>2, <1>3, QuietRun DEF SameStop

\* A Stop is told the group of the run it captured.
LEMMA StopGroupBook ==
  ASSUME TypeOK, NEW ps \in [Targets -> Proof], NEW L,
         L = Book(review, runs, sweep, ps, stop), ledger' = [L EXCEPT !.stop.bound = TRUE]
  PROVE  Quiet /\ Typed /\ proofs' = ps
<1>1. stop \in Stop /\ ledger \in Ledger
  BY LedgerTypes
<1>2. ledger' = Book(review, runs, sweep, ps, [stop EXCEPT !.bound = TRUE])
  BY <1>1, StopBook
<1>3. /\ [stop EXCEPT !.bound = TRUE] \in Stop
      /\ SameStop([stop EXCEPT !.bound = TRUE])
  BY <1>1 DEF Stop, SameStop
<1>. QED  BY <1>2, <1>3, QuietProofs

\* A gated child is bound to its run.
LEMMA BoundEffect ==
  ASSUME TypeOK, R \in DOMAIN runs, MarkPlanReviewRunning
  PROVE  /\ Quiet /\ Typed
         /\ proofs' = proofs \/ Recorded(R, Certificate(R, FALSE, FALSE))
         /\ holder' = Nobody \/ (To("release") /\ runs'[R].bound)
<1>0. R \in Runs /\ runs[R].target \in Targets /\ runs[R] \in Run
  BY LedgerTypes
<1>1. CASE /\ UNCHANGED ledger
           /\ holder' = Nobody \/ (To("release") /\ ledger.runs[R].bound)
  BY <1>1, QuietSame DEF runs
<1>2. CASE ledger' = Bound(R) /\ To("release")
  <2>1. PICK L : /\ L = withProof(ledger, R, Certificate(R, FALSE, FALSE))
                 /\ ledger' = SetBound(L, R)
    BY <1>2 DEF Bound, SetBound
  <2>. DEFINE ps == Put(proofs, runs[R].target, Certificate(R, FALSE, FALSE))
  <2>2. L = Book(review, runs, sweep, ps, stop) /\ ps \in [Targets -> Proof]
    BY <1>0, <2>1, LedgerTypes, ProofBook, PutProof, CertificateTyped
  <2>. HIDE DEF ps
  <2>3. Quiet /\ Typed /\ proofs' = ps /\ runs'[R].bound
    BY <2>1, <2>2, GroupBook
  <2>. QED  BY <1>2, <2>3 DEF ps, Recorded
<1>3. \/ To("release") /\ ledger.runs[R].bound /\ UNCHANGED ledger
      \/ To("release") /\ ledger' = Bound(R)
      \/ holder' = Nobody /\ UNCHANGED ledger
  BY DEF MarkPlanReviewRunning, Leave
<1>. QED  BY <1>1, <1>2, <1>3

\* An unknown child is bound before it is signalled.
LEMMA HeldEffect ==
  ASSUME TypeOK, R \in DOMAIN runs, BindReviewerStopping
  PROVE  /\ Quiet /\ Typed
         /\ proofs' = proofs \/ Recorded(R, Certificate(R, FALSE, FALSE))
<1>0. R \in Runs /\ runs[R].target \in Targets /\ proofs \in [Targets -> Proof]
      /\ ledger \in Ledger
  BY LedgerTypes
<1>1. CASE UNCHANGED ledger
  BY <1>1, QuietSame
<1>2. CASE ledger' = Held
  <2>. DEFINE ps == Put(proofs, runs[R].target, Certificate(R, FALSE, FALSE))
  <2>1. CASE proofOf(ledger, R).run = R
    <3>1. \/ ledger' = [ledger EXCEPT !.stop.bound = TRUE]
          \/ ledger' = SetBound(ledger, R)
      BY <1>2, <2>1 DEF Held, SetBound
    <3>. QED  BY <1>0, <3>1, BookOfLedger, GroupBook, StopGroupBook
  <2>2. CASE proofOf(ledger, R).run # R
    <3>1. PICK L : /\ L = withProof(ledger, R, Certificate(R, FALSE, FALSE))
                   /\ \/ ledger' = [L EXCEPT !.stop.bound = TRUE]
                      \/ ledger' = SetBound(L, R)
      BY <1>2, <2>2 DEF Held, SetBound
    <3>2. ps \in [Targets -> Proof] /\ L = Book(review, runs, sweep, ps, stop)
      BY <1>0, <3>1, PutProof, CertificateTyped, ProofBook
    <3>. HIDE DEF ps
    <3>3. Quiet /\ Typed /\ proofs' = ps
      BY <3>1, <3>2, GroupBook, StopGroupBook
    <3>. QED  BY <3>3 DEF ps, Recorded
  <2>. QED  BY <2>1, <2>2
<1>. QED  BY <1>1, <1>2 DEF BindReviewerStopping

\* The end of a child is recorded, for a supersession or for a Stop.
LEMMA ProvedEffect ==
  ASSUME TypeOK, R \in DOMAIN runs, ProveReviewerDead \/ MarkReviewerStopped
  PROVE  /\ Quiet /\ Typed
         /\ \/ proofs' = proofs
            \/ Recorded(R, Certificate(R, holder.never, TRUE)) /\ provable
<1>0. R \in Runs /\ runs[R].target \in Targets /\ ledger \in Ledger /\ stop \in Stop
  BY LedgerTypes
<1>. DEFINE ps == Put(proofs, runs[R].target, Certificate(R, holder.never, TRUE))
<1>1. ps \in [Targets -> Proof] /\ Proved = Book(review, runs, sweep, ps, stop)
  BY <1>0, PutProof, CertificateTyped, ProofBook DEF Proved, TypeOK, Holder
<1>. HIDE DEF ps
<1>2. CASE UNCHANGED ledger
  BY <1>2, QuietSame
<1>3. CASE provable /\ ledger' = Proved
  <2>1. Quiet /\ Typed /\ proofs' = ps
    BY <1>0, <1>1, <1>3, QuietProofs DEF SameStop
  <2>. QED  BY <1>3, <2>1 DEF ps, Recorded
<1>4. CASE provable /\ ledger' = [Proved EXCEPT !.stop.stopped = TRUE]
  <2>1. ledger' = Book(review, runs, sweep, ps, [stop EXCEPT !.stopped = TRUE])
    BY <1>0, <1>1, <1>4, StopBook
  <2>2. /\ [stop EXCEPT !.stopped = TRUE] \in Stop
        /\ SameStop([stop EXCEPT !.stopped = TRUE])
    BY <1>0 DEF Stop, SameStop
  <2>3. Quiet /\ Typed /\ proofs' = ps
    BY <1>1, <2>1, <2>2, QuietProofs
  <2>. QED  BY <1>4, <2>3 DEF ps, Recorded
<1>. QED  BY <1>2, <1>3, <1>4 DEF ProveReviewerDead, MarkReviewerStopped

\* The reviewer's files are noted as gone.
LEMMA CleanedEffect ==
  ASSUME TypeOK, MarkReviewerResourcesCleaned
  PROVE  Quiet /\ Typed /\ runs' = runs /\ proofs' = proofs
<1>0. ledger \in Ledger /\ stop \in Stop /\ proofs \in [Targets -> Proof]
  BY LedgerTypes
<1>1. PICK v \in BOOLEAN : ledger' = [ledger EXCEPT !.stop.cleaned = v]
  BY DEF MarkReviewerResourcesCleaned
<1>2. ledger' = Book(review, runs, sweep, proofs, [stop EXCEPT !.cleaned = v])
  BY <1>0, <1>1, BookOfLedger, StopBook
<1>3. /\ [stop EXCEPT !.cleaned = v] \in Stop
      /\ SameStop([stop EXCEPT !.cleaned = v])
  BY <1>0 DEF Stop, SameStop
<1>. QED  BY <1>0, <1>2, <1>3, QuietProofs

\* A plan's review of another body is revoked.
LEMMA RevokeEffect ==
  ASSUME TypeOK, NEW r \in Runs, Revoke(r)
  PROVE  Quiet /\ Typed /\ proofs' = proofs
<1>0. /\ r \in DOMAIN runs /\ runs[r] \in Run /\ ledger \in Ledger
      /\ stop \in Stop /\ proofs \in [Targets -> Proof]
  BY LedgerTypes DEF Revoke, pending, known, runs
<1>. DEFINE u == Outdated(runs[r])
<1>1. ledger' = SetRevoked(ledger, r)
  BY DEF Revoke, SetRevoked
<1>2. ledger' = Book(review, Put(runs, r, u), sweep, proofs, stop)
  BY <1>0, <1>1, BookOfLedger, RunBook
<1>3. u \in Run /\ SameRun(u, runs[r])
  BY <1>0 DEF Run, SameRun, Grouped, Outdated
<1>. HIDE DEF u
<1>. QED  BY <1>0, <1>2, <1>3, QuietRun DEF SameStop

-----------------------------------------------------------------------------
(* The commands that move a run, the sweep or the destructive effect *)

\* One run is replaced by v.
Rewrites(r, v) ==
  /\ DOMAIN runs' = DOMAIN runs /\ Len(runs') = Len(runs) /\ runs'[r] = v
  /\ \A x \in DOMAIN runs : x # r => runs'[x] = runs[x]

\* The ledger with one run replaced.
LEMMA RewriteBook ==
  ASSUME TypeOK, NEW r \in DOMAIN runs, NEW u \in Run, NEW rv \in Review,
         NEW sw \in BOOLEAN, NEW ps \in [Targets -> Proof], NEW st \in Stop,
         ledger' = Book(rv, Put(runs, r, u), sw, ps, st)
  PROVE  /\ Typed /\ Rewrites(r, u)
         /\ review' = rv /\ sweep' = sw /\ proofs' = ps /\ stop' = st
<1>1. /\ Put(runs, r, u) \in Seq(Run) /\ Len(Put(runs, r, u)) = Len(runs)
      /\ DOMAIN Put(runs, r, u) = DOMAIN runs
      /\ Put(runs, r, u)[r] = u
      /\ \A x \in DOMAIN runs : x # r => Put(runs, r, u)[x] = runs[x]
  BY PutRun
<1>2. /\ runs' = Put(runs, r, u)
      /\ review' = rv /\ sweep' = sw /\ proofs' = ps /\ stop' = st
  BY Written
<1>3. Typed
  BY <1>1, LedgerTypes, Written
<1>. QED  BY <1>1, <1>2, <1>3 DEF Rewrites

\* A run is admitted behind all others.
LEMMA AdmitEffect ==
  ASSUME TypeOK, BeginRun
  PROVE  /\ Typed /\ UNCHANGED <<review, sweep, proofs, stop>>
         /\ Len(runs') = Len(runs) + 1
         /\ \A x \in DOMAIN runs : x \in DOMAIN runs' /\ runs'[x] = runs[x]
         /\ runs'[Len(runs) + 1] = Admitted
         /\ DOMAIN runs' = DOMAIN runs \cup {Len(runs) + 1}
<1>1. ledger' = WithRuns(ledger, Append(ledger.runs, Admitted)) /\ Len(ledger.runs) < MaxRuns
  BY DEF BeginRun, WithRuns
<1>2. ledger' = Book(review, Append(runs, Admitted), sweep, proofs, stop)
  BY <1>1, LedgerTypes, BookOfLedger, Setters DEF runs
<1>3. Admitted \in Run
  BY DEF Admitted, Run, Results, TypeOK
<1>4. /\ Append(runs, Admitted) \in Seq(Run)
      /\ Len(Append(runs, Admitted)) = Len(runs) + 1
      /\ DOMAIN Append(runs, Admitted) = 1..Len(runs) + 1
      /\ Append(runs, Admitted)[Len(runs) + 1] = Admitted
      /\ \A x \in 1..Len(runs) : Append(runs, Admitted)[x] = runs[x]
  BY <1>3, LedgerTypes
<1>5. /\ runs' = Append(runs, Admitted)
      /\ review' = review /\ sweep' = sweep /\ proofs' = proofs /\ stop' = stop
  BY <1>2, Written
<1>6. Len(Append(runs, Admitted)) <= MaxRuns
  BY <1>1, <1>4, LedgerTypes, ReviewerAssumption DEF runs
<1>7. Typed
  BY <1>2, <1>4, <1>6, LedgerTypes, Written
<1>. QED  BY <1>4, <1>5, <1>7, LedgerTypes

\* Its session is asked for.
LEMMA RequestEffect ==
  ASSUME TypeOK, R \in DOMAIN runs, MarkReviewerSessionRequested
  PROVE  /\ Typed /\ UNCHANGED <<review, sweep, proofs, stop>>
         /\ Rewrites(R, Requested(runs[R])) /\ runs[R].state = "pending"
<1>1. ledger' = SetRequested(ledger, R) /\ runs[R].state = "pending"
  BY DEF MarkReviewerSessionRequested, SetRequested, current, pending, runs
<1>2. ledger' = Book(review, Put(runs, R, Requested(runs[R])), sweep, proofs, stop)
  BY <1>1, LedgerTypes, BookOfLedger, RunBook
<1>3. Requested(runs[R]) \in Run
  BY LedgerTypes DEF Run, Requested
<1>. QED  BY <1>1, <1>2, <1>3, LedgerTypes, RewriteBook

\* The result of a run whose session has ended is sealed with its certificate.
LEMMA SealEffect ==
  ASSUME TypeOK, R \in DOMAIN runs, SealReviewerResult
  PROVE  /\ Typed /\ UNCHANGED <<review, sweep, stop>>
         /\ Rewrites(R, Sealed(runs[R], world[R].exit))
         /\ Recorded(R, Certificate(R, FALSE, TRUE))
<1>0. R \in Runs /\ runs[R].target \in Targets /\ world[R].exit \in Results /\ runs[R] \in Run
  BY LedgerTypes DEF TypeOK, World
<1>1. PICK L : /\ L = withProof(ledger, R, Certificate(R, FALSE, TRUE))
               /\ ledger' = SetSealed(L, R, world[R].exit)
  BY DEF SealReviewerResult, SetSealed, verdict
<1>. DEFINE ps == Put(proofs, runs[R].target, Certificate(R, FALSE, TRUE))
<1>2. L = Book(review, runs, sweep, ps, stop) /\ ps \in [Targets -> Proof]
  BY <1>0, <1>1, LedgerTypes, ProofBook, PutProof, CertificateTyped
<1>. HIDE DEF ps
<1>. DEFINE u == Sealed(runs[R], world[R].exit)
<1>6. ledger' = SetSealed(L, R, world[R].exit)
  BY <1>1
<1>3. ledger' = Book(review, Put(runs, R, u), sweep, ps, stop)
  BY <1>6, <1>2, SealBook
<1>4. u \in Run
  BY <1>0 DEF Run, Sealed
<1>. HIDE DEF u
<1>5. /\ Typed /\ UNCHANGED <<review, sweep, stop>>
      /\ Rewrites(R, u) /\ proofs' = ps
  BY <1>2, <1>3, <1>4, LedgerTypes, RewriteBook
<1>. QED  BY <1>5 DEF u, ps, Recorded


\* A result is committed with its review, whoever commits it.
LEMMA ConcludedEffect ==
  ASSUME TypeOK, NEW r \in DOMAIN runs, NEW res \in Results, NEW bad \in BOOLEAN,
         ledger' = Concluded(r, res, bad)
  PROVE  /\ Typed /\ UNCHANGED <<sweep, proofs, stop>>
         /\ Rewrites(r, Over(runs[r], res)) /\ review'.run = r
<1>0. r \in Runs /\ runs[r].target \in Targets /\ runs[r] \in Run
  BY LedgerTypes
<1>. DEFINE rv == [state |-> res, run |-> r, target |-> runs[r].target, invalid |-> bad]
<1>1. rv \in Review /\ rv.run = r
  BY <1>0 DEF Review
<1>2. Over(runs[r], res) \in Run
  BY <1>0 DEF Run, Over
<1>3. ledger' = Book(rv, Put(runs, r, Over(runs[r], res)), sweep, proofs, stop)
  BY LedgerTypes, ConcludedBook DEF Over
<1>. HIDE DEF rv
<1>. QED  BY <1>1, <1>2, <1>3, LedgerTypes, RewriteBook

\* A sweep is planned, and done.
LEMMA PlanSweepEffect ==
  ASSUME TypeOK, PlanSweep
  PROVE  Typed /\ sweep' /\ UNCHANGED <<review, runs, proofs, stop>>
<1>0. PICK v \in BOOLEAN : v = TRUE /\ ledger' = WithSweep(ledger, v)
  BY DEF PlanSweep, WithSweep
<1>1. ledger' = WithSweep(ledger, v)
  BY <1>0
<1>2. ledger' = Book(review, runs, v, proofs, stop)
  BY <1>1, LedgerTypes, BookOfLedger, Setters
<1>3. Typed /\ sweep' = v /\ UNCHANGED <<review, runs, proofs, stop>>
  BY <1>2, LedgerTypes, Written
<1>. QED  BY <1>0, <1>3

\* The files of the review are gone, and its certificate with them.
LEMMA FinishSweepEffect ==
  ASSUME TypeOK, R \in DOMAIN runs, FinishSweep
  PROVE  /\ Typed /\ ~sweep' /\ review'.run = 0 /\ UNCHANGED <<runs, stop>>
         /\ Recorded(R, NoProof)
<1>0. runs[R].target \in Targets /\ review \in Review
  BY LedgerTypes
<1>. DEFINE ps == Put(proofs, runs[R].target, NoProof)
            rv == [review EXCEPT !.run = 0]
<1>1. PICK L : L = withProof(ledger, R, NoProof)
               /\ ledger' = [L EXCEPT !.sweep = FALSE, !.review.run = 0]
  BY DEF FinishSweep
<1>2. L = Book(review, runs, sweep, ps, stop) /\ ps \in [Targets -> Proof]
  BY <1>0, <1>1, LedgerTypes, ProofBook, PutProof, NoProofTyped
<1>3. L.review = review
  BY <1>2, Getters
<1>4. PICK v \in BOOLEAN :
        ~v /\ ledger' = WithReview(WithSweep(L, v), [L.review EXCEPT !.run = 0])
  BY <1>1, <1>2 DEF WithReview, WithSweep, Book
<1>. HIDE DEF ps
<1>5. WithSweep(L, v) = Book(review, runs, v, ps, stop)
  BY <1>2, Setters
<1>6. ledger' = Book(rv, runs, v, ps, stop)
  BY <1>3, <1>4, <1>5, Setters
<1>7. rv \in Review /\ rv.run = 0
  BY <1>0 DEF Review
<1>. HIDE DEF rv
<1>. QED  BY <1>2, <1>4, <1>6, <1>7, LedgerTypes, Written DEF ps, Recorded

\* Nothing is left to be certified once the destructive effect is complete.
LEMMA FinishStopEffect ==
  ASSUME TypeOK, FinishStop
  PROVE  \/ UNCHANGED ledger
         \/ /\ Typed /\ UNCHANGED <<runs, sweep>> /\ review'.run = 0
            /\ stop'.state = "completed"
            /\ stop'.run = stop.run /\ stop'.requested = stop.requested
            /\ \A t \in Targets : proofs'[t] = NoProof
            /\ ~cleanupBlocked
<1>0. review \in Review /\ stop \in Stop
  BY LedgerTypes
<1>. DEFINE ps == [t \in Targets |-> NoProof]
            rv == [review EXCEPT !.run = 0]
            st == [stop EXCEPT !.state = "completed"]
<1>1. CASE ~cleanupBlocked /\ ledger' = [ledger EXCEPT !.stop.state = "completed",
                 !.review.run = 0, !.proofs = ps]
  <2>1. ledger' = WithProofs(WithReview(WithStop(ledger,
                     [ledger.stop EXCEPT !.state = "completed"]),
                     [ledger.review EXCEPT !.run = 0]), ps)
    BY <1>1, LedgerTypes DEF WithProofs, WithReview, WithStop, Ledger
  <2>2. WithStop(ledger, st) = Book(review, runs, sweep, proofs, st)
    BY LedgerTypes, BookOfLedger, Setters
  <2>3. WithReview(WithStop(ledger, st), rv) = Book(rv, runs, sweep, proofs, st)
    BY <2>2, Setters
  <2>4. ledger' = Book(rv, runs, sweep, ps, st)
    BY <2>1, <2>3, Setters DEF stop, review
  <2>5. ps \in [Targets -> Proof] /\ \A t \in Targets : ps[t] = NoProof
    BY NoProofTyped
  <2>6. rv \in Review /\ rv.run = 0 /\ st \in Stop /\ st.state = "completed"
        /\ st.run = stop.run /\ st.requested = stop.requested
    BY <1>0 DEF Review, Stop
  <2>. HIDE DEF ps, rv, st
  <2>. QED  BY <1>1, <2>4, <2>5, <2>6, LedgerTypes, Written
<1>. QED  BY <1>1 DEF FinishStop

\* The operator ends the attempt: a pending run is dropped, and certified if no
\* process of it can exist.
Dropped(u) == [u EXCEPT !.state = "dropped"]
Drops(r) ==
  /\ r \in DOMAIN runs /\ runs[r].state = "pending"
  /\ Rewrites(r, Dropped(runs[r])) /\ review' = review
  /\ stop'.run = r /\ stop'.requested = runs[r].requested
  /\ \/ proofs' = proofs
     \/ \E p \in Proof : /\ Recorded(r, p) /\ p.run = r /\ ~p.bound
                         /\ p.never => ~runs[r].requested

\* What a closed attempt's run leaves.
LEMMA RetainedBook ==
  ASSUME TypeOK, NEW r \in DOMAIN runs
  PROVE  \E ps \in [Targets -> Proof] :
           /\ retained(r) = Book(review, runs, sweep, ps, stop)
           /\ \/ ps = proofs
              \/ \E p \in Proof : /\ ps = Put(proofs, runs[r].target, p)
                                  /\ p.run = r /\ ~p.bound
                                  /\ p.never => ~runs[r].requested
<1>0. r \in Runs /\ runs[r].target \in Targets /\ runs[r] \in Run
      /\ proofs \in [Targets -> Proof] /\ ledger \in Ledger
  BY LedgerTypes
<1>. DEFINE q == [run |-> r, bound |-> FALSE, dead |-> ~ledger.runs[r].requested,
                  never |-> ~ledger.runs[r].requested]
<1>1. CASE retained(r) = ledger
  BY <1>0, <1>1, BookOfLedger
<1>2. CASE retained(r) = withProof(ledger, r, q)
  <2>1. (~ledger.runs[r].requested) \in BOOLEAN
    OBVIOUS
  <2>2. q \in Proof /\ q.run = r /\ ~q.bound /\ (q.never => ~runs[r].requested)
    BY <1>0, <2>1 DEF Proof, runs
  <2>. HIDE DEF q
  <2>3. /\ Put(proofs, runs[r].target, q) \in [Targets -> Proof]
        /\ withProof(ledger, r, q) =
             Book(review, runs, sweep, Put(proofs, runs[r].target, q), stop)
    BY <1>0, <2>2, PutProof, ProofBook
  <2>. QED  BY <1>2, <2>2, <2>3
<1>. QED  BY <1>1, <1>2 DEF retained

\* What the new effect captures.
LEMMA SupersedingTyped ==
  ASSUME TypeOK, NEW r \in DOMAIN runs
  PROVE  LET s == Superseding(r) IN
           s \in Stop /\ s.state = "pending" /\ s.run = r /\ s.requested = runs[r].requested
<1>0. r \in Runs /\ runs[r] \in Run
  BY LedgerTypes
<1>1. runs[r].bound \in BOOLEAN /\ runs[r].requested \in BOOLEAN
  BY <1>0 DEF Run
<1>. QED  BY <1>0, <1>1 DEF Superseding, NoStop, Stop, runs

\* Stop, Cancel and Dismiss drop the pending run, if there is one.
LEMMA DestroyEffect ==
  ASSUME TypeOK, Destroy
  PROVE  /\ Typed /\ ~sweep' /\ stop.state = "none" /\ stop'.state = "pending"
         /\ \/ /\ UNCHANGED <<review, runs, proofs>>
               /\ stop'.run = stop.run /\ stop'.requested = stop.requested
               /\ \A r \in DOMAIN runs : runs[r].state # "pending"
            \/ \E r \in DOMAIN runs : Drops(r)
<1>0. stop \in Stop /\ ledger \in Ledger /\ stop.state = "none"
  BY LedgerTypes DEF Destroy, stop
<1>1. CASE /\ \A r \in DOMAIN runs : runs[r].state # "pending"
           /\ ledger' = [ledger EXCEPT !.sweep = FALSE, !.stop.state = "pending"]
  <2>. DEFINE st == [stop EXCEPT !.state = "pending"]
  <2>1. PICK v \in BOOLEAN : v = FALSE /\ ledger' = WithStop(WithSweep(ledger, v), st)
    BY <1>0, <1>1 DEF WithStop, WithSweep, Ledger, stop
  <2>2. ledger' = WithStop(WithSweep(ledger, v), st)
    BY <2>1
  <2>3. st \in Stop /\ st.state = "pending" /\ st.run = stop.run
        /\ st.requested = stop.requested
    BY <1>0 DEF Stop
  <2>. HIDE DEF st
  <2>4. WithSweep(ledger, v) = Book(review, runs, v, proofs, stop)
    BY <1>0, BookOfLedger, Setters
  <2>5. ledger' = Book(review, runs, v, proofs, st)
    BY <2>2, <2>4, Setters
  <2>6. Typed /\ sweep' = v /\ UNCHANGED <<review, runs, proofs>> /\ stop' = st
    BY <2>3, <2>5, LedgerTypes, Written
  <2>. QED  BY <1>0, <1>1, <2>1, <2>3, <2>6
<1>2. ASSUME NEW r \in DOMAIN runs, runs[r].state = "pending",
             ledger' = [retained(r) EXCEPT !.runs[r].state = "dropped", !.sweep = FALSE,
                                           !.stop = Superseding(r)]
      PROVE  Typed /\ ~sweep' /\ stop'.state = "pending" /\ Drops(r)
  <2>1. PICK ps \in [Targets -> Proof] :
           /\ retained(r) = Book(review, runs, sweep, ps, stop)
           /\ \/ ps = proofs
              \/ \E p \in Proof : /\ ps = Put(proofs, runs[r].target, p)
                                  /\ p.run = r /\ ~p.bound
                                  /\ p.never => ~runs[r].requested
    BY RetainedBook
  <2>2. PICK L : L = retained(r)
    OBVIOUS
  <2>3. L = Book(review, runs, sweep, ps, stop)
    BY <2>1, <2>2
  <2>4. L.runs = runs
    BY <2>3, Getters
  <2>5. PICK v \in BOOLEAN : v = FALSE /\ ledger' =
          WithStop(WithSweep(WithRuns(L, Put(runs, r, Dropped(runs[r]))), v), Superseding(r))
    BY <1>2, <2>2, <2>4 DEF WithStop, WithSweep, WithRuns, Put, Dropped
  <2>6. ledger' =
          WithStop(WithSweep(WithRuns(L, Put(runs, r, Dropped(runs[r]))), v), Superseding(r))
    BY <2>5
  <2>7. ledger' = Book(review, Put(runs, r, Dropped(runs[r])), v, ps, Superseding(r))
    BY <2>3, <2>6, Setters
  <2>8. Dropped(runs[r]) \in Run
    BY LedgerTypes DEF Run, Dropped
  <2>9. LET s == Superseding(r) IN
          s \in Stop /\ s.state = "pending" /\ s.run = r /\ s.requested = runs[r].requested
    BY SupersedingTyped
  <2>10. /\ Typed /\ Rewrites(r, Dropped(runs[r])) /\ review' = review
         /\ sweep' = v /\ proofs' = ps /\ stop' = Superseding(r)
    BY <2>7, <2>8, <2>9, LedgerTypes, RewriteBook
  <2>. QED  BY <1>2, <2>1, <2>5, <2>9, <2>10 DEF Drops, Recorded
<1>. QED  BY <1>0, <1>1, <1>2 DEF Destroy, pending, known, runs

-----------------------------------------------------------------------------
(* Types *)

\* The moves of the key.
LEMMA HolderTo ==
  ASSUME TypeOK, NEW p \in Points, To(p)
  PROVE  /\ holder' \in Holder /\ holder'.at = p /\ holder'.job = holder.job
         /\ holder'.run = holder.run /\ holder'.never = holder.never
         /\ holder'.result = holder.result
BY DEF To, TypeOK, Holder

\* A job takes the free key.
LEMMA HolderBegin ==
  ASSUME NEW job \in Jobs, NEW r \in {0} \cup Runs, NEW p \in Points, Begin(job, r, p)
  PROVE  /\ holder = Nobody /\ holder' \in Holder
         /\ holder'.job = job /\ holder'.run = r /\ holder'.at = p
         /\ holder'.result = "none" /\ ~holder'.never
BY DEF Begin, Nobody, Holder, Results

\* The free key is a holder.
LEMMA NobodyTyped == Nobody \in Holder
BY DEF Nobody, Holder, Jobs, Points, Results

\* A finished job's result is a verdict.
LEMMA HolderTyped ==
  ASSUME ReviewerInv, Next
  PROVE  holder' \in Holder
<1>a. /\ TypeOK /\ holder \in Holder
      /\ \A p \in Points : To(p) => holder' \in Holder
      /\ \A job \in Jobs, r \in {0} \cup Runs, p \in Points :
           Begin(job, r, p) => holder' \in Holder
      /\ Leave => holder' \in Holder
      /\ UNCHANGED holder => holder' \in Holder
  <2>1. TypeOK /\ holder \in Holder
    BY DEF ReviewerInv, TypeOK
  <2>. QED  BY <2>1, HolderTo, HolderBegin, NobodyTyped DEF Leave
<1>1. /\ \A p \in {"clear", "certify", "request", "create", "never", "release", "finish",
                   "hold", "kill", "prove", "commit", "clean", "settle"} : p \in Points
      /\ {"launch", "replay", "sweep", "supersede", "stop"} \subseteq Jobs
      /\ {"never", "bind", "seal", "probe", "commit", "clean", "clear"} \subseteq Points
  BY DEF Points, Jobs
<1>2. CASE LaunchStep
  <2>1. CASE Prepare
    BY <2>1, <1>a, <1>1 DEF Prepare, Holder, Points, Results, Verdicts
  <2>. QED  BY <1>2, <2>1, <1>a, <1>1 DEF LaunchStep, Clear, ForgetReviewerProof,
            MarkReviewerSessionRequested, CreateSession
<1>3. CASE ReplayStep
  <2>1. CASE ProveNeverRan
    <3>1. "mark" \in Points /\ "failed" \in Results
      BY DEF Points, Results, Verdicts
    <3>. QED  BY <2>1, <3>1, <1>a DEF ProveNeverRan, Holder
  <2>2. CASE SealReviewerResult
    <3>1. R \in Runs
      BY <1>a, <2>2, LedgerTypes DEF SealReviewerResult, current, pending, known,
         runs
    <3>2. world[R].exit \in Results
      BY <1>a, <3>1 DEF TypeOK, World
    <3>. QED  BY <2>2, <1>a, <3>2 DEF SealReviewerResult, Holder, Points, verdict
  <2>. QED  BY <1>3, <2>1, <2>2, <1>a, <1>1 DEF ReplayStep, MarkPlanReviewRunning,
            ReleaseReviewer, WriteMarker, FinishReconciliationEffect
<1>4. CASE EndStep
  <2>1. CASE StopReviewerSession
    BY <2>1, <1>a, <1>1 DEF StopReviewerSession, Holder, Points
  <2>. QED  BY <1>4, <2>1, <1>a, <1>1 DEF EndStep, BindReviewerStopping,
       KillReviewer,
            ProveReviewerDead, MarkReviewerStopped, SupersedePlanReview,
            CleanReviewResources, FinishSweep, CleanAttemptResources,
            MarkReviewerResourcesCleaned, FinishStop
<1>5. CASE BeginRun \/ PlanSweep \/ BeginSweep \/ Destroy \/ BeginStop
  <2>1. Len(runs) \in Nat /\ Len(runs) <= MaxRuns
        /\ review.run \in {0} \cup Runs /\ stop.run \in {0} \cup Runs
    BY <1>a, LedgerTypes DEF Review, Stop
  <2>2. BeginRun => Len(runs) + 1 \in Runs
    BY <2>1, ReviewerAssumption DEF BeginRun, Runs, runs
  <2>. QED  BY <1>5, <1>a, <1>1, <2>1, <2>2 DEF BeginRun, PlanSweep, BeginSweep,
       Destroy,
            BeginStop, stopPoint, runs, review, stop
<1>6. CASE GiveUp \/ Retarget \/ Crash \/ Gone
  BY <1>6, <1>a DEF GiveUp, Retarget, Crash, Gone, vars, Leave
<1>7. ASSUME NEW r \in Runs, Observe(r) \/ VerifyMarker(r) \/ BeginSupersede(r)
                             \/ Machine(r) \/ LoseSession(r) \/ Revoke(r)
      PROVE  holder' \in Holder
  BY <1>7, <1>a, <1>1 DEF Observe, VerifyMarker, BeginSupersede, Machine,
     LoseSession,
     Revoke, CreatePane, StartChild, RecordLaunch, ChildExit, Reap, moved, machine
<1>. QED  BY <1>2, <1>3, <1>4, <1>5, <1>6, <1>7 DEF Next, JobStep

-----------------------------------------------------------------------------
(* What each step does to the machine *)

\* Only run r is touched, and it has these now; its records and its marker may have
\* changed, too.
Touches(r) == world' \in [Runs -> World] /\ \A x \in Runs : x # r => world'[x] = world[x]
Looks(r, pane, child, exit) ==
  /\ Touches(r) /\ world'[r].pane = pane /\ world'[r].child = child
  /\ world'[r].exit = exit /\ (world'[r].snap <=> world[r].snap)
  /\ world'[r].dead => world[r].dead \/ child = "dead"
Same(r) == Looks(r, world[r].pane, world[r].child, world[r].exit)

\* One run's part of the machine is replaced.
LEMMA LooksBy ==
  ASSUME TypeOK, NEW r \in Runs, NEW w \in World, world' = [world EXCEPT ![r] = w]
  PROVE  Touches(r) /\ world'[r] = w
BY DEF TypeOK, Touches

\* A snapshot is built; or it is not, and the run has failed.
LEMMA PrepareLooks ==
  ASSUME TypeOK, R \in Runs, Prepare
  PROVE  \/ UNCHANGED world /\ holder' = [holder EXCEPT !.at = "never", !.result = "failed"]
         \/ /\ To("request") /\ Touches(R) /\ world'[R].pane = W.pane
            /\ world'[R].child = W.child /\ world'[R].exit = W.exit /\ world'[R].snap
            /\ world'[R].dead => W.dead
<1>1. CASE world' = [world EXCEPT ![R].snap = TRUE] /\ To("request")
  <2>. DEFINE w == [world[R] EXCEPT !.snap = TRUE]
  <2>1. w \in World /\ w.pane = W.pane /\ w.child = W.child /\ w.exit = W.exit /\ w.snap
        /\ (w.dead => W.dead)
    BY DEF TypeOK, World, W
  <2>2. world' = [world EXCEPT ![R] = w]
    BY <1>1
  <2>. HIDE DEF w
  <2>3. Touches(R) /\ world'[R] = w
    BY <2>1, <2>2, LooksBy
  <2>. QED  BY <1>1, <2>1, <2>3
<1>. QED  BY <1>1 DEF Prepare

\* The session is asked for.
LEMMA CreateLooks ==
  ASSUME TypeOK, R \in Runs, CreateSession
  PROVE  Looks(R, "asked", W.child, W.exit)
<1>. DEFINE w == [world[R] EXCEPT !.pane = "asked"]
<1>1. w \in World /\ w.pane = "asked" /\ w.child = W.child /\ w.exit = W.exit
      /\ (w.snap <=> W.snap)
      /\ (w.dead => W.dead \/ w.child = "dead")
  BY DEF TypeOK, World, W
<1>2. world' = [world EXCEPT ![R] = w]
  BY DEF CreateSession
<1>. HIDE DEF w
<1>. QED  BY <1>1, <1>2, LooksBy DEF Looks, W

\* The gate is opened, for a child that waits at it.
LEMMA ReleaseLooks ==
  ASSUME TypeOK, R \in Runs, ReleaseReviewer
  PROVE  \/ Same(R)
         \/ W.pane = "live" /\ W.child = "gated" /\ Looks(R, W.pane, "working", W.exit)
<1>. DEFINE child == IF W.pane = "live" /\ W.child = "gated" THEN "working" ELSE W.child
            w == [world[R] EXCEPT !.child = child]
<1>1. w \in World /\ w.pane = W.pane /\ w.child = child /\ w.exit = W.exit
      /\ (w.snap <=> W.snap)
      /\ (w.dead => W.dead \/ w.child = "dead")
  BY DEF TypeOK, World, W
<1>2. world' = [world EXCEPT ![R] = w]
  BY DEF ReleaseReviewer, W
<1>. HIDE DEF w
<1>3. Looks(R, W.pane, child, W.exit)
  BY <1>1, <1>2, LooksBy DEF Looks, W
<1>. QED  BY <1>3 DEF Same, W

\* A marker is written or taken away, a launch is recorded.
LEMMA MarkerLooks ==
  ASSUME TypeOK, NEW r \in Runs, NEW v \in Results, world' = [world EXCEPT ![r].marker = v]
  PROVE  Same(r)
<1>. DEFINE w == [world[r] EXCEPT !.marker = v]
<1>1. w \in World /\ w.pane = world[r].pane /\ w.child = world[r].child
      /\ w.exit = world[r].exit /\ (w.snap <=> world[r].snap)
      /\ (w.dead => world[r].dead \/ w.child = "dead")
  BY DEF TypeOK, World
<1>2. world' = [world EXCEPT ![r] = w]
  OBVIOUS
<1>. HIDE DEF w
<1>. QED  BY <1>1, <1>2, LooksBy DEF Looks, Same

\* The wrapper writes its record.
LEMMA RecordLooks ==
  ASSUME TypeOK, NEW r \in Runs, RecordLaunch(r)
  PROVE  Same(r)
<1>. DEFINE w == [world[r] EXCEPT !.launch = TRUE]
<1>1. w \in World /\ w.pane = world[r].pane /\ w.child = world[r].child
      /\ w.exit = world[r].exit /\ (w.snap <=> world[r].snap)
      /\ (w.dead => world[r].dead \/ w.child = "dead")
  BY DEF TypeOK, World
<1>2. world' = [world EXCEPT ![r] = w]
  BY DEF RecordLaunch
<1>. HIDE DEF w
<1>. QED  BY <1>1, <1>2, LooksBy DEF Looks, Same

\* The group is ended and its session is gone.
LEMMA KillLooks ==
  ASSUME TypeOK, R \in Runs, KillReviewer
  PROVE  \/ UNCHANGED world /\ Leave
         \/ /\ To("prove")
            /\ Looks(R, "none", "dead", IF W.child = "dead" THEN W.exit ELSE "failed")
<1>. DEFINE exit == IF W.child = "dead" THEN W.exit ELSE "failed"
            w == [world[R] EXCEPT !.child = "dead", !.dead = TRUE, !.pane = "none",
                                  !.exit = exit]
<1>1. CASE world' = Killed(R) /\ To("prove")
  <2>1. w \in World /\ w.pane = "none" /\ w.child = "dead" /\ w.exit = exit
        /\ (w.snap <=> W.snap)
    <3>1. world[R] \in World /\ "failed" \in Results
      BY DEF TypeOK, Results, Verdicts
    <3>2. exit \in Results
      BY <3>1 DEF World, W
    <3>. HIDE DEF exit
    <3>. QED  BY <3>1, <3>2 DEF World, W
  <2>2. world' = [world EXCEPT ![R] = w]
    BY <1>1 DEF Killed, W, TypeOK
  <2>. HIDE DEF w
  <2>. QED  BY <1>1, <2>1, <2>2, LooksBy DEF Looks, W
<1>. QED  BY <1>1 DEF KillReviewer

\* The session, the wrapper and the reviewer move on their own.
LEMMA MovedLooks ==
  ASSUME TypeOK, NEW r \in Runs, NEW p \in {"none", "asked", "live", "dead"},
         NEW c \in {"none", "gated", "working", "dead"}, moved(r, p, c)
  PROVE  Looks(r, p, c, world[r].exit)
<1>. DEFINE w == [world[r] EXCEPT !.pane = p, !.child = c]
<1>0. world[r] \in World
  BY DEF TypeOK
<1>1. w \in World /\ w.pane = p /\ w.child = c /\ w.exit = world[r].exit
      /\ (w.snap <=> world[r].snap) /\ w.dead = world[r].dead
  BY <1>0 DEF World
<1>2. world' = [world EXCEPT ![r] = w]
  BY DEF moved, TypeOK
<1>. HIDE DEF w
<1>. QED  BY <1>1, <1>2, LooksBy DEF Looks

\* The reviewer ends.
LEMMA ExitLooks ==
  ASSUME TypeOK, NEW r \in Runs, ChildExit(r)
  PROVE  \E e \in Verdicts : Looks(r, world[r].pane, "dead", e)
<1>1. PICK e \in Verdicts : world' = [world EXCEPT ![r].child = "dead", ![r].exit = e]
  BY DEF ChildExit
<1>. DEFINE w == [world[r] EXCEPT !.child = "dead", !.exit = e]
<1>2. w \in World /\ w.pane = world[r].pane /\ w.child = "dead" /\ w.exit = e
      /\ (w.snap <=> world[r].snap)
  <2>1. world[r] \in World /\ e \in Results
    BY DEF TypeOK, Results
  <2>. QED  BY <2>1 DEF World
<1>3. world' = [world EXCEPT ![r] = w]
  BY <1>1 DEF TypeOK
<1>. HIDE DEF w
<1>. QED  BY <1>2, <1>3, LooksBy DEF Looks

\* Its pane dies.
LEMMA ReapLooks ==
  ASSUME TypeOK, NEW r \in Runs, Reap(r)
  PROVE  world[r].child = "dead" /\ Looks(r, "dead", "dead", world[r].exit)
<1>. DEFINE w == [world[r] EXCEPT !.pane = "dead", !.dead = TRUE]
<1>1. w \in World /\ w.pane = "dead" /\ w.child = world[r].child
      /\ w.exit = world[r].exit /\ (w.snap <=> world[r].snap)
  BY DEF TypeOK, World
<1>2. world' = [world EXCEPT ![r] = w]
  BY DEF Reap, TypeOK
<1>. HIDE DEF w
<1>. QED  BY <1>1, <1>2, LooksBy DEF Looks, Reap

\* Its session is lost.
LEMMA LoseLooks ==
  ASSUME TypeOK, NEW r \in Runs, LoseSession(r)
  PROVE  \/ world[r].child = "gated" /\ Looks(r, "none", "dead", "failed")
         \/ world[r].child # "gated" /\ Looks(r, "none", world[r].child, world[r].exit)
<1>. DEFINE child == IF world[r].child = "gated" THEN "dead" ELSE world[r].child
            exit == IF world[r].child = "gated" THEN "failed" ELSE world[r].exit
            w == [world[r] EXCEPT !.pane = "none", !.child = child, !.exit = exit]
<1>1. w \in World /\ w.pane = "none" /\ w.child = child
      /\ w.exit = exit /\ (w.snap <=> world[r].snap)
      /\ (w.dead => world[r].dead \/ w.child = "dead")
  <2>1. world[r] \in World /\ "failed" \in Results
    BY DEF TypeOK, Results, Verdicts
  <2>2. exit \in Results /\ child \in {"none", "gated", "working", "dead"}
    BY <2>1 DEF World
  <2>3. child = "dead" \/ child = world[r].child
    OBVIOUS
  <2>. HIDE DEF exit, child
  <2>. QED  BY <2>1, <2>2, <2>3 DEF World
<1>2. world' = [world EXCEPT ![r] = w]
  BY DEF LoseSession, TypeOK
<1>. HIDE DEF w
<1>. QED  BY <1>1, <1>2, LooksBy DEF Looks

\* The files of some runs are removed, and their dead panes.
LEMMA WipedEffect ==
  ASSUME TypeOK, NEW S, world' = wiped(world, S)
  PROVE  /\ world' \in [Runs -> World]
         /\ \A x \in Runs : x \notin S => world'[x] = world[x]
         /\ \A x \in Runs : x \in S =>
              /\ ~world'[x].snap /\ ~world'[x].dead /\ world'[x].child = world[x].child
              /\ world'[x].exit = world[x].exit
              /\ world'[x].pane = IF world[x].pane = "dead" THEN "none" ELSE world[x].pane
<1>1. ASSUME NEW x \in Runs, x \in S
      PROVE  /\ world'[x] \in World
             /\ ~world'[x].snap /\ ~world'[x].dead /\ world'[x].child = world[x].child
             /\ world'[x].exit = world[x].exit
             /\ world'[x].pane = IF world[x].pane = "dead" THEN "none" ELSE world[x].pane
  <2>1. world'[x] = [world[x] EXCEPT !.snap = FALSE, !.launch = FALSE, !.dead = FALSE,
                        !.pane = IF @ = "dead" THEN "none" ELSE @]
    BY <1>1 DEF wiped
  <2>2. world[x] \in World
    BY DEF TypeOK
  <2>. QED  BY <2>1, <2>2 DEF World
<1>2. ASSUME NEW x \in Runs, x \notin S
      PROVE  world'[x] = world[x] /\ world'[x] \in World
  BY <1>2 DEF wiped, TypeOK
<1>3. world' = [x \in Runs |-> world'[x]]
  BY DEF wiped
<1>. QED  BY <1>1, <1>2, <1>3

-----------------------------------------------------------------------------
(* Runs are never forgotten, ends are for good *)

\* What a job is at says what job it is, and that it has a run to work on.
LEMMA Worked ==
  ASSUME ReviewerInv
  PROVE  /\ TypeOK
         /\ holder.job \in {"launch", "replay", "sweep", "supersede"} => R \in DOMAIN runs
         /\ holder.at \in {"probe", "hold", "kill", "prove"} =>
              R \in DOMAIN runs /\ holder.job \in {"supersede", "stop"}
         /\ R \in DOMAIN runs => R \in Runs
<1>1. holder.job \in Jobs /\ holder.at \in Stages(holder.job) /\ TypeOK
  BY DEF ReviewerInv, StageInv, TypeOK, Holder
<1>2. holder.at \in {"probe", "hold", "kill", "prove"} => holder.job \in {"supersede", "stop"}
  BY <1>1 DEF Stages, Jobs
<1>3. holder.job \in {"launch", "replay", "sweep", "supersede"} => R \in DOMAIN runs
  BY DEF ReviewerInv, StageInv
<1>4. holder.job = "stop" /\ holder.at \in {"probe", "hold", "kill", "prove"} =>
        R \in DOMAIN runs
  BY DEF ReviewerInv, StageInv, OpenInv
<1>. QED  BY <1>1, <1>2, <1>3, <1>4, LedgerTypes

\* A run keeps its request and its group.
Grows ==
  \A x \in DOMAIN runs : /\ x \in DOMAIN runs'
                         /\ runs[x].requested => runs'[x].requested
                         /\ runs[x].bound => runs'[x].bound

\* A quiet command takes nothing from a run.
LEMMA QuietGrows ==
  ASSUME Quiet
  PROVE  Grows
BY DEF Quiet, Grows, SameRun

\* Nor does one that rewrites a run with what it had.
LEMMA RewriteGrows ==
  ASSUME TypeOK, NEW r \in DOMAIN runs, NEW v, Rewrites(r, v),
         runs[r].requested => v.requested, runs[r].bound => v.bound
  PROVE  Grows
BY DEF Rewrites, Grows

\* The fields of a rewritten run.
LEMMA RewrittenFields ==
  ASSUME NEW u \in Run, NEW v
  PROVE  /\ Requested(u).requested /\ Requested(u).bound = u.bound
         /\ Requested(u).state = u.state /\ Requested(u).sealed = u.sealed
         /\ Requested(u).result = u.result /\ Requested(u).target = u.target
         /\ Sealed(u, v).requested = u.requested /\ Sealed(u, v).bound = u.bound
         /\ Sealed(u, v).state = u.state /\ Sealed(u, v).sealed = v
         /\ Sealed(u, v).result = u.result /\ Sealed(u, v).target = u.target
         /\ Over(u, v).requested = u.requested /\ Over(u, v).bound = u.bound
         /\ Over(u, v).state = "completed" /\ Over(u, v).sealed = u.sealed
         /\ Over(u, v).result = v /\ Over(u, v).target = u.target
         /\ Dropped(u).requested = u.requested /\ Dropped(u).bound = u.bound
         /\ Dropped(u).state = "dropped" /\ Dropped(u).sealed = u.sealed
         /\ Dropped(u).result = u.result /\ Dropped(u).target = u.target
BY DEF Run, Requested, Sealed, Over, Dropped

\* The commands that are quiet.
Certifies == ForgetReviewerProof \/ ProveNeverRan \/ MarkPlanReviewRunning
             \/ BindReviewerStopping \/ ProveReviewerDead \/ MarkReviewerStopped
             \/ MarkReviewerResourcesCleaned \/ \E r \in Runs : Revoke(r)
\* The steps that leave the ledger alone.
Idles ==
  \/ Clear \/ Prepare \/ CreateSession \/ ReleaseReviewer \/ WriteMarker
  \/ StopReviewerSession \/ KillReviewer \/ CleanReviewResources
  \/ CleanAttemptResources \/ GiveUp
  \/ BeginSweep \/ BeginStop \/ Retarget \/ Crash \/ Gone
  \/ \E r \in Runs : Observe(r) \/ BeginSupersede(r) \/ Machine(r) \/ LoseSession(r)

\* They do leave it alone.
LEMMA IdlesEffect ==
  ASSUME Idles
  PROVE  UNCHANGED ledger
BY DEF Idles, Clear, Prepare, CreateSession, ReleaseReviewer, WriteMarker,
     StopReviewerSession, KillReviewer, CleanReviewResources, CleanAttemptResources,
     GiveUp, BeginSweep, BeginStop, Retarget, Crash, Gone, Observe, BeginSupersede,
     Machine, LoseSession, CreatePane, StartChild, RecordLaunch, ChildExit, Reap,
     moved, machine, vars

\* Both leave every run's course alone.
LEMMA QuietSteps ==
  ASSUME ReviewerInv, Certifies \/ Idles
  PROVE  Quiet /\ Typed
<1>1. /\ TypeOK
      /\ ProveNeverRan \/ MarkPlanReviewRunning \/ BindReviewerStopping
           \/ ProveReviewerDead \/ MarkReviewerStopped => R \in DOMAIN runs
  BY Worked DEF ProveNeverRan, MarkPlanReviewRunning, BindReviewerStopping,
     ProveReviewerDead, MarkReviewerStopped, At
<1>. QED  BY <1>1, ForgetEffect, NeverRanEffect, BoundEffect, HeldEffect,
     ProvedEffect,
          CleanedEffect, RevokeEffect, IdlesEffect, QuietSame DEF Certifies

\* The commits of a result.
LEMMA ConcludeSteps ==
  ASSUME ReviewerInv, FinishReconciliationEffect \/ SupersedePlanReview
                      \/ \E r \in Runs : VerifyMarker(r)
  PROVE  \/ UNCHANGED ledger
         \/ \E r \in DOMAIN runs, res \in Results :
              /\ Typed /\ UNCHANGED <<sweep, proofs, stop>>
              /\ Rewrites(r, Over(runs[r], res)) /\ review'.run = r
              /\ runs[r].state = "pending" /\ certified(ledger, r)
              /\ \/ finishable(r, res) /\ res # "none"
                 \/ /\ res = "failed" /\ authorized(proofOf(ledger, r))
                    /\ proofOf(ledger, r).bound = runs[r].bound
<1>a. TypeOK
  BY Worked
<1>1. ASSUME NEW r, NEW res \in Results, NEW bad \in BOOLEAN, pending(ledger, r),
             ledger' = Concluded(r, res, bad)
      PROVE  /\ r \in DOMAIN runs
             /\ Typed /\ UNCHANGED <<sweep, proofs, stop>>
             /\ Rewrites(r, Over(runs[r], res)) /\ review'.run = r
             /\ runs[r].state = "pending"
  BY <1>1, <1>a, ConcludedEffect DEF pending, known, runs
<1>2. CASE FinishReconciliationEffect
  <2>1. R \in DOMAIN runs /\ holder.result \in Results /\ holder.result # "none"
    BY <1>2, <1>a, Worked DEF FinishReconciliationEffect, ReviewerInv, JobInv,
       TypeOK, Holder
  <2>2. CASE finishable(R, holder.result) /\ ledger' = Concluded(R, holder.result, FALSE)
    <3>1. PICK bad \in BOOLEAN : ledger' = Concluded(R, holder.result, bad)
      BY <2>2
    <3>2. pending(ledger, R) /\ certified(ledger, R)
      BY <2>2 DEF finishable, current
    <3>. QED  BY <2>1, <2>2, <3>1, <3>2, <1>1
  <2>. QED  BY <1>2, <2>2 DEF FinishReconciliationEffect
<1>3. CASE SupersedePlanReview
  <2>1. CASE /\ superseded(R) /\ certified(ledger, R) /\ authorized(proofOf(ledger, R))
             /\ proofOf(ledger, R).bound = ledger.runs[R].bound
             /\ ledger' = Concluded(R, "failed", mode = "implementation")
    <3>1. (mode = "implementation") \in BOOLEAN /\ "failed" \in Results
      BY DEF Results, Verdicts
    <3>2. PICK bad \in BOOLEAN : ledger' = Concluded(R, "failed", bad)
      BY <2>1, <3>1
    <3>3. pending(ledger, R)
      BY <2>1 DEF superseded
    <3>. QED  BY <2>1, <3>1, <3>2, <3>3, <1>1 DEF runs
  <2>. QED  BY <1>3, <2>1 DEF SupersedePlanReview
<1>4. ASSUME NEW r \in Runs, VerifyMarker(r)
      PROVE  /\ r \in DOMAIN runs /\ world[r].marker \in Results
             /\ Typed /\ UNCHANGED <<sweep, proofs, stop>>
             /\ Rewrites(r, Over(runs[r], world[r].marker)) /\ review'.run = r
             /\ runs[r].state = "pending" /\ certified(ledger, r)
             /\ finishable(r, world[r].marker) /\ world[r].marker # "none"
  <2>1. world[r].marker \in Results
    BY <1>a DEF TypeOK, World
  <2>2. PICK bad \in BOOLEAN : ledger' = Concluded(r, world[r].marker, bad)
    BY <1>4 DEF VerifyMarker
  <2>3. pending(ledger, r) /\ certified(ledger, r) /\ finishable(r, world[r].marker)
        /\ world[r].marker # "none"
    BY <1>4 DEF VerifyMarker, finishable, current
  <2>. QED  BY <2>1, <2>2, <2>3, <1>1
<1>. QED  BY <1>2, <1>3, <1>4

\* Every other command changes the ledger, each in its own way.
LEMMA NextCases ==
  ASSUME Next
  PROVE  \/ Certifies \/ Idles
         \/ BeginRun \/ MarkReviewerSessionRequested \/ SealReviewerResult
         \/ FinishReconciliationEffect \/ SupersedePlanReview
         \/ \E r \in Runs : VerifyMarker(r)
         \/ PlanSweep \/ FinishSweep \/ Destroy \/ FinishStop
BY DEF Next, JobStep, LaunchStep, ReplayStep, EndStep, Certifies, Idles

\* Every step keeps the ledger's type, and what it knows of each run.
LEMMA LedgerGrows ==
  ASSUME ReviewerInv, Next
  PROVE  Typed /\ Grows
<1>a. /\ TypeOK /\ \A x \in DOMAIN runs : runs[x] \in Run
  BY Worked, LedgerTypes
<1>0. UNCHANGED ledger \/ UNCHANGED runs => Grows
  BY DEF Grows, runs
<1>1. CASE Certifies \/ Idles
  BY <1>1, QuietSteps, QuietGrows
<1>2. CASE BeginRun
  BY <1>2, <1>a, AdmitEffect DEF Grows
<1>3. CASE MarkReviewerSessionRequested
  <2>1. R \in DOMAIN runs
    BY <1>3, Worked DEF MarkReviewerSessionRequested, At
  <2>. QED  BY <1>3, <1>a, <2>1, RequestEffect, RewrittenFields, RewriteGrows
<1>4. CASE SealReviewerResult
  <2>1. R \in DOMAIN runs
    BY <1>4, Worked DEF SealReviewerResult, At
  <2>. QED  BY <1>4, <1>a, <2>1, SealEffect, RewrittenFields, RewriteGrows
<1>5. CASE FinishReconciliationEffect \/ SupersedePlanReview \/ \E r \in Runs : VerifyMarker(r)
  <2>1. CASE UNCHANGED ledger
    BY <2>1, <1>a, QuietSame, QuietGrows
  <2>. QED  BY <1>5, <1>a, <2>1, ConcludeSteps, RewrittenFields, RewriteGrows
<1>6. CASE PlanSweep
  BY <1>6, <1>a, <1>0, PlanSweepEffect
<1>7. CASE FinishSweep
  <2>1. R \in DOMAIN runs
    BY <1>7, Worked DEF FinishSweep, At
  <2>. QED  BY <1>7, <1>a, <1>0, <2>1, FinishSweepEffect
<1>8. CASE Destroy
  <2>1. Typed /\ (UNCHANGED runs \/ \E r \in DOMAIN runs : Drops(r))
    BY <1>8, <1>a, DestroyEffect
  <2>2. ASSUME NEW r \in DOMAIN runs, Drops(r)
        PROVE  Grows
    BY <2>2, <1>a, RewrittenFields, RewriteGrows DEF Drops
  <2>. QED  BY <1>0, <2>1, <2>2
<1>9. CASE FinishStop
  <2>1. CASE UNCHANGED ledger
    BY <2>1, <1>a, QuietSame, QuietGrows
  <2>. QED  BY <1>9, <1>a, <1>0, <2>1, FinishStopEffect
<1>. QED  BY <1>1, <1>2, <1>3, <1>4, <1>5, <1>6, <1>7, <1>8, <1>9, NextCases

-----------------------------------------------------------------------------
(* The machine's part *)

\* What has ended stays so, with its exit; what never was needs to be asked for. A
\* tree is built and removed by jobs alone.
Lasts(x) ==
  /\ ended(x) => ended(x)' /\ world'[x].exit = world[x].exit
  /\ bare(x) => bare(x)' \/ (At("launch", "create") /\ x = R /\ holder' = Nobody)
  /\ world'[x].snap => world[x].snap \/ At("launch", "clear")
  /\ world[x].snap => world'[x].snap \/ holder.at \in {"clear", "clean"}
Lasting == \A x \in Runs : Lasts(x)

\* A run that is not touched keeps its part, while runs grow.
LEMMA WorldKept ==
  ASSUME Grows, NEW x \in Runs, WorldOf(x),
         world'[x].pane = world[x].pane, world'[x].child = world[x].child,
         world'[x].exit = world[x].exit, world'[x].snap <=> world[x].snap,
         world'[x].dead => world[x].dead \/ world[x].child = "dead"
  PROVE  WorldOf(x)' /\ Lasts(x)
BY DEF Grows, WorldOf, alive, ended, bare, Lasts

\* Nothing, or only a record or a marker, has changed.
LEMMA WorldSame ==
  ASSUME WorldInv, Grows, UNCHANGED world \/ \E r \in Runs : Same(r)
  PROVE  WorldInv' /\ Lasting
<1>1. ASSUME NEW x \in Runs
      PROVE  /\ world'[x].pane = world[x].pane /\ world'[x].child = world[x].child
             /\ world'[x].exit = world[x].exit /\ (world'[x].snap <=> world[x].snap)
             /\ (world'[x].dead => world[x].dead \/ world[x].child = "dead")
  BY DEF Same, Looks, Touches
<1>2. ASSUME NEW x \in Runs
      PROVE  WorldOf(x)' /\ Lasts(x)
  BY <1>1, WorldKept DEF WorldInv
<1>. QED  BY <1>2 DEF WorldInv, Lasting

\* It is enough to look at the run that is touched.
LEMMA WorldTouched ==
  ASSUME WorldInv, Grows, NEW r \in Runs, Touches(r), WorldOf(r)', Lasts(r)
  PROVE  WorldInv' /\ Lasting
<1>1. ASSUME NEW x \in Runs, x # r
      PROVE  WorldOf(x)' /\ Lasts(x)
  BY <1>1, WorldKept DEF WorldInv, Touches
<1>. QED  BY <1>1 DEF WorldInv, Lasting

\* Files are removed of runs that have ended or never were.
LEMMA WorldWiped ==
  ASSUME TypeOK, WorldInv, Grows, NEW S, world' = wiped(world, S),
         \A x \in Runs : x \in S => ended(x) \/ bare(x), holder.at \in {"clear", "clean"}
  PROVE  WorldInv' /\ Lasting
<1>1. ASSUME NEW x \in Runs, x \notin S
      PROVE  WorldOf(x)' /\ Lasts(x)
  <2>1. world'[x] = world[x]
    BY <1>1, WipedEffect
  <2>. QED  BY <2>1, WorldKept DEF WorldInv
<1>2. ASSUME NEW x \in Runs, x \in S
      PROVE  WorldOf(x)' /\ Lasts(x)
  <2>1. /\ ~world'[x].snap /\ ~world'[x].dead /\ world'[x].child = world[x].child
        /\ world'[x].exit = world[x].exit
        /\ world'[x].pane = IF world[x].pane = "dead" THEN "none" ELSE world[x].pane
    BY <1>2, WipedEffect
  <2>. QED  BY <1>2, <2>1 DEF Grows, WorldInv, WorldOf, alive, ended, bare, Lasts
<1>. QED  BY <1>1, <1>2 DEF WorldInv, Lasting

\* A certificate that gives files up is of such a run.
LEMMA AuthorizedEnd ==
  ASSUME ReviewerInv, NEW t \in Targets, proofs[t].run # 0, authorized(proofs[t])
  PROVE  /\ proofs[t].run \in DOMAIN runs
         /\ ended(proofs[t].run) \/ (bare(proofs[t].run) /\ ~runs[proofs[t].run].requested)
<1>1. proofs[t].run \in DOMAIN runs /\ proofs[t].run \in Runs
  BY LedgerTypes DEF ReviewerInv, ProofInv, True
<1>2. world[proofs[t].run].child \in {"none", "gated", "working", "dead"}
  BY <1>1 DEF ReviewerInv, TypeOK, World
<1>. QED  BY <1>1, <1>2 DEF ReviewerInv, ProofInv, True, authorized, WorldInv,
     WorldOf, bare

\* The steps that touch the machine, and the run they touch.
LEMMA WorldStep ==
  ASSUME ReviewerInv, Next
  PROVE  world' \in [Runs -> World] /\ WorldInv' /\ Lasting
<1>a. TypeOK /\ WorldInv /\ Grows /\ world \in [Runs -> World]
  BY LedgerGrows DEF ReviewerInv, TypeOK
<1>b. \A x \in Runs : WorldOf(x) /\ world[x] \in World
  BY <1>a DEF WorldInv
<1>0. CASE UNCHANGED world
  BY <1>0, <1>a, WorldSame
<1>1. ASSUME NEW r \in Runs, Same(r)
      PROVE  world' \in [Runs -> World] /\ WorldInv' /\ Lasting
  BY <1>1, <1>a, WorldSame DEF Same, Looks, Touches
<1>2. CASE Clear /\ world' = wiped(world, {proofs[earliest].run})
           /\ (\A t \in earlier : authorized(proofs[t])) /\ earlier # {}
  <2>1. earliest \in Targets /\ proofs[earliest].run # 0 /\ authorized(proofs[earliest])
    BY <1>2, EarliestIsEarlier, ReviewerAssumption DEF earlier, proofs
  <2>2. ended(proofs[earliest].run) \/ bare(proofs[earliest].run)
    BY <2>1, AuthorizedEnd
  <2>3. \A x \in Runs : x \in {proofs[earliest].run} => ended(x) \/ bare(x)
    BY <2>2
  <2>4. holder.at \in {"clear", "clean"}
    BY <1>2 DEF Clear, At
  <2>. QED  BY <1>2, <2>3, <2>4, <1>a, WorldWiped, WipedEffect
<1>3. CASE Prepare
  <2>1. PICK r \in DOMAIN runs : r = R /\ r \in Runs /\ bare(r) /\ At("launch", "clear")
    BY <1>3, Worked DEF Prepare, At, ReviewerInv, JobInv, Preparing
  <2>2. CASE /\ Touches(r) /\ world'[r].pane = world[r].pane
             /\ world'[r].child = world[r].child /\ world'[r].exit = world[r].exit
             /\ world'[r].snap /\ (world'[r].dead => world[r].dead)
    <3>1. WorldOf(r)' /\ Lasts(r)
      BY <1>a, <1>b, <2>1, <2>2 DEF WorldOf, bare, Grows, alive, ended, Lasts
    <3>. QED  BY <1>a, <2>1, <2>2, <3>1, WorldTouched DEF Touches
  <2>. QED  BY <1>3, <1>0, <1>a, <2>1, <2>2, PrepareLooks DEF W
<1>4. CASE CreateSession
  <2>1. R \in DOMAIN runs /\ R \in Runs /\ At("launch", "create") /\ holder' = Nobody
    BY <1>4, Worked DEF CreateSession, At, Leave
  <2>2. PICK r \in Runs : r = R /\ r \in DOMAIN runs /\ bare(r) /\ world[r].snap
                          /\ runs[r].requested
    BY <2>1 DEF At, ReviewerInv, JobInv, Preparing, W
  <2>3. Looks(r, "asked", world[r].child, world[r].exit)
    BY <1>4, <1>a, <2>2, CreateLooks DEF W
  <2>4. WorldOf(r)' /\ Lasts(r)
    BY <1>a, <1>b, <2>1, <2>2, <2>3 DEF Looks, WorldOf, bare, Grows, alive, ended,
       Lasts
  <2>. QED  BY <1>a, <2>1, <2>2, <2>3, <2>4, WorldTouched DEF Looks, Touches
<1>5. CASE ReleaseReviewer
  <2>1. PICK r \in Runs : r = R /\ r \in DOMAIN runs /\ runs[r].bound
    BY <1>5, Worked DEF ReleaseReviewer, At, ReviewerInv, JobInv
  <2>2. CASE /\ world[r].pane = "live" /\ world[r].child = "gated"
             /\ Looks(r, world[r].pane, "working", world[r].exit)
    <3>1. WorldOf(r)' /\ Lasts(r)
      BY <1>a, <1>b, <2>1, <2>2 DEF Looks, WorldOf, bare, Grows, alive, ended, Lasts
    <3>. QED  BY <1>a, <2>1, <2>2, <3>1, WorldTouched DEF Looks, Touches
  <2>. QED  BY <1>5, <1>1, <1>a, <2>1, <2>2, ReleaseLooks DEF W
<1>6. CASE WriteMarker \/ FinishReconciliationEffect
  <2>1. R \in Runs /\ holder.result \in Results /\ "none" \in Results
    BY <1>6, <1>a, Worked DEF WriteMarker, FinishReconciliationEffect, TypeOK,
       Holder,
       Results
  <2>. QED  BY <1>6, <1>0, <1>1, <1>a, <2>1, MarkerLooks DEF WriteMarker,
            FinishReconciliationEffect
<1>7. ASSUME NEW r \in Runs, VerifyMarker(r) \/ RecordLaunch(r)
      PROVE  world' \in [Runs -> World] /\ WorldInv' /\ Lasting
  BY <1>7, <1>1, <1>a, MarkerLooks, RecordLooks DEF VerifyMarker, Results
<1>8. CASE KillReviewer
  <2>1. PICK r \in Runs : r = R /\ r \in DOMAIN runs
    BY <1>8, Worked DEF KillReviewer
  <2>2. CASE /\ Looks(r, "none", "dead", IF world[r].child = "dead" THEN world[r].exit
                                         ELSE "failed")
             /\ world[r].pane = "live" \/ world[r].dead
    <3>1. WorldOf(r)' /\ Lasts(r)
      BY <1>a, <1>b, <2>1, <2>2 DEF Looks, WorldOf, bare, Grows, alive, ended, Lasts
    <3>. QED  BY <1>a, <2>1, <2>2, <3>1, WorldTouched DEF Looks, Touches
  <2>. QED  BY <1>8, <1>0, <1>a, <2>1, <2>2, KillLooks DEF W, answers,
       KillReviewer, Leave
<1>9. CASE CleanReviewResources
  <2>1. CASE sweepable(ledger) /\ ledger.sweep /\ world' = wiped(world, {R})
    <3>1. R = review.run
      BY <1>9, <2>1 DEF CleanReviewResources, At, ReviewerInv, StageInv, sweepable,
         review, stop
    <3>2. /\ R \in DOMAIN runs /\ R # 0 /\ runs[R].target \in Targets
          /\ proofs[runs[R].target].run = R /\ authorized(proofs[runs[R].target])
      BY <1>a, <2>1, <3>1, LedgerTypes DEF sweepable, certified, known, proofOf,
         review, runs,
         proofs
    <3>3. ended(R) \/ bare(R)
      BY <3>2, AuthorizedEnd
    <3>4. holder.at \in {"clear", "clean"}
      BY <1>9 DEF CleanReviewResources, At
    <3>5. \A x \in Runs : x \in {R} => ended(x) \/ bare(x)
      BY <3>3
    <3>. QED  BY <1>a, <2>1, <3>4, <3>5, WorldWiped, WipedEffect
  <2>. QED  BY <1>9, <1>0, <2>1 DEF CleanReviewResources
<1>10. CASE CleanAttemptResources
  <2>1. CASE cleanable /\ world' = wiped(world, certifiedRuns)
    <3>1. ASSUME NEW x \in Runs, x \in certifiedRuns
          PROVE  ended(x) \/ bare(x)
      <4>1. PICK t \in Targets : x = proofs[t].run /\ x # 0
        BY <3>1 DEF certifiedRuns, proofs
      <4>2. authorized(proofs[t])
        BY <2>1, <4>1 DEF cleanable, proofs
      <4>. QED  BY <4>1, <4>2, AuthorizedEnd
    <3>2. holder.at \in {"clear", "clean"}
      BY <1>10 DEF CleanAttemptResources, At
    <3>. QED  BY <1>a, <2>1, <3>1, <3>2, WorldWiped, WipedEffect
  <2>. QED  BY <1>10, <1>0, <2>1 DEF CleanAttemptResources
<1>11. ASSUME NEW r \in Runs, Machine(r) \/ LoseSession(r)
       PROVE  world' \in [Runs -> World] /\ WorldInv' /\ Lasting
  <2>1. CASE CreatePane(r)
    <3>1. Looks(r, "live", world[r].child, world[r].exit) /\ world[r].pane = "asked"
      BY <1>a, <1>b, <2>1, MovedLooks DEF CreatePane, World
    <3>2. WorldOf(r)' /\ Lasts(r)
      BY <1>a, <1>b, <3>1 DEF Looks, WorldOf, bare, Grows, alive, ended, Lasts
    <3>. QED  BY <1>a, <3>1, <3>2, WorldTouched DEF Looks, Touches
  <2>2. CASE StartChild(r)
    <3>1. Looks(r, "live", "gated", world[r].exit) /\ world[r].pane = "live"
          /\ world[r].child = "none" /\ world[r].snap
      BY <1>a, <2>2, MovedLooks DEF StartChild
    <3>2. WorldOf(r)' /\ Lasts(r)
      BY <1>a, <1>b, <3>1 DEF Looks, WorldOf, bare, Grows, alive, ended, Lasts
    <3>. QED  BY <1>a, <3>1, <3>2, WorldTouched DEF Looks, Touches
  <2>3. CASE ChildExit(r)
    <3>1. PICK e \in Verdicts : Looks(r, world[r].pane, "dead", e)
      BY <1>a, <2>3, ExitLooks
    <3>2. world[r].child = "working" /\ e # "none"
      BY <2>3 DEF ChildExit, Verdicts
    <3>3. WorldOf(r)' /\ Lasts(r)
      BY <1>a, <1>b, <3>1, <3>2 DEF Looks, WorldOf, bare, Grows, alive, ended, Lasts
    <3>. QED  BY <1>a, <3>1, <3>3, WorldTouched DEF Looks, Touches
  <2>4. CASE Reap(r)
    <3>1. world[r].child = "dead" /\ Looks(r, "dead", "dead", world[r].exit)
          /\ world[r].pane = "live"
      BY <1>a, <2>4, ReapLooks DEF Reap
    <3>2. WorldOf(r)' /\ Lasts(r)
      BY <1>a, <1>b, <3>1 DEF Looks, WorldOf, bare, Grows, alive, ended, Lasts
    <3>. QED  BY <1>a, <3>1, <3>2, WorldTouched DEF Looks, Touches
  <2>5. CASE LoseSession(r)
    <3>1. \/ world[r].child = "gated" /\ Looks(r, "none", "dead", "failed")
          \/ world[r].child # "gated" /\ Looks(r, "none", world[r].child, world[r].exit)
      BY <1>a, <2>5, LoseLooks
    <3>2. Touches(r) /\ WorldOf(r)' /\ Lasts(r)
      BY <1>a, <1>b, <3>1 DEF Looks, WorldOf, bare, Grows, alive, ended, Lasts
    <3>. QED  BY <1>a, <3>2, WorldTouched DEF Touches
  <2>. QED  BY <1>7, <1>11, <2>1, <2>2, <2>3, <2>4, <2>5 DEF Machine
<1>12. CASE Certifies \/ BeginRun \/ MarkReviewerSessionRequested \/ SealReviewerResult
            \/ SupersedePlanReview \/ PlanSweep \/ FinishSweep \/ Destroy \/ FinishStop
  BY <1>12, <1>0 DEF Certifies, ForgetReviewerProof, ProveNeverRan,
     MarkPlanReviewRunning,
     BindReviewerStopping, ProveReviewerDead, MarkReviewerStopped,
     MarkReviewerResourcesCleaned, Revoke, BeginRun, MarkReviewerSessionRequested,
     SealReviewerResult, SupersedePlanReview, PlanSweep, FinishSweep, Destroy, FinishStop
<1>13. CASE Clear \/ StopReviewerSession \/ GiveUp \/ BeginSweep \/ BeginStop \/ Retarget
            \/ Crash \/ Gone \/ \E r \in Runs : Observe(r) \/ BeginSupersede(r)
  BY <1>13, <1>0, <1>2 DEF Clear, StopReviewerSession, GiveUp, BeginSweep,
     BeginStop,
     Retarget, Crash, Gone, Observe, BeginSupersede, vars, proofs
<1>. QED  BY <1>3, <1>4, <1>5, <1>6, <1>7, <1>8, <1>9, <1>10, <1>11, <1>12, <1>13,
     NextCases
          DEF Idles

-----------------------------------------------------------------------------
(* Verdicts *)

\* A run of whose verdict nothing is written keeps its part.
LEMMA VerdictKept ==
  ASSUME TypeOK, VerdictInv, Lasting, NEW x \in DOMAIN runs,
         runs'[x].sealed = runs[x].sealed, runs'[x].result = runs[x].result,
         runs'[x].state = "completed" =>
           runs[x].state = "completed" /\ (runs'[x].requested => runs[x].requested)
  PROVE  VerdictOf(x)'
<1>1. x \in Runs
  BY LedgerTypes
<1>. QED  BY <1>1 DEF VerdictInv, VerdictOf, Lasting, Lasts

\* A result is concluded of a run that has ended with it, or that never was asked for.
LEMMA ConcludedVerdict ==
  ASSUME ReviewerInv, NEW r \in DOMAIN runs, NEW res \in Results, certified(ledger, r),
         \/ finishable(r, res) /\ res # "none"
         \/ /\ res = "failed" /\ authorized(proofOf(ledger, r))
            /\ proofOf(ledger, r).bound = runs[r].bound
  PROVE  /\ ended(r) \/ ~runs[r].requested
         /\ res \in {"clean", "findings"} => ended(r) /\ world[r].exit = res
<1>0. /\ runs[r].target \in Targets /\ r # 0 /\ r \in Runs
      /\ proofs[runs[r].target].run = r /\ VerdictOf(r)
  BY LedgerTypes DEF ReviewerInv, certified, proofOf, runs, proofs, Runs, VerdictInv
<1>1. True(proofs[runs[r].target])
  BY <1>0 DEF ReviewerInv, ProofInv
<1>2. CASE finishable(r, res) /\ res # "none" /\ runs[r].bound
  BY <1>0, <1>2 DEF finishable, runs, VerdictOf
<1>3. CASE finishable(r, res) /\ ~runs[r].bound
  BY <1>0, <1>1, <1>3 DEF finishable, runs, proofs, proofOf, True
<1>4. CASE /\ res = "failed" /\ authorized(proofOf(ledger, r))
           /\ proofOf(ledger, r).bound = runs[r].bound
  BY <1>0, <1>1, <1>4, AuthorizedEnd DEF proofOf, proofs, runs
<1>. QED  BY <1>2, <1>3, <1>4

\* Every step leaves the verdicts with the ends they came from.
LEMMA VerdictStep ==
  ASSUME ReviewerInv, Next
  PROVE  VerdictInv'
<1>a. /\ TypeOK /\ VerdictInv /\ Lasting
      /\ \A x \in DOMAIN runs : runs[x] \in Run /\ x \in Runs
  BY Worked, WorldStep, LedgerTypes DEF ReviewerInv
<1>0. CASE UNCHANGED runs
  BY <1>0, <1>a, VerdictKept DEF VerdictInv
<1>1. CASE Certifies \/ Idles
  BY <1>1, <1>a, QuietSteps, VerdictKept DEF Quiet, SameRun, VerdictInv
<1>2. CASE BeginRun
  <2>1. ASSUME NEW x \in DOMAIN runs'
        PROVE  VerdictOf(x)'
    <3>1. CASE x \in DOMAIN runs
      BY <1>2, <1>a, <3>1, AdmitEffect, VerdictKept
    <3>2. CASE x \notin DOMAIN runs
      <4>2. /\ DOMAIN runs' = DOMAIN runs \cup {Len(runs) + 1}
            /\ runs'[Len(runs) + 1] = Admitted
        BY <1>2, <1>a, AdmitEffect
      <4>1. runs'[x] = Admitted
        BY <2>1, <3>2, <4>2
      <4>. QED  BY <4>1 DEF VerdictOf, Admitted
    <3>. QED  BY <3>1, <3>2
  <2>. QED  BY <2>1 DEF VerdictInv
<1>3. ASSUME NEW r \in DOMAIN runs, NEW v, Rewrites(r, v), VerdictOf(r)'
      PROVE  VerdictInv'
  <2>1. ASSUME NEW x \in DOMAIN runs, x # r
        PROVE  VerdictOf(x)'
    BY <1>3, <1>a, <2>1, VerdictKept DEF Rewrites
  <2>. QED  BY <1>3, <2>1 DEF VerdictInv, Rewrites
<1>4. CASE MarkReviewerSessionRequested
  <2>1. PICK r \in DOMAIN runs : r = R
    BY <1>4, Worked DEF MarkReviewerSessionRequested, At
  <2>2. Rewrites(r, Requested(runs[r])) /\ runs[r].state = "pending"
    BY <1>4, <1>a, <2>1, RequestEffect
  <2>3. VerdictOf(r)'
    BY <1>a, <2>2, RewrittenFields, VerdictKept DEF Rewrites
  <2>. QED  BY <1>3, <2>2, <2>3
<1>5. CASE SealReviewerResult
  <2>1. PICK r \in DOMAIN runs : r = R /\ ended(r)
    BY <1>5, Worked DEF SealReviewerResult, At, ReviewerInv, JobInv
  <2>2. Rewrites(r, Sealed(runs[r], world[r].exit)) /\ runs[r].state = "pending"
    BY <1>5, <1>a, <2>1, SealEffect DEF SealReviewerResult, current, pending, runs
  <2>3. VerdictOf(r)'
    BY <1>a, <2>1, <2>2, RewrittenFields DEF Rewrites, VerdictOf, VerdictInv,
       Lasting, Lasts
  <2>. QED  BY <1>3, <2>2, <2>3
<1>6. CASE FinishReconciliationEffect \/ SupersedePlanReview \/ \E r \in Runs : VerifyMarker(r)
  <2>1. ASSUME NEW r \in DOMAIN runs, NEW res \in Results,
               Rewrites(r, Over(runs[r], res)), certified(ledger, r),
               \/ finishable(r, res) /\ res # "none"
               \/ /\ res = "failed" /\ authorized(proofOf(ledger, r))
                  /\ proofOf(ledger, r).bound = runs[r].bound
        PROVE  VerdictInv'
    <3>1. /\ ended(r) \/ ~runs[r].requested
          /\ res \in {"clean", "findings"} => ended(r) /\ world[r].exit = res
      BY <2>1, ConcludedVerdict
    <3>2. VerdictOf(r)'
      BY <1>a, <2>1, <3>1, RewrittenFields DEF Rewrites, VerdictOf, VerdictInv,
         Lasting, Lasts
    <3>. QED  BY <1>3, <2>1, <3>2
  <2>2. CASE UNCHANGED ledger
    BY <2>2, <1>0 DEF runs
  <2>. QED  BY <1>6, <2>1, <2>2, ConcludeSteps
<1>7. CASE Destroy
  <2>1. ASSUME NEW r \in DOMAIN runs, Drops(r)
        PROVE  VerdictInv'
    <3>1. VerdictOf(r)'
      BY <1>a, <2>1, RewrittenFields, VerdictKept DEF Drops, Rewrites
    <3>. QED  BY <1>3, <2>1, <3>1 DEF Drops
  <2>. QED  BY <1>7, <1>0, <1>a, <2>1, DestroyEffect
<1>8. CASE PlanSweep \/ FinishSweep \/ FinishStop
  <2>1. FinishSweep => R \in DOMAIN runs
    BY Worked DEF FinishSweep, At
  <2>2. UNCHANGED runs \/ UNCHANGED ledger
    BY <1>8, <1>a, <2>1, PlanSweepEffect, FinishSweepEffect, FinishStopEffect
  <2>. QED  BY <1>0, <2>2 DEF runs
<1>. QED  BY <1>1, <1>2, <1>4, <1>5, <1>6, <1>7, <1>8, NextCases

-----------------------------------------------------------------------------
(* Certificates *)

\* A certificate that is kept stays true while its run's request does.
LEMMA TrueKept ==
  ASSUME TypeOK, Grows, Lasting, NEW p, True(p),
         p.run \in DOMAIN runs /\ p.never => ~runs'[p.run].requested
  PROVE  True(p)'
<1>1. DOMAIN runs \subseteq Runs
  BY LedgerTypes
<1>. QED  BY <1>1 DEF True, Grows, Lasting, Lasts

\* It is enough to look at what is recorded.
LEMMA ProofRecorded ==
  ASSUME TypeOK, ProofInv, Grows, Lasting, NEW r \in DOMAIN runs, NEW p,
         \A x \in DOMAIN runs : runs'[x].requested => runs[x].requested,
         Recorded(r, p), True(p)'
  PROVE  ProofInv'
<1>1. proofs \in [Targets -> Proof]
  BY LedgerTypes
<1>2. ASSUME NEW t \in Targets
      PROVE  proofs'[t] = p \/ proofs'[t] = proofs[t]
  BY <1>1 DEF Recorded, Put
<1>3. ASSUME NEW t \in Targets, NEW q, q = proofs[t]
      PROVE  True(q)'
  BY <1>3, TrueKept DEF ProofInv, True
<1>4. ASSUME NEW t \in Targets
      PROVE  \E q : proofs'[t] = q /\ True(q)'
  BY <1>2, <1>3
<1>. QED  BY <1>4 DEF ProofInv

\* No run is asked for by this step.
NoneAsked == \A x \in DOMAIN runs : runs'[x].requested => runs[x].requested

\* Certificates are kept, or taken away.
LEMMA ProofsKept ==
  ASSUME TypeOK, ProofInv, Grows, Lasting, NoneAsked,
         \A t \in Targets : proofs'[t] = proofs[t] \/ proofs'[t] = NoProof
  PROVE  ProofInv'
<1>1. ASSUME NEW t \in Targets, NEW q, q = proofs[t]
      PROVE  True(q)'
  BY <1>1, TrueKept DEF ProofInv, True, NoneAsked
<1>2. \A q : q = NoProof => True(q)'
  BY DEF True, NoProof
<1>3. ASSUME NEW t \in Targets
      PROVE  \E q : proofs'[t] = q /\ True(q)'
  BY <1>1, <1>2
<1>. QED  BY <1>3 DEF ProofInv

\* A certificate is recorded of what it says.
LEMMA ProofHonest ==
  ASSUME TypeOK, ProofInv, Grows, Lasting, NoneAsked, NEW r \in DOMAIN runs, NEW p,
         Recorded(r, p), p.run = r, p.dead /\ p.bound => ended(r),
         p.never => ~runs[r].requested
  PROVE  ProofInv'
<1>1. r \in Runs
  BY LedgerTypes
<1>2. True(p)'
  BY <1>1 DEF True, Grows, Lasting, Lasts, NoneAsked
<1>. QED  BY <1>2, ProofRecorded DEF NoneAsked

\* Who proves a reviewer never to have run knows that it was never asked for.
LEMMA ProvableNever ==
  ASSUME ReviewerInv, R \in DOMAIN runs, ProveReviewerDead \/ MarkReviewerStopped, provable,
         holder.never
  PROVE  ~runs[R].requested
<1>1. ~held.requested
  BY DEF provable
<1>2. CASE holder.job = "stop"
  <2>1. R = stop.run /\ R # 0
    BY <1>2 DEF ReviewerInv, StageInv, ProveReviewerDead, MarkReviewerStopped, At
  <2>2. stop.requested = runs[R].requested
    BY <2>1 DEF ReviewerInv, OpenInv
  <2>. QED  BY <1>1, <1>2, <2>2 DEF held, stop
<1>3. CASE holder.job # "stop"
  BY <1>1, <1>3 DEF held, runs
<1>. QED  BY <1>2, <1>3

\* Every step leaves the certificates true.
LEMMA ProofStep ==
  ASSUME ReviewerInv, Next
  PROVE  ProofInv'
<1>a. TypeOK /\ ProofInv /\ Grows /\ Lasting
  BY Worked, LedgerGrows, WorldStep DEF ReviewerInv
<1>b. /\ Quiet \/ UNCHANGED runs => NoneAsked
      /\ \A x \in DOMAIN runs : runs[x] \in Run
  BY <1>a, LedgerTypes DEF Quiet, SameRun, NoneAsked
<1>c. ASSUME NEW r \in DOMAIN runs, NEW v, Rewrites(r, v), v.requested = runs[r].requested
      PROVE  NoneAsked
  BY <1>c DEF Rewrites, NoneAsked
<1>0. CASE UNCHANGED ledger
  BY <1>0, <1>a, <1>b, ProofsKept DEF runs, proofs
<1>1. CASE ForgetReviewerProof
  <2>1. NoneAsked /\ \A t \in Targets : proofs'[t] \in {proofs[t], NoProof}
    BY <1>1, <1>a, <1>b, ForgetEffect
  <2>. QED  BY <2>1, <1>a, ProofsKept
<1>2. CASE MarkReviewerResourcesCleaned \/ \E r \in Runs : Revoke(r)
  BY <1>2, <1>a, <1>b, CleanedEffect, RevokeEffect, ProofsKept
<1>3. CASE ProveNeverRan
  <2>1. R \in DOMAIN runs
    BY <1>3, Worked DEF ProveNeverRan
  <2>2. NoneAsked
    BY <1>3, <1>a, <1>b, <2>1, NeverRanEffect
  <2>3. CASE Recorded(R, Certificate(R, TRUE, TRUE)) /\ ~runs[R].requested
    <3>1. PICK p : p = Certificate(R, TRUE, TRUE) /\ Recorded(R, p)
      BY <2>3
    <3>2. Recorded(R, p) /\ p.run = R /\ ~p.bound
      BY <3>1 DEF Certificate
    <3>. QED  BY <1>a, <2>1, <2>2, <2>3, <3>2, ProofHonest
  <2>4. CASE proofs' = proofs
    BY <1>a, <2>2, <2>4, ProofsKept
  <2>. QED  BY <1>3, <1>a, <2>1, <2>3, <2>4, NeverRanEffect
<1>4. CASE MarkPlanReviewRunning \/ BindReviewerStopping
  <2>1. R \in DOMAIN runs
    BY <1>4, Worked DEF MarkPlanReviewRunning, BindReviewerStopping, At
  <2>2. NoneAsked /\ (proofs' = proofs \/ Recorded(R, Certificate(R, FALSE, FALSE)))
    BY <1>4, <1>a, <1>b, <2>1, BoundEffect, HeldEffect
  <2>3. CASE Recorded(R, Certificate(R, FALSE, FALSE))
    <3>1. PICK p : p = Certificate(R, FALSE, FALSE) /\ Recorded(R, p)
      BY <2>3
    <3>2. Recorded(R, p) /\ p.run = R /\ ~p.dead /\ ~p.never
      BY <3>1 DEF Certificate
    <3>. QED  BY <1>a, <2>1, <2>2, <3>2, ProofHonest
  <2>. QED  BY <1>a, <2>2, <2>3, ProofsKept
<1>5. CASE ProveReviewerDead \/ MarkReviewerStopped
  <2>1. R \in DOMAIN runs /\ (~holder.never => ended(R)) /\ holder.never \in BOOLEAN
    BY <1>5, <1>a, Worked DEF ProveReviewerDead, MarkReviewerStopped, At,
       ReviewerInv, JobInv,
       TypeOK, Holder
  <2>2. /\ NoneAsked
        /\ \/ proofs' = proofs
           \/ Recorded(R, Certificate(R, holder.never, TRUE)) /\ provable
    BY <1>5, <1>a, <1>b, <2>1, ProvedEffect
  <2>3. CASE Recorded(R, Certificate(R, holder.never, TRUE)) /\ provable
    <3>1. PICK p : p = Certificate(R, holder.never, TRUE) /\ Recorded(R, p)
      BY <2>3
    <3>2. p.run = R /\ (p.bound <=> ~holder.never) /\ (p.never <=> holder.never)
      BY <2>1, <3>1 DEF Certificate
    <3>3. Recorded(R, p) /\ (holder.never => ~runs[R].requested)
      BY <1>5, <2>1, <2>3, <3>1, ProvableNever
    <3>. QED  BY <1>a, <2>1, <2>2, <3>2, <3>3, ProofHonest
  <2>. QED  BY <1>a, <2>2, <2>3, ProofsKept
<1>6. CASE SealReviewerResult
  <2>1. R \in DOMAIN runs /\ ended(R)
    BY <1>6, Worked DEF SealReviewerResult, At, ReviewerInv, JobInv
  <2>2. Rewrites(R, Sealed(runs[R], world[R].exit)) /\ Recorded(R, Certificate(R, FALSE, TRUE))
    BY <1>6, <1>a, <2>1, SealEffect
  <2>3. NoneAsked
    BY <1>b, <1>c, <2>1, <2>2, RewrittenFields
  <2>4. PICK p : p = Certificate(R, FALSE, TRUE) /\ Recorded(R, p)
    BY <2>2
  <2>5. Recorded(R, p) /\ p.run = R /\ ~p.never
    BY <2>4 DEF Certificate
  <2>. QED  BY <1>a, <2>1, <2>3, <2>5, ProofHonest
<1>7. CASE BeginRun \/ PlanSweep \/ FinishReconciliationEffect \/ SupersedePlanReview
           \/ \E r \in Runs : VerifyMarker(r)
  <2>1. UNCHANGED ledger \/ (NoneAsked /\ proofs' = proofs)
    <3>1. CASE BeginRun
      BY <1>a, <3>1, AdmitEffect DEF NoneAsked
    <3>2. CASE PlanSweep
      BY <1>a, <1>b, <3>2, PlanSweepEffect
    <3>3. CASE FinishReconciliationEffect \/ SupersedePlanReview
               \/ \E r \in Runs : VerifyMarker(r)
      BY <1>b, <1>c, <3>3, ConcludeSteps, RewrittenFields
    <3>. QED  BY <1>7, <3>1, <3>2, <3>3
  <2>. QED  BY <1>a, <1>0, <2>1, ProofsKept
<1>8. CASE FinishSweep
  <2>1. R \in DOMAIN runs /\ proofs \in [Targets -> Proof]
    BY <1>8, <1>a, Worked, LedgerTypes DEF FinishSweep, At
  <2>2. UNCHANGED runs /\ Recorded(R, NoProof)
    BY <1>8, <1>a, <2>1, FinishSweepEffect
  <2>3. \A t \in Targets : proofs'[t] = proofs[t] \/ proofs'[t] = NoProof
    BY <2>1, <2>2 DEF Recorded, Put
  <2>. QED  BY <1>a, <1>b, <2>2, <2>3, ProofsKept
<1>9. CASE FinishStop
  BY <1>9, <1>a, <1>b, <1>0, FinishStopEffect, ProofsKept
<1>10. CASE Destroy
  <2>1. ASSUME NEW r \in DOMAIN runs, Drops(r)
        PROVE  ProofInv'
    <3>1. NoneAsked
      BY <1>b, <1>c, <2>1, RewrittenFields DEF Drops
    <3>2. CASE proofs' = proofs
      BY <1>a, <3>1, <3>2, ProofsKept
    <3>3. ASSUME NEW p \in Proof, Recorded(r, p), p.run = r, ~p.bound,
                 p.never => ~runs[r].requested
          PROVE  ProofInv'
      BY <1>a, <3>1, <3>3, ProofHonest
    <3>. QED  BY <2>1, <3>2, <3>3 DEF Drops
  <2>. QED  BY <1>10, <1>a, <1>b, <2>1, DestroyEffect, ProofsKept
<1>11. CASE MarkReviewerSessionRequested
  <2>1. R \in DOMAIN runs /\ runs[R].state = "pending"
    BY <1>11, Worked DEF MarkReviewerSessionRequested, At, current, pending, runs
  <2>2. \A t \in Targets : proofs[t].run # R
    BY <1>11, <2>1 DEF MarkReviewerSessionRequested, At, ReviewerInv, JobInv,
       Preparing
  <2>3. Rewrites(R, Requested(runs[R])) /\ proofs' = proofs
    BY <1>11, <1>a, <2>1, RequestEffect
  <2>4. ASSUME NEW t \in Targets, NEW q, q = proofs[t]
        PROVE  True(q)'
    BY <1>a, <2>2, <2>3, <2>4, TrueKept DEF ProofInv, True, Rewrites
  <2>5. ASSUME NEW t \in Targets
        PROVE  \E q : proofs'[t] = q /\ True(q)'
    BY <2>3, <2>4
  <2>. QED  BY <2>5 DEF ProofInv
<1>. QED  BY <1>0, <1>1, <1>2, <1>3, <1>4, <1>5, <1>6, <1>7, <1>8, <1>9, <1>10,
     <1>11,
          NextCases, IdlesEffect DEF Certifies
-----------------------------------------------------------------------------
(* One open run *)

\* It is enough to look at the run that is rewritten, when the effects are kept.
LEMMA OpenRewritten ==
  ASSUME TypeOK, OpenInv, NEW r \in DOMAIN runs, NEW v, Rewrites(r, v),
         UNCHANGED <<sweep, stop>>, review'.run \in {review.run, r},
         v.state = runs[r].state \/ (runs[r].state = "pending" /\ v.state = "completed"),
         runs[r].state = "dropped" => v.requested = runs[r].requested
  PROVE  OpenInv'
<1>0. /\ DOMAIN runs' = DOMAIN runs /\ Len(runs') = Len(runs) /\ runs'[r] = v
      /\ \A x \in DOMAIN runs : x # r => runs'[x] = runs[x]
  BY DEF Rewrites
<1>1. \A x \in DOMAIN runs' : x < Len(runs') => runs'[x].state = "completed"
  BY <1>0 DEF OpenInv
<1>2. \A x \in DOMAIN runs' : /\ runs'[x].state = "pending" => runs[x].state = "pending"
                              /\ runs'[x].state = "dropped" => runs[x].state = "dropped"
  BY <1>0
<1>3. stop.run # 0 => /\ runs'[stop.run].state = "dropped"
                      /\ stop.requested = runs'[stop.run].requested
  BY <1>0 DEF OpenInv
<1>4. r # 0
  BY LedgerTypes
<1>. QED  BY <1>0, <1>1, <1>2, <1>3, <1>4 DEF OpenInv

\* Every step leaves at most the last run open.
LEMMA OpenStep ==
  ASSUME ReviewerInv, Next
  PROVE  OpenInv'
<1>a. /\ TypeOK /\ OpenInv /\ \A x \in DOMAIN runs : runs[x] \in Run /\ x <= Len(runs)
      /\ Len(runs) \in Nat
  BY Worked, LedgerTypes DEF ReviewerInv
<1>b. \A x \in DOMAIN runs : runs[x].state \in {"pending", "completed", "dropped"}
  BY <1>a DEF Run
<1>0. ASSUME Quiet
      PROVE  OpenInv'
  BY <1>0, <1>a DEF OpenInv, Quiet, SameRun, SameStop
<1>1. CASE Certifies \/ Idles
  BY <1>0, <1>1, QuietSteps
<1>2. CASE BeginRun
  <2>1. stop.state = "none" /\ ~sweep /\ \A x \in DOMAIN runs : runs[x].state # "pending"
    BY <1>2 DEF BeginRun, admissible, busy, pending, known, runs, stop, sweep
  <2>2. \A x \in DOMAIN runs : runs[x].state = "completed"
    BY <1>a, <1>b, <2>1 DEF OpenInv
  <2>3. /\ UNCHANGED <<review, sweep, stop>> /\ Len(runs') = Len(runs) + 1
        /\ \A x \in DOMAIN runs : x \in DOMAIN runs' /\ runs'[x] = runs[x]
        /\ runs'[Len(runs) + 1] = Admitted
        /\ DOMAIN runs' = DOMAIN runs \cup {Len(runs) + 1}
    BY <1>2, <1>a, AdmitEffect
  <2>4. Admitted.state = "pending"
    BY DEF Admitted
  <2>. QED  BY <1>a, <2>1, <2>2, <2>3, <2>4 DEF OpenInv
<1>3. CASE MarkReviewerSessionRequested
  <2>1. PICK r \in DOMAIN runs : r = R
    BY <1>3, Worked DEF MarkReviewerSessionRequested, At
  <2>2. /\ Rewrites(r, Requested(runs[r])) /\ runs[r].state = "pending"
        /\ UNCHANGED <<review, sweep, stop>>
    BY <1>3, <1>a, <2>1, RequestEffect
  <2>3. Requested(runs[r]).state = runs[r].state
    BY <1>a, RewrittenFields
  <2>. QED  BY <1>a, <2>2, <2>3, OpenRewritten
<1>4. CASE SealReviewerResult
  <2>1. PICK r \in DOMAIN runs : r = R
    BY <1>4, Worked DEF SealReviewerResult, At
  <2>2. PICK v : v = Sealed(runs[r], world[r].exit) /\ Rewrites(r, v)
    BY <1>4, <1>a, <2>1, SealEffect
  <2>3. v.state = runs[r].state /\ v.requested = runs[r].requested
    BY <1>a, <2>2, RewrittenFields
  <2>4. UNCHANGED <<review, sweep, stop>>
    BY <1>4, <1>a, <2>1, SealEffect
  <2>. QED  BY <1>a, <2>2, <2>3, <2>4, OpenRewritten
<1>5. CASE FinishReconciliationEffect \/ SupersedePlanReview \/ \E r \in Runs : VerifyMarker(r)
  <2>1. ASSUME NEW r \in DOMAIN runs, NEW res, Rewrites(r, Over(runs[r], res)),
               UNCHANGED <<sweep, stop>>, review'.run = r, runs[r].state = "pending"
        PROVE  OpenInv'
    <3>1. Over(runs[r], res).state = "completed"
      BY <1>a, RewrittenFields
    <3>. QED  BY <1>a, <2>1, <3>1, OpenRewritten
  <2>2. CASE UNCHANGED ledger
    BY <1>0, <1>a, <2>2, QuietSame
  <2>. QED  BY <1>5, <2>1, <2>2, ConcludeSteps
<1>6. CASE PlanSweep
  <2>1. stop.state = "none" /\ review.run # 0
        /\ \A x \in DOMAIN runs : runs[x].state # "pending"
    BY <1>6 DEF PlanSweep, sweepable, busy, pending, known, runs, stop, review
  <2>2. sweep' /\ UNCHANGED <<review, runs, stop>>
    BY <1>6, <1>a, PlanSweepEffect
  <2>. QED  BY <1>a, <2>1, <2>2 DEF OpenInv
<1>7. CASE FinishSweep
  <2>1. R \in DOMAIN runs
    BY <1>7, Worked DEF FinishSweep, At
  <2>2. ~sweep' /\ review'.run = 0 /\ UNCHANGED <<runs, stop>>
    BY <1>7, <1>a, <2>1, FinishSweepEffect
  <2>. QED  BY <1>a, <2>2 DEF OpenInv
<1>8. CASE Destroy
  <2>1. ~sweep' /\ stop.state = "none" /\ stop'.state = "pending"
    BY <1>8, <1>a, DestroyEffect
  <2>2. CASE /\ UNCHANGED <<review, runs>>
             /\ stop'.run = stop.run /\ stop'.requested = stop.requested
             /\ \A r \in DOMAIN runs : runs[r].state # "pending"
    BY <1>a, <2>1, <2>2 DEF OpenInv
  <2>3. ASSUME NEW r \in DOMAIN runs, Drops(r)
        PROVE  OpenInv'
    <3>1. /\ DOMAIN runs' = DOMAIN runs /\ Len(runs') = Len(runs)
          /\ runs'[r] = Dropped(runs[r])
          /\ \A x \in DOMAIN runs : x # r => runs'[x] = runs[x]
          /\ runs[r].state = "pending" /\ review' = review
          /\ stop'.run = r /\ stop'.requested = runs[r].requested
      BY <2>3 DEF Drops, Rewrites
    <3>2. r = Len(runs) /\ \A x \in DOMAIN runs : x # r => runs[x].state = "completed"
      BY <1>a, <3>1 DEF OpenInv
    <3>3. Dropped(runs[r]).state = "dropped" /\ Dropped(runs[r]).requested = runs[r].requested
      BY <1>a, RewrittenFields
    <3>. QED  BY <1>a, <2>1, <3>1, <3>2, <3>3 DEF OpenInv
  <2>. QED  BY <1>8, <1>a, <2>2, <2>3, DestroyEffect
<1>9. CASE FinishStop
  <2>1. stop.state = "pending"
    BY <1>9 DEF FinishStop, At, ReviewerInv, StageInv
  <2>2. CASE /\ UNCHANGED <<runs, sweep>> /\ review'.run = 0
             /\ stop'.state = "completed"
             /\ stop'.run = stop.run /\ stop'.requested = stop.requested
    BY <1>a, <2>1, <2>2 DEF OpenInv
  <2>3. CASE UNCHANGED ledger
    BY <1>0, <1>a, <2>3, QuietSame
  <2>. QED  BY <1>9, <1>a, <2>2, <2>3, FinishStopEffect
<1>. QED  BY <1>1, <1>2, <1>3, <1>4, <1>5, <1>6, <1>7, <1>8, <1>9, NextCases

-----------------------------------------------------------------------------
(* The jobs' course *)

\* A job goes on to its next point, with the run it has.
Moves(p) == holder'.at = p /\ holder'.job = holder.job /\ holder'.run = holder.run
\* Where a reviewer is stopped.
Probing == {"probe", "hold", "kill", "prove"}
Steady  == stop'.state = stop.state /\ stop'.run = stop.run

\* Who leaves has no place to be.
LEMMA StageLeft ==
  ASSUME holder' = Nobody
  PROVE  StageInv'
BY DEF Nobody, StageInv, Stages

\* A job keeps its place or moves to one of its own, while its effect stands.
LEMMA StageMoved ==
  ASSUME ReviewerInv, Grows, Steady, NEW p, Moves(p), p \in Stages(holder.job),
         holder.job # "idle",
         holder.job = "stop" /\ p \in Probing => holder.at \in Probing,
         holder.job = "sweep" => sweep' = sweep /\ review'.run = review.run
  PROVE  StageInv'
<1>1. holder # Nobody
  BY DEF Nobody
<1>. QED  BY <1>1 DEF ReviewerInv, StageInv, R, Steady, Moves, Grows, Probing

\* So does one that is left alone.
LEMMA StageSame ==
  ASSUME ReviewerInv, Grows, Steady, UNCHANGED holder,
         holder.job = "sweep" => sweep' = sweep /\ review'.run = review.run
  PROVE  StageInv'
BY DEF ReviewerInv, StageInv, R, Steady, Grows

\* Every job starts at its first point, with a run that its effect names.
Begins == BeginSweep \/ BeginStop \/ \E r \in Runs : Observe(r) \/ BeginSupersede(r)

\* A new job is where it may be.
LEMMA StageBegun ==
  ASSUME ReviewerInv, Begins
  PROVE  StageInv'
<1>a. /\ TypeOK /\ review.run \in {0} \cup Runs /\ stop.run \in {0} \cup Runs
      /\ 0 \notin DOMAIN runs /\ DOMAIN runs \subseteq Runs
      /\ stop.state \in {"none", "pending", "completed"}
  BY Worked, LedgerTypes DEF Review, Stop
<1>b. UNCHANGED ledger
  BY DEF Begins, BeginSweep, BeginStop, Observe, BeginSupersede
<1>c. UNCHANGED <<review, runs, sweep, proofs, stop>>
  BY <1>b DEF review, runs, sweep, proofs, stop
<1>1. CASE BeginSweep
  <2>1. Begin("sweep", review.run, "clean") /\ sweep
    BY <1>1 DEF BeginSweep, review, sweep
  <2>2. /\ holder'.job = "sweep" /\ holder'.run = review.run /\ holder'.at = "clean"
    BY <1>a, <2>1, HolderBegin DEF Jobs, Points
  <2>3. review.run \in DOMAIN runs /\ stop.state = "none"
    BY <2>1 DEF ReviewerInv, OpenInv
  <2>. QED  BY <1>c, <2>1, <2>2, <2>3 DEF StageInv, Stages, R
<1>2. CASE BeginStop
  <2>1. PICK p \in {"probe", "clean"} : Begin("stop", stop.run, p)
                                        /\ (p = "probe" => stop.run # 0)
    BY <1>2 DEF BeginStop, stopPoint, stop
  <2>2. /\ holder'.job = "stop" /\ holder'.run = stop.run /\ holder'.at = p
    BY <1>a, <2>1, HolderBegin DEF Jobs, Points
  <2>3. stop.state = "pending"
    BY <1>2 DEF BeginStop, stop
  <2>. QED  BY <1>c, <2>1, <2>2, <2>3 DEF StageInv, Stages, R
<1>3. ASSUME NEW r \in Runs, Observe(r)
      PROVE  StageInv'
  <2>1. PICK p \in {"never", "bind", "seal"} : Begin("replay", r, p)
    BY <1>3 DEF Observe
  <2>a. p \in Points /\ r \in {0} \cup Runs /\ "replay" \in Jobs
    BY DEF Points, Jobs
  <2>2. /\ holder'.job = "replay" /\ holder'.run = r /\ holder'.at = p
    BY <2>a, <2>1, HolderBegin
  <2>3. r \in DOMAIN runs /\ stop.state = "none"
    BY <1>3 DEF Observe, readable, current, pending, known, runs, stop
  <2>. QED  BY <1>c, <2>2, <2>3 DEF StageInv, Stages, R
<1>4. ASSUME NEW r \in Runs, BeginSupersede(r)
      PROVE  StageInv'
  <2>1. PICK p \in {"probe", "commit"} : Begin("supersede", r, p)
    BY <1>4 DEF BeginSupersede
  <2>a. p \in Points /\ r \in {0} \cup Runs /\ "supersede" \in Jobs
    BY DEF Points, Jobs
  <2>2. /\ holder'.job = "supersede" /\ holder'.run = r /\ holder'.at = p
    BY <2>a, <2>1, HolderBegin
  <2>3. r \in DOMAIN runs /\ runs[r].state = "pending"
    BY <1>4 DEF BeginSupersede, superseded, pending, known, runs
  <2>4. stop.state = "none"
    BY <2>3 DEF ReviewerInv, OpenInv
  <2>. QED  BY <1>c, <2>2, <2>3, <2>4 DEF StageInv, Stages, R
<1>. QED  BY <1>1, <1>2, <1>3, <1>4 DEF Begins

\* A Stop probes before it cleans, and cleans before it says so.
Onward(p) ==
  holder.job = "stop" =>
    /\ p \in Probing => holder.at \in Probing
    /\ p \in {"certify", "settle"} => Cleaned \/ CleanAttemptResources

\* Every other step of a job moves it on, or ends it; the rest leave it alone.
LEMMA HolderSteps ==
  ASSUME ReviewerInv, Certifies \/ Idles
  PROVE  \/ Begins \/ holder' = Nobody \/ UNCHANGED holder
         \/ /\ holder.job # "idle"
            /\ \E p \in Stages(holder.job) :
                 Moves(p) /\ Onward(p)
<1>a. /\ TypeOK /\ holder.job \in Jobs
      /\ holder.at \in Probing => holder.job \in {"supersede", "stop"}
      /\ \A p \in Points : To(p) => Moves(p)
  BY Worked, HolderTo DEF TypeOK, Holder, Probing, Moves
<1>1. CASE Clear \/ ForgetReviewerProof \/ Prepare \/ CreateSession
  <2>1. holder.job = "launch"
    BY <1>1 DEF Clear, ForgetReviewerProof, Prepare, CreateSession, At
  <2>2. holder' = Nobody \/ \E p \in {"certify", "clear", "request", "never"} : Moves(p)
    <3>1. CASE Prepare
      BY <1>a, <3>1 DEF Prepare, Moves, Points, TypeOK, Holder
    <3>. QED  BY <1>1, <1>a, <3>1 DEF Clear, ForgetReviewerProof, CreateSession,
         Leave, Points
  <2>. QED  BY <2>1, <2>2 DEF Stages, Onward
<1>2. CASE ProveNeverRan \/ MarkPlanReviewRunning \/ ReleaseReviewer \/ WriteMarker
  <2>1. holder.job \in {"launch", "replay"}
    BY <1>2 DEF ProveNeverRan, MarkPlanReviewRunning, ReleaseReviewer, WriteMarker,
       At
  <2>2. \/ holder' = Nobody \/ \E p \in {"mark", "finish"} : Moves(p)
        \/ Moves("release") /\ holder.job = "replay"
    <3>1. CASE ProveNeverRan
      BY <1>a, <3>1 DEF ProveNeverRan, Moves, Leave, TypeOK, Holder
    <3>. QED  BY <1>2, <1>a, <3>1 DEF MarkPlanReviewRunning, ReleaseReviewer,
         WriteMarker,
              Leave, Points, At
  <2>. QED  BY <2>1, <2>2 DEF Stages, Onward
<1>3. CASE StopReviewerSession \/ BindReviewerStopping \/ KillReviewer
  <2>1. holder.job \in {"supersede", "stop"} /\ holder.at \in Probing
    BY <1>3, <1>a DEF StopReviewerSession, BindReviewerStopping, KillReviewer,
       Probing
  <2>2. holder' = Nobody \/ \E p \in {"kill", "hold", "prove"} : Moves(p)
    <3>1. CASE StopReviewerSession
      BY <1>a, <3>1 DEF StopReviewerSession, Moves, Leave, Points, TypeOK, Holder
    <3>. QED  BY <1>3, <1>a, <3>1 DEF BindReviewerStopping, KillReviewer, Leave,
         Points
  <2>. QED  BY <2>1, <2>2 DEF Stages, Onward
<1>4. CASE ProveReviewerDead \/ CleanReviewResources
  <2>1. \/ holder' = Nobody
        \/ holder.job = "supersede" /\ Moves("commit")
        \/ holder.job = "sweep" /\ Moves("settle")
    BY <1>4, <1>a DEF ProveReviewerDead, CleanReviewResources, At, Leave, Points
  <2>. QED  BY <2>1 DEF Stages, Onward
<1>5. CASE MarkReviewerStopped \/ CleanAttemptResources \/ MarkReviewerResourcesCleaned
  <2>1. holder.job = "stop"
    BY <1>5 DEF MarkReviewerStopped, CleanAttemptResources,
       MarkReviewerResourcesCleaned, At
  <2>2. \/ holder' = Nobody \/ Moves("clean")
        \/ Moves("certify") /\ CleanAttemptResources
        \/ Moves("settle") /\ Cleaned
    BY <1>5, <1>a DEF MarkReviewerStopped, CleanAttemptResources,
       MarkReviewerResourcesCleaned, At, Leave, Points, Cleaned
  <2>. QED  BY <2>1, <2>2 DEF Stages, Probing, Onward
<1>6. CASE GiveUp \/ Crash
  BY <1>6 DEF GiveUp, Crash, Leave
<1>7. CASE Retarget \/ Gone \/ \E r \in Runs : Machine(r) \/ LoseSession(r) \/ Revoke(r)
  BY <1>7 DEF Retarget, Gone, Machine, LoseSession, Revoke, CreatePane, StartChild,
     RecordLaunch, ChildExit, Reap, moved, vars
<1>. QED  BY <1>1, <1>2, <1>3, <1>4, <1>5, <1>6, <1>7 DEF Certifies, Idles, Begins

\* Every step leaves the jobs on their course.
LEMMA StageStep ==
  ASSUME ReviewerInv, Next
  PROVE  StageInv'
<1>a. TypeOK /\ Grows /\ \A x \in DOMAIN runs : x \in Runs
  BY Worked, LedgerGrows, LedgerTypes
<1>1. CASE Certifies \/ Idles
  <2>1. Steady /\ sweep' = sweep /\ review'.run = review.run
    BY <1>1, QuietSteps DEF Quiet, SameStop, Steady
  <2>. QED  BY <1>1, <1>a, <2>1, HolderSteps, StageBegun, StageLeft, StageSame,
       StageMoved
            DEF Onward
<1>2. CASE BeginRun
  <2>1. Begin("launch", Len(runs) + 1, "clear") /\ Len(runs) + 1 \in Runs
    BY <1>2, <1>a, LedgerTypes, ReviewerAssumption DEF BeginRun, runs, Runs
  <2>2. /\ holder'.job = "launch" /\ holder'.run = Len(runs) + 1 /\ holder'.at = "clear"
    BY <2>1, HolderBegin DEF Jobs, Points
  <2>3. DOMAIN runs' = DOMAIN runs \cup {Len(runs) + 1} /\ stop' = stop
    BY <1>2, <1>a, AdmitEffect
  <2>4. stop.state = "none"
    BY <1>2 DEF BeginRun, admissible, stop
  <2>. QED  BY <2>2, <2>3, <2>4 DEF StageInv, Stages, R
<1>3. CASE MarkReviewerSessionRequested \/ SealReviewerResult
  <2>1. R \in DOMAIN runs /\ holder.job \in {"launch", "replay"}
    BY <1>3, Worked DEF MarkReviewerSessionRequested, SealReviewerResult, At
  <2>2. Steady
    BY <1>3, <1>a, <2>1, RequestEffect, SealEffect DEF Steady
  <2>3. \/ holder.job = "launch" /\ Moves("create")
        \/ holder.job = "replay" /\ Moves("mark")
    BY <1>3, <1>a, HolderTo DEF MarkReviewerSessionRequested, SealReviewerResult,
       At, Moves,
       Points, TypeOK, Holder
  <2>. QED  BY <1>a, <2>1, <2>2, <2>3, StageMoved DEF Stages, Probing
<1>4. CASE FinishReconciliationEffect \/ SupersedePlanReview \/ FinishSweep \/ FinishStop
  BY <1>4, StageLeft DEF FinishReconciliationEffect, SupersedePlanReview,
     FinishSweep,
     FinishStop, Leave
<1>5. ASSUME NEW r \in Runs, VerifyMarker(r)
      PROVE  StageInv'
  <2>1. r \in DOMAIN runs /\ runs[r].state = "pending" /\ UNCHANGED holder
    BY <1>5 DEF VerifyMarker, finishable, current, pending, known, runs
  <2>2. holder.job # "sweep"
    BY <2>1 DEF ReviewerInv, OpenInv, StageInv
  <2>3. Steady
    <3>1. UNCHANGED ledger => Steady
      BY DEF Steady, stop
    <3>. QED  BY <1>5, <3>1, ConcludeSteps DEF Steady
  <2>. QED  BY <1>a, <2>1, <2>2, <2>3, StageSame
<1>6. CASE PlanSweep
  <2>1. sweep' /\ UNCHANGED <<review, runs, stop>> /\ UNCHANGED holder
    BY <1>6, <1>a, PlanSweepEffect DEF PlanSweep
  <2>. QED  BY <2>1 DEF ReviewerInv, StageInv, R
<1>7. CASE Destroy
  <2>1. stop.state = "none" /\ stop'.state = "pending" /\ UNCHANGED holder
    BY <1>7, <1>a, DestroyEffect DEF Destroy
  <2>. QED  BY <1>a, <2>1 DEF ReviewerInv, StageInv, R, Grows
<1>. QED  BY <1>1, <1>2, <1>3, <1>4, <1>5, <1>6, <1>7, NextCases

-----------------------------------------------------------------------------
(* What the jobs rely on *)

\* Nothing is relied on at most of the points.
Making  == {"clear", "certify", "request", "create"}
Relying == {"seal", "release", "mark", "finish", "prove"}

\* A job at another point relies on nothing.
LEMMA JobElsewhere ==
  ASSUME holder'.at \notin Relying, holder'.job = "launch" => holder'.at \notin Making
  PROVE  JobInv'
BY DEF Making, Relying, JobInv, Preparing

\* A job that is left alone can rely on what it did.
LEMMA JobKept ==
  ASSUME ReviewerInv, Grows, Lasting, UNCHANGED holder,
         \A x \in DOMAIN runs : runs'[x].state = "pending" =>
            /\ runs[x].state = "pending"
            /\ \A t \in Targets : proofs'[t].run = x => proofs[t].run = x
  PROVE  JobInv'
<1>1. /\ holder.at \in {"seal", "release", "prove"} => R \in DOMAIN runs
      /\ holder.job = "launch" => R \in DOMAIN runs
      /\ R \in DOMAIN runs => R \in Runs
  <2>1. holder.at \in Stages(holder.job) /\ holder.job \in Jobs
    BY DEF ReviewerInv, StageInv, TypeOK, Holder
  <2>2. holder.at \in {"seal", "release"} => holder.job = "replay"
    BY <2>1 DEF Stages, Jobs
  <2>. QED  BY <2>2, Worked
<1>2. R' = R
  BY DEF R
<1>3. Preparing' => /\ bare(R)'
                    /\ runs'[R].state = "pending" => \A t \in Targets : proofs'[t].run # R
  BY <1>1 DEF ReviewerInv, JobInv, Preparing, Lasting, Lasts, Nobody, R
<1>. QED  BY <1>1, <1>2, <1>3 DEF ReviewerInv, JobInv, Grows, Lasting, Lasts, W, R,
     ended, bare

\* The jobs' own steps give what the next point relies on.
LEMMA JobLaunch ==
  ASSUME ReviewerInv, Next, LaunchStep
  PROVE  JobInv'
<1>a. /\ TypeOK /\ R \in DOMAIN runs /\ R \in Runs /\ R # 0 /\ holder.job = "launch"
      /\ Grows /\ Lasting
  <2>1. holder.job = "launch"
    BY DEF LaunchStep, Clear, ForgetReviewerProof, Prepare,
       MarkReviewerSessionRequested,
       CreateSession, At
  <2>. QED  BY <2>1, Worked, LedgerGrows, WorldStep DEF Runs
<1>b. ASSUME NEW p \in Points, To(p)
      PROVE  holder'.at = p /\ holder'.job = "launch" /\ R' = R
  BY <1>a, <1>b, HolderTo DEF R
<1>r. PICK r \in Runs : r = R
  BY <1>a
<1>c. Preparing => /\ bare(r) /\ (holder.at # "create" => bare(r)')
                   /\ runs[R].state = "pending" => \A t \in Targets : proofs[t].run # R
  BY <1>a, <1>r DEF ReviewerInv, JobInv, Lasting, Lasts, At
<1>d. holder' = Nobody => JobInv'
  BY JobElsewhere DEF Nobody, Relying
<1>1. CASE Clear
  <2>1. CASE To("certify")
    <3>1. UNCHANGED ledger /\ holder.at = "clear"
      BY <1>1 DEF Clear, At
    <3>2. runs' = runs /\ proofs' = proofs
      BY <3>1 DEF runs, proofs
    <3>3. holder'.at = "certify" /\ holder'.job = "launch" /\ R' = R
      BY <1>b, <2>1 DEF Points
    <3>. QED  BY <1>a, <1>r, <1>c, <3>1, <3>2, <3>3 DEF Preparing, JobInv, bare, R
  <2>. QED  BY <1>1, <1>d, <2>1 DEF Clear, Leave
<1>2. CASE ForgetReviewerProof
  <2>1. holder'.at = "clear" /\ holder'.job = "launch" /\ R' = R /\ holder.at = "certify"
    BY <1>2, <1>b DEF ForgetReviewerProof, At, Points
  <2>2. runs' = runs /\ \A t \in Targets : proofs'[t] \in {proofs[t], NoProof}
    BY <1>2, <1>a, ForgetEffect
  <2>3. \A t \in Targets : proofs'[t].run = R => proofs[t].run = R
    BY <1>a, <2>2 DEF NoProof
  <2>. QED  BY <1>a, <1>r, <1>c, <2>1, <2>2, <2>3 DEF Preparing, JobInv, bare, R
<1>3. CASE Prepare
  <2>1. UNCHANGED ledger /\ holder.at = "clear"
    BY <1>3 DEF Prepare, At
  <2>2. runs' = runs /\ proofs' = proofs
    BY <2>1 DEF runs, proofs
  <2>3. CASE holder' = [holder EXCEPT !.at = "never", !.result = "failed"]
    <3>1. holder'.at = "never"
      BY <1>a, <2>3 DEF TypeOK, Holder
    <3>. QED  BY <3>1, JobElsewhere DEF Relying, Making
  <2>4. CASE To("request") /\ world'[R].snap
    <3>1. holder'.at = "request" /\ holder'.job = "launch" /\ R' = R
      BY <1>b, <2>4 DEF Points
    <3>2. world'[R'].snap
      BY <2>4, <3>1
    <3>. QED  BY <1>a, <1>r, <1>c, <2>1, <2>2, <3>1, <3>2 DEF Preparing, JobInv,
         bare, R, W
  <2>. QED  BY <1>3, <1>a, <2>3, <2>4, PrepareLooks
<1>4. CASE MarkReviewerSessionRequested
  <2>1. holder'.at = "create" /\ holder'.job = "launch" /\ R' = R /\ holder.at = "request"
        /\ world' = world
    BY <1>4, <1>b DEF MarkReviewerSessionRequested, At, Points
  <2>2. /\ Rewrites(R, Requested(runs[R])) /\ runs[R].state = "pending"
        /\ proofs' = proofs
    BY <1>4, <1>a, RequestEffect
  <2>3. runs'[R].requested
    BY <1>a, <2>2, LedgerTypes, RewrittenFields DEF Rewrites
  <2>4. W.snap
    BY <1>a, <2>1 DEF ReviewerInv, JobInv
  <2>. QED  BY <1>a, <1>r, <1>c, <2>1, <2>2, <2>3, <2>4 DEF Preparing, JobInv,
       bare, R, W
<1>5. CASE CreateSession
  BY <1>5, <1>d DEF CreateSession, Leave
<1>. QED  BY <1>1, <1>2, <1>3, <1>4, <1>5 DEF LaunchStep

\* The steps of a replay, and the end of a launch, do so.
LEMMA JobReplay ==
  ASSUME ReviewerInv, Next, ReplayStep
  PROVE  JobInv'
<1>a. /\ TypeOK /\ R \in DOMAIN runs /\ R \in Runs /\ holder.job \in {"launch", "replay"}
      /\ holder \in Holder
  <2>1. holder.job \in {"launch", "replay"}
    BY DEF ReplayStep, ProveNeverRan, MarkPlanReviewRunning, ReleaseReviewer,
       SealReviewerResult, WriteMarker, FinishReconciliationEffect, At
  <2>. QED  BY <2>1, Worked DEF TypeOK
<1>d. holder' = Nobody => JobInv'
  BY JobElsewhere DEF Nobody, Relying
<1>e. ASSUME holder'.at \in {"mark", "finish"}, holder'.result # "none"
      PROVE  JobInv'
  BY <1>e DEF JobInv, Preparing
<1>1. CASE ProveNeverRan
  <2>1. CASE holder' = [holder EXCEPT !.at = "mark", !.result = "failed"]
    BY <1>a, <1>e, <2>1 DEF Holder
  <2>. QED  BY <1>1, <1>d, <2>1 DEF ProveNeverRan, Leave
<1>2. CASE MarkPlanReviewRunning
  <2>1. CASE To("release") /\ runs'[R].bound
    <3>1. holder'.at = "release" /\ R' = R
      BY <1>a, <2>1, HolderTo DEF Points, R
    <3>. QED  BY <2>1, <3>1 DEF JobInv, Preparing
  <2>. QED  BY <1>2, <1>a, <1>d, <2>1, BoundEffect
<1>3. CASE ReleaseReviewer \/ FinishReconciliationEffect
  BY <1>3, <1>d DEF ReleaseReviewer, FinishReconciliationEffect, Leave
<1>4. CASE SealReviewerResult
  <2>1. ended(R)
    BY <1>4 DEF SealReviewerResult, At, ReviewerInv, JobInv
  <2>2. world[R].exit # "none"
    BY <1>a, <2>1 DEF ended, ReviewerInv, WorldInv, WorldOf
  <2>3. holder'.at = "mark" /\ holder'.result = world[R].exit
    BY <1>4, <1>a DEF SealReviewerResult, verdict, Holder
  <2>. QED  BY <1>e, <2>2, <2>3
<1>5. CASE WriteMarker
  <2>1. holder'.at = "finish" /\ holder'.result = holder.result
    BY <1>5, <1>a, HolderTo DEF WriteMarker, Points
  <2>2. holder.result # "none"
    BY <1>5 DEF WriteMarker, ReviewerInv, JobInv
  <2>. QED  BY <1>e, <2>1, <2>2
<1>. QED  BY <1>1, <1>2, <1>3, <1>4, <1>5 DEF ReplayStep

\* The steps that end a run do so.
LEMMA JobEnd ==
  ASSUME ReviewerInv, Next, EndStep
  PROVE  JobInv'
<1>a. TypeOK /\ holder \in Holder /\ holder.job \in Jobs
      /\ (holder.at \in Probing => R \in DOMAIN runs /\ R \in Runs)
      /\ (holder.at \in Probing => holder.job \in {"supersede", "stop"})
  BY Worked DEF TypeOK, Holder, Probing
<1>b. ASSUME holder'.at \in {"kill", "hold", "commit", "clean", "settle", "idle"}
      PROVE  JobInv'
  BY <1>b, JobElsewhere DEF Relying, Making
<1>c. \A p \in Points : To(p) => holder'.at = p /\ holder'.job = holder.job
  BY <1>a, HolderTo
<1>d. holder' = Nobody => JobInv'
  BY <1>b DEF Nobody
<1>1. CASE StopReviewerSession
  <2>1. CASE holder' = [holder EXCEPT !.at = "prove", !.never = TRUE]
    <3>1. holder'.at = "prove" /\ holder'.never
      BY <1>a, <2>1 DEF Holder
    <3>. QED  BY <3>1 DEF JobInv, Preparing
  <2>. QED  BY <1>1, <1>b, <1>c, <1>d, <2>1 DEF StopReviewerSession, Leave, Points
<1>2. CASE KillReviewer
  <2>1. CASE To("prove") /\ Looks(R, "none", "dead", IF W.child = "dead" THEN W.exit
                                                     ELSE "failed")
    <3>1. holder'.at = "prove" /\ R' = R
      BY <1>a, <2>1, HolderTo DEF Points, R
    <3>2. ended(R)'
      BY <2>1, <3>1 DEF Looks, ended
    <3>. QED  BY <3>1, <3>2 DEF JobInv, Preparing
  <2>. QED  BY <1>2, <1>a, <1>d, <2>1, KillLooks DEF KillReviewer, Probing, Leave
<1>3. CASE MarkReviewerResourcesCleaned \/ CleanAttemptResources
  <2>1. holder.job = "stop"
    BY <1>3 DEF MarkReviewerResourcesCleaned, CleanAttemptResources, At
  <2>2. holder' = Nobody \/ \E p \in {"settle", "certify"} : To(p)
    BY <1>3 DEF MarkReviewerResourcesCleaned, CleanAttemptResources, Leave
  <2>3. CASE \E p \in {"settle", "certify"} : To(p)
    BY <1>c, <2>1, <2>3, JobElsewhere DEF Points, Relying
  <2>. QED  BY <1>d, <2>2, <2>3
<1>4. CASE BindReviewerStopping \/ ProveReviewerDead \/ MarkReviewerStopped
           \/ SupersedePlanReview \/ CleanReviewResources \/ FinishSweep \/ FinishStop
  <2>1. holder' = Nobody \/ \E p \in {"kill", "commit", "clean", "settle"} : To(p)
    BY <1>4 DEF BindReviewerStopping, ProveReviewerDead, MarkReviewerStopped,
       SupersedePlanReview, CleanReviewResources, FinishSweep, FinishStop, Leave
  <2>. QED  BY <1>b, <1>c, <1>d, <2>1 DEF Points
<1>. QED  BY <1>1, <1>2, <1>3, <1>4 DEF EndStep

\* A job starts with what it has seen, and a launch with a run nothing exists of.
LEMMA JobBegun ==
  ASSUME ReviewerInv, Begins \/ BeginRun
  PROVE  JobInv'
<1>a. /\ TypeOK /\ review.run \in {0} \cup Runs /\ stop.run \in {0} \cup Runs
      /\ DOMAIN runs \subseteq Runs /\ Len(runs) \in Nat /\ DOMAIN runs = 1..Len(runs)
  BY Worked, LedgerTypes DEF Review, Stop
<1>1. CASE BeginSweep \/ BeginStop \/ \E r \in Runs : BeginSupersede(r)
  <2>1. \E job \in {"sweep", "stop", "supersede"}, r \in {0} \cup Runs,
           p \in {"clean", "probe", "commit"} : Begin(job, r, p)
    BY <1>1, <1>a DEF BeginSweep, BeginStop, BeginSupersede, stopPoint, review, stop
  <2>2. holder'.at \in {"clean", "probe", "commit"}
    BY <2>1 DEF Begin, Nobody
  <2>. QED  BY <2>2, JobElsewhere DEF Relying, Making
<1>2. ASSUME NEW r \in Runs, Observe(r)
      PROVE  JobInv'
  <2>1. CASE Begin("replay", r, "never") \/ Begin("replay", r, "bind")
    <3>1. holder'.at \in {"never", "bind"}
      BY <2>1 DEF Begin, Nobody
    <3>. QED  BY <3>1, JobElsewhere DEF Relying, Making
  <2>2. CASE Begin("replay", r, "seal") /\ world[r].pane = "dead" /\ UNCHANGED world
    <3>1. holder'.at = "seal" /\ R' = r
      BY <2>2 DEF Begin, Nobody, R
    <3>2. ended(r)'
      BY <2>2 DEF ended, ReviewerInv, WorldInv, WorldOf
    <3>. QED  BY <3>1, <3>2 DEF JobInv, Preparing
  <2>. QED  BY <1>2, <2>1, <2>2 DEF Observe
<1>3. CASE BeginRun
  <2>0. PICK r : r = Len(runs) + 1
    OBVIOUS
  <2>1. Begin("launch", r, "clear") /\ r \in Runs /\ r \notin DOMAIN runs /\ r # 0
        /\ world' = world
    BY <1>3, <1>a, <2>0, ReviewerAssumption DEF BeginRun, runs, Runs
  <2>2. holder'.at = "clear" /\ R' = r
    BY <2>1 DEF Begin, Nobody, R
  <2>3. bare(r)'
    BY <2>1 DEF bare, ReviewerInv, WorldInv, WorldOf
  <2>4. proofs' = proofs /\ \A t \in Targets : proofs[t].run # r
    BY <1>3, <1>a, <2>1, AdmitEffect DEF ReviewerInv, ProofInv, True
  <2>. QED  BY <2>2, <2>3, <2>4 DEF JobInv, Preparing
<1>. QED  BY <1>1, <1>2, <1>3 DEF Begins

\* Every step leaves each job what it relies on.
LEMMA JobInvStep ==
  ASSUME ReviewerInv, Next
  PROVE  JobInv'
<1>a. TypeOK /\ Grows /\ Lasting /\ \A x \in DOMAIN runs : runs[x] \in Run
  BY Worked, LedgerGrows, WorldStep, LedgerTypes
<1>d. holder' = Nobody => JobInv'
  BY JobElsewhere DEF Nobody, Relying
<1>0. ASSUME UNCHANGED holder, Quiet \/ runs' = runs, proofs' = proofs
      PROVE  JobInv'
  <2>1. \A x \in DOMAIN runs : runs'[x].state = runs[x].state
    BY <1>0 DEF Quiet, SameRun
  <2>. QED  BY <1>0, <1>a, <2>1, JobKept
<1>1. CASE LaunchStep \/ ReplayStep \/ EndStep
  BY <1>1, JobLaunch, JobReplay, JobEnd
<1>2. CASE GiveUp \/ Crash
  BY <1>2, <1>d DEF GiveUp, Crash, Leave
<1>3. CASE BeginRun \/ BeginSweep \/ BeginStop
           \/ \E r \in Runs : Observe(r) \/ BeginSupersede(r)
  BY <1>3, JobBegun DEF Begins
<1>4. CASE Retarget \/ Gone \/ \E r \in Runs : Machine(r) \/ LoseSession(r)
  <2>1. UNCHANGED ledger /\ UNCHANGED holder
    BY <1>4 DEF Retarget, Gone, vars, Machine, LoseSession, CreatePane, StartChild,
       RecordLaunch, ChildExit, Reap, moved, machine
  <2>. QED  BY <1>0, <2>1 DEF runs, proofs
<1>5. CASE PlanSweep
  BY <1>5, <1>0, <1>a, PlanSweepEffect DEF PlanSweep
<1>6. ASSUME NEW r \in Runs, Revoke(r)
      PROVE  JobInv'
  BY <1>6, <1>0, <1>a, RevokeEffect DEF Revoke
<1>7. ASSUME NEW r \in Runs, VerifyMarker(r)
      PROVE  JobInv'
  <2>1. ASSUME NEW u \in DOMAIN runs, NEW res, Rewrites(u, Over(runs[u], res)), proofs' = proofs
        PROVE  JobInv'
    <3>1. Over(runs[u], res).state = "completed"
      BY <1>a, RewrittenFields
    <3>2. \A x \in DOMAIN runs : runs'[x].state = "pending" => runs[x].state = "pending"
      BY <2>1, <3>1 DEF Rewrites
    <3>. QED  BY <1>7, <1>a, <2>1, <3>2, JobKept DEF VerifyMarker
  <2>2. UNCHANGED ledger => JobInv'
    BY <1>7, <1>0 DEF VerifyMarker, runs, proofs
  <2>. QED  BY <1>7, <2>1, <2>2, ConcludeSteps
<1>8. CASE Destroy
  <2>1. UNCHANGED holder
    BY <1>8 DEF Destroy
  <2>2. ASSUME NEW r \in DOMAIN runs, Drops(r)
        PROVE  JobInv'
    <3>1. Dropped(runs[r]).state = "dropped"
      BY <1>a, RewrittenFields
    <3>2. \A x \in DOMAIN runs : runs'[x].state = "pending" =>
            x # r /\ runs[x].state = "pending"
      BY <2>2, <3>1 DEF Drops, Rewrites
    <3>3. \A t \in Targets : proofs'[t] = proofs[t] \/ proofs'[t].run = r
      BY <1>a, <2>2, LedgerTypes DEF Drops, Recorded, Put
    <3>4. \A x \in DOMAIN runs : runs'[x].state = "pending" =>
            /\ runs[x].state = "pending"
            /\ \A t \in Targets : proofs'[t].run = x => proofs[t].run = x
      BY <3>2, <3>3
    <3>. QED  BY <1>a, <2>1, <3>4, JobKept
  <2>. QED  BY <1>8, <1>0, <1>a, <2>1, <2>2, DestroyEffect
<1>. QED  BY <1>1, <1>2, <1>3, <1>4, <1>5, <1>6, <1>7, <1>8 DEF Next, JobStep

-----------------------------------------------------------------------------
(* A destroyed attempt leaves no files *)

\* A Stop says that the files are gone once it has removed them.
LEMMA CleanedBefore ==
  ASSUME ReviewerInv, Next, Cleaned'
  PROVE  Cleaned \/ (CleanAttemptResources /\ cleanable)
<1>0. holder'.job = "stop" /\ holder'.at \in {"certify", "settle"} /\ holder' # Nobody
  BY DEF Cleaned, Nobody
<1>a. UNCHANGED holder => Cleaned
  BY DEF Cleaned
<1>1. CASE Certifies \/ Idles
  <2>1. CASE Begins
    <3>1. \E job \in Jobs, r \in {0, R} \cup Runs \cup {review.run, stop.run},
             p \in {"clean", "probe", "commit", "never", "bind", "seal"} : Begin(job, r, p)
      BY <2>1 DEF Begins, BeginSweep, BeginStop, BeginSupersede, Observe,
         stopPoint, Jobs,
         review, stop
    <3>2. holder'.at \in {"clean", "probe", "commit", "never", "bind", "seal"}
      BY <3>1 DEF Begin, Nobody
    <3>. QED  BY <1>0, <3>2
  <2>2. ASSUME NEW p, Moves(p), Onward(p)
        PROVE  Cleaned \/ (CleanAttemptResources /\ cleanable)
    <3>1. holder.job = "stop" /\ p \in {"certify", "settle"}
      BY <1>0, <2>2 DEF Moves
    <3>2. CleanAttemptResources => cleanable
      BY <1>0 DEF CleanAttemptResources, Leave
    <3>. QED  BY <2>2, <3>1, <3>2 DEF Onward
  <2>. QED  BY <1>0, <1>1, <1>a, <2>1, <2>2, HolderSteps
<1>2. CASE BeginRun
  BY <1>0, <1>2 DEF BeginRun, Begin, Nobody
<1>3. CASE MarkReviewerSessionRequested \/ SealReviewerResult
  <2>1. holder'.at \in {"create", "mark"}
    BY <1>3, HolderTo DEF MarkReviewerSessionRequested, SealReviewerResult, Points,
       ReviewerInv, TypeOK, Holder
  <2>. QED  BY <1>0, <2>1
<1>4. CASE FinishReconciliationEffect \/ SupersedePlanReview \/ FinishSweep \/ FinishStop
  BY <1>0, <1>4 DEF FinishReconciliationEffect, SupersedePlanReview, FinishSweep,
     FinishStop,
     Leave
<1>5. CASE PlanSweep \/ Destroy \/ \E r \in Runs : VerifyMarker(r)
  BY <1>5, <1>a DEF PlanSweep, Destroy, VerifyMarker
<1>. QED  BY <1>1, <1>2, <1>3, <1>4, <1>5, NextCases

\* The effect completes after that.
LEMMA CompletedBefore ==
  ASSUME ReviewerInv, Next, stop'.state = "completed"
  PROVE  Cleaned \/ stop.state = "completed"
<1>a. TypeOK /\ (UNCHANGED ledger => stop' = stop)
  BY Worked DEF stop
<1>1. CASE Certifies \/ Idles
  BY <1>1, QuietSteps DEF Quiet, SameStop
<1>2. CASE BeginRun \/ PlanSweep
  BY <1>2, <1>a, AdmitEffect, PlanSweepEffect
<1>3. CASE MarkReviewerSessionRequested \/ SealReviewerResult \/ FinishSweep
  <2>1. R \in DOMAIN runs
    BY <1>3, Worked DEF MarkReviewerSessionRequested, SealReviewerResult,
       FinishSweep, At
  <2>. QED  BY <1>3, <1>a, <2>1, RequestEffect, SealEffect, FinishSweepEffect
<1>4. CASE FinishReconciliationEffect \/ SupersedePlanReview \/ \E r \in Runs : VerifyMarker(r)
  BY <1>4, <1>a, ConcludeSteps
<1>5. CASE Destroy
  BY <1>5, <1>a, DestroyEffect
<1>6. CASE FinishStop
  BY <1>6 DEF FinishStop, At, Cleaned
<1>. QED  BY <1>1, <1>2, <1>3, <1>4, <1>5, <1>6, NextCases

\* Every step that says the files are gone follows their removal.
LEMMA CleanStep ==
  ASSUME ReviewerInv, Next
  PROVE  CleanInv'
<1>a. TypeOK /\ Lasting
  BY Worked, WorldStep
<1>1. CASE Cleaned \/ stop.state = "completed"
  <2>1. ~At("launch", "clear")
    BY <1>1 DEF Cleaned, At, ReviewerInv, StageInv, Nobody
  <2>. QED  BY <1>1, <1>a, <2>1 DEF ReviewerInv, CleanInv, Lasting, Lasts
<1>2. CASE CleanAttemptResources /\ cleanable
  <2>1. world' = wiped(world, certifiedRuns)
    BY <1>2 DEF CleanAttemptResources
  <2>2. ASSUME NEW x \in Runs, x \notin certifiedRuns
        PROVE  ~world[x].snap
    <3>1. SUFFICES ASSUME world[x].snap
                   PROVE  FALSE
      OBVIOUS
    <3>2. x \in DOMAIN runs /\ x # 0
      BY <3>1 DEF ReviewerInv, WorldInv, WorldOf, Runs
    <3>3. certified(ledger, x)
      BY <1>2, <3>1, <3>2 DEF cleanable, known, runs
    <3>4. runs[x].target \in Targets
      BY <1>a, <3>2, LedgerTypes
    <3>. QED  BY <2>2, <3>2, <3>3, <3>4 DEF certified, proofOf, certifiedRuns, runs
  <2>. QED  BY <1>a, <2>1, <2>2, WipedEffect DEF CleanInv
<1>. QED  BY <1>1, <1>2, CleanedBefore, CompletedBefore DEF CleanInv

-----------------------------------------------------------------------------
(* The theorems *)

\* What no step of the ledger or the machine changes keeps its type.
LEMMA FrameStep ==
  ASSUME TypeOK, Next
  PROVE  /\ mode' = mode /\ target' \in Targets
         /\ boots' \in 1..MaxBoots /\ faults' \in 0..MaxFaults
<1>0. /\ target \in Targets /\ boots \in 1..MaxBoots /\ faults \in 0..MaxFaults
      /\ MaxTargets \in Nat /\ MaxBoots \in Nat /\ MaxFaults \in Nat
  BY ReviewerAssumption DEF TypeOK
<1>1. /\ mode' = mode
      /\ target' = target \/ (target < MaxTargets /\ target' = target + 1)
      /\ boots' = boots \/ (boots < MaxBoots /\ boots' = boots + 1)
      /\ faults' = faults \/ (faults < MaxFaults /\ faults' = faults + 1)
  <2>1. CASE LaunchStep \/ GiveUp
    BY <2>1 DEF LaunchStep, Clear, ForgetReviewerProof, Prepare,
       MarkReviewerSessionRequested, CreateSession, GiveUp, frame
  <2>2. CASE ReplayStep
    BY <2>2 DEF ReplayStep, ProveNeverRan, MarkPlanReviewRunning, ReleaseReviewer,
       SealReviewerResult, WriteMarker, FinishReconciliationEffect, frame
  <2>3. CASE EndStep
    BY <2>3 DEF EndStep, StopReviewerSession, BindReviewerStopping, KillReviewer,
       ProveReviewerDead, MarkReviewerStopped, SupersedePlanReview, CleanReviewResources,
       FinishSweep, CleanAttemptResources, MarkReviewerResourcesCleaned, FinishStop, frame
  <2>4. CASE BeginRun \/ PlanSweep \/ BeginSweep \/ Destroy \/ BeginStop
    BY <2>4 DEF BeginRun, PlanSweep, BeginSweep, Destroy, BeginStop, frame
  <2>5. CASE Retarget \/ Crash \/ Gone
    BY <2>5 DEF Retarget, Crash, Gone, vars
  <2>6. ASSUME NEW r \in Runs, Observe(r) \/ VerifyMarker(r) \/ BeginSupersede(r) \/ Revoke(r)
        PROVE  UNCHANGED <<mode, target, boots, faults>>
    BY <2>6 DEF Observe, VerifyMarker, BeginSupersede, Revoke, frame
  <2>7. ASSUME NEW r \in Runs, Machine(r) \/ LoseSession(r)
        PROVE  /\ UNCHANGED <<mode, target, boots>>
               /\ faults' = faults \/ (faults < MaxFaults /\ faults' = faults + 1)
    BY <2>7 DEF Machine, LoseSession, CreatePane, StartChild, RecordLaunch,
       ChildExit, Reap,
       moved, machine
  <2>. QED  BY <2>1, <2>2, <2>3, <2>4, <2>5, <2>6, <2>7 DEF Next, JobStep
<1>. QED  BY <1>0, <1>1 DEF Targets

\* The invariant holds at the start.
LEMMA ReviewerInit ==
  ASSUME Init
  PROVE  ReviewerInv
<1>1. PICK rv : /\ rv = [state |-> "none", run |-> 0, target |-> 0, invalid |-> FALSE]
                /\ ledger = Book(rv, <<>>, FALSE, [t \in Targets |-> NoProof], NoStop)
  BY DEF Init, Book
<1>2. /\ review = rv /\ runs = <<>> /\ sweep = FALSE
      /\ proofs = [t \in Targets |-> NoProof] /\ stop = NoStop
  BY <1>1 DEF Book, review, runs, sweep, proofs, stop
<1>3. rv \in Review /\ NoStop \in Stop /\ <<>> \in Seq(Run)
      /\ [t \in Targets |-> NoProof] \in [Targets -> Proof]
  BY <1>1, NoProofTyped DEF Review, Results, NoStop, Stop
<1>4. ledger \in Ledger /\ Len(runs) <= MaxRuns
  BY <1>1, <1>2, <1>3, ReviewerAssumption DEF Ledger, Book
<1>5. Untouched \in World /\ \A r \in Runs : world[r] = Untouched
  BY DEF Untouched, World, Results, Init
<1>6. TypeOK
  BY <1>4, <1>5, ReviewerAssumption, NobodyTyped DEF TypeOK, Init, Targets, runs
<1>7. DOMAIN runs = {}
  BY <1>2
<1>8. OpenInv
  BY <1>1, <1>2, <1>7 DEF OpenInv, NoStop
<1>9. WorldInv
  BY <1>5 DEF WorldInv, WorldOf, Untouched, alive
<1>10. VerdictInv /\ ProofInv
  BY <1>2, <1>7 DEF VerdictInv, ProofInv, True, NoProof
<1>11. StageInv /\ JobInv /\ CleanInv
  BY <1>2 DEF Init, StageInv, Stages, Nobody, JobInv, Preparing, CleanInv, Cleaned,
     NoStop
<1>. QED  BY <1>6, <1>8, <1>9, <1>10, <1>11 DEF ReviewerInv

\* And every step keeps it.
LEMMA ReviewerInductive ==
  ASSUME ReviewerInv, [Next]_vars
  PROVE  ReviewerInv'
<1>1. CASE Next
  <2>1. TypeOK'
    BY <1>1, Worked, LedgerGrows, WorldStep, HolderTyped, FrameStep DEF TypeOK,
       Typed
  <2>. QED  BY <1>1, <2>1, OpenStep, WorldStep, VerdictStep, ProofStep, StageStep,
       JobInvStep,
            CleanStep DEF ReviewerInv
<1>2. CASE UNCHANGED vars
  BY <1>2 DEF vars, ReviewerInv, TypeOK, OpenInv, WorldInv, WorldOf, alive,
     VerdictInv,
     VerdictOf, ProofInv, True, StageInv, JobInv, Preparing, CleanInv, Cleaned, ended, bare,
     R, W, review, runs, sweep, proofs, stop
<1>. QED  BY <1>1, <1>2

\* Where every theorem starts.
THEOREM ReviewerInvariant == Spec => []ReviewerInv
BY ReviewerInit, ReviewerInductive, PTL DEF Spec

\* Every variable keeps its type.
THEOREM ReviewerTypes == Spec => []TypeOK
<1>1. ReviewerInv => TypeOK
  BY DEF ReviewerInv
<1>. QED  BY <1>1, ReviewerInvariant, PTL

\* Whatever was superseded, lost, stopped or started again, two reviewers of one
\* attempt are never alive: what is not the last run has concluded, and that it
\* could only with its process gone or never asked for.
THEOREM OneReviewer == Spec => []NeverTwoReviewers
<1>1. ASSUME ReviewerInv
      PROVE  NeverTwoReviewers
  <2>0. TypeOK
    BY <1>1 DEF ReviewerInv
  <2>1. ASSUME NEW r \in Runs, alive(r)
        PROVE  r = Len(runs)
    <3>1. r \in DOMAIN runs /\ runs[r].requested
      BY <1>1, <2>1 DEF ReviewerInv, WorldInv, WorldOf, alive
    <3>2. runs[r].state # "completed"
      BY <1>1, <2>1, <3>1 DEF ReviewerInv, VerdictInv, VerdictOf, ended, alive
    <3>. QED  BY <1>1, <2>0, <3>1, <3>2, LedgerTypes DEF ReviewerInv, OpenInv
  <2>. DEFINE S == {r \in Runs : alive(r)}
  <2>2. S \subseteq {Len(runs)}
    BY <2>1
  <2>3. IsFiniteSet({Len(runs)}) /\ Cardinality({Len(runs)}) = 1
    BY FS_Singleton
  <2>4. Cardinality(S) <= 1
    BY <2>2, <2>3, FS_Subset
  <2>. QED  BY <2>4 DEF NeverTwoReviewers
<1>. QED  BY <1>1, ReviewerInvariant, PTL

\* A death certificate is the truth about its run's process.
THEOREM ProofsAreHonest == Spec => []HonestProofs
<1>1. ASSUME ReviewerInv
      PROVE  HonestProofs
  <2>1. ASSUME NEW t \in Targets, proofs[t].run # 0
        PROVE  /\ proofs[t].dead /\ proofs[t].bound => world[proofs[t].run].child = "dead"
               /\ proofs[t].never => /\ world[proofs[t].run].child = "none"
                                     /\ world[proofs[t].run].pane = "none"
    <3>1. True(proofs[t]) /\ proofs[t].run \in DOMAIN runs
      BY <1>1, <2>1 DEF ReviewerInv, ProofInv, True
    <3>2. proofs[t].run \in Runs
      BY <1>1, <3>1, LedgerTypes DEF ReviewerInv
    <3>3. WorldOf(proofs[t].run)
      BY <1>1, <3>2 DEF ReviewerInv, WorldInv
    <3>. QED  BY <2>1, <3>1, <3>3 DEF True, ended, WorldOf
  <2>. QED  BY <2>1 DEF HonestProofs, proofs
<1>. QED  BY <1>1, ReviewerInvariant, PTL

\* A reviewer that may be alive has its tree, and one that works is known by group.
THEOREM KeptWork == Spec => []WorkIsKept
<1>1. ASSUME ReviewerInv
      PROVE  WorkIsKept
  <2>1. \A r \in DOMAIN runs : r \in Runs
    BY <1>1, LedgerTypes DEF ReviewerInv
  <2>. QED  BY <1>1, <2>1 DEF WorkIsKept, known, runs, ReviewerInv, WorldInv,
       WorldOf
<1>. QED  BY <1>1, ReviewerInvariant, PTL

\* A verdict is that of the run's own process.
THEOREM HonestVerdicts == Spec => []VerdictFromItsRun
<1>1. ASSUME ReviewerInv
      PROVE  VerdictFromItsRun
  BY <1>1 DEF VerdictFromItsRun, known, runs, ReviewerInv, VerdictInv, VerdictOf,
     ended
<1>. QED  BY <1>1, ReviewerInvariant, PTL

\* Once the destructive effect is complete no run has a process, a session or files.
THEOREM DestroyedRuns == Spec => []DestroyedClean
<1>1. ASSUME ReviewerInv
      PROVE  DestroyedClean
  BY <1>1 DEF DestroyedClean, remains, stop, ReviewerInv, CleanInv, WorldInv,
     WorldOf
<1>. QED  BY <1>1, ReviewerInvariant, PTL
=============================================================================
