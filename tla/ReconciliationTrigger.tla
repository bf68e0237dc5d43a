------------------------ MODULE ReconciliationTrigger ------------------------
(***************************************************************************)
(* The reconciliation trigger: one goroutine (loop) that runs cycles, and  *)
(* any number of requests that share the next cycle.  The ticker and the   *)
(* effect completions only ask for a cycle (trigger); the dashboard and    *)
(* the supervisor proposals wait for it (triggerAndWait).                  *)
(*                                                                         *)
(* Every section under r.mu is one action.  A send inside such a section   *)
(* on a full channel would park the goroutine with the mutex held; the     *)
(* flag "parked" records that it happened, and no section runs after it.   *)
(*                                                                         *)
(* The cycle itself is outside: it ends ok, with an error, or asks for     *)
(* fresh external observations (recollect).  r.runs and r.lastErr, which   *)
(* only tests read, are left out, and so is the nil receiver.              *)
(***************************************************************************)
EXTENDS Naturals, Sequences, FiniteSets

CONSTANTS Callers,  \* calls of triggerAndWait
          MaxRuns   \* bound on the run ids that trigger and recollect may draw

ASSUME TriggerAssumption == IsFiniteSet(Callers) /\ MaxRuns \in Nat

VARIABLES
  stopped,    \* r.stopped
  cancelled,  \* r.ctx is cancelled
  wake,       \* the run id in the wake channel (capacity 1), 0 when empty
  queuedID,   \* r.queuedID
  nextID,     \* r.nextID
  waiters,    \* r.waiters: run id -> callers waiting for it
  nilMap,     \* r.waiters = nil
  loop,       \* where the loop goroutine is
  id,         \* the run id it took from wake
  parked,     \* a goroutine waits on a full channel with r.mu held
  pc,         \* where each caller is
  ctx,        \* callers whose own context is cancelled
  wait,       \* each caller's wait channel (capacity 1)
  outcome,    \* what triggerAndWait returned
  stopper,    \* the goroutine in shutdown
  begun,      \* history: cycles begun
  since       \* history: cycles begun when the caller asked

queue == <<wake, queuedID, nextID, waiters, nilMap>>
calls == <<pc, ctx, wait, outcome, since>>
vars  == <<stopped, cancelled, queue, loop, id, parked, calls, stopper, begun>>

IDs    == 1..(MaxRuns + Cardinality(Callers))
Endings == {"ok", "error", "recollect"}

\* What a waiter is told; run and ending say which cycle it is told about.
Answer == [err : {"nil", "error", "stopped"}, run : Nat,
           ending : Endings \cup {"none"}]
Unserved(err) == [err |-> err, run |-> 0, ending |-> "none"]
NoAnswer == Unserved("stopped")

\* Every variable has its type, and channels hold at most their capacity.
TypeOK ==
  /\ stopped \in BOOLEAN /\ cancelled \in BOOLEAN
  /\ wake \in {0} \cup IDs /\ queuedID \in {0} \cup IDs /\ nextID \in {0} \cup IDs
  /\ waiters \in [IDs -> SUBSET Callers] /\ nilMap \in BOOLEAN
  /\ loop \in {"select", "begin", "run", "check", "close", "signal", "done"}
  /\ id \in {0} \cup IDs
  /\ parked \in BOOLEAN
  /\ pc \in [Callers -> {"idle", "waiting", "leaving", "returned"}]
  /\ ctx \subseteq Callers
  /\ wait \in [Callers -> Seq(Answer)] /\ \A c \in Callers : Len(wait[c]) <= 1
  /\ outcome \in [Callers -> Answer \cup {Unserved(e) :
                                            e \in {"none", "cancelled", "panic"}}]
  /\ stopper \in {"idle", "joining", "joined", "timeout"}
  /\ begun \in 0..Cardinality(IDs)
  /\ since \in [Callers -> 0..Cardinality(IDs)]

Init ==
  /\ stopped = FALSE /\ cancelled = FALSE
  /\ wake = 0 /\ queuedID = 0 /\ nextID = 0
  /\ waiters = [i \in IDs |-> {}] /\ nilMap = FALSE
  /\ loop = "select" /\ id = 0
  /\ parked = FALSE
  /\ pc = [c \in Callers |-> "idle"] /\ ctx = {}
  /\ wait = [c \in Callers |-> <<>>]
  /\ outcome = [c \in Callers |-> Unserved("none")]
  /\ stopper = "idle"
  /\ begun = 0 /\ since = [c \in Callers |-> 0]

-----------------------------------------------------------------------------
(* Requests *)

\* The run a request joins: the queued one, else a new one.  The first is a
\* wrong way to choose it: the running cycle.
joinsRunning == IF loop = "run" THEN id ELSE IF queuedID # 0 THEN queuedID ELSE nextID + 1
target == IF queuedID # 0 THEN queuedID ELSE nextID + 1

\* Queue run t: a new id goes into the wake channel.
enqueue(t) ==
  IF t <= nextID
    THEN UNCHANGED <<wake, queuedID, nextID, parked>>
    ELSE /\ nextID' = t /\ queuedID' = t
         /\ wake' = IF wake = 0 THEN t ELSE wake
         /\ parked' = (wake # 0)

return(c, answer) ==
  /\ pc' = [pc EXCEPT ![c] = "returned"]
  /\ outcome' = [outcome EXCEPT ![c] = answer]

\* triggerAndWait up to its select: a stopped runner refuses; otherwise the
\* caller waits for the run it joined.  After the loop has exited without
\* stopped the map is nil, and the assignment panics.
request(c) ==
  /\ pc[c] = "idle" /\ ~parked
  /\ \/ /\ stopped
        /\ return(c, NoAnswer)
        /\ UNCHANGED <<queue, parked, since>>
     \/ /\ ~stopped /\ nilMap
        /\ enqueue(target)
        /\ return(c, Unserved("panic"))
        /\ UNCHANGED <<waiters, nilMap, since>>
     \/ /\ ~stopped /\ ~nilMap
        /\ enqueue(target)
        /\ waiters' = [waiters EXCEPT ![target] = @ \cup {c}]
        /\ pc' = [pc EXCEPT ![c] = "waiting"]
        /\ since' = [since EXCEPT ![c] = begun]
        /\ UNCHANGED <<nilMap, outcome>>
  /\ UNCHANGED <<stopped, cancelled, loop, id, ctx, wait, stopper, begun>>

\* The ticker, the startup and every effect completion: request(nil).
trigger ==
  /\ ~stopped /\ ~parked
  /\ queuedID # 0 \/ nextID < MaxRuns
  /\ enqueue(target)
  /\ UNCHANGED <<stopped, cancelled, waiters, nilMap, loop, id, calls, stopper, begun>>

\* The caller's context ends: the HTTP client leaves or a timeout passes.
contextEnds(c) ==
  /\ pc[c] = "waiting" /\ c \notin ctx
  /\ ctx' = ctx \cup {c}
  /\ UNCHANGED <<stopped, cancelled, queue, loop, id, parked, pc, wait, outcome,
                 stopper, since, begun>>

takeAnswer(c) ==
  /\ pc[c] = "waiting" /\ wait[c] # <<>>
  /\ return(c, Head(wait[c]))
  /\ wait' = [wait EXCEPT ![c] = Tail(@)]
  /\ UNCHANGED <<stopped, cancelled, queue, loop, id, parked, ctx, stopper, since, begun>>

seeDone(c) ==
  /\ pc[c] = "waiting" /\ loop = "done"
  /\ return(c, NoAnswer)
  /\ UNCHANGED <<stopped, cancelled, queue, loop, id, parked, ctx, wait, stopper,
                 since, begun>>

seeContext(c) ==
  /\ pc[c] = "waiting" /\ c \in ctx
  /\ pc' = [pc EXCEPT ![c] = "leaving"]
  /\ UNCHANGED <<stopped, cancelled, queue, loop, id, parked, ctx, wait, outcome,
                 stopper, since, begun>>

\* Every run that may hold the caller's channel is searched, not only the
\* queued one.
without(c) == [i \in IDs |-> waiters[i] \ {c}]

removeWaiter(c) ==
  /\ pc[c] = "leaving" /\ ~parked
  /\ waiters' = without(c)
  /\ return(c, Unserved("cancelled"))
  /\ UNCHANGED <<stopped, cancelled, wake, queuedID, nextID, nilMap, loop, id, parked,
                 ctx, wait, stopper, since, begun>>

-----------------------------------------------------------------------------
(* The loop *)

\* select: a cancelled context and a queued run may both be ready.
receiveWake ==
  /\ loop = "select" /\ wake # 0
  /\ id' = wake /\ wake' = 0
  /\ loop' = "begin"
  /\ UNCHANGED <<stopped, cancelled, queuedID, nextID, waiters, nilMap, parked, calls,
                 stopper, begun>>

seeCancelled ==
  /\ loop = "select" /\ cancelled
  /\ loop' = "close"
  /\ UNCHANGED <<stopped, cancelled, queue, id, parked, calls, stopper, begun>>

\* From here on a request needs another run.
beginRun ==
  /\ loop = "begin" /\ ~parked
  /\ queuedID' = 0
  /\ loop' = "run" /\ begun' = begun + 1
  /\ UNCHANGED <<stopped, cancelled, wake, nextID, waiters, nilMap, id, parked, calls,
                 stopper, since>>

\* Send a to every caller in cs; a full channel parks the loop.
answer(cs, a) ==
  /\ wait' = [c \in Callers |-> IF c \in cs /\ wait[c] = <<>> THEN <<a>> ELSE wait[c]]
  /\ parked' = (\E c \in cs : wait[c] # <<>>)

\* The waiters of run i are now waiters of run t, and of no other run.
forgotten(i, t) == [waiters EXCEPT ![i] = {}]
movedTo(i, t) == [waiters EXCEPT ![t] = @ \cup waiters[i], ![i] = {}]

\* recollect while serving: the waiters follow the required fresh cycle.
recollect ==
  /\ ~cancelled
  /\ queuedID # 0 \/ nextID < MaxRuns
  /\ enqueue(target)
  /\ waiters' = movedTo(id, target)
  /\ UNCHANGED wait

\* Everything else, a recollect under a cancelled context included, answers
\* the waiters of this run; recollect counts as success.
complete(ending) ==
  /\ ending = "recollect" => cancelled
  /\ answer(waiters[id], [err |-> IF ending = "error" THEN "error" ELSE "nil",
                          run |-> begun, ending |-> ending])
  /\ waiters' = [waiters EXCEPT ![id] = {}]
  /\ UNCHANGED <<wake, queuedID, nextID>>

endRun ==
  /\ loop = "run" /\ ~parked
  /\ recollect \/ \E ending \in Endings : complete(ending)
  /\ loop' = "check"
  /\ UNCHANGED <<stopped, cancelled, nilMap, id, pc, ctx, outcome, stopper, since, begun>>

\* After the unlock: leave when the context is cancelled.
checkContext ==
  /\ loop = "check"
  /\ loop' = IF cancelled THEN "close" ELSE "select"
  /\ id' = 0
  /\ UNCHANGED <<stopped, cancelled, queue, parked, calls, stopper, begun>>

\* The deferred function: answer everyone left, then close r.done.
closeWaiters ==
  /\ loop = "close" /\ ~parked
  /\ answer(UNION {waiters[i] : i \in IDs}, NoAnswer)
  /\ waiters' = [i \in IDs |-> {}] /\ nilMap' = TRUE
  /\ loop' = "signal"
  /\ UNCHANGED <<stopped, cancelled, wake, queuedID, nextID, id, pc, ctx, outcome,
                 stopper, since, begun>>

closeDone ==
  /\ loop = "signal"
  /\ loop' = "done"
  /\ UNCHANGED <<stopped, cancelled, queue, id, parked, calls, stopper, begun>>

-----------------------------------------------------------------------------
(* Stopping *)

\* The daemon's lifecycle is cancelled first when startup fails.
lifecycleEnds ==
  /\ ~cancelled
  /\ cancelled' = TRUE
  /\ UNCHANGED <<stopped, queue, loop, id, parked, calls, stopper, begun>>

\* Refusing requests alone does not stop the loop.
refuse == stopped' = TRUE /\ UNCHANGED cancelled
stop == stopped' = TRUE /\ cancelled' = TRUE

shutdown ==
  /\ stopper = "idle" /\ ~parked
  /\ stop
  /\ stopper' = "joining"
  /\ UNCHANGED <<queue, loop, id, parked, calls, begun>>

shutdownJoins ==
  /\ stopper = "joining" /\ loop = "done"
  /\ stopper' = "joined"
  /\ UNCHANGED <<stopped, cancelled, queue, loop, id, parked, calls, begun>>

\* The shutdown context (ten seconds in serve) ends first.
shutdownTimeout ==
  /\ stopper = "joining"
  /\ stopper' = "timeout"
  /\ UNCHANGED <<stopped, cancelled, queue, loop, id, parked, calls, begun>>

-----------------------------------------------------------------------------
LoopStep == receiveWake \/ seeCancelled \/ beginRun \/ endRun \/ checkContext
            \/ closeWaiters \/ closeDone
CallerStep(c) == takeAnswer(c) \/ seeDone(c) \/ seeContext(c) \/ removeWaiter(c)

Next ==
  \/ LoopStep
  \/ \E c \in Callers : request(c) \/ contextEnds(c) \/ CallerStep(c)
  \/ trigger \/ lifecycleEnds
  \/ shutdown \/ shutdownJoins \/ shutdownTimeout

Spec == Init /\ [][Next]_vars

\* The loop and the callers are goroutines, and a cycle returns.  Nothing
\* makes a request, a cancellation or a shutdown happen.
FairSpec == Spec /\ WF_vars(LoopStep) /\ \A c \in Callers : WF_vars(CallerStep(c))
            /\ WF_vars(shutdownJoins)

-----------------------------------------------------------------------------
(* Properties *)

\* A waiter that is told of a cycle is told of one that began after it asked,
\* never of the cycle that was already reading GitHub (request, beginRun).
FreshCycle ==
  \A c \in Callers : outcome[c].run # 0 => outcome[c].run > since[c]

\* A caller that waits returns, whatever is queued, recollected or stopped.
EveryWaiterReturns ==
  \A c \in Callers : pc[c] = "waiting" ~> pc[c] = "returned"

\* shutdown ends the loop, whichever branch its select takes.
ShutdownFinishes == stopper = "joining" ~> loop = "done"
=============================================================================
