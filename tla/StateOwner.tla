----------------------------- MODULE StateOwner -----------------------------
(***************************************************************************)
(* The runtime-state owner of one repository daemon: the goroutine that is *)
(* the only committer of runtime-state.json (stateOwner.run), the private  *)
(* persistence worker behind it, the callers that submit commands and may  *)
(* abandon them through their context, and the readers that take snapshots *)
(* or subscribe to commits.                                                *)
(*                                                                         *)
(* What a command does to the ledger is the subject of the other modules.  *)
(* Here a ledger is the sequence of the commands whose transitions it      *)
(* holds, so that "which commands are in which copy of the ledger, and in  *)
(* which order" is exactly what the state can express.                     *)
(***************************************************************************)
EXTENDS Naturals, Sequences, FiniteSets

CONSTANTS Commands,      \* commands submitted by callers, each once
          Start,         \* the stateOwnerStart command of every process
          Readers,       \* callers of snapshot / snapshotAndSubscribe
          Subscribers,   \* the readers that call snapshotAndSubscribe
          NoCommand,     \* "inFlight == nil"
          NoReader,      \* "the owner is not blocked on a reader"
          QueueSize,     \* stateOwnerQueueSize (64 in the code)
          Impatient,     \* the callers whose contexts may end early
          MaxBoots       \* bound on process starts

ASSUME OwnerAssumption ==
  /\ Start \notin Commands
  /\ NoCommand \notin Commands \cup {Start}
  /\ Subscribers \subseteq Readers
  /\ NoReader \notin Readers
  /\ Impatient \subseteq Commands \cup Readers \cup {Start}
  /\ QueueSize \in Nat \ {0}
  /\ MaxBoots \in Nat \ {0}

VARIABLES
  file,       \* runtime-state.json as a reader of the directory sees it
  synced,     \* the ledger that survives a power loss
  boots,      \* process starts so far
  up,         \* a process is running
  committed,  \* the owner's in-memory ledger
  queue,      \* admitted commands that have not been started
  inFlight,   \* the command whose candidate is with the persistence worker
  worker,     \* progress of the persistence worker on that candidate
  stopSignal, \* o.stop is closed
  stopping,   \* the owner has seen it and cancelled the persistence context
  poisoned,   \* a ledger was installed whose durability is unknown
  done,       \* o.done is closed
  resend,     \* reader whose second reply the owner is blocked on
  client,     \* progress of each caller through submitWithAdmission
  ctx,        \* the caller's context is cancelled
  arb,        \* stateOwnerCommandArbitration of each command
  reply,      \* command.reply: a channel of capacity one
  outcome,    \* what submit returned
  reader,     \* progress of each reader through requestSnapshot
  rctx,       \* the reader's context is cancelled
  answer,     \* request.reply of each reader: a channel of capacity one
  got,        \* what the reader was given
  since,      \* commands acknowledged when the reader asked
  active,     \* registered subscribers
  updates,    \* subscriber channels, capacity one, latest value wins
  seen,       \* the last ledger a subscriber has been handed
  unsub       \* o.unsubscribe: subscriptions to be cancelled

diskVars   == <<file, synced, boots>>
ownerVars  == <<up, committed, queue, inFlight, worker, stopSignal, stopping,
                poisoned, done>>
clientVars == <<client, ctx, arb, reply, outcome>>
readerVars == <<reader, rctx, answer, got, since, active, updates, seen, unsub,
                resend>>
vars       == <<diskVars, ownerVars, clientVars, readerVars>>

-----------------------------------------------------------------------------
(* Types *)

AllCommands == Commands \cup {Start}
Ledger      == Seq(AllCommands)
Elements(s) == {s[i] : i \in 1..Len(s)}

WorkerState == {"idle", "received", "checked", "renamed",
                "ok", "failed", "installed"}
Replies     == {"ok", "noop", "refused", "cancelled", "stopped", "poisoned",
                "failed", "installed"}
Outcomes    == Replies \cup {"none", "context", "lost"}

\* What a reader can be given: an error or a ledger.
ErrorAnswer     == [err |-> TRUE, ledger |-> <<>>]
LedgerAnswer(l) == [err |-> FALSE, ledger |-> l]
Answers         == [err : BOOLEAN, ledger : Ledger]

OwnerTypes ==
  /\ file \in Ledger /\ synced \in Ledger /\ boots \in 0..MaxBoots
  /\ up \in BOOLEAN
  /\ committed \in Ledger
  /\ queue \in Seq(AllCommands)
  /\ inFlight \in AllCommands \cup {NoCommand}
  /\ worker \in WorkerState
  /\ stopSignal \in BOOLEAN /\ stopping \in BOOLEAN
  /\ poisoned \in BOOLEAN /\ done \in BOOLEAN

ClientTypes ==
  /\ client \in [AllCommands -> {"idle", "offering", "waiting", "returned"}]
  /\ ctx \in [AllCommands -> BOOLEAN]
  /\ arb \in [AllCommands -> {"open", "cancelled", "claimed"}]
  /\ reply \in [AllCommands -> Seq(Replies)]
  /\ outcome \in [AllCommands -> Outcomes]

ReaderTypes ==
  /\ resend \in Readers \cup {NoReader}
  /\ reader \in [Readers -> {"idle", "offering", "waiting", "draining",
                             "subscribed", "returned"}]
  /\ \A r \in Readers : reader[r] = "subscribed" => r \in Subscribers
  /\ rctx \in [Readers -> BOOLEAN]
  /\ answer \in [Readers -> Seq(Answers)]
  /\ got \in [Readers -> Answers]
  /\ since \in [Readers -> SUBSET AllCommands]
  /\ active \in SUBSET Subscribers
  /\ updates \in [Readers -> Seq(Ledger)]
  /\ seen \in [Readers -> Ledger]
  /\ unsub \in SUBSET Subscribers

\* Every variable has its type: in particular only commands reach a ledger, and
\* only callers of snapshotAndSubscribe hold subscriptions.
TypeOK == OwnerTypes /\ ClientTypes /\ ReaderTypes

-----------------------------------------------------------------------------
(* Process start and loss *)

(* An operator that stands directly before a definition and differs from it *)
(* in one detail (claimsAnyway before claim) is that definition with a      *)
(* plausible mistake. No action uses it: putting it in place of the         *)
(* definition must break a property.                                        *)

Init ==
  /\ file = <<>> /\ synced = <<>> /\ boots = 0
  /\ up = FALSE
  /\ committed = <<>> /\ queue = <<>> /\ inFlight = NoCommand
  /\ worker = "idle"
  /\ stopSignal = FALSE /\ stopping = FALSE /\ poisoned = FALSE /\ done = FALSE
  /\ resend = NoReader
  /\ client = [c \in AllCommands |-> "idle"]
  /\ ctx = [c \in AllCommands |-> FALSE]
  /\ arb = [c \in AllCommands |-> "open"]
  /\ reply = [c \in AllCommands |-> <<>>]
  /\ outcome = [c \in AllCommands |-> "none"]
  /\ reader = [r \in Readers |-> "idle"]
  /\ rctx = [r \in Readers |-> FALSE]
  /\ answer = [r \in Readers |-> <<>>]
  /\ got = [r \in Readers |-> ErrorAnswer]
  /\ since = [r \in Readers |-> {}]
  /\ active = {} /\ unsub = {}
  /\ updates = [r \in Readers |-> <<>>]
  /\ seen = [r \in Readers |-> <<>>]

\* startStateOwnerWithBootIdentity: the loaded ledger becomes the in-memory
\* one and the Start command is submitted before anybody holds the owner.
startStateOwner ==
  /\ ~up /\ boots < MaxBoots
  /\ boots' = boots + 1
  /\ up' = TRUE
  /\ committed' = file
  /\ client' = [client EXCEPT ![Start] = "offering"]
  /\ outcome' = [outcome EXCEPT ![Start] = "none"]
  /\ UNCHANGED <<file, synced, queue, inFlight, worker, stopSignal, stopping,
                 poisoned, done, ctx, arb, reply, readerVars>>

\* The owner has been handed to the rest of the daemon.
Serving == up /\ outcome[Start] \in {"ok", "noop"}

\* The process ends, by a crash or after close returned, and its memory and
\* every caller inside it with it. A power loss may also undo a rename whose
\* directory entry was never synced.
ProcessEnds ==
  /\ up
  /\ up' = FALSE
  /\ file' \in {file, synced}
  /\ client' = [c \in AllCommands |->
                  IF client[c] = "idle" THEN "idle" ELSE "returned"]
  /\ outcome' = [c \in AllCommands |->
                  IF client[c] \in {"offering", "waiting"}
                    THEN "lost" ELSE outcome[c]]
  /\ reader' = [r \in Readers |->
                  IF reader[r] = "idle" THEN "idle" ELSE "returned"]
  /\ committed' = <<>> /\ queue' = <<>> /\ inFlight' = NoCommand
  /\ worker' = "idle" /\ resend' = NoReader
  /\ stopSignal' = FALSE /\ stopping' = FALSE /\ poisoned' = FALSE
  /\ done' = FALSE
  /\ ctx' = [c \in AllCommands |-> FALSE]
  /\ arb' = [c \in AllCommands |-> "open"]
  /\ reply' = [c \in AllCommands |-> <<>>]
  /\ rctx' = [r \in Readers |-> FALSE]
  /\ answer' = [r \in Readers |-> <<>>]
  /\ active' = {} /\ unsub' = {}
  /\ updates' = [r \in Readers |-> <<>>]
  /\ seen' = [r \in Readers |-> <<>>]
  /\ UNCHANGED <<synced, boots, got, since>>

-----------------------------------------------------------------------------
(* The caller's side: submitWithAdmission *)

\* A caller whose context has already ended does not offer its command.
submit(c) ==
  /\ Serving /\ c \in Commands /\ client[c] = "idle"
  /\ \/ /\ client' = [client EXCEPT ![c] = "returned"]
        /\ outcome' = [outcome EXCEPT ![c] = "context"]
     \/ /\ client' = [client EXCEPT ![c] = "offering"]
        /\ UNCHANGED outcome
  /\ UNCHANGED <<diskVars, ownerVars, ctx, arb, reply, readerVars>>

\* The caller's context ends: a request timeout, a closed connection, shutdown.
cancelContext(c) ==
  /\ up /\ c \in Impatient
  /\ client[c] \in {"offering", "waiting"} /\ ~ctx[c]
  /\ ctx' = [ctx EXCEPT ![c] = TRUE]
  /\ UNCHANGED <<diskVars, ownerVars, client, arb, reply, outcome, readerVars>>

\* The first select of submitWithAdmission, without the rendezvous.
offerAbandoned(c) ==
  /\ up /\ client[c] = "offering"
  /\ client' = [client EXCEPT ![c] = "returned"]
  /\ \/ ctx[c] /\ outcome' = [outcome EXCEPT ![c] = "context"]
     \/ done /\ outcome' = [outcome EXCEPT ![c] = "stopped"]
  /\ UNCHANGED <<diskVars, ownerVars, ctx, arb, reply, readerVars>>

takeReply(c) ==
  /\ up /\ client[c] = "waiting" /\ reply[c] # <<>>
  /\ reply' = [reply EXCEPT ![c] = Tail(@)]
  /\ client' = [client EXCEPT ![c] = "returned"]
  /\ outcome' = [outcome EXCEPT ![c] = Head(reply[c])]
  /\ UNCHANGED <<diskVars, ownerVars, ctx, arb, readerVars>>

\* ctx.Done won the second select: the compare-and-swap decides. A caller that
\* loses it keeps waiting for the reply of the claimed command.
cancelWins(c) ==
  /\ up /\ client[c] = "waiting" /\ ctx[c] /\ arb[c] = "open"
  /\ arb' = [arb EXCEPT ![c] = "cancelled"]
  /\ client' = [client EXCEPT ![c] = "returned"]
  /\ outcome' = [outcome EXCEPT ![c] = "context"]
  /\ UNCHANGED <<diskVars, ownerVars, ctx, reply, readerVars>>

-----------------------------------------------------------------------------
(* The owner goroutine *)

Send(c, r) ==
  reply' = [reply EXCEPT ![c] = Append(@, r)]

\* The owner is between two iterations of its select loop.
Looping == up /\ ~done /\ resend = NoReader

\* startNext takes the head of the queue; the loop reaches its select only
\* when a candidate is in flight or nothing is queued.
startNextPending == inFlight = NoCommand /\ queue # <<>>
Selecting        == Looping /\ ~startNextPending

\* claimStateOwnerCommand: the owner's half of the compare-and-swap.
claimsAnyway(c) == TRUE
claim(c) == arb[c] = "open"

\* A command that is answered without reaching the persistence worker: it was
\* cancelled, the owner is poisoned, the transition is refused, or it changes
\* nothing. Only the last one claims the command.
startNextAnswered ==
  LET c == Head(queue)
  IN  /\ Looping /\ startNextPending
      /\ queue' = Tail(queue)
      /\ \/ arb[c] = "cancelled" /\ Send(c, "cancelled") /\ UNCHANGED arb
         \/ arb[c] # "cancelled" /\ UNCHANGED arb
              /\ Send(c, IF poisoned THEN "poisoned" ELSE "refused")
         \/ claim(c) /\ ~poisoned /\ Send(c, "noop")
              /\ c # Start
              /\ arb' = [arb EXCEPT ![c] = "claimed"]
      /\ UNCHANGED <<diskVars, up, committed, inFlight, worker, stopSignal,
                     stopping, poisoned, done, client, ctx, outcome,
                     readerVars>>

\* The command is claimed, then the candidate goes to the persistence worker.
startNextPersist ==
  LET c == Head(queue)
  IN  /\ Looping /\ startNextPending
      /\ claim(c) /\ ~poisoned
      /\ arb' = [arb EXCEPT ![c] = "claimed"]
      /\ queue' = Tail(queue)
      /\ inFlight' = c
      /\ worker' = "received"
      /\ UNCHANGED <<diskVars, up, committed, stopSignal, stopping, poisoned,
                     done, client, ctx, reply, outcome, readerVars>>

\* pending = append(pending, command)
enqueue(c) == Append(queue, c)

\* The rendezvous on o.commands. A full queue takes the case out of the select.
receiveCommand(c) ==
  /\ Selecting /\ ~(stopping /\ inFlight = NoCommand)
  /\ client[c] = "offering" /\ Len(queue) # QueueSize
  /\ client' = [client EXCEPT ![c] = "waiting"]
  /\ IF stopping
       THEN Send(c, "stopped") /\ UNCHANGED queue
       ELSE IF poisoned
         THEN Send(c, "poisoned") /\ UNCHANGED queue
         ELSE /\ queue' = enqueue(c)
              /\ UNCHANGED reply
  /\ UNCHANGED <<diskVars, up, committed, inFlight, worker, stopSignal,
                 stopping, poisoned, done, ctx, arb, outcome, readerVars>>

publishIfEmpty(l) == updates' = [r \in Readers |->
                            IF r \in active /\ updates[r] = <<>>
                              THEN <<l>> ELSE updates[r]]

\* publish: every subscriber channel ends up holding exactly the new ledger.
publish(l) == updates' = [r \in Readers |->
                            IF r \in active THEN <<l>> ELSE updates[r]]

\* pendingStateCommit.candidate: what is written, and then takes effect.
candidate == Append(committed, inFlight)

persistenceSucceeded ==
  /\ Selecting /\ worker = "ok"
  /\ committed' = candidate
  /\ publish(committed')
  /\ Send(inFlight, "ok")
  /\ inFlight' = NoCommand /\ worker' = "idle"
  /\ UNCHANGED <<diskVars, up, queue, stopSignal, stopping, poisoned, done, client, ctx, arb, outcome, reader, rctx, answer,
                 got, since, active, seen, unsub, resend>>

persistenceFailed ==
  /\ Selecting /\ worker = "failed"
  /\ Send(inFlight, "failed")
  /\ inFlight' = NoCommand /\ worker' = "idle"
  /\ UNCHANGED <<diskVars, up, committed, queue, stopSignal, stopping,
                 poisoned, done, client, ctx, arb, outcome,
                 readerVars>>

\* Answering everything queued, on top of the replies in sent.
drainSilently(r, sent) == reply' = sent /\ queue' = <<>>
drainQueue(r, sent) ==
  /\ reply' = [c \in AllCommands |-> IF c \in Elements(queue)
                                       THEN Append(sent[c], r) ELSE sent[c]]
  /\ queue' = <<>>

poisonNothing == UNCHANGED poisoned
poison == poisoned' = TRUE

\* statePersistenceInstalledError: the new ledger is visible in the directory
\* and its durability unknown, so the owner answers nothing any more.
persistenceInstalled ==
  /\ Selecting /\ worker = "installed"
  /\ poison
  /\ drainQueue("poisoned", [reply EXCEPT ![inFlight] = Append(@, "installed")])
  /\ inFlight' = NoCommand /\ worker' = "idle"
  /\ UNCHANGED <<diskVars, up, committed, stopSignal, stopping, done,
                 client, ctx, arb, outcome, readerVars>>

\* closeSignal, from close, from the daemon's context, or because the Start
\* command did not succeed.
closeSignal ==
  /\ up /\ ~stopSignal
  /\ stopSignal' = TRUE
  /\ UNCHANGED <<diskVars, up, committed, queue, inFlight, worker, stopping,
                 poisoned, done, clientVars, readerVars>>

receiveStop ==
  /\ Selecting /\ stopSignal /\ ~stopping
  /\ stopping' = TRUE
  /\ drainQueue("stopped", reply)
  /\ UNCHANGED <<diskVars, up, committed, inFlight, worker, stopSignal,
                 poisoned, done, client, ctx, arb, outcome,
                 readerVars>>

finish ==
  /\ Looping /\ stopping /\ inFlight = NoCommand
  /\ done' = TRUE
  /\ active' = {}
  /\ UNCHANGED <<diskVars, up, committed, queue, inFlight, worker, stopSignal,
                 stopping, poisoned, clientVars, reader, rctx,
                 answer, got, since, updates, seen, unsub, resend>>

-----------------------------------------------------------------------------
(* The persistence worker: writeRuntimeOwnerStateContext *)

\* Everything up to the rename that can fail leaves the directory alone.
writeFails ==
  /\ up /\ worker \in {"received", "checked"}
  /\ worker' = "failed"
  /\ UNCHANGED <<diskVars, up, committed, queue, inFlight, stopSignal,
                 stopping, poisoned, done, clientVars, readerVars>>

\* The temporary file is written and synced and the context is still live.
writeTemporary ==
  /\ up /\ worker = "received" /\ ~stopping
  /\ worker' = "checked"
  /\ UNCHANGED <<diskVars, up, committed, queue, inFlight, stopSignal,
                 stopping, poisoned, done, clientVars, readerVars>>

rename ==
  /\ up /\ worker = "checked"
  /\ file' = candidate
  /\ worker' = "renamed"
  /\ UNCHANGED <<synced, boots, up, committed, queue, inFlight, stopSignal,
                 stopping, poisoned, done, clientVars, readerVars>>

syncIgnored ==
  /\ up /\ worker = "renamed"
  /\ worker' = "ok"
  /\ synced' \in {file, synced}
  /\ UNCHANGED <<file, boots, up, committed, queue, inFlight, stopSignal,
                 stopping, poisoned, done, clientVars, readerVars>>

syncDirectory ==
  /\ up /\ worker = "renamed"
  /\ \/ worker' = "ok" /\ synced' = file
     \/ worker' = "installed" /\ UNCHANGED synced
  /\ UNCHANGED <<file, boots, up, committed, queue, inFlight, stopSignal,
                 stopping, poisoned, done, clientVars, readerVars>>

-----------------------------------------------------------------------------
(* The reader's side: requestSnapshot and snapshotAndSubscribe *)

requestSnapshot(r) ==
  /\ Serving /\ reader[r] = "idle"
  /\ reader' = [reader EXCEPT ![r] = "offering"]
  /\ since' = [since EXCEPT ![r] = {c \in Commands : outcome[c] = "ok"}]
  /\ UNCHANGED <<diskVars, ownerVars, clientVars, rctx, answer, got, active,
                 updates, seen, unsub, resend>>

cancelReader(r) ==
  /\ up /\ r \in Impatient
  /\ reader[r] \in {"offering", "waiting"} /\ ~rctx[r]
  /\ rctx' = [rctx EXCEPT ![r] = TRUE]
  /\ UNCHANGED <<diskVars, ownerVars, clientVars, reader, answer, got, since,
                 active, updates, seen, unsub, resend>>

\* Returning without an answer. Before the rendezvous either the context or
\* o.done ends the call; after it o.done does.
readerAbandons(r) ==
  /\ up
  /\ \/ reader[r] = "offering" /\ (rctx[r] \/ done)
     \/ reader[r] \in {"waiting", "draining"} /\ done
  /\ reader' = [reader EXCEPT ![r] = "returned"]
  /\ UNCHANGED <<diskVars, ownerVars, clientVars, rctx, answer, got, since,
                 active, updates, seen, unsub, resend>>

\* snapshotAndSubscribe returns on its context after the rendezvous too, and
\* leaves a goroutine behind that takes the answer and drops the subscription.
subscriberLeaves(r) ==
  /\ up /\ r \in Subscribers /\ reader[r] = "waiting" /\ rctx[r]
  /\ reader' = [reader EXCEPT ![r] = "draining"]
  /\ UNCHANGED <<diskVars, ownerVars, clientVars, rctx, answer, got, since,
                 active, updates, seen, unsub, resend>>

takeAnswer(r) ==
  /\ up /\ reader[r] \in {"waiting", "draining"} /\ answer[r] # <<>>
  /\ answer' = [answer EXCEPT ![r] = Tail(@)]
  /\ LET result     == Head(answer[r])
         subscribed == r \in Subscribers /\ ~result.err
     IN  IF reader[r] = "waiting"
           THEN /\ got' = [got EXCEPT ![r] = result]
                /\ seen' = [seen EXCEPT ![r] = result.ledger]
                /\ reader' = [reader EXCEPT ![r] =
                                IF subscribed THEN "subscribed" ELSE "returned"]
                /\ UNCHANGED unsub
           ELSE /\ unsub' = IF subscribed THEN unsub \cup {r} ELSE unsub
                /\ reader' = [reader EXCEPT ![r] = "returned"]
                /\ UNCHANGED <<got, seen>>
  /\ UNCHANGED <<diskVars, ownerVars, clientVars, rctx, since, active, updates,
                 resend>>

takeUpdate(r) ==
  /\ up /\ reader[r] = "subscribed" /\ updates[r] # <<>>
  /\ seen' = [seen EXCEPT ![r] = Head(updates[r])]
  /\ updates' = [updates EXCEPT ![r] = <<>>]
  /\ UNCHANGED <<diskVars, ownerVars, clientVars, reader, rctx, answer, got,
                 since, active, unsub, resend>>

\* The cancel function of a subscription.
unsubscribe(r) ==
  /\ up /\ reader[r] = "subscribed"
  /\ reader' = [reader EXCEPT ![r] = "returned"]
  /\ unsub' = IF done THEN unsub ELSE unsub \cup {r}
  /\ UNCHANGED <<diskVars, ownerVars, clientVars, rctx, answer, got, since,
                 active, updates, seen, resend>>

snapshotOfFile == file
snapshotState == committed

\* The owner's snapshot case. A request that arrives while the owner stops is
\* answered with the error and then falls through to the ordinary answer: the
\* owner blocks on the second send until the first one has been taken.
receiveSnapshot(r) ==
  /\ Selecting /\ ~(stopping /\ inFlight = NoCommand)
  /\ reader[r] = "offering"
  /\ reader' = [reader EXCEPT ![r] = "waiting"]
  /\ answer' = [answer EXCEPT ![r] = Append(@,
                  IF stopping \/ poisoned THEN ErrorAnswer
                                          ELSE LedgerAnswer(snapshotState))]
  /\ active' = IF r \in Subscribers /\ (stopping \/ ~poisoned)
                 THEN active \cup {r} ELSE active
  /\ resend' = IF stopping THEN r ELSE NoReader
  /\ UNCHANGED <<diskVars, ownerVars, clientVars, rctx, got, since, updates,
                 seen, unsub>>

secondReply ==
  /\ up /\ resend \in Readers /\ answer[resend] = <<>>
  /\ answer' = [answer EXCEPT ![resend] = Append(@, LedgerAnswer(snapshotState))]
  /\ resend' = NoReader
  /\ UNCHANGED <<diskVars, ownerVars, clientVars, reader, rctx, got, since,
                 active, updates, seen, unsub>>

receiveUnsubscribe(r) ==
  /\ Selecting /\ ~(stopping /\ inFlight = NoCommand)
  /\ r \in unsub
  /\ unsub' = unsub \ {r}
  /\ active' = active \ {r}
  /\ UNCHANGED <<diskVars, ownerVars, clientVars, reader, rctx, answer, got,
                 since, updates, seen, resend>>

-----------------------------------------------------------------------------
(* Specification *)

ClientNext(c) == \/ submit(c)
                 \/ cancelContext(c)
                 \/ offerAbandoned(c)
                 \/ takeReply(c)
                 \/ cancelWins(c)

ReaderNext(r) == \/ requestSnapshot(r)
                 \/ cancelReader(r)
                 \/ readerAbandons(r)
                 \/ subscriberLeaves(r)
                 \/ takeAnswer(r)
                 \/ takeUpdate(r)
                 \/ unsubscribe(r)

OwnerNext == \/ startNextAnswered
             \/ startNextPersist
             \/ \E c \in AllCommands : receiveCommand(c)
             \/ \E r \in Readers : receiveSnapshot(r)
             \/ \E r \in Readers : receiveUnsubscribe(r)
             \/ secondReply
             \/ persistenceSucceeded
             \/ persistenceFailed
             \/ persistenceInstalled
             \/ receiveStop
             \/ finish

WorkerNext == \/ writeFails
              \/ writeTemporary
              \/ rename
              \/ syncDirectory

Next == \/ startStateOwner
        \/ ProcessEnds
        \/ closeSignal
        \/ OwnerNext
        \/ WorkerNext
        \/ \E c \in AllCommands : ClientNext(c)
        \/ \E r \in Readers : ReaderNext(r)

Spec == Init /\ [][Next]_vars

\* The Start command of this process failed, and the caller closes the owner.
startFailed == client[Start] = "returned" /\ outcome[Start] \notin {"ok", "noop"}

\* Goroutines that are ready run: the owner's loop and each case of its select,
\* the persistence worker, and a caller whose reply is ready. Nothing makes a
\* caller submit, a context end, a daemon stop or a process start.
Fairness ==
  /\ WF_vars(startNextAnswered \/ startNextPersist)
  /\ WF_vars(persistenceSucceeded \/ persistenceFailed \/ persistenceInstalled)
  /\ WF_vars(secondReply)
  /\ WF_vars(receiveStop)
  /\ WF_vars(finish)
  /\ WF_vars(WorkerNext)
  /\ WF_vars(startFailed /\ closeSignal)
  /\ \A c \in AllCommands : /\ WF_vars(receiveCommand(c))
                            /\ WF_vars(offerAbandoned(c))
                            /\ WF_vars(takeReply(c))
  /\ \A r \in Readers : /\ WF_vars(receiveSnapshot(r))
                        /\ WF_vars(receiveUnsubscribe(r))
                        /\ WF_vars(readerAbandons(r))
                        /\ WF_vars(takeAnswer(r))

FairSpec == Spec /\ Fairness

-----------------------------------------------------------------------------
(* Properties *)

\* The owner decides transitions on its in-memory ledger and a restart resumes
\* from the file: unless the owner has declared itself poisoned, the two are
\* the same whenever no write is under way.
MemoryMatchesDisk ==
  up /\ ~poisoned /\ inFlight = NoCommand => file = committed

\* A caller told that its command was refused, not admitted, cancelled or not
\* persisted can rely on it: the command is in no ledger, now or after any
\* crash. Only the "installed" error leaves its command in doubt.
Rejected(c) == outcome[c] \in {"refused", "cancelled", "stopped", "poisoned",
                               "failed", "context"}
RejectedNeverCommitted ==
  \A c \in Commands : Rejected(c) => c \notin Elements(file)

\* A caller told that its command succeeded finds it in the ledger after any
\* crash, power loss included.
AcknowledgedDurable ==
  \A c \in Commands : outcome[c] = "ok" => c \in Elements(synced)

\* A command is applied at most once, restarts included.
AppliedOnce ==
  \A i, j \in 1..Len(file) : file[i] = file[j] /\ i # j => file[i] = Start

\* The owner never blocks on a caller: every command is answered once, into a
\* channel of capacity one, so no send waits for somebody to receive.
AnsweredOnce ==
  \A c \in AllCommands : Len(reply[c]) <= 1 /\
    (up /\ (c = inFlight \/ c \in Elements(queue)) => reply[c] = <<>>)

\* A subscriber never misses the last commit: what waits in its channel, or
\* else what it took last, is the current ledger.
SubscribersCurrent ==
  \A r \in active :
    up /\ reader[r] = "subscribed"
      => committed = (IF updates[r] = <<>> THEN seen[r] ELSE Head(updates[r]))

\* A snapshot holds every command that had been acknowledged when the reader
\* asked, and nothing that a crash could still take back.
SnapshotsHonest ==
  \A r \in Readers : ~got[r].err =>
    /\ since[r] \subseteq Elements(got[r].ledger)
    /\ \E n \in 0..Len(synced) : got[r].ledger = SubSeq(synced, 1, n)

\* The inductive part behind the three invariants above that speak about the
\* disk. It ties the worker's progress on the candidate to the two copies of
\* the ledger, and every answer under way to what these copies hold.
WorkerInv ==
  /\ worker = "idle" <=> inFlight = NoCommand
  /\ ~up => worker = "idle" /\ queue = <<>> /\ ~poisoned
  /\ poisoned => worker = "idle" /\ queue = <<>>
  /\ up /\ ~poisoned /\ worker \in {"idle", "received", "checked", "failed"}
       => file = committed
  /\ worker \in {"renamed", "ok", "installed"} => file = candidate
  /\ worker = "ok" => synced = file

SyncedInv ==
  /\ Len(synced) <= Len(file)
  /\ \A i \in 1..Len(synced) : synced[i] = file[i]

AckInv == \A c \in Commands :
  outcome[c] = "ok" \/ "ok" \in Elements(reply[c]) => c \in Elements(synced)

AnswerInv(c) ==
  /\ ~up => reply[c] = <<>>
  /\ Len(reply[c]) <= 1
  /\ c \in Elements(queue) \/ c = inFlight
       => reply[c] = <<>> /\ client[c] \in {"waiting", "returned"}
  /\ client[c] \in {"idle", "offering"} => reply[c] = <<>>

QueueInv ==
  /\ \A i, j \in 1..Len(queue) : queue[i] = queue[j] => i = j
  /\ inFlight \notin Elements(queue)
  /\ \A c \in AllCommands : AnswerInv(c)

NotInstalled(c) ==
  \/ client[c] \in {"idle", "offering"}
  \/ client[c] = "waiting" /\ arb[c] = "open"
  \/ c \in Elements(queue)
  \/ c = inFlight /\ worker \in {"received", "checked", "failed"}
  \/ \E x \in Elements(reply[c]) : x \notin {"ok", "noop", "installed"}
  \/ Rejected(c)

RejectInvOf(c) ==
  /\ NotInstalled(c) => c \notin Elements(file)
  /\ client[c] \in {"idle", "offering"} => arb[c] = "open" /\ outcome[c] = "none"
  /\ client[c] = "waiting" => outcome[c] = "none"
  /\ c \in Elements(queue) => arb[c] # "claimed"
  /\ c \in Elements(queue) /\ client[c] = "returned" => arb[c] = "cancelled"
  /\ c = inFlight => arb[c] = "claimed" /\ client[c] = "waiting"

RejectInv == \A c \in Commands : RejectInvOf(c)

\* The owner implements the abstract durable ledger: synced is its log, and a
\* caller is answered as the abstract ledger answers.
Promise == INSTANCE DurableLedger
             WITH log      <- synced,
                  acked    <- {c \in Commands : outcome[c] = "ok"},
                  rejected <- {c \in Commands : Rejected(c)}
ImplementsDurableLedger == Promise!LedgerSpec

\* Every call returns: a submitted command, a snapshot and a subscription are
\* answered whatever happens to the disk, to other callers or to the owner.
EveryCallReturns ==
  /\ \A c \in AllCommands :
       client[c] \in {"offering", "waiting"} ~> client[c] = "returned"
  /\ \A r \in Readers :
       reader[r] \in {"offering", "waiting", "draining"}
         ~> reader[r] \in {"subscribed", "returned"}
=============================================================================
