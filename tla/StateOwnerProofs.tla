--------------------------- MODULE StateOwnerProofs --------------------------
(***************************************************************************)
(* TLAPS proofs about StateOwner, for any set of commands and readers, any *)
(* queue size and any number of process starts.                            *)
(***************************************************************************)
EXTENDS StateOwner, SequenceTheorems, TLAPS

(***************************************************************************)
(* Facts about the elements of a sequence.                                 *)
(***************************************************************************)

\* Appending to a ledger adds exactly the appended command.
LEMMA ElementsAppend ==
  ASSUME NEW S, NEW s \in Seq(S), NEW e
  PROVE  Elements(Append(s, e)) = Elements(s) \cup {e}
BY DEF Elements

\* What is left of the queue was in the queue.
LEMMA ElementsTail ==
  ASSUME NEW S, NEW s \in Seq(S), s # <<>>
  PROVE  /\ Head(s) \in Elements(s)
         /\ Elements(Tail(s)) \subseteq Elements(s)
         /\ Elements(s) = {Head(s)} \cup Elements(Tail(s))
<1>1. Len(s) \in Nat /\ Len(s) >= 1 /\ Head(s) = s[1]
  OBVIOUS
<1>2. Len(Tail(s)) = Len(s) - 1 /\ \A i \in 1..Len(Tail(s)) : Tail(s)[i] = s[i+1]
  OBVIOUS
<1>3. Head(s) \in Elements(s)
  BY <1>1 DEF Elements
<1>4. Elements(Tail(s)) \subseteq Elements(s)
  BY <1>1, <1>2 DEF Elements
<1>5. ASSUME NEW x \in Elements(s), x # Head(s) PROVE x \in Elements(Tail(s))
  <2>1. PICK i \in 1..Len(s) : x = s[i]
    BY DEF Elements
  <2>2. i - 1 \in 1..Len(Tail(s)) /\ Tail(s)[i-1] = s[i]
    BY <1>1, <1>2, <1>5, <2>1
  <2>. QED  BY <2>1, <2>2 DEF Elements
<1>. QED  BY <1>3, <1>4, <1>5

\* Sending on one channel of a family, and taking from it, keeps their type.
LEMMA AppendAt ==
  ASSUME NEW I, NEW S, NEW f \in [I -> Seq(S)], NEW i \in I, NEW x \in S
  PROVE  [f EXCEPT ![i] = Append(@, x)] \in [I -> Seq(S)]
OBVIOUS

LEMMA TailAt ==
  ASSUME NEW I, NEW S, NEW f \in [I -> Seq(S)], NEW i \in I, f[i] # <<>>
  PROVE  /\ Head(f[i]) \in S
         /\ [f EXCEPT ![i] = Tail(@)] \in [I -> Seq(S)]
OBVIOUS

\* The owner's and the disk's variables keep their types: a candidate is only
\* built from a command that is in flight.
LEMMA OwnerTypesStep ==
  ASSUME OwnerTypes, WorkerInv, [Next]_vars
  PROVE  OwnerTypes'
<1>. USE OwnerAssumption
     DEF OwnerTypes, WorkerInv, AllCommands, Ledger, WorkerState
<1>1. CASE startStateOwner
  BY <1>1
     DEF startStateOwner, diskVars, ownerVars, clientVars, readerVars
<1>2. CASE ProcessEnds
  <2>1. file' \in Ledger
    BY <1>2 DEF ProcessEnds
  <2>2. committed' \in Ledger /\ queue' \in Seq(AllCommands)
    BY <1>2 DEF ProcessEnds
  <2>. QED  BY <1>2, <2>1, <2>2 DEF ProcessEnds
<1>3. CASE closeSignal
  BY <1>3
     DEF closeSignal, diskVars, ownerVars, clientVars, readerVars
<1>4. CASE startNextAnswered
  BY <1>4
     DEF startNextAnswered, Send, Looping, startNextPending, claim, diskVars,
         ownerVars, clientVars, readerVars
<1>5. CASE startNextPersist
  BY <1>5
     DEF startNextPersist, Looping, startNextPending, claim, diskVars,
         ownerVars, clientVars, readerVars
<1>6. ASSUME NEW c \in AllCommands, receiveCommand(c) PROVE OwnerTypes'
  <2>1. queue' = queue \/ queue' = Append(queue, c)
    BY <1>6 DEF receiveCommand, enqueue
  <2>. HIDE DEF AllCommands
  <2>2. queue' \in Seq(AllCommands)
    <3>1. Append(queue, c) \in Seq(AllCommands)
      OBVIOUS
    <3>. QED  BY <2>1, <3>1
  <2>3. UNCHANGED <<file, synced, boots, up, committed, inFlight, worker,
                    stopSignal, stopping, poisoned, done>>
    BY <1>6 DEF receiveCommand, diskVars
  <2>. QED  BY <2>2, <2>3
<1>7. ASSUME NEW r \in Readers, receiveSnapshot(r) PROVE OwnerTypes'
  BY <1>7
     DEF receiveSnapshot, Selecting, Looping, startNextPending, ErrorAnswer,
         LedgerAnswer, snapshotState, diskVars, ownerVars, clientVars,
         readerVars
<1>8. ASSUME NEW r \in Readers, receiveUnsubscribe(r) PROVE OwnerTypes'
  BY <1>8
     DEF receiveUnsubscribe, Selecting, Looping, startNextPending, diskVars,
         ownerVars, clientVars, readerVars
<1>9. CASE secondReply
  BY <1>9
     DEF secondReply, LedgerAnswer, snapshotState, diskVars, ownerVars,
         clientVars, readerVars
<1>10. CASE persistenceSucceeded
  BY <1>10
     DEF persistenceSucceeded, Selecting, Looping, startNextPending, publish,
         Send, candidate, diskVars, ownerVars, clientVars, readerVars
<1>11. CASE persistenceFailed
  BY <1>11
     DEF persistenceFailed, Selecting, Looping, startNextPending, Send,
         diskVars, ownerVars, clientVars, readerVars
<1>12. CASE persistenceInstalled
  BY <1>12
     DEF persistenceInstalled, Selecting, Looping, startNextPending, poison,
         drainQueue, diskVars, ownerVars, clientVars, readerVars
<1>13. CASE receiveStop
  BY <1>13
     DEF receiveStop, Selecting, Looping, startNextPending, drainQueue,
         diskVars, ownerVars, clientVars, readerVars
<1>14. CASE finish
  BY <1>14
     DEF finish, Looping, diskVars, ownerVars, clientVars, readerVars
<1>15. CASE writeFails
  BY <1>15
     DEF writeFails, diskVars, ownerVars, clientVars, readerVars
<1>16. CASE writeTemporary
  BY <1>16
     DEF writeTemporary, diskVars, ownerVars, clientVars, readerVars
<1>17. CASE rename
  BY <1>17
     DEF rename, candidate, diskVars, ownerVars, clientVars, readerVars
<1>18. CASE syncDirectory
  BY <1>18
     DEF syncDirectory, candidate, diskVars, ownerVars, clientVars,
         readerVars
<1>19. ASSUME NEW c \in AllCommands, ClientNext(c) PROVE OwnerTypes'
  BY <1>19
     DEF ClientNext, submit, cancelContext, offerAbandoned, takeReply,
         cancelWins, diskVars, ownerVars, clientVars, readerVars
<1>20. ASSUME NEW r \in Readers, ReaderNext(r) PROVE OwnerTypes'
  BY <1>20
     DEF ReaderNext, requestSnapshot, cancelReader, readerAbandons,
         subscriberLeaves, takeAnswer, takeUpdate, unsubscribe, diskVars,
         ownerVars, clientVars, readerVars
<1>21. CASE UNCHANGED vars
  BY <1>21
     DEF vars, diskVars, ownerVars, clientVars, readerVars
<1>. QED
  BY <1>1, <1>2, <1>3, <1>4, <1>5, <1>6, <1>7, <1>8, <1>9, <1>10, <1>11,
     <1>12, <1>13, <1>14, <1>15, <1>16, <1>17, <1>18, <1>19, <1>20, <1>21
     DEF Next, OwnerNext, WorkerNext, ClientNext, ReaderNext

\* The callers' variables keep their types.
LEMMA ClientTypesStep ==
  ASSUME OwnerTypes, WorkerInv, ClientTypes, [Next]_vars
  PROVE  ClientTypes'
<1>. USE OwnerAssumption
     DEF OwnerTypes, ClientTypes, AllCommands, Replies, Outcomes
<1>1. CASE startStateOwner
  BY <1>1
     DEF startStateOwner, diskVars, ownerVars, clientVars, readerVars
<1>2. CASE ProcessEnds
  BY <1>2
     DEF ProcessEnds, diskVars, ownerVars, clientVars, readerVars
<1>3. CASE closeSignal
  BY <1>3
     DEF closeSignal, diskVars, ownerVars, clientVars, readerVars
<1>4. CASE startNextAnswered
  <2>. DEFINE c == Head(queue)
  <2>1. c \in AllCommands
    BY <1>4 DEF startNextAnswered, startNextPending
  <2>2. PICK x \in Replies : reply' = [reply EXCEPT ![c] = Append(@, x)]
    BY <1>4 DEF startNextAnswered, Send
  <2>3. reply' \in [AllCommands -> Seq(Replies)]
    BY <2>1, <2>2, AppendAt
  <2>. QED  BY <1>4, <2>1, <2>3 DEF startNextAnswered
<1>5. CASE startNextPersist
  BY <1>5
     DEF startNextPersist, Looping, startNextPending, claim, diskVars,
         ownerVars, clientVars, readerVars
<1>6. ASSUME NEW c \in AllCommands, receiveCommand(c) PROVE ClientTypes'
  <2>1. \/ reply' = reply
        \/ reply' = [reply EXCEPT ![c] = Append(@, "stopped")]
        \/ reply' = [reply EXCEPT ![c] = Append(@, "poisoned")]
    BY <1>6 DEF receiveCommand, Send
  <2>2. ASSUME NEW x \in Replies
        PROVE  [reply EXCEPT ![c] = Append(@, x)] \in [AllCommands -> Seq(Replies)]
    BY AppendAt
  <2>3. reply' \in [AllCommands -> Seq(Replies)]
    BY <2>1, <2>2
  <2>. QED  BY <1>6, <2>3 DEF receiveCommand
<1>7. ASSUME NEW r \in Readers, receiveSnapshot(r) PROVE ClientTypes'
  BY <1>7
     DEF receiveSnapshot, Selecting, Looping, startNextPending, ErrorAnswer,
         LedgerAnswer, snapshotState, diskVars, ownerVars, clientVars,
         readerVars
<1>8. ASSUME NEW r \in Readers, receiveUnsubscribe(r) PROVE ClientTypes'
  BY <1>8
     DEF receiveUnsubscribe, Selecting, Looping, startNextPending, diskVars,
         ownerVars, clientVars, readerVars
<1>9. CASE secondReply
  BY <1>9
     DEF secondReply, LedgerAnswer, snapshotState, diskVars, ownerVars,
         clientVars, readerVars
<1>10. CASE persistenceSucceeded
  <2>1. reply' \in [AllCommands -> Seq(Replies)]
    BY <1>10, AppendAt DEF persistenceSucceeded, Send, WorkerInv
  <2>. QED  BY <1>10, <2>1 DEF persistenceSucceeded
<1>11. CASE persistenceFailed
  <2>1. reply' \in [AllCommands -> Seq(Replies)]
    BY <1>11, AppendAt DEF persistenceFailed, Send, WorkerInv
  <2>. QED  BY <1>11, <2>1 DEF persistenceFailed
<1>12. CASE persistenceInstalled
  BY <1>12
     DEF persistenceInstalled, Selecting, Looping, startNextPending, poison,
         drainQueue, diskVars, ownerVars, clientVars, readerVars
<1>13. CASE receiveStop
  BY <1>13
     DEF receiveStop, Selecting, Looping, startNextPending, drainQueue,
         diskVars, ownerVars, clientVars, readerVars
<1>14. CASE finish
  BY <1>14
     DEF finish, Looping, diskVars, ownerVars, clientVars, readerVars
<1>15. CASE WorkerNext
  BY <1>15
     DEF WorkerNext, writeFails, writeTemporary, rename, syncDirectory,
         diskVars, ownerVars, clientVars, readerVars
<1>16. ASSUME NEW c \in AllCommands, submit(c) PROVE ClientTypes'
  BY <1>16
     DEF submit, diskVars, ownerVars, clientVars, readerVars
<1>17. ASSUME NEW c \in AllCommands, cancelContext(c) PROVE ClientTypes'
  BY <1>17
     DEF cancelContext, diskVars, ownerVars, clientVars, readerVars
<1>18. ASSUME NEW c \in AllCommands, offerAbandoned(c) PROVE ClientTypes'
  <2>1. PICK x \in {"context", "stopped"} : outcome' = [outcome EXCEPT ![c] = x]
    BY <1>18 DEF offerAbandoned
  <2>2. /\ client' = [client EXCEPT ![c] = "returned"]
        /\ UNCHANGED <<ctx, arb, reply>>
    BY <1>18 DEF offerAbandoned
  <2>. QED  BY <1>18, <2>1, <2>2
<1>19. ASSUME NEW c \in AllCommands, takeReply(c) PROVE ClientTypes'
  BY <1>19
     DEF takeReply, diskVars, ownerVars, clientVars, readerVars
<1>20. ASSUME NEW c \in AllCommands, cancelWins(c) PROVE ClientTypes'
  BY <1>20
     DEF cancelWins, diskVars, ownerVars, clientVars, readerVars
<1>21. ASSUME NEW r \in Readers, ReaderNext(r) PROVE ClientTypes'
  BY <1>21
     DEF ReaderNext, requestSnapshot, cancelReader, readerAbandons,
         subscriberLeaves, takeAnswer, takeUpdate, unsubscribe, diskVars,
         ownerVars, clientVars, readerVars
<1>22. CASE UNCHANGED vars
  BY <1>22
     DEF vars, diskVars, ownerVars, clientVars, readerVars
<1>. QED
  BY <1>1, <1>2, <1>3, <1>4, <1>5, <1>6, <1>7, <1>8, <1>9, <1>10, <1>11,
     <1>12, <1>13, <1>14, <1>15, <1>16, <1>17, <1>18, <1>19, <1>20, <1>21,
     <1>22
     DEF Next, OwnerNext, WorkerNext, ClientNext, ReaderNext

\* The readers' variables keep their types.
LEMMA ReaderTypesStep ==
  ASSUME OwnerTypes, ClientTypes, WorkerInv, ReaderTypes, [Next]_vars
  PROVE  ReaderTypes'
<1>. USE OwnerAssumption
     DEF OwnerTypes, WorkerInv, ReaderTypes, AllCommands
<1>1. CASE startStateOwner
  BY <1>1
     DEF startStateOwner, diskVars, ownerVars, clientVars, readerVars
<1>2. CASE ProcessEnds
  <2>1. /\ updates' \in [Readers -> Seq(Ledger)]
        /\ answer' \in [Readers -> Seq(Answers)]
        /\ seen' \in [Readers -> Ledger]
    BY <1>2 DEF ProcessEnds, Ledger
  <2>2. reader' \in [Readers -> {"idle", "returned"}]
    BY <1>2 DEF ProcessEnds
  <2>. QED  BY <1>2, <2>1, <2>2 DEF ProcessEnds
<1>3. CASE closeSignal
  BY <1>3
     DEF closeSignal, diskVars, ownerVars, clientVars, readerVars
<1>4. CASE startNextAnswered
  BY <1>4
     DEF startNextAnswered, Send, Looping, startNextPending, claim, diskVars,
         ownerVars, clientVars, readerVars
<1>5. CASE startNextPersist
  BY <1>5
     DEF startNextPersist, Looping, startNextPending, claim, diskVars,
         ownerVars, clientVars, readerVars
<1>6. ASSUME NEW c \in AllCommands, receiveCommand(c) PROVE ReaderTypes'
  BY <1>6
     DEF receiveCommand, Selecting, Looping, startNextPending, Send, enqueue,
         diskVars, ownerVars, clientVars, readerVars
<1>7. ASSUME NEW r \in Readers, receiveSnapshot(r) PROVE ReaderTypes'
  <2>1. ErrorAnswer \in Answers /\ LedgerAnswer(committed) \in Answers
    BY DEF ErrorAnswer, LedgerAnswer, Answers, Ledger
  <2>2. PICK x \in Answers : answer' = [answer EXCEPT ![r] = Append(@, x)]
    BY <1>7, <2>1 DEF receiveSnapshot, snapshotState
  <2>3. answer' \in [Readers -> Seq(Answers)]
    BY <2>2, AppendAt
  <2>. QED  BY <1>7, <2>3 DEF receiveSnapshot
<1>8. ASSUME NEW r \in Readers, receiveUnsubscribe(r) PROVE ReaderTypes'
  BY <1>8
     DEF receiveUnsubscribe, Selecting, Looping, startNextPending, diskVars,
         ownerVars, clientVars, readerVars
<1>9. CASE secondReply
  <2>1. LedgerAnswer(committed) \in Answers
    BY DEF LedgerAnswer, Answers
  <2>2. answer' \in [Readers -> Seq(Answers)]
    BY <1>9, <2>1, AppendAt DEF secondReply, snapshotState
  <2>. QED  BY <1>9, <2>2 DEF secondReply
<1>10. CASE persistenceSucceeded
  <2>1. candidate \in Ledger
    BY <1>10 DEF persistenceSucceeded, candidate
  <2>2. updates' \in [Readers -> Seq(Ledger)]
    BY <1>10, <2>1 DEF persistenceSucceeded, publish
  <2>. QED  BY <1>10, <2>2 DEF persistenceSucceeded
<1>11. CASE persistenceFailed
  BY <1>11
     DEF persistenceFailed, Selecting, Looping, startNextPending, Send,
         diskVars, ownerVars, clientVars, readerVars
<1>12. CASE persistenceInstalled
  BY <1>12
     DEF persistenceInstalled, Selecting, Looping, startNextPending, poison,
         drainQueue, diskVars, ownerVars, clientVars, readerVars
<1>13. CASE receiveStop
  BY <1>13
     DEF receiveStop, Selecting, Looping, startNextPending, drainQueue,
         diskVars, ownerVars, clientVars, readerVars
<1>14. CASE finish
  BY <1>14
     DEF finish, Looping, diskVars, ownerVars, clientVars, readerVars
<1>15. CASE WorkerNext
  BY <1>15
     DEF WorkerNext, writeFails, writeTemporary, rename, syncDirectory,
         diskVars, ownerVars, clientVars, readerVars
<1>16. ASSUME NEW c \in AllCommands, ClientNext(c) PROVE ReaderTypes'
  BY <1>16
     DEF ClientNext, submit, cancelContext, offerAbandoned, takeReply,
         cancelWins, diskVars, ownerVars, clientVars, readerVars
<1>17. ASSUME NEW r \in Readers, requestSnapshot(r) PROVE ReaderTypes'
  BY <1>17
     DEF requestSnapshot, diskVars, ownerVars, clientVars, readerVars
<1>18. ASSUME NEW r \in Readers, cancelReader(r) PROVE ReaderTypes'
  BY <1>18
     DEF cancelReader, diskVars, ownerVars, clientVars, readerVars
<1>19. ASSUME NEW r \in Readers, readerAbandons(r) PROVE ReaderTypes'
  BY <1>19
     DEF readerAbandons, diskVars, ownerVars, clientVars, readerVars
<1>20. ASSUME NEW r \in Readers, subscriberLeaves(r) PROVE ReaderTypes'
  BY <1>20
     DEF subscriberLeaves, diskVars, ownerVars, clientVars, readerVars
<1>21. ASSUME NEW r \in Readers, takeAnswer(r) PROVE ReaderTypes'
  <2>1. Head(answer[r]) \in Answers /\ answer' \in [Readers -> Seq(Answers)]
    BY <1>21, TailAt DEF takeAnswer
  <2>2. Head(answer[r]).ledger \in Ledger
    BY <2>1 DEF Answers
  <2>3. /\ got' \in [Readers -> Answers] /\ seen' \in [Readers -> Ledger]
        /\ unsub' \in SUBSET Subscribers
        /\ UNCHANGED <<resend, rctx, since, active, updates>>
    <3>1. CASE reader[r] = "waiting"
      <4>1. /\ got' = [got EXCEPT ![r] = Head(answer[r])]
            /\ seen' = [seen EXCEPT ![r] = Head(answer[r]).ledger]
            /\ UNCHANGED <<unsub, resend, rctx, since, active, updates>>
        BY <1>21, <3>1 DEF takeAnswer
      <4>. QED  BY <2>1, <2>2, <4>1
    <3>2. CASE reader[r] # "waiting"
      <4>1. UNCHANGED <<got, seen, resend, rctx, since, active, updates>>
        BY <1>21, <3>2 DEF takeAnswer
      <4>2. unsub' \in SUBSET Subscribers
        BY <1>21, <3>2 DEF takeAnswer
      <4>. QED  BY <4>1, <4>2
    <3>. QED  BY <3>1, <3>2
  <2>4. PICK x \in {"subscribed", "returned"} :
          /\ reader' = [reader EXCEPT ![r] = x]
          /\ x = "subscribed" => r \in Subscribers
    BY <1>21 DEF takeAnswer
  <2>. QED  BY <2>1, <2>3, <2>4
<1>22. ASSUME NEW r \in Readers, takeUpdate(r) PROVE ReaderTypes'
  <2>1. Head(updates[r]) \in Ledger
    BY <1>22, TailAt DEF takeUpdate
  <2>. QED  BY <1>22, <2>1 DEF takeUpdate
<1>23. ASSUME NEW r \in Readers, unsubscribe(r) PROVE ReaderTypes'
  BY <1>23
     DEF unsubscribe, diskVars, ownerVars, clientVars, readerVars
<1>24. CASE UNCHANGED vars
  BY <1>24
     DEF vars, diskVars, ownerVars, clientVars, readerVars
<1>. QED
  BY <1>1, <1>2, <1>3, <1>4, <1>5, <1>6, <1>7, <1>8, <1>9, <1>10, <1>11,
     <1>12, <1>13, <1>14, <1>15, <1>16, <1>17, <1>18, <1>19, <1>20, <1>21,
     <1>22, <1>23, <1>24
     DEF Next, OwnerNext, WorkerNext, ClientNext, ReaderNext

\* The worker's progress and the copies of the ledger stay in step.
LEMMA WorkerStep ==
  ASSUME OwnerTypes, WorkerInv, [Next]_vars
  PROVE  WorkerInv'
<1>. USE OwnerAssumption
     DEF OwnerTypes, WorkerInv, AllCommands, WorkerState, candidate
<1>1. CASE startStateOwner
  BY <1>1
     DEF startStateOwner, diskVars, ownerVars, clientVars, readerVars
<1>2. CASE ProcessEnds
  BY <1>2
     DEF ProcessEnds, diskVars, ownerVars, clientVars, readerVars
<1>3. CASE closeSignal
  BY <1>3
     DEF closeSignal, diskVars, ownerVars, clientVars, readerVars
<1>4. CASE startNextAnswered
  BY <1>4
     DEF startNextAnswered, Send, Looping, startNextPending, claim, diskVars,
         ownerVars, clientVars, readerVars
<1>5. CASE startNextPersist
  BY <1>5
     DEF startNextPersist, Looping, startNextPending, claim, diskVars,
         ownerVars, clientVars, readerVars
<1>6. ASSUME NEW c \in AllCommands, receiveCommand(c) PROVE WorkerInv'
  BY <1>6
     DEF receiveCommand, Selecting, Looping, startNextPending, Send, enqueue,
         diskVars, ownerVars, clientVars, readerVars
<1>7. ASSUME NEW r \in Readers, receiveSnapshot(r) PROVE WorkerInv'
  BY <1>7
     DEF receiveSnapshot, Selecting, Looping, startNextPending, ErrorAnswer,
         LedgerAnswer, snapshotState, diskVars, ownerVars, clientVars,
         readerVars
<1>8. ASSUME NEW r \in Readers, receiveUnsubscribe(r) PROVE WorkerInv'
  BY <1>8
     DEF receiveUnsubscribe, Selecting, Looping, startNextPending, diskVars,
         ownerVars, clientVars, readerVars
<1>9. CASE secondReply
  BY <1>9
     DEF secondReply, LedgerAnswer, snapshotState, diskVars, ownerVars,
         clientVars, readerVars
<1>10. CASE persistenceSucceeded
  BY <1>10
     DEF persistenceSucceeded, Selecting, Looping, startNextPending, publish,
         Send, candidate, diskVars, ownerVars, clientVars, readerVars
<1>11. CASE persistenceFailed
  BY <1>11
     DEF persistenceFailed, Selecting, Looping, startNextPending, Send,
         diskVars, ownerVars, clientVars, readerVars
<1>12. CASE persistenceInstalled
  BY <1>12
     DEF persistenceInstalled, Selecting, Looping, startNextPending, poison,
         drainQueue, diskVars, ownerVars, clientVars, readerVars
<1>13. CASE receiveStop
  BY <1>13
     DEF receiveStop, Selecting, Looping, startNextPending, drainQueue,
         diskVars, ownerVars, clientVars, readerVars
<1>14. CASE finish
  BY <1>14
     DEF finish, Looping, diskVars, ownerVars, clientVars, readerVars
<1>15. CASE writeFails
  BY <1>15
     DEF writeFails, diskVars, ownerVars, clientVars, readerVars
<1>16. CASE writeTemporary
  BY <1>16
     DEF writeTemporary, diskVars, ownerVars, clientVars, readerVars
<1>17. CASE rename
  BY <1>17
     DEF rename, candidate, diskVars, ownerVars, clientVars, readerVars
<1>18. CASE syncDirectory
  BY <1>18
     DEF syncDirectory, candidate, diskVars, ownerVars, clientVars,
         readerVars
<1>19. ASSUME NEW c \in AllCommands, ClientNext(c) PROVE WorkerInv'
  BY <1>19
     DEF ClientNext, submit, cancelContext, offerAbandoned, takeReply,
         cancelWins, diskVars, ownerVars, clientVars, readerVars
<1>20. ASSUME NEW r \in Readers, ReaderNext(r) PROVE WorkerInv'
  BY <1>20
     DEF ReaderNext, requestSnapshot, cancelReader, readerAbandons,
         subscriberLeaves, takeAnswer, takeUpdate, unsubscribe, diskVars,
         ownerVars, clientVars, readerVars
<1>21. CASE UNCHANGED vars
  BY <1>21
     DEF vars, diskVars, ownerVars, clientVars, readerVars
<1>. QED
  BY <1>1, <1>2, <1>3, <1>4, <1>5, <1>6, <1>7, <1>8, <1>9, <1>10, <1>11,
     <1>12, <1>13, <1>14, <1>15, <1>16, <1>17, <1>18, <1>19, <1>20, <1>21
     DEF Next, OwnerNext, WorkerNext, ClientNext, ReaderNext

\* What is durable stays a prefix of what is in the directory.
LEMMA SyncedStep ==
  ASSUME OwnerTypes, WorkerInv, SyncedInv, [Next]_vars
  PROVE  SyncedInv'
<1>. USE OwnerAssumption
     DEF OwnerTypes, WorkerInv, SyncedInv, Ledger, candidate
<1>1. CASE startStateOwner
  BY <1>1
     DEF startStateOwner, diskVars, ownerVars, clientVars, readerVars
<1>2. CASE ProcessEnds
  BY <1>2
     DEF ProcessEnds, diskVars, ownerVars, clientVars, readerVars
<1>3. CASE closeSignal
  BY <1>3
     DEF closeSignal, diskVars, ownerVars, clientVars, readerVars
<1>4. CASE OwnerNext
  BY <1>4
     DEF OwnerNext, startNextAnswered, startNextPersist, receiveCommand,
         receiveSnapshot, receiveUnsubscribe, secondReply,
         persistenceSucceeded, persistenceFailed, persistenceInstalled,
         receiveStop, finish, diskVars, ownerVars, clientVars, readerVars
<1>5. CASE writeFails
  BY <1>5
     DEF writeFails, diskVars, ownerVars, clientVars, readerVars
<1>6. CASE writeTemporary
  BY <1>6
     DEF writeTemporary, diskVars, ownerVars, clientVars, readerVars
<1>7. CASE rename
  BY <1>7
     DEF rename, candidate, diskVars, ownerVars, clientVars, readerVars
<1>8. CASE syncDirectory
  BY <1>8
     DEF syncDirectory, candidate, diskVars, ownerVars, clientVars,
         readerVars
<1>9. ASSUME NEW c \in AllCommands, ClientNext(c) PROVE SyncedInv'
  BY <1>9
     DEF ClientNext, submit, cancelContext, offerAbandoned, takeReply,
         cancelWins, diskVars, ownerVars, clientVars, readerVars
<1>10. ASSUME NEW r \in Readers, ReaderNext(r) PROVE SyncedInv'
  BY <1>10
     DEF ReaderNext, requestSnapshot, cancelReader, readerAbandons,
         subscriberLeaves, takeAnswer, takeUpdate, unsubscribe, diskVars,
         ownerVars, clientVars, readerVars
<1>11. CASE UNCHANGED vars
  BY <1>11
     DEF vars, diskVars, ownerVars, clientVars, readerVars
<1>. QED
  BY <1>1, <1>2, <1>3, <1>4, <1>5, <1>6, <1>7, <1>8, <1>9, <1>10, <1>11
     DEF Next, OwnerNext, WorkerNext, ClientNext, ReaderNext

\* A durable command stays durable, and is in the directory.
LEMMA DurableElements ==
  ASSUME OwnerTypes, SyncedInv
  PROVE  Elements(synced) \subseteq Elements(file)
BY DEF OwnerTypes, SyncedInv, Ledger, Elements

\* The elements of a reply channel after a send.
LEMMA SentElements ==
  ASSUME ClientTypes, NEW c \in AllCommands, NEW d \in AllCommands, NEW x
  PROVE  Elements([reply EXCEPT ![c] = Append(@, x)][d])
           = IF c = d THEN Elements(reply[d]) \cup {x} ELSE Elements(reply[d])
BY ElementsAppend DEF ClientTypes

\* Taking the head of a queue without duplicates takes the command out of it.
LEMMA DistinctTail ==
  ASSUME NEW S, NEW s \in Seq(S), s # <<>>,
         \A i, j \in 1..Len(s) : s[i] = s[j] => i = j
  PROVE  /\ Head(s) \notin Elements(Tail(s))
         /\ \A i, j \in 1..Len(Tail(s)) : Tail(s)[i] = Tail(s)[j] => i = j
<1>1. Len(s) \in Nat /\ Len(s) >= 1 /\ Head(s) = s[1]
  OBVIOUS
<1>2. Len(Tail(s)) = Len(s) - 1 /\ \A i \in 1..Len(Tail(s)) : Tail(s)[i] = s[i+1]
  OBVIOUS
<1>. QED  BY <1>1, <1>2 DEF Elements

\* A command is acknowledged only after it is durable, and stays durable.
LEMMA AckStep ==
  ASSUME OwnerTypes, ClientTypes, WorkerInv, SyncedInv, AckInv, [Next]_vars
  PROVE  AckInv'
<1>. USE OwnerAssumption
     DEF OwnerTypes, ClientTypes, WorkerInv, AckInv
<1>1. CASE startStateOwner
  BY <1>1
     DEF startStateOwner, diskVars, ownerVars, clientVars, readerVars
<1>2. CASE ProcessEnds
  <2>1. UNCHANGED synced /\ \A d \in Commands : reply'[d] = <<>>
    BY <1>2 DEF ProcessEnds, AllCommands
  <2>2. \A d \in Commands : outcome'[d] = "ok" => outcome[d] = "ok"
    BY <1>2 DEF ProcessEnds, AllCommands
  <2>3. Elements(<<>>) = {}
    BY DEF Elements
  <2>. QED  BY <2>1, <2>2, <2>3
<1>3. CASE closeSignal
  BY <1>3
     DEF closeSignal, diskVars, ownerVars, clientVars, readerVars
<1>4. CASE startNextAnswered
  <2>1. UNCHANGED <<synced, outcome>> /\ Head(queue) \in AllCommands
    BY <1>4 DEF startNextAnswered, startNextPending, diskVars
  <2>2. PICK x \in Replies : x # "ok" /\ reply' = [reply EXCEPT ![Head(queue)] = Append(@, x)]
    BY <1>4 DEF startNextAnswered, Send, Replies
  <2>3. \A d \in Commands : Elements(reply'[d]) \subseteq Elements(reply[d]) \cup {x}
    BY <2>1, <2>2, SentElements DEF AllCommands
  <2>. QED  BY <2>1, <2>2, <2>3
<1>5. CASE startNextPersist
  BY <1>5
     DEF startNextPersist, Looping, startNextPending, claim, diskVars,
         ownerVars, clientVars, readerVars
<1>6. ASSUME NEW c \in AllCommands, receiveCommand(c) PROVE AckInv'
  <2>1. UNCHANGED <<synced, outcome>>
    BY <1>6 DEF receiveCommand, diskVars
  <2>2. \/ reply' = reply
        \/ reply' = [reply EXCEPT ![c] = Append(@, "stopped")]
        \/ reply' = [reply EXCEPT ![c] = Append(@, "poisoned")]
    BY <1>6 DEF receiveCommand, Send
  <2>3. \A d \in Commands :
          Elements(reply'[d]) \subseteq Elements(reply[d]) \cup {"stopped", "poisoned"}
    <3>1. ASSUME NEW d \in Commands, NEW x
          PROVE  Elements([reply EXCEPT ![c] = Append(@, x)][d])
                   \subseteq Elements(reply[d]) \cup {x}
      BY SentElements DEF AllCommands
    <3>. QED  BY <2>2, <3>1
  <2>. QED  BY <2>1, <2>3
<1>7. ASSUME NEW r \in Readers, receiveSnapshot(r) PROVE AckInv'
  BY <1>7
     DEF receiveSnapshot, Selecting, Looping, startNextPending, ErrorAnswer,
         LedgerAnswer, snapshotState, diskVars, ownerVars, clientVars,
         readerVars
<1>8. ASSUME NEW r \in Readers, receiveUnsubscribe(r) PROVE AckInv'
  BY <1>8
     DEF receiveUnsubscribe, Selecting, Looping, startNextPending, diskVars,
         ownerVars, clientVars, readerVars
<1>9. CASE secondReply
  BY <1>9
     DEF secondReply, LedgerAnswer, snapshotState, diskVars, ownerVars,
         clientVars, readerVars
<1>10. CASE persistenceSucceeded
  <2>1. UNCHANGED <<synced, outcome>> /\ inFlight \in AllCommands
          /\ reply' = [reply EXCEPT ![inFlight] = Append(@, "ok")]
    BY <1>10 DEF persistenceSucceeded, Send, diskVars
  <2>2. inFlight \in Elements(synced)
    <3>1. synced = Append(committed, inFlight)
      BY <1>10 DEF persistenceSucceeded, candidate
    <3>. QED  BY <3>1, ElementsAppend DEF Ledger
  <2>. QED  BY <2>1, <2>2, SentElements DEF AllCommands
<1>11. CASE persistenceFailed
  <2>1. UNCHANGED <<synced, outcome>> /\ inFlight \in AllCommands
          /\ reply' = [reply EXCEPT ![inFlight] = Append(@, "failed")]
    BY <1>11 DEF persistenceFailed, Send, diskVars
  <2>2. \A d \in Commands : Elements(reply'[d]) \subseteq Elements(reply[d]) \cup {"failed"}
    BY <2>1, SentElements DEF AllCommands
  <2>. QED  BY <2>1, <2>2
<1>12. CASE persistenceInstalled
  <2>. DEFINE sent == [reply EXCEPT ![inFlight] = Append(@, "installed")]
  <2>1. UNCHANGED <<synced, outcome>> /\ inFlight \in AllCommands
    BY <1>12 DEF persistenceInstalled, diskVars
  <2>2. sent \in [AllCommands -> Seq(Replies)]
    BY <2>1, AppendAt DEF Replies
  <2>3. \A d \in Commands : Elements(sent[d]) \subseteq Elements(reply[d]) \cup {"installed"}
    BY <2>1, SentElements DEF AllCommands
  <2>4. \A d \in Commands : reply'[d] = sent[d] \/ reply'[d] = Append(sent[d], "poisoned")
    BY <1>12 DEF persistenceInstalled, drainQueue, AllCommands
  <2>. HIDE DEF sent
  <2>5. \A d \in Commands : Elements(reply'[d]) \subseteq Elements(sent[d]) \cup {"poisoned"}
    <3>1. ASSUME NEW d \in Commands
          PROVE  Elements(Append(sent[d], "poisoned")) = Elements(sent[d]) \cup {"poisoned"}
      BY <2>2, ElementsAppend DEF AllCommands
    <3>. QED  BY <2>4, <3>1
  <2>. QED  BY <2>1, <2>3, <2>5
<1>13. CASE receiveStop
  <2>1. UNCHANGED <<synced, outcome>>
    BY <1>13 DEF receiveStop, diskVars
  <2>2. ASSUME NEW d \in Commands, "ok" \in Elements(reply'[d])
        PROVE  "ok" \in Elements(reply[d])
    BY <1>13, <2>2, ElementsAppend DEF receiveStop, drainQueue, AllCommands
  <2>. QED  BY <2>1, <2>2
<1>14. CASE finish
  BY <1>14
     DEF finish, Looping, diskVars, ownerVars, clientVars, readerVars
<1>15. CASE writeFails
  BY <1>15
     DEF writeFails, diskVars, ownerVars, clientVars, readerVars
<1>16. CASE writeTemporary
  BY <1>16
     DEF writeTemporary, diskVars, ownerVars, clientVars, readerVars
<1>17. CASE rename
  BY <1>17
     DEF rename, candidate, diskVars, ownerVars, clientVars, readerVars
<1>18. CASE syncDirectory
  <2>1. UNCHANGED <<reply, outcome>> /\ synced' \in {synced, file}
    BY <1>18 DEF syncDirectory, clientVars
  <2>. QED  BY <2>1, DurableElements
<1>19. ASSUME NEW c \in AllCommands, submit(c) PROVE AckInv'
  <2>1. UNCHANGED <<synced, reply>>
    BY <1>19 DEF submit, diskVars
  <2>2. \A d \in Commands : outcome'[d] = "ok" => outcome[d] = "ok"
    BY <1>19 DEF submit, AllCommands
  <2>. QED  BY <2>1, <2>2
<1>20. ASSUME NEW c \in AllCommands, cancelContext(c) PROVE AckInv'
  BY <1>20
     DEF cancelContext, diskVars, ownerVars, clientVars, readerVars
<1>21. ASSUME NEW c \in AllCommands, offerAbandoned(c) PROVE AckInv'
  <2>1. UNCHANGED <<synced, reply>>
    BY <1>21 DEF offerAbandoned, diskVars
  <2>2. \A d \in Commands : outcome'[d] = "ok" => outcome[d] = "ok"
    BY <1>21 DEF offerAbandoned, AllCommands
  <2>. QED  BY <2>1, <2>2
<1>22. ASSUME NEW c \in AllCommands, takeReply(c) PROVE AckInv'
  <2>1. UNCHANGED synced /\ outcome' = [outcome EXCEPT ![c] = Head(reply[c])]
          /\ reply' = [reply EXCEPT ![c] = Tail(@)] /\ reply[c] # <<>>
    BY <1>22 DEF takeReply, diskVars
  <2>2. Head(reply[c]) \in Elements(reply[c])
          /\ Elements(Tail(reply[c])) \subseteq Elements(reply[c])
    BY <2>1, ElementsTail
  <2>. QED  BY <2>1, <2>2 DEF AllCommands
<1>23. ASSUME NEW c \in AllCommands, cancelWins(c) PROVE AckInv'
  BY <1>23
     DEF cancelWins, diskVars, ownerVars, clientVars, readerVars
<1>24. ASSUME NEW r \in Readers, ReaderNext(r) PROVE AckInv'
  BY <1>24
     DEF ReaderNext, requestSnapshot, cancelReader, readerAbandons,
         subscriberLeaves, takeAnswer, takeUpdate, unsubscribe, diskVars,
         ownerVars, clientVars, readerVars
<1>25. CASE UNCHANGED vars
  BY <1>25
     DEF vars, diskVars, ownerVars, clientVars, readerVars
<1>. QED
  BY <1>1, <1>2, <1>3, <1>4, <1>5, <1>6, <1>7, <1>8, <1>9, <1>10, <1>11,
     <1>12, <1>13, <1>14, <1>15, <1>16, <1>17, <1>18, <1>19, <1>20, <1>21,
     <1>22, <1>23, <1>24, <1>25
     DEF Next, OwnerNext, WorkerNext, ClientNext, ReaderNext

\* A queue of commands holds commands.
LEMMA ElementsType ==
  ASSUME NEW S, NEW s \in Seq(S)
  PROVE  Elements(s) \subseteq S
BY DEF Elements

\* No command is the empty slot.
LEMMA NoCommandType == NoCommand \notin AllCommands
BY OwnerAssumption DEF AllCommands


\* A command waits at most once, and is answered at most once.
LEMMA QueueStep ==
  ASSUME OwnerTypes, ClientTypes, WorkerInv, QueueInv, [Next]_vars
  PROVE  QueueInv'
<1>. USE OwnerAssumption
     DEF OwnerTypes, ClientTypes, WorkerInv, QueueInv
<1>1. CASE startStateOwner
  <2>1. queue = <<>> /\ inFlight = NoCommand
    BY <1>1 DEF startStateOwner
  <2>2. Elements(<<>>) = {}
    BY DEF Elements
  <2>3. ASSUME NEW c \in AllCommands PROVE AnswerInv(c)'
    BY <1>1, <2>1, <2>2, NoCommandType DEF startStateOwner, AnswerInv
  <2>. QED  BY <1>1, <2>1, <2>2, <2>3 DEF startStateOwner
<1>2. CASE ProcessEnds
  <2>1. Elements(<<>>) = {} /\ Len(<<>>) = 0
    BY DEF Elements
  <2>2. ASSUME NEW c \in AllCommands PROVE AnswerInv(c)'
    BY <1>2, <2>1, NoCommandType DEF ProcessEnds, AnswerInv
  <2>3. queue' = <<>> /\ inFlight' = NoCommand
    BY <1>2 DEF ProcessEnds
  <2>. QED  BY <2>1, <2>2, <2>3
<1>3. CASE closeSignal
  BY <1>3
     DEF closeSignal, AnswerInv, diskVars, ownerVars, clientVars, readerVars
<1>4. CASE startNextAnswered
  <2>. DEFINE h == Head(queue)
  <2>1. /\ queue # <<>> /\ queue' = Tail(queue) /\ inFlight = NoCommand
        /\ UNCHANGED <<up, inFlight, client>>
    BY <1>4 DEF startNextAnswered, Looping, startNextPending
  <2>2. PICK x : reply' = [reply EXCEPT ![h] = Append(@, x)]
    BY <1>4 DEF startNextAnswered, Send
  <2>3. /\ h \in Elements(queue) /\ h \notin Elements(queue')
        /\ Elements(queue') \subseteq Elements(queue)
        /\ \A i, j \in 1..Len(queue') : queue'[i] = queue'[j] => i = j
    BY <2>1, ElementsTail, DistinctTail
  <2>4. h \in AllCommands /\ reply[h] = <<>> /\ up
    BY <1>4, <2>1, <2>3, ElementsType DEF startNextAnswered, Looping, AnswerInv
  <2>5. /\ reply'[h] = <<x>>
        /\ \A c \in AllCommands \ {h} : reply'[c] = reply[c]
    BY <2>2, <2>4
  <2>6. Len(<<x>>) = 1 /\ client[h] \in {"waiting", "returned"}
    BY <2>3, <2>4 DEF AnswerInv
  <2>7. ASSUME NEW c \in AllCommands PROVE AnswerInv(c)'
    <3>1. CASE c = h
      <4>1. Len(reply'[c]) = 1
        BY <2>5, <2>6, <3>1
      <4>2. c \notin Elements(queue') /\ c # inFlight'
        BY <2>1, <2>3, <3>1, NoCommandType
      <4>3. up' /\ client'[c] \notin {"idle", "offering"}
        BY <2>1, <2>4, <2>6, <3>1
      <4>. QED  BY <4>1, <4>2, <4>3 DEF AnswerInv
    <3>2. CASE c # h
      BY <2>1, <2>3, <2>4, <2>5, <3>2 DEF AnswerInv
    <3>. QED  BY <3>1, <3>2
  <2>8. inFlight' \notin Elements(queue')
    BY <2>1, <2>3
  <2>. QED  BY <2>3, <2>7, <2>8
<1>5. CASE startNextPersist
  <2>. DEFINE h == Head(queue)
  <2>1. /\ queue # <<>> /\ queue' = Tail(queue) /\ inFlight' = h
        /\ UNCHANGED <<up, reply, client>>
    BY <1>5 DEF startNextPersist, Looping, startNextPending
  <2>2. h \in Elements(queue) /\ Elements(queue') \subseteq Elements(queue)
    BY <2>1, ElementsTail
  <2>3. /\ h \notin Elements(queue')
        /\ \A i, j \in 1..Len(queue') : queue'[i] = queue'[j] => i = j
    BY <2>1, DistinctTail
  <2>4. ASSUME NEW c \in AllCommands PROVE AnswerInv(c)'
    BY <2>1, <2>2 DEF AnswerInv
  <2>. QED  BY <2>1, <2>3, <2>4
<1>6. ASSUME NEW c \in AllCommands, receiveCommand(c) PROVE QueueInv'
  <2>1. /\ up /\ UNCHANGED <<up, inFlight>>
        /\ client[c] = "offering" /\ client' = [client EXCEPT ![c] = "waiting"]
    BY <1>6 DEF receiveCommand, Selecting, Looping
  <2>2. c \notin Elements(queue) /\ c # inFlight /\ reply[c] = <<>>
    BY <2>1 DEF AnswerInv
  <2>3. CASE queue' = queue /\ \E x : reply' = [reply EXCEPT ![c] = Append(@, x)]
    <3>1. PICK x : reply' = [reply EXCEPT ![c] = Append(@, x)]
      BY <2>3
    <3>2. /\ Len(reply'[c]) = 1 /\ reply'[c] # <<>>
          /\ \A d \in AllCommands \ {c} : reply'[d] = reply[d]
      BY <2>2, <3>1
    <3>3. queue' = queue
      BY <2>3
    <3>4. ASSUME NEW d \in AllCommands PROVE AnswerInv(d)'
      <4>1. CASE d = c
        <5>1. client'[d] = "waiting" /\ d \notin Elements(queue')
          BY <2>1, <2>2, <3>3, <4>1
        <5>2. up' /\ d # inFlight'
          BY <2>1, <2>2, <4>1
        <5>3. Len(reply'[d]) = 1
          BY <3>2, <4>1
        <5>. QED  BY <5>1, <5>2, <5>3 DEF AnswerInv
      <4>2. CASE d # c
        BY <2>1, <3>2, <3>3, <4>2 DEF AnswerInv
      <4>. QED  BY <4>1, <4>2
    <3>. QED  BY <2>1, <3>3, <3>4
  <2>4. CASE queue' = Append(queue, c) /\ reply' = reply
    <3>1. Elements(queue') = Elements(queue) \cup {c}
      BY <2>4, ElementsAppend
    <3>2. ASSUME NEW i \in 1..Len(queue'), NEW j \in 1..Len(queue'),
                 queue'[i] = queue'[j]
          PROVE  i = j
      <4>1. Len(queue') = Len(queue) + 1 /\ queue'[Len(queue) + 1] = c
              /\ \A k \in 1..Len(queue) : queue'[k] = queue[k]
        BY <2>4
      <4>2. \A k \in 1..Len(queue) : queue[k] # c
        BY <2>2 DEF Elements
      <4>3. Len(queue) \in Nat /\ i \in 1..(Len(queue) + 1) /\ j \in 1..(Len(queue) + 1)
        BY <4>1
      <4>4. \A k \in 1..Len(queue) : queue'[k] # queue'[Len(queue) + 1]
        BY <4>1, <4>2
      <4>5. \A k, l \in 1..Len(queue) : queue'[k] = queue'[l] => k = l
        BY <4>1
      <4>6. /\ i \in 1..Len(queue) \/ i = Len(queue) + 1
            /\ j \in 1..Len(queue) \/ j = Len(queue) + 1
        BY <4>3
      <4>. QED  BY <3>2, <4>4, <4>5, <4>6
    <3>3. ASSUME NEW d \in AllCommands PROVE AnswerInv(d)'
      BY <2>1, <2>2, <2>4, <3>1 DEF AnswerInv
    <3>. QED  BY <2>1, <2>2, <3>1, <3>2, <3>3
  <2>. QED  BY <1>6, <2>3, <2>4 DEF receiveCommand, Send, enqueue
<1>7. ASSUME NEW r \in Readers, receiveSnapshot(r) PROVE QueueInv'
  BY <1>7
     DEF receiveSnapshot, Selecting, Looping, startNextPending, ErrorAnswer,
         LedgerAnswer, snapshotState, AnswerInv, diskVars, ownerVars,
         clientVars, readerVars
<1>8. ASSUME NEW r \in Readers, receiveUnsubscribe(r) PROVE QueueInv'
  BY <1>8
     DEF receiveUnsubscribe, Selecting, Looping, startNextPending, AnswerInv,
         diskVars, ownerVars, clientVars, readerVars
<1>9. CASE secondReply
  BY <1>9
     DEF secondReply, LedgerAnswer, snapshotState, AnswerInv, diskVars,
         ownerVars, clientVars, readerVars
<1>10. CASE persistenceSucceeded
  <2>1. /\ up /\ UNCHANGED <<up, queue, client>> /\ inFlight' = NoCommand
        /\ inFlight \in AllCommands
        /\ reply' = [reply EXCEPT ![inFlight] = Append(@, "ok")]
    BY <1>10 DEF persistenceSucceeded, Selecting, Looping, Send
  <2>2. /\ Len(reply'[inFlight]) = 1
        /\ \A c \in AllCommands \ {inFlight} : reply'[c] = reply[c]
        /\ client[inFlight] \in {"waiting", "returned"}
    BY <2>1 DEF AnswerInv
  <2>3. NoCommand \notin Elements(queue)
    BY ElementsType, NoCommandType
  <2>4. ASSUME NEW c \in AllCommands PROVE AnswerInv(c)'
    BY <2>1, <2>2, NoCommandType DEF AnswerInv
  <2>. QED  BY <2>1, <2>3, <2>4
<1>11. CASE persistenceFailed
  <2>1. /\ up /\ UNCHANGED <<up, queue, client>> /\ inFlight' = NoCommand
        /\ inFlight \in AllCommands
        /\ reply' = [reply EXCEPT ![inFlight] = Append(@, "failed")]
    BY <1>11 DEF persistenceFailed, Selecting, Looping, Send
  <2>2. /\ Len(reply'[inFlight]) = 1
        /\ \A c \in AllCommands \ {inFlight} : reply'[c] = reply[c]
        /\ client[inFlight] \in {"waiting", "returned"}
    BY <2>1 DEF AnswerInv
  <2>3. NoCommand \notin Elements(queue)
    BY ElementsType, NoCommandType
  <2>4. ASSUME NEW c \in AllCommands PROVE AnswerInv(c)'
    BY <2>1, <2>2, NoCommandType DEF AnswerInv
  <2>. QED  BY <2>1, <2>3, <2>4
<1>12. CASE persistenceInstalled
  <2>1. /\ up /\ queue' = <<>> /\ UNCHANGED <<up, client>>
        /\ inFlight \in AllCommands /\ inFlight' = NoCommand
    BY <1>12 DEF persistenceInstalled, Selecting, Looping, drainQueue
  <2>2. Elements(<<>>) = {} /\ Len(<<>>) = 0
    BY DEF Elements
  <2>3. ASSUME NEW c \in AllCommands
        PROVE  /\ Len(reply'[c]) <= 1
               /\ c \notin Elements(queue) \cup {inFlight} => reply'[c] = reply[c]
    <3>1. CASE c = inFlight
      <4>1. reply'[c] = Append(reply[c], "installed")
        BY <1>12, <2>1, <3>1 DEF persistenceInstalled, drainQueue
      <4>. QED  BY <3>1, <4>1 DEF AnswerInv
    <3>2. CASE c # inFlight
      <4>1. reply'[c] = IF c \in Elements(queue) THEN Append(reply[c], "poisoned")
                                               ELSE reply[c]
        BY <1>12, <3>2 DEF persistenceInstalled, drainQueue
      <4>. QED  BY <3>2, <4>1 DEF AnswerInv
    <3>. QED  BY <3>1, <3>2
  <2>4. ASSUME NEW c \in AllCommands PROVE AnswerInv(c)'
    BY <2>1, <2>2, <2>3, NoCommandType DEF AnswerInv
  <2>. QED  BY <2>1, <2>2, <2>4
<1>13. CASE receiveStop
  <2>1. up /\ queue' = <<>> /\ UNCHANGED <<up, client, inFlight>>
    BY <1>13 DEF receiveStop, Selecting, Looping, drainQueue
  <2>2. Elements(<<>>) = {} /\ Len(<<>>) = 0
    BY DEF Elements
  <2>3. ASSUME NEW c \in AllCommands
        PROVE  /\ Len(reply'[c]) <= 1
               /\ c \notin Elements(queue) => reply'[c] = reply[c]
    <3>1. reply'[c] = IF c \in Elements(queue) THEN Append(reply[c], "stopped")
                                             ELSE reply[c]
      BY <1>13 DEF receiveStop, drainQueue
    <3>. QED  BY <3>1 DEF AnswerInv
  <2>4. ASSUME NEW c \in AllCommands PROVE AnswerInv(c)'
    BY <2>1, <2>2, <2>3 DEF AnswerInv
  <2>. QED  BY <2>1, <2>2, <2>4
<1>14. CASE finish
  BY <1>14
     DEF finish, Looping, AnswerInv, diskVars, ownerVars, clientVars,
         readerVars
<1>15. CASE WorkerNext
  BY <1>15
     DEF WorkerNext, writeFails, writeTemporary, rename, syncDirectory,
         diskVars, ownerVars, clientVars, readerVars, AnswerInv
<1>16. ASSUME NEW c \in AllCommands, submit(c) PROVE QueueInv'
  BY <1>16
     DEF submit, AnswerInv, diskVars, ownerVars, clientVars, readerVars
<1>17. ASSUME NEW c \in AllCommands, cancelContext(c) PROVE QueueInv'
  BY <1>17
     DEF cancelContext, AnswerInv, diskVars, ownerVars, clientVars,
         readerVars
<1>18. ASSUME NEW c \in AllCommands, offerAbandoned(c) PROVE QueueInv'
  BY <1>18
     DEF offerAbandoned, AnswerInv, diskVars, ownerVars, clientVars,
         readerVars
<1>19. ASSUME NEW c \in AllCommands, takeReply(c) PROVE QueueInv'
  <2>1. /\ up /\ UNCHANGED <<up, queue, inFlight>> /\ reply[c] # <<>>
        /\ client' = [client EXCEPT ![c] = "returned"]
        /\ reply' = [reply EXCEPT ![c] = Tail(@)]
    BY <1>19 DEF takeReply, ownerVars
  <2>2. Len(reply'[c]) <= 1 /\ \A d \in AllCommands \ {c} : reply'[d] = reply[d]
    BY <2>1 DEF AnswerInv
  <2>3. ASSUME NEW d \in AllCommands PROVE AnswerInv(d)'
    BY <2>1, <2>2 DEF AnswerInv
  <2>. QED  BY <2>1, <2>3
<1>20. ASSUME NEW c \in AllCommands, cancelWins(c) PROVE QueueInv'
  BY <1>20
     DEF cancelWins, AnswerInv, diskVars, ownerVars, clientVars, readerVars
<1>21. ASSUME NEW r \in Readers, ReaderNext(r) PROVE QueueInv'
  BY <1>21
     DEF ReaderNext, requestSnapshot, cancelReader, readerAbandons,
         subscriberLeaves, takeAnswer, takeUpdate, unsubscribe, AnswerInv,
         diskVars, ownerVars, clientVars, readerVars
<1>22. CASE UNCHANGED vars
  BY <1>22
     DEF AnswerInv, vars, diskVars, ownerVars, clientVars, readerVars
<1>. QED
  BY <1>1, <1>2, <1>3, <1>4, <1>5, <1>6, <1>7, <1>8, <1>9, <1>10, <1>11,
     <1>12, <1>13, <1>14, <1>15, <1>16, <1>17, <1>18, <1>19, <1>20, <1>21,
     <1>22
     DEF Next, OwnerNext, WorkerNext, ClientNext, ReaderNext

\* A command whose caller was told that it did not happen is in no ledger.
LEMMA RejectStep ==
  ASSUME OwnerTypes, ClientTypes, WorkerInv, SyncedInv, QueueInv, RejectInv, [Next]_vars
  PROVE  RejectInv'
<1>. USE OwnerAssumption
     DEF OwnerTypes, ClientTypes, WorkerInv, AllCommands, RejectInv
<1>1. CASE startStateOwner
  <2>1. /\ UNCHANGED <<file, queue, inFlight, worker, arb, reply>>
        /\ \A d \in Commands : client'[d] = client[d] /\ outcome'[d] = outcome[d]
    BY <1>1 DEF startStateOwner
  <2>2. ASSUME NEW d \in Commands PROVE RejectInvOf(d)'
    BY <2>1 DEF RejectInvOf, NotInstalled, Rejected
  <2>. QED  BY <2>2
<1>2. CASE ProcessEnds
  <2>1. /\ queue' = <<>> /\ inFlight' = NoCommand /\ worker' = "idle"
        /\ file' \in {file, synced}
    BY <1>2 DEF ProcessEnds
  <2>2. Elements(<<>>) = {}
    BY DEF Elements
  <2>3. Elements(file') \subseteq Elements(file)
    BY <2>1, DurableElements
  <2>4. ASSUME NEW d \in Commands PROVE RejectInvOf(d)'
    <3>1. reply'[d] = <<>> /\ arb'[d] = "open"
      BY <1>2 DEF ProcessEnds
    <3>2. \/ client[d] = "idle" /\ client'[d] = "idle" /\ outcome'[d] = outcome[d]
          \/ client'[d] = "returned" /\ outcome'[d] \in {"lost", outcome[d]}
      BY <1>2 DEF ProcessEnds
    <3>3. d \notin Elements(queue') /\ d # inFlight' /\ Elements(reply'[d]) = {}
      BY <2>1, <2>2, <3>1, NoCommandType
    <3>4. NotInstalled(d)' => NotInstalled(d)
      BY <3>2, <3>3 DEF NotInstalled, Rejected
    <3>. QED  BY <2>3, <3>1, <3>2, <3>3, <3>4 DEF RejectInvOf
  <2>. QED  BY <2>4
<1>3. CASE closeSignal
  BY <1>3
     DEF closeSignal, RejectInvOf, NotInstalled, Rejected, diskVars,
         ownerVars, clientVars, readerVars
<1>4. CASE startNextAnswered
  <2>. DEFINE h == Head(queue)
  <2>1. /\ queue # <<>> /\ queue' = Tail(queue) /\ inFlight = NoCommand
        /\ UNCHANGED <<file, inFlight, worker, client, outcome>>
    BY <1>4 DEF startNextAnswered, startNextPending, diskVars
  <2>2. h \in Elements(queue) /\ Elements(queue') \subseteq Elements(queue)
    BY <2>1, ElementsTail
  <2>3. h \in AllCommands /\ h \notin Elements(queue')
    BY <2>1, <2>2, ElementsType, DistinctTail DEF QueueInv
  <2>4. ASSUME NEW d \in Commands PROVE RejectInvOf(d)'
    <3>1. CASE d # h
      <4>1. reply'[d] = reply[d] /\ arb'[d] = arb[d]
        BY <1>4, <2>3, <3>1 DEF startNextAnswered, Send
      <4>. QED  BY <2>1, <2>2, <3>1, <4>1 DEF RejectInvOf, NotInstalled, Rejected
    <3>2. CASE d = h
      <4>1. d \notin Elements(file) /\ d # inFlight /\ d \notin Elements(queue')
        BY <2>1, <2>2, <2>3, <3>2, NoCommandType DEF RejectInvOf, NotInstalled
      <4>2. client[d] \notin {"idle", "offering"}
        BY <2>2, <2>3, <3>2 DEF QueueInv, AnswerInv
      <4>. QED  BY <2>1, <4>1, <4>2 DEF RejectInvOf
    <3>. QED  BY <3>1, <3>2
  <2>. QED  BY <2>4
<1>5. CASE startNextPersist
  <2>. DEFINE h == Head(queue)
  <2>1. /\ queue # <<>> /\ queue' = Tail(queue) /\ inFlight' = h /\ worker' = "received"
        /\ arb[h] = "open" /\ arb' = [arb EXCEPT ![h] = "claimed"]
        /\ inFlight = NoCommand
        /\ UNCHANGED <<file, client, reply, outcome>>
    BY <1>5 DEF startNextPersist, startNextPending, claim, diskVars
  <2>2. h \in Elements(queue) /\ Elements(queue') \subseteq Elements(queue)
    BY <2>1, ElementsTail
  <2>3. h \in AllCommands /\ h \notin Elements(queue')
    BY <2>1, <2>2, ElementsType, DistinctTail DEF QueueInv
  <2>4. ASSUME NEW d \in Commands PROVE RejectInvOf(d)'
    <3>1. CASE d # h
      <4>1. arb'[d] = arb[d] /\ d # inFlight'
        BY <2>1, <2>3, <3>1
      <4>. QED  BY <2>1, <2>2, <4>1 DEF RejectInvOf, NotInstalled, Rejected
    <3>2. CASE d = h
      <4>1. d \notin Elements(file) /\ d \notin Elements(queue') /\ arb'[d] = "claimed"
        BY <2>1, <2>2, <2>3, <3>2 DEF RejectInvOf, NotInstalled
      <4>2. client[d] \in {"waiting", "returned"}
        BY <2>2, <2>3, <3>2 DEF QueueInv, AnswerInv
      <4>3. client[d] = "waiting"
        BY <2>1, <2>2, <3>2, <4>2 DEF RejectInvOf
      <4>. QED  BY <2>1, <4>1, <4>3 DEF RejectInvOf
    <3>. QED  BY <3>1, <3>2
  <2>. QED  BY <2>4
<1>6. ASSUME NEW c \in AllCommands, receiveCommand(c) PROVE RejectInv'
  <2>1. /\ client[c] = "offering" /\ client' = [client EXCEPT ![c] = "waiting"]
        /\ UNCHANGED <<file, inFlight, worker, arb, outcome>>
    BY <1>6 DEF receiveCommand, diskVars
  <2>2. /\ queue' = queue \/ queue' = Append(queue, c)
        /\ \A d \in Commands \ {c} : reply'[d] = reply[d]
    BY <1>6 DEF receiveCommand, Send, enqueue
  <2>3. Elements(queue') \subseteq Elements(queue) \cup {c}
    BY <2>2, ElementsAppend
  <2>4. c # inFlight
    BY <2>1 DEF QueueInv, AnswerInv
  <2>5. ASSUME NEW d \in Commands PROVE RejectInvOf(d)'
    <3>1. CASE d # c
      BY <2>1, <2>2, <2>3, <3>1 DEF RejectInvOf, NotInstalled, Rejected
    <3>2. CASE d = c
      <4>1. d \notin Elements(file) /\ arb[d] = "open" /\ outcome[d] = "none"
        BY <2>1, <3>2 DEF RejectInvOf, NotInstalled
      <4>2. client'[d] = "waiting" /\ d # inFlight'
        BY <2>1, <2>4, <3>2
      <4>. QED  BY <2>1, <4>1, <4>2 DEF RejectInvOf
    <3>. QED  BY <3>1, <3>2
  <2>. QED  BY <2>5
<1>7. ASSUME NEW r \in Readers, receiveSnapshot(r) PROVE RejectInv'
  BY <1>7
     DEF receiveSnapshot, Selecting, Looping, startNextPending, ErrorAnswer,
         LedgerAnswer, snapshotState, RejectInvOf, NotInstalled, Rejected,
         diskVars, ownerVars, clientVars, readerVars
<1>8. ASSUME NEW r \in Readers, receiveUnsubscribe(r) PROVE RejectInv'
  BY <1>8
     DEF receiveUnsubscribe, Selecting, Looping, startNextPending,
         RejectInvOf, NotInstalled, Rejected, diskVars, ownerVars,
         clientVars, readerVars
<1>9. CASE secondReply
  BY <1>9
     DEF secondReply, LedgerAnswer, snapshotState, RejectInvOf, NotInstalled,
         Rejected, diskVars, ownerVars, clientVars, readerVars
<1>10. CASE persistenceSucceeded
  <2>1. /\ UNCHANGED <<file, queue, client, arb, outcome>>
        /\ inFlight \in AllCommands /\ inFlight' = NoCommand /\ worker' = "idle"
        /\ reply' = [reply EXCEPT ![inFlight] = Append(@, "ok")]
    BY <1>10 DEF persistenceSucceeded, Send, diskVars
  <2>2. ASSUME NEW d \in Commands PROVE RejectInvOf(d)'
    <3>1. CASE d # inFlight
      <4>1. reply'[d] = reply[d] /\ d # inFlight'
        BY <2>1, <3>1, NoCommandType
      <4>. QED  BY <2>1, <3>1, <4>1 DEF RejectInvOf, NotInstalled, Rejected
    <3>2. CASE d = inFlight
      <4>1. /\ client[d] = "waiting" /\ arb[d] = "claimed" /\ outcome[d] = "none"
            /\ d \notin Elements(queue) /\ reply[d] = <<>> /\ d # inFlight'
        BY <2>1, <3>2, NoCommandType DEF RejectInvOf, QueueInv, AnswerInv
      <4>2. Elements(reply'[d]) = {"ok"}
        <5>1. reply'[d] = <<"ok">>
          BY <2>1, <3>2, <4>1
        <5>. QED  BY <5>1 DEF Elements
      <4>. QED  BY <2>1, <4>1, <4>2 DEF RejectInvOf, NotInstalled, Rejected
    <3>. QED  BY <3>1, <3>2
  <2>. QED  BY <2>2
<1>11. CASE persistenceFailed
  <2>1. /\ UNCHANGED <<file, queue, client, arb, outcome>>
        /\ inFlight \in AllCommands /\ inFlight' = NoCommand /\ worker' = "idle"
        /\ reply' = [reply EXCEPT ![inFlight] = Append(@, "failed")]
    BY <1>11 DEF persistenceFailed, Send, diskVars
  <2>2. ASSUME NEW d \in Commands PROVE RejectInvOf(d)'
    <3>1. CASE d # inFlight
      <4>1. reply'[d] = reply[d] /\ d # inFlight'
        BY <2>1, <3>1, NoCommandType
      <4>. QED  BY <2>1, <3>1, <4>1 DEF RejectInvOf, NotInstalled, Rejected
    <3>2. CASE d = inFlight
      <4>1. /\ client[d] = "waiting" /\ arb[d] = "claimed" /\ outcome[d] = "none"
            /\ d \notin Elements(queue) /\ reply[d] = <<>> /\ d # inFlight'
        BY <2>1, <3>2, NoCommandType DEF RejectInvOf, QueueInv, AnswerInv
      <4>2. d \notin Elements(file)
        BY <1>11, <3>2 DEF persistenceFailed, RejectInvOf, NotInstalled
      <4>. QED  BY <2>1, <4>1, <4>2 DEF RejectInvOf, NotInstalled, Rejected
    <3>. QED  BY <3>1, <3>2
  <2>. QED  BY <2>2
<1>12. CASE persistenceInstalled
  <2>1. /\ UNCHANGED <<file, client, arb, outcome>> /\ queue' = <<>>
        /\ inFlight \in AllCommands /\ inFlight' = NoCommand /\ worker' = "idle"
    BY <1>12 DEF persistenceInstalled, drainQueue, diskVars
  <2>2. Elements(<<>>) = {}
    BY DEF Elements
  <2>3. ASSUME NEW d \in Commands PROVE RejectInvOf(d)'
    <3>. d \notin Elements(queue') /\ d # inFlight'
      BY <2>1, <2>2, NoCommandType
    <3>1. CASE d = inFlight
      <4>1. /\ client[d] = "waiting" /\ arb[d] = "claimed" /\ outcome[d] = "none"
            /\ d \notin Elements(queue) /\ reply[d] = <<>>
        BY <2>1, <3>1 DEF RejectInvOf, QueueInv, AnswerInv
      <4>2. Elements(reply'[d]) = {"installed"}
        <5>1. reply'[d] = Append(reply[d], "installed")
          BY <1>12, <2>1, <3>1, <4>1 DEF persistenceInstalled, drainQueue
        <5>2. reply'[d] = <<"installed">>
          BY <4>1, <5>1
        <5>. QED  BY <5>2 DEF Elements
      <4>. QED  BY <2>1, <4>1, <4>2 DEF RejectInvOf, NotInstalled, Rejected
    <3>2. CASE d # inFlight /\ d \in Elements(queue)
      <4>1. d \notin Elements(file)
        BY <3>2 DEF RejectInvOf, NotInstalled
      <4>. QED  BY <2>1, <3>2, <4>1 DEF RejectInvOf
    <3>3. CASE d # inFlight /\ d \notin Elements(queue)
      <4>1. reply'[d] = reply[d]
        BY <1>12, <2>1, <3>3 DEF persistenceInstalled, drainQueue
      <4>. QED  BY <2>1, <3>3, <4>1 DEF RejectInvOf, NotInstalled, Rejected
    <3>. QED  BY <3>1, <3>2, <3>3
  <2>. QED  BY <2>3
<1>13. CASE receiveStop
  <2>1. UNCHANGED <<file, client, arb, outcome, inFlight, worker>> /\ queue' = <<>>
    BY <1>13 DEF receiveStop, drainQueue, diskVars
  <2>2. Elements(<<>>) = {}
    BY DEF Elements
  <2>3. ASSUME NEW d \in Commands PROVE RejectInvOf(d)'
    <3>. d \notin Elements(queue')
      BY <2>1, <2>2
    <3>1. CASE d \in Elements(queue)
      <4>1. d \notin Elements(file)
        BY <3>1 DEF RejectInvOf, NotInstalled
      <4>. QED  BY <2>1, <3>1, <4>1 DEF RejectInvOf
    <3>2. CASE d \notin Elements(queue)
      <4>1. reply'[d] = reply[d]
        BY <1>13, <3>2 DEF receiveStop, drainQueue
      <4>. QED  BY <2>1, <3>2, <4>1 DEF RejectInvOf, NotInstalled, Rejected
    <3>. QED  BY <3>1, <3>2
  <2>. QED  BY <2>3
<1>14. CASE finish
  BY <1>14
     DEF finish, Looping, RejectInvOf, NotInstalled, Rejected, diskVars,
         ownerVars, clientVars, readerVars
<1>15. CASE writeFails
  BY <1>15
     DEF writeFails, RejectInvOf, NotInstalled, Rejected, diskVars,
         ownerVars, clientVars, readerVars
<1>16. CASE writeTemporary
  BY <1>16
     DEF writeTemporary, RejectInvOf, NotInstalled, Rejected, diskVars,
         ownerVars, clientVars, readerVars
<1>17. CASE rename
  <2>1. /\ UNCHANGED <<queue, inFlight, client, arb, reply, outcome>>
        /\ worker = "checked" /\ worker' = "renamed" /\ inFlight \in AllCommands
        /\ file' = Append(file, inFlight)
    BY <1>17 DEF rename, candidate, clientVars
  <2>2. Elements(file') = Elements(file) \cup {inFlight}
    BY <2>1, ElementsAppend DEF Ledger
  <2>3. ASSUME NEW d \in Commands PROVE RejectInvOf(d)'
    <3>1. CASE d # inFlight
      BY <2>1, <2>2, <3>1 DEF RejectInvOf, NotInstalled, Rejected
    <3>2. CASE d = inFlight
      <4>1. /\ client[d] = "waiting" /\ arb[d] = "claimed" /\ outcome[d] = "none"
            /\ d \notin Elements(queue) /\ reply[d] = <<>>
        BY <2>1, <3>2 DEF RejectInvOf, QueueInv, AnswerInv
      <4>2. Elements(<<>>) = {}
        BY DEF Elements
      <4>3. ~NotInstalled(d)'
        BY <2>1, <4>1, <4>2 DEF NotInstalled, Rejected
      <4>. QED  BY <2>1, <4>1, <4>3 DEF RejectInvOf
    <3>. QED  BY <3>1, <3>2
  <2>. QED  BY <2>3
<1>18. CASE syncDirectory
  BY <1>18
     DEF syncDirectory, candidate, RejectInvOf, NotInstalled, Rejected,
         diskVars, ownerVars, clientVars, readerVars
<1>19. ASSUME NEW c \in AllCommands, submit(c) PROVE RejectInv'
  <2>1. /\ UNCHANGED <<file, queue, inFlight, worker, arb, reply>>
        /\ client[c] \in {"idle", "offering"}
    BY <1>19 DEF submit, diskVars, ownerVars
  <2>2. ASSUME NEW d \in Commands PROVE RejectInvOf(d)'
    <3>1. CASE d # c
      <4>1. client'[d] = client[d] /\ outcome'[d] = outcome[d]
        BY <1>19, <3>1 DEF submit
      <4>. QED  BY <2>1, <4>1 DEF RejectInvOf, NotInstalled, Rejected
    <3>2. CASE d = c
      <4>1. /\ d \notin Elements(file) /\ d \notin Elements(queue) /\ d # inFlight
            /\ arb[d] = "open" /\ outcome[d] = "none"
        BY <2>1, <3>2 DEF RejectInvOf, NotInstalled, QueueInv, AnswerInv
      <4>2. \/ client' = [client EXCEPT ![c] = "returned"]
            \/ client' = [client EXCEPT ![c] = "offering"] /\ outcome' = outcome
        BY <1>19 DEF submit
      <4>. QED  BY <2>1, <3>2, <4>1, <4>2 DEF RejectInvOf
    <3>. QED  BY <3>1, <3>2
  <2>. QED  BY <2>2
<1>20. ASSUME NEW c \in AllCommands, cancelContext(c) PROVE RejectInv'
  BY <1>20
     DEF cancelContext, RejectInvOf, NotInstalled, Rejected, diskVars,
         ownerVars, clientVars, readerVars
<1>21. ASSUME NEW c \in AllCommands, offerAbandoned(c) PROVE RejectInv'
  <2>1. /\ UNCHANGED <<file, queue, inFlight, worker, arb, reply>>
        /\ client[c] \in {"idle", "offering"}
    BY <1>21 DEF offerAbandoned, diskVars, ownerVars
  <2>2. ASSUME NEW d \in Commands PROVE RejectInvOf(d)'
    <3>1. CASE d # c
      <4>1. client'[d] = client[d] /\ outcome'[d] = outcome[d]
        BY <1>21, <3>1 DEF offerAbandoned
      <4>. QED  BY <2>1, <4>1 DEF RejectInvOf, NotInstalled, Rejected
    <3>2. CASE d = c
      <4>1. /\ d \notin Elements(file) /\ d \notin Elements(queue) /\ d # inFlight
            /\ arb[d] = "open" /\ outcome[d] = "none"
        BY <2>1, <3>2 DEF RejectInvOf, NotInstalled, QueueInv, AnswerInv
      <4>2. \/ client' = [client EXCEPT ![c] = "returned"]
            \/ client' = [client EXCEPT ![c] = "offering"] /\ outcome' = outcome
        BY <1>21 DEF offerAbandoned
      <4>. QED  BY <2>1, <3>2, <4>1, <4>2 DEF RejectInvOf
    <3>. QED  BY <3>1, <3>2
  <2>. QED  BY <2>2
<1>22. ASSUME NEW c \in AllCommands, takeReply(c) PROVE RejectInv'
  <2>1. /\ UNCHANGED <<file, queue, inFlight, worker, arb>>
        /\ client[c] = "waiting" /\ reply[c] # <<>>
        /\ client' = [client EXCEPT ![c] = "returned"]
        /\ reply' = [reply EXCEPT ![c] = Tail(@)]
        /\ outcome' = [outcome EXCEPT ![c] = Head(reply[c])]
    BY <1>22 DEF takeReply, diskVars, ownerVars
  <2>2. ASSUME NEW d \in Commands PROVE RejectInvOf(d)'
    <3>1. CASE d # c
      <4>1. client'[d] = client[d] /\ outcome'[d] = outcome[d] /\ reply'[d] = reply[d]
        BY <2>1, <3>1
      <4>. QED  BY <2>1, <4>1 DEF RejectInvOf, NotInstalled, Rejected
    <3>2. CASE d = c
      <4>1. d \notin Elements(queue) /\ d # inFlight
        BY <2>1, <3>2 DEF QueueInv, AnswerInv
      <4>2. /\ Head(reply[d]) \in Elements(reply[d])
            /\ Elements(Tail(reply[d])) \subseteq Elements(reply[d])
        BY <2>1, <3>2, ElementsTail
      <4>3. /\ client'[d] = "returned" /\ reply'[d] = Tail(reply[d])
            /\ outcome'[d] = Head(reply[d])
        BY <2>1, <3>2
      <4>4. NotInstalled(d)' => NotInstalled(d)
        BY <2>1, <4>1, <4>2, <4>3 DEF NotInstalled, Rejected
      <4>. QED  BY <2>1, <4>1, <4>3, <4>4 DEF RejectInvOf
    <3>. QED  BY <3>1, <3>2
  <2>. QED  BY <2>2
<1>23. ASSUME NEW c \in AllCommands, cancelWins(c) PROVE RejectInv'
  BY <1>23
     DEF cancelWins, RejectInvOf, NotInstalled, Rejected, diskVars,
         ownerVars, clientVars, readerVars
<1>24. ASSUME NEW r \in Readers, ReaderNext(r) PROVE RejectInv'
  BY <1>24
     DEF ReaderNext, requestSnapshot, cancelReader, readerAbandons,
         subscriberLeaves, takeAnswer, takeUpdate, unsubscribe, RejectInvOf,
         NotInstalled, Rejected, diskVars, ownerVars, clientVars, readerVars
<1>25. CASE UNCHANGED vars
  BY <1>25
     DEF RejectInvOf, NotInstalled, Rejected, vars, diskVars, ownerVars, clientVars, readerVars
<1>. QED
  BY <1>1, <1>2, <1>3, <1>4, <1>5, <1>6, <1>7, <1>8, <1>9, <1>10, <1>11,
     <1>12, <1>13, <1>14, <1>15, <1>16, <1>17, <1>18, <1>19, <1>20, <1>21,
     <1>22, <1>23, <1>24, <1>25
     DEF Next, OwnerNext, WorkerNext, ClientNext, ReaderNext

(***************************************************************************)
(* The inductive invariant and what follows from it.                       *)
(***************************************************************************)

OwnerInv == /\ OwnerTypes /\ ClientTypes /\ ReaderTypes
            /\ WorkerInv /\ SyncedInv /\ AckInv /\ QueueInv /\ RejectInv

\* The initial state satisfies the inductive invariant.
LEMMA InitOwnerInv == Init => OwnerInv
<1>. SUFFICES ASSUME Init PROVE OwnerInv
  OBVIOUS
<1>. USE OwnerAssumption DEF Init
<1>1. Elements(<<>>) = {} /\ Len(<<>>) = 0
  BY DEF Elements
<1>2. OwnerTypes
  <2>1. file \in Ledger /\ synced \in Ledger /\ committed \in Ledger
          /\ queue \in Seq(AllCommands)
    BY DEF Ledger
  <2>2. boots \in 0..MaxBoots
    OBVIOUS
  <2>. QED  BY <2>1, <2>2 DEF OwnerTypes, WorkerState
<1>3. ClientTypes
  BY DEF ClientTypes, Replies, Outcomes
<1>4. ReaderTypes
  BY DEF ReaderTypes, Answers, ErrorAnswer, Ledger
<1>5. WorkerInv /\ SyncedInv
  BY DEF WorkerInv, SyncedInv
<1>6. AckInv
  BY <1>1 DEF AckInv, AllCommands
<1>7. QueueInv
  BY <1>1, NoCommandType DEF QueueInv, AnswerInv
<1>8. RejectInv
  BY <1>1, NoCommandType DEF RejectInv, RejectInvOf, AllCommands
<1>. QED  BY <1>2, <1>3, <1>4, <1>5, <1>6, <1>7, <1>8 DEF OwnerInv

\* Every step preserves it.
LEMMA NextOwnerInv == OwnerInv /\ [Next]_vars => OwnerInv'
BY OwnerTypesStep, ClientTypesStep, ReaderTypesStep, WorkerStep, SyncedStep,
   AckStep, QueueStep, RejectStep
   DEF OwnerInv

\* The invariant behind every theorem below holds in every reachable state.
THEOREM Inductive == Spec => []OwnerInv
BY InitOwnerInv, NextOwnerInv, PTL DEF Spec

\* Type correctness of the owner, its worker, its callers and its readers.
THEOREM TypeCorrect == Spec => []TypeOK
<1>1. OwnerInv => TypeOK
  BY DEF OwnerInv, TypeOK
<1>. QED  BY <1>1, Inductive, PTL

\* Unless it is poisoned, an idle owner decides on exactly the ledger that a
\* restart would load.
THEOREM MemoryMatches == Spec => []MemoryMatchesDisk
<1>1. OwnerInv => MemoryMatchesDisk
  BY DEF OwnerInv, MemoryMatchesDisk, WorkerInv
<1>. QED  BY <1>1, Inductive, PTL

\* submit reports success only for a command that no crash can undo.
THEOREM Acknowledged == Spec => []AcknowledgedDurable
<1>1. OwnerInv => AcknowledgedDurable
  BY DEF OwnerInv, AcknowledgedDurable, AckInv
<1>. QED  BY <1>1, Inductive, PTL

\* submit reports failure, other than the installed error, only for a command
\* that is not in the ledger and never will be.
THEOREM RejectedStaysOut == Spec => []RejectedNeverCommitted
<1>1. OwnerInv => RejectedNeverCommitted
  BY DEF OwnerInv, RejectedNeverCommitted, RejectInv, RejectInvOf, NotInstalled
<1>. QED  BY <1>1, Inductive, PTL

\* The owner goroutine never blocks on a caller's reply channel.
THEOREM OneAnswer == Spec => []AnsweredOnce
<1>1. OwnerInv => AnsweredOnce
  BY DEF OwnerInv, AnsweredOnce, QueueInv, AnswerInv
<1>. QED  BY <1>1, Inductive, PTL

(***************************************************************************)
(* The owner implements the abstract durable ledger.                       *)
(***************************************************************************)

\* A command enters the directory's ledger at most once.
LEMMA OnceStep ==
  ASSUME OwnerInv, AppliedOnce, [Next]_vars
  PROVE  AppliedOnce'
<1>. USE DEF OwnerInv
<1>1. CASE ProcessEnds
  <2>1. file' = file \/ file' = synced
    BY <1>1 DEF ProcessEnds
  <2>2. CASE file' = synced
    <3>1. Len(synced) \in Nat /\ Len(file) \in Nat
      BY DEF OwnerTypes, Ledger
    <3>. QED  BY <2>2, <3>1 DEF AppliedOnce, SyncedInv
  <2>. QED  BY <2>1, <2>2 DEF AppliedOnce
<1>2. CASE rename
  <2>1. file' = Append(file, inFlight) /\ inFlight \in AllCommands /\ worker = "checked"
    BY <1>2 DEF rename, candidate, WorkerInv, OwnerTypes
  <2>2. inFlight \in Commands => inFlight \notin Elements(file)
    BY <2>1 DEF RejectInv, RejectInvOf, NotInstalled
  <2>3. \A k \in 1..Len(file) : file[k] = inFlight => inFlight = Start
    BY <2>1, <2>2 DEF Elements, AllCommands
  <2>4. /\ Len(file) \in Nat /\ Len(file') = Len(file) + 1
        /\ file'[Len(file) + 1] = inFlight
        /\ \A k \in 1..Len(file) : file'[k] = file[k]
    BY <2>1 DEF OwnerTypes, Ledger
  <2>5. SUFFICES ASSUME NEW i \in 1..Len(file'), NEW j \in 1..Len(file'),
                        file'[i] = file'[j], i # j
                 PROVE  file'[i] = Start
    BY DEF AppliedOnce
  <2>6. /\ i \in 1..Len(file) \/ i = Len(file) + 1
        /\ j \in 1..Len(file) \/ j = Len(file) + 1
    BY <2>4
  <2>. QED  BY <2>3, <2>4, <2>5, <2>6 DEF AppliedOnce
<1>3. CASE ~ProcessEnds /\ ~rename
  <2>1. file' = file
    BY <1>3 DEF Next, OwnerNext, WorkerNext, ClientNext, ReaderNext, vars, diskVars,
       startStateOwner, closeSignal, startNextAnswered, startNextPersist,
       receiveCommand, receiveSnapshot, receiveUnsubscribe, secondReply,
       persistenceSucceeded, persistenceFailed, persistenceInstalled,
       receiveStop, finish, writeFails, writeTemporary, syncDirectory, submit,
       cancelContext, offerAbandoned, takeReply, cancelWins, requestSnapshot,
       cancelReader, readerAbandons, subscriberLeaves, takeAnswer, takeUpdate,
       unsubscribe
  <2>. QED  BY <2>1 DEF AppliedOnce
<1>. QED  BY <1>1, <1>2, <1>3

\* A step that changes neither the durable ledger nor what a caller of a
\* command was told is invisible to the abstract ledger.
LEMMA Invisible ==
  ASSUME synced' = synced, \A c \in Commands : outcome'[c] = outcome[c]
  PROVE  UNCHANGED Promise!lvars
BY DEF Promise!lvars, Rejected

\* Telling one caller something about a command that was not answered before.
LEMMA Told ==
  ASSUME OwnerInv, OwnerInv', UNCHANGED synced, NEW c \in AllCommands,
         outcome[c] = "none" \/ c = Start, NEW x,
         outcome' = [outcome EXCEPT ![c] = x]
  PROVE  [Promise!LedgerNext]_(Promise!lvars)
<1>. USE DEF OwnerInv
<1>1. CASE c = Start
  BY <1>1, OwnerAssumption, Invisible DEF ClientTypes, AllCommands
<1>2. CASE c \in Commands
  <2>1. outcome[c] = "none" /\ outcome'[c] = x
          /\ \A d \in Commands \ {c} : outcome'[d] = outcome[d]
    BY <1>2, OwnerAssumption DEF ClientTypes, AllCommands
  <2>2. CASE x = "ok"
    <3>1. Promise!Holds(synced, c)
      BY <1>2, <2>1, <2>2 DEF AckInv, Elements, Promise!Holds
    <3>2. /\ {d \in Commands : outcome'[d] = "ok"}
               = {d \in Commands : outcome[d] = "ok"} \cup {c}
          /\ {d \in Commands : Rejected(d)'} = {d \in Commands : Rejected(d)}
      BY <1>2, <2>1, <2>2 DEF Rejected
    <3>3. Promise!Acknowledge(c)
      BY <3>1, <3>2 DEF Promise!Acknowledge
    <3>. QED  BY <1>2, <3>3 DEF Promise!LedgerNext
  <2>3. CASE Rejected(c)'
    <3>1. c \notin Elements(synced)
      <4>1. c \notin Elements(file')
        BY <1>2, <2>3 DEF RejectInv, RejectInvOf, NotInstalled
      <4>2. Elements(synced') \subseteq Elements(file')
        BY DEF OwnerTypes, SyncedInv, Ledger, Elements
      <4>. QED  BY <4>1, <4>2
    <3>2. ~Promise!Holds(synced, c)
      BY <3>1 DEF Elements, Promise!Holds
    <3>3. /\ {d \in Commands : outcome'[d] = "ok"} = {d \in Commands : outcome[d] = "ok"}
          /\ {d \in Commands : Rejected(d)'} = {d \in Commands : Rejected(d)} \cup {c}
      BY <1>2, <2>1, <2>3 DEF Rejected
    <3>4. Promise!Reject(c)
      BY <3>2, <3>3 DEF Promise!Reject
    <3>. QED  BY <1>2, <3>4 DEF Promise!LedgerNext
  <2>4. CASE x # "ok" /\ ~Rejected(c)'
    <3>1. /\ {d \in Commands : outcome'[d] = "ok"} = {d \in Commands : outcome[d] = "ok"}
          /\ {d \in Commands : Rejected(d)'} = {d \in Commands : Rejected(d)}
      BY <1>2, <2>1, <2>4 DEF Rejected
    <3>. QED  BY <3>1 DEF Promise!lvars
  <2>. QED  BY <2>2, <2>3, <2>4
<1>. QED  BY <1>1, <1>2 DEF AllCommands

\* Making the directory durable extends the log by what the directory holds.
LEMMA Synced ==
  ASSUME OwnerInv, AppliedOnce, synced' = file, outcome' = outcome
  PROVE  [Promise!LedgerNext]_(Promise!lvars)
<1>. USE DEF OwnerInv
<1>1. Len(synced) \in Nat /\ Len(file) \in Nat /\ Len(synced) <= Len(file)
  BY DEF OwnerTypes, Ledger, SyncedInv
<1>2. UNCHANGED <<{c \in Commands : outcome[c] = "ok"}, {c \in Commands : Rejected(c)}>>
  BY DEF Rejected
<1>3. CASE Len(synced) = Len(file)
  <2>1. synced = file
    BY <1>3, SeqEqual DEF OwnerTypes, Ledger, SyncedInv
  <2>. QED  BY <1>2, <2>1 DEF Promise!lvars
<1>4. CASE Len(synced) # Len(file)
  <2>1. synced' \in Seq(Commands \cup {Start}) /\ Len(synced) < Len(synced')
    BY <1>1, <1>4 DEF OwnerTypes, Ledger, AllCommands
  <2>2. \A i \in 1..Len(synced) : synced'[i] = synced[i]
    BY DEF SyncedInv
  <2>3. \A i, j \in 1..Len(synced') : synced'[i] = synced'[j] /\ i # j => synced'[i] = Start
    BY DEF AppliedOnce
  <2>4. \A c \in {d \in Commands : Rejected(d)} : ~Promise!Holds(synced', c)
    BY DEF RejectInv, RejectInvOf, NotInstalled, Elements, Promise!Holds
  <2>5. Promise!Extend
    BY <1>2, <2>1, <2>2, <2>3, <2>4 DEF Promise!Extend
  <2>. QED  BY <2>5 DEF Promise!LedgerNext
<1>. QED  BY <1>3, <1>4

\* Every step of the owner, of its worker, of a caller or of the process is a
\* step of the abstract ledger or leaves it alone.
LEMMA RefinementStep ==
  ASSUME OwnerInv, OwnerInv', AppliedOnce, [Next]_vars
  PROVE  [Promise!LedgerNext]_(Promise!lvars)
<1>1. CASE startStateOwner
  BY <1>1, OwnerAssumption, Invisible
     DEF startStateOwner, OwnerInv, ClientTypes, AllCommands
<1>2. CASE ProcessEnds
  <2>1. synced' = synced
    BY <1>2 DEF ProcessEnds
  <2>2. ASSUME NEW c \in Commands
        PROVE  \/ outcome'[c] = outcome[c]
               \/ outcome[c] = "none" /\ outcome'[c] = "lost"
    <3>1. CASE client[c] \in {"offering", "waiting"}
      <4>1. outcome'[c] = "lost"
        BY <1>2, <3>1 DEF ProcessEnds, AllCommands
      <4>2. outcome[c] = "none"
        BY <3>1 DEF OwnerInv, RejectInv, RejectInvOf
      <4>. QED  BY <4>1, <4>2
    <3>2. CASE client[c] \notin {"offering", "waiting"}
      <4>1. outcome'[c] = outcome[c]
        BY <1>2, <3>2 DEF ProcessEnds, AllCommands
      <4>. QED  BY <4>1
    <3>. QED  BY <3>1, <3>2
  <2>3. /\ {d \in Commands : outcome'[d] = "ok"} = {d \in Commands : outcome[d] = "ok"}
        /\ {d \in Commands : Rejected(d)'} = {d \in Commands : Rejected(d)}
    BY <2>2 DEF Rejected
  <2>. QED  BY <2>1, <2>3 DEF Promise!lvars
<1>3. CASE syncDirectory
  <2>1. outcome' = outcome /\ (synced' = file \/ synced' = synced)
    BY <1>3 DEF syncDirectory, clientVars
  <2>. QED  BY <2>1, Synced, Invisible
<1>4. ASSUME NEW c \in AllCommands, submit(c) \/ offerAbandoned(c) \/ takeReply(c) \/ cancelWins(c)
      PROVE  [Promise!LedgerNext]_(Promise!lvars)
  <2>1. synced' = synced /\ client[c] \in {"idle", "offering", "waiting"}
    BY <1>4 DEF submit, offerAbandoned, takeReply, cancelWins, diskVars
  <2>2. outcome[c] = "none" \/ c = Start
    BY <2>1 DEF OwnerInv, RejectInv, RejectInvOf, AllCommands
  <2>3. outcome' = outcome \/ \E x : outcome' = [outcome EXCEPT ![c] = x]
    BY <1>4 DEF submit, offerAbandoned, takeReply, cancelWins
  <2>. QED  BY <2>1, <2>2, <2>3, Told, Invisible
<1>5. ASSUME UNCHANGED <<synced, outcome>>
      PROVE  [Promise!LedgerNext]_(Promise!lvars)
  BY <1>5, Invisible
<1>6. ASSUME NEW r \in Readers, ReaderNext(r)
      PROVE  UNCHANGED <<synced, outcome>>
  BY <1>6 DEF ReaderNext, requestSnapshot, cancelReader, readerAbandons,
     subscriberLeaves, takeAnswer, takeUpdate, unsubscribe, diskVars, clientVars
<1>7. CASE OwnerNext
  <2>1. UNCHANGED <<synced, outcome>>
    BY <1>7 DEF OwnerNext, startNextAnswered, startNextPersist, receiveCommand,
       receiveSnapshot, receiveUnsubscribe, secondReply, persistenceSucceeded,
       persistenceFailed, persistenceInstalled, receiveStop, finish, diskVars,
       clientVars
  <2>. QED  BY <1>5, <2>1
<1>8. CASE closeSignal \/ writeFails \/ writeTemporary \/ rename \/ UNCHANGED vars
  <2>1. UNCHANGED <<synced, outcome>>
    BY <1>8 DEF closeSignal, writeFails, writeTemporary, rename, diskVars,
       clientVars, vars
  <2>. QED  BY <1>5, <2>1
<1>9. ASSUME NEW c \in AllCommands, cancelContext(c)
      PROVE  UNCHANGED <<synced, outcome>>
  BY <1>9 DEF cancelContext, diskVars
<1>. QED
  BY <1>1, <1>2, <1>3, <1>4, <1>5, <1>6, <1>7, <1>8, <1>9
     DEF Next, WorkerNext, ClientNext

\* The state owner, with its queue, contexts, persistence worker, crashes and
\* power losses, implements the abstract durable ledger.
THEOREM Refinement == Spec => ImplementsDurableLedger
<1>1. Init => Promise!LedgerInit
  BY OwnerAssumption DEF Init, Promise!LedgerInit, Rejected, AllCommands
<1>2. Init => AppliedOnce
  BY DEF Init, AppliedOnce
<1>3. Spec => []AppliedOnce
  BY <1>2, OnceStep, Inductive, PTL DEF Spec
<1>. QED
  BY <1>1, <1>3, Inductive, RefinementStep, PTL
     DEF Spec, ImplementsDurableLedger, Promise!LedgerSpec

(***************************************************************************)
(* What readers and subscribers are given, on top of the invariant of the  *)
(* ledgers.                                                                *)
(***************************************************************************)


\* Ledger l holds the beginning of ledger s.
Prefix(l, s) == Len(l) <= Len(s) /\ \A i \in 1..Len(l) : l[i] = s[i]

\* Its caller was told x of command c, or is about to be.
Said(c, x) == outcome[c] = x \/ x \in Elements(reply[c])

\* The in-memory ledger holds what callers were told of; once its
\* Start is committed, nothing a crash could take back.
MemoryInv ==
  /\ up => \A c \in Commands : Said(c, "ok") => c \in Elements(committed)
  /\ up /\ Said(Start, "ok") => Prefix(committed, synced)
  /\ ~Said(Start, "noop")

\* What reader r may be given, now and later.
Honest(r, l) == since[r] \subseteq Elements(l) /\ Prefix(l, synced)
Asking(r) == reader[r] \in {"offering", "waiting", "draining"} \/ resend = r
GivenInv(r) ==
  /\ reader[r] = "idle" => answer[r] = <<>> /\ got[r].err
  /\ Asking(r) => up /\ Prefix(committed, synced) /\ since[r] \subseteq Elements(committed)
  /\ \A a \in Elements(answer[r]) : ~a.err => Honest(r, a.ledger)
  /\ ~got[r].err => Honest(r, got[r].ledger)

\* Whoever waits has one answer in its channel, an error if another is to come;
\* that answer or what is in the update channel is the current ledger.
Latest(r, l) == IF updates[r] = <<>> THEN l ELSE Head(updates[r])
ChannelInv(r) ==
  /\ reader[r] \in {"idle", "offering"} =>
       answer[r] = <<>> /\ updates[r] = <<>> /\ r \notin active /\ resend # r
  /\ reader[r] \in {"waiting", "draining"} =>
       Len(answer[r]) = 1 /\ (resend = r => Head(answer[r]).err)
  /\ reader[r] \notin {"idle", "returned"} => up
  /\ r \in active /\ reader[r] = "waiting" /\ ~Head(answer[r]).err =>
       committed = Latest(r, Head(answer[r]).ledger)
  /\ r \in active /\ reader[r] = "subscribed" => committed = Latest(r, seen[r])

ReadersInv ==
  /\ OwnerInv /\ MemoryInv
  /\ \A r \in Readers : GivenInv(r) /\ ChannelInv(r)

-----------------------------------------------------------------------------
(* Ledgers that begin alike *)

\* A ledger is the beginning of itself, with one more command or without.
LEMMA PrefixSelf ==
  ASSUME NEW S, NEW l \in Seq(S), NEW e
  PROVE  Prefix(l, l) /\ Prefix(l, Append(l, e))
BY DEF Prefix

\* The beginning of a beginning is a beginning.
LEMMA PrefixTrans ==
  ASSUME NEW S, NEW k \in Seq(S), NEW l \in Seq(S), NEW m \in Seq(S),
         Prefix(k, l), Prefix(l, m)
  PROVE  Prefix(k, m)
BY DEF Prefix

\* What a beginning holds the ledger holds.
LEMMA PrefixElements ==
  ASSUME NEW S, NEW l \in Seq(S), NEW m \in Seq(S), Prefix(l, m)
  PROVE  Elements(l) \subseteq Elements(m)
BY DEF Prefix, Elements

\* What is read from the front of a ledger, as the property says it.
LEMMA PrefixSub ==
  ASSUME NEW S, NEW l \in Seq(S), NEW m \in Seq(S), Prefix(l, m)
  PROVE  \E n \in 0..Len(m) : l = SubSeq(m, 1, n)
<1>1. Len(l) \in 0..Len(m)
  BY DEF Prefix
<1>2. SubSeq(m, 1, Len(l)) \in Seq(S) /\ Len(SubSeq(m, 1, Len(l))) = Len(l)
  BY <1>1
<1>3. \A i \in 1..Len(l) : SubSeq(m, 1, Len(l))[i] = l[i]
  BY <1>1 DEF Prefix
<1>4. l = SubSeq(m, 1, Len(l))
  BY <1>2, <1>3, SeqEqual
<1>. QED  BY <1>1, <1>4

-----------------------------------------------------------------------------
(* The two copies of the ledger, and what callers were told *)

\* The durable ledger only grows, and the in-memory one while the process runs;
\* whoever read the latter read from the former, if that was so before.
LEMMA LedgersGrow ==
  ASSUME OwnerInv, [Next]_vars
  PROVE  /\ Prefix(synced, synced')
         /\ up /\ up' => Prefix(committed, committed')
         /\ up /\ up' /\ Prefix(committed, synced) => Prefix(committed', synced')
         /\ up' /\ ~up => startStateOwner
<1>a. /\ file \in Ledger /\ synced \in Ledger /\ committed \in Ledger
      /\ WorkerInv /\ SyncedInv /\ inFlight \in AllCommands \cup {NoCommand}
  BY DEF OwnerInv, OwnerTypes
<1>b. Prefix(synced, synced) /\ Prefix(committed, committed) /\ Prefix(synced, file)
      /\ Prefix(committed, candidate)
  BY <1>a, PrefixSelf DEF Ledger, SyncedInv, Prefix, candidate
<1>1. CASE startStateOwner
  BY <1>1, <1>b DEF startStateOwner
<1>2. CASE ProcessEnds
  BY <1>2, <1>b DEF ProcessEnds
<1>3. CASE persistenceSucceeded
  <2>1. synced' = synced /\ committed' = candidate /\ synced = candidate
    BY <1>3, <1>a DEF persistenceSucceeded, WorkerInv, diskVars
  <2>. QED  BY <2>1, <1>a, <1>b, <1>3, PrefixSelf DEF Ledger, persistenceSucceeded
<1>4. CASE syncDirectory
  <2>1. synced' \in {synced, file} /\ committed' = committed /\ file = candidate
    BY <1>4, <1>a DEF syncDirectory, WorkerInv
  <2>. QED  BY <2>1, <1>a, <1>b, <1>4 DEF syncDirectory
<1>5. CASE UNCHANGED <<synced, committed, up>>
  BY <1>5, <1>b
<1>6. ASSUME \/ closeSignal \/ startNextAnswered \/ startNextPersist
             \/ \E c \in AllCommands : receiveCommand(c)
             \/ \E r \in Readers : receiveSnapshot(r)
             \/ \E r \in Readers : receiveUnsubscribe(r)
             \/ secondReply \/ persistenceFailed \/ persistenceInstalled
             \/ receiveStop \/ finish \/ writeFails \/ writeTemporary \/ rename
             \/ \E c \in AllCommands : ClientNext(c)
             \/ \E r \in Readers : ReaderNext(r)
             \/ UNCHANGED vars
      PROVE  UNCHANGED <<synced, committed, up>>
  BY <1>6 DEF closeSignal, startNextAnswered, startNextPersist, receiveCommand,
     receiveSnapshot, receiveUnsubscribe, secondReply, persistenceFailed,
     persistenceInstalled, receiveStop, finish, writeFails, writeTemporary, rename,
     ClientNext, submit, cancelContext, offerAbandoned, takeReply, cancelWins, ReaderNext,
     requestSnapshot, cancelReader, readerAbandons, subscriberLeaves, takeAnswer,
     takeUpdate, unsubscribe, vars, diskVars, ownerVars
<1>. QED  BY <1>1, <1>2, <1>3, <1>4, <1>5, <1>6 DEF Next, OwnerNext, WorkerNext

\* Success is only told when the candidate is committed; that nothing was to be
\* done is never told of a Start.
LEMMA NewlySaid ==
  ASSUME OwnerInv, [Next]_vars, NEW c \in AllCommands, NEW x \in {"ok", "noop"},
         Said(c, x)'
  PROVE  \/ Said(c, x)
         \/ x = "ok" /\ persistenceSucceeded /\ c = inFlight
         \/ x = "noop" /\ c # Start
<1>a. ClientTypes /\ queue \in Seq(AllCommands) /\ WorkerInv
      /\ inFlight \in AllCommands \cup {NoCommand}
  BY DEF OwnerInv, OwnerTypes
<1>b. Elements(<<>>) = {}
  BY DEF Elements
<1>c. outcome \in [AllCommands -> Outcomes] /\ reply \in [AllCommands -> Seq(Replies)]
  BY <1>a DEF ClientTypes
<1>d. ASSUME NEW d \in AllCommands, NEW y, reply' = [reply EXCEPT ![d] = Append(@, y)]
      PROVE  Elements(reply'[c]) = IF d = c THEN Elements(reply[c]) \cup {y}
                                   ELSE Elements(reply[c])
  BY <1>d, <1>a, SentElements
<1>e. \A s \in Seq(Replies) : \A y : Elements(Append(s, y)) = Elements(s) \cup {y}
  BY ElementsAppend
<1>1. CASE startStateOwner
  BY <1>1, <1>c DEF startStateOwner, Said
<1>2. CASE ProcessEnds
  BY <1>2, <1>b, <1>c DEF ProcessEnds, Said
<1>3. CASE startNextAnswered
  <2>. DEFINE d == Head(queue)
  <2>1. d \in AllCommands /\ UNCHANGED outcome
    BY <1>3, <1>a DEF startNextAnswered, startNextPending
  <2>2. PICK y \in Replies : /\ reply' = [reply EXCEPT ![d] = Append(@, y)]
                             /\ y # "ok" /\ (y = "noop" => d # Start)
    BY <1>3 DEF startNextAnswered, Send, Replies
  <2>. HIDE DEF d
  <2>3. Elements(reply'[c]) \subseteq Elements(reply[c]) \cup (IF c = d THEN {y} ELSE {})
    BY <2>1, <2>2, <1>d
  <2>. QED  BY <2>1, <2>2, <2>3 DEF Said
<1>4. ASSUME NEW d \in AllCommands, receiveCommand(d)
      PROVE  Said(c, x)
  <2>1. \/ reply' = reply
        \/ reply' = [reply EXCEPT ![d] = Append(@, "stopped")]
        \/ reply' = [reply EXCEPT ![d] = Append(@, "poisoned")]
    BY <1>4 DEF receiveCommand, Send
  <2>2. Elements(reply'[c]) \subseteq Elements(reply[c]) \cup {"stopped", "poisoned"}
    <3>1. \/ reply'[c] = reply[c]
          \/ reply'[c] = Append(reply[c], "stopped")
          \/ reply'[c] = Append(reply[c], "poisoned")
      BY <2>1, <1>c
    <3>2. /\ Elements(Append(reply[c], "stopped")) = Elements(reply[c]) \cup {"stopped"}
          /\ Elements(Append(reply[c], "poisoned")) = Elements(reply[c]) \cup {"poisoned"}
      BY <1>c, <1>e
    <3>. QED  BY <3>1, <3>2
  <2>. QED  BY <2>2, <1>4 DEF Said, receiveCommand
<1>5. CASE persistenceSucceeded
  <2>1. inFlight \in AllCommands /\ UNCHANGED outcome
        /\ reply' = [reply EXCEPT ![inFlight] = Append(@, "ok")]
    BY <1>5, <1>a DEF persistenceSucceeded, Send, WorkerInv
  <2>2. Elements(reply'[c])
          \subseteq Elements(reply[c]) \cup (IF c = inFlight THEN {"ok"} ELSE {})
    BY <2>1, <1>d
  <2>. QED  BY <2>1, <2>2, <1>5 DEF Said
<1>6. CASE persistenceFailed
  <2>1. inFlight \in AllCommands /\ UNCHANGED outcome
        /\ reply' = [reply EXCEPT ![inFlight] = Append(@, "failed")]
    BY <1>6, <1>a DEF persistenceFailed, Send, WorkerInv
  <2>2. Elements(reply'[c]) \subseteq Elements(reply[c]) \cup {"failed"}
    BY <2>1, <1>d
  <2>. QED  BY <2>1, <2>2 DEF Said
<1>7. CASE persistenceInstalled
  <2>. DEFINE sent == [reply EXCEPT ![inFlight] = Append(@, "installed")]
  <2>1. inFlight \in AllCommands /\ UNCHANGED outcome
    BY <1>7, <1>a DEF persistenceInstalled, WorkerInv
  <2>2. sent \in [AllCommands -> Seq(Replies)]
        /\ Elements(sent[c]) \subseteq Elements(reply[c]) \cup {"installed"}
    <3>1. sent \in [AllCommands -> Seq(Replies)]
      BY <2>1, <1>c, AppendAt DEF Replies
    <3>2. Elements(sent[c]) = IF inFlight = c THEN Elements(reply[c]) \cup {"installed"}
                              ELSE Elements(reply[c])
      BY <2>1, <1>a, SentElements
    <3>. QED  BY <3>1, <3>2
  <2>3. reply'[c] = sent[c] \/ reply'[c] = Append(sent[c], "poisoned")
    BY <1>7 DEF persistenceInstalled, drainQueue
  <2>. HIDE DEF sent
  <2>4. Elements(reply'[c]) \subseteq Elements(reply[c]) \cup {"installed", "poisoned"}
    <3>1. sent[c] \in Seq(Replies)
      BY <2>2
    <3>2. Elements(Append(sent[c], "poisoned")) = Elements(sent[c]) \cup {"poisoned"}
      BY <3>1, <1>e
    <3>. QED  BY <2>2, <2>3, <3>2
  <2>. QED  BY <2>1, <2>4 DEF Said
<1>8. CASE receiveStop
  <2>1. reply'[c] = reply[c] \/ reply'[c] = Append(reply[c], "stopped")
    BY <1>8 DEF receiveStop, drainQueue
  <2>2. Elements(reply'[c]) \subseteq Elements(reply[c]) \cup {"stopped"}
    BY <2>1, <1>c, <1>e
  <2>. QED  BY <2>2, <1>8 DEF Said, receiveStop
<1>9. ASSUME NEW d \in AllCommands, takeReply(d)
      PROVE  Said(c, x)
  <2>1. /\ reply' = [reply EXCEPT ![d] = Tail(@)] /\ reply[d] # <<>>
        /\ outcome' = [outcome EXCEPT ![d] = Head(reply[d])]
    BY <1>9 DEF takeReply
  <2>2. Head(reply[d]) \in Elements(reply[d])
        /\ Elements(Tail(reply[d])) \subseteq Elements(reply[d])
    BY <2>1, <1>c, ElementsTail
  <2>. QED  BY <2>1, <2>2, <1>c DEF Said
<1>10. ASSUME NEW d \in AllCommands,
              submit(d) \/ cancelContext(d) \/ offerAbandoned(d) \/ cancelWins(d)
       PROVE  Said(c, x)
  <2>1. UNCHANGED reply /\ (outcome'[c] = outcome[c] \/ outcome'[c] \in {"context", "stopped"})
    BY <1>10, <1>c DEF submit, cancelContext, offerAbandoned, cancelWins
  <2>. QED  BY <2>1 DEF Said
<1>11. ASSUME \/ closeSignal \/ startNextPersist
              \/ \E r \in Readers : receiveSnapshot(r)
              \/ \E r \in Readers : receiveUnsubscribe(r)
              \/ secondReply \/ finish \/ WorkerNext
              \/ \E r \in Readers : ReaderNext(r)
              \/ UNCHANGED vars
       PROVE  UNCHANGED <<outcome, reply>>
  BY <1>11 DEF closeSignal, startNextPersist, receiveSnapshot, receiveUnsubscribe,
     secondReply, finish, WorkerNext, writeFails, writeTemporary, rename, syncDirectory,
     ReaderNext, requestSnapshot, cancelReader, readerAbandons, subscriberLeaves,
     takeAnswer, takeUpdate, unsubscribe, vars, clientVars
<1>12. CASE UNCHANGED <<outcome, reply>>
  BY <1>12 DEF Said
<1>. QED
  BY <1>1, <1>2, <1>3, <1>4, <1>5, <1>6, <1>7, <1>8, <1>9, <1>10, <1>11, <1>12
     DEF Next, OwnerNext, ClientNext

\* The in-memory ledger and what callers are told keep in step.
LEMMA MemoryStep ==
  ASSUME OwnerInv, MemoryInv, [Next]_vars
  PROVE  MemoryInv'
<1>a. /\ file \in Ledger /\ synced \in Ledger /\ committed \in Ledger
      /\ WorkerInv /\ AckInv /\ QueueInv /\ ClientTypes
      /\ inFlight \in AllCommands \cup {NoCommand}
  BY DEF OwnerInv, OwnerTypes
<1>b. Start \in AllCommands /\ Commands \subseteq AllCommands
  BY DEF AllCommands
<1>c. OwnerInv'
  BY NextOwnerInv
<1>d. committed' \in Ledger
  BY <1>c DEF OwnerInv, OwnerTypes
<1>1. ~Said(Start, "noop")'
  BY <1>b, NewlySaid DEF MemoryInv
<1>2. CASE ~up'
  BY <1>1, <1>2 DEF MemoryInv
<1>3. CASE up' /\ ~up
  <2>1. startStateOwner
    BY <1>3, LedgersGrow
  <2>2. \A c \in AllCommands : reply[c] = <<>>
    BY <1>3, <1>a DEF QueueInv, AnswerInv
  <2>3. ~Said(Start, "ok")'
    BY <2>1, <2>2, <1>a, <1>b DEF startStateOwner, Said, ClientTypes, Elements
  <2>4. ASSUME NEW c \in Commands, Said(c, "ok")' PROVE c \in Elements(committed')
    <3>1. Said(c, "ok")
      BY <2>1, <2>4, <1>b, NewlySaid, <1>3 DEF persistenceSucceeded, Selecting,
         Looping
    <3>2. c \in Elements(synced)
      BY <3>1, <1>a DEF AckInv, Said
    <3>. QED  BY <3>2, <2>1, DurableElements DEF OwnerInv, startStateOwner
  <2>. QED  BY <1>1, <2>3, <2>4 DEF MemoryInv
<1>4. CASE up' /\ up
  <2>1. Elements(committed) \subseteq Elements(committed')
    BY <1>4, <1>a, <1>d, LedgersGrow, PrefixElements DEF Ledger
  <2>2. CASE persistenceSucceeded
    <3>1. committed' = candidate /\ synced' = candidate /\ inFlight \in AllCommands
      BY <2>2, <1>a DEF persistenceSucceeded, WorkerInv, diskVars
    <3>2. inFlight \in Elements(committed')
      BY <3>1, <1>a, ElementsAppend DEF candidate, Ledger
    <3>3. Prefix(committed', synced')
      BY <3>1, <1>d, PrefixSelf DEF Ledger
    <3>4. ASSUME NEW c \in Commands, Said(c, "ok")' PROVE c \in Elements(committed')
      BY <3>4, <3>2, <2>1, <1>4, <1>b, NewlySaid DEF MemoryInv
    <3>. QED  BY <1>1, <3>3, <3>4 DEF MemoryInv
  <2>3. CASE ~persistenceSucceeded
    <3>1. \A c \in AllCommands : Said(c, "ok")' => Said(c, "ok")
      BY <2>3, NewlySaid
    <3>. QED  BY <1>1, <1>4, <2>1, <3>1, <1>b, LedgersGrow DEF MemoryInv
  <2>. QED  BY <2>2, <2>3
<1>. QED  BY <1>2, <1>3, <1>4

-----------------------------------------------------------------------------
(* What readers are given *)

\* A reader's snapshot stays honest, and the ledgers it may yet be given only
\* grow, when it is given and asks for nothing.
LEMMA GivenKept ==
  ASSUME OwnerInv, OwnerInv', [Next]_vars, NEW r \in Readers, GivenInv(r),
         since'[r] = since[r], got'[r] = got[r], answer'[r] \in {answer[r], <<>>},
         Asking(r)' => Asking(r) /\ up', reader'[r] = "idle" => reader[r] = "idle"
  PROVE  GivenInv(r)'
<1>a. /\ synced \in Ledger /\ synced' \in Ledger /\ committed \in Ledger
      /\ committed' \in Ledger /\ got[r].ledger \in Ledger
      /\ \A a \in Elements(answer[r]) : a.ledger \in Ledger
  <2>1. got[r] \in Answers /\ answer[r] \in Seq(Answers)
    BY DEF OwnerInv, ReaderTypes
  <2>2. \A a \in Answers : a.ledger \in Ledger
    BY DEF Answers
  <2>3. Elements(answer[r]) \subseteq Answers
    BY <2>1 DEF Elements
  <2>. QED  BY <2>1, <2>2, <2>3 DEF OwnerInv, OwnerTypes
<1>1. \A l \in Ledger : Honest(r, l) => Honest(r, l)'
  BY <1>a, LedgersGrow, PrefixTrans DEF Honest, Ledger
<1>2. Asking(r)' => up' /\ Prefix(committed, synced)' /\ since[r] \subseteq Elements(committed')
  BY <1>a, LedgersGrow, PrefixElements DEF GivenInv, Ledger
<1>3. Elements(answer'[r]) \subseteq Elements(answer[r])
  BY DEF Elements
<1>4. ASSUME NEW a \in Elements(answer'[r]), ~a.err PROVE Honest(r, a.ledger)'
  BY <1>a, <1>1, <1>3, <1>4 DEF GivenInv
<1>5. (~got[r].err => Honest(r, got[r].ledger))'
  BY <1>a, <1>1 DEF GivenInv
<1>6. reader'[r] = "idle" => answer'[r] = <<>> /\ got'[r].err
  BY DEF GivenInv
<1>. QED  BY <1>2, <1>4, <1>5, <1>6 DEF GivenInv

\* What a reader's channel holds stays the latest when nothing is committed.
LEMMA ChannelKept ==
  ASSUME NEW r \in Readers, ChannelInv(r), UNCHANGED <<committed, up>>,
         \/ reader'[r] \in {reader[r], "returned"}
         \/ reader[r] = "waiting" /\ reader'[r] = "draining",
         answer'[r] = answer[r],
         updates'[r] = updates[r], seen'[r] = seen[r], r \in active' => r \in active,
         resend' = r => resend = r
  PROVE  ChannelInv(r)'
BY DEF ChannelInv, Latest

\* A snapshot is of the in-memory ledger, and only a process that serves is
\* asked for one.
LEMMA GivenStep ==
  ASSUME OwnerInv, MemoryInv, [Next]_vars, NEW r \in Readers, GivenInv(r), ChannelInv(r)
  PROVE  GivenInv(r)'
<1>a. OwnerInv'
  BY NextOwnerInv
<1>b. /\ reader \in [Readers -> {"idle", "offering", "waiting", "draining", "subscribed",
                                 "returned"}]
      /\ answer \in [Readers -> Seq(Answers)] /\ got \in [Readers -> Answers]
      /\ since \in [Readers -> SUBSET AllCommands] /\ committed \in Ledger
      /\ resend \in Readers \cup {NoReader} /\ NoReader \notin Readers
  BY OwnerAssumption DEF OwnerInv, ReaderTypes, OwnerTypes
<1>1. CASE ProcessEnds
  <2>1. ~Asking(r)' /\ answer'[r] = <<>> /\ since' = since /\ got' = got
        /\ (reader'[r] = "idle" => reader[r] = "idle")
    BY <1>1, <1>b DEF ProcessEnds, Asking
  <2>. QED  BY <2>1, <1>a, GivenKept
<1>2. ASSUME NEW s \in Readers, requestSnapshot(s) PROVE GivenInv(r)'
  <2>1. UNCHANGED <<answer, got, resend, up, committed, synced>>
    BY <1>2 DEF requestSnapshot, ownerVars, diskVars
  <2>2. CASE s = r
    <3>1. /\ reader[r] = "idle" /\ reader'[r] = "offering" /\ Serving
          /\ since'[r] = {c \in Commands : outcome[c] = "ok"}
      BY <1>2, <1>b, <2>2 DEF requestSnapshot
    <3>2. answer[r] = <<>> /\ got[r].err
      BY <3>1 DEF GivenInv
    <3>3. up /\ Prefix(committed, synced) /\ since'[r] \subseteq Elements(committed)
      BY <3>1 DEF Serving, MemoryInv, Said
    <3>. QED  BY <2>1, <3>1, <3>2, <3>3 DEF GivenInv, Elements
  <2>3. CASE s # r
    BY <1>2, <1>a, <1>b, <2>1, <2>3, GivenKept DEF requestSnapshot, Asking, GivenInv
  <2>. QED  BY <2>2, <2>3
<1>3. ASSUME NEW s \in Readers, receiveSnapshot(s) PROVE GivenInv(r)'
  <2>1. UNCHANGED <<got, since, up, committed, synced>> /\ resend = NoReader
    BY <1>3 DEF receiveSnapshot, ownerVars, diskVars, Selecting, Looping
  <2>2. CASE s = r
    <3>1. PICK x \in {ErrorAnswer, LedgerAnswer(committed)} :
             answer' = [answer EXCEPT ![r] = Append(@, x)]
      BY <1>3, <2>2 DEF receiveSnapshot, snapshotState
    <3>2. reader[r] = "offering" /\ reader'[r] = "waiting"
      BY <1>3, <1>b, <2>2 DEF receiveSnapshot
    <3>3. answer[r] = <<>> /\ Elements(answer'[r]) = {x}
      BY <1>b, <3>1, <3>2 DEF ChannelInv, Elements
    <3>4. up /\ Honest(r, committed)
      BY <3>2 DEF GivenInv, Asking, Honest
    <3>5. ~x.err => Honest(r, x.ledger)
      BY <3>4 DEF ErrorAnswer, LedgerAnswer
    <3>. QED
      BY <2>1, <3>2, <3>3, <3>4, <3>5 DEF GivenInv, Honest, Asking
  <2>3. CASE s # r
    <3>1. answer'[r] = answer[r] /\ reader'[r] = reader[r] /\ resend' # r
      BY <1>3, <1>b, <2>3 DEF receiveSnapshot
    <3>. QED  BY <1>a, <2>1, <3>1, GivenKept DEF Asking, GivenInv
  <2>. QED  BY <2>2, <2>3
<1>4. CASE secondReply
  <2>1. UNCHANGED <<got, since, up, committed, synced, reader>> /\ up /\ resend' = NoReader
    BY <1>4 DEF secondReply, ownerVars, diskVars
  <2>2. CASE resend = r
    <3>1. /\ answer[r] = <<>>
          /\ answer' = [answer EXCEPT ![r] = Append(@, LedgerAnswer(committed))]
      BY <1>4, <2>2 DEF secondReply, snapshotState
    <3>2. Elements(answer'[r]) = {LedgerAnswer(committed)}
      BY <1>b, <3>1 DEF Elements
    <3>3. Honest(r, committed) /\ reader[r] # "idle"
      BY <2>2 DEF GivenInv, Asking, Honest, ChannelInv
    <3>. QED  BY <2>1, <2>2, <3>2, <3>3, <1>b DEF GivenInv, Honest, Asking,
         LedgerAnswer
  <2>3. CASE resend # r
    <3>1. answer'[r] = answer[r]
      BY <1>4, <1>b, <2>3 DEF secondReply
    <3>. QED  BY <1>a, <1>b, <2>1, <3>1, GivenKept DEF Asking, GivenInv
  <2>. QED  BY <2>2, <2>3
<1>5. ASSUME NEW s \in Readers, takeAnswer(s) PROVE GivenInv(r)'
  <2>1. UNCHANGED <<since, up, committed, synced, resend>> /\ up
    BY <1>5 DEF takeAnswer, ownerVars, diskVars
  <2>2. CASE s = r
    <3>1. /\ answer[r] # <<>> /\ answer'[r] = Tail(answer[r])
          /\ reader'[r] \in {"subscribed", "returned"}
          /\ \/ got'[r] = got[r]
             \/ got'[r] = Head(answer[r])
      BY <1>5, <1>b, <2>2 DEF takeAnswer
    <3>2. /\ Elements(answer'[r]) \subseteq Elements(answer[r])
          /\ Head(answer[r]) \in Elements(answer[r])
      BY <1>b, <3>1, ElementsTail
    <3>3. \A a \in Elements(answer'[r]) : ~a.err => Honest(r, a.ledger)
      BY <3>2 DEF GivenInv
    <3>4. ~got'[r].err => /\ since[r] \subseteq Elements(got'[r].ledger)
                           /\ Prefix(got'[r].ledger, synced)
      BY <3>1, <3>2 DEF GivenInv, Honest
    <3>5. reader'[r] # "idle" /\ (Asking(r)' => Asking(r))
      BY <2>1, <3>1 DEF Asking
    <3>. QED  BY <2>1, <3>3, <3>4, <3>5 DEF GivenInv, Honest
  <2>3. CASE s # r
    <3>1. answer'[r] = answer[r] /\ reader'[r] = reader[r] /\ got'[r] = got[r]
      BY <1>5, <1>b, <2>3 DEF takeAnswer
    <3>. QED  BY <1>a, <2>1, <3>1, GivenKept DEF Asking, GivenInv
  <2>. QED  BY <2>2, <2>3
<1>6. ASSUME NEW s \in Readers,
             \/ cancelReader(s) \/ readerAbandons(s) \/ subscriberLeaves(s) \/ takeUpdate(s)
             \/ unsubscribe(s)
      PROVE  GivenInv(r)'
  <2>1. UNCHANGED <<since, got, answer, resend, up>>
    BY <1>6 DEF cancelReader, readerAbandons, subscriberLeaves, takeUpdate,
       unsubscribe,
       ownerVars
  <2>2. \/ reader'[r] \in {reader[r], "returned"}
        \/ reader[r] = "waiting" /\ reader'[r] = "draining"
    BY <1>6, <1>b DEF cancelReader, readerAbandons, subscriberLeaves, takeUpdate,
       unsubscribe
  <2>. QED  BY <1>a, <2>1, <2>2, GivenKept DEF Asking, GivenInv
<1>7. ASSUME \/ startStateOwner \/ closeSignal \/ startNextAnswered \/ startNextPersist
             \/ \E c \in AllCommands : receiveCommand(c)
             \/ \E s \in Readers : receiveUnsubscribe(s)
             \/ persistenceSucceeded \/ persistenceFailed \/ persistenceInstalled
             \/ receiveStop \/ finish \/ WorkerNext
             \/ \E c \in AllCommands : ClientNext(c)
             \/ UNCHANGED vars
      PROVE  UNCHANGED <<since, got, answer, resend, reader>> /\ (up => up')
  BY <1>7 DEF startStateOwner, closeSignal, startNextAnswered, startNextPersist,
     receiveCommand, receiveUnsubscribe, persistenceSucceeded, persistenceFailed,
     persistenceInstalled, receiveStop, finish, WorkerNext, writeFails, writeTemporary,
     rename, syncDirectory, ClientNext, submit, cancelContext, offerAbandoned, takeReply,
     cancelWins, vars, readerVars, ownerVars
<1>8. CASE UNCHANGED <<since, got, answer, resend, reader>> /\ (up => up')
  BY <1>8, <1>a, GivenKept DEF Asking, GivenInv
<1>. QED
  BY <1>1, <1>2, <1>3, <1>4, <1>5, <1>6, <1>7, <1>8 DEF Next, OwnerNext, ReaderNext

\* Publishing a commit reaches every subscriber, also one that has not taken its
\* first answer yet.
LEMMA ChannelStep ==
  ASSUME OwnerInv, [Next]_vars, NEW r \in Readers, GivenInv(r), ChannelInv(r)
  PROVE  ChannelInv(r)'
<1>b. /\ reader \in [Readers -> {"idle", "offering", "waiting", "draining", "subscribed",
                                 "returned"}]
      /\ answer \in [Readers -> Seq(Answers)] /\ got \in [Readers -> Answers]
      /\ seen \in [Readers -> Ledger] /\ updates \in [Readers -> Seq(Ledger)]
      /\ resend \in Readers \cup {NoReader} /\ NoReader \notin Readers
  BY OwnerAssumption DEF OwnerInv, ReaderTypes
<1>1. CASE ProcessEnds
  <2>1. reader'[r] \in {"idle", "returned"} /\ answer'[r] = <<>> /\ updates'[r] = <<>>
        /\ active' = {} /\ resend' # r
    BY <1>1, <1>b DEF ProcessEnds
  <2>. QED  BY <2>1 DEF ChannelInv
<1>2. ASSUME NEW s \in Readers, requestSnapshot(s) PROVE ChannelInv(r)'
  <2>1. /\ UNCHANGED <<answer, seen, updates, active, resend, up, committed>> /\ up
        /\ reader'[r] = IF s = r THEN "offering" ELSE reader[r]
        /\ s = r => reader[r] = "idle"
    BY <1>2, <1>b DEF requestSnapshot, ownerVars, Serving
  <2>. QED  BY <2>1 DEF ChannelInv, Latest
<1>3. ASSUME NEW s \in Readers, receiveSnapshot(s) PROVE ChannelInv(r)'
  <2>1. UNCHANGED <<seen, updates, up, committed>> /\ up
    BY <1>3 DEF receiveSnapshot, ownerVars, Selecting, Looping
  <2>2. CASE s = r
    <3>. DEFINE x == IF stopping \/ poisoned THEN ErrorAnswer ELSE LedgerAnswer(committed)
    <3>1. /\ reader[r] = "offering" /\ reader'[r] = "waiting"
          /\ answer'[r] = Append(answer[r], x)
          /\ resend' = r => stopping
      BY <1>3, <1>b, <2>2 DEF receiveSnapshot, snapshotState
    <3>2. answer[r] = <<>> /\ updates[r] = <<>>
      BY <3>1 DEF ChannelInv
    <3>3. Len(answer'[r]) = 1 /\ Head(answer'[r]) = x
      BY <3>1, <3>2
    <3>4. (stopping => x.err) /\ (~x.err => x.ledger = committed)
      BY DEF ErrorAnswer, LedgerAnswer
    <3>. HIDE DEF x
    <3>. QED  BY <2>1, <3>1, <3>2, <3>3, <3>4 DEF ChannelInv, Latest
  <2>3. CASE s # r
    <3>1. /\ answer'[r] = answer[r] /\ reader'[r] = reader[r] /\ resend' # r
          /\ r \in active' => r \in active
      BY <1>3, <1>b, <2>3 DEF receiveSnapshot
    <3>. QED  BY <2>1, <3>1, ChannelKept
  <2>. QED  BY <2>2, <2>3
<1>4. CASE secondReply
  <2>1. UNCHANGED <<seen, updates, up, committed, reader, active>> /\ resend' # r
    BY <1>4, <1>b DEF secondReply, ownerVars
  <2>2. CASE resend = r
    <3>1. answer[r] = <<>>
      BY <1>4, <2>2 DEF secondReply
    <3>2. reader[r] \in {"subscribed", "returned"}
      BY <1>b, <2>2, <3>1 DEF ChannelInv
    <3>. QED  BY <2>1, <3>2 DEF ChannelInv, Latest
  <2>3. CASE resend # r
    <3>1. answer'[r] = answer[r]
      BY <1>4, <1>b, <2>3 DEF secondReply
    <3>. QED  BY <2>1, <3>1, ChannelKept
  <2>. QED  BY <2>2, <2>3
<1>5. ASSUME NEW s \in Readers, takeAnswer(s) PROVE ChannelInv(r)'
  <2>1. UNCHANGED <<updates, active, up, committed, resend>> /\ up
    BY <1>5 DEF takeAnswer, ownerVars
  <2>2. CASE s = r
    <3>1. /\ reader[r] \in {"waiting", "draining"}
          /\ \/ reader'[r] = "returned"
             \/ /\ reader[r] = "waiting" /\ reader'[r] = "subscribed"
                /\ ~Head(answer[r]).err /\ seen'[r] = Head(answer[r]).ledger
      BY <1>5, <1>b, <2>2 DEF takeAnswer
    <3>. QED  BY <2>1, <3>1 DEF ChannelInv, Latest
  <2>3. CASE s # r
    <3>1. answer'[r] = answer[r] /\ reader'[r] = reader[r] /\ seen'[r] = seen[r]
      BY <1>5, <1>b, <2>3 DEF takeAnswer
    <3>. QED  BY <2>1, <3>1, ChannelKept
  <2>. QED  BY <2>2, <2>3
<1>6. ASSUME NEW s \in Readers,
             \/ cancelReader(s) \/ readerAbandons(s) \/ subscriberLeaves(s) \/ unsubscribe(s)
      PROVE  ChannelInv(r)'
  <2>1. UNCHANGED <<answer, seen, updates, active, resend, up, committed>>
    BY <1>6 DEF cancelReader, readerAbandons, subscriberLeaves, unsubscribe,
       ownerVars
  <2>2. \/ reader'[r] \in {reader[r], "returned"}
        \/ reader[r] = "waiting" /\ reader'[r] = "draining"
    BY <1>6, <1>b DEF cancelReader, readerAbandons, subscriberLeaves, unsubscribe
  <2>. QED  BY <2>1, <2>2, ChannelKept
<1>7. ASSUME NEW s \in Readers, takeUpdate(s) PROVE ChannelInv(r)'
  <2>1. UNCHANGED <<answer, reader, active, resend, up, committed>>
    BY <1>7 DEF takeUpdate, ownerVars
  <2>2. CASE s = r
    <3>1. /\ reader[r] = "subscribed" /\ updates[r] # <<>>
          /\ seen'[r] = Head(updates[r]) /\ updates'[r] = <<>>
      BY <1>7, <1>b, <2>2 DEF takeUpdate
    <3>. QED  BY <2>1, <3>1 DEF ChannelInv, Latest
  <2>3. CASE s # r
    <3>1. seen'[r] = seen[r] /\ updates'[r] = updates[r]
      BY <1>7, <1>b, <2>3 DEF takeUpdate
    <3>. QED  BY <2>1, <3>1, ChannelKept
  <2>. QED  BY <2>2, <2>3
<1>8. CASE persistenceSucceeded
  <2>1. /\ UNCHANGED <<answer, reader, seen, active, resend, up>>
        /\ r \in active => updates'[r] = <<committed'>>
        /\ r \notin active => updates'[r] = updates[r]
    BY <1>8 DEF persistenceSucceeded, publish
  <2>2. ASSUME NEW l PROVE <<l>> # <<>> /\ Head(<<l>>) = l
    OBVIOUS
  <2>3. r \in active => updates'[r] # <<>> /\ Head(updates'[r]) = committed'
    BY <2>1, <2>2
  <2>. QED  BY <2>1, <2>3 DEF ChannelInv, Latest
<1>9. CASE startStateOwner
  <2>1. UNCHANGED <<answer, reader, seen, active, resend, updates>> /\ ~up
    BY <1>9 DEF startStateOwner, readerVars
  <2>. QED  BY <2>1 DEF ChannelInv
<1>10. ASSUME NEW s \in Readers, receiveUnsubscribe(s) PROVE ChannelInv(r)'
  <2>1. UNCHANGED <<answer, reader, seen, updates, resend, up, committed>>
        /\ active' \subseteq active
    BY <1>10 DEF receiveUnsubscribe, ownerVars
  <2>. QED  BY <2>1, ChannelKept
<1>11. CASE finish
  <2>1. UNCHANGED <<answer, reader, seen, updates, resend, up, committed>> /\ active' = {}
    BY <1>11 DEF finish
  <2>. QED  BY <2>1, ChannelKept
<1>12. ASSUME \/ closeSignal \/ startNextAnswered \/ startNextPersist
              \/ \E c \in AllCommands : receiveCommand(c)
              \/ persistenceFailed \/ persistenceInstalled \/ receiveStop \/ WorkerNext
              \/ \E c \in AllCommands : ClientNext(c)
              \/ UNCHANGED vars
       PROVE  UNCHANGED <<answer, reader, seen, updates, active, resend, up, committed>>
  BY <1>12 DEF closeSignal, startNextAnswered, startNextPersist, receiveCommand,
     persistenceFailed, persistenceInstalled, receiveStop, WorkerNext, writeFails,
     writeTemporary, rename, syncDirectory, ClientNext, submit, cancelContext,
     offerAbandoned, takeReply, cancelWins, vars, readerVars, ownerVars
<1>13. CASE UNCHANGED <<answer, reader, seen, updates, active, resend, up, committed>>
  BY <1>13, ChannelKept
<1>. QED
  BY <1>1, <1>2, <1>3, <1>4, <1>5, <1>6, <1>7, <1>8, <1>9, <1>10, <1>11, <1>12,
     <1>13
     DEF Next, OwnerNext, ReaderNext

-----------------------------------------------------------------------------
(* The theorems *)

\* At first nobody has asked.
LEMMA InitReadersInv == Init => ReadersInv
<1>. SUFFICES ASSUME Init PROVE ReadersInv
  OBVIOUS
<1>1. OwnerInv
  BY InitOwnerInv
<1>2. MemoryInv
  BY DEF Init, MemoryInv, Said, Elements, AllCommands
<1>3. NoReader \notin Readers
  BY OwnerAssumption
<1>4. ASSUME NEW r \in Readers PROVE GivenInv(r) /\ ChannelInv(r)
  <2>1. /\ reader[r] = "idle" /\ answer[r] = <<>> /\ got[r].err /\ updates[r] = <<>>
        /\ active = {} /\ resend # r
    BY <1>3 DEF Init, ErrorAnswer
  <2>. QED  BY <2>1 DEF GivenInv, ChannelInv, Asking, Elements
<1>. QED  BY <1>1, <1>2, <1>4 DEF ReadersInv

\* The invariant of readers and subscribers holds in every reachable state.
THEOREM ReadersInductive == Spec => []ReadersInv
<1>1. ReadersInv /\ [Next]_vars => ReadersInv'
  BY NextOwnerInv, MemoryStep, GivenStep, ChannelStep DEF ReadersInv
<1>. QED  BY InitReadersInv, <1>1, PTL DEF Spec

\* A subscriber never misses the last commit, whatever it has taken so far.
THEOREM SubscribersUpToDate == Spec => []SubscribersCurrent
<1>1. ReadersInv => SubscribersCurrent
  <2>1. ReadersInv => active \subseteq Readers
    BY OwnerAssumption DEF ReadersInv, OwnerInv, ReaderTypes
  <2>. QED  BY <2>1 DEF ReadersInv, ChannelInv, Latest, SubscribersCurrent
<1>. QED  BY ReadersInductive, <1>1, PTL

\* A snapshot holds every command acknowledged before it was asked for, and
\* nothing that a crash or a power loss could take back.
THEOREM SnapshotsStand == Spec => []SnapshotsHonest
<1>1. ASSUME ReadersInv, NEW r \in Readers, ~got[r].err
      PROVE  /\ since[r] \subseteq Elements(got[r].ledger)
             /\ \E n \in 0..Len(synced) : got[r].ledger = SubSeq(synced, 1, n)
  <2>1. Honest(r, got[r].ledger)
    BY <1>1 DEF ReadersInv, GivenInv
  <2>2. got[r].ledger \in Seq(AllCommands) /\ synced \in Seq(AllCommands)
    BY <1>1 DEF ReadersInv, OwnerInv, ReaderTypes, OwnerTypes, Answers, Ledger
  <2>. QED  BY <2>1, <2>2, PrefixSub DEF Honest
<1>2. ReadersInv => SnapshotsHonest
  BY <1>1 DEF SnapshotsHonest
<1>. QED  BY ReadersInductive, <1>2, PTL
=============================================================================
