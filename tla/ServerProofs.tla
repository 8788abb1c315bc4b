---------------------------- MODULE ServerProofs ----------------------------
(***************************************************************************)
(* Theorems about the server, for any tracks, decks and dropped files: it  *)
(* implements the queue's specification, so that the queue's theorems are  *)
(* true of it, and keeps invariants of its own on top of them.             *)
(***************************************************************************)
EXTENDS ServerProperties, QueueProofs, FiniteSetTheorems

-----------------------------------------------------------------------------
(* Every step of the server is a step of the queue, or none *)

LEMMA QueueNextOwner ==
  ASSUME NEW j \in Jobs, \/ SubmitAccepted(j) \/ SubmitRefused(j)
                         \/ OwnerEnds(j, "done") \/ OwnerEnds(j, "failed")
                         \/ CancelWaiting(j) \/ CancelMissed(j) \/ CancelRunning(j)
  PROVE  Next
  BY Zenon DEF Next, Owner, Submit, Cancel

LEMMA ServerStepsAreQueueSteps ==
  ASSUME StoreShape, [ServerNext]_allVars
  PROVE  [Next]_vars
<1>0. ASSUME NEW c \in Callers, at[c] \in Owning \cup Dropping PROVE held[c] \in Jobs
  BY <1>0 DEF StoreShape
<1>1. CASE Separate
  <2>1. CASE Publish \/ Finish
    BY <2>1, Zenon DEF Publish, Finish, Next, Worker, RunJob
  <2>2. CASE Attach
    BY <2>2, Zenon DEF Attach, Stays
  <2> QED
    BY <1>1, <2>1, <2>2, Zenon DEF Separate, Next, Worker, Look, RunJob
<1>2. ASSUME NEW c \in Clients, Post(c) PROVE [Next]_vars
  <2>1. CASE PostDone(c) \/ PostFails(c) \/ PostEnqueue(c)
    <3>1. held[c] \in Jobs
      BY <2>1, <1>0, ServerAssumption
         DEF PostDone, PostFails, PostEnqueue, Callers, Owning
    <3> QED
      BY <2>1, <3>1, QueueNextOwner, Zenon
         DEF PostDone, PostFails, OwnerFails, PostEnqueue
  <2>2. CASE PostClaim(c) \/ PostJoin(c) \/ PostHit(c) \/ PostMiss(c)
    BY <2>2, Zenon DEF PostClaim, ClaimFresh, PostJoin, ClaimJoins, PostHit, PostMiss, Stays
  <2> QED
    BY <1>2, <2>1, <2>2, Zenon DEF Post
<1>3. ASSUME NEW c \in Leavers, Delete(c) PROVE [Next]_vars
  <2>1. CASE DeleteWaiting(c) \/ DeleteMissed(c) \/ DeleteRunning(c)
    <3>1. held[c] \in Jobs
      BY <2>1, <1>0, ServerAssumption
         DEF DeleteWaiting, DeleteMissed, DeleteRunning, Callers, Dropping
    <3> QED
      BY <2>1, <3>1, QueueNextOwner, Zenon
         DEF DeleteWaiting, DeleteMissed, DeleteRunning
  <2> QED
    BY <1>3, <2>1, Zenon DEF Delete, DeleteRemove, Stays
<1>4. ASSUME NEW d \in Drops, Drop(d) PROVE [Next]_vars
  <2>1. CASE DropEnqueue(d)
    <3>1. held[d] \in Jobs
      BY <2>1, <1>0 DEF DropEnqueue, Callers, Owning
    <3> QED
      BY <2>1, <3>1, QueueNextOwner, Zenon DEF DropEnqueue
  <2>2. CASE DropLook(d) \/ DropClaim(d) \/ DropJoin(d) \/ DropJoinAgain(d) \/ DropEnds(d)
    BY <2>2, Zenon
       DEF DropLook, DropClaim, ClaimFresh, DropJoin, ClaimJoins, DropJoinAgain, DropEnds, Stays
  <2> QED
    BY <1>4, <2>1, <2>2, Zenon DEF Drop
<1>5. ASSUME NEW c \in Clients, Poll(c) \/ Release(c) \/ HangUp(c) PROVE [Next]_vars
  BY <1>5, Zenon DEF Poll, Release, HangUp, Stays
<1>6. CASE (\E k \in Keys : Evict(k)) \/ (\E j \in Jobs : GrowsOld(j)) \/ Prune
  BY <1>6, Zenon DEF Evict, GrowsOld, Prune, Stays
<1>7. CASE UNCHANGED allVars
  BY <1>7 DEF allVars
<1> QED
  BY <1>1, <1>2, <1>3, <1>4, <1>5, <1>6, <1>7, ServerAssumption DEF ServerNext

-----------------------------------------------------------------------------
(* The invariants *)

LEMMA StoreShapeInit == ServerInit => StoreShape
<1> SUFFICES ASSUME ServerInit PROVE StoreShape
  OBVIOUS
<1> QED
  BY QueueAssumption, ServerAssumption
     DEF ServerInit, StoreShape, Init, CallerStates, Waits, Owning, Dropping

LEMMA ShapeAfterSubmit ==
  ASSUME StoreShape, NEW c \in Callers,
         held[c] \in Jobs, key[held[c]] # None, offered' = offered \cup {held[c]},
         at' = [at EXCEPT ![c] = at'[c]], at'[c] \in {"polling", "full", "failed"},
         UNCHANGED <<key, waiters, entry, registered, byKey, index, wants, held>>
  PROVE  StoreShape'
<1>1. at' \in [Callers -> CallerStates]
  BY DEF StoreShape, CallerStates, Waits, Owning
<1>2. \A d \in Callers : d # c => at'[d] = at[d]
  BY DEF StoreShape
<1>3. \A j \in registered' \cup offered' : key'[j] # None
  BY DEF StoreShape
<1>4. ASSUME NEW d \in Callers
      PROVE  /\ at'[d] \in Owning \cup Dropping \cup {"joining", "polling", "left"} => held'[d] # None
             /\ held'[d] # None => key'[held'[d]] = wants'[d]
             /\ at'[d] = "hit" => entry'[held'[d]] # None
  <2>1. CASE d = c
    BY <2>1, QueueAssumption DEF StoreShape
  <2>2. CASE d # c
    BY <1>2, <2>2 DEF StoreShape
  <2> QED
    BY <2>1, <2>2
<1> QED
  BY <1>1, <1>3, <1>4 DEF StoreShape

LEMMA StoreShapeStep ==
  ASSUME StoreShape, TypeOK, OnePlace, WorkerPhase, [ServerNext]_allVars
  PROVE  StoreShape'
<1> USE DEF StoreShape, TypeOK, Callers, CallerStates, Waits, Owning, Dropping, job, models, callers, stops, history, store, cache, requests, serverVars
<1>1. CASE Separate
  <2>1. CASE (WorkerTakeJob \/ WorkerIdle \/ WorkerPark) /\ Untouched
    BY ServerAssumption, QueueAssumption, <2>1 DEF WorkerTakeJob, WorkerIdle, WorkerPark, MayBegin, FreshFlag, Untouched
  <2>2. CASE (Chunk \/ ChunkCancelled \/ SeparateFails \/ SeparateDone) /\ Untouched
    BY ServerAssumption, QueueAssumption, <2>2 DEF Chunk, ChunkCancelled, SeparateFails, SeparateDone, MoreChunks, CallsOff, FailJob, JobStepFrame, Untouched
  <2>3. CASE Publish
    BY ServerAssumption, QueueAssumption, <2>3 DEF Publish, Published, JobStepFrame
  <2>4. CASE Attach
    <3>1. running \in Jobs /\ key[running] # None
      BY ServerAssumption, <2>4 DEF Attach, Stays, vars, WorkerPhase
    <3> HIDE DEF StoreShape
    <3>2. StoreShape /\ TypeOK
      OBVIOUS
    <3> QED
      BY ServerAssumption, QueueAssumption, <2>4, <3>1, <3>2 DEF StoreShape, Attach, Stays, vars, WorkerPhase, SubmitAccepted, SubmitRefused, HasRoom, Joined, Woken, Moves
  <2>5. CASE Finish
    BY ServerAssumption, QueueAssumption, <2>5 DEF Finish, MayFinish, Complete, JobStepFrame
  <2>6. CASE (PublishFails \/ Clear) /\ Untouched
    BY ServerAssumption, QueueAssumption, <2>6 DEF PublishFails, Clear, FailJob, JobStepFrame, Untouched
  <2> QED
    BY <1>1, <2>1, <2>2, <2>3, <2>4, <2>5, <2>6 DEF Separate
<1>2. ASSUME NEW c \in Clients, Post(c) PROVE StoreShape'
  <2>1. CASE PostClaim(c)
    BY ServerAssumption, QueueAssumption, <2>1 DEF PostClaim, ClaimFresh, InFlight, Stays, vars, Moves
  <2>2. CASE PostJoin(c)
    BY ServerAssumption, QueueAssumption, <2>2 DEF PostJoin, ClaimJoins, InFlight, WithWaiter, Stays, vars, Moves
  <2>3. CASE PostHit(c)
    BY ServerAssumption, QueueAssumption, <2>3 DEF PostHit, Stays, vars, Moves
  <2>4. CASE PostDone(c)
    BY ServerAssumption, QueueAssumption, <2>4 DEF PostDone, OwnerEnds, Waiting, Moves
  <2>5. CASE PostMiss(c)
    BY ServerAssumption, QueueAssumption, <2>5 DEF PostMiss, Stays, vars, Moves
  <2>6. CASE PostFails(c)
    BY ServerAssumption, QueueAssumption, <2>6 DEF PostFails, OwnerFails, OwnerEnds, Waiting, Moves
  <2>7. CASE PostEnqueue(c)
    <3>1. held[c] \in Jobs /\ key[held[c]] # None
      BY ServerAssumption, <2>7 DEF PostEnqueue
    <3>2. offered' = offered \cup {held[c]}
      BY <2>7 DEF PostEnqueue, SubmitAccepted, SubmitRefused
    <3>3. /\ at' = [at EXCEPT ![c] = at'[c]]
          /\ at'[c] \in {"polling", "full", "failed"}
      BY ServerAssumption, <2>7 DEF PostEnqueue, Moves
    <3>4. UNCHANGED <<key, waiters, entry, registered, byKey, index, wants, held>>
      BY <2>7 DEF PostEnqueue
    <3> HIDE DEF StoreShape, TypeOK, store, cache, requests
    <3> QED
      BY <3>1, <3>2, <3>3, <3>4, ShapeAfterSubmit DEF Callers
  <2> QED
    BY <1>2, <2>1, <2>2, <2>3, <2>4, <2>5, <2>6, <2>7 DEF Post
<1>3. ASSUME NEW c \in Clients, Poll(c) PROVE StoreShape'
  BY ServerAssumption, QueueAssumption, <1>3 DEF Poll, Stays, vars, Moves
<1>4. ASSUME NEW c \in Leavers, Release(c) PROVE StoreShape'
  BY ServerAssumption, QueueAssumption, <1>4 DEF Release, Released, Stays, vars, Moves
<1>5. ASSUME NEW c \in Leavers, Delete(c) PROVE StoreShape'
  <2>1. CASE DeleteWaiting(c)
    BY ServerAssumption, QueueAssumption, <2>1 DEF DeleteWaiting, CancelWaiting, Moves
  <2>2. CASE DeleteMissed(c)
    BY ServerAssumption, QueueAssumption, <2>2 DEF DeleteMissed, CancelMissed, Moves
  <2>3. CASE DeleteRunning(c)
    BY ServerAssumption, QueueAssumption, <2>3 DEF DeleteRunning, CancelRunning, InHand, Moves
  <2>4. CASE DeleteRemove(c)
    BY ServerAssumption, QueueAssumption, <2>4 DEF DeleteRemove, Without, Stays, vars, Moves
  <2> QED
    BY <1>5, <2>1, <2>2, <2>3, <2>4 DEF Delete
<1>6. ASSUME NEW c \in Hangers, HangUp(c) PROVE StoreShape'
  BY ServerAssumption, QueueAssumption, <1>6 DEF HangUp, Stays, vars, Moves
<1>7. ASSUME NEW c \in Drops, Drop(c) PROVE StoreShape'
  <2>1. CASE DropLook(c)
    BY ServerAssumption, QueueAssumption, <2>1 DEF DropLook, Stays, vars, Moves
  <2>2. CASE DropClaim(c)
    BY ServerAssumption, QueueAssumption, <2>2 DEF DropClaim, ClaimFresh, InFlight, Stays, vars, Moves
  <2>3. CASE DropJoin(c)
    BY ServerAssumption, QueueAssumption, <2>3 DEF DropJoin, ClaimJoins, InFlight, WithWaiter, Stays, vars, Moves
  <2>4. CASE DropJoinAgain(c)
    BY ServerAssumption, QueueAssumption, <2>4 DEF DropJoinAgain, WithWaiter, Stays, vars, Moves
  <2>5. CASE DropEnqueue(c)
    <3>1. held[c] \in Jobs /\ key[held[c]] # None
      BY ServerAssumption, <2>5 DEF DropEnqueue
    <3>2. offered' = offered \cup {held[c]}
      BY <2>5 DEF DropEnqueue, SubmitAccepted, SubmitRefused
    <3>3. /\ at' = [at EXCEPT ![c] = at'[c]]
          /\ at'[c] \in {"polling", "full", "failed"}
      BY ServerAssumption, <2>5 DEF DropEnqueue, Moves
    <3>4. UNCHANGED <<key, waiters, entry, registered, byKey, index, wants, held>>
      BY <2>5 DEF DropEnqueue
    <3> HIDE DEF StoreShape, TypeOK, store, cache, requests
    <3> QED
      BY <3>1, <3>2, <3>3, <3>4, ShapeAfterSubmit DEF Callers
  <2>6. CASE DropEnds(c)
    BY ServerAssumption, QueueAssumption, <2>6 DEF DropEnds, Stays, vars, Moves
  <2> QED
    BY <1>7, <2>1, <2>2, <2>3, <2>4, <2>5, <2>6 DEF Drop
<1>8. ASSUME NEW k \in Keys, Evict(k) PROVE StoreShape'
  BY ServerAssumption, QueueAssumption, <1>8 DEF Evict, Tombstone, Stays, vars
<1>9. ASSUME NEW j \in Jobs, GrowsOld(j) PROVE StoreShape'
  BY ServerAssumption, QueueAssumption, <1>9 DEF GrowsOld, Stays, vars
<1>10. CASE Prune
  BY ServerAssumption, QueueAssumption, <1>10 DEF Prune, Without, Stale, Stays, vars
<1>11. CASE UNCHANGED allVars
  BY <1>11 DEF allVars, vars
<1> QED
  BY <1>1, <1>2, <1>3, <1>4, <1>5, <1>6, <1>7, <1>8, <1>9, <1>10, <1>11 DEF ServerNext

LEMMA OneLiveStep ==
  ASSUME StoreShape, TypeOK, OnePlace, WorkerPhase, OneLiveJobPerKey, [ServerNext]_allVars
  PROVE  OneLiveJobPerKey'
<1> USE DEF StoreShape, TypeOK, WorkerPhase, OneLiveJobPerKey, IsTerminal, Terminal, Stages, Callers, job, models, callers, stops, history, store, cache, requests, serverVars
<1>1. CASE Separate
  <2>1. CASE (WorkerTakeJob \/ WorkerIdle \/ WorkerPark) /\ Untouched
    BY ServerAssumption, QueueAssumption, <2>1 DEF WorkerTakeJob, WorkerIdle, WorkerPark, MayBegin, FreshFlag, Untouched
  <2>2. CASE (Chunk \/ ChunkCancelled \/ SeparateFails \/ SeparateDone) /\ Untouched
    <3>1. CASE Chunk /\ Untouched
      BY ServerAssumption, QueueAssumption, <3>1 DEF Chunk, MoreChunks, CallsOff, JobStepFrame, Untouched
    <3>2. CASE ChunkCancelled /\ Untouched
      BY ServerAssumption, QueueAssumption, <3>2 DEF ChunkCancelled, MoreChunks, CallsOff, JobStepFrame, Untouched
    <3>3. CASE SeparateFails /\ Untouched
      BY ServerAssumption, QueueAssumption, <3>3 DEF SeparateFails, FailJob, JobStepFrame, Untouched
    <3>4. CASE SeparateDone /\ Untouched
      BY ServerAssumption, QueueAssumption, <3>4 DEF SeparateDone, MoreChunks, JobStepFrame, Untouched
    <3> QED
      BY <2>2, <3>1, <3>2, <3>3, <3>4
  <2>3. CASE Publish
    BY ServerAssumption, QueueAssumption, <2>3 DEF Publish, Published, JobStepFrame
  <2>4. CASE Attach
    BY ServerAssumption, QueueAssumption, <2>4 DEF Attach, Stays, vars
  <2>5. CASE Finish
    BY ServerAssumption, QueueAssumption, <2>5 DEF Finish, MayFinish, Complete, JobStepFrame
  <2>6. CASE (PublishFails \/ Clear) /\ Untouched
    <3>1. CASE PublishFails /\ Untouched
      BY ServerAssumption, QueueAssumption, <3>1 DEF PublishFails, FailJob, JobStepFrame, Untouched
    <3>2. CASE Clear /\ Untouched
      BY ServerAssumption, QueueAssumption, <3>2 DEF Clear, FailJob, JobStepFrame, Untouched
    <3> QED
      BY <2>6, <3>1, <3>2
  <2> QED
    BY <1>1, <2>1, <2>2, <2>3, <2>4, <2>5, <2>6 DEF Separate
<1>2. ASSUME NEW c \in Clients, Post(c) PROVE OneLiveJobPerKey'
  <2>1. CASE PostClaim(c)
    BY ServerAssumption, QueueAssumption, <2>1 DEF PostClaim, ClaimFresh, InFlight, Stays, vars, Moves
  <2>2. CASE PostJoin(c)
    BY ServerAssumption, QueueAssumption, <2>2 DEF PostJoin, ClaimJoins, InFlight, WithWaiter, Stays, vars, Moves
  <2>3. CASE PostHit(c)
    BY ServerAssumption, QueueAssumption, <2>3 DEF PostHit, Stays, vars, Moves
  <2>4. CASE PostDone(c)
    BY ServerAssumption, QueueAssumption, <2>4 DEF PostDone, OwnerEnds, Waiting, Moves
  <2>5. CASE PostMiss(c)
    BY ServerAssumption, QueueAssumption, <2>5 DEF PostMiss, Stays, vars, Moves
  <2>6. CASE PostFails(c)
    BY ServerAssumption, QueueAssumption, <2>6 DEF PostFails, OwnerFails, OwnerEnds, Waiting, Moves
  <2>7. CASE PostEnqueue(c)
    BY ServerAssumption, QueueAssumption, <2>7 DEF PostEnqueue, SubmitAccepted, SubmitRefused, HasRoom, Joined, Woken, Moves
  <2> QED
    BY <1>2, <2>1, <2>2, <2>3, <2>4, <2>5, <2>6, <2>7 DEF Post
<1>3. ASSUME NEW c \in Clients, Poll(c) PROVE OneLiveJobPerKey'
  BY ServerAssumption, QueueAssumption, <1>3 DEF Poll, Stays, vars, Moves
<1>4. ASSUME NEW c \in Leavers, Release(c) PROVE OneLiveJobPerKey'
  BY ServerAssumption, QueueAssumption, <1>4 DEF Release, Released, Stays, vars, Moves
<1>5. ASSUME NEW c \in Leavers, Delete(c) PROVE OneLiveJobPerKey'
  <2>1. CASE DeleteWaiting(c)
    BY ServerAssumption, QueueAssumption, <2>1 DEF DeleteWaiting, CancelWaiting, Moves
  <2>2. CASE DeleteMissed(c)
    BY ServerAssumption, QueueAssumption, <2>2 DEF DeleteMissed, CancelMissed, Moves
  <2>3. CASE DeleteRunning(c)
    BY ServerAssumption, QueueAssumption, <2>3 DEF DeleteRunning, CancelRunning, InHand, Moves
  <2>4. CASE DeleteRemove(c)
    BY ServerAssumption, QueueAssumption, <2>4 DEF DeleteRemove, Without, Stays, vars, Moves
  <2> QED
    BY <1>5, <2>1, <2>2, <2>3, <2>4 DEF Delete
<1>6. ASSUME NEW c \in Hangers, HangUp(c) PROVE OneLiveJobPerKey'
  BY ServerAssumption, QueueAssumption, <1>6 DEF HangUp, Stays, vars, Moves
<1>7. ASSUME NEW c \in Drops, Drop(c) PROVE OneLiveJobPerKey'
  <2>1. CASE DropLook(c)
    BY ServerAssumption, QueueAssumption, <2>1 DEF DropLook, Stays, vars, Moves
  <2>2. CASE DropClaim(c)
    BY ServerAssumption, QueueAssumption, <2>2 DEF DropClaim, ClaimFresh, InFlight, Stays, vars, Moves
  <2>3. CASE DropJoin(c)
    BY ServerAssumption, QueueAssumption, <2>3 DEF DropJoin, ClaimJoins, InFlight, WithWaiter, Stays, vars, Moves
  <2>4. CASE DropJoinAgain(c)
    BY ServerAssumption, QueueAssumption, <2>4 DEF DropJoinAgain, WithWaiter, Stays, vars, Moves
  <2>5. CASE DropEnqueue(c)
    BY ServerAssumption, QueueAssumption, <2>5 DEF DropEnqueue, SubmitAccepted, SubmitRefused, HasRoom, Joined, Woken, Moves
  <2>6. CASE DropEnds(c)
    BY ServerAssumption, QueueAssumption, <2>6 DEF DropEnds, Stays, vars, Moves
  <2> QED
    BY <1>7, <2>1, <2>2, <2>3, <2>4, <2>5, <2>6 DEF Drop
<1>8. ASSUME NEW k \in Keys, Evict(k) PROVE OneLiveJobPerKey'
  BY ServerAssumption, QueueAssumption, <1>8 DEF Evict, Tombstone, Stays, vars
<1>9. ASSUME NEW j \in Jobs, GrowsOld(j) PROVE OneLiveJobPerKey'
  BY ServerAssumption, QueueAssumption, <1>9 DEF GrowsOld, Stays, vars
<1>10. CASE Prune
  BY ServerAssumption, QueueAssumption, <1>10 DEF Prune, Without, Stale, Stays, vars
<1>11. CASE UNCHANGED allVars
  BY <1>11 DEF allVars, vars
<1> QED
  BY <1>1, <1>2, <1>3, <1>4, <1>5, <1>6, <1>7, <1>8, <1>9, <1>10, <1>11 DEF ServerNext

LEMMA DoneStep ==
  ASSUME StoreShape, TypeOK, OnePlace, WorkerPhase, DoneHasStems, [ServerNext]_allVars
  PROVE  DoneHasStems'
<1> USE DEF StoreShape, TypeOK, WorkerPhase, DoneHasStems, Stages, Callers, Owning, Dropping, job, models, callers, stops, history, store, cache, requests, serverVars
<1>1. CASE Separate
  <2>1. CASE (WorkerTakeJob \/ WorkerIdle \/ WorkerPark) /\ Untouched
    BY ServerAssumption, QueueAssumption, <2>1 DEF WorkerTakeJob, WorkerIdle, WorkerPark, MayBegin, FreshFlag, Untouched
  <2>2. CASE (Chunk \/ ChunkCancelled \/ SeparateFails \/ SeparateDone) /\ Untouched
    BY ServerAssumption, QueueAssumption, <2>2 DEF Chunk, ChunkCancelled, SeparateFails, SeparateDone, MoreChunks, CallsOff, FailJob, JobStepFrame, Untouched
  <2>3. CASE Publish
    BY ServerAssumption, QueueAssumption, <2>3 DEF Publish, Published, JobStepFrame
  <2>4. CASE Attach
    BY ServerAssumption, QueueAssumption, <2>4 DEF Attach, Stays, vars
  <2>5. CASE Finish
    BY ServerAssumption, QueueAssumption, <2>5 DEF Finish, MayFinish, Complete, JobStepFrame
  <2>6. CASE (PublishFails \/ Clear) /\ Untouched
    BY ServerAssumption, QueueAssumption, <2>6 DEF PublishFails, Clear, FailJob, JobStepFrame, Untouched
  <2> QED
    BY <1>1, <2>1, <2>2, <2>3, <2>4, <2>5, <2>6 DEF Separate
<1>2. ASSUME NEW c \in Clients, Post(c) PROVE DoneHasStems'
  <2>1. CASE PostClaim(c)
    BY ServerAssumption, QueueAssumption, <2>1 DEF PostClaim, ClaimFresh, InFlight, Stays, vars, Moves
  <2>2. CASE PostJoin(c)
    BY ServerAssumption, QueueAssumption, <2>2 DEF PostJoin, ClaimJoins, InFlight, WithWaiter, Stays, vars, Moves
  <2>3. CASE PostHit(c)
    BY ServerAssumption, QueueAssumption, <2>3 DEF PostHit, Stays, vars, Moves
  <2>4. CASE PostDone(c)
    BY ServerAssumption, QueueAssumption, <2>4 DEF PostDone, OwnerEnds, Waiting, Moves
  <2>5. CASE PostMiss(c)
    BY ServerAssumption, QueueAssumption, <2>5 DEF PostMiss, Stays, vars, Moves
  <2>6. CASE PostFails(c)
    BY ServerAssumption, QueueAssumption, <2>6 DEF PostFails, OwnerFails, OwnerEnds, Waiting, Moves
  <2>7. CASE PostEnqueue(c)
    BY ServerAssumption, QueueAssumption, <2>7 DEF PostEnqueue, SubmitAccepted, SubmitRefused, HasRoom, Joined, Woken, Moves
  <2> QED
    BY <1>2, <2>1, <2>2, <2>3, <2>4, <2>5, <2>6, <2>7 DEF Post
<1>3. ASSUME NEW c \in Clients, Poll(c) PROVE DoneHasStems'
  BY ServerAssumption, QueueAssumption, <1>3 DEF Poll, Stays, vars, Moves
<1>4. ASSUME NEW c \in Leavers, Release(c) PROVE DoneHasStems'
  BY ServerAssumption, QueueAssumption, <1>4 DEF Release, Released, Stays, vars, Moves
<1>5. ASSUME NEW c \in Leavers, Delete(c) PROVE DoneHasStems'
  <2>1. CASE DeleteWaiting(c)
    BY ServerAssumption, QueueAssumption, <2>1 DEF DeleteWaiting, CancelWaiting, Moves
  <2>2. CASE DeleteMissed(c)
    BY ServerAssumption, QueueAssumption, <2>2 DEF DeleteMissed, CancelMissed, Moves
  <2>3. CASE DeleteRunning(c)
    BY ServerAssumption, QueueAssumption, <2>3 DEF DeleteRunning, CancelRunning, InHand, Moves
  <2>4. CASE DeleteRemove(c)
    BY ServerAssumption, QueueAssumption, <2>4 DEF DeleteRemove, Without, Stays, vars, Moves
  <2> QED
    BY <1>5, <2>1, <2>2, <2>3, <2>4 DEF Delete
<1>6. ASSUME NEW c \in Hangers, HangUp(c) PROVE DoneHasStems'
  BY ServerAssumption, QueueAssumption, <1>6 DEF HangUp, Stays, vars, Moves
<1>7. ASSUME NEW c \in Drops, Drop(c) PROVE DoneHasStems'
  <2>1. CASE DropLook(c)
    BY ServerAssumption, QueueAssumption, <2>1 DEF DropLook, Stays, vars, Moves
  <2>2. CASE DropClaim(c)
    BY ServerAssumption, QueueAssumption, <2>2 DEF DropClaim, ClaimFresh, InFlight, Stays, vars, Moves
  <2>3. CASE DropJoin(c)
    BY ServerAssumption, QueueAssumption, <2>3 DEF DropJoin, ClaimJoins, InFlight, WithWaiter, Stays, vars, Moves
  <2>4. CASE DropJoinAgain(c)
    BY ServerAssumption, QueueAssumption, <2>4 DEF DropJoinAgain, WithWaiter, Stays, vars, Moves
  <2>5. CASE DropEnqueue(c)
    BY ServerAssumption, QueueAssumption, <2>5 DEF DropEnqueue, SubmitAccepted, SubmitRefused, HasRoom, Joined, Woken, Moves
  <2>6. CASE DropEnds(c)
    BY ServerAssumption, QueueAssumption, <2>6 DEF DropEnds, Stays, vars, Moves
  <2> QED
    BY <1>7, <2>1, <2>2, <2>3, <2>4, <2>5, <2>6 DEF Drop
<1>8. ASSUME NEW k \in Keys, Evict(k) PROVE DoneHasStems'
  BY ServerAssumption, QueueAssumption, <1>8 DEF Evict, Tombstone, Stays, vars
<1>9. ASSUME NEW j \in Jobs, GrowsOld(j) PROVE DoneHasStems'
  BY ServerAssumption, QueueAssumption, <1>9 DEF GrowsOld, Stays, vars
<1>10. CASE Prune
  BY ServerAssumption, QueueAssumption, <1>10 DEF Prune, Without, Stale, Stays, vars
<1>11. CASE UNCHANGED allVars
  BY <1>11 DEF allVars, vars
<1> QED
  BY <1>1, <1>2, <1>3, <1>4, <1>5, <1>6, <1>7, <1>8, <1>9, <1>10, <1>11 DEF ServerNext

-----------------------------------------------------------------------------
(* Who a live job belongs to *)

LEMMA TakeKeepsWaiting ==
  ASSUME TypeOK, WorkerTakeJob, NEW j \in Jobs, Waiting(j)
  PROVE  Waiting(j)' \/ running' = j
<1>1. PICK k \in DOMAIN pending : pending[k] = j
  BY DEF Waiting
<1>2. /\ pending # <<>> /\ pending \in Seq(Jobs)
      /\ pending' = Tail(pending) /\ running' = Head(pending)
  BY DEF WorkerTakeJob, TypeOK, MayBegin, FreshFlag
<1>3. /\ DOMAIN pending = 1 .. Len(pending) /\ Len(pending) \in Nat
      /\ DOMAIN pending' = 1 .. Len(pending) - 1
  BY <1>2, LenProperties, HeadTailProperties
<1>4. CASE k = 1
  BY <1>1, <1>2, <1>4
<1>5. CASE k # 1
  <2>1. k - 1 \in DOMAIN pending' /\ pending'[k - 1] = pending[k]
    BY <1>2, <1>3, <1>5, HeadTailProperties
  <2> QED
    BY <1>1, <2>1 DEF Waiting
<1> QED
  BY <1>4, <1>5

LEMMA CancelKeepsOthersWaiting ==
  ASSUME TypeOK, NEW i \in Jobs, CancelWaiting(i), NEW j \in Jobs, Waiting(j), j # i
  PROVE  Waiting(j)'
<1>1. PICK k \in DOMAIN pending : pending[k] = j
  BY DEF Waiting
<1>2. PICK m \in DOMAIN pending : pending[m] = i /\ pending' = RemoveAt(pending, m)
  BY DEF CancelWaiting
<1>3. /\ pending \in Seq(Jobs) /\ DOMAIN pending = 1 .. Len(pending)
      /\ Len(pending) \in Nat
  BY LenProperties DEF TypeOK
<1>4. /\ DOMAIN pending' = 1 .. Len(pending) - 1
      /\ \A n \in 1 .. Len(pending) - 1 :
           pending'[n] = IF n < m THEN pending[n] ELSE pending[n + 1]
  <2>1. pending' \in Seq(Jobs) /\ Len(pending') = Len(pending) - 1
    BY <1>2, <1>3, RemoveAtProperties
  <2> QED
    BY <1>2, <1>3, <2>1, RemoveAtProperties, LenProperties
<1>5. CASE k < m
  BY <1>1, <1>2, <1>3, <1>4, <1>5 DEF Waiting
<1>6. CASE k > m
  <2>1. k - 1 \in DOMAIN pending' /\ pending'[k - 1] = pending[k]
    BY <1>1, <1>2, <1>3, <1>4, <1>6
  <2> QED
    BY <1>1, <2>1 DEF Waiting
<1> QED
  BY <1>1, <1>2, <1>3, <1>5, <1>6

LEMMA SubmitKeepsWaiting ==
  ASSUME TypeOK, NEW i \in Jobs, SubmitAccepted(i)
  PROVE  Waiting(i)' /\ \A j \in Jobs : Waiting(j) => Waiting(j)'
<1>1. /\ pending' = Append(pending, i) /\ pending \in Seq(Jobs)
      /\ DOMAIN pending = 1 .. Len(pending) /\ Len(pending) \in Nat
  BY LenProperties DEF SubmitAccepted, TypeOK, HasRoom, Joined
<1>2. /\ DOMAIN pending' = 1 .. Len(pending) + 1
      /\ pending'[Len(pending) + 1] = i
      /\ \A k \in 1 .. Len(pending) : pending'[k] = pending[k]
  BY <1>1, AppendProperties, LenProperties
<1> QED
  BY <1>1, <1>2 DEF Waiting

LEMMA OwnedStep ==
  ASSUME Drops = {}, Hangers = {}, StoreShape, TypeOK, OnePlace, WorkerPhase, LiveJobsAreOwned, [ServerNext]_allVars
  PROVE  LiveJobsAreOwned'
<1> USE DEF StoreShape, WorkerPhase, LiveJobsAreOwned, Waiting, IsTerminal, Terminal, Stages, Callers, Owning, Dropping, job, models, callers, stops, history, store, cache, requests, serverVars
<1>1. CASE Separate
  <2>1. CASE (WorkerTakeJob \/ WorkerIdle \/ WorkerPark) /\ Untouched
    <3>1. CASE WorkerTakeJob /\ Untouched
      <4>1. \A j \in Jobs : Waiting(j) => Waiting(j)' \/ running' = j
        <5> HIDE DEF Waiting
        <5> QED
          BY <3>1, TakeKeepsWaiting
      <4>2. UNCHANGED <<registered, stage, at, held>> /\ running = None
        BY <3>1 DEF WorkerTakeJob, MayBegin, Untouched
      <4> HIDE DEF Waiting
      <4> QED
        BY <4>1, <4>2, QueueAssumption
    <3>2. CASE (WorkerIdle \/ WorkerPark) /\ Untouched
      <4>1. UNCHANGED <<registered, stage, at, held, pending, running>>
        BY <3>2 DEF WorkerIdle, WorkerPark, Untouched
      <4> QED
        BY <4>1
    <3> QED
      BY <2>1, <3>1, <3>2
  <2>2. CASE (Chunk \/ ChunkCancelled \/ SeparateFails \/ SeparateDone) /\ Untouched
    <3>1. CASE Chunk /\ Untouched
      BY ServerAssumption, QueueAssumption, <3>1 DEF Chunk, MoreChunks, CallsOff, JobStepFrame, Untouched
    <3>2. CASE ChunkCancelled /\ Untouched
      BY ServerAssumption, QueueAssumption, <3>2 DEF ChunkCancelled, MoreChunks, CallsOff, JobStepFrame, Untouched
    <3>3. CASE SeparateFails /\ Untouched
      BY ServerAssumption, QueueAssumption, <3>3 DEF SeparateFails, FailJob, JobStepFrame, Untouched
    <3>4. CASE SeparateDone /\ Untouched
      BY ServerAssumption, QueueAssumption, <3>4 DEF SeparateDone, MoreChunks, JobStepFrame, Untouched
    <3> QED
      BY <2>2, <3>1, <3>2, <3>3, <3>4
  <2>3. CASE Publish
    BY ServerAssumption, QueueAssumption, <2>3 DEF Publish, Published, JobStepFrame
  <2>4. CASE Attach
    BY ServerAssumption, QueueAssumption, <2>4 DEF Attach, Stays, vars
  <2>5. CASE Finish
    BY ServerAssumption, QueueAssumption, <2>5 DEF Finish, MayFinish, Complete, JobStepFrame
  <2>6. CASE (PublishFails \/ Clear) /\ Untouched
    <3>1. CASE PublishFails /\ Untouched
      BY ServerAssumption, QueueAssumption, <3>1 DEF PublishFails, FailJob, JobStepFrame, Untouched
    <3>2. CASE Clear /\ Untouched
      BY ServerAssumption, QueueAssumption, <3>2 DEF Clear, FailJob, JobStepFrame, Untouched
    <3> QED
      BY <2>6, <3>1, <3>2
  <2> QED
    BY <1>1, <2>1, <2>2, <2>3, <2>4, <2>5, <2>6 DEF Separate
<1>2. ASSUME NEW c \in Clients, Post(c) PROVE LiveJobsAreOwned'
  <2>1. CASE PostClaim(c)
    BY ServerAssumption, QueueAssumption, <2>1 DEF PostClaim, ClaimFresh, InFlight, Stays, vars, Moves
  <2>2. CASE PostJoin(c)
    BY ServerAssumption, QueueAssumption, <2>2 DEF PostJoin, ClaimJoins, InFlight, WithWaiter, Stays, vars, Moves
  <2>3. CASE PostHit(c)
    BY ServerAssumption, QueueAssumption, <2>3 DEF PostHit, Stays, vars, Moves
  <2>4. CASE PostDone(c)
    <3>1. /\ held[c] \in Jobs /\ IsTerminal(held[c])'
          /\ \A j \in Jobs : j # held[c] => stage'[j] = stage[j]
      BY ServerAssumption, <2>4 DEF PostDone, OwnerEnds, TypeOK
    <3>2. UNCHANGED <<registered, held, pending, running>>
      BY <2>4 DEF PostDone, OwnerEnds
    <3>3. \A e \in Callers : e # c => at'[e] = at[e]
      BY <2>4 DEF PostDone, Moves
    <3> QED
      BY <3>1, <3>2, <3>3
  <2>5. CASE PostMiss(c)
    BY ServerAssumption, QueueAssumption, <2>5 DEF PostMiss, Stays, vars, Moves
  <2>6. CASE PostFails(c)
    <3>1. /\ held[c] \in Jobs /\ IsTerminal(held[c])'
          /\ \A j \in Jobs : j # held[c] => stage'[j] = stage[j]
      BY ServerAssumption, <2>6 DEF PostFails, OwnerFails, OwnerEnds, TypeOK
    <3>2. UNCHANGED <<registered, held, pending, running>>
      BY <2>6 DEF PostFails, OwnerFails, OwnerEnds
    <3>3. \A e \in Callers : e # c => at'[e] = at[e]
      BY <2>6 DEF PostFails, Moves
    <3> QED
      BY <3>1, <3>2, <3>3
  <2>7. CASE PostEnqueue(c)
    <3>0. /\ held[c] \in Jobs /\ UNCHANGED <<registered, held, running>>
          /\ \A e \in Callers : e # c => at'[e] = at[e]
      BY ServerAssumption, <2>7 DEF PostEnqueue, SubmitAccepted, SubmitRefused, Moves
    <3>1. CASE SubmitAccepted(held[c])
      <4>1. /\ Waiting(held[c])' /\ \A j \in Jobs : Waiting(j) => Waiting(j)'
        <5> HIDE DEF Waiting
        <5> QED
          BY <3>0, <3>1, SubmitKeepsWaiting
      <4>2. \A j \in Jobs : j # held[c] => stage'[j] = stage[j]
        BY <3>0, <3>1 DEF SubmitAccepted, TypeOK
      <4> HIDE DEF Waiting
      <4> QED
        BY <3>0, <4>1, <4>2
    <3>2. CASE SubmitRefused(held[c])
      <4>1. UNCHANGED <<stage, pending>> /\ at'[c] = "full"
        BY <2>7, <3>0, <3>2, ServerAssumption DEF PostEnqueue, SubmitRefused, SubmitAccepted, HasRoom, Moves
      <4> QED
        BY <3>0, <4>1
    <3> QED
      BY <2>7, <3>1, <3>2 DEF PostEnqueue
  <2> QED
    BY <1>2, <2>1, <2>2, <2>3, <2>4, <2>5, <2>6, <2>7 DEF Post
<1>3. ASSUME NEW c \in Clients, Poll(c) PROVE LiveJobsAreOwned'
  BY ServerAssumption, QueueAssumption, <1>3 DEF Poll, Stays, vars, Moves
<1>4. ASSUME NEW c \in Leavers, Release(c) PROVE LiveJobsAreOwned'
  BY ServerAssumption, QueueAssumption, <1>4 DEF Release, Released, Stays, vars, Moves
<1>5. ASSUME NEW c \in Leavers, Delete(c) PROVE LiveJobsAreOwned'
  <2>1. CASE DeleteWaiting(c)
    <3>0. /\ held[c] \in Jobs /\ UNCHANGED <<registered, held, running, stage>>
          /\ at'[c] = "remove" /\ \A e \in Callers : e # c => at'[e] = at[e]
      BY ServerAssumption, <2>1 DEF DeleteWaiting, CancelWaiting, Moves
    <3>1. \A j \in Jobs : Waiting(j) => Waiting(j)' \/ j = held[c]
      <4> HIDE DEF Waiting
      <4> QED
        BY <2>1, <3>0, CancelKeepsOthersWaiting DEF DeleteWaiting
    <3> HIDE DEF Waiting
    <3> QED
      BY ServerAssumption, <3>0, <3>1
  <2>2. CASE DeleteMissed(c)
    BY ServerAssumption, QueueAssumption, <2>2 DEF DeleteMissed, CancelMissed, Moves
  <2>3. CASE DeleteRunning(c)
    BY ServerAssumption, QueueAssumption, <2>3 DEF DeleteRunning, CancelRunning, InHand, Moves
  <2>4. CASE DeleteRemove(c)
    BY ServerAssumption, QueueAssumption, <2>4 DEF DeleteRemove, Without, Stays, vars, Moves
  <2> QED
    BY <1>5, <2>1, <2>2, <2>3, <2>4 DEF Delete
<1>6. ASSUME NEW c \in Hangers, HangUp(c) PROVE LiveJobsAreOwned'
  BY ServerAssumption, QueueAssumption, <1>6 DEF HangUp, Stays, vars, Moves
<1>7. ASSUME NEW c \in Drops, Drop(c) PROVE LiveJobsAreOwned'
  <2>1. CASE DropLook(c)
    BY ServerAssumption, QueueAssumption, <2>1 DEF DropLook, Stays, vars, Moves
  <2>2. CASE DropClaim(c)
    BY ServerAssumption, QueueAssumption, <2>2 DEF DropClaim, ClaimFresh, InFlight, Stays, vars, Moves
  <2>3. CASE DropJoin(c)
    BY ServerAssumption, QueueAssumption, <2>3 DEF DropJoin, ClaimJoins, InFlight, WithWaiter, Stays, vars, Moves
  <2>4. CASE DropJoinAgain(c)
    BY ServerAssumption, QueueAssumption, <2>4 DEF DropJoinAgain, WithWaiter, Stays, vars, Moves
  <2>5. CASE DropEnqueue(c)
    BY ServerAssumption, QueueAssumption, <2>5 DEF DropEnqueue, SubmitAccepted, SubmitRefused, HasRoom, Joined, Woken, Moves
  <2>6. CASE DropEnds(c)
    BY ServerAssumption, QueueAssumption, <2>6 DEF DropEnds, Stays, vars, Moves
  <2> QED
    BY <1>7, <2>1, <2>2, <2>3, <2>4, <2>5, <2>6 DEF Drop
<1>8. ASSUME NEW k \in Keys, Evict(k) PROVE LiveJobsAreOwned'
  BY ServerAssumption, QueueAssumption, <1>8 DEF Evict, Tombstone, Stays, vars
<1>9. ASSUME NEW j \in Jobs, GrowsOld(j) PROVE LiveJobsAreOwned'
  BY ServerAssumption, QueueAssumption, <1>9 DEF GrowsOld, Stays, vars
<1>10. CASE Prune
  BY ServerAssumption, QueueAssumption, <1>10 DEF Prune, Without, Stale, Stays, vars
<1>11. CASE UNCHANGED allVars
  BY <1>11 DEF allVars, vars
<1> QED
  BY <1>1, <1>2, <1>3, <1>4, <1>5, <1>6, <1>7, <1>8, <1>9, <1>10, <1>11 DEF ServerNext

-----------------------------------------------------------------------------
(* Who is counted in *)

LetGo == Dropping \cup {"left"}
Counted(j) == {c \in Callers : held[c] = j /\ at[c] \notin LetGo}

\* Whoever has not begun has no job, so that it joins but once.
IdleHoldsNothing == \A c \in Callers : at[c] = "idle" => held[c] = None

\* A step that neither joins nor lets go.
CountStays ==
  /\ waiters' = waiters /\ held' = held
  /\ registered' \subseteq registered
  /\ \A c \in Callers : /\ at'[c] \in LetGo <=> at[c] \in LetGo
                        /\ at'[c] = "idle" => at[c] = "idle"

LEMMA FewStepsCount ==
  ASSUME Drops = {}, StoreShape, [ServerNext]_allVars
  PROVE  \/ CountStays
         \/ \E c \in Clients : PostClaim(c) \/ PostJoin(c)
         \/ \E c \in Leavers : Release(c)
<1> USE DEF CountStays, LetGo, Dropping, StoreShape, store, cache, requests, serverVars, Moves
<1>1. CASE Separate
  BY <1>1, Zenon DEF Separate, Untouched, Publish, Attach, Finish
<1>2. ASSUME NEW c \in Clients, Post(c), ~PostClaim(c), ~PostJoin(c) PROVE CountStays
  <2>1. CASE PostHit(c) \/ PostDone(c) \/ PostMiss(c)
    BY <2>1 DEF PostHit, PostDone, PostMiss
  <2>2. CASE PostFails(c) \/ PostEnqueue(c)
    BY <2>2 DEF PostFails, PostEnqueue
  <2> QED
    BY <1>2, <2>1, <2>2 DEF Post
<1>3. ASSUME NEW c \in Clients, Poll(c) \/ HangUp(c) PROVE CountStays
  BY <1>3 DEF Poll, HangUp
<1>4. ASSUME NEW c \in Leavers, Delete(c) PROVE CountStays
  BY <1>4 DEF Delete, DeleteWaiting, DeleteMissed, DeleteRunning, DeleteRemove
<1>5. ASSUME \/ \E k \in Keys : Evict(k)
             \/ \E j \in Jobs : GrowsOld(j)
             \/ Prune \/ UNCHANGED allVars
      PROVE  CountStays
  BY <1>5 DEF Evict, GrowsOld, Prune, allVars
<1> QED
  BY <1>1, <1>2, <1>3, <1>4, <1>5, ServerAssumption DEF ServerNext

LEMMA CountedIsFinite ==
  ASSUME NEW j
  PROVE  IsFiniteSet(Counted(j))
<1>1. Counted(j) \subseteq Callers /\ IsFiniteSet(Callers)
  BY ServerAssumption DEF Counted
<1> QED
  BY <1>1, FS_Subset

LEMMA CountStep ==
  ASSUME Drops = {}, Retriers = {}, StoreShape, IdleHoldsNothing, WaitersAreCounted,
         [ServerNext]_allVars
  PROVE  WaitersAreCounted' /\ IdleHoldsNothing'
<1>0. /\ Callers = Clients /\ Leavers \subseteq Callers
      /\ WaitersAreCounted <=> \A j \in registered : waiters[j] = Cardinality(Counted(j))
      /\ WaitersAreCounted' <=>
           \A j \in registered' : waiters'[j] = Cardinality(Counted(j)')
  BY ServerAssumption DEF Callers, WaitersAreCounted, Counted, LetGo
<1>1. CASE CountStays
  <2>1. \A j \in Jobs : Counted(j)' = Counted(j)
    BY <1>1 DEF CountStays, Counted
  <2> QED
    BY <1>0, <1>1, <2>1 DEF CountStays, IdleHoldsNothing, StoreShape
<1>2. ASSUME NEW c \in Clients, PostClaim(c) PROVE WaitersAreCounted' /\ IdleHoldsNothing'
  <2>1. PICK j \in Jobs : /\ key[j] = None
                         /\ waiters' = [waiters EXCEPT ![j] = 1]
                         /\ registered' = registered \cup {j}
                         /\ held' = [held EXCEPT ![c] = j]
    BY <1>2 DEF PostClaim, ClaimFresh
  <2>2. at[c] = "idle" /\ at' = [at EXCEPT ![c] = "claimed"] /\ held[c] = None
    BY <1>0, <1>2 DEF PostClaim, ClaimFresh, Moves, IdleHoldsNothing
  <2>3. \A d \in Callers : held[d] # j
    BY <2>1, ServerAssumption, QueueAssumption DEF StoreShape
  <2>4. Counted(j)' = {c}
    BY <1>0, <2>1, <2>2, <2>3 DEF Counted, LetGo, Dropping, StoreShape
  <2>5. \A i \in Jobs \ {j} : Counted(i)' = Counted(i)
    BY <1>0, <2>1, <2>2, QueueAssumption DEF Counted, LetGo, Dropping, StoreShape
  <2>6. waiters'[j] = Cardinality(Counted(j)')
    BY <2>1, <2>4, FS_Singleton DEF StoreShape
  <2>7. WaitersAreCounted'
    BY <1>0, <2>1, <2>5, <2>6 DEF StoreShape
  <2> QED
    BY <1>0, <2>1, <2>2, <2>7 DEF IdleHoldsNothing, StoreShape
<1>3. ASSUME NEW c \in Clients, PostJoin(c) PROVE WaitersAreCounted' /\ IdleHoldsNothing'
  <2>1. PICK j \in InFlight(wants[c]) : /\ waiters' = WithWaiter(j)
                                       /\ held' = [held EXCEPT ![c] = j]
    BY <1>3 DEF PostJoin, ClaimJoins
  <2>2. /\ at[c] = "idle" /\ at' = [at EXCEPT ![c] = "polling"] /\ held[c] = None
        /\ registered' = registered /\ j \in registered /\ j \in Jobs
    BY <1>0, <1>3, <2>1
       DEF PostJoin, ClaimJoins, InFlight, Moves, IdleHoldsNothing, StoreShape
  <2>3. Counted(j)' = Counted(j) \cup {c} /\ c \notin Counted(j)
    BY <1>0, <2>1, <2>2, QueueAssumption DEF Counted, LetGo, Dropping, StoreShape
  <2>4. \A i \in Jobs \ {j} : Counted(i)' = Counted(i)
    BY <1>0, <2>1, <2>2, QueueAssumption DEF Counted, LetGo, Dropping, StoreShape
  <2>5. Cardinality(Counted(j)') = Cardinality(Counted(j)) + 1
    BY <2>3, CountedIsFinite, FS_AddElement
  <2>6. WaitersAreCounted'
    BY <1>0, <2>1, <2>2, <2>4, <2>5 DEF WithWaiter, StoreShape
  <2> QED
    BY <1>0, <2>1, <2>2, <2>6 DEF IdleHoldsNothing, StoreShape
<1>4. ASSUME NEW c \in Leavers, Release(c) PROVE WaitersAreCounted' /\ IdleHoldsNothing'
  <2> DEFINE j == held[c]
  <2>1. /\ at[c] \in {"polling", "answered"} /\ j \in registered /\ j \in Jobs
        /\ waiters' = Released(j) /\ held' = held /\ registered' = registered
        /\ at' = [at EXCEPT ![c] = at'[c]] /\ at'[c] \in {"left", "cancel"}
    BY <1>0, <1>4 DEF Release, Moves, StoreShape
  <2>2. Counted(j)' = Counted(j) \ {c} /\ c \in Counted(j)
    BY <1>0, <2>1 DEF Counted, LetGo, Dropping, StoreShape
  <2>3. \A i \in Jobs \ {j} : Counted(i)' = Counted(i)
    BY <1>0, <2>1 DEF Counted, LetGo, Dropping, StoreShape
  <2>4. Cardinality(Counted(j)') = Cardinality(Counted(j)) - 1
    BY <2>2, CountedIsFinite, FS_RemoveElement
  <2>5. Cardinality(Counted(j)) \in Nat /\ Cardinality(Counted(j)) # 0
    BY <2>2, CountedIsFinite, FS_CardinalityType, FS_EmptySet
  <2>6. WaitersAreCounted'
    BY <1>0, <2>1, <2>3, <2>4, <2>5 DEF Released, StoreShape
  <2> QED
    BY <1>0, <2>1, <2>6 DEF IdleHoldsNothing, StoreShape
<1> QED
  BY <1>1, <1>2, <1>3, <1>4, FewStepsCount

-----------------------------------------------------------------------------
(* Whose job it is, and what becomes of one the store has let go *)

\* A job has one owner, and until it is submitted it is nobody else's; whoever has
\* claimed or joined nothing holds nothing.
OneOwner ==
  /\ \A c, d \in Callers :
       at[c] \in Owning /\ at[d] \in Owning /\ held[c] = held[d] => c = d
  /\ \A c \in Callers : at[c] \in {"claimed", "hit", "decoding"} => held[c] \notin offered
  /\ \A c \in Callers : at[c] \in {"idle", "missed"} => held[c] = None

\* The sweep takes no live job: one the store does not show was let go of.
NoneIsSweptAlive ==
  \A j \in Jobs \ registered : key[j] # None /\ ~IsTerminal(j) => LetGoOf(j)

\* The only steps that change which job is whose, or which the store shows: a
\* claim, a join, a DELETE's last step and the sweep.
Claims(c) == \E from \in {"idle", "missed"} : ClaimFresh(c, from, "claimed")
Joins(c)  == ClaimJoins(c, "idle", "polling") \/ ClaimJoins(c, "missed", "joining")

StoreStays == UNCHANGED <<key, byKey, registered, held>>

LEMMA WhoMovesTheStore ==
  ASSUME [ServerNext]_allVars
  PROVE  \/ StoreStays
         \/ \E c \in Callers : Claims(c) \/ Joins(c)
         \/ \E c \in Leavers : DeleteRemove(c)
         \/ Prune
<1> USE DEF StoreStays, store, cache, requests, serverVars
<1>1. CASE Separate
  BY <1>1, Zenon DEF Separate, Untouched, Publish, Attach, Finish
<1>2. ASSUME NEW c \in Clients, Post(c) PROVE StoreStays \/ Claims(c) \/ Joins(c)
  <2>1. CASE PostHit(c) \/ PostDone(c) \/ PostMiss(c)
    BY <2>1, Zenon DEF PostHit, PostDone, PostMiss
  <2>2. CASE PostFails(c) \/ PostEnqueue(c)
    BY <2>2, Zenon DEF PostFails, PostEnqueue
  <2> QED
    BY <1>2, <2>1, <2>2 DEF Post, PostClaim, PostJoin, Claims, Joins
<1>3. ASSUME NEW c \in Clients, Poll(c) \/ HangUp(c) \/ Release(c) PROVE StoreStays
  BY <1>3, Zenon DEF Poll, HangUp, Release
<1>4. ASSUME NEW c \in Leavers, Delete(c) PROVE StoreStays \/ DeleteRemove(c)
  BY <1>4, Zenon DEF Delete, DeleteWaiting, DeleteMissed, DeleteRunning
<1>5. ASSUME NEW d \in Drops, Drop(d) PROVE StoreStays \/ Claims(d) \/ Joins(d)
  <2>1. CASE DropLook(d) \/ DropJoinAgain(d) \/ DropEnqueue(d) \/ DropEnds(d)
    BY <2>1, Zenon DEF DropLook, DropJoinAgain, DropEnqueue, DropEnds
  <2> QED
    BY <1>5, <2>1 DEF Drop, DropClaim, DropJoin, Claims, Joins
<1>6. ASSUME \/ \E k \in Keys : Evict(k)
             \/ \E j \in Jobs : GrowsOld(j)
             \/ UNCHANGED allVars
      PROVE  StoreStays
  BY <1>6, Zenon DEF Evict, GrowsOld, allVars
<1> QED
  BY <1>1, <1>2, <1>3, <1>4, <1>5, <1>6, ServerAssumption, Zenon DEF ServerNext, Callers

\* Nobody comes back from a job the store has let go of.
LEMMA LeftStaysLeft ==
  ASSUME StoreShape, [ServerNext]_allVars, NEW b \in Callers,
         at[b] = "left", held[b] \notin registered
  PROVE  at'[b] = "left" /\ held'[b] = held[b]
<1> USE DEF StoreShape, store, cache, requests, serverVars, Moves, Callers, CallerStates, Waits, Owning, Dropping
<1>1. CASE Separate
  BY <1>1, Zenon DEF Separate, Untouched, Publish, Attach, Finish
<1>2. ASSUME NEW c \in Clients, Post(c) PROVE at'[b] = at[b] /\ held'[b] = held[b]
  <2>1. CASE PostClaim(c) \/ PostJoin(c)
    BY <2>1 DEF PostClaim, PostJoin, ClaimFresh, ClaimJoins
  <2>2. CASE PostHit(c) \/ PostDone(c) \/ PostMiss(c)
    BY <2>2 DEF PostHit, PostDone, PostMiss
  <2>3. CASE PostFails(c) \/ PostEnqueue(c)
    BY <2>3 DEF PostFails, PostEnqueue
  <2> QED
    BY <1>2, <2>1, <2>2, <2>3 DEF Post
<1>3. ASSUME NEW c \in Clients, Poll(c) \/ HangUp(c) \/ Release(c)
      PROVE  at'[b] = at[b] /\ held'[b] = held[b]
  BY <1>3 DEF Poll, HangUp, Release
<1>4. ASSUME NEW c \in Leavers, Delete(c) PROVE at'[b] = at[b] /\ held'[b] = held[b]
  BY <1>4 DEF Delete, DeleteWaiting, DeleteMissed, DeleteRunning, DeleteRemove
<1>5. ASSUME NEW d \in Drops, Drop(d) PROVE at'[b] = at[b] /\ held'[b] = held[b]
  <2>1. CASE DropLook(d) \/ DropJoinAgain(d) \/ DropEnqueue(d) \/ DropEnds(d)
    BY <2>1 DEF DropLook, DropJoinAgain, DropEnqueue, DropEnds
  <2>2. CASE DropClaim(d) \/ DropJoin(d)
    BY <2>2 DEF DropClaim, DropJoin, ClaimFresh, ClaimJoins
  <2> QED
    BY <1>5, <2>1, <2>2 DEF Drop
<1>6. ASSUME \/ \E k \in Keys : Evict(k)
             \/ \E j \in Jobs : GrowsOld(j)
             \/ Prune \/ UNCHANGED allVars
      PROVE  at'[b] = at[b] /\ held'[b] = held[b]
  BY <1>6 DEF Evict, GrowsOld, Prune, allVars
<1> QED
  BY <1>1, <1>2, <1>3, <1>4, <1>5, <1>6, ServerAssumption DEF ServerNext

\* What the store hides it hides for good, and a job keeps its key.
LEMMA HiddenStaysHidden ==
  ASSUME StoreShape, [ServerNext]_allVars, NEW j \in Jobs, key[j] # None
  PROVE  key'[j] = key[j] /\ (j \notin registered => j \notin registered')
<1>1. ASSUME NEW c \in Callers, Claims(c) \/ Joins(c)
      PROVE  key'[j] = key[j] /\ (j \notin registered => j \notin registered')
  BY <1>1 DEF Claims, Joins, ClaimFresh, ClaimJoins, StoreShape
<1>2. ASSUME (\E c \in Leavers : DeleteRemove(c)) \/ Prune
      PROVE  key'[j] = key[j] /\ (j \notin registered => j \notin registered')
  BY <1>2 DEF DeleteRemove, Prune
<1> QED
  BY <1>1, <1>2, WhoMovesTheStore DEF StoreStays

LEMMA LetGoStays ==
  ASSUME StoreShape, [ServerNext]_allVars, NEW j \in Jobs, LetGoOf(j)
  PROVE  LetGoOf(j)'
<1>1. PICK b \in Leavers : at[b] = "left" /\ held[b] = j
  BY DEF LetGoOf
<1>2. b \in Callers
  BY ServerAssumption DEF Callers
<1> QED
  BY <1>1, <1>2, LeftStaysLeft, HiddenStaysHidden DEF LetGoOf

\* How the stage of a job moves, whoever moves it.
LEMMA WhoMovesTheStage ==
  ASSUME TypeOK, WorkerPhase, OnePlace, [Next]_vars, NEW j \in Jobs
  PROVE  /\ IsTerminal(j) => stage'[j] = stage[j]
         /\ Separated(j) => Separated(j)'
<1> USE DEF TypeOK, IsTerminal, Terminal, Stages, Separated, WorkerPhase, job, models, callers, stops, history
<1>1. CASE Worker
  <2>1. CASE Look
    BY <2>1, QueueAssumption DEF Look, WorkerQuit, WorkerTakeModel, WorkerTakeJob, WorkerIdle, WorkerPark, MayBegin
  <2>2. CASE Build
    BY <2>2, QueueAssumption DEF Build, BuildPublish, BuildReply, BuildFails
  <2>3. CASE RunJob
    <3>1. running \in Jobs /\ running # None
      BY <2>3, QueueAssumption DEF RunJob, Chunk, ChunkCancelled, SeparateFails, SeparateDone, Published, PublishFails, Complete, Clear
    <3>2. CASE Chunk \/ ChunkCancelled \/ SeparateFails \/ SeparateDone
      BY <3>1, <3>2 DEF Chunk, ChunkCancelled, SeparateFails, SeparateDone, FailJob
    <3>3. CASE Published \/ PublishFails \/ Complete \/ Clear
      BY <3>1, <3>3, QueueAssumption DEF Published, PublishFails, Complete, Clear, FailJob
    <3> QED
      BY <2>3, <3>2, <3>3 DEF RunJob
  <2> QED
    BY <1>1, <2>1, <2>2, <2>3 DEF Worker
<1>2. ASSUME NEW i \in Jobs, Owner(i) \/ Cancel(i)
      PROVE  /\ IsTerminal(j) => stage'[j] = stage[j]
             /\ Separated(j) => Separated(j)'
  <2>1. CASE SubmitAccepted(i)
    <3>1. stage' = [stage EXCEPT ![i] = "queued"] /\ stage[i] = "queued" /\ running' = running /\ (wpc = "complete" => wpc' = "complete")
      BY <2>1 DEF SubmitAccepted, Woken
    <3> QED
      BY <3>1
  <2>2. CASE SubmitRefused(i) \/ OwnerEnds(i, "done") \/ OwnerEnds(i, "failed")
    BY <2>2 DEF SubmitRefused, OwnerEnds
  <2>3. CASE Cancel(i)
    BY <2>3 DEF Cancel, CancelWaiting, CancelMissed, CancelRunning
  <2> QED
    BY <1>2, <2>1, <2>2, <2>3 DEF Owner, Submit
<1>3. ASSUME NEW i \in Installers, Install(i)
      PROVE  /\ IsTerminal(j) => stage'[j] = stage[j]
             /\ Separated(j) => Separated(j)'
  BY <1>3 DEF Install, InstallRefused, InstallStage, InstallNotify, InstallReturn, Woken
<1>4. ASSUME NEW s \in Stoppers, Stop(s)
      PROVE  /\ IsTerminal(j) => stage'[j] = stage[j]
             /\ Separated(j) => Separated(j)'
  BY <1>4 DEF Stop, StopFlag, StopDrain, StopCancel, StopNotify, StopTake, StopTaken, StopReturn, StopFrame, Woken
<1>5. CASE UNCHANGED vars
  BY <1>5 DEF vars
<1> QED
  BY <1>1, <1>2, <1>3, <1>4, <1>5 DEF Next

LEMMA SweptStep ==
  ASSUME StoreShape, TypeOK, WorkerPhase, OnePlace, NoneIsSweptAlive, [ServerNext]_allVars
  PROVE  NoneIsSweptAlive'
<1> SUFFICES ASSUME NEW j \in Jobs, j \notin registered', key'[j] # None, ~IsTerminal(j)'
             PROVE  LetGoOf(j)'
  BY DEF NoneIsSweptAlive
<1>1. ~IsTerminal(j)
  BY ServerStepsAreQueueSteps, WhoMovesTheStage DEF IsTerminal
<1>2. CASE key[j] # None /\ j \notin registered
  BY <1>1, <1>2, LetGoStays DEF NoneIsSweptAlive
<1>3. CASE key[j] # None /\ j \in registered
  <2>1. ASSUME NEW c \in Leavers, DeleteRemove(c) PROVE LetGoOf(j)'
    <3>1. held[c] = j /\ held' = held /\ at' = [at EXCEPT ![c] = "left"] /\ c \in Callers
      BY <1>3, <2>1, ServerAssumption DEF DeleteRemove, Callers, Moves
    <3> QED
      BY <3>1 DEF LetGoOf, StoreShape
  <2>2. ~Prune
    BY <1>1, <1>3 DEF Prune, Stale
  <2>3. ASSUME NEW c \in Callers, Claims(c) \/ Joins(c) PROVE FALSE
    BY <1>3, <2>3 DEF Claims, Joins, ClaimFresh, ClaimJoins
  <2> QED
    BY <1>3, <2>1, <2>2, <2>3, WhoMovesTheStore DEF StoreStays
<1>4. CASE key[j] = None
  <2>1. ASSUME NEW c \in Callers, Claims(c) \/ Joins(c) PROVE FALSE
    BY <1>4, <2>1 DEF Claims, Joins, ClaimFresh, ClaimJoins, StoreShape
  <2> QED
    BY <1>4, <2>1, WhoMovesTheStore DEF StoreStays, DeleteRemove, Prune
<1> QED
  BY <1>2, <1>3, <1>4

\* A claim makes an owner, and a submission or an end lets its owner go.
LEMMA OwnerStep ==
  ASSUME StoreShape, OneOwner, [ServerNext]_allVars
  PROVE  OneOwner'
<1> USE DEF StoreShape, OneOwner, Owning, history, store, cache, requests, serverVars, Moves, Callers
<1>1. CASE Separate
  <2>1. UNCHANGED <<held, at, offered>>
    BY <1>1, Zenon
       DEF Separate, Untouched, Publish, Attach, Finish, WorkerTakeJob, WorkerIdle, WorkerPark,
           Chunk, ChunkCancelled, SeparateFails, SeparateDone, Published, PublishFails,
           Complete, Clear, JobStepFrame, Stays, vars
  <2> QED
    BY <2>1
<1>2. ASSUME NEW c \in Callers, Claims(c) PROVE OneOwner'
  <2>1. PICK j \in Jobs : key[j] = None /\ held' = [held EXCEPT ![c] = j]
    BY <1>2 DEF Claims, ClaimFresh
  <2>2. at' = [at EXCEPT ![c] = "claimed"] /\ offered' = offered
    BY <1>2 DEF Claims, ClaimFresh, Stays, vars
  <2>3. j \notin offered /\ \A d \in Callers : at[d] \in Owning => held[d] # j
    BY <2>1, ServerAssumption, QueueAssumption
  <2> QED
    BY <2>1, <2>2, <2>3
<1>3. ASSUME NEW c \in Callers, Joins(c) PROVE OneOwner'
  <2>1. PICK j : held' = [held EXCEPT ![c] = j]
    BY <1>3 DEF Joins, ClaimJoins
  <2>2. /\ offered' = offered
        /\ at' = [at EXCEPT ![c] = "polling"] \/ at' = [at EXCEPT ![c] = "joining"]
    BY <1>3 DEF Joins, ClaimJoins, Stays, vars
  <2> QED
    BY <2>1, <2>2
<1>4. ASSUME NEW c \in Clients, Post(c) PROVE OneOwner'
  <2>1. CASE PostHit(c) \/ PostMiss(c)
    BY <2>1 DEF PostHit, PostMiss, Stays, vars
  <2>2. CASE PostDone(c)
    BY <2>2 DEF PostDone, OwnerEnds
  <2>3. CASE PostFails(c)
    BY <2>3 DEF PostFails, OwnerFails, OwnerEnds
  <2>4. CASE PostEnqueue(c)
    BY <2>4 DEF PostEnqueue, SubmitAccepted, SubmitRefused
  <2> QED
    BY <1>2, <1>3, <1>4, <2>1, <2>2, <2>3, <2>4 DEF Post, PostClaim, PostJoin, Claims, Joins
<1>5. ASSUME NEW c \in Clients, Poll(c) \/ HangUp(c) \/ Release(c) PROVE OneOwner'
  BY <1>5 DEF Poll, HangUp, Release, Stays, vars
<1>6. ASSUME NEW c \in Leavers, Delete(c) PROVE OneOwner'
  BY <1>6, ServerAssumption
     DEF Delete, DeleteWaiting, DeleteMissed, DeleteRunning, DeleteRemove,
         CancelWaiting, CancelMissed, CancelRunning, Stays, vars
<1>7. ASSUME NEW d \in Drops, Drop(d) PROVE OneOwner'
  <2>1. CASE DropLook(d) \/ DropJoinAgain(d) \/ DropEnds(d)
    BY <2>1 DEF DropLook, DropJoinAgain, DropEnds, Stays, vars
  <2>2. CASE DropEnqueue(d)
    BY <2>2 DEF DropEnqueue, SubmitAccepted, SubmitRefused
  <2> QED
    BY <1>2, <1>3, <1>7, <2>1, <2>2 DEF Drop, DropClaim, DropJoin, Claims, Joins
<1>8. ASSUME \/ \E k \in Keys : Evict(k)
             \/ \E j \in Jobs : GrowsOld(j)
             \/ Prune \/ UNCHANGED allVars
      PROVE  OneOwner'
  <2>1. UNCHANGED <<held, at, offered>>
    BY <1>8, Zenon DEF Evict, GrowsOld, Prune, allVars, Stays, vars
  <2> QED
    BY <2>1
<1> QED
  BY <1>1, <1>4, <1>5, <1>6, <1>7, <1>8, ServerAssumption DEF ServerNext

-----------------------------------------------------------------------------
(* What the index holds *)

\* Stems in the index are of a job that was separated to the end, and the worker
\* says done of stems that are there, or were.
StemsAreMade ==
  /\ \A k \in Keys : index[k] # None => Separated(index[k])
  /\ wpc = "complete" => running \in {index[key[running]]} \cup evicted

LEMMA WhoMovesTheCache ==
  ASSUME [ServerNext]_allVars
  PROVE  UNCHANGED cache \/ Publish \/ \E k \in Keys : Evict(k)
<1> USE DEF requests, serverVars
<1>1. CASE Separate /\ ~Publish
  BY <1>1, Zenon DEF Separate, Untouched, Attach, Finish
<1>2. ASSUME NEW c \in Clients, Post(c) PROVE UNCHANGED cache
  <2>1. CASE PostHit(c) \/ PostDone(c) \/ PostMiss(c)
    BY <2>1, Zenon DEF PostHit, PostDone, PostMiss
  <2>2. CASE PostFails(c) \/ PostEnqueue(c)
    BY <2>2, Zenon DEF PostFails, PostEnqueue
  <2>3. CASE PostClaim(c) \/ PostJoin(c)
    BY <2>3, Zenon DEF PostClaim, PostJoin, ClaimFresh, ClaimJoins
  <2> QED
    BY <1>2, <2>1, <2>2, <2>3 DEF Post
<1>3. ASSUME NEW c \in Clients, Poll(c) \/ HangUp(c) \/ Release(c) PROVE UNCHANGED cache
  BY <1>3, Zenon DEF Poll, HangUp, Release
<1>4. ASSUME NEW c \in Leavers, Delete(c) PROVE UNCHANGED cache
  BY <1>4, Zenon DEF Delete, DeleteWaiting, DeleteMissed, DeleteRunning, DeleteRemove
<1>5. ASSUME NEW d \in Drops, Drop(d) PROVE UNCHANGED cache
  <2>1. CASE DropLook(d) \/ DropJoinAgain(d) \/ DropEnqueue(d) \/ DropEnds(d)
    BY <2>1, Zenon DEF DropLook, DropJoinAgain, DropEnqueue, DropEnds
  <2>2. CASE DropClaim(d) \/ DropJoin(d)
    BY <2>2, Zenon DEF DropClaim, DropJoin, ClaimFresh, ClaimJoins
  <2> QED
    BY <1>5, <2>1, <2>2 DEF Drop
<1>6. ASSUME (\E j \in Jobs : GrowsOld(j)) \/ Prune \/ UNCHANGED allVars
      PROVE  UNCHANGED cache
  BY <1>6, Zenon DEF GrowsOld, Prune, allVars
<1> QED
  BY <1>1, <1>2, <1>3, <1>4, <1>5, <1>6, ServerAssumption, Zenon DEF ServerNext

\* The worker comes to complete by publishing, and only then; and the job in its
\* hands changes only as it takes or clears one.
LEMMA WhoMovesTheWorker ==
  ASSUME [ServerNext]_allVars
  PROVE  \/ WorkerTakeJob \/ SeparateDone \/ Publish
         \/ wpc' = "clear" /\ running' = running
         \/ wpc' \notin {"separate", "publish", "complete"} /\ running' = None
         \/ running' = running /\ wpc' \in {wpc, "next", "parking", "parked"}
<1> USE DEF job
<1>1. CASE Separate
  <2>1. CASE (WorkerTakeJob \/ WorkerIdle \/ WorkerPark) /\ Untouched
    BY <2>1 DEF WorkerIdle, WorkerPark
  <2>2. CASE (Chunk \/ ChunkCancelled \/ SeparateFails \/ SeparateDone) /\ Untouched
    BY <2>2 DEF Chunk, ChunkCancelled, SeparateFails
  <2>3. CASE Publish \/ Attach \/ Finish
    BY <2>3 DEF Attach, Finish, Complete, Stays, vars
  <2>4. CASE (PublishFails \/ Clear) /\ Untouched
    BY <2>4 DEF PublishFails, Clear
  <2> QED
    BY <1>1, <2>1, <2>2, <2>3, <2>4 DEF Separate
<1> DEFINE Same == running' = running /\ wpc' \in {wpc, "next"}
<1>2. ASSUME NEW c \in Clients, Post(c) PROVE Same
  <2>1. CASE PostHit(c) \/ PostDone(c) \/ PostMiss(c)
    BY <2>1 DEF PostHit, PostDone, PostMiss, OwnerEnds, Stays, vars
  <2>2. CASE PostFails(c) \/ PostEnqueue(c)
    BY <2>2 DEF PostFails, PostEnqueue, OwnerFails, OwnerEnds, SubmitAccepted, SubmitRefused, Woken
  <2>3. CASE PostClaim(c) \/ PostJoin(c)
    BY <2>3 DEF PostClaim, PostJoin, ClaimFresh, ClaimJoins, Stays, vars
  <2> QED
    BY <1>2, <2>1, <2>2, <2>3 DEF Post
<1>3. ASSUME NEW c \in Clients, Poll(c) \/ HangUp(c) \/ Release(c) PROVE Same
  BY <1>3 DEF Poll, HangUp, Release, Stays, vars
<1>4. ASSUME NEW c \in Leavers, Delete(c) PROVE Same
  BY <1>4 DEF Delete, DeleteWaiting, DeleteMissed, DeleteRunning, DeleteRemove,
              CancelWaiting, CancelMissed, CancelRunning, Stays, vars
<1>5. ASSUME NEW d \in Drops, Drop(d) PROVE Same
  <2>1. CASE DropLook(d) \/ DropJoinAgain(d) \/ DropEnds(d)
    BY <2>1 DEF DropLook, DropJoinAgain, DropEnds, Stays, vars
  <2>2. CASE DropEnqueue(d)
    BY <2>2 DEF DropEnqueue, SubmitAccepted, SubmitRefused, Woken
  <2>3. CASE DropClaim(d) \/ DropJoin(d)
    BY <2>3 DEF DropClaim, DropJoin, ClaimFresh, ClaimJoins, Stays, vars
  <2> QED
    BY <1>5, <2>1, <2>2, <2>3 DEF Drop
<1>6. ASSUME \/ \E k \in Keys : Evict(k)
             \/ \E j \in Jobs : GrowsOld(j)
             \/ Prune \/ UNCHANGED allVars
      PROVE  Same
  BY <1>6 DEF Evict, GrowsOld, Prune, allVars, Stays, vars
<1> QED
  BY <1>1, <1>2, <1>3, <1>4, <1>5, <1>6, ServerAssumption DEF ServerNext

LEMMA StemsStep ==
  ASSUME StoreShape, TypeOK, OnePlace, WorkerPhase, StemsAreMade, [ServerNext]_allVars
  PROVE  StemsAreMade'
<1> USE QueueAssumption, ServerAssumption DEF cache
<1>1. \A j \in Jobs : Separated(j) => Separated(j)'
  BY ServerStepsAreQueueSteps, WhoMovesTheStage
<1>2. CASE Publish
  <2>1. /\ index' = [index EXCEPT ![key[running]] = running] /\ evicted' = evicted
        /\ running' = running /\ wpc' = "complete" /\ key' = key
    BY <1>2 DEF Publish, Published, store
  <2>2. running \in Jobs /\ key[running] \in Keys
    BY <1>2 DEF Publish, Published, WorkerPhase, TypeOK, StoreShape
  <2> QED
    BY <1>1, <2>1, <2>2 DEF StemsAreMade, Separated, StoreShape
<1>3. CASE ~Publish
  <2>1. \A k \in Keys : index'[k] # None => index'[k] = index[k]
    BY <1>3, WhoMovesTheCache DEF Evict, StoreShape
  <2>2. ASSUME wpc' = "complete" PROVE running' \in {index'[key'[running']]} \cup evicted'
    <3>1. running' = running /\ wpc = "complete"
      BY <1>3, <2>2, WhoMovesTheWorker DEF WorkerTakeJob, SeparateDone
    <3>2. running \in Jobs /\ key[running] \in Keys /\ key'[running] = key[running]
      BY <3>1, HiddenStaysHidden DEF WorkerPhase, TypeOK, StoreShape
    <3>3. running \in {index[key[running]]} \cup evicted
      BY <3>1 DEF StemsAreMade
    <3> QED
      BY <1>3, <3>1, <3>2, <3>3, WhoMovesTheCache DEF Evict, Tombstone, StoreShape
  <2> QED
    BY <1>1, <2>1, <2>2 DEF StemsAreMade, StoreShape
<1> QED
  BY <1>2, <1>3

-----------------------------------------------------------------------------
(* No track is separated beside its stems *)

\* A job whose owner has seen the cache without its stems is on its way to the
\* line, in it or on the worker.
Pursued(j) ==
  \/ Waiting(j)
  \/ running = j /\ wpc \in {"separate", "publish"}
  \/ \E c \in Clients : at[c] = "decoding" /\ held[c] = j

PursuedOnce ==
  \A j \in registered : Pursued(j) /\ (\A d \in Drops : held[d] # j) =>
    index[key[j]] = None \/ LetGoOf(index[key[j]])

LEMMA WhoMovesTheLine ==
  ASSUME [ServerNext]_allVars
  PROVE  \/ pending' = pending \/ WorkerTakeJob
         \/ \E c \in Leavers : CancelWaiting(held[c])
         \/ \E c \in Callers : /\ at[c] = "decoding" \/ (c \in Drops /\ at[c] = "claimed")
                               /\ held' = held /\ pending' = Append(pending, held[c])
<1>1. CASE Separate
  BY <1>1 DEF Separate, WorkerIdle, WorkerPark, Chunk, ChunkCancelled, SeparateFails, SeparateDone,
       Publish, Published, Attach, Finish, Complete, PublishFails, Clear, JobStepFrame, Stays, vars
<1>2. ASSUME NEW c \in Clients, Post(c)
      PROVE  \/ pending' = pending
             \/ /\ at[c] = "decoding"
                /\ held' = held /\ pending' = Append(pending, held[c])
  <2>1. CASE PostHit(c) \/ PostDone(c) \/ PostMiss(c)
    BY <2>1 DEF PostHit, PostDone, PostMiss, OwnerEnds, Stays, vars
  <2>2. CASE PostFails(c) \/ PostEnqueue(c)
    BY <2>2 DEF PostFails, PostEnqueue, OwnerFails, OwnerEnds, SubmitAccepted, SubmitRefused, Joined
  <2>3. CASE PostClaim(c) \/ PostJoin(c)
    BY <2>3 DEF PostClaim, PostJoin, ClaimFresh, ClaimJoins, Stays, vars
  <2> QED
    BY <1>2, <2>1, <2>2, <2>3 DEF Post
<1>3. ASSUME NEW c \in Clients, Poll(c) \/ HangUp(c) \/ Release(c) PROVE pending' = pending
  BY <1>3 DEF Poll, HangUp, Release, Stays, vars
<1>4. ASSUME NEW c \in Leavers, Delete(c) PROVE pending' = pending \/ CancelWaiting(held[c])
  BY <1>4 DEF Delete, DeleteWaiting, DeleteMissed, DeleteRunning, DeleteRemove,
              CancelMissed, CancelRunning, Stays, vars
<1>5. ASSUME NEW d \in Drops, Drop(d)
      PROVE  \/ pending' = pending
             \/ at[d] = "claimed" /\ held' = held /\ pending' = Append(pending, held[d])
  <2>1. CASE DropLook(d) \/ DropJoinAgain(d) \/ DropEnds(d)
    BY <2>1 DEF DropLook, DropJoinAgain, DropEnds, Stays, vars
  <2>2. CASE DropEnqueue(d)
    BY <2>2 DEF DropEnqueue, SubmitAccepted, SubmitRefused, Joined
  <2>3. CASE DropClaim(d) \/ DropJoin(d)
    BY <2>3 DEF DropClaim, DropJoin, ClaimFresh, ClaimJoins, Stays, vars
  <2> QED
    BY <1>5, <2>1, <2>2, <2>3 DEF Drop
<1>6. ASSUME \/ \E k \in Keys : Evict(k)
             \/ \E j \in Jobs : GrowsOld(j)
             \/ Prune \/ UNCHANGED allVars
      PROVE  pending' = pending
  BY <1>6 DEF Evict, GrowsOld, Prune, allVars, Stays, vars
<1> QED
  BY <1>1, <1>2, <1>3, <1>4, <1>5, <1>6, ServerAssumption DEF ServerNext, Callers

LEMMA WhoWaits ==
  ASSUME TypeOK, StoreShape, [ServerNext]_allVars, NEW j \in Jobs, Waiting(j)'
  PROVE  \/ Waiting(j)
         \/ \E c \in Callers : /\ at[c] = "decoding" \/ (c \in Drops /\ at[c] = "claimed")
                               /\ held' = held /\ held[c] = j
<1> USE DEF Waiting
<1>0. pending \in Seq(Jobs) /\ Len(pending) \in Nat /\ DOMAIN pending = 1 .. Len(pending)
  BY LenProperties DEF TypeOK
<1>1. CASE WorkerTakeJob
  <2>1. pending # <<>> /\ pending' = Tail(pending)
    BY <1>1 DEF WorkerTakeJob
  <2>2. PICK m \in DOMAIN pending' : pending'[m] = j
    OBVIOUS
  <2>3. m + 1 \in DOMAIN pending /\ pending[m + 1] = j
    BY <1>0, <2>1, <2>2, HeadTailProperties, LenProperties
  <2> QED
    BY <2>3
<1>2. ASSUME NEW c \in Leavers, CancelWaiting(held[c]) PROVE Waiting(j)
  <2>1. PICK n \in DOMAIN pending : pending' = RemoveAt(pending, n)
    BY <1>2 DEF CancelWaiting
  <2>2. PICK m \in DOMAIN pending' : pending'[m] = j
    OBVIOUS
  <2>3. /\ pending' \in Seq(Jobs) /\ Len(pending') = Len(pending) - 1
        /\ \A i \in 1 .. Len(pending) - 1 :
             pending'[i] = IF i < n THEN pending[i] ELSE pending[i + 1]
    BY <1>0, <2>1, RemoveAtProperties
  <2>4. m \in 1 .. Len(pending) - 1
    BY <1>0, <2>2, <2>3, LenProperties
  <2>5. pending'[m] = pending[m] \/ pending'[m] = pending[m + 1]
    BY <2>3, <2>4
  <2>6. m \in DOMAIN pending /\ m + 1 \in DOMAIN pending
    BY <1>0, <2>4
  <2> QED
    BY <2>2, <2>5, <2>6
<1>3. ASSUME NEW c \in Callers, at[c] = "decoding" \/ (c \in Drops /\ at[c] = "claimed"),
             held' = held, pending' = Append(pending, held[c])
      PROVE  Waiting(j) \/ held[c] = j
  <2>1. PICK m \in DOMAIN pending' : pending'[m] = j
    OBVIOUS
  <2>2. CASE held[c] \in Jobs
    <3>1. pending'[Len(pending) + 1] = held[c] /\ DOMAIN pending' = 1 .. Len(pending) + 1
          /\ \A i \in 1 .. Len(pending) : pending'[i] = pending[i]
      BY <1>0, <1>3, <2>2, AppendProperties, LenProperties
    <3> QED
      BY <1>0, <2>1, <3>1
  <2> QED
    BY <1>3, <2>2 DEF StoreShape, Owning
<1>4. CASE pending' = pending
  BY <1>4
<1> QED
  BY <1>1, <1>2, <1>3, <1>4, WhoMovesTheLine

LEMMA WhoDecodes ==
  ASSUME StoreShape, [ServerNext]_allVars, NEW c \in Clients, at'[c] = "decoding"
  PROVE  PostMiss(c) \/ (at[c] = "decoding" /\ held'[c] = held[c])
<1> USE DEF StoreShape, store, cache, requests, serverVars, Moves, Callers
<1>1. CASE Separate
  BY <1>1, Zenon DEF Separate, Untouched, Publish, Attach, Finish
<1> DEFINE Same == at[c] = "decoding" /\ held'[c] = held[c]
<1>2. ASSUME NEW d \in Clients, Post(d), ~PostMiss(d) PROVE Same
  <2>1. CASE PostClaim(d) \/ PostJoin(d)
    BY <2>1 DEF PostClaim, PostJoin, ClaimFresh, ClaimJoins
  <2>2. CASE PostHit(d) \/ PostDone(d)
    BY <2>2 DEF PostHit, PostDone
  <2>3. CASE PostFails(d) \/ PostEnqueue(d)
    BY <2>3 DEF PostFails, PostEnqueue
  <2> QED
    BY <1>2, <2>1, <2>2, <2>3 DEF Post
<1>3. ASSUME NEW d \in Clients, PostMiss(d) PROVE PostMiss(c) \/ Same
  BY <1>3 DEF PostMiss
<1>4. ASSUME NEW d \in Clients, Poll(d) \/ HangUp(d) \/ Release(d) PROVE Same
  BY <1>4 DEF Poll, HangUp, Release
<1>5. ASSUME NEW d \in Leavers, Delete(d) PROVE Same
  BY <1>5, ServerAssumption DEF Delete, DeleteWaiting, DeleteMissed, DeleteRunning, DeleteRemove
<1>6. ASSUME NEW d \in Drops, Drop(d) PROVE Same
  <2>1. CASE DropLook(d) \/ DropJoinAgain(d) \/ DropEnqueue(d) \/ DropEnds(d)
    BY <2>1 DEF DropLook, DropJoinAgain, DropEnqueue, DropEnds
  <2>2. CASE DropClaim(d) \/ DropJoin(d)
    BY <2>2, ServerAssumption DEF DropClaim, DropJoin, ClaimFresh, ClaimJoins
  <2> QED
    BY <1>6, <2>1, <2>2 DEF Drop
<1>7. ASSUME \/ \E k \in Keys : Evict(k)
             \/ \E j \in Jobs : GrowsOld(j)
             \/ Prune \/ UNCHANGED allVars
      PROVE  Same
  BY <1>7 DEF Evict, GrowsOld, Prune, allVars
<1> QED
  BY <1>1, <1>2, <1>3, <1>4, <1>5, <1>6, <1>7, ServerAssumption DEF ServerNext

\* A job a caller holds it holds for good.
LEMMA HeldIsKept ==
  ASSUME StoreShape, OneOwner, [ServerNext]_allVars, NEW c \in Callers, held[c] # None
  PROVE  held'[c] = held[c]
<1>1. ASSUME NEW d \in Callers, Claims(d) \/ Joins(d) PROVE held'[c] = held[c]
  BY <1>1 DEF Claims, Joins, ClaimFresh, ClaimJoins, StoreShape, OneOwner
<1> QED
  BY <1>1, WhoMovesTheStore DEF StoreStays, DeleteRemove, Prune, requests

\* A decode, a place in line and a turn on the worker all follow from a miss.
LEMMA WhoIsPursued ==
  ASSUME StoreShape, TypeOK, OneOwner, [ServerNext]_allVars,
         NEW j \in Jobs, Pursued(j)', \A d \in Drops : held'[d] # j
  PROVE  \/ Pursued(j) /\ \A d \in Drops : held[d] # j
         \/ index[key[j]] = None /\ UNCHANGED <<key, registered, index>>
<1> USE QueueAssumption, ServerAssumption
<1>1. \A d \in Drops : held[d] # j
  BY HeldIsKept DEF Callers
<1>2. CASE Waiting(j)'
  BY <1>1, <1>2, WhoWaits DEF Pursued, Callers
<1>3. CASE running' = j /\ wpc' \in {"separate", "publish"}
  <2>1. CASE WorkerTakeJob
    <3>1. pending # <<>> /\ j = Head(pending) /\ pending \in Seq(Jobs)
      BY <1>3, <2>1 DEF WorkerTakeJob, TypeOK
    <3>2. 1 \in DOMAIN pending /\ pending[1] = j
      BY <3>1, HeadTailProperties, LenProperties, EmptySeq
    <3> QED
      BY <1>1, <3>2 DEF Pursued, Waiting
  <2>2. CASE SeparateDone
    BY <1>1, <1>3, <2>2 DEF SeparateDone, Pursued
  <2>3. CASE running' = running /\ wpc' = wpc
    BY <1>1, <1>3, <2>3 DEF Pursued
  <2>4. ~Publish
    BY <1>3 DEF Publish, Published
  <2> QED
    BY <1>3, <2>1, <2>2, <2>3, <2>4, WhoMovesTheWorker
<1>4. ASSUME NEW c \in Clients, at'[c] = "decoding", held'[c] = j
      PROVE  \/ Pursued(j)
             \/ index[key[j]] = None /\ UNCHANGED <<key, registered, index>>
  <2>1. CASE PostMiss(c)
    <3>1. held[c] = j /\ index[wants[c]] = None /\ UNCHANGED <<key, registered, index>>
      BY <1>4, <2>1 DEF PostMiss, store, cache
    <3> QED
      BY <3>1 DEF StoreShape, Callers
  <2>2. CASE at[c] = "decoding" /\ held'[c] = held[c]
    BY <1>4, <2>2 DEF Pursued
  <2> QED
    BY <1>4, <2>1, <2>2, WhoDecodes
<1> QED
  BY <1>1, <1>2, <1>3, <1>4 DEF Pursued

LEMMA PursuedStep ==
  ASSUME StoreShape, TypeOK, OnePlace, WorkerPhase, OneLiveJobPerKey, OneOwner,
         NoneIsSweptAlive, PursuedOnce, [ServerNext]_allVars
  PROVE  PursuedOnce'
<1> USE QueueAssumption, ServerAssumption
<1> SUFFICES ASSUME NEW j \in Jobs, j \in registered', Pursued(j)',
                    \A d \in Drops : held'[d] # j
             PROVE  index'[key'[j]] = None \/ \E s \in Jobs : index'[key'[j]] = s /\ LetGoOf(s)'
  <2>1. StoreShape'
    BY StoreShapeStep
  <2>2. \A s \in Jobs : index'[key'[s]] = s /\ LetGoOf(s)' => LetGoOf(index[key[s]])'
    OBVIOUS
  <2> QED
    BY <2>1 DEF PursuedOnce, StoreShape
<1>1. CASE index[key[j]] = None /\ UNCHANGED <<key, registered, index>>
  BY <1>1
<1>2. CASE Pursued(j) /\ \A d \in Drops : held[d] # j
  <2>1. key[j] # None /\ key[j] \in Keys
    BY <1>2 DEF Pursued, Waiting, OnePlace, WorkerPhase, StoreShape, Callers, Owning
  <2>2. key'[j] = key[j] /\ j \in registered
    BY <2>1, HiddenStaysHidden
  <2>3. index[key[j]] = None \/ \E s \in Jobs : index[key[j]] = s /\ LetGoOf(s)
    BY <1>2, <2>1, <2>2 DEF PursuedOnce, StoreShape
  <2>4. CASE index'[key[j]] = index[key[j]]
    BY <2>2, <2>3, <2>4, LetGoStays
  <2>5. CASE index'[key[j]] = None
    BY <2>2, <2>5
  <2>6. CASE Publish /\ key[j] = key[running]
    <3>1. /\ wpc = "publish" /\ wpc' = "complete" /\ running' = running /\ pending' = pending
          /\ at' = at /\ held' = held /\ index' = [index EXCEPT ![key[running]] = running]
      BY <2>6 DEF Publish, Published, JobStepFrame, requests
    <3>2. running \in Jobs /\ running \in offered /\ stage[running] = "writing"
      BY <3>1 DEF WorkerPhase, TypeOK
    <3>3. j # running /\ ~IsTerminal(j)
      <4>1. CASE Waiting(j)
        BY <4>1, <3>1, <3>2 DEF Waiting, OnePlace, IsTerminal, Terminal
      <4>2. ASSUME NEW c \in Clients, at[c] = "decoding", held[c] = j
            PROVE  j # running /\ ~IsTerminal(j)
        BY <4>2, <3>2 DEF OneOwner, WorkerPhase, IsTerminal, Terminal, Callers
      <4> QED
        BY <3>1, <4>1, <4>2 DEF Pursued, Waiting
    <3>4. running \notin registered
      BY <2>2, <2>6, <3>2, <3>3 DEF OneLiveJobPerKey, IsTerminal, Terminal
    <3>5. LetGoOf(running)
      BY <2>1, <2>6, <3>2, <3>4 DEF NoneIsSweptAlive, IsTerminal, Terminal
    <3> QED
      BY <2>1, <2>2, <2>6, <3>1, <3>2, <3>5, LetGoStays DEF StoreShape
  <2>7. Publish /\ key[j] # key[running] => index'[key[j]] = index[key[j]]
    BY <2>1 DEF Publish, StoreShape
  <2>8. (\E k \in Keys : Evict(k)) => index'[key[j]] \in {None, index[key[j]]}
    BY <2>1 DEF Evict, StoreShape
  <2> QED
    BY <2>4, <2>5, <2>6, <2>7, <2>8, WhoMovesTheCache DEF cache
<1> QED
  BY <1>1, <1>2, WhoIsPursued

-----------------------------------------------------------------------------
(* Handles follow their stems *)

HandlesAreKept ==
  \A j \in registered : entry[j] # None =>
    entry[j] \in {index[key[j]]} \cup evicted \/ MadeTwice(key[j])

DecksFindTheirs ==
  \A c \in Clients : at[c] = "polling" /\ held[c] \notin registered =>
    (IsTerminal(held[c]) /\ Stale(held[c])) \/ LetGoOf(held[c])

LEMMA MadeTwiceStays ==
  ASSUME StoreShape, TypeOK, OnePlace, WorkerPhase, OneOwner, [ServerNext]_allVars,
         NEW k \in Keys, MadeTwice(k)
  PROVE  MadeTwice(k)'
<1> USE ServerAssumption, QueueAssumption
<1>1. ASSUME NEW d \in Drops, held[d] # None, key[held[d]] = k PROVE MadeTwice(k)'
  <2>1. held[d] \in Jobs /\ held'[d] = held[d]
    BY <1>1, HeldIsKept DEF StoreShape, Callers
  <2>2. key'[held[d]] = k
    BY <1>1, <2>1, HiddenStaysHidden
  <2> QED
    BY <1>1, <2>1, <2>2 DEF MadeTwice
<1>2. ASSUME NEW j \in Jobs, key[j] = k, LetGoOf(j), Separated(j) PROVE MadeTwice(k)'
  <2>1. key'[j] = k
    BY <1>2, HiddenStaysHidden
  <2> QED
    BY <1>2, <2>1, LetGoStays, ServerStepsAreQueueSteps, WhoMovesTheStage DEF MadeTwice
<1> QED
  BY <1>1, <1>2 DEF MadeTwice

LEMMA WhoAttaches ==
  ASSUME [ServerNext]_allVars
  PROVE  entry' = entry \/ Attach \/ \E c \in Clients : PostHit(c)
<1>1. CASE Separate /\ ~Attach
  BY <1>1, Zenon DEF Separate, Untouched, serverVars, Publish, Finish
<1>2. ASSUME NEW c \in Clients, Post(c), ~PostHit(c) PROVE entry' = entry
  <2>1. CASE PostMiss(c) \/ PostDone(c) \/ PostFails(c) \/ PostEnqueue(c)
    BY <2>1, Zenon DEF PostMiss, PostDone, PostFails, PostEnqueue
  <2>2. CASE PostClaim(c) \/ PostJoin(c)
    BY <2>2, Zenon DEF PostClaim, PostJoin, ClaimFresh, ClaimJoins
  <2> QED
    BY <1>2, <2>1, <2>2 DEF Post
<1>3. ASSUME NEW c \in Clients, Poll(c) \/ HangUp(c) \/ Release(c) PROVE entry' = entry
  BY <1>3, Zenon DEF Poll, HangUp, Release
<1>4. ASSUME NEW c \in Leavers, Delete(c) PROVE entry' = entry
  BY <1>4, Zenon DEF Delete, DeleteWaiting, DeleteMissed, DeleteRunning, DeleteRemove
<1>5. ASSUME NEW d \in Drops, Drop(d) PROVE entry' = entry
  <2>1. CASE DropLook(d) \/ DropJoinAgain(d) \/ DropEnqueue(d) \/ DropEnds(d)
    BY <2>1, Zenon DEF DropLook, DropJoinAgain, DropEnqueue, DropEnds
  <2>2. CASE DropClaim(d) \/ DropJoin(d)
    BY <2>2, Zenon DEF DropClaim, DropJoin, ClaimFresh, ClaimJoins
  <2> QED
    BY <1>5, <2>1, <2>2 DEF Drop
<1>6. ASSUME \/ \E k \in Keys : Evict(k)
             \/ \E j \in Jobs : GrowsOld(j)
             \/ Prune \/ UNCHANGED allVars
      PROVE  entry' = entry
  BY <1>6, Zenon DEF Evict, GrowsOld, Prune, allVars, serverVars
<1> QED
  BY <1>1, <1>2, <1>3, <1>4, <1>5, <1>6, ServerAssumption, Zenon DEF ServerNext

\* A tombstone is for good, and stems leave the index with one or for others.
LEMMA WhatLeavesTheCache ==
  ASSUME StoreShape, TypeOK, WorkerPhase, [ServerNext]_allVars, NEW k \in Keys
  PROVE  /\ evicted \subseteq evicted'
         /\ \/ index[k] \in {index'[k]} \cup evicted'
            \/ Publish /\ key[running] = k
  BY WhoMovesTheCache DEF Evict, Tombstone, Publish, cache, StoreShape

LEMMA HandlesStep ==
  ASSUME StoreShape, TypeOK, OnePlace, WorkerPhase, OneLiveJobPerKey, OneOwner,
         NoneIsSweptAlive, StemsAreMade, PursuedOnce, HandlesAreKept, [ServerNext]_allVars
  PROVE  HandlesAreKept'
<1> USE QueueAssumption, ServerAssumption
<1> SUFFICES ASSUME NEW j \in Jobs, j \in registered', entry'[j] # None
             PROVE  /\ \/ entry'[j] \in {index'[key'[j]]} \cup evicted'
                       \/ MadeTwice(key[j])'
                    /\ key'[j] = key[j]
  <2>1. StoreShape'
    BY StoreShapeStep
  <2> QED
    BY <2>1 DEF HandlesAreKept, StoreShape, MadeTwice
<1>1. CASE Attach /\ j = running
  BY <1>1 DEF Attach, StemsAreMade, StoreShape, TypeOK, Stays, vars, store, cache
<1>2. ASSUME NEW c \in Clients, PostHit(c), j = held[c]
      PROVE  entry'[j] = index'[key'[j]] /\ key'[j] = key[j]
  BY <1>2 DEF PostHit, StoreShape, Callers, Owning, store, cache
<1>3. CASE entry'[j] = entry[j]
  <2>1. key[j] \in Keys /\ key[j] # None
    BY <1>3 DEF StoreShape
  <2>2. key'[j] = key[j] /\ j \in registered
    BY <2>1, HiddenStaysHidden
  <2>3. CASE MadeTwice(key[j])
    BY <2>1, <2>2, <2>3, MadeTwiceStays
  <2>4. CASE entry[j] \in evicted
    BY <1>3, <2>1, <2>2, <2>4, WhatLeavesTheCache
  <2>5. CASE entry[j] = index[key[j]]
    <3>1. CASE index[key[j]] \in {index'[key[j]]} \cup evicted'
      BY <1>3, <2>2, <2>5, <3>1
    <3>2. CASE Publish /\ key[running] = key[j]
      <4>1. /\ wpc = "publish" /\ wpc' = "complete" /\ running' = running /\ key' = key
            /\ held' = held /\ running \in Jobs /\ stage[running] = "writing"
        BY <3>2 DEF Publish, Published, requests, store, WorkerPhase, TypeOK
      <4>2. ASSUME NEW d \in Drops, held[d] = running PROVE MadeTwice(key[j])'
        BY <2>1, <3>2, <4>1, <4>2 DEF MadeTwice
      <4>3. CASE running \notin registered
        <5>1. LetGoOf(running)
          BY <2>1, <3>2, <4>1, <4>3 DEF NoneIsSweptAlive, IsTerminal, Terminal
        <5>2. LetGoOf(running)' /\ Separated(running)'
          BY <4>1, <5>1, LetGoStays DEF Separated
        <5> QED
          BY <3>2, <4>1, <5>2 DEF MadeTwice
      <4>4. CASE running \in registered /\ \A d \in Drops : held[d] # running
        <5>1. PICK s \in Jobs : s = index[key[j]]
          BY <1>3, <2>1, <2>5 DEF StoreShape
        <5>2. LetGoOf(s) /\ Separated(s) /\ key[s] = key[j]
          BY <2>1, <3>2, <4>1, <4>4, <5>1 DEF PursuedOnce, Pursued, StemsAreMade, StoreShape
        <5> QED
          BY <2>1, <2>2, <5>2, MadeTwiceStays DEF MadeTwice
      <4> QED
        BY <2>2, <4>2, <4>3, <4>4
    <3> QED
      BY <2>1, <3>1, <3>2, WhatLeavesTheCache
  <2> QED
    BY <1>3, <2>2, <2>3, <2>4, <2>5 DEF HandlesAreKept
<1>4. /\ Attach /\ j # running => entry'[j] = entry[j]
      /\ \A c \in Clients : PostHit(c) /\ j # held[c] => entry'[j] = entry[j]
  BY DEF Attach, PostHit, StoreShape
<1> QED
  BY <1>1, <1>2, <1>3, <1>4, WhoAttaches

LEMMA WhoPolls ==
  ASSUME StoreShape, [ServerNext]_allVars, NEW c \in Clients, at'[c] = "polling"
  PROVE  \/ at[c] = "polling" \/ PostJoin(c)
         \/ at[c] = "decoding" /\ UNCHANGED <<key, registered, held>>
<1> USE DEF StoreShape, store, cache, requests, serverVars, Moves, Callers
<1>1. CASE Separate
  BY <1>1, Zenon DEF Separate, Untouched, Publish, Attach, Finish
<1>2. ASSUME NEW d \in Clients, Post(d), d # c PROVE at'[c] = at[c]
  <2>1. CASE PostClaim(d) \/ PostJoin(d)
    BY <1>2, <2>1 DEF PostClaim, PostJoin, ClaimFresh, ClaimJoins
  <2>2. CASE PostHit(d) \/ PostDone(d) \/ PostMiss(d)
    BY <1>2, <2>2 DEF PostHit, PostDone, PostMiss
  <2>3. CASE PostFails(d) \/ PostEnqueue(d)
    BY <1>2, <2>3 DEF PostFails, PostEnqueue
  <2> QED
    BY <1>2, <2>1, <2>2, <2>3 DEF Post
<1>3. ASSUME Post(c), ~PostJoin(c)
      PROVE  at[c] = "decoding" /\ UNCHANGED <<key, registered, held>>
  <2>1. ~PostClaim(c)
    BY DEF PostClaim, ClaimFresh
  <2>2. ~(PostHit(c) \/ PostDone(c) \/ PostMiss(c) \/ PostFails(c))
    BY DEF PostHit, PostDone, PostMiss, PostFails
  <2>3. PostEnqueue(c) => at[c] = "decoding" /\ UNCHANGED <<key, registered, held>>
    BY DEF PostEnqueue
  <2> QED
    BY <1>3, <2>1, <2>2, <2>3 DEF Post
<1>4. ASSUME NEW d \in Clients, Poll(d) \/ HangUp(d) \/ Release(d) PROVE at'[c] = at[c]
  BY <1>4 DEF Poll, HangUp, Release
<1>5. ASSUME NEW d \in Leavers, Delete(d) PROVE at'[c] = at[c]
  BY <1>5, ServerAssumption DEF Delete, DeleteWaiting, DeleteMissed, DeleteRunning, DeleteRemove
<1>6. ASSUME NEW d \in Drops, Drop(d) PROVE at'[c] = at[c]
  <2>1. CASE DropLook(d) \/ DropJoinAgain(d) \/ DropEnqueue(d) \/ DropEnds(d)
    BY <2>1, ServerAssumption DEF DropLook, DropJoinAgain, DropEnqueue, DropEnds
  <2>2. CASE DropClaim(d) \/ DropJoin(d)
    BY <2>2, ServerAssumption DEF DropClaim, DropJoin, ClaimFresh, ClaimJoins
  <2> QED
    BY <1>6, <2>1, <2>2 DEF Drop
<1>7. ASSUME \/ \E k \in Keys : Evict(k)
             \/ \E j \in Jobs : GrowsOld(j)
             \/ Prune \/ UNCHANGED allVars
      PROVE  at'[c] = at[c]
  BY <1>7 DEF Evict, GrowsOld, Prune, allVars
<1> QED
  BY <1>1, <1>2, <1>3, <1>4, <1>5, <1>6, <1>7, ServerAssumption DEF ServerNext

LEMMA WhoAges ==
  ASSUME [ServerNext]_allVars
  PROVE  aged' = aged \/ \E j \in Jobs : GrowsOld(j)
<1>1. CASE Separate
  BY <1>1, Zenon DEF Separate, Untouched, serverVars, Publish, Attach, Finish
<1>2. ASSUME NEW c \in Clients, Post(c) PROVE aged' = aged
  <2>1. CASE PostHit(c) \/ PostMiss(c) \/ PostDone(c) \/ PostFails(c) \/ PostEnqueue(c)
    BY <2>1, Zenon DEF PostHit, PostMiss, PostDone, PostFails, PostEnqueue
  <2>2. CASE PostClaim(c) \/ PostJoin(c)
    BY <2>2, Zenon DEF PostClaim, PostJoin, ClaimFresh, ClaimJoins
  <2> QED
    BY <1>2, <2>1, <2>2 DEF Post
<1>3. ASSUME NEW c \in Clients, Poll(c) \/ HangUp(c) \/ Release(c) PROVE aged' = aged
  BY <1>3, Zenon DEF Poll, HangUp, Release
<1>4. ASSUME NEW c \in Leavers, Delete(c) PROVE aged' = aged
  BY <1>4, Zenon DEF Delete, DeleteWaiting, DeleteMissed, DeleteRunning, DeleteRemove
<1>5. ASSUME NEW d \in Drops, Drop(d) PROVE aged' = aged
  <2>1. CASE DropLook(d) \/ DropJoinAgain(d) \/ DropEnqueue(d) \/ DropEnds(d)
    BY <2>1, Zenon DEF DropLook, DropJoinAgain, DropEnqueue, DropEnds
  <2>2. CASE DropClaim(d) \/ DropJoin(d)
    BY <2>2, Zenon DEF DropClaim, DropJoin, ClaimFresh, ClaimJoins
  <2> QED
    BY <1>5, <2>1, <2>2 DEF Drop
<1>6. ASSUME (\E k \in Keys : Evict(k)) \/ Prune \/ UNCHANGED allVars
      PROVE  aged' = aged
  BY <1>6, Zenon DEF Evict, Prune, allVars, serverVars
<1> QED
  BY <1>1, <1>2, <1>3, <1>4, <1>5, <1>6, ServerAssumption, Zenon DEF ServerNext

\* A job that has failed and is old, or whose stems are gone, stays so.
LEMMA StaleStays ==
  ASSUME StoreShape, TypeOK, OnePlace, WorkerPhase, OneOwner, [ServerNext]_allVars,
         NEW j \in Jobs, key[j] # None, IsTerminal(j), Stale(j)
  PROVE  IsTerminal(j)' /\ Stale(j)'
<1>1. IsTerminal(j)' /\ stage'[j] = stage[j]
  BY ServerStepsAreQueueSteps, WhoMovesTheStage DEF IsTerminal
<1>2. entry'[j] = entry[j]
  <2>1. CASE Attach
    BY <2>1 DEF Attach, WorkerPhase, IsTerminal, Terminal, StoreShape
  <2>2. ASSUME NEW c \in Clients, PostHit(c) PROVE entry'[j] = entry[j]
    BY <2>2 DEF PostHit, OneOwner, WorkerPhase, IsTerminal, Terminal, StoreShape, Callers
  <2> QED
    BY <2>1, <2>2, WhoAttaches
<1>3. evicted \subseteq evicted'
  BY WhatLeavesTheCache DEF StoreShape
<1>4. aged \subseteq aged'
  BY WhoAges DEF GrowsOld
<1> QED
  BY <1>1, <1>2, <1>3, <1>4 DEF Stale, IsTerminal

LEMMA DecksStep ==
  ASSUME StoreShape, TypeOK, OnePlace, WorkerPhase, OneOwner, NoneIsSweptAlive,
         DecksFindTheirs, [ServerNext]_allVars
  PROVE  DecksFindTheirs'
<1> USE QueueAssumption, ServerAssumption
<1> SUFFICES ASSUME NEW c \in Clients, NEW j \in Jobs, at'[c] = "polling", held'[c] = j,
                    j \notin registered'
             PROVE  (IsTerminal(j)' /\ Stale(j)') \/ LetGoOf(j)'
  <2>1. StoreShape'
    BY StoreShapeStep
  <2>2. \A c \in Clients : at'[c] = "polling" => held'[c] \in Jobs
    BY <2>1 DEF StoreShape, Callers
  <2> QED
    BY <2>2 DEF DecksFindTheirs, LetGoOf, Stale, IsTerminal
<1>1. CASE at[c] = "polling"
  <2>1. held[c] = j /\ key[j] # None
    BY <1>1, HeldIsKept DEF StoreShape, Callers
  <2>2. CASE j \notin registered
    BY <1>1, <2>1, <2>2, LetGoStays, StaleStays DEF DecksFindTheirs
  <2>3. CASE j \in registered
    <3>1. ASSUME NEW b \in Leavers, DeleteRemove(b) PROVE LetGoOf(j)'
      <4>1. held[b] = j /\ UNCHANGED <<held, key>> /\ at' = [at EXCEPT ![b] = "left"]
        BY <2>3, <3>1 DEF DeleteRemove, Moves
      <4> QED
        BY <2>1, <4>1 DEF LetGoOf, StoreShape, Callers
    <3>2. CASE Prune
      <4>1. IsTerminal(j) /\ Stale(j)
        BY <2>3, <3>2 DEF Prune, Stale
      <4> QED
        BY <2>1, <4>1, StaleStays
    <3>3. ASSUME NEW b \in Callers, Claims(b) \/ Joins(b) PROVE FALSE
      BY <2>3, <3>3 DEF Claims, Joins, ClaimFresh, ClaimJoins
    <3> QED
      BY <2>3, <3>1, <3>2, <3>3, WhoMovesTheStore DEF StoreStays
  <2> QED
    BY <2>2, <2>3
<1>2. CASE at[c] = "decoding" /\ UNCHANGED <<key, registered, held>>
  <2>1. key[j] # None /\ j \notin registered /\ stage[j] = "queued"
    BY <1>2 DEF StoreShape, OneOwner, WorkerPhase, Callers, Owning
  <2> QED
    BY <2>1, LetGoStays DEF NoneIsSweptAlive, IsTerminal, Terminal
<1>3. ~PostJoin(c)
  BY DEF PostJoin, ClaimJoins, InFlight, StoreShape, Callers
<1> QED
  BY <1>1, <1>2, <1>3, WhoPolls

-----------------------------------------------------------------------------
(* The theorems *)

ServerInv == Inv /\ StoreShape /\ OneLiveJobPerKey /\ DoneHasStems

LEMMA ServerInvariance == ServerSpec => []ServerInv
<1>1. ServerInit => ServerInv
  BY InvInit, StoreShapeInit
     DEF ServerInit, ServerInv, Init, OneLiveJobPerKey, DoneHasStems
<1>2. ServerInv /\ [ServerNext]_allVars => ServerInv'
  BY ServerStepsAreQueueSteps, InvStep, StoreShapeStep, OneLiveStep, DoneStep
     DEF ServerInv, Inv
<1> QED
  BY <1>1, <1>2, PTL DEF ServerSpec

\* Whatever the decks and the drops do, the queue's specification is kept, so
\* every theorem of QueueProofs holds of the server.
THEOREM ServerImplementsQueue == ServerSpec => Spec
<1>1. ServerInit => Init
  BY DEF ServerInit
<1>2. ServerInv /\ [ServerNext]_allVars => [Next]_vars
  BY ServerStepsAreQueueSteps DEF ServerInv
<1> QED
  BY <1>1, <1>2, ServerInvariance, PTL DEF ServerSpec, Spec

\* Simultaneous requests for one track collapse onto one live job (claim, remove).
THEOREM OneSeparationPerTrack == ServerSpec => []OneLiveJobPerKey
<1>1. ServerInv => OneLiveJobPerKey
  BY DEF ServerInv
<1> QED
  BY <1>1, ServerInvariance, PTL

\* A client that reads done finds stems of the track it asked for (complete).
THEOREM DoneIsNeverEmpty == ServerSpec => []DoneHasStems
<1>1. ServerInv => DoneHasStems
  BY DEF ServerInv
<1> QED
  BY <1>1, ServerInvariance, PTL

HandlesInv ==
  /\ OneOwner /\ NoneIsSweptAlive /\ StemsAreMade
  /\ PursuedOnce /\ HandlesAreKept /\ DecksFindTheirs

LEMMA HandlesInvariance == ServerSpec => []HandlesInv
<1>1. ServerInit => HandlesInv
  BY DEF ServerInit, Init, HandlesInv, OneOwner, NoneIsSweptAlive, StemsAreMade, PursuedOnce,
         HandlesAreKept, DecksFindTheirs, Owning, Callers
<1>2. ServerInv /\ HandlesInv /\ [ServerNext]_allVars => HandlesInv'
  BY OwnerStep, SweptStep, StemsStep, PursuedStep, HandlesStep, DecksStep
     DEF ServerInv, Inv, HandlesInv
<1> QED
  BY <1>1, <1>2, ServerInvariance, PTL DEF ServerSpec

\* No deck's track is in line, or on the worker, beside its own stems, whoever
\* leaves, retries or hangs up meanwhile (create_job, worker_loop).
THEOREM NoTrackIsSeparatedTwice == ServerSpec => []NothingSeparatedTwice
<1>1. HandlesInv => NothingSeparatedTwice
  BY DEF HandlesInv, PursuedOnce, Pursued, NothingSeparatedTwice
<1> QED
  BY <1>1, HandlesInvariance, PTL

\* A handle with stems has them in the index or is about to be swept, except of a
\* track made twice, and a deck that has not let go finds its job (prune, remove).
THEOREM HandlesLiveWithTheirStems == ServerSpec => []HandlesFollowStems
<1>1. ServerInv /\ HandlesInv => HandlesFollowStems
  BY DEF ServerInv, HandlesInv, HandlesAreKept, DecksFindTheirs, HandlesFollowStems
<1> QED
  BY <1>1, ServerInvariance, HandlesInvariance, PTL

\* Where nothing is dropped on the window and no connection closes early, a live
\* job always has somebody to end it (create_job, delete_job, the worker).
THEOREM NoJobIsStranded ==
  ASSUME Drops = {}, Hangers = {}
  PROVE  ServerSpec => []LiveJobsAreOwned
<1>1. ServerInit => LiveJobsAreOwned
  BY DEF ServerInit, LiveJobsAreOwned
<1>2. ServerInv /\ LiveJobsAreOwned /\ [ServerNext]_allVars => LiveJobsAreOwned'
  BY OwnedStep DEF ServerInv, Inv
<1> QED
  BY <1>1, <1>2, ServerInvariance, PTL DEF ServerSpec

\* Where nothing is dropped on the window and no DELETE is sent twice (each of the
\* two counts a caller wrongly), waiters is the number of callers that have joined
\* and not let go, so a DELETE cancels only for the last of them (join, release).
THEOREM LastOneCancels ==
  ASSUME Drops = {}, Retriers = {}
  PROVE  ServerSpec => []WaitersAreCounted
<1>1. ServerInit => WaitersAreCounted /\ IdleHoldsNothing
  BY DEF ServerInit, WaitersAreCounted, IdleHoldsNothing
<1>2. /\ ServerInv /\ WaitersAreCounted /\ IdleHoldsNothing /\ [ServerNext]_allVars
      => (WaitersAreCounted /\ IdleHoldsNothing)'
  BY CountStep DEF ServerInv
<1> QED
  BY <1>1, <1>2, ServerInvariance, PTL DEF ServerSpec
=============================================================================
