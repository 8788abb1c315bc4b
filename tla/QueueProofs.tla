---------------------------- MODULE QueueProofs ----------------------------
(***************************************************************************)
(* Theorems about the queue, for any set of jobs and callers, any depth    *)
(* and any number of chunks.                                               *)
(***************************************************************************)
EXTENDS QueueProperties, SequenceTheorems, TLAPS

LEMMA RemoveAtProperties ==
  ASSUME NEW S, NEW s \in Seq(S), NEW k \in DOMAIN s
  PROVE  /\ RemoveAt(s, k) \in Seq(S)
         /\ Len(RemoveAt(s, k)) = Len(s) - 1
         /\ \A m \in 1 .. Len(s) - 1 :
              RemoveAt(s, k)[m] = IF m < k THEN s[m] ELSE s[m + 1]
<1> DEFINE a == SubSeq(s, 1, k - 1)
           b == SubSeq(s, k + 1, Len(s))
<1>1. /\ Len(s) \in Nat /\ k \in 1 .. Len(s)
      /\ \A m \in 1 .. Len(s) : s[m] \in S
  BY LenProperties, ElementOfSeq
<1>2. /\ a \in Seq(S) /\ Len(a) = k - 1
      /\ \A m \in 1 .. k - 1 : a[m] = s[m]
  BY <1>1, SubSeqProperties, SMTT(30)
<1>3. /\ b \in Seq(S) /\ Len(b) = Len(s) - k
      /\ \A m \in 1 .. Len(s) - k : b[m] = s[k + m]
  BY <1>1, SubSeqProperties, SMTT(30)
<1>4. /\ a \o b \in Seq(S)
      /\ Len(a \o b) = Len(a) + Len(b)
      /\ \A m \in 1 .. Len(a) + Len(b) :
           (a \o b)[m] = IF m <= Len(a) THEN a[m] ELSE b[m - Len(a)]
  BY <1>2, <1>3, ConcatProperties
<1> HIDE DEF a, b
<1>5. RemoveAt(s, k) = a \o b
  BY DEF RemoveAt, a, b
<1>6. Len(a \o b) = Len(s) - 1
  BY <1>1, <1>2, <1>3, <1>4
<1>7. ASSUME NEW m \in 1 .. Len(s) - 1
      PROVE  (a \o b)[m] = IF m < k THEN s[m] ELSE s[m + 1]
  <2>0. m \in 1 .. Len(a) + Len(b)
    BY <1>1, <1>2, <1>3
  <2>1. (a \o b)[m] = IF m <= k - 1 THEN a[m] ELSE b[m - (k - 1)]
    <3>1. (a \o b)[m] = IF m <= Len(a) THEN a[m] ELSE b[m - Len(a)]
      BY <2>0, <1>4
    <3> QED
      BY <3>1, <1>2
  <2>2. CASE m < k
    BY <2>1, <2>2, <1>1, <1>2
  <2>3. CASE ~(m < k)
    <3>1. /\ m - (k - 1) \in 1 .. Len(s) - k
          /\ k + (m - (k - 1)) = m + 1
      BY <2>3, <1>1
    <3>2. b[m - (k - 1)] = s[m + 1]
      BY <3>1, <1>3
    <3> QED
      BY <2>1, <2>3, <3>2, <1>1
  <2> QED
    BY <2>2, <2>3
<1> QED
  BY <1>4, <1>5, <1>6, <1>7

-----------------------------------------------------------------------------
(* Type correctness *)

LEMMA InitTypeOK == Init => TypeOK
<1> SUFFICES ASSUME Init PROVE TypeOK
  OBVIOUS
<1>1. <<>> \in Seq(Jobs) /\ 0 \in 0 .. Segments
  BY QueueAssumption, EmptySeq
<1> QED
  BY <1>1 DEF Init, TypeOK, Stages, Models, WorkerStates, StopStates, Replies

LEMMA LookTypeOK == TypeOK /\ Look => TypeOK'
<1> SUFFICES ASSUME TypeOK, Look PROVE TypeOK'
  OBVIOUS
<1> USE DEF TypeOK, WorkerStates, job, models, callers, stops, history
<1>1. CASE WorkerQuit
  BY <1>1 DEF WorkerQuit
<1>2. CASE WorkerTakeModel
  BY <1>2 DEF WorkerTakeModel, MayBegin
<1>3. CASE WorkerTakeJob
  <2>1. Head(pending) \in Jobs /\ Tail(pending) \in Seq(Jobs)
    BY <1>3, HeadTailProperties DEF WorkerTakeJob, MayBegin, FreshFlag
  <2>2. Segments \in 0 .. Segments
    BY QueueAssumption
  <2> QED
    BY <1>3, <2>1, <2>2 DEF WorkerTakeJob, MayBegin, FreshFlag
<1>4. CASE WorkerIdle
  BY <1>4 DEF WorkerIdle, MayBegin
<1>5. CASE WorkerPark
  BY <1>5 DEF WorkerPark
<1> QED
  BY <1>1, <1>2, <1>3, <1>4, <1>5 DEF Look

LEMMA BuildTypeOK == TypeOK /\ WorkerPhase /\ Build => TypeOK'
<1> SUFFICES ASSUME TypeOK, WorkerPhase, Build PROVE TypeOK'
  OBVIOUS
<1>1. building \in Installers
  BY DEF TypeOK, WorkerPhase, Build, BuildPublish, BuildReply, BuildFails
<1> USE DEF TypeOK, WorkerStates, Models, Replies, job, models, callers, stops, history
<1>2. CASE BuildPublish
  BY <1>1, <1>2 DEF BuildPublish
<1>3. CASE BuildReply
  BY <1>1, <1>3 DEF BuildReply
<1>4. CASE BuildFails
  BY <1>1, <1>4 DEF BuildFails
<1> QED
  BY <1>2, <1>3, <1>4 DEF Build

LEMMA RunJobTypeOK == TypeOK /\ RunJob => TypeOK'
<1> SUFFICES ASSUME TypeOK, RunJob PROVE TypeOK'
  OBVIOUS
<1> USE DEF TypeOK, WorkerStates, Stages, JobStepFrame, job, models, callers, stops, history
<1>1. CASE Chunk
  <2>1. remaining - 1 \in 0 .. Segments
    BY <1>1, QueueAssumption DEF Chunk, MoreChunks, CallsOff
  <2> QED
    BY <1>1, <2>1 DEF Chunk, MoreChunks, CallsOff
<1>2. CASE ChunkCancelled
  BY <1>2 DEF ChunkCancelled, MoreChunks, CallsOff
<1>3. CASE SeparateFails
  BY <1>3 DEF SeparateFails, FailJob
<1>4. CASE SeparateDone
  BY <1>4 DEF SeparateDone
<1>5. CASE Published
  BY <1>5 DEF Published
<1>6. CASE PublishFails
  BY <1>6 DEF PublishFails, FailJob
<1>7. CASE Complete
  BY <1>7 DEF Complete
<1>8. CASE Clear
  BY <1>8 DEF Clear
<1> QED
  BY <1>1, <1>2, <1>3, <1>4, <1>5, <1>6, <1>7, <1>8 DEF RunJob

LEMMA OwnerTypeOK == ASSUME NEW j \in Jobs, TypeOK, Owner(j) PROVE TypeOK'
<1> USE DEF TypeOK, WorkerStates, Stages, Woken, job, models, callers, stops, history
<1>1. CASE SubmitAccepted(j)
  <2>1. Append(pending, j) \in Seq(Jobs)
    BY AppendProperties
  <2> QED
    BY <1>1, <2>1 DEF SubmitAccepted, HasRoom, Joined
<1>2. CASE SubmitRefused(j)
  BY <1>2 DEF SubmitRefused, HasRoom
<1>3. CASE OwnerEnds(j, "done") \/ OwnerEnds(j, "failed")
  BY <1>3 DEF OwnerEnds
<1> QED
  BY <1>1, <1>2, <1>3 DEF Owner, Submit

LEMMA CancelTypeOK == ASSUME NEW j \in Jobs, TypeOK, Cancel(j) PROVE TypeOK'
<1> USE DEF TypeOK, job, models, callers, stops, history
<1>1. CASE CancelWaiting(j)
  <2>1. PICK k \in DOMAIN pending : pending' = RemoveAt(pending, k)
    BY <1>1 DEF CancelWaiting
  <2>2. pending' \in Seq(Jobs)
    BY <2>1, RemoveAtProperties
  <2> QED
    BY <1>1, <2>2 DEF CancelWaiting
<1>2. CASE CancelMissed(j)
  BY <1>2 DEF CancelMissed
<1>3. CASE CancelRunning(j)
  BY <1>3 DEF CancelRunning, InHand
<1> QED
  BY <1>1, <1>2, <1>3 DEF Cancel

LEMMA InstallTypeOK == ASSUME NEW i \in Installers, TypeOK, Install(i) PROVE TypeOK'
<1> USE DEF TypeOK, Replies, job, models, callers, stops, history
<1>1. CASE InstallRefused(i)
  BY <1>1 DEF InstallRefused
<1>2. CASE InstallStage(i)
  BY <1>2 DEF InstallStage
<1>3. CASE InstallNotify(i)
  BY <1>3 DEF InstallNotify, Superseding, Woken, WorkerStates
<1>4. CASE InstallReturn(i)
  BY <1>4 DEF InstallReturn
<1> QED
  BY <1>1, <1>2, <1>3, <1>4 DEF Install

LEMMA StopTypeOK == ASSUME NEW s \in Stoppers, TypeOK, Stop(s) PROVE TypeOK'
<1> USE DEF TypeOK, StopStates, Replies, StopFrame, job, models, callers, stops, history
<1>1. CASE StopFlag(s)
  BY <1>1 DEF StopFlag
<1>2. CASE StopDrain(s)
  BY <1>2 DEF StopDrain
<1>3. CASE StopCancel(s)
  BY <1>3 DEF StopCancel
<1>4. CASE StopNotify(s)
  BY <1>4 DEF StopNotify, Woken, WorkerStates
<1>5. CASE StopTake(s)
  BY <1>5 DEF StopTake
<1>6. CASE StopTaken(s)
  BY <1>6 DEF StopTaken
<1>7. CASE StopReturn(s)
  BY <1>7 DEF StopReturn, Verdict
<1> QED
  BY <1>1, <1>2, <1>3, <1>4, <1>5, <1>6, <1>7 DEF Stop

LEMMA StutterTypeOK == TypeOK /\ UNCHANGED vars => TypeOK'
  BY DEF TypeOK, vars, job, models, callers, stops, history

-----------------------------------------------------------------------------
(* The invariants, one lemma each: what a step preserves, given the others *)

LEMMA WorkerPhaseStep ==
  ASSUME TypeOK, OnePlace, WorkerPhase, [Next]_vars
  PROVE  WorkerPhase'
<1> USE DEF TypeOK, WorkerPhase, IsTerminal, Terminal, job, models, callers, stops, history
<1>1. CASE Look
  <2>1. CASE WorkerQuit
    BY QueueAssumption, <2>1 DEF WorkerQuit
  <2>2. CASE WorkerTakeModel
    BY QueueAssumption, <2>2 DEF WorkerTakeModel, MayBegin
  <2>3. CASE WorkerTakeJob
    <3>1. Head(pending) = pending[1] /\ 1 \in DOMAIN pending
      BY <2>3 DEF WorkerTakeJob, MayBegin, FreshFlag
    <3>2. /\ Head(pending) \in Jobs \cap offered
          /\ stage[Head(pending)] = "queued"
      BY <3>1 DEF OnePlace
    <3> QED
      BY <2>3, <3>2, QueueAssumption DEF WorkerTakeJob, MayBegin, FreshFlag
  <2>4. CASE WorkerIdle
    BY QueueAssumption, <2>4 DEF WorkerIdle, MayBegin
  <2>5. CASE WorkerPark
    BY QueueAssumption, <2>5 DEF WorkerPark
  <2> QED
    BY <1>1, <2>1, <2>2, <2>3, <2>4, <2>5 DEF Look
<1>2. CASE Build
  <2>1. CASE BuildPublish
    BY QueueAssumption, <2>1 DEF BuildPublish
  <2>2. CASE BuildReply
    BY QueueAssumption, <2>2 DEF BuildReply
  <2>3. CASE BuildFails
    BY QueueAssumption, <2>3 DEF BuildFails
  <2> QED
    BY <1>2, <2>1, <2>2, <2>3 DEF Build
<1>3. CASE RunJob
  <2>1. CASE Chunk
    BY QueueAssumption, <2>1 DEF Chunk, MoreChunks, CallsOff, JobStepFrame
  <2>2. CASE ChunkCancelled
    BY QueueAssumption, <2>2 DEF ChunkCancelled, MoreChunks, CallsOff, JobStepFrame
  <2>3. CASE SeparateFails
    BY QueueAssumption, <2>3 DEF SeparateFails, FailJob, JobStepFrame
  <2>4. CASE SeparateDone
    BY QueueAssumption, <2>4 DEF SeparateDone, JobStepFrame
  <2>5. CASE Published
    BY QueueAssumption, <2>5 DEF Published, JobStepFrame
  <2>6. CASE PublishFails
    BY QueueAssumption, <2>6 DEF PublishFails, FailJob, JobStepFrame
  <2>7. CASE Complete
    BY QueueAssumption, <2>7 DEF Complete, JobStepFrame
  <2>8. CASE Clear
    BY QueueAssumption, <2>8 DEF Clear, JobStepFrame
  <2> QED
    BY <1>3, <2>1, <2>2, <2>3, <2>4, <2>5, <2>6, <2>7, <2>8 DEF RunJob
<1>4. ASSUME NEW j \in Jobs, Owner(j) PROVE WorkerPhase'
  <2>1. CASE SubmitAccepted(j)
    BY QueueAssumption, <2>1 DEF SubmitAccepted, HasRoom, Joined, Woken
  <2>2. CASE SubmitRefused(j)
    BY QueueAssumption, <2>2 DEF SubmitRefused, HasRoom
  <2>3. CASE OwnerEnds(j, "done") \/ OwnerEnds(j, "failed")
    BY QueueAssumption, <2>3 DEF OwnerEnds, Waiting
  <2> QED
    BY <1>4, <2>1, <2>2, <2>3 DEF Owner, Submit
<1>5. ASSUME NEW j \in Jobs, Cancel(j) PROVE WorkerPhase'
  <2>1. CASE CancelWaiting(j)
    BY QueueAssumption, <2>1 DEF CancelWaiting
  <2>2. CASE CancelMissed(j)
    BY QueueAssumption, <2>2 DEF CancelMissed
  <2>3. CASE CancelRunning(j)
    BY QueueAssumption, <2>3 DEF CancelRunning, InHand
  <2> QED
    BY <1>5, <2>1, <2>2, <2>3 DEF Cancel
<1>6. ASSUME NEW i \in Installers, Install(i) PROVE WorkerPhase'
  <2>1. CASE InstallRefused(i)
    BY QueueAssumption, <2>1 DEF InstallRefused
  <2>2. CASE InstallStage(i)
    BY QueueAssumption, <2>2 DEF InstallStage
  <2>3. CASE InstallNotify(i)
    BY QueueAssumption, <2>3 DEF InstallNotify, Superseding, Woken
  <2>4. CASE InstallReturn(i)
    BY QueueAssumption, <2>4 DEF InstallReturn
  <2> QED
    BY <1>6, <2>1, <2>2, <2>3, <2>4 DEF Install
<1>7. ASSUME NEW s \in Stoppers, Stop(s) PROVE WorkerPhase'
  <2>1. CASE StopFlag(s)
    BY QueueAssumption, <2>1 DEF StopFlag
  <2>2. CASE StopDrain(s)
    BY QueueAssumption, <2>2 DEF StopDrain
  <2>3. CASE StopCancel(s)
    BY QueueAssumption, <2>3 DEF StopCancel
  <2>4. CASE StopNotify(s)
    BY QueueAssumption, <2>4 DEF StopNotify, Woken
  <2>5. CASE StopTake(s)
    BY QueueAssumption, <2>5 DEF StopTake, StopFrame
  <2>6. CASE StopTaken(s)
    BY QueueAssumption, <2>6 DEF StopTaken, StopFrame
  <2>7. CASE StopReturn(s)
    BY QueueAssumption, <2>7 DEF StopReturn, Verdict, StopFrame
  <2> QED
    BY <1>7, <2>1, <2>2, <2>3, <2>4, <2>5, <2>6, <2>7 DEF Stop
<1>8. CASE UNCHANGED vars
  BY <1>8 DEF vars
<1> QED
  BY <1>1, <1>2, <1>3, <1>4, <1>5, <1>6, <1>7, <1>8 DEF Next, Worker

LEMMA FlagStep ==
  ASSUME TypeOK, WorkerPhase, StopPhase, FlagIsAskedFor, [Next]_vars
  PROVE  FlagIsAskedFor'
<1> USE DEF TypeOK, WorkerPhase, StopPhase, FlagIsAskedFor, job, models, callers, stops, history
<1>1. CASE Look
  <2>1. CASE WorkerQuit
    BY <2>1 DEF WorkerQuit
  <2>2. CASE WorkerTakeModel
    BY <2>2 DEF WorkerTakeModel, MayBegin
  <2>3. CASE WorkerTakeJob
    BY <2>3 DEF WorkerTakeJob, MayBegin, FreshFlag
  <2>4. CASE WorkerIdle
    BY <2>4 DEF WorkerIdle, MayBegin
  <2>5. CASE WorkerPark
    BY <2>5 DEF WorkerPark
  <2> QED
    BY <1>1, <2>1, <2>2, <2>3, <2>4, <2>5 DEF Look
<1>2. CASE Build
  <2>1. CASE BuildPublish
    BY <2>1 DEF BuildPublish
  <2>2. CASE BuildReply
    BY <2>2 DEF BuildReply
  <2>3. CASE BuildFails
    BY <2>3 DEF BuildFails
  <2> QED
    BY <1>2, <2>1, <2>2, <2>3 DEF Build
<1>3. CASE RunJob
  <2>1. CASE Chunk
    BY <2>1 DEF Chunk, MoreChunks, CallsOff, JobStepFrame
  <2>2. CASE ChunkCancelled
    BY <2>2 DEF ChunkCancelled, MoreChunks, CallsOff, JobStepFrame
  <2>3. CASE SeparateFails
    BY <2>3 DEF SeparateFails, FailJob, JobStepFrame
  <2>4. CASE SeparateDone
    BY <2>4 DEF SeparateDone, JobStepFrame
  <2>5. CASE Published
    BY <2>5 DEF Published, JobStepFrame
  <2>6. CASE PublishFails
    BY <2>6 DEF PublishFails, FailJob, JobStepFrame
  <2>7. CASE Complete
    BY <2>7 DEF Complete, JobStepFrame
  <2>8. CASE Clear
    BY <2>8 DEF Clear, JobStepFrame
  <2> QED
    BY <1>3, <2>1, <2>2, <2>3, <2>4, <2>5, <2>6, <2>7, <2>8 DEF RunJob
<1>4. ASSUME NEW j \in Jobs, Owner(j) PROVE FlagIsAskedFor'
  <2>1. CASE SubmitAccepted(j)
    BY <2>1 DEF SubmitAccepted, HasRoom, Joined, Woken
  <2>2. CASE SubmitRefused(j)
    BY <2>2 DEF SubmitRefused, HasRoom
  <2>3. CASE OwnerEnds(j, "done") \/ OwnerEnds(j, "failed")
    BY <2>3 DEF OwnerEnds, Waiting
  <2> QED
    BY <1>4, <2>1, <2>2, <2>3 DEF Owner, Submit
<1>5. ASSUME NEW j \in Jobs, Cancel(j) PROVE FlagIsAskedFor'
  <2>1. CASE CancelWaiting(j)
    BY <2>1 DEF CancelWaiting
  <2>2. CASE CancelMissed(j)
    BY <2>2 DEF CancelMissed
  <2>3. CASE CancelRunning(j)
    BY <2>3 DEF CancelRunning, InHand
  <2> QED
    BY <1>5, <2>1, <2>2, <2>3 DEF Cancel
<1>6. ASSUME NEW i \in Installers, Install(i) PROVE FlagIsAskedFor'
  <2>1. CASE InstallRefused(i)
    BY <2>1 DEF InstallRefused
  <2>2. CASE InstallStage(i)
    BY <2>2 DEF InstallStage
  <2>3. CASE InstallNotify(i)
    BY <2>3 DEF InstallNotify, Superseding, Woken
  <2>4. CASE InstallReturn(i)
    BY <2>4 DEF InstallReturn
  <2> QED
    BY <1>6, <2>1, <2>2, <2>3, <2>4 DEF Install
<1>7. ASSUME NEW s \in Stoppers, Stop(s) PROVE FlagIsAskedFor'
  <2>1. CASE StopFlag(s)
    BY <2>1 DEF StopFlag
  <2>2. CASE StopDrain(s)
    BY <2>2 DEF StopDrain
  <2>3. CASE StopCancel(s)
    BY <2>3 DEF StopCancel
  <2>4. CASE StopNotify(s)
    BY <2>4 DEF StopNotify, Woken
  <2>5. CASE StopTake(s)
    BY <2>5 DEF StopTake, StopFrame
  <2>6. CASE StopTaken(s)
    BY <2>6 DEF StopTaken, StopFrame
  <2>7. CASE StopReturn(s)
    BY <2>7 DEF StopReturn, Verdict, StopFrame
  <2> QED
    BY <1>7, <2>1, <2>2, <2>3, <2>4, <2>5, <2>6, <2>7 DEF Stop
<1>8. CASE UNCHANGED vars
  BY <1>8 DEF vars
<1> QED
  BY <1>1, <1>2, <1>3, <1>4, <1>5, <1>6, <1>7, <1>8 DEF Next, Worker

LEMMA StopPhaseStep ==
  ASSUME TypeOK, StopPhase, [Next]_vars
  PROVE  StopPhase'
<1> USE DEF TypeOK, StopPhase, StopStates, job, models, callers, stops, history
<1>1. CASE Look
  <2>1. CASE WorkerQuit
    BY <2>1 DEF WorkerQuit
  <2>2. CASE WorkerTakeModel
    BY <2>2 DEF WorkerTakeModel, MayBegin
  <2>3. CASE WorkerTakeJob
    BY <2>3 DEF WorkerTakeJob, MayBegin, FreshFlag
  <2>4. CASE WorkerIdle
    BY <2>4 DEF WorkerIdle, MayBegin
  <2>5. CASE WorkerPark
    BY <2>5 DEF WorkerPark
  <2> QED
    BY <1>1, <2>1, <2>2, <2>3, <2>4, <2>5 DEF Look
<1>2. CASE Build
  <2>1. CASE BuildPublish
    BY <2>1 DEF BuildPublish
  <2>2. CASE BuildReply
    BY <2>2 DEF BuildReply
  <2>3. CASE BuildFails
    BY <2>3 DEF BuildFails
  <2> QED
    BY <1>2, <2>1, <2>2, <2>3 DEF Build
<1>3. CASE RunJob
  <2>1. CASE Chunk
    BY <2>1 DEF Chunk, MoreChunks, CallsOff, JobStepFrame
  <2>2. CASE ChunkCancelled
    BY <2>2 DEF ChunkCancelled, MoreChunks, CallsOff, JobStepFrame
  <2>3. CASE SeparateFails
    BY <2>3 DEF SeparateFails, FailJob, JobStepFrame
  <2>4. CASE SeparateDone
    BY <2>4 DEF SeparateDone, JobStepFrame
  <2>5. CASE Published
    BY <2>5 DEF Published, JobStepFrame
  <2>6. CASE PublishFails
    BY <2>6 DEF PublishFails, FailJob, JobStepFrame
  <2>7. CASE Complete
    BY <2>7 DEF Complete, JobStepFrame
  <2>8. CASE Clear
    BY <2>8 DEF Clear, JobStepFrame
  <2> QED
    BY <1>3, <2>1, <2>2, <2>3, <2>4, <2>5, <2>6, <2>7, <2>8 DEF RunJob
<1>4. ASSUME NEW j \in Jobs, Owner(j) PROVE StopPhase'
  <2>1. CASE SubmitAccepted(j)
    BY <2>1 DEF SubmitAccepted, HasRoom, Joined, Woken
  <2>2. CASE SubmitRefused(j)
    BY <2>2 DEF SubmitRefused, HasRoom
  <2>3. CASE OwnerEnds(j, "done") \/ OwnerEnds(j, "failed")
    BY <2>3 DEF OwnerEnds, Waiting
  <2> QED
    BY <1>4, <2>1, <2>2, <2>3 DEF Owner, Submit
<1>5. ASSUME NEW j \in Jobs, Cancel(j) PROVE StopPhase'
  <2>1. CASE CancelWaiting(j)
    BY <2>1 DEF CancelWaiting
  <2>2. CASE CancelMissed(j)
    BY <2>2 DEF CancelMissed
  <2>3. CASE CancelRunning(j)
    BY <2>3 DEF CancelRunning, InHand
  <2> QED
    BY <1>5, <2>1, <2>2, <2>3 DEF Cancel
<1>6. ASSUME NEW i \in Installers, Install(i) PROVE StopPhase'
  <2>1. CASE InstallRefused(i)
    BY <2>1 DEF InstallRefused
  <2>2. CASE InstallStage(i)
    BY <2>2 DEF InstallStage
  <2>3. CASE InstallNotify(i)
    BY <2>3 DEF InstallNotify, Superseding, Woken
  <2>4. CASE InstallReturn(i)
    BY <2>4 DEF InstallReturn
  <2> QED
    BY <1>6, <2>1, <2>2, <2>3, <2>4 DEF Install
<1>7. ASSUME NEW s \in Stoppers, Stop(s) PROVE StopPhase'
  <2>1. CASE StopFlag(s)
    BY <2>1 DEF StopFlag
  <2>2. CASE StopDrain(s)
    BY <2>2 DEF StopDrain
  <2>3. CASE StopCancel(s)
    BY <2>3 DEF StopCancel
  <2>4. CASE StopNotify(s)
    BY <2>4 DEF StopNotify, Woken
  <2>5. CASE StopTake(s)
    BY <2>5 DEF StopTake, StopFrame
  <2>6. CASE StopTaken(s)
    BY <2>6 DEF StopTaken, StopFrame
  <2>7. CASE StopReturn(s)
    BY <2>7 DEF StopReturn, Verdict, StopFrame
  <2> QED
    BY <1>7, <2>1, <2>2, <2>3, <2>4, <2>5, <2>6, <2>7 DEF Stop
<1>8. CASE UNCHANGED vars
  BY <1>8 DEF vars
<1> QED
  BY <1>1, <1>2, <1>3, <1>4, <1>5, <1>6, <1>7, <1>8 DEF Next, Worker

LEMMA WakeupStep ==
  ASSUME TypeOK, StopPhase, NoLostWakeup, [Next]_vars
  PROVE  NoLostWakeup'
<1> USE DEF TypeOK, StopPhase, NoLostWakeup, PendingFree, BeforeNotify, job, models, callers, stops, history
<1>1. CASE Look
  <2>1. CASE WorkerQuit
    BY <2>1 DEF WorkerQuit
  <2>2. CASE WorkerTakeModel
    BY <2>2 DEF WorkerTakeModel, MayBegin
  <2>3. CASE WorkerTakeJob
    BY <2>3 DEF WorkerTakeJob, MayBegin, FreshFlag
  <2>4. CASE WorkerIdle
    BY <2>4 DEF WorkerIdle, MayBegin
  <2>5. CASE WorkerPark
    BY <2>5 DEF WorkerPark
  <2> QED
    BY <1>1, <2>1, <2>2, <2>3, <2>4, <2>5 DEF Look
<1>2. CASE Build
  <2>1. CASE BuildPublish
    BY <2>1 DEF BuildPublish
  <2>2. CASE BuildReply
    BY <2>2 DEF BuildReply
  <2>3. CASE BuildFails
    BY <2>3 DEF BuildFails
  <2> QED
    BY <1>2, <2>1, <2>2, <2>3 DEF Build
<1>3. CASE RunJob
  <2>1. CASE Chunk
    BY <2>1 DEF Chunk, MoreChunks, CallsOff, JobStepFrame
  <2>2. CASE ChunkCancelled
    BY <2>2 DEF ChunkCancelled, MoreChunks, CallsOff, JobStepFrame
  <2>3. CASE SeparateFails
    BY <2>3 DEF SeparateFails, FailJob, JobStepFrame
  <2>4. CASE SeparateDone
    BY <2>4 DEF SeparateDone, JobStepFrame
  <2>5. CASE Published
    BY <2>5 DEF Published, JobStepFrame
  <2>6. CASE PublishFails
    BY <2>6 DEF PublishFails, FailJob, JobStepFrame
  <2>7. CASE Complete
    BY <2>7 DEF Complete, JobStepFrame
  <2>8. CASE Clear
    BY <2>8 DEF Clear, JobStepFrame
  <2> QED
    BY <1>3, <2>1, <2>2, <2>3, <2>4, <2>5, <2>6, <2>7, <2>8 DEF RunJob
<1>4. ASSUME NEW j \in Jobs, Owner(j) PROVE NoLostWakeup'
  <2>1. CASE SubmitAccepted(j)
    BY <2>1 DEF SubmitAccepted, HasRoom, Joined, Woken
  <2>2. CASE SubmitRefused(j)
    BY <2>2 DEF SubmitRefused, HasRoom
  <2>3. CASE OwnerEnds(j, "done") \/ OwnerEnds(j, "failed")
    BY <2>3 DEF OwnerEnds, Waiting
  <2> QED
    BY <1>4, <2>1, <2>2, <2>3 DEF Owner, Submit
<1>5. ASSUME NEW j \in Jobs, Cancel(j) PROVE NoLostWakeup'
  <2>1. CASE CancelWaiting(j)
    BY <2>1 DEF CancelWaiting
  <2>2. CASE CancelMissed(j)
    BY <2>2 DEF CancelMissed
  <2>3. CASE CancelRunning(j)
    BY <2>3 DEF CancelRunning, InHand
  <2> QED
    BY <1>5, <2>1, <2>2, <2>3 DEF Cancel
<1>6. ASSUME NEW i \in Installers, Install(i) PROVE NoLostWakeup'
  <2>1. CASE InstallRefused(i)
    BY <2>1 DEF InstallRefused
  <2>2. CASE InstallStage(i)
    BY <2>2 DEF InstallStage
  <2>3. CASE InstallNotify(i)
    BY <2>3 DEF InstallNotify, Superseding, Woken
  <2>4. CASE InstallReturn(i)
    BY <2>4 DEF InstallReturn
  <2> QED
    BY <1>6, <2>1, <2>2, <2>3, <2>4 DEF Install
<1>7. ASSUME NEW s \in Stoppers, Stop(s) PROVE NoLostWakeup'
  <2>1. CASE StopFlag(s)
    BY <2>1 DEF StopFlag
  <2>2. CASE StopDrain(s)
    BY <2>2 DEF StopDrain
  <2>3. CASE StopCancel(s)
    BY <2>3 DEF StopCancel
  <2>4. CASE StopNotify(s)
    BY <2>4 DEF StopNotify, Woken
  <2>5. CASE StopTake(s)
    BY <2>5 DEF StopTake, StopFrame
  <2>6. CASE StopTaken(s)
    BY <2>6 DEF StopTaken, StopFrame
  <2>7. CASE StopReturn(s)
    BY <2>7 DEF StopReturn, Verdict, StopFrame
  <2> QED
    BY <1>7, <2>1, <2>2, <2>3, <2>4, <2>5, <2>6, <2>7 DEF Stop
<1>8. CASE UNCHANGED vars
  BY <1>8 DEF vars
<1> QED
  BY <1>1, <1>2, <1>3, <1>4, <1>5, <1>6, <1>7, <1>8 DEF Next, Worker

LEMMA AnswerableStep ==
  ASSUME TypeOK, WorkerPhase, InstallAnswerable, [Next]_vars
  PROVE  InstallAnswerable'
<1> USE DEF TypeOK, WorkerPhase, InstallAnswerable, Replies, job, models, callers, stops, history
<1>1. CASE Look
  <2>1. CASE WorkerQuit
    BY QueueAssumption, <2>1 DEF WorkerQuit
  <2>2. CASE WorkerTakeModel
    BY QueueAssumption, <2>2 DEF WorkerTakeModel, MayBegin
  <2>3. CASE WorkerTakeJob
    BY QueueAssumption, <2>3 DEF WorkerTakeJob, MayBegin, FreshFlag
  <2>4. CASE WorkerIdle
    BY QueueAssumption, <2>4 DEF WorkerIdle, MayBegin
  <2>5. CASE WorkerPark
    BY QueueAssumption, <2>5 DEF WorkerPark
  <2> QED
    BY <1>1, <2>1, <2>2, <2>3, <2>4, <2>5 DEF Look
<1>2. CASE Build
  <2>1. CASE BuildPublish
    BY QueueAssumption, <2>1 DEF BuildPublish
  <2>2. CASE BuildReply
    BY QueueAssumption, <2>2 DEF BuildReply
  <2>3. CASE BuildFails
    BY QueueAssumption, <2>3 DEF BuildFails
  <2> QED
    BY <1>2, <2>1, <2>2, <2>3 DEF Build
<1>3. CASE RunJob
  <2>1. CASE Chunk
    BY QueueAssumption, <2>1 DEF Chunk, MoreChunks, CallsOff, JobStepFrame
  <2>2. CASE ChunkCancelled
    BY QueueAssumption, <2>2 DEF ChunkCancelled, MoreChunks, CallsOff, JobStepFrame
  <2>3. CASE SeparateFails
    BY QueueAssumption, <2>3 DEF SeparateFails, FailJob, JobStepFrame
  <2>4. CASE SeparateDone
    BY QueueAssumption, <2>4 DEF SeparateDone, JobStepFrame
  <2>5. CASE Published
    BY QueueAssumption, <2>5 DEF Published, JobStepFrame
  <2>6. CASE PublishFails
    BY QueueAssumption, <2>6 DEF PublishFails, FailJob, JobStepFrame
  <2>7. CASE Complete
    BY QueueAssumption, <2>7 DEF Complete, JobStepFrame
  <2>8. CASE Clear
    BY QueueAssumption, <2>8 DEF Clear, JobStepFrame
  <2> QED
    BY <1>3, <2>1, <2>2, <2>3, <2>4, <2>5, <2>6, <2>7, <2>8 DEF RunJob
<1>4. ASSUME NEW j \in Jobs, Owner(j) PROVE InstallAnswerable'
  <2>1. CASE SubmitAccepted(j)
    BY QueueAssumption, <2>1 DEF SubmitAccepted, HasRoom, Joined, Woken
  <2>2. CASE SubmitRefused(j)
    BY QueueAssumption, <2>2 DEF SubmitRefused, HasRoom
  <2>3. CASE OwnerEnds(j, "done") \/ OwnerEnds(j, "failed")
    BY QueueAssumption, <2>3 DEF OwnerEnds, Waiting
  <2> QED
    BY <1>4, <2>1, <2>2, <2>3 DEF Owner, Submit
<1>5. ASSUME NEW j \in Jobs, Cancel(j) PROVE InstallAnswerable'
  <2>1. CASE CancelWaiting(j)
    BY QueueAssumption, <2>1 DEF CancelWaiting
  <2>2. CASE CancelMissed(j)
    BY QueueAssumption, <2>2 DEF CancelMissed
  <2>3. CASE CancelRunning(j)
    BY QueueAssumption, <2>3 DEF CancelRunning, InHand
  <2> QED
    BY <1>5, <2>1, <2>2, <2>3 DEF Cancel
<1>6. ASSUME NEW i \in Installers, Install(i) PROVE InstallAnswerable'
  <2>1. CASE InstallRefused(i)
    BY QueueAssumption, <2>1 DEF InstallRefused
  <2>2. CASE InstallStage(i)
    BY QueueAssumption, <2>2 DEF InstallStage
  <2>3. CASE InstallNotify(i)
    BY QueueAssumption, <2>3 DEF InstallNotify, Superseding, Woken
  <2>4. CASE InstallReturn(i)
    BY QueueAssumption, <2>4 DEF InstallReturn
  <2> QED
    BY <1>6, <2>1, <2>2, <2>3, <2>4 DEF Install
<1>7. ASSUME NEW s \in Stoppers, Stop(s) PROVE InstallAnswerable'
  <2>1. CASE StopFlag(s)
    BY QueueAssumption, <2>1 DEF StopFlag
  <2>2. CASE StopDrain(s)
    BY QueueAssumption, <2>2 DEF StopDrain
  <2>3. CASE StopCancel(s)
    BY QueueAssumption, <2>3 DEF StopCancel
  <2>4. CASE StopNotify(s)
    BY QueueAssumption, <2>4 DEF StopNotify, Woken
  <2>5. CASE StopTake(s)
    BY QueueAssumption, <2>5 DEF StopTake, StopFrame
  <2>6. CASE StopTaken(s)
    BY QueueAssumption, <2>6 DEF StopTaken, StopFrame
  <2>7. CASE StopReturn(s)
    BY QueueAssumption, <2>7 DEF StopReturn, Verdict, StopFrame
  <2> QED
    BY <1>7, <2>1, <2>2, <2>3, <2>4, <2>5, <2>6, <2>7 DEF Stop
<1>8. CASE UNCHANGED vars
  BY <1>8 DEF vars
<1> QED
  BY <1>1, <1>2, <1>3, <1>4, <1>5, <1>6, <1>7, <1>8 DEF Next, Worker

LEMMA OnePlaceStep ==
  ASSUME TypeOK, WorkerPhase, OnePlace, [Next]_vars
  PROVE  OnePlace'
<1> USE DEF TypeOK, WorkerPhase, OnePlace, job, models, callers, stops, history
<1>1. CASE Look
  <2>1. CASE WorkerQuit
    BY <2>1 DEF WorkerQuit
  <2>2. CASE WorkerTakeModel
    BY <2>2 DEF WorkerTakeModel, MayBegin
  <2>3. CASE WorkerTakeJob
    <3>1. /\ Head(pending) = pending[1]
          /\ Tail(pending) \in Seq(Jobs)
          /\ Len(Tail(pending)) = Len(pending) - 1
          /\ \A k \in 1 .. Len(pending) - 1 : Tail(pending)[k] = pending[k + 1]
      BY <2>3, HeadTailProperties DEF WorkerTakeJob, MayBegin, FreshFlag
    <3>2. DOMAIN pending = 1 .. Len(pending) /\ Len(pending) \in Nat /\ Len(pending) # 0
      BY <2>3, LenProperties, EmptySeq DEF WorkerTakeJob, MayBegin, FreshFlag
    <3>3. DOMAIN Tail(pending) = 1 .. Len(pending) - 1
      BY <3>1, LenProperties
    <3> QED
      BY <2>3, <3>1, <3>2, <3>3, QueueAssumption DEF WorkerTakeJob, MayBegin, FreshFlag
  <2>4. CASE WorkerIdle
    BY <2>4 DEF WorkerIdle, MayBegin
  <2>5. CASE WorkerPark
    BY <2>5 DEF WorkerPark
  <2> QED
    BY <1>1, <2>1, <2>2, <2>3, <2>4, <2>5 DEF Look
<1>2. CASE Build
  <2>1. CASE BuildPublish
    BY <2>1 DEF BuildPublish
  <2>2. CASE BuildReply
    BY <2>2 DEF BuildReply
  <2>3. CASE BuildFails
    BY <2>3 DEF BuildFails
  <2> QED
    BY <1>2, <2>1, <2>2, <2>3 DEF Build
<1>3. CASE RunJob
  <2>1. CASE Chunk
    BY <2>1 DEF Chunk, MoreChunks, CallsOff, JobStepFrame
  <2>2. CASE ChunkCancelled
    BY <2>2 DEF ChunkCancelled, MoreChunks, CallsOff, JobStepFrame
  <2>3. CASE SeparateFails
    BY <2>3 DEF SeparateFails, FailJob, JobStepFrame
  <2>4. CASE SeparateDone
    BY <2>4 DEF SeparateDone, JobStepFrame
  <2>5. CASE Published
    BY <2>5 DEF Published, JobStepFrame
  <2>6. CASE PublishFails
    BY <2>6 DEF PublishFails, FailJob, JobStepFrame
  <2>7. CASE Complete
    BY <2>7 DEF Complete, JobStepFrame
  <2>8. CASE Clear
    <3>1. \A k \in DOMAIN pending : pending[k] # None
      BY QueueAssumption, LenProperties, ElementOfSeq
    <3> QED
      BY <2>8, <3>1 DEF Clear, JobStepFrame
  <2> QED
    BY <1>3, <2>1, <2>2, <2>3, <2>4, <2>5, <2>6, <2>7, <2>8 DEF RunJob
<1>4. ASSUME NEW j \in Jobs, Owner(j) PROVE OnePlace'
  <2>1. CASE SubmitAccepted(j)
    <3>1. /\ pending' \in Seq(Jobs)
          /\ Len(pending') = Len(pending) + 1
          /\ pending'[Len(pending) + 1] = j
          /\ \A k \in 1 .. Len(pending) : pending'[k] = pending[k]
      BY <2>1, AppendProperties DEF SubmitAccepted, HasRoom, Joined
    <3>2. /\ DOMAIN pending = 1 .. Len(pending) /\ Len(pending) \in Nat
          /\ DOMAIN pending' = 1 .. Len(pending) + 1
      BY <3>1, LenProperties
    <3>3. /\ j \notin offered /\ j # running
          /\ running' = running /\ offered' = offered \cup {j}
          /\ stage' = [stage EXCEPT ![j] = "queued"]
          /\ Len(pending) + 1 <= MaxDepth
      BY <2>1, QueueAssumption, <3>2 DEF SubmitAccepted, HasRoom, Joined
    <3>4. \A k \in 1 .. Len(pending) : pending[k] # j
      BY <3>2, <3>3
    <3>5. \A k, m \in DOMAIN pending' : pending'[k] = pending'[m] => k = m
      BY <3>1, <3>2, <3>4
    <3>6. \A k \in DOMAIN pending' :
            /\ pending'[k] \in offered'
            /\ pending'[k] # running'
            /\ stage'[pending'[k]] = "queued"
      BY <3>1, <3>2, <3>3
    <3> QED
      BY <3>1, <3>3, <3>5, <3>6
  <2>2. CASE SubmitRefused(j)
    BY <2>2 DEF SubmitRefused, HasRoom
  <2>3. CASE OwnerEnds(j, "done") \/ OwnerEnds(j, "failed")
    BY <2>3 DEF OwnerEnds, Waiting
  <2> QED
    BY <1>4, <2>1, <2>2, <2>3 DEF Owner, Submit
<1>5. ASSUME NEW j \in Jobs, Cancel(j) PROVE OnePlace'
  <2>1. CASE CancelWaiting(j)
    <3>1. PICK k \in DOMAIN pending : pending' = RemoveAt(pending, k)
      BY <2>1 DEF CancelWaiting
    <3>2. /\ pending' \in Seq(Jobs)
          /\ Len(pending') = Len(pending) - 1
          /\ \A m \in 1 .. Len(pending) - 1 :
               pending'[m] = IF m < k THEN pending[m] ELSE pending[m + 1]
      BY <3>1, RemoveAtProperties
    <3>3. /\ DOMAIN pending = 1 .. Len(pending) /\ Len(pending) \in Nat
          /\ DOMAIN pending' = 1 .. Len(pending) - 1
      BY <3>2, LenProperties
    <3>4. /\ running' = running /\ offered' = offered /\ stage' = stage
      BY <2>1 DEF CancelWaiting
    <3>5. \A m, n \in DOMAIN pending' : pending'[m] = pending'[n] => m = n
      BY <3>1, <3>2, <3>3
    <3>6. ASSUME NEW m \in DOMAIN pending'
          PROVE  \E n \in DOMAIN pending : pending'[m] = pending[n]
      <4>1. m \in DOMAIN pending /\ m + 1 \in DOMAIN pending
        BY <3>3
      <4> QED
        BY <4>1, <3>2, <3>3
    <3> QED
      BY <3>2, <3>3, <3>4, <3>5, <3>6, QueueAssumption
  <2>2. CASE CancelMissed(j)
    BY <2>2 DEF CancelMissed
  <2>3. CASE CancelRunning(j)
    BY <2>3 DEF CancelRunning, InHand
  <2> QED
    BY <1>5, <2>1, <2>2, <2>3 DEF Cancel
<1>6. ASSUME NEW i \in Installers, Install(i) PROVE OnePlace'
  <2>1. CASE InstallRefused(i)
    BY <2>1 DEF InstallRefused
  <2>2. CASE InstallStage(i)
    BY <2>2 DEF InstallStage
  <2>3. CASE InstallNotify(i)
    BY <2>3 DEF InstallNotify, Superseding, Woken
  <2>4. CASE InstallReturn(i)
    BY <2>4 DEF InstallReturn
  <2> QED
    BY <1>6, <2>1, <2>2, <2>3, <2>4 DEF Install
<1>7. ASSUME NEW s \in Stoppers, Stop(s) PROVE OnePlace'
  <2>1. CASE StopFlag(s)
    BY <2>1 DEF StopFlag
  <2>2. CASE StopDrain(s)
    BY <2>2 DEF StopDrain
  <2>3. CASE StopCancel(s)
    BY <2>3 DEF StopCancel
  <2>4. CASE StopNotify(s)
    BY <2>4 DEF StopNotify, Woken
  <2>5. CASE StopTake(s)
    BY <2>5 DEF StopTake, StopFrame
  <2>6. CASE StopTaken(s)
    BY <2>6 DEF StopTaken, StopFrame
  <2>7. CASE StopReturn(s)
    BY <2>7 DEF StopReturn, Verdict, StopFrame
  <2> QED
    BY <1>7, <2>1, <2>2, <2>3, <2>4, <2>5, <2>6, <2>7 DEF Stop
<1>8. CASE UNCHANGED vars
  BY <1>8 DEF vars
<1> QED
  BY <1>1, <1>2, <1>3, <1>4, <1>5, <1>6, <1>7, <1>8 DEF Next, Worker

LEMMA InitInvariant ==
  Init => /\ OnePlace /\ WorkerPhase /\ FlagIsAskedFor /\ StopPhase
          /\ NoLostWakeup /\ InstallAnswerable
<1> SUFFICES ASSUME Init
             PROVE  /\ OnePlace /\ WorkerPhase /\ FlagIsAskedFor /\ StopPhase
                    /\ NoLostWakeup /\ InstallAnswerable
  OBVIOUS
<1>1. Len(pending) = 0 /\ DOMAIN pending = {}
  BY DEF Init
<1>2. OnePlace
  BY <1>1, QueueAssumption DEF OnePlace
<1>3. WorkerPhase /\ FlagIsAskedFor /\ StopPhase
  BY DEF Init, WorkerPhase, FlagIsAskedFor, StopPhase
<1>4. NoLostWakeup /\ InstallAnswerable
  BY DEF Init, NoLostWakeup, InstallAnswerable
<1> QED
  BY <1>2, <1>3, <1>4

LEMMA DroppedStep ==
  ASSUME TypeOK, WorkerPhase, NoJobDropped, [Next]_vars
  PROVE  NoJobDropped'
<1> USE DEF TypeOK, WorkerPhase, NoJobDropped, IsTerminal, Terminal, Stages, job, models, callers, stops, history
<1>1. CASE Look
  <2>1. CASE WorkerQuit
    BY QueueAssumption, <2>1 DEF WorkerQuit
  <2>2. CASE WorkerTakeModel
    BY QueueAssumption, <2>2 DEF WorkerTakeModel, MayBegin
  <2>3. CASE WorkerTakeJob
    BY QueueAssumption, <2>3 DEF WorkerTakeJob, MayBegin, FreshFlag
  <2>4. CASE WorkerIdle
    BY QueueAssumption, <2>4 DEF WorkerIdle, MayBegin
  <2>5. CASE WorkerPark
    BY QueueAssumption, <2>5 DEF WorkerPark
  <2> QED
    BY <1>1, <2>1, <2>2, <2>3, <2>4, <2>5 DEF Look
<1>2. CASE Build
  <2>1. CASE BuildPublish
    BY QueueAssumption, <2>1 DEF BuildPublish
  <2>2. CASE BuildReply
    BY QueueAssumption, <2>2 DEF BuildReply
  <2>3. CASE BuildFails
    BY QueueAssumption, <2>3 DEF BuildFails
  <2> QED
    BY <1>2, <2>1, <2>2, <2>3 DEF Build
<1>3. CASE RunJob
  <2>1. CASE Chunk
    BY QueueAssumption, <2>1 DEF Chunk, MoreChunks, CallsOff, JobStepFrame
  <2>2. CASE ChunkCancelled
    BY QueueAssumption, <2>2 DEF ChunkCancelled, MoreChunks, CallsOff, JobStepFrame
  <2>3. CASE SeparateFails
    BY QueueAssumption, <2>3 DEF SeparateFails, FailJob, JobStepFrame
  <2>4. CASE SeparateDone
    BY QueueAssumption, <2>4 DEF SeparateDone, JobStepFrame
  <2>5. CASE Published
    BY QueueAssumption, <2>5 DEF Published, JobStepFrame
  <2>6. CASE PublishFails
    BY QueueAssumption, <2>6 DEF PublishFails, FailJob, JobStepFrame
  <2>7. CASE Complete
    BY QueueAssumption, <2>7 DEF Complete, JobStepFrame
  <2>8. CASE Clear
    BY QueueAssumption, <2>8 DEF Clear, JobStepFrame
  <2> QED
    BY <1>3, <2>1, <2>2, <2>3, <2>4, <2>5, <2>6, <2>7, <2>8 DEF RunJob
<1>4. ASSUME NEW j \in Jobs, Owner(j) PROVE NoJobDropped'
  <2>1. CASE SubmitAccepted(j)
    BY QueueAssumption, <2>1 DEF SubmitAccepted, HasRoom, Joined, Woken
  <2>2. CASE SubmitRefused(j)
    BY QueueAssumption, <2>2 DEF SubmitRefused, HasRoom
  <2>3. CASE OwnerEnds(j, "done") \/ OwnerEnds(j, "failed")
    BY QueueAssumption, <2>3 DEF OwnerEnds, Waiting
  <2> QED
    BY <1>4, <2>1, <2>2, <2>3 DEF Owner, Submit
<1>5. ASSUME NEW j \in Jobs, Cancel(j) PROVE NoJobDropped'
  <2>1. CASE CancelWaiting(j)
    BY QueueAssumption, <2>1 DEF CancelWaiting
  <2>2. CASE CancelMissed(j)
    BY QueueAssumption, <2>2 DEF CancelMissed
  <2>3. CASE CancelRunning(j)
    BY QueueAssumption, <2>3 DEF CancelRunning, InHand
  <2> QED
    BY <1>5, <2>1, <2>2, <2>3 DEF Cancel
<1>6. ASSUME NEW i \in Installers, Install(i) PROVE NoJobDropped'
  <2>1. CASE InstallRefused(i)
    BY QueueAssumption, <2>1 DEF InstallRefused
  <2>2. CASE InstallStage(i)
    BY QueueAssumption, <2>2 DEF InstallStage
  <2>3. CASE InstallNotify(i)
    BY QueueAssumption, <2>3 DEF InstallNotify, Superseding, Woken
  <2>4. CASE InstallReturn(i)
    BY QueueAssumption, <2>4 DEF InstallReturn
  <2> QED
    BY <1>6, <2>1, <2>2, <2>3, <2>4 DEF Install
<1>7. ASSUME NEW s \in Stoppers, Stop(s) PROVE NoJobDropped'
  <2>1. CASE StopFlag(s)
    BY QueueAssumption, <2>1 DEF StopFlag
  <2>2. CASE StopDrain(s)
    BY QueueAssumption, <2>2 DEF StopDrain
  <2>3. CASE StopCancel(s)
    BY QueueAssumption, <2>3 DEF StopCancel
  <2>4. CASE StopNotify(s)
    BY QueueAssumption, <2>4 DEF StopNotify, Woken
  <2>5. CASE StopTake(s)
    BY QueueAssumption, <2>5 DEF StopTake, StopFrame
  <2>6. CASE StopTaken(s)
    BY QueueAssumption, <2>6 DEF StopTaken, StopFrame
  <2>7. CASE StopReturn(s)
    BY QueueAssumption, <2>7 DEF StopReturn, Verdict, StopFrame
  <2> QED
    BY <1>7, <2>1, <2>2, <2>3, <2>4, <2>5, <2>6, <2>7 DEF Stop
<1>8. CASE UNCHANGED vars
  BY <1>8 DEF vars
<1> QED
  BY <1>1, <1>2, <1>3, <1>4, <1>5, <1>6, <1>7, <1>8 DEF Next, Worker

LEMMA CancelledStep ==
  ASSUME TypeOK, WorkerPhase, FlagIsAskedFor, CancelledOnlyIfAsked, [Next]_vars
  PROVE  CancelledOnlyIfAsked'
<1> USE DEF TypeOK, WorkerPhase, FlagIsAskedFor, CancelledOnlyIfAsked, Stages, job, models, callers, stops, history
<1>1. CASE Look
  <2>1. CASE WorkerQuit
    BY <2>1 DEF WorkerQuit
  <2>2. CASE WorkerTakeModel
    BY <2>2 DEF WorkerTakeModel, MayBegin
  <2>3. CASE WorkerTakeJob
    BY <2>3 DEF WorkerTakeJob, MayBegin, FreshFlag
  <2>4. CASE WorkerIdle
    BY <2>4 DEF WorkerIdle, MayBegin
  <2>5. CASE WorkerPark
    BY <2>5 DEF WorkerPark
  <2> QED
    BY <1>1, <2>1, <2>2, <2>3, <2>4, <2>5 DEF Look
<1>2. CASE Build
  <2>1. CASE BuildPublish
    BY <2>1 DEF BuildPublish
  <2>2. CASE BuildReply
    BY <2>2 DEF BuildReply
  <2>3. CASE BuildFails
    BY <2>3 DEF BuildFails
  <2> QED
    BY <1>2, <2>1, <2>2, <2>3 DEF Build
<1>3. CASE RunJob
  <2>1. CASE Chunk
    BY <2>1 DEF Chunk, MoreChunks, CallsOff, JobStepFrame
  <2>2. CASE ChunkCancelled
    BY <2>2 DEF ChunkCancelled, MoreChunks, CallsOff, JobStepFrame
  <2>3. CASE SeparateFails
    BY <2>3 DEF SeparateFails, FailJob, JobStepFrame
  <2>4. CASE SeparateDone
    BY <2>4 DEF SeparateDone, JobStepFrame
  <2>5. CASE Published
    BY <2>5 DEF Published, JobStepFrame
  <2>6. CASE PublishFails
    BY <2>6 DEF PublishFails, FailJob, JobStepFrame
  <2>7. CASE Complete
    BY <2>7 DEF Complete, JobStepFrame
  <2>8. CASE Clear
    BY <2>8 DEF Clear, JobStepFrame
  <2> QED
    BY <1>3, <2>1, <2>2, <2>3, <2>4, <2>5, <2>6, <2>7, <2>8 DEF RunJob
<1>4. ASSUME NEW j \in Jobs, Owner(j) PROVE CancelledOnlyIfAsked'
  <2>1. CASE SubmitAccepted(j)
    BY <2>1 DEF SubmitAccepted, HasRoom, Joined, Woken
  <2>2. CASE SubmitRefused(j)
    BY <2>2 DEF SubmitRefused, HasRoom
  <2>3. CASE OwnerEnds(j, "done") \/ OwnerEnds(j, "failed")
    BY <2>3 DEF OwnerEnds, Waiting
  <2> QED
    BY <1>4, <2>1, <2>2, <2>3 DEF Owner, Submit
<1>5. ASSUME NEW j \in Jobs, Cancel(j) PROVE CancelledOnlyIfAsked'
  <2>1. CASE CancelWaiting(j)
    BY <2>1 DEF CancelWaiting
  <2>2. CASE CancelMissed(j)
    BY <2>2 DEF CancelMissed
  <2>3. CASE CancelRunning(j)
    BY <2>3 DEF CancelRunning, InHand
  <2> QED
    BY <1>5, <2>1, <2>2, <2>3 DEF Cancel
<1>6. ASSUME NEW i \in Installers, Install(i) PROVE CancelledOnlyIfAsked'
  <2>1. CASE InstallRefused(i)
    BY <2>1 DEF InstallRefused
  <2>2. CASE InstallStage(i)
    BY <2>2 DEF InstallStage
  <2>3. CASE InstallNotify(i)
    BY <2>3 DEF InstallNotify, Superseding, Woken
  <2>4. CASE InstallReturn(i)
    BY <2>4 DEF InstallReturn
  <2> QED
    BY <1>6, <2>1, <2>2, <2>3, <2>4 DEF Install
<1>7. ASSUME NEW s \in Stoppers, Stop(s) PROVE CancelledOnlyIfAsked'
  <2>1. CASE StopFlag(s)
    BY <2>1 DEF StopFlag
  <2>2. CASE StopDrain(s)
    BY <2>2 DEF StopDrain
  <2>3. CASE StopCancel(s)
    BY <2>3 DEF StopCancel
  <2>4. CASE StopNotify(s)
    BY <2>4 DEF StopNotify, Woken
  <2>5. CASE StopTake(s)
    BY <2>5 DEF StopTake, StopFrame
  <2>6. CASE StopTaken(s)
    BY <2>6 DEF StopTaken, StopFrame
  <2>7. CASE StopReturn(s)
    BY <2>7 DEF StopReturn, Verdict, StopFrame
  <2> QED
    BY <1>7, <2>1, <2>2, <2>3, <2>4, <2>5, <2>6, <2>7 DEF Stop
<1>8. CASE UNCHANGED vars
  BY <1>8 DEF vars
<1> QED
  BY <1>1, <1>2, <1>3, <1>4, <1>5, <1>6, <1>7, <1>8 DEF Next, Worker

LEMMA StopReachesStep ==
  ASSUME TypeOK, StopPhase, StopReachesTheWorker, [Next]_vars
  PROVE  StopReachesTheWorker'
<1> USE DEF TypeOK, StopPhase, StopReachesTheWorker, StopStates, AfterCancel, job, models, callers, stops, history
<1>1. CASE Look
  <2>1. CASE WorkerQuit
    BY <2>1 DEF WorkerQuit
  <2>2. CASE WorkerTakeModel
    BY <2>2 DEF WorkerTakeModel, MayBegin
  <2>3. CASE WorkerTakeJob
    BY <2>3 DEF WorkerTakeJob, MayBegin, FreshFlag
  <2>4. CASE WorkerIdle
    BY <2>4 DEF WorkerIdle, MayBegin
  <2>5. CASE WorkerPark
    BY <2>5 DEF WorkerPark
  <2> QED
    BY <1>1, <2>1, <2>2, <2>3, <2>4, <2>5 DEF Look
<1>2. CASE Build
  <2>1. CASE BuildPublish
    BY <2>1 DEF BuildPublish
  <2>2. CASE BuildReply
    BY <2>2 DEF BuildReply
  <2>3. CASE BuildFails
    BY <2>3 DEF BuildFails
  <2> QED
    BY <1>2, <2>1, <2>2, <2>3 DEF Build
<1>3. CASE RunJob
  <2>1. CASE Chunk
    BY <2>1 DEF Chunk, MoreChunks, CallsOff, JobStepFrame
  <2>2. CASE ChunkCancelled
    BY <2>2 DEF ChunkCancelled, MoreChunks, CallsOff, JobStepFrame
  <2>3. CASE SeparateFails
    BY <2>3 DEF SeparateFails, FailJob, JobStepFrame
  <2>4. CASE SeparateDone
    BY <2>4 DEF SeparateDone, JobStepFrame
  <2>5. CASE Published
    BY <2>5 DEF Published, JobStepFrame
  <2>6. CASE PublishFails
    BY <2>6 DEF PublishFails, FailJob, JobStepFrame
  <2>7. CASE Complete
    BY <2>7 DEF Complete, JobStepFrame
  <2>8. CASE Clear
    BY <2>8 DEF Clear, JobStepFrame
  <2> QED
    BY <1>3, <2>1, <2>2, <2>3, <2>4, <2>5, <2>6, <2>7, <2>8 DEF RunJob
<1>4. ASSUME NEW j \in Jobs, Owner(j) PROVE StopReachesTheWorker'
  <2>1. CASE SubmitAccepted(j)
    BY <2>1 DEF SubmitAccepted, HasRoom, Joined, Woken
  <2>2. CASE SubmitRefused(j)
    BY <2>2 DEF SubmitRefused, HasRoom
  <2>3. CASE OwnerEnds(j, "done") \/ OwnerEnds(j, "failed")
    BY <2>3 DEF OwnerEnds, Waiting
  <2> QED
    BY <1>4, <2>1, <2>2, <2>3 DEF Owner, Submit
<1>5. ASSUME NEW j \in Jobs, Cancel(j) PROVE StopReachesTheWorker'
  <2>1. CASE CancelWaiting(j)
    BY <2>1 DEF CancelWaiting
  <2>2. CASE CancelMissed(j)
    BY <2>2 DEF CancelMissed
  <2>3. CASE CancelRunning(j)
    BY <2>3 DEF CancelRunning, InHand
  <2> QED
    BY <1>5, <2>1, <2>2, <2>3 DEF Cancel
<1>6. ASSUME NEW i \in Installers, Install(i) PROVE StopReachesTheWorker'
  <2>1. CASE InstallRefused(i)
    BY <2>1 DEF InstallRefused
  <2>2. CASE InstallStage(i)
    BY <2>2 DEF InstallStage
  <2>3. CASE InstallNotify(i)
    BY <2>3 DEF InstallNotify, Superseding, Woken
  <2>4. CASE InstallReturn(i)
    BY <2>4 DEF InstallReturn
  <2> QED
    BY <1>6, <2>1, <2>2, <2>3, <2>4 DEF Install
<1>7. ASSUME NEW s \in Stoppers, Stop(s) PROVE StopReachesTheWorker'
  <2>1. CASE StopFlag(s)
    BY <2>1 DEF StopFlag
  <2>2. CASE StopDrain(s)
    BY <2>2 DEF StopDrain
  <2>3. CASE StopCancel(s)
    BY <2>3 DEF StopCancel
  <2>4. CASE StopNotify(s)
    BY <2>4 DEF StopNotify, Woken
  <2>5. CASE StopTake(s)
    BY <2>5 DEF StopTake, StopFrame
  <2>6. CASE StopTaken(s)
    BY <2>6 DEF StopTaken, StopFrame
  <2>7. CASE StopReturn(s)
    BY <2>7 DEF StopReturn, Verdict, StopFrame
  <2> QED
    BY <1>7, <2>1, <2>2, <2>3, <2>4, <2>5, <2>6, <2>7 DEF Stop
<1>8. CASE UNCHANGED vars
  BY <1>8 DEF vars
<1> QED
  BY <1>1, <1>2, <1>3, <1>4, <1>5, <1>6, <1>7, <1>8 DEF Next, Worker

LEMMA WaiterStep ==
  ASSUME TypeOK, StopPhase, WaiterSeesWorkerOut, [Next]_vars
  PROVE  WaiterSeesWorkerOut'
<1> USE DEF TypeOK, StopPhase, WaiterSeesWorkerOut, StopStates, job, models, callers, stops, history
<1>1. CASE Look
  <2>1. CASE WorkerQuit
    BY <2>1 DEF WorkerQuit
  <2>2. CASE WorkerTakeModel
    BY <2>2 DEF WorkerTakeModel, MayBegin
  <2>3. CASE WorkerTakeJob
    BY <2>3 DEF WorkerTakeJob, MayBegin, FreshFlag
  <2>4. CASE WorkerIdle
    BY <2>4 DEF WorkerIdle, MayBegin
  <2>5. CASE WorkerPark
    BY <2>5 DEF WorkerPark
  <2> QED
    BY <1>1, <2>1, <2>2, <2>3, <2>4, <2>5 DEF Look
<1>2. CASE Build
  <2>1. CASE BuildPublish
    BY <2>1 DEF BuildPublish
  <2>2. CASE BuildReply
    BY <2>2 DEF BuildReply
  <2>3. CASE BuildFails
    BY <2>3 DEF BuildFails
  <2> QED
    BY <1>2, <2>1, <2>2, <2>3 DEF Build
<1>3. CASE RunJob
  <2>1. CASE Chunk
    BY <2>1 DEF Chunk, MoreChunks, CallsOff, JobStepFrame
  <2>2. CASE ChunkCancelled
    BY <2>2 DEF ChunkCancelled, MoreChunks, CallsOff, JobStepFrame
  <2>3. CASE SeparateFails
    BY <2>3 DEF SeparateFails, FailJob, JobStepFrame
  <2>4. CASE SeparateDone
    BY <2>4 DEF SeparateDone, JobStepFrame
  <2>5. CASE Published
    BY <2>5 DEF Published, JobStepFrame
  <2>6. CASE PublishFails
    BY <2>6 DEF PublishFails, FailJob, JobStepFrame
  <2>7. CASE Complete
    BY <2>7 DEF Complete, JobStepFrame
  <2>8. CASE Clear
    BY <2>8 DEF Clear, JobStepFrame
  <2> QED
    BY <1>3, <2>1, <2>2, <2>3, <2>4, <2>5, <2>6, <2>7, <2>8 DEF RunJob
<1>4. ASSUME NEW j \in Jobs, Owner(j) PROVE WaiterSeesWorkerOut'
  <2>1. CASE SubmitAccepted(j)
    BY <2>1 DEF SubmitAccepted, HasRoom, Joined, Woken
  <2>2. CASE SubmitRefused(j)
    BY <2>2 DEF SubmitRefused, HasRoom
  <2>3. CASE OwnerEnds(j, "done") \/ OwnerEnds(j, "failed")
    BY <2>3 DEF OwnerEnds, Waiting
  <2> QED
    BY <1>4, <2>1, <2>2, <2>3 DEF Owner, Submit
<1>5. ASSUME NEW j \in Jobs, Cancel(j) PROVE WaiterSeesWorkerOut'
  <2>1. CASE CancelWaiting(j)
    BY <2>1 DEF CancelWaiting
  <2>2. CASE CancelMissed(j)
    BY <2>2 DEF CancelMissed
  <2>3. CASE CancelRunning(j)
    BY <2>3 DEF CancelRunning, InHand
  <2> QED
    BY <1>5, <2>1, <2>2, <2>3 DEF Cancel
<1>6. ASSUME NEW i \in Installers, Install(i) PROVE WaiterSeesWorkerOut'
  <2>1. CASE InstallRefused(i)
    BY <2>1 DEF InstallRefused
  <2>2. CASE InstallStage(i)
    BY <2>2 DEF InstallStage
  <2>3. CASE InstallNotify(i)
    BY <2>3 DEF InstallNotify, Superseding, Woken
  <2>4. CASE InstallReturn(i)
    BY <2>4 DEF InstallReturn
  <2> QED
    BY <1>6, <2>1, <2>2, <2>3, <2>4 DEF Install
<1>7. ASSUME NEW s \in Stoppers, Stop(s) PROVE WaiterSeesWorkerOut'
  <2>1. CASE StopFlag(s)
    BY <2>1 DEF StopFlag
  <2>2. CASE StopDrain(s)
    BY <2>2 DEF StopDrain
  <2>3. CASE StopCancel(s)
    BY <2>3 DEF StopCancel
  <2>4. CASE StopNotify(s)
    BY <2>4 DEF StopNotify, Woken
  <2>5. CASE StopTake(s)
    BY <2>5 DEF StopTake, StopFrame
  <2>6. CASE StopTaken(s)
    BY <2>6 DEF StopTaken, StopFrame
  <2>7. CASE StopReturn(s)
    BY <2>7 DEF StopReturn, Verdict, StopFrame
  <2> QED
    BY <1>7, <2>1, <2>2, <2>3, <2>4, <2>5, <2>6, <2>7 DEF Stop
<1>8. CASE UNCHANGED vars
  BY <1>8 DEF vars
<1> QED
  BY <1>1, <1>2, <1>3, <1>4, <1>5, <1>6, <1>7, <1>8 DEF Next, Worker

LEMMA LineStep ==
  ASSUME TypeOK, OnePlace, [Next]_vars
  PROVE  /\ \A k \in DOMAIN pending, m \in DOMAIN pending' :
              pending[k] = pending'[m] => m <= k
         /\ running' \notin {running, None} => running' = pending[1]
<1> DEFINE MovesUp == /\ \A k \in DOMAIN pending, m \in DOMAIN pending' :
                           pending[k] = pending'[m] => m <= k
                      /\ running' \notin {running, None} => running' = pending[1]
<1>0. DOMAIN pending = 1 .. Len(pending) /\ Len(pending) \in Nat
  BY LenProperties DEF TypeOK
<1>1. ASSUME pending' = pending, running' \in {running, None} PROVE MovesUp
  BY <1>0, <1>1 DEF OnePlace
<1>2. CASE WorkerTakeJob
  <2>1. /\ pending # <<>> /\ pending' = Tail(pending) /\ running' = Head(pending)
    BY <1>2 DEF WorkerTakeJob
  <2>2. /\ Head(pending) = pending[1]
        /\ Tail(pending) \in Seq(Jobs)
        /\ Len(Tail(pending)) = Len(pending) - 1
        /\ \A k \in 1 .. Len(pending) - 1 : Tail(pending)[k] = pending[k + 1]
    BY <2>1, HeadTailProperties DEF TypeOK
  <2>3. DOMAIN pending' = 1 .. Len(pending) - 1
    BY <2>1, <2>2, LenProperties
  <2>4. ASSUME NEW k \in DOMAIN pending, NEW m \in DOMAIN pending', pending[k] = pending'[m]
        PROVE  m <= k
    <3>1. m + 1 \in DOMAIN pending /\ pending'[m] = pending[m + 1]
      BY <2>1, <2>2, <2>3, <1>0
    <3>2. k = m + 1
      BY <2>4, <3>1 DEF OnePlace
    <3> QED
      BY <3>2, <2>3, <1>0
  <2> QED
    BY <2>1, <2>2, <2>4
<1>3. ASSUME NEW j \in Jobs, SubmitAccepted(j) PROVE MovesUp
  <2>1. /\ j \notin offered /\ running' = running /\ pending' = Append(pending, j)
    BY <1>3 DEF SubmitAccepted, Joined, job
  <2>2. /\ Len(pending') = Len(pending) + 1
        /\ pending'[Len(pending) + 1] = j
        /\ \A k \in 1 .. Len(pending) : pending'[k] = pending[k]
    BY <2>1, AppendProperties DEF TypeOK
  <2>3. pending' \in Seq(Jobs)
    BY <2>1, AppendProperties DEF TypeOK
  <2>4. DOMAIN pending' = 1 .. Len(pending) + 1
    BY <2>2, <2>3, LenProperties
  <2>5. ASSUME NEW k \in DOMAIN pending, NEW m \in DOMAIN pending', pending[k] = pending'[m]
        PROVE  m <= k
    <3>1. m # Len(pending) + 1
      BY <2>1, <2>2, <2>5 DEF OnePlace
    <3>2. m \in DOMAIN pending /\ pending'[m] = pending[m]
      BY <3>1, <2>2, <2>4, <1>0
    <3> QED
      BY <3>2, <2>5, <1>0 DEF OnePlace
  <2> QED
    BY <2>1, <2>5
<1>4. ASSUME NEW j \in Jobs, CancelWaiting(j) PROVE MovesUp
  <2>1. PICK g \in DOMAIN pending : pending' = RemoveAt(pending, g)
    BY <1>4 DEF CancelWaiting
  <2>2. /\ pending' \in Seq(Jobs)
        /\ Len(pending') = Len(pending) - 1
        /\ \A m \in 1 .. Len(pending) - 1 :
             pending'[m] = IF m < g THEN pending[m] ELSE pending[m + 1]
    BY <2>1, RemoveAtProperties DEF TypeOK
  <2>3. DOMAIN pending' = 1 .. Len(pending) - 1
    BY <2>2, LenProperties
  <2>4. ASSUME NEW k \in DOMAIN pending, NEW m \in DOMAIN pending', pending[k] = pending'[m]
        PROVE  m <= k
    <3>1. m \in DOMAIN pending /\ m + 1 \in DOMAIN pending
      BY <2>3, <1>0
    <3>2. k = m \/ k = m + 1
      BY <2>2, <2>3, <2>4, <3>1 DEF OnePlace
    <3> QED
      BY <3>1, <3>2, <1>0
  <2>5. running' = running
    BY <1>4 DEF CancelWaiting, job
  <2> QED
    BY <2>4, <2>5
<1>5. CASE Worker /\ ~WorkerTakeJob
  <2>1. pending' = pending /\ running' \in {running, None}
    BY <1>5 DEF Worker, Look, Build, RunJob, WorkerQuit, WorkerTakeModel, WorkerIdle,
       WorkerPark, BuildPublish, BuildReply, BuildFails, Chunk, ChunkCancelled,
       SeparateFails, SeparateDone, Published, PublishFails, Complete, Clear,
       JobStepFrame, FailJob, job
  <2> QED
    BY <1>1, <2>1
<1>6. ASSUME NEW j \in Jobs, \/ Owner(j) /\ ~SubmitAccepted(j)
                             \/ CancelMissed(j) \/ CancelRunning(j)
      PROVE  MovesUp
  <2>1. pending' = pending /\ running' = running
    BY <1>6 DEF Owner, Submit, SubmitRefused, OwnerEnds, CancelMissed, CancelRunning, job
  <2> QED
    BY <1>1, <2>1
<1>7. CASE \/ \E i \in Installers : Install(i)
           \/ \E s \in Stoppers : Stop(s)
           \/ UNCHANGED vars
  <2>1. pending' = pending /\ running' = running
    BY <1>7 DEF Install, InstallRefused, InstallStage, InstallNotify, InstallReturn, Stop,
       StopFlag, StopDrain, StopCancel, StopNotify, StopTake, StopTaken, StopReturn,
       StopFrame, job, vars
  <2> QED
    BY <1>1, <2>1
<1> QED
  BY <1>2, <1>3, <1>4, <1>5, <1>6, <1>7 DEF Next, Cancel

LEMMA BeginsStep ==
  ASSUME [Next]_vars, shutdown
  PROVE  running' \in {running, None} /\ building' \in {building, None}
<1>1. CASE Worker
  BY <1>1 DEF Worker, Look, Build, RunJob, WorkerQuit, WorkerTakeModel, WorkerTakeJob,
     MayBegin, WorkerIdle, WorkerPark, BuildPublish, BuildReply, BuildFails, Chunk,
     ChunkCancelled, SeparateFails, SeparateDone, Published, PublishFails, Complete,
     Clear, JobStepFrame, FailJob, job, models
<1>2. ASSUME NEW j \in Jobs, Owner(j) \/ Cancel(j)
      PROVE  running' = running /\ building' = building
  BY <1>2 DEF Owner, Submit, SubmitAccepted, SubmitRefused, OwnerEnds, Cancel,
     CancelWaiting, CancelMissed, CancelRunning, job, models
<1>3. CASE \/ \E i \in Installers : Install(i)
           \/ \E s \in Stoppers : Stop(s)
           \/ UNCHANGED vars
  BY <1>3 DEF Install, InstallRefused, InstallStage, InstallNotify, InstallReturn, Stop,
     StopFlag, StopDrain, StopCancel, StopNotify, StopTake, StopTaken, StopReturn,
     StopFrame, job, models, vars
<1> QED
  BY <1>1, <1>2, <1>3 DEF Next

-----------------------------------------------------------------------------
(* The theorems *)

\* Everything above at once: what the proofs carry from state to state.
Inv ==
  /\ TypeOK /\ OnePlace /\ WorkerPhase /\ FlagIsAskedFor /\ StopPhase
  /\ NoLostWakeup /\ InstallAnswerable /\ NoJobDropped
  /\ CancelledOnlyIfAsked /\ StopReachesTheWorker /\ WaiterSeesWorkerOut

LEMMA InvInit == Init => Inv
<1> SUFFICES ASSUME Init PROVE Inv
  OBVIOUS
<1>1. NoJobDropped /\ CancelledOnlyIfAsked
  BY DEF Init, NoJobDropped, CancelledOnlyIfAsked
<1>2. StopReachesTheWorker /\ WaiterSeesWorkerOut
  BY DEF Init, StopReachesTheWorker, WaiterSeesWorkerOut
<1> QED
  BY <1>1, <1>2, InitTypeOK, InitInvariant DEF Inv

LEMMA TypeStep == TypeOK /\ WorkerPhase /\ [Next]_vars => TypeOK'
  BY LookTypeOK, BuildTypeOK, RunJobTypeOK, OwnerTypeOK, CancelTypeOK,
     InstallTypeOK, StopTypeOK, StutterTypeOK DEF Next, Worker

LEMMA InvStep == Inv /\ [Next]_vars => Inv'
<1> SUFFICES ASSUME Inv, [Next]_vars PROVE Inv'
  OBVIOUS
<1>1. TypeOK' /\ OnePlace' /\ WorkerPhase'
  BY TypeStep, OnePlaceStep, WorkerPhaseStep DEF Inv
<1>2. FlagIsAskedFor' /\ StopPhase' /\ NoLostWakeup' /\ InstallAnswerable'
  BY FlagStep, StopPhaseStep, WakeupStep, AnswerableStep DEF Inv
<1>3. NoJobDropped' /\ CancelledOnlyIfAsked'
  BY DroppedStep, CancelledStep DEF Inv
<1>4. StopReachesTheWorker' /\ WaiterSeesWorkerOut'
  BY StopReachesStep, WaiterStep DEF Inv
<1> QED
  BY <1>1, <1>2, <1>3, <1>4 DEF Inv

\* The invariant the others are read off.
THEOREM Invariance == Spec => []Inv
  BY InvInit, InvStep, PTL DEF Spec

\* Every variable keeps its type (the fields of Inner).
THEOREM TypeCorrect == Spec => []TypeOK
<1>1. Inv => TypeOK
  BY DEF Inv
<1> QED
  BY <1>1, Invariance, PTL

\* A job is in one place, and the line within its bound (submit, next, cancel).
THEOREM JobsAreInOnePlace == Spec => []OnePlace
<1>1. Inv => OnePlace
  BY DEF Inv
<1> QED
  BY <1>1, Invariance, PTL

\* No wakeup is lost between submit, install, stop and a worker about to sleep.
THEOREM NoWakeupIsLost == Spec => []NoLostWakeup
<1>1. Inv => NoLostWakeup
  BY DEF Inv
<1> QED
  BY <1>1, Invariance, PTL

\* Nobody blocked in install() is forgotten.
THEOREM EveryInstallIsAnswerable == Spec => []InstallAnswerable
<1>1. Inv => InstallAnswerable
  BY DEF Inv
<1> QED
  BY <1>1, Invariance, PTL

\* No job is abandoned by the worker, and none is cancelled unasked.
THEOREM JobsEndForAReason == Spec => []EndsForAReason
<1>1. Inv => EndsForAReason
  BY DEF Inv, EndsForAReason
<1> QED
  BY <1>1, Invariance, PTL

\* stop() reaches the job in flight, and the stop() that waited tells the truth.
THEOREM StopIsSound == Spec => []StopIsHonest
<1>1. Inv => StopIsHonest
  BY DEF Inv, StopIsHonest
<1> QED
  BY <1>1, Invariance, PTL

\* First come, first served: no job in line is overtaken (submit, next, cancel).
THEOREM NobodyIsOvertaken == Spec => LineMovesUp
<1>1. Inv /\ [Next]_vars =>
        [/\ \A k \in DOMAIN pending, m \in DOMAIN pending' :
              pending[k] = pending'[m] => m <= k
         /\ running' \notin {running, None} => running' = pending[1]]_vars
  BY LineStep DEF Inv
<1> QED
  BY <1>1, Invariance, PTL DEF Spec, LineMovesUp

\* Once shutdown is up no track and no build is begun (next, stop).
THEOREM ShutdownIsFinal == Spec => NothingBeginsAfterShutdown
<1>1. [Next]_vars =>
        [shutdown => /\ running' \in {running, None}
                     /\ building' \in {building, None}]_vars
  BY BeginsStep
<1> QED
  BY <1>1, PTL DEF Spec, NothingBeginsAfterShutdown

-----------------------------------------------------------------------------
(* The queue implements SerialService: behind its locks, wakeups and        *)
(* hand-overs its callers see one track at a time, in order, called off     *)
(* only for a reason.                                                       *)

\* What the service sees of the queue.

Serving == IF wpc \in {"separate", "publish", "complete"} THEN running ELSE None
Outcome == [j \in Jobs |-> IF IsTerminal(j) THEN stage[j] ELSE "none"]

\* A step of which the service sees nothing.
Unseen == UNCHANGED <<pending, Serving, Outcome, asked, separator, shutdown>>

LEMMA UnseenIsStutter == ASSUME Unseen PROVE UNCHANGED Service!vars
  BY DEF Unseen, Service!vars, Serving, Outcome

\* A stage that ends the job of k, and of no other, ends it for the service.
LEMMA EndedIsSeen ==
  ASSUME TypeOK, NEW k \in Jobs, NEW how \in Terminal, stage' = [stage EXCEPT ![k] = how]
  PROVE  Outcome' = [Outcome EXCEPT ![k] = how]
<1>1. \A j \in Jobs : (IsTerminal(j))' <=> IF j = k THEN TRUE ELSE IsTerminal(j)
  BY DEF TypeOK, IsTerminal
<1>2. \A j \in Jobs : stage'[j] = IF j = k THEN how ELSE stage[j]
  BY DEF TypeOK
<1>3. Outcome' = [j \in Jobs |-> IF (IsTerminal(j))' THEN stage'[j] ELSE "none"]
  BY DEF Outcome
<1> QED
  BY <1>1, <1>2, <1>3 DEF Outcome

\* A stage on the way there does not.
LEMMA WayIsUnseen ==
  ASSUME TypeOK, NEW k \in Jobs, ~IsTerminal(k), NEW s \in Stages \ Terminal,
         stage' = [stage EXCEPT ![k] = s]
  PROVE  Outcome' = Outcome
<1>1. \A j \in Jobs : (IsTerminal(j))' <=> IsTerminal(j)
  BY DEF TypeOK, IsTerminal
<1>2. \A j \in Jobs : IsTerminal(j) => stage'[j] = stage[j]
  BY DEF TypeOK
<1>3. Outcome' = [j \in Jobs |-> IF (IsTerminal(j))' THEN stage'[j] ELSE "none"]
  BY DEF Outcome
<1> QED
  BY <1>1, <1>2, <1>3 DEF Outcome

LEMMA StageIsOutcome == ASSUME UNCHANGED stage PROVE Outcome' = Outcome
<1>1. \A j \in Jobs : (IsTerminal(j))' <=> IsTerminal(j)
  BY DEF IsTerminal
<1> QED
  BY <1>1 DEF Outcome

-----------------------------------------------------------------------------
(* One lemma for each thing the service does *)

LEMMA AcceptStep ==
  ASSUME Inv, NEW j \in Jobs, SubmitAccepted(j)
  PROVE  Service!Next
<1>1. stage[j] = "queued" /\ running # j
  BY QueueAssumption DEF SubmitAccepted, Inv, WorkerPhase
<1>2. \A k \in DOMAIN pending : pending[k] # j
  BY DEF SubmitAccepted, Inv, OnePlace
<1>3. UNCHANGED <<Outcome, asked, separator, shutdown>>
  <2>1. UNCHANGED stage
    BY <1>1, <1>2 DEF SubmitAccepted, Inv, TypeOK
  <2> QED
    BY <2>1, StageIsOutcome DEF SubmitAccepted, models
<1>4. Serving' = Serving /\ Serving # j
  BY <1>1, <1>2, QueueAssumption DEF SubmitAccepted, Serving, Woken, job
<1>5. Outcome[j] = "none"
  BY <1>1, <1>2 DEF Outcome, IsTerminal, Terminal
<1>6. Len(pending) < MaxDepth /\ pending' = Append(pending, j)
  BY DEF SubmitAccepted, HasRoom, Joined
<1>7. Service!Accept(j)
  BY <1>1, <1>2, <1>3, <1>4, <1>5, <1>6 DEF Service!Accept, Serving, Outcome
<1> QED
  BY <1>7 DEF Service!Next

LEMMA CallOffStep ==
  ASSUME NEW j \in Jobs, CancelWaiting(j) \/ CancelMissed(j)
  PROVE  Service!Next
<1>1. UNCHANGED <<Serving, Outcome, separator, shutdown>> /\ asked' = asked \cup {j}
  BY StageIsOutcome DEF CancelWaiting, CancelMissed, Serving, models, job
<1>2. IF \E k \in DOMAIN pending : pending[k] = j
      THEN \E k \in DOMAIN pending : pending[k] = j /\ pending' = RemoveAt(pending, k)
      ELSE pending' = pending
  <2>1. CASE CancelWaiting(j)
    BY <2>1, Zenon DEF CancelWaiting
  <2>2. CASE CancelMissed(j)
    BY <2>2, Zenon DEF CancelMissed, Waiting
  <2> QED
    BY <2>1, <2>2
<1>3. Service!CallOff(j)
  <2>1. \A k : Service!RemoveAt(pending, k) = RemoveAt(pending, k)
    BY DEF Service!RemoveAt, RemoveAt
  <2> QED
    BY <1>1, <1>2, <2>1 DEF Service!CallOff, Serving, Outcome
<1> QED
  BY <1>3 DEF Service!Next

LEMMA ElsewhereStep ==
  ASSUME Inv, NEW j \in Jobs, NEW how \in {"done", "failed"}, OwnerEnds(j, how)
  PROVE  Service!Next
<1>1. Outcome' = [Outcome EXCEPT ![j] = how]
  BY EndedIsSeen DEF OwnerEnds, Inv, Terminal
<1>2. Outcome[j] = "none"
  BY DEF OwnerEnds, Outcome, IsTerminal, Terminal
<1>3. /\ Serving' = Serving /\ Serving # j
      /\ UNCHANGED <<pending, asked, separator, shutdown>>
  BY QueueAssumption DEF OwnerEnds, Serving, models, job
<1>4. \A k \in DOMAIN pending : pending[k] # j
  BY DEF OwnerEnds, Waiting
<1>5. Service!Elsewhere(j, how)
  BY <1>1, <1>2, <1>3, <1>4 DEF Service!Elsewhere, Serving, Outcome
<1> QED
  BY <1>5 DEF Service!Next

LEMMA BeginStep == ASSUME Inv, WorkerTakeJob PROVE Service!Next
<1>1. /\ Serving = None /\ Serving' = Head(pending) /\ pending' = Tail(pending)
      /\ pending # <<>> /\ ~shutdown
      /\ UNCHANGED <<Outcome, asked, separator, shutdown>>
  BY StageIsOutcome DEF WorkerTakeJob, MayBegin, Serving, models, history
<1>2. Service!Begin
  BY <1>1 DEF Service!Begin, Serving, Outcome
<1> QED
  BY <1>2 DEF Service!Next

\* The end of the job in the worker's hands.
LEMMA EndStep ==
  ASSUME Inv, ChunkCancelled \/ SeparateFails \/ PublishFails \/ Complete
  PROVE  Service!Next
<1>1. /\ wpc \in {"separate", "publish", "complete"} /\ wpc' = "clear"
      /\ Serving = running /\ running \in Jobs
      /\ UNCHANGED <<pending, asked, separator, shutdown>>
  BY DEF ChunkCancelled, SeparateFails, PublishFails, Complete, JobStepFrame, Serving, models,
         history, Inv, WorkerPhase, TypeOK
<1>2. Serving' = None /\ Serving # None
  BY <1>1, QueueAssumption DEF Serving
<1>3. PICK how \in Terminal :
        /\ stage' = [stage EXCEPT ![running] = how]
        /\ how = "cancelled" => shutdown \/ running \in asked
  BY <1>1, <1>2 DEF ChunkCancelled, SeparateFails, PublishFails, Complete, FailJob, CallsOff,
     Terminal, Inv, FlagIsAskedFor
<1>4. Outcome' = [Outcome EXCEPT ![Serving] = how]
  BY <1>1, <1>3, EndedIsSeen DEF Inv
<1>5. Service!End(how)
  BY <1>1, <1>2, <1>3, <1>4 DEF Service!End, Serving, Outcome
<1>6. how \in Service!Outcomes \ {"none"}
  BY <1>3 DEF Service!Outcomes, Terminal
<1> QED
  BY <1>5, <1>6 DEF Service!Next

LEMMA SwitchModelStep == ASSUME Inv, BuildReply PROVE Service!Next
<1>1. building \in Models
  BY DEF BuildReply, Inv, WorkerPhase, TypeOK, Models
<1>2. /\ Serving = None /\ Serving' = None /\ separator' = building
      /\ UNCHANGED <<pending, Outcome, asked, shutdown>>
  BY StageIsOutcome DEF BuildReply, Serving, history
<1>3. Service!Switch(building)
  BY <1>2 DEF Service!Switch, Serving, Outcome
<1> QED
  BY <1>1, <1>3 DEF Service!Next

LEMMA CloseStep == ASSUME NEW s \in Stoppers, StopFlag(s) PROVE Service!Next
<1>1. /\ shutdown' = TRUE
      /\ UNCHANGED <<pending, Serving, Outcome, asked, separator>>
  BY StageIsOutcome DEF StopFlag, Serving, models, job, history
<1>2. Service!Close
  BY <1>1 DEF Service!Close, Serving, Outcome
<1> QED
  BY <1>2 DEF Service!Next

-----------------------------------------------------------------------------
(* Everything else is unseen *)

LEMMA LookUnseen ==
  ASSUME WorkerQuit \/ WorkerTakeModel \/ WorkerIdle \/ WorkerPark \/ BuildPublish \/ BuildFails
  PROVE  Unseen
<1>1. UNCHANGED <<stage, pending, asked, separator, shutdown>>
  BY DEF WorkerQuit, WorkerTakeModel, WorkerIdle, WorkerPark, BuildPublish, BuildFails, models, history
<1>2. Serving' = Serving
  BY DEF WorkerQuit, WorkerTakeModel, WorkerIdle, WorkerPark, BuildPublish, BuildFails, MayBegin, Serving
<1> QED
  BY <1>1, <1>2, StageIsOutcome DEF Unseen

LEMMA JobUnseen ==
  ASSUME Inv, Chunk \/ SeparateDone \/ Published \/ Clear
  PROVE  Unseen
<1>1. UNCHANGED <<pending, asked, separator, shutdown>>
  BY DEF Chunk, SeparateDone, Published, Clear, JobStepFrame, models, history
<1>2. Serving' = Serving
  BY DEF Chunk, SeparateDone, Published, Clear, Serving
<1>3. CASE Chunk \/ SeparateDone
  <2>1. running \in Jobs /\ ~IsTerminal(running)
    BY <1>3, QueueAssumption
       DEF Chunk, SeparateDone, Inv, WorkerPhase, TypeOK, IsTerminal, Terminal
  <2>2. \E s \in Stages \ Terminal : stage' = [stage EXCEPT ![running] = s]
    BY <1>3 DEF Chunk, SeparateDone, Stages, Terminal
  <2> QED
    BY <1>1, <1>2, <2>1, <2>2, WayIsUnseen DEF Unseen, Inv
<1>4. CASE Published \/ Clear
  <2>1. UNCHANGED stage
    BY <1>4 DEF Published, Clear
  <2> QED
    BY <1>1, <1>2, <2>1, StageIsOutcome DEF Unseen
<1> QED
  BY <1>3, <1>4

LEMMA CallersUnseen ==
  ASSUME Inv,
         \/ \E j \in Jobs : SubmitRefused(j) \/ CancelRunning(j)
         \/ \E i \in Installers : Install(i)
         \/ \E s \in Stoppers : Stop(s) /\ ~StopFlag(s)
         \/ UNCHANGED vars
  PROVE  Unseen
<1>1. UNCHANGED <<stage, pending, asked, separator, shutdown, running>> /\ wpc' \in {wpc, Woken}
  <2>1. CASE \/ \E j \in Jobs : SubmitRefused(j) \/ CancelRunning(j)
             \/ \E i \in Installers : Install(i)
    BY <2>1 DEF SubmitRefused, CancelRunning, Install, InstallRefused, InstallStage, InstallNotify,
       InstallReturn, models, history, job
  <2>2. CASE \/ \E s \in Stoppers : Stop(s) /\ ~StopFlag(s)
             \/ UNCHANGED vars
    BY <2>2 DEF Stop, StopDrain, StopCancel, StopNotify, StopTake, StopTaken, StopReturn,
       StopFrame, models, history, job, vars
  <2> QED
    BY <2>1, <2>2
<1>2. Serving' = Serving
  BY <1>1 DEF Serving, Woken
<1> QED
  BY <1>1, <1>2, StageIsOutcome DEF Unseen

-----------------------------------------------------------------------------
(* The refinement *)

LEMMA ServiceStep == ASSUME Inv, [Next]_vars PROVE [Service!Next]_(Service!vars)
<1>1. CASE Worker
  BY <1>1, BeginStep, EndStep, SwitchModelStep, LookUnseen, JobUnseen, UnseenIsStutter
     DEF Worker, Look, Build, RunJob
<1>2. ASSUME NEW j \in Jobs, Owner(j) \/ Cancel(j)
      PROVE  [Service!Next]_(Service!vars)
  <2>1. CASE SubmitAccepted(j) \/ CancelWaiting(j) \/ CancelMissed(j)
    BY <2>1, AcceptStep, CallOffStep
  <2>2. CASE OwnerEnds(j, "done") \/ OwnerEnds(j, "failed")
    BY <2>2, ElsewhereStep
  <2>3. CASE SubmitRefused(j) \/ CancelRunning(j)
    BY <2>3, CallersUnseen, UnseenIsStutter
  <2> QED
    BY <1>2, <2>1, <2>2, <2>3 DEF Owner, Submit, Cancel
<1>3. CASE \E i \in Installers : Install(i)
  BY <1>3, CallersUnseen, UnseenIsStutter
<1>4. CASE \E s \in Stoppers : Stop(s)
  BY <1>4, CloseStep, CallersUnseen, UnseenIsStutter
<1>5. CASE UNCHANGED vars
  BY <1>5, CallersUnseen, UnseenIsStutter
<1> QED
  BY <1>1, <1>2, <1>3, <1>4, <1>5 DEF Next

\* Whatever the interleaving of its callers and its worker, the queue is a serial,
\* bounded, first-come-first-served service (queue.rs: "One job at a time").
THEOREM QueueIsTheService == Spec => ImplementsService
<1>1. Init => Service!Init
  BY DEF Init, Service!Init, IsTerminal, Terminal
<1>2. Inv /\ [Next]_vars => [Service!Next]_(Service!vars)
  BY ServiceStep
<1> QED
  BY <1>1, <1>2, Invariance, PTL DEF Spec, ImplementsService, Service!Spec
=============================================================================
