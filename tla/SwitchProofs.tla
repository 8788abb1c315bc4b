---------------------------- MODULE SwitchProofs ----------------------------
(***************************************************************************)
(* Theorems about the model switch, for any presets, jobs and switches: it  *)
(* implements the queue's specification, and the names follow the model of  *)
(* a switch that ran alone.                                                 *)
(***************************************************************************)
EXTENDS SwitchProperties, QueueProofs

-----------------------------------------------------------------------------
(* Every step is a step of the queue, or none *)

LEMMA SwitchStepsAreQueueSteps == [SwitchNext]_allVars => [Next]_vars
<1> SUFFICES ASSUME [SwitchNext]_allVars PROVE [Next]_vars
  OBVIOUS
<1>1. ASSUME NEW i \in Installers, Request(i) PROVE [Next]_vars
  BY <1>1, Zenon DEF Request, RequestCheck, RequestSpawn, RequestSame
<1>2. ASSUME NEW i \in Installers, RunSwitch(i) PROVE [Next]_vars
  <2>1. CASE CallInstall(i)
    BY <2>1, Zenon DEF CallInstall, Next
  <2> QED
    BY <1>2, <2>1, Zenon DEF RunSwitch, StageArtefact, Load, Adopt, Save, Settle, SwitchFails
<1>3. ASSUME NEW j \in Jobs, Identify(j) \/ Enqueue(j) PROVE [Next]_vars
  BY <1>3, Zenon DEF Identify, Enqueue, Next, Owner
<1>4. CASE Dismiss
  BY <1>4, Zenon DEF Dismiss
<1>5. CASE PublishStems \/ WorkerOther
  BY <1>5, Zenon DEF PublishStems, WorkerOther, Next, Worker, RunJob
<1>6. ASSUME NEW s \in Stoppers, StopCall(s) PROVE [Next]_vars
  BY <1>6, Zenon DEF StopCall, Next
<1>7. CASE UNCHANGED allVars
  BY <1>7 DEF allVars
<1> QED
  BY <1>1, <1>2, <1>3, <1>4, <1>5, <1>6, <1>7 DEF SwitchNext

-----------------------------------------------------------------------------
(* The invariant, and the steps that have no part in a switch *)

SwitchInv == SwitchShape /\ CrossedOrAlone /\ HeldOnce /\ CallsAreTheThreads /\ NamesFollow

LEMMA SwitchInvInit == SwitchInit => SwitchInv
<1> SUFFICES ASSUME SwitchInit PROVE SwitchInv
  OBVIOUS
<1> USE QueueAssumption, SwitchAssumption DEF SwitchInit, Init, Started
<1>1. SwitchShape
  BY DEF SwitchShape, SwitchState, ThreadState
<1>2. CrossedOrAlone
  BY DEF CrossedOrAlone, InFlight
<1>3. HeldOnce
  BY DEF HeldOnce
<1>4. CallsAreTheThreads
  BY DEF CallsAreTheThreads
<1>5. NamesFollow
  BY DEF NamesFollow, Swapped, PresetOf, LoadedPresets
<1> QED
  BY <1>1, <1>2, <1>3, <1>4, <1>5 DEF SwitchInv

\* The calls, the models and the window are as they were, and the worker is about
\* to answer if it was.
Bystander == /\ UNCHANGED <<models, callers, window>>
             /\ wpc = "reply" <=> wpc' = "reply"

LEMMA BystanderStep == SwitchInv /\ Bystander => SwitchInv'
<1> SUFFICES ASSUME SwitchInv, Bystander PROVE SwitchInv'
  OBVIOUS
<1> USE DEF Bystander, models, callers, window
<1>1. SwitchShape' /\ CrossedOrAlone'
  BY DEF SwitchInv, SwitchShape, CrossedOrAlone
<1>2. HeldOnce' /\ CallsAreTheThreads'
  BY DEF SwitchInv, HeldOnce, CallsAreTheThreads
<1>3. NamesFollow'
  BY DEF SwitchInv, NamesFollow, Swapped, PresetOf, LoadedPresets
<1> QED
  BY <1>1, <1>2, <1>3 DEF SwitchInv

LEMMA JobsStandBy ==
  ASSUME NEW j \in Jobs, Identify(j) \/ Enqueue(j)
  PROVE  Bystander
<1> USE DEF Bystander, JobsKept
<1>1. CASE Identify(j)
  BY <1>1 DEF Identify, vars, models, callers
<1>2. CASE Enqueue(j) /\ SubmitAccepted(j)
  BY <1>2 DEF Enqueue, SubmitAccepted, Woken
<1>3. CASE Enqueue(j) /\ SubmitRefused(j)
  BY <1>3 DEF Enqueue, SubmitRefused
<1> QED
  BY <1>1, <1>2, <1>3 DEF Enqueue, Submit

LEMMA StopsStandBy ==
  ASSUME NEW s \in Stoppers, StopCall(s)
  PROVE  Bystander \/ StopDrain(s)
<1> USE DEF Bystander, StopCall
<1>1. CASE StopFlag(s)
  BY <1>1 DEF StopFlag
<1>2. CASE StopCancel(s)
  BY <1>2 DEF StopCancel
<1>3. CASE StopNotify(s)
  BY <1>3 DEF StopNotify, Woken
<1>4. CASE StopTake(s) \/ StopTaken(s) \/ StopReturn(s)
  BY <1>4 DEF StopTake, StopTaken, StopReturn, StopFrame
<1> QED
  BY <1>1, <1>2, <1>3, <1>4 DEF Stop

LEMMA SeparatingStandsBy ==
  ASSUME PublishStems \/ WorkerOther
  PROVE  Bystander \/ ((WorkerTakeModel \/ Build) /\ UNCHANGED window)
<1> USE DEF Bystander, JobsKept
<1>1. CASE PublishStems
  BY <1>1 DEF PublishStems, Published, JobStepFrame
<1>2. CASE WorkerOther /\ Look
  BY <1>2 DEF WorkerOther, Look, WorkerQuit, WorkerTakeJob, WorkerIdle, WorkerPark, MayBegin
<1>3. CASE WorkerOther /\ (Chunk \/ ChunkCancelled \/ SeparateFails \/ SeparateDone)
  BY <1>3 DEF WorkerOther, Chunk, ChunkCancelled, SeparateFails, SeparateDone, JobStepFrame
<1>4. CASE WorkerOther /\ (PublishFails \/ Complete \/ Clear)
  BY <1>4 DEF WorkerOther, PublishFails, Complete, Clear, JobStepFrame
<1>5. CASE WorkerOther /\ Build
  BY <1>5 DEF WorkerOther
<1> QED
  BY <1>1, <1>2, <1>3, <1>4, <1>5 DEF WorkerOther

-----------------------------------------------------------------------------
(* The steps of the window and of a switch thread *)

LEMMA ThreadShape ==
  ASSUME NEW i \in Installers, SwitchInv, TypeOK,
         Request(i) \/ (RunSwitch(i) /\ ~CallInstall(i))
  PROVE  SwitchShape'
<1> USE DEF SwitchInv, SwitchShape, Steps, SwitchState, ThreadState, InFlight, Busy, Beside
<1>1. CASE \E p \in Presets : RequestCheck(i, p)
  BY <1>1, QueueAssumption DEF RequestCheck
<1>2. CASE RequestSpawn(i)
  BY <1>2, QueueAssumption DEF RequestSpawn
<1>3. CASE RequestSame(i)
  BY <1>3, QueueAssumption DEF RequestSame
<1>4. CASE StageArtefact(i)
  BY <1>4, QueueAssumption DEF StageArtefact
<1>5. CASE Load(i)
  BY <1>5, QueueAssumption DEF Load
<1>6. CASE Adopt(i)
  BY <1>6, QueueAssumption DEF Adopt
<1>7. CASE Save(i)
  BY <1>7, QueueAssumption DEF Save
<1>8. CASE Settle(i)
  BY <1>8, QueueAssumption DEF Settle
<1>9. CASE SwitchFails(i)
  BY <1>9, QueueAssumption DEF SwitchFails
<1> QED
  BY <1>1, <1>2, <1>3, <1>4, <1>5, <1>6, <1>7, <1>8, <1>9 DEF Request, RunSwitch

LEMMA ThreadCrosses ==
  ASSUME NEW i \in Installers, SwitchInv, TypeOK,
         Request(i) \/ (RunSwitch(i) /\ ~CallInstall(i))
  PROVE  CrossedOrAlone'
<1> USE DEF SwitchInv, SwitchShape, CrossedOrAlone, Steps, SwitchState, ThreadState, InFlight, Busy, MayRequest, Overlooks, Beside
<1>1. CASE \E p \in Presets : RequestCheck(i, p)
  BY <1>1, QueueAssumption DEF RequestCheck
<1>2. CASE RequestSpawn(i)
  BY <1>2, QueueAssumption DEF RequestSpawn
<1>3. CASE RequestSame(i)
  BY <1>3, QueueAssumption DEF RequestSame
<1>4. CASE StageArtefact(i)
  BY <1>4, QueueAssumption DEF StageArtefact
<1>5. CASE Load(i)
  BY <1>5, QueueAssumption DEF Load
<1>6. CASE Adopt(i)
  BY <1>6, QueueAssumption DEF Adopt
<1>7. CASE Save(i)
  BY <1>7, QueueAssumption DEF Save
<1>8. CASE Settle(i)
  BY <1>8, QueueAssumption DEF Settle
<1>9. CASE SwitchFails(i)
  BY <1>9, QueueAssumption DEF SwitchFails
<1> QED
  BY <1>1, <1>2, <1>3, <1>4, <1>5, <1>6, <1>7, <1>8, <1>9 DEF Request, RunSwitch

LEMMA ThreadCalls ==
  ASSUME NEW i \in Installers, SwitchInv, TypeOK,
         Request(i) \/ (RunSwitch(i) /\ ~CallInstall(i))
  PROVE  HeldOnce' /\ CallsAreTheThreads'
<1> USE DEF SwitchInv, SwitchShape, HeldOnce, CallsAreTheThreads, Steps, InFlight, vars, models, callers, Loaded, Rejected
<1>1. CASE \E p \in Presets : RequestCheck(i, p)
  BY <1>1, QueueAssumption DEF RequestCheck
<1>2. CASE RequestSpawn(i)
  BY <1>2, QueueAssumption DEF RequestSpawn
<1>3. CASE RequestSame(i)
  BY <1>3, QueueAssumption DEF RequestSame
<1>4. CASE StageArtefact(i)
  BY <1>4, QueueAssumption DEF StageArtefact
<1>5. CASE Load(i)
  BY <1>5, QueueAssumption DEF Load
<1>6. CASE Adopt(i)
  BY <1>6, QueueAssumption DEF Adopt
<1>7. CASE Save(i)
  BY <1>7, QueueAssumption DEF Save
<1>8. CASE Settle(i)
  BY <1>8, QueueAssumption DEF Settle
<1>9. CASE SwitchFails(i)
  BY <1>9, QueueAssumption DEF SwitchFails
<1> QED
  BY <1>1, <1>2, <1>3, <1>4, <1>5, <1>6, <1>7, <1>8, <1>9 DEF Request, RunSwitch

\* A thread that has not called install() yet has no model that runs.
LEMMA NotYetCalled ==
  ASSUME SwitchInv, NEW i \in Installers, thread[i] \in {"idle", "checked", "spawned", "staging"}
  PROVE  inst[i] = "idle" /\ reply[i] = None /\ ~Swapped(i) /\ separator # i
  BY QueueAssumption DEF SwitchInv, CallsAreTheThreads, Swapped, Replies

LEMMA ThreadNames ==
  ASSUME NEW i \in Installers, SwitchInv, TypeOK,
         Request(i) \/ (RunSwitch(i) /\ ~CallInstall(i))
  PROVE  NamesFollow'
<1> USE DEF SwitchInv, SwitchShape, CallsAreTheThreads, NamesFollow, PresetOf, LoadedPresets, Steps, InFlight, vars, models, callers, Loaded, Rejected, TypeOK, Models, Replies, Swapped
<1>1. CASE \E p \in Presets : RequestCheck(i, p)
  BY <1>1, QueueAssumption DEF RequestCheck
<1>2. CASE RequestSpawn(i)
  BY <1>2, QueueAssumption DEF RequestSpawn
<1>3. CASE RequestSame(i)
  BY <1>3, QueueAssumption DEF RequestSame
<1>4. CASE StageArtefact(i)
  BY <1>4, QueueAssumption DEF StageArtefact
<1>5. CASE Load(i)
  BY <1>5, QueueAssumption DEF Load
<1>6. CASE Adopt(i)
  BY <1>6, QueueAssumption DEF Adopt
<1>7. CASE Save(i)
  BY <1>7, QueueAssumption DEF Save
<1>8. CASE Settle(i)
  BY <1>8, QueueAssumption DEF Settle
<1>9. CASE SwitchFails(i)
  BY <1>9, QueueAssumption DEF SwitchFails
<1> QED
  BY <1>1, <1>2, <1>3, <1>4, <1>5, <1>6, <1>7, <1>8, <1>9 DEF Request, RunSwitch

-----------------------------------------------------------------------------
(* The steps of the queue that install a model *)

\* The step is somebody's who waits for a model, or makes one.
Installing == \/ \E i \in Installers : CallInstall(i)
              \/ \E s \in Stoppers : StopDrain(s) /\ UNCHANGED window
              \/ (WorkerTakeModel \/ Build) /\ UNCHANGED window

LEMMA InstallHeld ==
  ASSUME SwitchInv, TypeOK, WorkerPhase, Installing
  PROVE  HeldOnce' /\ CallsAreTheThreads'
<1> USE QueueAssumption DEF SwitchInv, HeldOnce, CallsAreTheThreads, Replies
<1>0. /\ inst \in [Installers -> {"idle", "staged", "waiting", "returned"}]
      /\ ousted \in [Installers -> Installers \cup {None}]
      /\ reply \in [Installers -> Replies \cup {None}]
      /\ incoming \in Installers \cup {None} /\ building \in Installers \cup {None}
  BY DEF TypeOK
<1>1. ASSUME NEW i \in Installers, CallInstall(i) PROVE HeldOnce' /\ CallsAreTheThreads'
  <2>1. thread[i] = "loading" /\ UNCHANGED thread
    BY <1>1 DEF CallInstall, window
  <2>2. CASE InstallRefused(i)
    BY <1>0, <2>1, <2>2 DEF InstallRefused, models
  <2>3. CASE InstallStage(i)
    BY <1>0, <2>1, <2>3 DEF InstallStage
  <2>4. CASE InstallNotify(i)
    BY <1>0, <2>1, <2>4 DEF InstallNotify, Superseding, models
  <2>5. CASE InstallReturn(i)
    BY <1>0, <2>1, <2>5 DEF InstallReturn, models
  <2> QED
    BY <1>1, <2>2, <2>3, <2>4, <2>5 DEF CallInstall, Install
<1>2. ASSUME NEW s \in Stoppers, StopDrain(s), UNCHANGED window PROVE HeldOnce' /\ CallsAreTheThreads'
  BY <1>0, <1>2 DEF StopDrain, window
<1>3. CASE WorkerTakeModel /\ UNCHANGED window
  <2>1. building = None
    BY <1>3 DEF WorkerTakeModel, MayBegin, WorkerPhase
  <2> QED
    BY <1>0, <1>3, <2>1 DEF WorkerTakeModel, MayBegin, callers, window
<1>4. CASE BuildPublish /\ UNCHANGED window
  BY <1>0, <1>4 DEF BuildPublish, callers, window
<1>5. CASE BuildReply /\ UNCHANGED window
  <2>1. building \in Installers
    BY <1>0, <1>5 DEF BuildReply, WorkerPhase
  <2> QED
    BY <1>0, <1>5, <2>1 DEF BuildReply, window
<1>6. CASE BuildFails /\ UNCHANGED window
  <2>1. building \in Installers
    BY <1>0, <1>6 DEF BuildFails, WorkerPhase
  <2> QED
    BY <1>0, <1>6, <2>1 DEF BuildFails, window
<1> QED
  BY <1>1, <1>2, <1>3, <1>4, <1>5, <1>6 DEF Installing, Build

\* A step that leaves the models alone, and turns no answer into another, leaves
\* the names where they were.
LEMMA NamesStay ==
  ASSUME SwitchInv, UNCHANGED <<info, separator, window>>,
         wpc = "reply" <=> wpc' = "reply", wpc = "reply" => UNCHANGED building,
         \A k \in Installers : reply'[k] = reply[k] \/ (reply[k] # "ok" /\ reply'[k] # "ok")
  PROVE  NamesFollow'
<1>1. \A k \in Installers : Swapped(k)' <=> Swapped(k)
  BY DEF Swapped, window
<1>2. LoadedPresets' = LoadedPresets
  BY DEF LoadedPresets, window
<1> QED
  BY <1>1, <1>2 DEF SwitchInv, NamesFollow, PresetOf, window

LEMMA InstallNames ==
  ASSUME SwitchInv, WorkerPhase, TypeOK, Installing
  PROVE  NamesFollow'
<1> USE QueueAssumption DEF Replies
<1>0. /\ reply \in [Installers -> Replies \cup {None}]
      /\ incoming \in Installers \cup {None} /\ building \in Installers \cup {None}
      /\ ousted \in [Installers -> Installers \cup {None}]
  BY DEF TypeOK
<1>1. ASSUME NEW i \in Installers, CallInstall(i) PROVE NamesFollow'
  <2>1. UNCHANGED <<info, separator, building, window>>
    BY <1>1 DEF CallInstall, Install, InstallRefused, InstallStage, InstallNotify, InstallReturn, models
  <2>2. wpc = "reply" <=> wpc' = "reply"
    BY <1>1 DEF CallInstall, Install, InstallRefused, InstallStage, InstallNotify, InstallReturn, Woken
  <2>3. ASSUME NEW k \in Installers
        PROVE  reply'[k] = reply[k] \/ (reply[k] # "ok" /\ reply'[k] # "ok")
    <3>1. CASE InstallNotify(i)
      BY <1>0, <3>1 DEF InstallNotify, Superseding, SwitchInv, HeldOnce
    <3>2. CASE InstallRefused(i)
      BY <1>0, <3>2 DEF InstallRefused, SwitchInv, CallsAreTheThreads
    <3> QED
      BY <1>1, <3>1, <3>2 DEF CallInstall, Install, InstallStage, InstallReturn
  <2> QED
    BY <2>1, <2>2, <2>3, NamesStay
<1>2. ASSUME NEW s \in Stoppers, StopDrain(s), UNCHANGED window PROVE NamesFollow'
  <2>1. ASSUME NEW k \in Installers
        PROVE  reply'[k] = reply[k] \/ (reply[k] # "ok" /\ reply'[k] # "ok")
    BY <1>0, <1>2 DEF StopDrain, SwitchInv, HeldOnce
  <2> QED
    BY <1>2, <2>1, NamesStay DEF StopDrain
<1>3. CASE WorkerTakeModel /\ UNCHANGED window
  BY <1>3, NamesStay DEF WorkerTakeModel, MayBegin, callers
<1>4. CASE BuildPublish /\ UNCHANGED window
  <2>1. info' = building' /\ wpc' = "reply" /\ UNCHANGED <<separator, callers, window>>
    BY <1>4 DEF BuildPublish
  <2> QED
    BY <2>1 DEF SwitchInv, NamesFollow, Swapped, PresetOf, LoadedPresets, callers, window
<1>5. CASE BuildReply /\ UNCHANGED window
  <2>1. PICK b \in Installers : b = building
    BY <1>0, <1>5 DEF BuildReply, WorkerPhase
  <2>2. /\ info' = b /\ separator' = b /\ wpc' = "next" /\ reply' = [reply EXCEPT ![b] = "ok"]
        /\ UNCHANGED window
    BY <1>5, <2>1 DEF BuildReply, SwitchInv, NamesFollow
  <2>3. thread[b] = "loading"
    BY <2>1 DEF SwitchInv, HeldOnce, CallsAreTheThreads
  <2>4. ASSUME NEW k \in Installers \ {b}, b \notin crossed PROVE ~Swapped(k)'
    BY <1>0, <2>2, <2>3, <2>4 DEF SwitchInv, CrossedOrAlone, InFlight, Swapped, window
  <2>5. LoadedPresets \subseteq LoadedPresets'
    BY <1>0, <2>2 DEF LoadedPresets, window
  <2> QED
    BY <2>2, <2>3, <2>4, <2>5 DEF SwitchInv, NamesFollow, window
<1>6. CASE BuildFails /\ UNCHANGED window
  <2>1. building \in Installers
    BY <1>0, <1>6 DEF BuildFails, WorkerPhase
  <2>2. \A k \in Installers : reply'[k] = reply[k] \/ (reply[k] # "ok" /\ reply'[k] # "ok")
    BY <1>0, <1>6, <2>1 DEF BuildFails, SwitchInv, HeldOnce
  <2> QED
    BY <1>6, <2>2, NamesStay DEF BuildFails
<1> QED
  BY <1>1, <1>2, <1>3, <1>4, <1>5, <1>6 DEF Installing, Build

LEMMA SwitchInvStep ==
  ASSUME SwitchInv, Inv, [SwitchNext]_allVars
  PROVE  SwitchInv'
<1> USE DEF Inv
<1>1. CASE Bystander
  BY <1>1, BystanderStep
<1>2. ASSUME NEW i \in Installers, Request(i) \/ (RunSwitch(i) /\ ~CallInstall(i))
      PROVE  SwitchInv'
  BY <1>2, ThreadShape, ThreadCrosses, ThreadCalls, ThreadNames DEF SwitchInv
<1>3. CASE Installing
  <2>1. UNCHANGED window
    BY <1>3 DEF Installing, CallInstall
  <2>2. SwitchShape' /\ CrossedOrAlone'
    BY <2>1 DEF SwitchInv, SwitchShape, CrossedOrAlone, window
  <2> QED
    BY <1>3, <2>2, InstallHeld, InstallNames DEF SwitchInv
<1>4. CASE Dismiss
  <2>1. /\ state = "failed" /\ state' = "idle"
        /\ UNCHANGED <<vars, current, saved, clicked, thread, picked, crossed>>
    BY <1>4 DEF Dismiss
  <2>2. SwitchShape' /\ CrossedOrAlone'
    BY <2>1 DEF SwitchInv, SwitchShape, SwitchState, CrossedOrAlone, Busy
  <2>3. HeldOnce' /\ CallsAreTheThreads' /\ NamesFollow'
    BY <2>1 DEF SwitchInv, HeldOnce, CallsAreTheThreads, NamesFollow, Swapped, PresetOf,
                LoadedPresets, vars, models, callers
  <2> QED
    BY <2>2, <2>3 DEF SwitchInv
<1>5. ASSUME NEW s \in Stoppers, StopCall(s) PROVE SwitchInv'
  BY <1>5, <1>1, <1>3, StopsStandBy DEF StopCall, Installing
<1>6. CASE UNCHANGED allVars
  BY <1>6, <1>1 DEF allVars, switchVars, vars, Bystander
<1> QED
  BY <1>1, <1>2, <1>3, <1>4, <1>5, <1>6, JobsStandBy, SeparatingStandsBy
     DEF SwitchNext, Installing

-----------------------------------------------------------------------------
(* The theorems *)

\* Whatever is clicked, the queue's specification is kept, so that its theorems
\* hold beside a switch: nobody blocked in install() is forgotten, and nothing is
\* built once shutdown is up (switch.rs run, queue.rs install).
THEOREM SwitchImplementsQueue == SwitchSpec => Spec
<1>1. SwitchInit => Init
  BY DEF SwitchInit
<1> QED
  BY <1>1, SwitchStepsAreQueueSteps, PTL DEF SwitchSpec, Spec

\* Between switches the preset the server names, keys its stems with and will
\* start on is the one the worker runs, for any clicks at any time: but while the
\* model that runs is of a switch that ran beside another, until the next that runs
\* alone.  And what is named and saved has always been loaded (switch.rs run:
\* "Blocks until the worker has actually swapped").
THEOREM NamesMatchTheModel == SwitchSpec => []NamedModelIsLoaded
<1>1. SwitchInit => SwitchInv /\ Inv
  BY SwitchInvInit, InvInit DEF SwitchInit
<1>2. SwitchInv /\ Inv /\ [SwitchNext]_allVars => (SwitchInv /\ Inv)'
  BY SwitchInvStep, InvStep, SwitchStepsAreQueueSteps
<1>3. SwitchInv /\ Inv => NamedModelIsLoaded
  <2> SUFFICES ASSUME SwitchInv, Inv PROVE NamedModelIsLoaded
    OBVIOUS
  <2> USE DEF NoneInFlight, InFlight
  <2>1. ASSUME NoneInFlight PROVE info = separator
    <3>1. \A i \in Installers : building # i
      BY <2>1 DEF SwitchInv, HeldOnce, CallsAreTheThreads
    <3>2. wpc # "reply"
      BY <3>1 DEF Inv, WorkerPhase, TypeOK
    <3> QED
      BY <3>2 DEF SwitchInv, NamesFollow
  <2>2. ASSUME NoneInFlight, separator \notin crossed
        PROVE  current = PresetOf(separator) /\ saved = current
    <3>1. separator = Boot \/ thread[separator] = "over"
      <4>1. separator \in Installers \cup {Boot}
        BY DEF Inv, TypeOK, Models
      <4>2. ASSUME separator \in Installers PROVE thread[separator] = "over"
        BY <2>2, <4>2, NotYetCalled DEF SwitchInv, SwitchShape, ThreadState
      <4> QED
        BY <4>1, <4>2
    <3> QED
      BY <2>2, <3>1 DEF SwitchInv, NamesFollow
  <2> QED
    BY <2>1, <2>2 DEF NamedModelIsLoaded, SwitchInv, CrossedOrAlone, NamesFollow
<1> QED
  BY <1>1, <1>2, <1>3, PTL DEF SwitchSpec
=============================================================================
