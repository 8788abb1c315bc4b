------------------------------- MODULE Queue -------------------------------
(***************************************************************************)
(* The job queue and its one worker thread (stemd-server/src/queue.rs).    *)
(*                                                                         *)
(* Every action is one critical section, or one step between two of them.  *)
(* The worker's next() holds the `pending` lock from its first check until *)
(* the condition variable releases it, so the only state in which another  *)
(* thread can find that lock taken is the worker's "parking" state: every  *)
(* caller that takes the lock has PendingFree as a guard.                  *)
(*                                                                         *)
(* A model is named by the install() call that staged it; Boot is the one  *)
(* Queue::start built.  A job is submitted at most once, by its owner.     *)
(***************************************************************************)
EXTENDS Naturals, Sequences, SequencesExt

CONSTANTS
  Jobs,        \* the jobs the store hands out
  Installers,  \* the threads that call install(), each once
  Stoppers,    \* the threads that call stop(), each once
  MaxDepth,    \* --queue-depth
  Segments,    \* chunks of audio in a track: the cancel flag is read after each
  Boot,        \* the model the worker was started with
  None

\* What install() hears back.
Replies == {"ok", "err", "superseded", "stopping"}

ASSUME QueueAssumption ==
  /\ MaxDepth \in Nat
  /\ Segments \in Nat \ {0}
  /\ Boot \notin Installers
  /\ None \notin Jobs \cup Installers \cup Stoppers \cup {Boot} \cup Replies

Models   == Installers \cup {Boot}
Stages   == {"queued", "separating", "writing", "done", "failed", "cancelled"}
Terminal == {"done", "failed", "cancelled"}

VARIABLES
  stage,       \* Job.progress.stage of every job
  pending,     \* Inner.pending: the jobs waiting, first in line first
  running,     \* Inner.running: the id of the job in the worker's hands
  cancel,      \* the flag of that Running
  shutdown,    \* Inner.shutdown
  incoming,    \* Inner.incoming: the install() call whose model is staged
  info,        \* Inner.info: the model the worker has published
  separator,   \* the model the worker runs
  wpc,         \* where the worker is
  building,    \* the Staged the worker took and is building
  remaining,   \* chunks of the running track still to do
  cancelling,  \* jobs for which a cancel() is between its two locks
  inst,        \* where each install() is
  ousted,      \* the Staged that install() replaced, still to be told
  reply,       \* what the caller's channel holds
  stopper,     \* where each stop() is
  taker,       \* the stop() that took the worker's JoinHandle
  offered,     \* history: the jobs their owner submitted, or ended instead
  asked        \* history: the jobs cancel() was called for

job     == <<running, cancel, remaining>>
models  == <<incoming, info, separator, building>>
callers == <<inst, ousted, reply>>
stops   == <<stopper, taker>>
history == <<offered, asked>>
vars    == <<stage, pending, job, wpc, shutdown, models, cancelling, callers,
             stops, history>>

WorkerStates == {"next", "parking", "parked", "build", "reply", "separate",
                 "publish", "complete", "clear", "finished"}

\* Where a stop() is: what it did last, or what it returned.
StopStates   == {"idle", "flagged", "drained", "signalled", "notified",
                 "polling", "true", "false"}
BeforeNotify == {"flagged", "drained", "signalled"}
AfterCancel  == StopStates \ {"idle", "flagged", "drained"}

IsTerminal(j) == stage[j] \in Terminal
Waiting(j)    == \E k \in DOMAIN pending : pending[k] = j

\* No thread holds the lock on `pending`.
PendingFree_Unlocked == TRUE
PendingFree == wpc # "parking"

\* Condvar::notify: a parked worker goes back to the top of next().
Woken_Lost == wpc
Woken == IF wpc = "parked" THEN "next" ELSE wpc

\* submit() turns nobody away below the limit, and joins at the end.
HasRoom_OneMore == Len(pending) <= MaxDepth
HasRoom == Len(pending) < MaxDepth
Joined(j) == Append(pending, j)

\* cancel() compares ids before it raises the flag.
InHand_Any(j) == running # None
InHand(j) == running = j

\* What the superseded caller is told by the one that displaced it.
Superseding_Dropped(i) == reply
Superseding(i) ==
  IF ousted[i] = None THEN reply ELSE [reply EXCEPT ![ousted[i]] = "superseded"]

\* What stop() returns: is the worker thread finished?
Verdict == IF wpc = "finished" THEN "true" ELSE "false"

\* next() looks for work only after it has looked for shutdown.
MayBegin_Unchecked == wpc = "next"
MayBegin == wpc = "next" /\ ~shutdown

\* The separator reads the flag after each of the chunks a track has.
MoreChunks_OneMore == remaining >= 0
MoreChunks == remaining > 0
CallsOff == cancel

Init ==
  /\ stage = [j \in Jobs |-> "queued"]
  /\ pending = <<>>
  /\ running = None
  /\ cancel = FALSE
  /\ shutdown = FALSE
  /\ incoming = None
  /\ info = Boot
  /\ separator = Boot
  /\ wpc = "next"
  /\ building = None
  /\ remaining = 0
  /\ cancelling = {}
  /\ inst = [i \in Installers |-> "idle"]
  /\ ousted = [i \in Installers |-> None]
  /\ reply = [i \in Installers |-> None]
  /\ stopper = [s \in Stoppers |-> "idle"]
  /\ taker = None
  /\ offered = {}
  /\ asked = {}

-----------------------------------------------------------------------------
(* submit and cancel *)

\* submit() when there is room.  Nothing here reads `shutdown`.
SubmitAccepted(j) ==
  /\ PendingFree
  /\ j \notin offered
  /\ HasRoom
  /\ stage' = [stage EXCEPT ![j] = "queued"]
  /\ pending' = Joined(j)
  /\ wpc' = Woken
  /\ offered' = offered \cup {j}
  /\ UNCHANGED <<job, shutdown, models, cancelling, callers, stops, asked>>

\* submit() at the limit: QueueFull, and nothing else happens.
SubmitRefused(j) ==
  /\ PendingFree
  /\ j \notin offered
  /\ ~HasRoom
  /\ offered' = offered \cup {j}
  /\ UNCHANGED <<stage, pending, job, wpc, shutdown, models, cancelling,
                 callers, stops, asked>>

\* cancel() of a waiting job: dropped outright, its stage left as it is.  Its
\* retain() finds one entry, a job being submitted once.
CancelWaiting(j) ==
  /\ PendingFree
  /\ \E k \in DOMAIN pending : /\ pending[k] = j
                               /\ pending' = RemoveAt(pending, k)
  /\ asked' = asked \cup {j}
  /\ UNCHANGED <<stage, job, wpc, shutdown, models, cancelling, callers,
                 stops, offered>>

\* cancel() of a job that is not waiting releases `pending` ...
CancelMissed(j) ==
  /\ PendingFree
  /\ ~Waiting(j)
  /\ cancelling' = cancelling \cup {j}
  /\ asked' = asked \cup {j}
  /\ UNCHANGED <<stage, pending, job, wpc, shutdown, models, callers, stops,
                 offered>>

\* ... and only then looks at `running`.  Another cancel() of the same job may
\* still be on its way there.
CancelRunning(j) ==
  /\ j \in cancelling
  /\ cancelling' \in {cancelling, cancelling \ {j}}
  /\ cancel' = (cancel \/ InHand(j))
  /\ UNCHANGED <<stage, pending, running, remaining, wpc, shutdown, models,
                 callers, stops, history>>

\* A job that is not in the queue's hands, its line full or never reached, is
\* ended by the one who claimed it.
OwnerEnds(j, how) ==
  /\ stage[j] = "queued"
  /\ ~Waiting(j)
  /\ running # j
  /\ stage' = [stage EXCEPT ![j] = how]
  /\ offered' = offered \cup {j}
  /\ UNCHANGED <<pending, job, wpc, shutdown, models, cancelling, callers,
                 stops, asked>>

-----------------------------------------------------------------------------
(* install *)

\* Refused under the lock a stop() raises the flag under.
InstallRefused(i) ==
  /\ PendingFree
  /\ inst[i] = "idle"
  /\ shutdown
  /\ inst' = [inst EXCEPT ![i] = "returned"]
  /\ reply' = [reply EXCEPT ![i] = "stopping"]
  /\ UNCHANGED <<stage, pending, job, wpc, shutdown, models, cancelling,
                 ousted, stops, history>>

\* Staged under `pending`, taking the place of whatever was staged before.
InstallStage(i) ==
  /\ PendingFree
  /\ inst[i] = "idle"
  /\ ~shutdown
  /\ incoming' = i
  /\ ousted' = [ousted EXCEPT ![i] = incoming]
  /\ inst' = [inst EXCEPT ![i] = "staged"]
  /\ UNCHANGED <<stage, pending, job, wpc, shutdown, info, separator,
                 building, cancelling, reply, stops, history>>

\* The superseded caller is told, then the worker is woken.
InstallNotify(i) ==
  /\ inst[i] = "staged"
  /\ inst' = [inst EXCEPT ![i] = "waiting"]
  /\ ousted' = [ousted EXCEPT ![i] = None]
  /\ reply' = Superseding(i)
  /\ wpc' = Woken
  /\ UNCHANGED <<stage, pending, job, shutdown, models, cancelling, stops,
                 history>>

\* done.recv() returns.
InstallReturn(i) ==
  /\ inst[i] = "waiting"
  /\ reply[i] # None
  /\ inst' = [inst EXCEPT ![i] = "returned"]
  /\ UNCHANGED <<stage, pending, job, wpc, shutdown, models, cancelling,
                 ousted, reply, stops, history>>

-----------------------------------------------------------------------------
(* stop *)

StopFlag(s) ==
  /\ PendingFree
  /\ stopper[s] = "idle"
  /\ shutdown' = TRUE
  /\ stopper' = [stopper EXCEPT ![s] = "flagged"]
  /\ UNCHANGED <<stage, pending, job, wpc, models, cancelling, callers, taker,
                 history>>

\* A switch blocked in install() is let go.
StopDrain(s) ==
  /\ stopper[s] = "flagged"
  /\ incoming' = None
  /\ reply' = IF incoming = None THEN reply
              ELSE [reply EXCEPT ![incoming] = "stopping"]
  /\ stopper' = [stopper EXCEPT ![s] = "drained"]
  /\ UNCHANGED <<stage, pending, job, wpc, shutdown, info, separator,
                 building, cancelling, inst, ousted, taker, history>>

StopCancel(s) ==
  /\ stopper[s] = "drained"
  /\ cancel' = (cancel \/ running # None)
  /\ stopper' = [stopper EXCEPT ![s] = "signalled"]
  /\ UNCHANGED <<stage, pending, running, remaining, wpc, shutdown, models,
                 cancelling, callers, taker, history>>

StopNotify(s) ==
  /\ stopper[s] = "signalled"
  /\ wpc' = Woken
  /\ stopper' = [stopper EXCEPT ![s] = "notified"]
  /\ UNCHANGED <<stage, pending, job, shutdown, models, cancelling, callers,
                 taker, history>>

\* What a stop() leaves alone from here on: it only waits.
StopFrame == UNCHANGED <<stage, pending, job, wpc, shutdown, models, cancelling,
                         callers, history>>

\* The first caller to get here owns the JoinHandle and waits on it.
StopTake(s) ==
  /\ stopper[s] = "notified"
  /\ taker = None
  /\ taker' = s
  /\ stopper' = [stopper EXCEPT ![s] = "polling"]
  /\ StopFrame

\* A later caller finds the handle gone and returns true at once.
StopTaken(s) ==
  /\ stopper[s] = "notified"
  /\ taker # None
  /\ stopper' = [stopper EXCEPT ![s] = "true"]
  /\ StopFrame /\ UNCHANGED taker

\* The worker is out, or the deadline passes with it still inside.
StopReturn(s) ==
  /\ stopper[s] = "polling"
  /\ stopper' = [stopper EXCEPT ![s] = Verdict]
  /\ StopFrame /\ UNCHANGED taker

-----------------------------------------------------------------------------
(* The worker: Inner::next, in the order it looks *)

WorkerQuit ==
  /\ wpc = "next"
  /\ shutdown
  /\ wpc' = "finished"
  /\ UNCHANGED <<stage, pending, job, shutdown, models, cancelling, callers,
                 stops, history>>

\* A staged model goes ahead of a waiting job.
WorkerTakeModel ==
  /\ MayBegin
  /\ incoming # None
  /\ building' = incoming
  /\ incoming' = None
  /\ wpc' = "build"
  /\ UNCHANGED <<stage, pending, job, shutdown, info, separator, cancelling,
                 callers, stops, history>>

\* Registered as running, with a fresh flag, under the lock that popped it.
FreshFlag_Reused == cancel
FreshFlag == FALSE

WorkerTakeJob ==
  /\ MayBegin
  /\ incoming = None
  /\ pending # <<>>
  /\ running' = Head(pending)
  /\ pending' = Tail(pending)
  /\ cancel' = FreshFlag
  /\ remaining' = Segments
  /\ wpc' = "separate"
  /\ UNCHANGED <<stage, shutdown, models, cancelling, callers, stops, history>>

\* Nothing to do: still holding `pending` ...
WorkerIdle ==
  /\ MayBegin
  /\ incoming = None
  /\ pending = <<>>
  /\ wpc' = "parking"
  /\ UNCHANGED <<stage, pending, job, shutdown, models, cancelling, callers,
                 stops, history>>

\* ... until the condition variable takes the thread and the lock together.
WorkerPark ==
  /\ wpc = "parking"
  /\ wpc' = "parked"
  /\ UNCHANGED <<stage, pending, job, shutdown, models, cancelling, callers,
                 stops, history>>

-----------------------------------------------------------------------------
(* The worker: building a model *)

\* What it holds is published first ...
BuildPublish ==
  /\ wpc = "build"
  /\ info' = building
  /\ wpc' = "reply"
  /\ UNCHANGED <<stage, pending, job, shutdown, incoming, separator, building,
                 cancelling, callers, stops, history>>

\* ... then the caller is told, and the worker runs on it from here.
BuildReply ==
  /\ wpc = "reply"
  /\ reply' = [reply EXCEPT ![building] = "ok"]
  /\ separator' = building
  /\ building' = None
  /\ wpc' = "next"
  /\ UNCHANGED <<stage, pending, job, shutdown, incoming, info, cancelling,
                 inst, ousted, stops, history>>

\* The build failed or panicked: the old model stays.
BuildFails ==
  /\ wpc = "build"
  /\ reply' = [reply EXCEPT ![building] = "err"]
  /\ building' = None
  /\ wpc' = "next"
  /\ UNCHANGED <<stage, pending, job, shutdown, incoming, info, separator,
                 cancelling, inst, ousted, stops, history>>

-----------------------------------------------------------------------------
(* The worker: separating one job *)

\* Everything a step of the worker on its job leaves alone.
JobStepFrame == UNCHANGED <<pending, cancel, shutdown, models, cancelling,
                            callers, stops, history>>

\* A chunk runs and the flag, read after it, is clear.
Chunk ==
  /\ wpc = "separate"
  /\ MoreChunks
  /\ ~CallsOff
  /\ remaining' = remaining - 1
  /\ stage' = [stage EXCEPT ![running] = "separating"]
  /\ UNCHANGED <<running, wpc>>
  /\ JobStepFrame

\* A chunk runs and the flag is up: the separation ends there.
ChunkCancelled ==
  /\ wpc = "separate"
  /\ MoreChunks
  /\ CallsOff
  /\ stage' = [stage EXCEPT ![running] = "cancelled"]
  /\ wpc' = "clear"
  /\ UNCHANGED <<running, remaining>>
  /\ JobStepFrame

\* Job::fail for the job in the worker's hands.
FailJob == [stage EXCEPT ![running] = "failed"]

\* The separator returns an error, or panics and is caught.
SeparateFails ==
  /\ wpc = "separate"
  /\ stage' = FailJob
  /\ wpc' = "clear"
  /\ UNCHANGED <<running, remaining>>
  /\ JobStepFrame

\* Past the last chunk the flag is not read again.
SeparateDone ==
  /\ wpc = "separate"
  /\ ~MoreChunks
  /\ stage' = [stage EXCEPT ![running] = "writing"]
  /\ wpc' = "publish"
  /\ UNCHANGED <<running, remaining>>
  /\ JobStepFrame

\* cache.publish returned an entry.
Published ==
  /\ wpc = "publish"
  /\ wpc' = "complete"
  /\ UNCHANGED <<stage, running, remaining>>
  /\ JobStepFrame

\* cache.publish failed or panicked.
PublishFails ==
  /\ wpc = "publish"
  /\ stage' = FailJob
  /\ wpc' = "clear"
  /\ UNCHANGED <<running, remaining>>
  /\ JobStepFrame

Complete ==
  /\ wpc = "complete"
  /\ stage' = [stage EXCEPT ![running] = "done"]
  /\ wpc' = "clear"
  /\ UNCHANGED <<running, remaining>>
  /\ JobStepFrame

Clear ==
  /\ wpc = "clear"
  /\ running' = None
  /\ wpc' = "next"
  /\ UNCHANGED <<stage, remaining>>
  /\ JobStepFrame

-----------------------------------------------------------------------------
Look   == WorkerQuit \/ WorkerTakeModel \/ WorkerTakeJob \/ WorkerIdle \/ WorkerPark
Build  == BuildPublish \/ BuildReply \/ BuildFails
RunJob == \/ Chunk \/ ChunkCancelled \/ SeparateFails \/ SeparateDone
          \/ Published \/ PublishFails \/ Complete \/ Clear
Worker == Look \/ Build \/ RunJob

Submit(j)  == SubmitAccepted(j) \/ SubmitRefused(j)
Owner(j)   == Submit(j) \/ OwnerEnds(j, "done") \/ OwnerEnds(j, "failed")
Cancel(j)  == CancelWaiting(j) \/ CancelMissed(j) \/ CancelRunning(j)
Install(i) == InstallRefused(i) \/ InstallStage(i) \/ InstallNotify(i) \/ InstallReturn(i)
Stop(s)    == \/ StopFlag(s) \/ StopDrain(s) \/ StopCancel(s) \/ StopNotify(s)
              \/ StopTake(s) \/ StopTaken(s) \/ StopReturn(s)

Next ==
  \/ Worker
  \/ \E j \in Jobs : Owner(j) \/ Cancel(j)
  \/ \E i \in Installers : Install(i)
  \/ \E s \in Stoppers : Stop(s)

Spec == Init /\ [][Next]_vars
=============================================================================
