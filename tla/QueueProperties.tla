--------------------------- MODULE QueueProperties ---------------------------
(***************************************************************************)
(* What is claimed of the queue: its type invariant, the invariants and    *)
(* action properties of its locking and hand-over protocols, liveness, and *)
(* the abstract service it implements.                                     *)
(***************************************************************************)
EXTENDS Queue, FiniteSets

\* The type of every variable (the fields of Inner and the call sites' state).
TypeOK ==
  /\ stage \in [Jobs -> Stages]
  /\ pending \in Seq(Jobs)
  /\ running \in Jobs \cup {None}
  /\ cancel \in BOOLEAN
  /\ remaining \in 0 .. Segments
  /\ wpc \in WorkerStates
  /\ shutdown \in BOOLEAN
  /\ incoming \in Installers \cup {None}
  /\ info \in Models
  /\ separator \in Models
  /\ building \in Installers \cup {None}
  /\ cancelling \in SUBSET Jobs
  /\ inst \in [Installers -> {"idle", "staged", "waiting", "returned"}]
  /\ ousted \in [Installers -> Installers \cup {None}]
  /\ reply \in [Installers -> Replies \cup {None}]
  /\ stopper \in [Stoppers -> StopStates]
  /\ taker \in Stoppers \cup {None}
  /\ offered \in SUBSET Jobs
  /\ asked \in SUBSET Jobs

\* A job is in one place: the line holds no job twice, holds only jobs that were
\* submitted and not begun, and never the one in the worker's hands.
\* (submit, next: the pop and the registration as running share a lock.)
OnePlace ==
  /\ \A k, m \in DOMAIN pending : pending[k] = pending[m] => k = m
  /\ \A k \in DOMAIN pending :
       /\ pending[k] \in offered
       /\ pending[k] # running
       /\ stage[pending[k]] = "queued"
  /\ Len(pending) <= MaxDepth

\* The worker never lets go of a job that still looks alive: one that has begun
\* and is not terminal is the one in its hands.  (worker_loop fails the job of a
\* panic before it clears `running`.)
NoJobDropped ==
  \A j \in Jobs : stage[j] \in {"separating", "writing"} => running = j

\* A job ends cancelled only if a cancel() named it or the queue was stopping: a
\* flag raised for one job never reaches another.  (struct Running: "The flag is
\* created fresh per job".)
CancelledOnlyIfAsked ==
  \A j \in Jobs : stage[j] = "cancelled" => j \in asked \/ shutdown

\* A worker about to sleep, the lock still in its hands, has nothing to do; one
\* that sleeps has nothing to do either, unless the call that gave it something
\* has its notify still to come: no wakeup is lost.  (submit, install, stop and
\* next all meet on `pending`.)
NoLostWakeup ==
  /\ wpc \in {"parking", "parked"} => pending = <<>>
  /\ wpc = "parking" => incoming = None /\ ~shutdown
  /\ wpc = "parked" =>
       /\ incoming # None => \E i \in Installers : inst[i] = "staged"
       /\ shutdown => \E s \in Stoppers : stopper[s] \in BeforeNotify

\* Once a stop() has raised the flag of the job in flight, no job is in the
\* worker's hands without it: the one wait of stop() is a wait for one segment.
StopReachesTheWorker ==
  (\E s \in Stoppers : stopper[s] \in AfterCancel) /\ running # None => cancel

\* Nobody blocked in install() is forgotten: an unanswered caller's model is
\* staged (and will be drained if the queue is stopping), in the worker's hands,
\* or displaced by a caller that is about to say so.
InstallAnswerable ==
  \A i \in Installers :
    inst[i] \in {"staged", "waiting"} /\ reply[i] = None =>
      \/ /\ incoming = i
         /\ shutdown => \E s \in Stoppers : stopper[s] = "flagged"
      \/ building = i
      \/ \E k \in Installers : inst[k] = "staged" /\ ousted[k] = i

\* The stop() that waited for the worker and says true says so of a worker that
\* is out of the model for good.
WaiterSeesWorkerOut ==
  taker # None /\ stopper[taker] = "true" => wpc = "finished"

\* A job that began comes to an end while the worker still has it, and to the end
\* it was asked to.  (worker_loop, struct Running.)
EndsForAReason == NoJobDropped /\ CancelledOnlyIfAsked

\* A stop() that has signalled has one segment to wait for, and what the one that
\* waited says of the worker is true.  (stop: "Returns whether the worker is out".)
StopIsHonest == StopReachesTheWorker /\ WaiterSeesWorkerOut

-----------------------------------------------------------------------------
(* What the invariants above rest on, each inductive with TypeOK *)

\* The worker holds a job, or a model to build, exactly where its code does, and
\* the stage of the job it holds says how far it is.
WorkerPhase ==
  /\ running # None <=> wpc \in {"separate", "publish", "complete", "clear"}
  /\ building # None <=> wpc \in {"build", "reply"}
  /\ running # None => running \in offered
  /\ wpc = "separate" => stage[running] \in {"queued", "separating"}
  /\ wpc \in {"publish", "complete"} => stage[running] = "writing"
  /\ wpc = "clear" => IsTerminal(running)
  /\ \A j \in Jobs \ offered : stage[j] = "queued"

\* A raised flag was asked for.
FlagIsAskedFor ==
  /\ cancelling \subseteq asked
  /\ running # None /\ cancel => running \in asked \/ shutdown

\* A stop() under way means shutdown is up, and the one with the handle waits on
\* it or has returned.
StopPhase ==
  /\ \A s \in Stoppers : stopper[s] # "idle" => shutdown
  /\ taker # None => stopper[taker] \in {"polling", "true", "false"}
  /\ wpc = "finished" => shutdown

-----------------------------------------------------------------------------
(* What no step may do *)

\* Once shutdown is up neither a track nor a build is begun: "building a model
\* while the process is tearing down" is the crash stop() exists to prevent.
NothingBeginsAfterShutdown ==
  [][shutdown => /\ running' \in {running, None}
                 /\ building' \in {building, None}]_vars

\* A job in line only ever moves up, and the one taken is the first.
LineMovesUp ==
  [][/\ \A k \in DOMAIN pending, m \in DOMAIN pending' :
          pending[k] = pending'[m] => m <= k
     /\ running' \notin {running, None} => running' = pending[1]]_vars

-----------------------------------------------------------------------------
(* What must happen, where the worker and every call that began go on *)

\* A queue told to stop has its worker out in the end, wherever it was.
WorkerLeaves == shutdown ~> wpc = "finished"

-----------------------------------------------------------------------------
\* The service the queue implements.  A job whose stage is terminal is already
\* out of the service's hands, though the worker has not cleared `running` yet.
Service ==
  INSTANCE SerialService WITH
    FirstModel <- Boot,
    Nobody     <- None,
    line       <- pending,
    serving    <- IF wpc \in {"separate", "publish", "complete"} THEN running ELSE None,
    outcome    <- [j \in Jobs |-> IF IsTerminal(j) THEN stage[j] ELSE "none"],
    calledOff  <- asked,
    loaded     <- separator,
    closing    <- shutdown

\* Every behaviour of the queue is one of the service.
ImplementsService == Service!Spec
=============================================================================
