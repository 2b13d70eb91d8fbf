---------------------------- MODULE WorkerLifespan ----------------------------
(***************************************************************************)
(* The life of a service's app (libs/common/service_app.py and, for the    *)
(* API, services/api/app.py): a worker task beside the app, if it has one, *)
(* which is cancelled at shutdown, then the backends, each of which has to *)
(* be released whatever the others do, then the log sink's search store.   *)
(***************************************************************************)
EXTENDS Naturals, Sequences

CONSTANTS
  Apps,            \* "worker": runs a worker; "idle": start is None; "api": primes the bus
  Backends,        \* what close_backends is given, in order
  ShutdownFaults   \* subset of {"startup", "worker", "cancel_raises"}

ASSUME LifespanAssumption == Backends \in Seq({Backends[i] : i \in DOMAIN Backends})

VARIABLES
  app,
  phase,      \* of its lifespan: "start", "serving", "stopping", "awaiting" (the worker's
              \* end), "closing", "sink" or "ended"
  worker,     \* its task: "none", "running", "returned", "failed", "cancelled"
              \* or "raised" (when it was cancelled)
  reported,   \* the worker's failure is in the log
  nextClose,  \* the backend close_backends is at
  tried,      \* backends whose close() was called
  sinkOpen

lifespanVars == <<app, phase, worker, reported, nextClose, tried, sinkOpen>>

LifespanInit ==
  /\ app \in Apps /\ phase = "start" /\ worker = "none" /\ reported = FALSE
  /\ nextClose = 1 /\ tried = {} /\ sinkOpen = TRUE

Enter(p) == phase' = p
LeavesBackends == UNCHANGED <<nextClose, tried, sinkOpen>>

\* The worker's task is created, or the API's subscriptions are primed, which may raise.
StartUp ==
  /\ phase = "start"
  /\ \/ Enter("serving") /\ worker' = IF app = "worker" THEN "running" ELSE "none"
     \/ "startup" \in ShutdownFaults /\ app = "api" /\ Enter("closing") /\ UNCHANGED worker
  /\ UNCHANGED <<app, reported>> /\ LeavesBackends

\* The worker ends while nobody looks at it.
WorkerEnds ==
  /\ worker = "running" /\ phase \in {"serving", "stopping"}
  /\ \/ worker' = "returned"
     \/ "worker" \in ShutdownFaults /\ worker' = "failed"
  /\ UNCHANGED <<app, phase, reported>> /\ LeavesBackends

\* The app stops, or the request phase raises.
StopServing ==
  /\ phase = "serving" /\ Enter(IF app = "api" THEN "closing" ELSE "stopping")
  /\ UNCHANGED <<app, worker, reported>> /\ LeavesBackends

\* A worker that ended by itself is reported, a running one is cancelled.
StopWorker ==
  /\ phase = "stopping"
  /\ Enter(IF worker = "running" THEN "awaiting" ELSE "closing")
  /\ reported' = (worker = "failed")
  /\ UNCHANGED <<app, worker>> /\ LeavesBackends

\* The cancelled worker ends.  An exception of its own leaves the lifespan.
WorkerStops ==
  /\ phase = "awaiting"
  /\ \/ worker' = "cancelled" /\ Enter("closing")
     \/ "cancel_raises" \in ShutdownFaults /\ worker' = "raised" /\ Enter("ended")
  /\ UNCHANGED <<app, reported>> /\ LeavesBackends

\* Mutant: a plain loop, which the first exception ends.
CloseBackendPlainly ==
  /\ phase = "closing" /\ nextClose <= Len(Backends)
  /\ tried' = tried \cup {Backends[nextClose]}
  /\ nextClose' = nextClose + 1
  /\ \/ UNCHANGED phase
     \/ Enter("sink")
  /\ UNCHANGED <<app, worker, reported, sinkOpen>>

\* A backend is closed; when that raises, it is logged and the next one's turn.
CloseBackend ==
  /\ phase = "closing" /\ nextClose <= Len(Backends)
  /\ tried' = tried \cup {Backends[nextClose]}
  /\ nextClose' = nextClose + 1
  /\ UNCHANGED <<app, phase, worker, reported, sinkOpen>>

BackendsClosed ==
  /\ phase = "closing" /\ nextClose > Len(Backends) /\ Enter("sink")
  /\ UNCHANGED <<app, worker, reported>> /\ LeavesBackends

\* The sink's own exceptions are swallowed.
CloseLogSink ==
  /\ phase = "sink" /\ Enter("ended") /\ sinkOpen' = FALSE
  /\ UNCHANGED <<app, worker, reported, nextClose, tried>>

LifespanNext ==
  \/ StartUp \/ WorkerEnds \/ StopServing \/ StopWorker \/ WorkerStops
  \/ CloseBackend \/ BackendsClosed \/ CloseLogSink

LifespanSpec == LifespanInit /\ [][LifespanNext]_lifespanVars
-----------------------------------------------------------------------------
(* Properties *)

\* "releasing backends even when startup or the request phase raised"
\* (service_app.py:90-91): when the app is gone, so is its worker, whose failure was
\* reported, every backend was closed whichever of them failed, and the sink too; except
\* after a worker that answers its cancellation with another exception, which no worker
\* of the repository does.
ShutdownReleases ==
  phase = "ended" /\ worker # "raised" =>
    /\ worker # "running" /\ (worker = "failed" => reported)
    /\ ~sinkOpen
    /\ tried = {Backends[i] : i \in DOMAIN Backends}
=============================================================================
