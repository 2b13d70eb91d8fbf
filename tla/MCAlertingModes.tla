--------------------------- MODULE MCAlertingModes ---------------------------
(***************************************************************************)
(* Instances of Alerting, one of which is chosen at the start.  In the     *)
(* calm mode the cache answers, no replica stops, no lock of either kind   *)
(* is lost and a publish that raises was not accepted; what holds only     *)
(* then is checked beside the safety and the liveness of the faulty mode.  *)
(* In the raced mode two copies of one event meet a failing cache and      *)
(* stopping replicas.                                                      *)
(***************************************************************************)
EXTENDS MCAlerting

VARIABLE mode   \* "calm", "raced" or "faulty"

Calm == INSTANCE Alerting WITH
  Threshold <- 2, Faults <- {"receive", "publish", "settle"}
Raced == INSTANCE Alerting WITH
  MaxAttempts <- 1, Faults <- {"cache", "crash"}
Faulty == INSTANCE Alerting WITH
  TopicOf <- PairTopicOf, EventOf <- PairEventOf

ModeInit == mode \in {"calm", "raced", "faulty"} /\ Init
ModeNext ==
  /\ UNCHANGED mode
  /\ \/ mode = "calm" /\ Calm!Next
     \/ mode = "raced" /\ Raced!Next
     \/ mode = "faulty" /\ Faulty!Next
ModeSpec ==
  /\ ModeInit /\ [][ModeNext]_<<vars, mode>>
  /\ \A w \in Workers :
       WF_<<vars, mode>>(mode = "faulty" /\ Faulty!Step(w) /\ UNCHANGED mode)
  /\ \A m \in Messages :
       WF_<<vars, mode>>(mode = "faulty" /\ Faulty!PeekLockExpires(m) /\ UNCHANGED mode)

\* While no cache call fails, no replica stops, no lock is lost and a publish that raises
\* was not accepted, no alert reaches the alerts topic twice, whatever copies, refused
\* publishes and failing settlements there are (alerting/service.py:278-284: with a
\* publish that raises after it was accepted, or a marker that is not written, the retry
\* publishes the alert again).
CalmNoDuplicateAlerts == mode = "calm" => Calm!NoDuplicateAlerts

\* The calm service implements EventDelivery (alerting/service.py:194-249); the other modes map to a service that
\* never does anything, which EventDelivery allows.
CalmDelivery == INSTANCE EventDelivery WITH
  Outputs <- Alerts,
  OutputsOf <- AlertsOf,
  topic <- IF mode = "calm" THEN published ELSE [a \in Alerts |-> 0],
  done <- IF mode = "calm" THEN processed ELSE {},
  outcome <- [m \in Messages |->
                IF mode # "calm" \/ state[m] \in {"ready", "locked"} THEN "open" ELSE state[m]]
CalmImplementsDelivery == CalmDelivery!Spec

\* Every message is settled in the end when anything but receiving may fail.
FaultyAllSettled == mode = "faulty" => AllSettled
=============================================================================
