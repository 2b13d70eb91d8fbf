-------------------------------- MODULE Replay --------------------------------
(***************************************************************************)
(* Dead-letter replay (services/alerting/replay.py): an operator's command *)
(* that drains the dead-letter queue of a subscription, publishes each     *)
(* message again under a new id and then completes the original.  Commands *)
(* may overlap, fail half-way and be run again.                            *)
(***************************************************************************)
EXTENDS MessageBus

CONSTANTS
  Runs,           \* commands that run at a time
  Originals,      \* what may be on the topic before: sequences of bodies
  DrainSize,      \* messages one receive_dead_letter call returns: 100
  ReplayFaults    \* subset of {"publish", "publish_unknown", "settle", "crash",
                  \* "lock_lost", "window"}

ASSUME ReplayAssumption ==
  /\ Originals \subseteq Seq(Nat) /\ DrainSize \in Nat \ {0}
  /\ Runs \cap Places = {}

VARIABLES
  source,   \* per command: the subscription it replays
  todo,     \* per command: sequence numbers it drained, those to replay yet
  index,    \* per command: the number of the message at the head of todo
  stage     \* per command: "idle", "publish" or "complete"

runVars == <<source, todo, index, stage>>
replayVars == <<busVars, runVars>>

Original(body) == [body |-> body, suffixes |-> <<>>]

ReplayInit ==
  /\ \E bodies \in Originals :
       BusInit([k \in DOMAIN bodies |-> [id |-> Original(bodies[k]), body |-> bodies[k]]])
  /\ source \in [Runs -> Subscriptions]
  /\ todo = [r \in Runs |-> <<>>]
  /\ index = [r \in Runs |-> 1]
  /\ stage = [r \in Runs |-> "idle"]

\* The command ends: it is through, it raised, or it was stopped.
Stop(r) ==
  /\ stage' = [stage EXCEPT ![r] = "idle"]
  /\ todo' = [todo EXCEPT ![r] = <<>>]
  /\ index' = [index EXCEPT ![r] = 1]
  /\ UNCHANGED source

Holds(r, k) == \E i \in DOMAIN todo[r] : todo[r][i] = k

\* Mutant: the original is completed when it is drained, before its replacement is
\* published.
DrainCompletes(r) ==
  /\ stage[r] = "idle"
  /\ \E k \in At(source[r], "dead") :
       Move(source[r], {k}, "replayed") /\ todo' = [todo EXCEPT ![r] = <<k>>]
  /\ stage' = [stage EXCEPT ![r] = "publish"]
  /\ UNCHANGED <<source, index>>

\* The oldest dead letters, at most DrainSize of them, locked for this command.
Drain(r) ==
  /\ stage[r] = "idle" /\ At(source[r], "dead") # {}
  /\ \E n \in 1..DrainSize : \E batch \in [1..n -> At(source[r], "dead")] :
       /\ \A i \in 1..n - 1 : batch[i] < batch[i + 1]
       /\ \A k \in At(source[r], "dead") : k > batch[n] => n = DrainSize
       /\ \A k \in At(source[r], "dead") : k < batch[n] => \E i \in 1..n : batch[i] = k
       /\ Move(source[r], {batch[i] : i \in 1..n}, r)
       /\ todo' = [todo EXCEPT ![r] = batch]
  /\ stage' = [stage EXCEPT ![r] = "publish"]
  /\ UNCHANGED <<source, index>>

\* Mutant: the replacement's id does not name the message it replaces.
IdOfIndexOnly(id, i) == [body |-> 0, suffixes |-> <<i>>]

\* f"{message.message_id}:{suffix}:{index}"
ReplacementId(id, i) == [id EXCEPT !.suffixes = Append(@, i)]

Message(r) == log[Head(todo[r])]

Republish(r) ==
  /\ stage[r] = "publish"
  /\ LET accepted == Publish(ReplacementId(Message(r).id, index[r]), Message(r).body)
     IN  \/ accepted /\ stage' = [stage EXCEPT ![r] = "complete"] /\ UNCHANGED <<source, todo, index>>
         \/ "publish" \in ReplayFaults /\ UNCHANGED busVars /\ Stop(r)
         \/ "publish_unknown" \in ReplayFaults /\ accepted /\ Stop(r)

\* The next message, or the end of the command.
Advance(r) ==
  IF Len(todo[r]) = 1 THEN Stop(r)
  ELSE /\ todo' = [todo EXCEPT ![r] = Tail(@)]
       /\ index' = [index EXCEPT ![r] = @ + 1]
       /\ stage' = [stage EXCEPT ![r] = "publish"]
       /\ UNCHANGED source

\* Completing needs the lock: it raises when that is lost.
CompleteOriginal(r) ==
  /\ stage[r] = "complete"
  /\ LET k == Head(todo[r])
         completed == Move(source[r], {k}, "replayed")
     IN  \/ k \in At(source[r], r) /\ completed /\ Advance(r)
         \/ /\ k \in At(source[r], r) /\ "settle" \in ReplayFaults
            /\ completed \/ UNCHANGED busVars
            /\ Stop(r)
         \/ k \notin At(source[r], r) /\ UNCHANGED busVars /\ Stop(r)

Crash(r) ==
  "crash" \in ReplayFaults /\ stage[r] # "idle" /\ Stop(r) /\ UNCHANGED busVars

\* The lock of a drained message runs out; it is a dead letter again.
DrainLockExpires(r, k) ==
  /\ k \in At(source[r], r)
  /\ "lock_lost" \in ReplayFaults \/ ~Holds(r, k)
  /\ Move(source[r], {k}, "dead") /\ UNCHANGED runVars

WindowPasses == "window" \in ReplayFaults /\ Forget /\ UNCHANGED runVars

ReplayNext ==
  \/ \E s \in Subscriptions : \E k \in DOMAIN log :
       Consume(s, k) /\ UNCHANGED runVars
  \/ \E r \in Runs :
       \/ Drain(r) \/ Republish(r) \/ CompleteOriginal(r) \/ Crash(r)
       \/ \E k \in DOMAIN log : DrainLockExpires(r, k)
  \/ WindowPasses

ReplaySpec == ReplayInit /\ [][ReplayNext]_replayVars
-----------------------------------------------------------------------------
(* Properties *)

ReplayTypeOK ==
  /\ log \in Seq([id : [body : Nat, suffixes : Seq(Nat)], body : Nat])
  /\ place \in [Subscriptions -> Seq(Places \cup Runs)]
  /\ \A s \in Subscriptions : DOMAIN place[s] = DOMAIN log
  /\ source \in [Runs -> Subscriptions] /\ todo \in [Runs -> Seq(Nat)]
  /\ index \in [Runs -> Nat \ {0}] /\ stage \in [Runs -> {"idle", "publish", "complete"}]
  /\ \A r \in Runs : index[r] <= DrainSize /\ (stage[r] = "idle" <=> todo[r] = <<>>)

\* "replay completes each original DLQ message after the replacement is published"
\* (alerting/README.md:23): a dead letter that is gone has a replacement under an id
\* derived from its own, whichever command was stopped where and whatever was dropped
\* as a duplicate.
ReplacementPublished ==
  \A s \in Subscriptions : \A k \in At(s, "replayed") :
    \E j \in DOMAIN log : \E i \in 1..DrainSize :
      log[j].id = ReplacementId(log[k].id, i) /\ log[j].body = log[k].body

\* A body leaves a subscription only when its consumer completes a copy of it: replay
\* never trades the last copy for a publish that the duplicate window swallowed.
NothingLost ==
  \A s \in Subscriptions : \A k \in DOMAIN log :
    \E j \in DOMAIN log : log[j].body = log[k].body /\ place[s][j] # "replayed"
=============================================================================
