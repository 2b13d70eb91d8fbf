--------------------------- MODULE ExchangeClient ---------------------------
(***************************************************************************)
(* Exchange clients (services/ingestion/exchanges/base.py) that connect    *)
(* through a circuit breaker: run() makes one connection after another     *)
(* until it has published max_messages events, gives up when its reconnect *)
(* budget is used up, and ends at once when the breaker rejects it.  The   *)
(* clients may have been given one breaker to share.                       *)
(***************************************************************************)
EXTENDS CircuitBreaker

CONSTANTS
  MaxReconnects,  \* max_reconnects
  MaxMessages     \* max_messages of run()

ASSUME ClientAssumption == MaxReconnects \in Nat /\ MaxMessages \in Nat \ {0}

VARIABLES
  phase,       \* per client: where its run() is
  ended,       \* per client: how its last run() ended
  reconnects,  \* per client: reconnects_used
  published,   \* per client: events this run() has counted
  streamed,    \* per client: events its connection has published
  total,       \* per client: events the run published, at most MaxMessages + 1 (history)
  broken       \* per client: a connection failed after publishing (history)

runVars == <<phase, ended, reconnects, published, streamed, total, broken>>
clientVars == <<vars, runVars>>

Remaining(c) == MaxMessages - published[c]

ClientTypeOK ==
  /\ TypeOK
  /\ phase \in [Callers -> {"out", "ready", "streaming", "backoff"}]
  /\ ended \in [Callers -> {"not", "done", "raised"}]
  /\ reconnects \in [Callers -> 0..MaxReconnects]
  /\ published \in [Callers -> 0..MaxMessages]
  /\ \A c \in Callers : streamed[c] \in 0..Remaining(c)
  /\ total \in [Callers -> 0..(MaxMessages + 1)]
  /\ broken \in [Callers -> BOOLEAN]
  /\ \A c \in Callers : phase[c] = "streaming" <=> call[c] # "none"

ClientInit ==
  /\ Init
  /\ phase = [c \in Callers |-> "out"] /\ ended = [c \in Callers |-> "not"]
  /\ reconnects = [c \in Callers |-> 0] /\ published = [c \in Callers |-> 0]
  /\ streamed = [c \in Callers |-> 0] /\ total = [c \in Callers |-> 0]
  /\ broken = [c \in Callers |-> FALSE]

-----------------------------------------------------------------------------
\* run() is called; the breaker is as it was left.
Start(c) ==
  /\ phase[c] = "out"
  /\ phase' = [phase EXCEPT ![c] = "ready"] /\ ended' = [ended EXCEPT ![c] = "not"]
  /\ total' = [total EXCEPT ![c] = 0] /\ broken' = [broken EXCEPT ![c] = FALSE]
  /\ UNCHANGED <<vars, reconnects, published, streamed>>

\* run() returns or raises, and its locals are gone.
Leave(c, how) ==
  /\ phase' = [phase EXCEPT ![c] = "out"] /\ ended' = [ended EXCEPT ![c] = how]
  /\ reconnects' = [reconnects EXCEPT ![c] = 0]
  /\ published' = [published EXCEPT ![c] = 0] /\ streamed' = [streamed EXCEPT ![c] = 0]

\* The connection is over, run() counts n of its events and backs off.
Sleep(c, n, used) ==
  /\ phase' = [phase EXCEPT ![c] = "backoff"] /\ UNCHANGED ended
  /\ reconnects' = [reconnects EXCEPT ![c] = used]
  /\ published' = [published EXCEPT ![c] = @ + n] /\ streamed' = [streamed EXCEPT ![c] = 0]

\* The breaker admits the connection, or CircuitOpenError ends the run whatever is
\* left of its budget.
Connect(c) ==
  /\ phase[c] = "ready" /\ Call(c)
  /\ IF call'[c] = "none" THEN Leave(c, "raised")
     ELSE /\ phase' = [phase EXCEPT ![c] = "streaming"]
          /\ UNCHANGED <<ended, reconnects, published, streamed>>
  /\ UNCHANGED <<total, broken>>

\* _run_connection: a frame that normalises is published; heartbeats, frames of no
\* interest and malformed ones change nothing that is modelled.
Frame(c) ==
  /\ phase[c] = "streaming" /\ healthy /\ streamed[c] < Remaining(c)
  /\ streamed' = [streamed EXCEPT ![c] = @ + 1]
  /\ total' = [total EXCEPT ![c] = IF @ <= MaxMessages THEN @ + 1 ELSE @]
  /\ UNCHANGED <<vars, phase, ended, reconnects, published, broken>>

\* The connection has published what was asked for and run() returns.
Return(c) ==
  /\ phase[c] = "streaming" /\ streamed[c] = Remaining(c)
  /\ Succeed(c) /\ Leave(c, "done")
  /\ UNCHANGED <<total, broken>>

\* Mutant: a recycled socket's events are not counted.
RecycleForgets(c) ==
  /\ phase[c] = "streaming" /\ streamed[c] \in 1..(Remaining(c) - 1)
  /\ Succeed(c) /\ Sleep(c, 0, 0)
  /\ UNCHANGED <<total, broken>>

\* The exchange closes a socket that has published: no failure, and a full budget.
Recycle(c) ==
  /\ phase[c] = "streaming" /\ streamed[c] \in 1..(Remaining(c) - 1)
  /\ Succeed(c) /\ Sleep(c, streamed[c], 0)
  /\ UNCHANGED <<total, broken>>

\* Mutant: the budget is not used up.
RetryFreely(c) == Sleep(c, 0, 0)

\* After a failure: back off and reconnect, or raise when the budget is used up.
Retry(c) ==
  IF reconnects[c] >= MaxReconnects THEN Leave(c, "raised") ELSE Sleep(c, 0, reconnects[c] + 1)

\* Connecting fails, the socket closes with nothing published, no message comes
\* within the heartbeat timeout, or the bus raises.  In the last two the connection
\* may have published; those events are not counted and the budget is not refilled.
Break(c) ==
  /\ phase[c] = "streaming" /\ streamed[c] < Remaining(c)
  /\ Fail(c) /\ Retry(c)
  /\ broken' = [broken EXCEPT ![c] = @ \/ streamed[c] > 0]
  /\ UNCHANGED total

\* The back-off is over.
Wake(c) ==
  /\ phase[c] = "backoff"
  /\ phase' = [phase EXCEPT ![c] = "ready"]
  /\ UNCHANGED <<vars, ended, reconnects, published, streamed, total, broken>>

\* The task is cancelled, in a connection or while it sleeps.
Shutdown(c) ==
  /\ phase[c] # "out" /\ Leave(c, "raised")
  /\ IF phase[c] = "streaming" THEN Cancel(c) ELSE UNCHANGED vars
  /\ UNCHANGED <<total, broken>>

\* What is no client's step: time, the exchange, and readers of the breaker's state.
Around == (Elapse \/ Backend \/ ReadState) /\ UNCHANGED runVars

Run(c) == Connect(c) \/ Frame(c) \/ Return(c) \/ Recycle(c) \/ Break(c) \/ Wake(c)

ClientNext == Around \/ \E c \in Callers : Start(c) \/ Run(c) \/ Shutdown(c)

ClientSpec == ClientInit /\ [][ClientNext]_clientVars

\* Time passes; a client whose run ended is run again, is not always cancelled
\* first, and a connection does not last for ever: exchanges recycle sockets and silence
\* is timed out (base.py:199, 310).
FairClientSpec ==
  /\ ClientSpec
  /\ WF_clientVars(Elapse /\ UNCHANGED runVars)
  /\ \A c \in Callers :
       /\ WF_clientVars(Start(c)) /\ SF_clientVars(Connect(c)) /\ SF_clientVars(Frame(c))
       /\ SF_clientVars(Return(c)) /\ SF_clientVars(Recycle(c)) /\ WF_clientVars(Break(c))
       /\ WF_clientVars(Wake(c))

-----------------------------------------------------------------------------
(* Properties *)

\* max_messages holds over all the connections of a run, however often the socket is
\* recycled: a run that returns has published that many events, and more only if a
\* connection failed after it had published some (base.py:184 counts none of them).
CountsMessages ==
  \A c \in Callers : ended[c] = "done" =>
    total[c] >= MaxMessages /\ (total[c] > MaxMessages => broken[c])

\* A run ends: a socket that is recycled time and again counts what it published, and
\* one that fails time and again uses up the budget or opens the circuit, even while
\* another client's successes keep the shared breaker closed.
RunEnds == \A c \in Callers : phase[c] # "out" ~> phase[c] = "out"
=============================================================================
