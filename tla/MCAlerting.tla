----------------------------- MODULE MCAlerting -----------------------------
(***************************************************************************)
(* Instances of Alerting: two replicas, and the alerts that the rule       *)
(* engine raises for an anomalous, overbought signal.                      *)
(***************************************************************************)
EXTENDS Alerting, RuleEngine, TLC

CONSTANTS m1, m2, e1

\* Indicators in hundredths; the volatility is missing.
SignalOf(e) == [id |-> <<e>>, symbol |-> <<"BTC">>, ts |-> <<"12", ":", "30">>,
                anomaly |-> TRUE, rsi |-> 7500, volatility |-> Absent]
KeyCharacters == Kinds \cup Rules \cup Events \cup {":", "BTC", "12", "30"}
ShortSpelling == [name \in Kinds \cup Rules |-> <<name>>]
\* (TLC evaluates what \o joins once, and a function constructor at every use.)
RaisedAlertsOf == e1 :> (<<>> \o KeysOf(Evaluate("signal", SignalOf(e1))))
RaisedAlerts == UNION {{RaisedAlertsOf[e][i] : i \in DOMAIN RaisedAlertsOf[e]} : e \in Events}

\* Two copies of one signal.
CopiesTopicOf == [m \in Messages |-> "signals"]
CopiesEventOf == [m \in Messages |-> e1]

\* A signal, and an insight that does not validate.
PairTopicOf == m1 :> "signals" @@ m2 :> "insights"
PairEventOf == m1 :> e1 @@ m2 :> NoEvent

ReplicaSymmetry == Permutations(Workers)

=============================================================================
