------------------------------ MODULE RuleEngine ------------------------------
(***************************************************************************)
(* The alerting rules (services/alerting/rules.py): which alerts a signal  *)
(* or an insight raises, in which order and under which dedupe keys.       *)
(* Indicators and thresholds are integers in hundredths; Absent stands for *)
(* an indicator that is missing or no number, a boolean included.          *)
(***************************************************************************)
EXTENDS Integers, Sequences

CONSTANTS Absent,
          OverboughtThreshold, OversoldThreshold, VolatilityThreshold,
          SentimentThreshold, HighSeverityThreshold,
          Characters, Colon,
          Spelling   \* the characters of the kinds and the rule names

Kinds == {"signal", "insight"}
Rules == {"anomaly_flag", "rsi_overbought", "rsi_oversold", "volatility_threshold_breach",
          "sentiment_spike"}

ASSUME RuleAssumption ==
  /\ Absent \notin Int
  /\ OverboughtThreshold \in Int /\ OversoldThreshold \in Int /\ VolatilityThreshold \in Int
  /\ SentimentThreshold \in Nat /\ HighSeverityThreshold \in Nat

Without(character, text) == \A i \in DOMAIN text : text[i] # character

ASSUME SpellingAssumption ==
  /\ Colon \in Characters
  /\ Spelling \in [Kinds \cup Rules -> Seq(Characters)]
  /\ \A m, n \in Kinds \cup Rules : Spelling[m] = Spelling[n] => m = n
  /\ \A n \in Kinds \cup Rules : Without(Colon, Spelling[n])

AtLeast(value, threshold) == value # Absent /\ value >= threshold
AtMost(value, threshold) == value # Absent /\ value <= threshold
Magnitude(score) == IF score < 0 THEN -score ELSE score

\* A field of the key before the fields that follow it.
Before(field, rest) == field \o <<Colon>> \o rest

\* The fields are joined by colons, which any of the event's may contain, the time
\* always does; their sha256 is taken to be free of collisions.
DedupeKey(kind, event, rule) ==
  Before(Spelling[kind],
    Before(event.id, Before(event.symbol, Before(Spelling[rule], event.ts))))

BuildAlert(kind, event, rule, severity) ==
  [rule |-> rule, severity |-> severity, symbol |-> event.symbol,
   key |-> DedupeKey(kind, event, rule)]

AnomalyAlerts(s) ==
  IF s.anomaly THEN <<BuildAlert("signal", s, "anomaly_flag", "critical")>> ELSE <<>>
\* One of the two at most, whatever the thresholds.
RsiAlerts(s) ==
  IF AtLeast(s.rsi, OverboughtThreshold)
  THEN <<BuildAlert("signal", s, "rsi_overbought", "high")>>
  ELSE IF AtMost(s.rsi, OversoldThreshold)
  THEN <<BuildAlert("signal", s, "rsi_oversold", "medium")>> ELSE <<>>
VolatilityAlerts(s) ==
  IF AtLeast(s.volatility, VolatilityThreshold)
  THEN <<BuildAlert("signal", s, "volatility_threshold_breach", "high")>> ELSE <<>>

EvaluateSignal(s) == AnomalyAlerts(s) \o RsiAlerts(s) \o VolatilityAlerts(s)

EvaluateInsight(i) ==
  LET size == Magnitude(i.sentiment)
  IN  IF size < SentimentThreshold THEN <<>>
      ELSE <<BuildAlert("insight", i, "sentiment_spike",
               IF size >= HighSeverityThreshold THEN "critical" ELSE "high")>>

\* _handle_signal, _handle_insight: the kind of an event chooses its rules.
Evaluate(kind, event) ==
  IF kind = "signal" THEN EvaluateSignal(event) ELSE EvaluateInsight(event)

\* What the alerting service publishes and marks: the keys, in the order of the rules.
KeysOf(alerts) == [n \in DOMAIN alerts |-> alerts[n].key]
=============================================================================
