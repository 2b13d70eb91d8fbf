------------------------------ MODULE Guardrails ------------------------------
(***************************************************************************)
(* What an LLM answer becomes before it is an insight: the provider turns  *)
(* the raw reply into a structured result (services/ai/llm/providers.py),  *)
(* and the guardrails judge it against the retrieved context and drop the  *)
(* citations the context does not hold (services/ai/llm/guardrails.py).    *)
(* A context is a sequence of documents [citation, tokens]; a result is    *)
(* [tokens, blank, refusal, citations, confidence, score, label, grounded, *)
(* reasons], its citations a set, with scores and ratios in hundredths.    *)
(***************************************************************************)
EXTENDS Integers, Sequences, FiniteSets

CONSTANT NaN   \* the not-a-number that json.loads accepts as a score

MinConfidence == 45
MinOverlap == 8

Allowed(context) == {context[i].citation : i \in DOMAIN context}
ContextTokens(context) == UNION {context[i].tokens : i \in DOMAIN context}

\* evaluate_result: the report; an empty output has overlap 0 of 1.
Evaluate(context, result) ==
  LET shared == Cardinality(ContextTokens(context) \cap result.tokens)
      size == IF result.tokens = {} THEN 1 ELSE Cardinality(result.tokens)
      citationsOk == result.citations # {} /\ result.citations \subseteq Allowed(context)
      overlapOk == context = <<>> \/ 100 * shared >= MinOverlap * size
      confidenceOk == result.confidence >= MinConfidence
      grounded == context # <<>> /\ citationsOk /\ overlapOk /\ ~result.refusal
  IN  [accepted |-> grounded /\ confidenceOk /\ ~result.blank,
       grounded |-> grounded,
       reasons |-> {r \in {"empty_output", "refusal_detected", "low_confidence",
                           "citation_mismatch", "context_overlap_too_low", "no_context"} :
                      \/ r = "empty_output" /\ result.blank
                      \/ r = "refusal_detected" /\ result.refusal
                      \/ r = "low_confidence" /\ ~confidenceOk
                      \/ r = "citation_mismatch" /\ ~citationsOk
                      \/ r = "context_overlap_too_low" /\ ~overlapOk
                      \/ r = "no_context" /\ context = <<>>}]

\* Mutant: the citations the model invented are kept.
ApplyKeepsCitations(context, result) ==
  LET report == Evaluate(context, result)
  IN  [result EXCEPT !.grounded = report.grounded, !.reasons = report.reasons]

\* apply_guardrails: only citations of the context stay; the verdict and the
\* reasons are those of the result as it came in, and replace earlier ones.
ApplyGuardrails(context, result) ==
  LET report == Evaluate(context, result)
  IN  [result EXCEPT !.citations = @ \cap Allowed(context),
                     !.grounded = report.grounded,
                     !.reasons = report.reasons]

-----------------------------------------------------------------------------
(* The provider *)

\* _clamp, max(low, min(high, value)): every comparison with NaN is false, so min
\* keeps its first argument, the upper bound.
Clamp(value, low, high) ==
  IF value = NaN THEN high
  ELSE IF value > high THEN high ELSE IF value < low THEN low ELSE value

\* _normalize_label
LabelOf(score) ==
  IF score = NaN THEN "neutral"
  ELSE IF score >= 20 THEN "positive" ELSE IF score <= -20 THEN "negative" ELSE "neutral"

SentimentLabels == {"positive", "negative", "neutral"}

\* _structured_from_payload: the reply held JSON; an unknown label is replaced.
FromPayload(reply) ==
  [tokens |-> reply.tokens, blank |-> reply.blank, refusal |-> reply.refusal,
   citations |-> reply.citations,
   confidence |-> Clamp(reply.confidence, 0, 100),
   score |-> Clamp(reply.score, -100, 100),
   label |-> IF reply.label \in SentimentLabels THEN reply.label ELSE LabelOf(reply.score),
   grounded |-> reply.citations # {}, reasons |-> {}]

\* _structured_from_text: no JSON, so the text is kept and the whole context cited.
FromText(context, reply) ==
  [tokens |-> reply.tokens, blank |-> FALSE, refusal |-> reply.refusal,
   citations |-> Allowed(context),
   confidence |-> IF context = <<>> THEN 25 ELSE 50,
   score |-> Clamp(reply.score, -100, 100), label |-> LabelOf(reply.score),
   grounded |-> context # <<>>, reasons |-> {}]

Structured(context, reply) ==
  IF reply.json THEN FromPayload(reply) ELSE FromText(context, reply)

\* OpenAIProvider.generate: structured one way or the other, then guarded.
Generate(context, reply) == ApplyGuardrails(context, Structured(context, reply))
=============================================================================
