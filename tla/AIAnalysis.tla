------------------------------ MODULE AIAnalysis ------------------------------
(***************************************************************************)
(* The AI analysis service (services/ai/service.py): replicas that poll    *)
(* the "ai" subscription of the news and signals topics, index each event  *)
(* for retrieval, ask the LLM for an insight per symbol and settle the     *)
(* message.  Unlike the alerting service they take no lock: all they share *)
(* is the broker, the search index and three key families of the cache.    *)
(* Settling the message is the last step of the retried operation.         *)
(***************************************************************************)
EXTENDS Guardrails, Retrieval

CONSTANTS
  Workers,       \* service replicas
  Messages,      \* messages of the ai subscriptions
  Symbols,
  Events,        \* news and signal ids; each is the id of a document as well
  NoEvent,       \* stands for a payload that does not validate
  NoMessage,     \* "not handling a message"
  Nobody,        \* "no replica holds the peek lock"
  NoDraft,       \* "nothing generated yet"
  TopicOf,       \* the topic a message was published on
  EventOf,       \* the event a message carries
  SymbolsOf,     \* the symbols of an event: any number for news, one for a signal
  ContentOf,     \* what the content hash and the text of an event depend on
  CitationOf,    \* how the document of an event is cited: its url, else its id
  Knn, Lexical,  \* per event and document: the scores of the document for its query
  Replies,       \* what the model may answer: subset of ReplyKinds
  TopK, CandidateK,  \* top_k and candidate_k of build_context_documents
  BatchSize, MaxAttempts, MaxDeliveries,
  Faults         \* what may go wrong in this instance

FaultKinds ==
  {"receive", "search", "cache", "llm", "publish", "publish_unknown", "settle",
   "crash", "peek_lock_lost"}
ReplyKinds == {"cited", "mixed", "invented", "text"}
Invented == "invented"   \* a citation the model made up

OutputSet(e) == {<<e, SymbolsOf[e][i]>> : i \in DOMAIN SymbolsOf[e]}
Outputs == UNION {OutputSet(e) : e \in Events}
OutputsOf == [e \in Events |-> [i \in DOMAIN SymbolsOf[e] |-> <<e, SymbolsOf[e][i]>>]]

ASSUME AIAssumption ==
  /\ TopicOf \in [Messages -> {"news", "signals"}]
  /\ EventOf \in [Messages -> Events \cup {NoEvent}]
  /\ NoEvent \notin Events /\ NoMessage \notin Messages /\ Nobody \notin Workers
  /\ Events \subseteq Nat /\ \A e \in Events : SymbolsOf[e] \in Seq(Symbols)
  /\ Knn \in [Events -> [Events -> Int]] /\ Lexical \in [Events -> [Events -> Int]]
  /\ Replies \subseteq ReplyKinds /\ Faults \subseteq FaultKinds
  /\ TopK \in Nat /\ CandidateK \in Nat /\ BatchSize \in Nat \ {0}
  /\ MaxAttempts \in Nat \ {0} /\ MaxDeliveries \in Nat \ {0}

VARIABLES
  pc, turn, batch, msg,      \* per replica: where its poll loop is
  work,                      \* per replica: the locals of the attempt it makes
  state, owner, deliveries,  \* per message: what the broker knows
  index,                     \* documents of the vector index
  generations,               \* llm cache: pairs of a key and a guarded result
  insights,                  \* ai:insight cache, per symbol: one insight or none
  marked,                    \* ai:processed markers: <<event, symbol>>
  topic,                     \* insights published, per <<event, symbol>>
  late                       \* published once more although the event was done (history)

pollVars == <<turn, batch, msg>>
brokerVars == <<state, owner, deliveries>>
cacheVars == <<generations, insights, marked>>
topicVars == <<topic, late>>
vars == <<pc, pollVars, work, brokerVars, index, cacheVars, topicVars>>

Steps == {"idle", "index", "check", "retrieve", "lookup", "generate", "store",
          "publish", "show", "mark", "complete", "reject"}

\* The locals of an attempt when it starts with a symbol, and with the first one.
Locals(pos, attempt) == [pos |-> pos, attempt |-> attempt, context |-> <<>>, draft |-> NoDraft]
Fresh == Locals(1, 1)

Init ==
  /\ pc = [w \in Workers |-> "idle"]
  /\ turn = [w \in Workers |-> "news"]
  /\ batch = [w \in Workers |-> {}]
  /\ msg = [w \in Workers |-> NoMessage]
  /\ work = [w \in Workers |-> Fresh]
  /\ state = [m \in Messages |-> "ready"]
  /\ owner = [m \in Messages |-> Nobody]
  /\ deliveries = [m \in Messages |-> 0]
  /\ index = {} /\ generations = {} /\ marked = {}
  /\ insights = [s \in Symbols |-> {}]
  /\ topic = [o \in Outputs |-> {}] /\ late = {}

-----------------------------------------------------------------------------
(* The poll loop *)

Event(w) == EventOf[msg[w]]
Symbol(w) == SymbolsOf[Event(w)][work[w].pos]
Output(w) == <<Event(w), Symbol(w)>>
Handling(w, m) == m \in batch[w] \/ msg[w] = m

Goto(w, step) == pc' = [pc EXCEPT ![w] = step]

\* Mutant: the loop ends with the first exception of poll_once.
AbortPollEndsLoop(w) ==
  /\ Goto(w, "stopped")
  /\ turn' = [turn EXCEPT ![w] = "news"]
  /\ batch' = [batch EXCEPT ![w] = {}]
  /\ msg' = [msg EXCEPT ![w] = NoMessage]
  /\ work' = [work EXCEPT ![w] = Fresh]

\* poll_once is left with an exception: run_poll_loop starts it again, from the
\* news topic, and the rest of the batch is dropped unsettled.
AbortPoll(w) ==
  /\ Goto(w, "idle")
  /\ turn' = [turn EXCEPT ![w] = "news"]
  /\ batch' = [batch EXCEPT ![w] = {}]
  /\ msg' = [msg EXCEPT ![w] = NoMessage]
  /\ work' = [work EXCEPT ![w] = Fresh]

Available(t) == {m \in Messages : TopicOf[m] = t /\ state[m] = "ready"}

\* The broker hands S to w under peek locks.
Deliver(w, S) ==
  /\ state' = [m \in Messages |-> IF m \in S THEN "locked" ELSE state[m]]
  /\ owner' = [m \in Messages |-> IF m \in S THEN w ELSE owner[m]]
  /\ deliveries' = [m \in Messages |-> deliveries[m] + (IF m \in S THEN 1 ELSE 0)]

Receive(w) ==
  /\ pc[w] = "idle" /\ batch[w] = {}
  /\ \E S \in SUBSET Available(turn[w]) :
       /\ Cardinality(S) <= BatchSize
       /\ S = {} => Available(turn[w]) = {}
       /\ Deliver(w, S)
       /\ batch' = [batch EXCEPT ![w] = S]
  /\ turn' = [turn EXCEPT ![w] = IF @ = "news" THEN "signals" ELSE "news"]
  /\ UNCHANGED <<pc, msg, work, index, cacheVars, topicVars>>

\* A lost connection, or a body in the batch that does not decode.
ReceiveRaises(w) ==
  /\ "receive" \in Faults
  /\ pc[w] = "idle" /\ batch[w] = {}
  /\ \E S \in SUBSET Available(turn[w]) : Cardinality(S) <= BatchSize /\ Deliver(w, S)
  /\ AbortPoll(w)
  /\ UNCHANGED <<index, cacheVars, topicVars>>

\* _handle_message up to its first await: validate the payload.
Begin(w) ==
  /\ pc[w] = "idle"
  /\ \E m \in batch[w] :
       /\ batch' = [batch EXCEPT ![w] = @ \ {m}]
       /\ msg' = [msg EXCEPT ![w] = m]
       /\ Goto(w, IF EventOf[m] = NoEvent THEN "reject" ELSE "index")
  /\ UNCHANGED <<turn, work, brokerVars, index, cacheVars, topicVars>>

-----------------------------------------------------------------------------
(* One attempt, retried as a whole by _process_with_retries *)

\* Mutant: after the last attempt the message is completed.
AttemptFailsCompletes(w) ==
  LET n == work[w].attempt
  IN  /\ Goto(w, IF n < MaxAttempts THEN "index" ELSE "complete")
      /\ work' = [work EXCEPT ![w] = Locals(1, IF n < MaxAttempts THEN n + 1 ELSE 1)]
      /\ UNCHANGED pollVars

\* The operation raises: run it again from its start, or dead-letter the message.
AttemptFails(w) ==
  LET n == work[w].attempt
  IN  /\ Goto(w, IF n < MaxAttempts THEN "index" ELSE "reject")
      /\ work' = [work EXCEPT ![w] = Locals(1, IF n < MaxAttempts THEN n + 1 ELSE 1)]
      /\ UNCHANGED pollVars

Raises(w, fault) == fault \in Faults /\ AttemptFails(w)

\* The attempt goes on with another step.
GoOn(w, step) == Goto(w, step) /\ UNCHANGED <<pollVars, work>>

\* The next symbol of the event, or, after the last, the message is completed.
NextSymbol(w) ==
  /\ work' = [work EXCEPT ![w] = Locals(work[w].pos + 1, work[w].attempt)]
  /\ Goto(w, "check")
  /\ UNCHANGED pollVars

\* index_source_document: the document replaces an older one of its id.
Indexed(e) == index' = index \cup {e}

\* _index_news_event, _index_signal_context; the request may fail after it took effect.
Index(w) ==
  /\ pc[w] = "index"
  /\ \/ Indexed(Event(w)) /\ GoOn(w, "check")
     \/ (Indexed(Event(w)) \/ UNCHANGED index) /\ Raises(w, "search")
  /\ UNCHANGED <<brokerVars, cacheVars, topicVars>>

\* Mutant: the marker is not looked at.
CheckIgnoresMarker(w) ==
  /\ pc[w] = "check"
  /\ GoOn(w, IF work[w].pos \notin DOMAIN SymbolsOf[Event(w)] THEN "complete" ELSE "retrieve")
  /\ UNCHANGED <<brokerVars, index, cacheVars, topicVars>>

\* The marker of the event and symbol is read; the attempt is over after the last.
Check(w) ==
  /\ pc[w] = "check"
  /\ IF work[w].pos \notin DOMAIN SymbolsOf[Event(w)] THEN GoOn(w, "complete")
     ELSE \/ Output(w) \in marked /\ NextSymbol(w)
          \/ Output(w) \notin marked /\ GoOn(w, "retrieve")
          \/ Raises(w, "cache")
  /\ UNCHANGED <<brokerVars, index, cacheVars, topicVars>>

\* The context of a document id list, as the prompt and the guardrails see it.
Docs(ids) == [i \in DOMAIN ids |-> [citation |-> CitationOf[ids[i]], tokens |-> {ContentOf[ids[i]]}]]

\* build_context_documents: what retrieve_chunks finds for the event's query.
ContextsFor(e) ==
  LET rows == {[id |-> d, knn |-> Knn[e][d], lexical |-> Lexical[e][d]] : d \in index}
      ids(found) == [i \in DOMAIN found |-> found[i].id]
  IN  {Docs(ids(found)) : found \in RetrieveChunks(rows, TopK, CandidateK)}

Retrieve(w) ==
  /\ pc[w] = "retrieve"
  /\ \/ /\ \E context \in ContextsFor(Event(w)) : work' = [work EXCEPT ![w].context = context]
        /\ Goto(w, "lookup")
        /\ UNCHANGED pollVars
     \/ Raises(w, "search")
  /\ UNCHANGED <<brokerVars, index, cacheVars, topicVars>>

\* _llm_cache_key: the content, the symbol and the set of retrieved documents, not
\* the event id, so that a story polled twice shares a generation.
CacheKey(w) ==
  [content |-> ContentOf[Event(w)], symbol |-> Symbol(w),
   context |-> {work[w].context[i] : i \in DOMAIN work[w].context}]

Drafted(w, draft, step) ==
  /\ work' = [work EXCEPT ![w].draft = draft]
  /\ Goto(w, step)
  /\ UNCHANGED pollVars

\* Mutant: an insight made of a cached generation is taken to be published already.
LookupHitIsPublished(w) ==
  /\ pc[w] = "lookup"
  /\ LET hits == {g \in generations : g.key = CacheKey(w)}
     IN  \/ hits = {} /\ GoOn(w, "generate")
         \/ \E g \in hits : Drafted(w, g.draft, "show")
         \/ Raises(w, "cache")
  /\ UNCHANGED <<brokerVars, index, cacheVars, topicVars>>

\* A cached generation goes through the guardrails again.
Lookup(w) ==
  /\ pc[w] = "lookup"
  /\ LET hits == {g \in generations : g.key = CacheKey(w)}
     IN  \/ hits = {} /\ GoOn(w, "generate")
         \/ \E g \in hits :
              Drafted(w, [g.draft EXCEPT !.result = ApplyGuardrails(work[w].context, @)], "publish")
         \/ Raises(w, "cache")
  /\ UNCHANGED <<brokerVars, index, cacheVars, topicVars>>

\* A model's reply: it cites the first document, that and an invention, or only an
\* invention, or it is no JSON.
Reply(kind, context) ==
  LET first == IF context = <<>> THEN {} ELSE {context[1].citation}
  IN  [json |-> kind # "text", tokens |-> ContextTokens(context), blank |-> FALSE,
       refusal |-> FALSE, confidence |-> 80, score |-> 50, label |-> "positive",
       citations |-> CASE kind = "cited" -> first
                       [] kind = "mixed" -> first \cup {Invented}
                       [] OTHER -> {Invented}]

\* The provider answers with a result that went through its guardrails; judged
\* (history) is the verdict on the result as the model gave it.
Answered(context, reply) ==
  [result |-> Generate(context, reply),
   judged |-> Evaluate(context, Structured(context, reply)).grounded]

Ask(w) ==
  /\ pc[w] = "generate"
  /\ \/ \E kind \in Replies :
          Drafted(w, Answered(work[w].context, Reply(kind, work[w].context)), "store")
     \/ Raises(w, "llm")
  /\ UNCHANGED <<brokerVars, index, cacheVars, topicVars>>

\* The service applies the guardrails as well, then caches what is left.
Guarded(w) == [work[w].draft EXCEPT !.result = ApplyGuardrails(work[w].context, @)]

Store(w) ==
  /\ pc[w] = "store"
  /\ \E draft \in {Guarded(w)} :
       LET written == generations' = {g \in generations : g.key # CacheKey(w)}
                                       \cup {[key |-> CacheKey(w), draft |-> draft]}
       IN  \/ written /\ Drafted(w, draft, "publish")
           \/ (written \/ UNCHANGED generations) /\ Raises(w, "cache")
  /\ UNCHANGED <<brokerVars, index, insights, marked, topicVars>>

\* _insight_from_result
Insight(w) ==
  [output |-> Output(w), citations |-> work[w].draft.result.citations,
   grounded |-> work[w].draft.result.grounded, judged |-> work[w].draft.judged]

\* Outputs of the events whose symbols are all marked.
Finished == UNION {OutputSet(e) : e \in {f \in Events : OutputSet(f) \subseteq marked}}

\* _publish_insight: the insight is on the topic.  The message id is the processed key,
\* so the copies of an insight share it.
Accepted(w) ==
  /\ topic' = [topic EXCEPT ![Output(w)] = @ \cup {Insight(w)}]
  /\ late' = late \cup ({Output(w)} \cap Finished)

Publish(w) ==
  /\ pc[w] = "publish"
  /\ \/ Accepted(w) /\ GoOn(w, "show")
     \/ UNCHANGED topicVars /\ Raises(w, "publish")
     \/ Accepted(w) /\ Raises(w, "publish_unknown")
  /\ UNCHANGED <<brokerVars, index, cacheVars>>

\* Mutant: a failing cache is no reason to give up the attempt.
ShowBestEffort(w) ==
  /\ pc[w] = "show"
  /\ \/ insights' = [insights EXCEPT ![Symbol(w)] = {Insight(w)}]
     \/ "cache" \in Faults /\ UNCHANGED insights
  /\ GoOn(w, "mark")
  /\ UNCHANGED <<brokerVars, index, generations, marked, topicVars>>

\* The insight the API serves for the symbol.
Show(w) ==
  /\ pc[w] = "show"
  /\ LET written == insights' = [insights EXCEPT ![Symbol(w)] = {Insight(w)}]
     IN  \/ written /\ GoOn(w, "mark")
         \/ (written \/ UNCHANGED insights) /\ Raises(w, "cache")
  /\ UNCHANGED <<brokerVars, index, generations, marked, topicVars>>

Mark(w) ==
  /\ pc[w] = "mark"
  /\ LET written == marked' = marked \cup {Output(w)}
     IN  \/ written /\ NextSymbol(w)
         \/ (written \/ UNCHANGED marked) /\ Raises(w, "cache")
  /\ UNCHANGED <<brokerVars, index, generations, insights, topicVars>>

-----------------------------------------------------------------------------
(* Settling *)

SettledAs(m, outcome) ==
  /\ state' = [state EXCEPT ![m] = outcome]
  /\ owner' = [owner EXCEPT ![m] = Nobody]
  /\ UNCHANGED deliveries

\* The message is done with, and so is what the attempt knew.
Done(w) ==
  /\ Goto(w, "idle")
  /\ msg' = [msg EXCEPT ![w] = NoMessage]
  /\ work' = [work EXCEPT ![w] = Fresh]
  /\ UNCHANGED <<turn, batch>>

\* bus.complete is inside the retried operation: when it raises, perhaps after the
\* message was completed, the attempt fails and the event is gone through again.
Complete(w) ==
  /\ pc[w] = "complete"
  /\ \/ owner[msg[w]] = w /\ SettledAs(msg[w], "completed") /\ Done(w)
     \/ /\ owner[msg[w]] = w
        /\ SettledAs(msg[w], "completed") \/ UNCHANGED brokerVars
        /\ Raises(w, "settle")
     \/ owner[msg[w]] # w /\ UNCHANGED brokerVars /\ AttemptFails(w)
  /\ UNCHANGED <<index, cacheVars, topicVars>>

\* dead_letter_message is not retried: when it raises, perhaps after the message was
\* dead-lettered, poll_once ends.
DeadLettered(w) ==
  \/ owner[msg[w]] = w /\ SettledAs(msg[w], "dead") /\ Done(w)
  \/ /\ owner[msg[w]] = w /\ "settle" \in Faults
     /\ SettledAs(msg[w], "dead") \/ UNCHANGED brokerVars
     /\ AbortPoll(w)
  \/ owner[msg[w]] # w /\ UNCHANGED brokerVars /\ AbortPoll(w)

Reject(w) ==
  /\ pc[w] = "reject" /\ DeadLettered(w)
  /\ UNCHANGED <<index, cacheVars, topicVars>>

-----------------------------------------------------------------------------
(* The environment *)

Crash(w) ==
  /\ "crash" \in Faults
  /\ pc[w] # "idle" \/ batch[w] # {}
  /\ AbortPoll(w)
  /\ UNCHANGED <<brokerVars, index, cacheVars, topicVars>>

\* LockDuration passes: the message is available again, or dead-lettered by the
\* broker when its deliveries are used up.
PeekLockExpires(m) ==
  /\ state[m] = "locked"
  /\ "peek_lock_lost" \in Faults \/ ~Handling(owner[m], m)
  /\ state' = [state EXCEPT ![m] = IF deliveries[m] < MaxDeliveries THEN "ready" ELSE "dead"]
  /\ owner' = [owner EXCEPT ![m] = Nobody]
  /\ UNCHANGED <<pc, pollVars, work, deliveries, index, cacheVars, topicVars>>

Step(w) ==
  \/ Receive(w) \/ Begin(w) \/ Index(w) \/ Check(w) \/ Retrieve(w) \/ Lookup(w)
  \/ Ask(w) \/ Store(w) \/ Publish(w) \/ Show(w) \/ Mark(w) \/ Complete(w) \/ Reject(w)

Next ==
  \/ \E w \in Workers : Step(w) \/ ReceiveRaises(w) \/ Crash(w)
  \/ \E m \in Messages : PeekLockExpires(m)

Spec == Init /\ [][Next]_vars

\* A replica keeps running its poll loop, and the broker's clock keeps going.
FairSpec ==
  /\ Spec
  /\ \A w \in Workers : WF_vars(Step(w))
  /\ \A m \in Messages : WF_vars(PeekLockExpires(m))
-----------------------------------------------------------------------------
(* Properties *)

TypeOK ==
  /\ pc \in [Workers -> Steps]
  /\ turn \in [Workers -> {"news", "signals"}]
  /\ batch \in [Workers -> SUBSET Messages]
  /\ msg \in [Workers -> Messages \cup {NoMessage}]
  /\ \A w \in Workers : work[w].pos \in Nat \ {0} /\ work[w].attempt \in 1..MaxAttempts
  /\ state \in [Messages -> {"ready", "locked", "completed", "dead"}]
  /\ owner \in [Messages -> Workers \cup {Nobody}]
  /\ deliveries \in [Messages -> Nat]
  /\ index \subseteq Events
  /\ marked \subseteq Outputs
  /\ DOMAIN insights = Symbols /\ DOMAIN topic = Outputs /\ late \subseteq Outputs

\* An event and symbol carry the processed marker, which makes every later copy of
\* the event skip the symbol, only when their insight is published and the API has
\* an insight of the symbol to serve: marker last, whatever fails or crashes.
MarkedIsPublished ==
  \A o \in marked : topic[o] # {} /\ insights[o[2]] # {}

\* No message is completed while a symbol of its event lacks its insight: completing
\* is part of the retried operation, so a failure half-way through the symbols ends
\* in the remaining ones being done or in a dead letter.
CompletedIsMarked ==
  \A m \in Messages :
    state[m] = "completed" => EventOf[m] # NoEvent /\ OutputSet(EventOf[m]) \subseteq marked

\* The API never serves an insight that the subscribers of the insights topic did
\* not get, for all the replicas that overwrite each other's cache entries.
ServedWasPublished ==
  \A s \in Symbols : \A i \in insights[s] :
    i.output \in Outputs /\ i.output[2] = s /\ i \in topic[i.output]

\* Whatever the model answers, and whether the answer was generated for this event
\* or cached for another one, a published insight cites indexed documents only: "an
\* unfiltered one flows through Insight into the alerts topic" (guardrails.py:104).
CitationsIndexed ==
  \A o \in Outputs : \A i \in topic[o] : \A c \in i.citations :
    \E d \in index : c = CitationOf[d]

\* "The report still records citation_mismatch so the rejection stays visible"
\* (guardrails.py:106): a generation judged ungrounded is not published as grounded.
\* The code violates it: the provider's guardrails drop the invented citation and the
\* service's guardrails then find nothing wrong.
RejectionStays ==
  \A o \in Outputs : \A i \in topic[o] : i.grounded => i.judged

\* Every message is settled in the end, whatever the replicas' fate.
AllSettled == \A m \in Messages : <>(state[m] \in {"completed", "dead"})

\* While no peek lock is lost and each event has one message, the service implements
\* EventDelivery: nothing is published for an event whose symbols are all marked,
\* although a failed settlement sends the whole operation round again.
Delivery == INSTANCE EventDelivery WITH
  topic <- [o \in Outputs |-> Cardinality(topic[o]) + Cardinality({o} \cap late)],
  done <- {e \in Events : OutputSet(e) \subseteq marked},
  outcome <- [m \in Messages |->
                IF state[m] \in {"ready", "locked"} THEN "open" ELSE state[m]]

ImplementsDelivery == Delivery!Spec
=============================================================================
