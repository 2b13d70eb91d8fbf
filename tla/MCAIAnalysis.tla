---------------------------- MODULE MCAIAnalysis ----------------------------
(***************************************************************************)
(* Instances of AIAnalysis: a story, and the same story polled again.      *)
(***************************************************************************)
EXTENDS AIAnalysis

\* The second poll gave the story a new event id; its url and text are the same.
\* Event 1 names two symbols, event 2 one of them.
StoryTopicOf == [m \in Messages |-> "news"]
StoryEventOf == [m \in Messages |-> m]
StorySymbolsOf == [e \in Events |-> IF e = 1 THEN <<"BTC", "ETH">> ELSE <<"BTC">>]
StoryContentOf == [e \in Events |-> "story"]
StoryCitationOf == [e \in Events |-> "url"]
\* The documents have one text, so they score alike for either query.
StoryKnn == [e \in Events |-> [d \in Events |-> 99]]
StoryLexical == [e \in Events |-> [d \in Events |-> 100]]
=============================================================================
