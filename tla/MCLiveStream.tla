---------------------------- MODULE MCLiveStream ----------------------------
(***************************************************************************)
(* An instance of LiveStream: one topic with messages of two symbols.      *)
(***************************************************************************)
EXTENDS LiveStream

LiveTopicOf == [m \in Messages |-> "market"]
LiveSymbolOf == [m \in Messages |-> IF m = 2 THEN "ETH" ELSE "BTC"]
=============================================================================
