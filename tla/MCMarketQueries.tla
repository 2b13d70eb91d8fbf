-------------------------- MODULE MCMarketQueries --------------------------
(***************************************************************************)
(* Two instances of the stream service with one replica, one of which is   *)
(* chosen at the start: one with several kinds of faults that nobody       *)
(* queries, and one whose cache may fail while a request reads beside it.  *)
(***************************************************************************)
EXTENDS MarketQueries

VARIABLE mode   \* "faulty", with the constants of the .cfg, or "queried"

Queried == INSTANCE MarketQueries WITH
  Faults <- {"cache"}

\* An event, a later one, and a second copy of the first.
ReplayKeyOf == <<1, 2, 1>>

ModeInit == QueryInit /\ mode \in {"faulty", "queried"}
ModeNext ==
  /\ UNCHANGED mode
  /\ \/ mode = "faulty" /\ Next /\ UNCHANGED queryVars
     \/ mode = "queried" /\ stage # "served" /\ Queried!QueryNext
     \/ mode = "queried" /\ stage = "served" /\ UNCHANGED allVars
ModeSpec == ModeInit /\ [][ModeNext]_<<allVars, mode>>
=============================================================================
