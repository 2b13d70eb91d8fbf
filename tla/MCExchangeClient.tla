-------------------------- MODULE MCExchangeClient --------------------------
(***************************************************************************)
(* An instance of ExchangeClient; its constants are set in the .cfg.       *)
(***************************************************************************)
EXTENDS ExchangeClient
=============================================================================
