---------------------------- MODULE MCRateLimit ----------------------------
(* One builder and the settlement account.                                 *)
EXTENDS RateLimit
CONSTANTS builder, settlement
=============================================================================
