------------------------------ MODULE MCOutage ------------------------------
(* Model-checking instance of Outage.                                      *)
EXTENDS Outage
=============================================================================
