---------------------------- MODULE MCRepository ----------------------------
(* Model-checking instance of Repository.                                  *)
EXTENDS Repository

CONSTANTS r1, r2, r3
=============================================================================
