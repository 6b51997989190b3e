--------------------------- MODULE MCConsolidation ---------------------------
(***************************************************************************)
(* Small instances of the consolidation.                                   *)
(***************************************************************************)
EXTENDS Consolidation

CONSTANTS b1, b2   \* builders
=============================================================================
