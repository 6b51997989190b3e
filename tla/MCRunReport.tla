---------------------------- MODULE MCRunReport ----------------------------
(* Entries of a record as the consolidation leaves them.                   *)
EXTENDS RunReport

CONSTANTS b1, b2

Entry(claimable, claim, uncertain, sweep) ==
  [claimable |-> claimable, claim |-> claim, uncertain |-> uncertain, sweep |-> sweep]

MCFinalEntries ==
  {Entry(2, "success", FALSE, "success"), Entry(1, "success", FALSE, "success"),
   Entry(2, "warning", TRUE, "success"), Entry(Unseen, "skipped", FALSE, "warning")}

MCCapturedEntries == {Entry(2, "pending", FALSE, "pending")}
=============================================================================
