---------------------------- MODULE MCSubmission ----------------------------
(* Model-checking instance of Submission.                                  *)
EXTENDS Submission

CONSTANTS b, s, r   \* a builder, the settlement account, the recipient

(* The builder has a claimable reward and a part on hold.                  *)
MCOpeningBalance == (b :> 1) @@ (s :> 2) @@ (r :> 0)
MCHold           == (b :> 1) @@ (s :> 0) @@ (r :> 0)
MCOpeningReward  == (b :> 2) @@ (s :> 0) @@ (r :> 0)
MCDestination    == (b :> s) @@ (s :> r) @@ (r :> r)
=============================================================================
