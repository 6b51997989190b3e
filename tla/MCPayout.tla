------------------------------ MODULE MCPayout ------------------------------
(***************************************************************************)
(* Small instances of the payout protocol.  Amounts are in a raw unit of   *)
(* which two make one unit of payout (CalculateTotals rounds the exact sum *)
(* up from 18 to 6 decimals).                                              *)
(***************************************************************************)
EXTENDS PayoutProperties, FiniteSets

CONSTANTS a, b, z, neg   \* funding records

RawAmount == [r \in {a, b, z, neg} |-> CASE r = a -> 3
                                         [] r = b -> 4
                                         [] r = z -> 0
                                         [] OTHER -> 0 - 1]

RawTotal(B) == LET amountOf(r) == IF r \in B THEN RawAmount[r] ELSE 0
               IN  amountOf(a) + amountOf(b)

(* The rounded-up sum; 3 raw units and 4 raw units both pay 2.             *)
MCPayoutTotal == [B \in SUBSET Records |-> (RawTotal(B) + 1) \div 2]
=============================================================================
