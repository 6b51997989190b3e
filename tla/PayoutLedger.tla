---------------------------- MODULE PayoutLedger ----------------------------
(***************************************************************************)
(* What the funding bot promises, without files, processes, messages or    *)
(* balances: funding records become pending, a batch of pending records is *)
(* paid at most once, and a record is marked done only when it has been    *)
(* paid or when its batch needs no payment.                                *)
(***************************************************************************)
EXTENDS Integers

CONSTANTS
  Records,      \* the rows of the funding table
  PayoutTotal   \* payout of a batch of records, in the smallest unit

VARIABLES
  status,   \* status column of each record
  paid      \* the batches that have been paid

ledgerVars == <<status, paid>>

Pending == {r \in Records : status[r] = "pending"}

LedgerInit ==
  /\ status = [r \in Records |-> "absent"]
  /\ paid = {}

(* A new funding record is written by the upstream accounting job.         *)
Accrue(r) ==
  /\ status[r] = "absent"
  /\ status' = [status EXCEPT ![r] = "pending"]
  /\ UNCHANGED paid

(* Money leaves the settlement account for a batch never paid before.      *)
Pay(B) ==
  /\ B \subseteq Pending
  /\ PayoutTotal[B] > 0
  /\ \A C \in paid : B \cap C = {}
  /\ paid' = paid \cup {B}
  /\ UNCHANGED status

(* A whole batch is marked done: it has been paid, or it owes nothing.     *)
Settle(B) ==
  /\ B \subseteq Pending
  /\ B \in paid \/ PayoutTotal[B] = 0
  /\ status' = [r \in Records |-> IF r \in B THEN "done" ELSE status[r]]
  /\ UNCHANGED paid

LedgerNext ==
  \/ \E r \in Records : Accrue(r)
  \/ \E B \in SUBSET Records : Pay(B) \/ Settle(B)

LedgerSpec == LedgerInit /\ [][LedgerNext]_ledgerVars
=============================================================================
