-------------------------- MODULE PayoutProperties --------------------------
(***************************************************************************)
(* What the payout protocol guarantees.  The invariants quantify over the  *)
(* snapshots on disk and the run in memory together with what the exchange *)
(* has done, so none of them is visible to a test of one function.         *)
(***************************************************************************)
EXTENDS Payout

Processes ==
  {"down", "idle", "load", "list", "save", "preflight", "submit", "await",
   "observe", "complete", "archive", "clear"}

File == {Missing, Invalid} \cup RunState

(* Every variable has the shape the code gives it; in particular a run     *)
(* state never leaves the phases and the attempt counts of model.go.       *)
TypeOK ==
  /\ cur \in File /\ bak \in File
  /\ durable \subseteq File \X File
  /\ damage \in Nat
  /\ history \subseteq [nonce : 0..MaxNonce, batch : SUBSET Records,
                        result : {"completed", "rejected", "blocked",
                                  "failed_validation"}]
  /\ status \in [Records -> {"absent", "pending", "done"}]
  /\ pc \in Processes
  /\ trigger \in {"none", "crashed", "recover", "run_on_start", "utc_payout"}
  /\ mem \in RunState
  /\ left \in 0..2
  /\ pre \in [tries : Nat, stable : Nat, total : Nat, avail : Nat]
  /\ obs \in [tries : Nat, good : Nat, atBefore : BOOLEAN,
              evidence : {"none", "decreased", "decreased_with_fee"},
              stable : Nat]
  /\ reply \in {"none", "accepted", "rejected"}
  /\ nextNonce \in 1..MaxNonce + 1
  /\ submits \in [1..MaxNonce -> Nat]
  /\ inflight \subseteq Copy
  /\ applied \subseteq Request
  /\ ledger \in Seq(Nat) /\ Len(ledger) > 0
  /\ seen \in 1..Len(ledger)

-----------------------------------------------------------------------------
(* The runs that exist anywhere: on disk or in the process.                *)
Snapshots == {f \in {cur, bak} : Valid(f)}
Runs == Snapshots \cup {mem}

(* No funding record is paid twice: two different executed requests share  *)
(* no record, whatever was lost, delayed, duplicated, misread or crashed   *)
(* (executePayout, replayPreparedPayout, recoverState).                    *)
NoDoublePay ==
  \A p, q \in applied : p # q => p.batch \cap q.batch = {}

(* No signed request leaves the process more than twice: the replay that   *)
(* replayPreparedPayout reserves in both snapshots is the only one.        *)
NoThirdSubmit ==
  \A n \in 1..MaxNonce : submits[n] <= 2

(* An empty store forgets no money: once Clear has removed the snapshots,  *)
(* every request that was executed, or that the network may still deliver, *)
(* belongs to records already marked done, and every nonce that was ever   *)
(* submitted is accounted for in data/history (finishRun, rejectPayout).   *)
NothingForgotten ==
  LoadsNothing(cur, bak) =>
    /\ \A q \in Live : q.batch \subseteq Done
    /\ \A n \in 1..MaxNonce : submits[n] > 0 =>
         \E h \in history : h.nonce = n /\ h.result \in {"completed", "rejected"}

(* A run archived as rejected never moved money and never will: what       *)
(* rejectPayout relies on when it clears the snapshots of pending records. *)
RejectedIsUnpaid ==
  \A h \in history : h.result = "rejected" => \A q \in Live : q.nonce # h.nonce

(* Every snapshot that a restart may load passes the validations of        *)
(* recoverState: no sequence of saves, failures and replays leaves a run   *)
(* that recovery itself would refuse (validateTargetProgress).             *)
SnapshotsRecoverable ==
  \A s \in Snapshots :
    s.phase # "completed" =>
      /\ ValidProgress(s)
      /\ s.phase = "payout_confirmed" => ValidJournal(s)

(* A confirmed payout was executed: neither the exchange's answer nor two  *)
(* matching balances confirm a payout that did not happen                  *)
(* (submitPayoutAttempt, observeUncertainPayout, confirmPayout).           *)
ConfirmedIsPaid ==
  \A s \in Runs :
    s.phase \in {"payout_confirmed", "completed"} /\ s.nonce # 0 => Spent(s.nonce)

-----------------------------------------------------------------------------
(* Once a run is archived as blocked nothing is ever submitted again,      *)
(* neither its own request nor one of a later run (blockUncertainPayout).  *)
BlockedIsFinal ==
  [][(\E h \in history : h.result = "blocked") => UNCHANGED submits]_vars

(* Every submitted payout gets a verdict: it is archived, or the snapshot  *)
(* a restart loads says blocked and a person has to look (submitPayout-    *)
(* Attempt, observeUncertainPayout, recoverState).  Assumed: the process   *)
(* is killed only finitely often.                                          *)
EverySubmitResolves ==
  <>[](trigger # "crashed") =>
    \A n \in 1..MaxNonce :
      submits[n] > 0 ~> \/ \E h \in history : h.nonce = n
                        \/ Valid(Loaded) /\ Loaded.nonce = n /\ Loaded.phase = "blocked"

(* A confirmed payout reaches the funding table: as long as the database   *)
(* works in the end, its records become done (completeDatabase and its     *)
(* repetition by recoverState).                                            *)
ConfirmedSettles ==
  <>[](trigger # "crashed") =>
    \A r \in Records :
      (Valid(Loaded) /\ Loaded.phase = "payout_confirmed" /\ r \in Loaded.batch)
        ~> status[r] = "done"

(* The payout protocol implements the ledger: executed requests are the    *)
(* payments, and the funding table is the ledger's own.                    *)
Ledger == INSTANCE PayoutLedger WITH paid <- {q.batch : q \in applied}

ImplementsLedger == Ledger!LedgerSpec
=============================================================================
