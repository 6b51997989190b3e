------------------------------- MODULE Payout -------------------------------
(***************************************************************************)
(* The UTC 01:00 payout of the funding bot: one process that freezes the   *)
(* pending records into a run, pays them with one signed request, marks    *)
(* them done and archives the run, and that recovers from its snapshots    *)
(* after a crash at any point (internal/funding payout.go, recovery.go,    *)
(* orchestrator.go).  Around it: the two snapshot files, the funding       *)
(* table, the exchange that receives the request late, twice or never, and *)
(* the balance index the process reads instead of the exchange.            *)
(*                                                                         *)
(* Each action is one call that crosses the process boundary (a save, a    *)
(* query, a submission) together with all the code up to the next one.     *)
(* Cancellation (SIGTERM) and the exit of the scheduler after its last     *)
(* retry are Crash: both end the process and keep what is on disk.  A      *)
(* power loss also undoes directory changes that were never synced.        *)
(***************************************************************************)
EXTENDS Integers, Sequences, SnapshotStore

CONSTANTS
  Records,               \* the rows of the funding table
  Negative,              \* the rows whose amount is negative
  PayoutTotal,           \* payout of each batch of rows, in the smallest unit
  ActivationFee,         \* payoutNewAddressActivationFee
  PreflightAttempts,     \* settlementBalanceQueryAttempts
  ObservationAttempts,   \* payoutBalanceObservationAttempts
  QueryAttempts,         \* payoutBalanceQueryAttempts
  Confirmations,         \* the two ...RequiredConfirmations constants
  Opening,               \* settlement total before the first run
  Deposits,              \* amounts a sweep or an operator may credit
  Holds,                 \* amounts of the settlement total that may be on hold
  MaxTotal,              \* bound: no deposit above this settlement total
  MaxNonce,              \* bound: nonces handed out
  MaxDamage,             \* bound: snapshots damaged between two empty stores
  PowerFails,            \* may the machine lose power?
  StaleBaseline,         \* may the pre-payout balance query lag behind?
  RegressingReads        \* may a later query return an older total?

ASSUME PayoutAssumption ==
  /\ Negative \subseteq Records
  /\ PayoutTotal \in [SUBSET Records -> Nat]
  /\ ActivationFee \in Nat
  /\ PreflightAttempts \in Nat \ {0}
  /\ ObservationAttempts \in Nat \ {0}
  /\ QueryAttempts \in Nat \ {0}
  /\ Confirmations \in Nat \ {0}
  /\ Opening \in Nat
  /\ Deposits \subseteq Nat
  /\ Holds \subseteq Nat
  /\ MaxTotal \in Nat
  /\ MaxNonce \in Nat
  /\ MaxDamage \in Nat
  /\ PowerFails \in BOOLEAN
  /\ StaleBaseline \in BOOLEAN
  /\ RegressingReads \in BOOLEAN

-----------------------------------------------------------------------------
(* The persisted run (RunState with its single referral target).  nonce 0  *)
(* means that the target has no payout journal.                            *)

Phases ==
  {"prepared", "payout_prepared", "payout_submitting", "payout_replaying",
   "payout_confirmed", "completed", "blocked"}

RunState ==
  [batch    : SUBSET Records,   \* Manifest.Records
   phase    : Phases,
   nonce    : 0..MaxNonce,      \* Payout.Prepared.Nonce
   before   : Nat,              \* Payout.TotalBefore
   attempts : 0..2,             \* Payout.SubmitAttempts
   reason   : {"none", "uncertain", "rejected"}]   \* BlockedReason

ASSUME SnapshotAssumption == Missing \notin RunState /\ Invalid \notin RunState

NewRun(batch) ==
  [batch |-> batch, phase |-> "prepared", nonce |-> 0, before |-> 0,
   attempts |-> 0, reason |-> "none"]

NoRun == NewRun({})

(* validatePayoutJournal                                                   *)
ValidJournal(s) ==
  /\ s.nonce # 0
  /\ PayoutTotal[s.batch] > 0
  /\ s.before >= PayoutTotal[s.batch]
  /\ s.attempts \in 1..2

(* validateTargetProgress                                                  *)
ValidProgress(s) ==
  s.nonce # 0 =>
    /\ ValidJournal(s)
    /\ s.phase \in {"payout_prepared", "payout_submitting"} => s.attempts = 1
    /\ s.phase = "payout_replaying" => s.attempts = 2

(* Mutant: any balance not above the earlier one counts as evidence.       *)
EvidenceNotAbove(total, s) ==
  IF total <= s.before THEN "decreased" ELSE "none"

(* payoutSettlementEvidence                                                *)
Evidence(total, s) ==
  LET after == s.before - PayoutTotal[s.batch]
  IN  IF after >= 0 /\ total = after THEN "decreased"
      ELSE IF after - ActivationFee >= 0 /\ total = after - ActivationFee
           THEN "decreased_with_fee"
           ELSE "none"

-----------------------------------------------------------------------------
VARIABLES
  \* disk
  cur, bak,    \* current.json and current.json.bak
  durable,     \* the pairs of both that a power loss may leave
  damage,      \* snapshots damaged since the store was last empty
  history,     \* data/history: the archived runs with their result
  \* funding table
  status,      \* status column of each row
  \* process
  pc,          \* which call the process makes next
  trigger,     \* what started this run
  mem,         \* the run it holds in memory
  left,        \* how often mem is still to be saved
  pre,         \* the pre-payout balance loop of runPositive
  obs,         \* the balance loop of observeUncertainPayout
  reply,       \* exchange answer that has reached the waiting process
  nextNonce,   \* next value of the nonce clock
  \* exchange and balance index
  submits,     \* how often each nonce was submitted
  inflight,    \* copies of requests the network still holds
  applied,     \* requests the exchange has executed
  ledger,      \* every value the settlement total has had
  seen         \* position in ledger of the last balance read

files == <<cur, bak, durable>>
disk  == <<files, damage>>
net   == <<submits, inflight>>
funds == <<applied, ledger>>
chain == <<net, funds, seen>>
proc  == <<pc, trigger, mem, left, pre, obs, reply>>
vars  == <<disk, history, status, proc, nextNonce, chain>>

PreInit == [tries |-> 0, stable |-> 0, total |-> 0, avail |-> 0]
ObsInit == [tries |-> 0, good |-> 0, atBefore |-> TRUE, evidence |-> "none",
            stable |-> 0]

Request == [nonce : 1..MaxNonce, batch : SUBSET Records]
Copy    == [nonce : 1..MaxNonce, batch : SUBSET Records, try : Nat]
RequestOf(c) == [nonce |-> c.nonce, batch |-> c.batch]

(* The requests that have moved money or still may.                        *)
Live == applied \cup {RequestOf(c) : c \in inflight}

Pending == {r \in Records : status[r] = "pending"}
Done    == {r \in Records : status[r] = "done"}
Total   == ledger[Len(ledger)]

Init ==
  /\ cur = Missing /\ bak = Missing /\ durable = {<<cur, bak>>}
  /\ damage = 0 /\ history = {}
  /\ status = [r \in Records |-> "absent"]
  /\ pc = "down" /\ trigger = "none" /\ mem = NoRun /\ left = 0
  /\ pre = PreInit /\ obs = ObsInit /\ reply = "none" /\ nextNonce = 1
  /\ submits = [n \in 1..MaxNonce |-> 0] /\ inflight = {} /\ applied = {}
  /\ ledger = <<Opening>> /\ seen = 1

-----------------------------------------------------------------------------
(* How the process moves on.  Go continues the run with state s; Return    *)
(* leaves it: a fatal error ends the process, an ordinary error ends it    *)
(* during startup and makes the scheduler retry otherwise.                 *)

Go(p, s, saves) ==
  /\ pc' = p /\ mem' = s /\ left' = saves
  /\ pre' = PreInit /\ obs' = ObsInit /\ reply' = "none"
  /\ UNCHANGED trigger

Save(s)      == Go("save", s, 1)
SaveTwice(s) == Go("save", s, 2)

Leave(p, why) ==
  /\ pc' = p /\ trigger' = why /\ mem' = NoRun /\ left' = 0
  /\ pre' = PreInit /\ obs' = ObsInit /\ reply' = "none"

Return(result) ==
  Leave(IF result = "ok" \/ (result = "err" /\ trigger = "utc_payout")
        THEN "idle" ELSE "down", "none")

(* startRuntime: Recover, or Run when run_on_start is set.                 *)
Boot ==
  /\ pc = "down"
  /\ pc' = "load" /\ trigger' \in {"recover", "run_on_start"}
  /\ UNCHANGED <<disk, history, status, mem, left, pre, obs, reply, nextNonce, chain>>

(* Scheduler.Run: the 01:00 task, or its retry a minute later.             *)
Tick ==
  /\ pc = "idle"
  /\ pc' = "load" /\ trigger' = "utc_payout"
  /\ UNCHANGED <<disk, history, status, mem, left, pre, obs, reply, nextNonce, chain>>

-----------------------------------------------------------------------------
(* loadCurrent and recoverState                                            *)

LoadNothing ==
  /\ pc = "load" /\ LoadsNothing(cur, bak)
  /\ \/ trigger = "recover" /\ Return("ok")
     \/ trigger # "recover" /\ Go("list", NoRun, 0)
  /\ UNCHANGED <<disk, history, status, nextNonce, chain>>

LoadError ==
  /\ pc = "load" /\ LoadFails(cur, bak)
  /\ Return("err")
  /\ UNCHANGED <<disk, history, status, nextNonce, chain>>

(* Mutants: recovery signs a new request for a submission in doubt, or     *)
(* leaves it to the next run.                                              *)
RecoverAnew(s)  == Go("preflight", s, 0)
RecoverLater(s) == Return("err")

(* A submission in doubt is only observed (recoverState sends nothing).    *)
RecoverUncertain(s) == Go("observe", s, 0)

(* Mutant: a confirmed payout is left for a person to complete.            *)
RecoverByHand(s) == Return("fatal")

(* A confirmed payout goes on to the funding table.                        *)
RecoverConfirmed(s) ==
  IF ValidJournal(s) THEN Go("complete", s, 0) ELSE Return("fatal")

(* Where recovery resumes a run whose snapshot passed its validation.      *)
Resume(s, fromBackup) ==
  \/ /\ s.phase = "prepared"
     /\ Go(IF PayoutTotal[s.batch] = 0 THEN "complete" ELSE "preflight", s, 0)
  \/ /\ s.phase = "payout_prepared" /\ ~fromBackup
     /\ Save([s EXCEPT !.phase = "payout_submitting"])
  \/ s.phase = "payout_prepared" /\ fromBackup /\ RecoverUncertain(s)
  \/ s.phase \in {"payout_submitting", "payout_replaying"} /\ RecoverUncertain(s)
  \/ s.phase = "payout_confirmed" /\ RecoverConfirmed(s)
  \/ s.phase = "blocked" /\ Return("fatal")

(* The snapshot a load returns, when it returns one.                       *)
Loaded == IF LoadsPrimary(cur, bak) THEN cur ELSE bak

RecoverState ==
  /\ pc = "load"
  /\ LoadsPrimary(cur, bak) \/ LoadsBackup(cur, bak)
  /\ LET s == Loaded
     IN  IF s.phase = "completed" THEN Go("archive", s, 0)
         ELSE IF ValidProgress(s) THEN Resume(s, LoadsBackup(cur, bak))
         ELSE Return("fatal")
  /\ UNCHANGED <<disk, history, status, nextNonce, chain>>

-----------------------------------------------------------------------------
(* runNew                                                                  *)

Archived(s, result) == [nonce |-> s.nonce, batch |-> s.batch, result |-> result]

(* The table, or the token metadata, cannot be read.                       *)
ListError ==
  /\ pc = "list"
  /\ Return("err")
  /\ UNCHANGED <<disk, history, status, nextNonce, chain>>

ListNoData ==
  /\ pc = "list" /\ Pending = {}
  /\ Return("ok")
  /\ UNCHANGED <<disk, history, status, nextNonce, chain>>

(* A negative amount: the run is archived without ever being current.      *)
ListInvalid ==
  /\ pc = "list" /\ Pending \cap Negative # {}
  /\ \/ UNCHANGED history
     \/ history' = history \cup {Archived(NewRun(Pending), "failed_validation")}
  /\ Return("fatal")
  /\ UNCHANGED <<disk, status, nextNonce, chain>>

ListPending ==
  /\ pc = "list" /\ Pending # {} /\ Pending \cap Negative = {}
  /\ Save(NewRun(Pending))
  /\ UNCHANGED <<disk, history, status, nextNonce, chain>>

-----------------------------------------------------------------------------
(* saveActivePhase / saveState, with what follows each phase.              *)

(* May a power loss still undo something before the store is next empty?   *)
PowerMayFail == PowerFails /\ damage = 0

(* The store carries out an operation with outcome r.                      *)
Store(r) ==
  /\ cur' = r.cur /\ bak' = r.bak
  /\ durable' = IF PowerMayFail THEN r.durable ELSE {<<r.cur, r.bak>>}

(* The run is on disk (the last of its saves succeeded).                   *)
AfterSave ==
  \/ /\ mem.phase = "prepared"
     /\ Go(IF PayoutTotal[mem.batch] = 0 THEN "complete" ELSE "preflight", mem, 0)
  \/ /\ mem.phase = "payout_prepared"
     /\ Save([mem EXCEPT !.phase = "payout_submitting"])
  \/ mem.phase \in {"payout_submitting", "payout_replaying"} /\ Go("submit", mem, 0)
  \/ mem.phase = "payout_confirmed" /\ Go("complete", mem, 0)
  \/ mem.phase \in {"completed", "blocked"} /\ Go("archive", mem, 0)

SaveState ==
  /\ pc = "save"
  /\ \E r \in SaveResults(cur, bak, durable, mem) :
       /\ Store(r)
       /\ IF r.result = "err"
          THEN Return(IF mem.phase \in {"payout_replaying", "blocked"}
                      THEN "fatal" ELSE "err")
          ELSE IF left > 1 THEN Go("save", mem, left - 1) ELSE AfterSave
  /\ UNCHANGED <<damage, history, status, nextNonce, chain>>

-----------------------------------------------------------------------------
(* runPositive: the payout starts from two equal, sufficient balances.     *)

(* The index answers with the total at position i of the ledger.           *)
BaselineReads    == (IF StaleBaseline THEN seen ELSE Len(ledger)) .. Len(ledger)
ObservationReads == (IF RegressingReads THEN 1 ELSE seen) .. Len(ledger)

PreflightError ==
  /\ pc = "preflight"
  /\ IF pre.tries + 1 < PreflightAttempts
     THEN /\ pre' = [PreInit EXCEPT !.tries = pre.tries + 1]
          /\ UNCHANGED <<pc, trigger, mem, left, obs, reply>>
     ELSE Return("err")
  /\ UNCHANGED <<disk, history, status, nextNonce, chain>>

(* PrepareSpotSend signs the one request of this run with a fresh nonce,   *)
(* and executePayout journals it before anything else happens.             *)
ExecutePayout(total) ==
  \/ Return("err") /\ UNCHANGED nextNonce
  \/ /\ nextNonce <= MaxNonce
     /\ nextNonce' = nextNonce + 1
     /\ Save([mem EXCEPT !.phase = "payout_prepared", !.nonce = nextNonce,
                         !.before = total, !.attempts = 1])

PreflightRead ==
  /\ pc = "preflight"
  /\ \E i \in BaselineReads, hold \in Holds :
       LET total  == ledger[i]
           avail  == total - hold
           stable == IF pre.stable > 0 /\ total = pre.total /\ avail = pre.avail
                     THEN pre.stable + 1 ELSE 1
       IN  /\ hold <= total
           /\ seen' = i
           /\ IF avail >= PayoutTotal[mem.batch] /\ stable >= Confirmations
              THEN ExecutePayout(total)
              ELSE /\ IF pre.tries + 1 < PreflightAttempts
                      THEN /\ pre' = [tries |-> pre.tries + 1, stable |-> stable,
                                      total |-> total, avail |-> avail]
                           /\ UNCHANGED <<pc, trigger, mem, left, obs, reply>>
                      ELSE Return("err")
                   /\ UNCHANGED nextNonce
  /\ UNCHANGED <<disk, history, status, net, funds>>

-----------------------------------------------------------------------------
(* submitPayoutAttempt                                                     *)

Submit ==
  /\ pc = "submit"
  /\ LET n == mem.nonce
         k == submits[n] + 1
     IN  /\ submits' = [submits EXCEPT ![n] = k]
         /\ inflight' = inflight \cup {[nonce |-> n, batch |-> mem.batch, try |-> k]}
  /\ Go("await", mem, 0)
  /\ UNCHANGED <<disk, history, status, nextNonce, funds, seen>>

Confirm == Save([mem EXCEPT !.phase = "payout_confirmed", !.reason = "none"])

(* Mutant: the verdict is saved once, so the backup may still allow a send. *)
BlockOnce(reason) == Save([mem EXCEPT !.phase = "blocked", !.reason = reason])

(* rejectPayout and blockUncertainPayout: the verdict goes to both files.  *)
Block(reason) == SaveTwice([mem EXCEPT !.phase = "blocked", !.reason = reason])

SubmitAccepted ==
  /\ pc = "await" /\ reply = "accepted"
  /\ Confirm
  /\ UNCHANGED <<disk, history, status, nextNonce, chain>>

(* Mutant: the rejection of a replay is believed too.                      *)
SubmitRejectedAlways ==
  /\ pc = "await" /\ reply = "rejected"
  /\ Block("rejected")
  /\ UNCHANGED <<disk, history, status, nextNonce, chain>>

(* Only the first submission may be believed when it is rejected.          *)
SubmitRejected ==
  /\ pc = "await" /\ reply = "rejected" /\ mem.phase # "payout_replaying"
  /\ Block("rejected")
  /\ UNCHANGED <<disk, history, status, nextNonce, chain>>

(* Timeout, transport error, an answer that proves nothing.                *)
SubmitUncertain ==
  /\ pc = "await"
  /\ Go("observe", mem, 0)
  /\ UNCHANGED <<disk, history, status, nextNonce, chain>>

-----------------------------------------------------------------------------
(* observeUncertainPayout                                                  *)

(* The only exact replay: never submitted twice, ten clean observations    *)
(* and every one of them at the balance from before the submission.        *)
ReplayAllowed(o) ==
  /\ mem.phase \in {"payout_prepared", "payout_submitting"}
  /\ mem.attempts = 1
  /\ o.good = ObservationAttempts
  /\ o.atBefore

(* Mutants: the replay is reserved in one snapshot only, is counted once   *)
(* per saved snapshot, or is not counted.                                  *)
ReplayOnce ==
  Save([mem EXCEPT !.phase = "payout_replaying", !.attempts = 2, !.reason = "none"])
ReplayCountsSaves ==
  SaveTwice([mem EXCEPT !.phase = "payout_replaying", !.attempts = @ + 2,
                        !.reason = "none"])
ReplayUncounted ==
  SaveTwice([mem EXCEPT !.phase = "payout_replaying", !.reason = "none"])

(* replayPreparedPayout reserves the second attempt in both snapshots.     *)
Replay ==
  SaveTwice([mem EXCEPT !.phase = "payout_replaying", !.attempts = 2,
                        !.reason = "none"])

Observed(o) ==
  IF o.stable >= Confirmations THEN Confirm
  ELSE IF o.tries < QueryAttempts /\ o.good < ObservationAttempts
       THEN obs' = o /\ UNCHANGED <<pc, trigger, mem, left, pre, reply>>
  ELSE IF ReplayAllowed(o) THEN Replay
  ELSE Block("uncertain")

ObserveError ==
  /\ pc = "observe"
  /\ Observed([obs EXCEPT !.tries = @ + 1, !.evidence = "none", !.stable = 0])
  /\ UNCHANGED <<disk, history, status, nextNonce, chain>>

ObserveRead ==
  /\ pc = "observe"
  /\ \E i \in ObservationReads :
       LET e == Evidence(ledger[i], mem)
       IN  /\ seen' = i
           /\ Observed([tries    |-> obs.tries + 1,
                        good     |-> obs.good + 1,
                        atBefore |-> obs.atBefore /\ ledger[i] = mem.before,
                        evidence |-> e,
                        stable   |-> IF e = "none" THEN 0
                                     ELSE IF e = obs.evidence THEN obs.stable + 1
                                     ELSE 1])
  /\ UNCHANGED <<disk, history, status, nextNonce, net, funds>>

-----------------------------------------------------------------------------
(* completeDatabase, finishRun and the end of a blocked or rejected run    *)

(* Mutant: the update marks whatever is pending, not the frozen records.   *)
MarkPending(batch) == [r \in Records |-> IF r \in Pending THEN "done" ELSE status[r]]

MarkDone(batch) == [r \in Records |-> IF r \in batch THEN "done" ELSE status[r]]

CompleteDatabase ==
  /\ pc = "complete"
  /\ status' = MarkDone(mem.batch)
  /\ Save([mem EXCEPT !.phase = "completed"])
  /\ UNCHANGED <<disk, history, nextNonce, chain>>

(* Complete returned an error; its transaction may still have committed.   *)
CompleteError ==
  /\ pc = "complete"
  /\ status' \in {status, MarkDone(mem.batch)}
  /\ Return("err")
  /\ UNCHANGED <<disk, history, nextNonce, chain>>

RunResult(s) ==
  IF s.phase = "completed" THEN "completed"
  ELSE IF s.reason = "rejected" THEN "rejected" ELSE "blocked"

(* The current state is kept only for a payout that may have happened.     *)
Archive ==
  /\ pc = "archive"
  /\ history' = history \cup {Archived(mem, RunResult(mem))}
  /\ IF RunResult(mem) = "blocked" THEN Return("fatal") ELSE Go("clear", mem, 0)
  /\ UNCHANGED <<disk, status, nextNonce, chain>>

ArchiveError ==
  /\ pc = "archive"
  /\ history' \in {history, history \cup {Archived(mem, RunResult(mem))}}
  /\ Return(IF mem.phase = "completed" THEN "err" ELSE "fatal")
  /\ UNCHANGED <<disk, status, nextNonce, chain>>

ClearState ==
  /\ pc = "clear"
  /\ \E r \in ClearResults(cur, bak, durable) :
       /\ Store(r)
       /\ damage' = IF r.result = "ok" THEN 0 ELSE damage
       /\ Return(IF mem.phase # "completed" THEN "fatal"
                 ELSE r.result)
  /\ UNCHANGED <<history, status, nextNonce, chain>>

-----------------------------------------------------------------------------
(* The world around the process                                            *)

(* The process dies; it may have been in the middle of anything.           *)
Crash ==
  /\ pc # "down"
  /\ Leave("down", "crashed")
  /\ UNCHANGED <<disk, history, status, nextNonce, chain>>

(* The machine loses power: what was not synced may be undone.             *)
PowerLoss ==
  /\ PowerMayFail
  /\ Leave("down", "crashed")
  /\ \E p \in durable : cur' = p[1] /\ bak' = p[2] /\ durable' = {p}
  /\ UNCHANGED <<damage, history, status, nextNonce, chain>>

(* A snapshot becomes unreadable: a torn sector, a bad permission.  It may *)
(* follow power losses; a power loss that follows it is beyond what two    *)
(* snapshots survive (PowerMayFail).                                       *)
Corrupt ==
  /\ damage < MaxDamage
  /\ damage' = damage + 1
  /\ \/ Valid(cur) /\ cur' = Invalid /\ UNCHANGED bak
     \/ Valid(bak) /\ bak' = Invalid /\ UNCHANGED cur
  /\ durable' = {<<cur', bak'>>}
  /\ UNCHANGED <<history, status, proc, nextNonce, chain>>

InsertRecord ==
  /\ \E r \in Records : /\ status[r] = "absent"
                        /\ status' = [status EXCEPT ![r] = "pending"]
  /\ UNCHANGED <<disk, history, proc, nextNonce, chain>>

Deposit ==
  /\ \E d \in Deposits : /\ Total + d <= MaxTotal
                         /\ ledger' = Append(ledger, Total + d)
  /\ UNCHANGED <<disk, history, status, proc, nextNonce, net, applied, seen>>

(* The answer reaches the process only while it waits for this very copy.  *)
Answer(c, a) ==
  reply' = IF pc = "await" /\ c.nonce = mem.nonce /\ c.try = submits[c.nonce]
           THEN a ELSE reply

Spent(n) == \E q \in applied : q.nonce = n

(* The exchange executes a request whose nonce it has never executed; a    *)
(* recipient it does not know yet costs the activation fee as well.        *)
ExchangeApplies ==
  /\ \E c \in inflight, fee \in {0, ActivationFee} :
       /\ ~Spent(c.nonce)
       /\ PayoutTotal[c.batch] + fee <= Total
       /\ inflight' = inflight \ {c}
       /\ applied' = applied \cup {RequestOf(c)}
       /\ ledger' = Append(ledger, Total - PayoutTotal[c.batch] - fee)
       /\ Answer(c, "accepted")
  /\ UNCHANGED <<disk, history, status, pc, trigger, mem, left, pre, obs,
                 nextNonce, submits, seen>>

(* It refuses a request, or answers the duplicate of an executed one: with *)
(* an error, or with the outcome it remembers.                             *)
ExchangeRefuses ==
  /\ \E c \in inflight :
       /\ inflight' = inflight \ {c}
       /\ \/ Answer(c, "rejected")
          \/ Spent(c.nonce) /\ Answer(c, "accepted")
  /\ UNCHANGED <<disk, history, status, pc, trigger, mem, left, pre, obs,
                 nextNonce, submits, funds, seen>>

(* The request is lost on its way.                                         *)
LoseRequest ==
  /\ \E c \in inflight : inflight' = inflight \ {c}
  /\ UNCHANGED <<disk, history, status, proc, nextNonce, submits, funds, seen>>

-----------------------------------------------------------------------------
Process ==
  \/ LoadNothing \/ LoadError \/ RecoverState
  \/ ListError \/ ListNoData \/ ListInvalid \/ ListPending
  \/ SaveState \/ PreflightError \/ PreflightRead
  \/ Submit \/ SubmitAccepted \/ SubmitRejected \/ SubmitUncertain
  \/ ObserveError \/ ObserveRead
  \/ CompleteDatabase \/ CompleteError \/ Archive \/ ArchiveError \/ ClearState

World ==
  \/ Crash \/ PowerLoss \/ Corrupt \/ InsertRecord \/ Deposit
  \/ ExchangeApplies \/ ExchangeRefuses \/ LoseRequest

Next == Boot \/ Tick \/ Process \/ World

Spec == Init /\ [][Next]_vars

(* The process keeps running and is restarted when it exits; the disk and  *)
(* the database, tried again and again, work in the end.                   *)
Fairness ==
  /\ WF_vars(Boot) /\ WF_vars(Tick) /\ WF_vars(Process)
  /\ SF_vars(SaveState /\ pc' \notin {"idle", "down"})
  /\ SF_vars(CompleteDatabase)
  /\ SF_vars(Archive)
  /\ SF_vars(ClearState /\ LoadsNothing(cur, bak)')

FairSpec == Spec /\ Fairness
=============================================================================
