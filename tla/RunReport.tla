----------------------------- MODULE RunReport -----------------------------
(***************************************************************************)
(* The report of one funding task: what it takes over from the record of   *)
(* the 00:00 consolidation, how it finds out the ending balance of the     *)
(* settlement account behind a lagging index, and the colour it is         *)
(* delivered with (attachDailyConsolidation, observeSettlementFinalBalance,*)
(* finalize, deliverRunReport in internal/funding).  The task itself is    *)
(* the module Payout: here only what it leaves in the report.  A payout    *)
(* has one target, so at most one amount left the account.                 *)
(***************************************************************************)
EXTENDS Integers, FiniteSetsExt, SequencesExt

CONSTANTS
  Builders,            \* the builders of the configuration
  FinalEntries,        \* entries of a completed record, see EntryType
  CapturedEntries,     \* entries of a captured one
  Amounts,             \* totals of the pending records
  Balances,            \* balances of the settlement account before the task
  Credits,             \* what others pay into the account while it is watched
  Holds,               \* held parts of a balance
  Fee,                 \* payoutNewAddressActivationFee
  MaxAttempts,         \* attempts of a scheduled task
  ObservationAttempts, \* settlementFinalBalanceObservationAttempts
  QueryAttempts,       \* settlementFinalBalanceQueryAttempts
  Confirmations,       \* settlementFinalBalanceConfirmations
  MaxBalances          \* bound: balances of the account during the task

Unseen == -1   \* ClaimableObserved = false

Unknown == -1  \* PayoutTotal is empty

Steps == {"pending", "success", "warning", "skipped"}

EntryType == [claimable : Nat \cup {Unseen}, claim : Steps, uncertain : BOOLEAN, sweep : Steps]

(* What a stored record satisfies (Consolidation: CompletedIsValid).       *)
ASSUME RunReportAssumption ==
  /\ FinalEntries \cup CapturedEntries \subseteq EntryType
  /\ \A e \in FinalEntries :
       "pending" \notin {e.claim, e.sweep} /\ (e.uncertain => e.claim = "warning")
  /\ Amounts \subseteq Nat /\ Balances \subseteq Nat /\ Credits \subseteq Nat /\ Holds \subseteq Nat
  /\ {Fee, MaxAttempts, ObservationAttempts, QueryAttempts, MaxBalances} \subseteq Nat
  /\ Confirmations \in Nat \ {0}
  /\ ObservationAttempts <= QueryAttempts

VARIABLES
  pc,        \* "load", "body", "balance", "watch", "rates", "final", "sent", "quiet"
  record,    \* the record of the day: status and entries
  canceled,  \* the service is stopping
  rep,       \* the report
  err,       \* what the task returns
  history,   \* balances of the settlement account, the last one is current
  landed,    \* did the payout leave the account?
  w          \* the watch over the ending balance

vars == <<pc, record, canceled, rep, err, history, landed, w>>

Records ==
  [status : {"missing", "unreadable"}, entries : {<<>>}] \cup
  UNION {[status : {"completed"}, entries : [S -> FinalEntries]] \cup
         [status : {"captured"}, entries : [S -> CapturedEntries]] : S \in SUBSET Builders \ {{}}}

NewRunReport(trigger, attempt) ==
  [trigger |-> trigger, attempt |-> attempt, warnings |-> {},
   record |-> "none", recorded |-> {}, claimables |-> <<>>, rewards |-> "pending",
   sweep |-> "pending", payout |-> "pending", amount |-> Unknown, before |-> Unknown,
   balance |-> "none", told |-> Unknown, status |-> "none"]

NewWatch ==
  [queries |-> 0, seen |-> 0, limit |-> ObservationAttempts, stable |-> 0,
   total |-> 0, hold |-> 0, match |-> FALSE]

Init ==
  /\ pc = "load" /\ record \in Records /\ canceled = FALSE /\ err = "none"
  /\ \E trigger \in {"utc_payout", "run_on_start"}, attempt \in 0..MaxAttempts :
       rep = NewRunReport(trigger, attempt)
  /\ \E b \in Balances : history = <<b>>
  /\ landed = FALSE /\ w = NewWatch

-----------------------------------------------------------------------------
(* attachDailyConsolidation                                                *)

Warn(condition, kind) == IF condition THEN {kind} ELSE {}

MarkIncomplete(step) == IF step = "pending" THEN "warning" ELSE step

AggregateBuilderStep(steps) ==
  IF "warning" \in steps THEN "warning"
  ELSE IF "success" \in steps THEN "success"
  ELSE IF steps = {"skipped"} THEN "skipped" ELSE "pending"

(* Mutant: an entry is told as it was saved.                               *)
ShownAsSaved(step) == step

(* The step of an entry, as the report of the task shows it.               *)
Shown(step) == IF record.status = "completed" THEN step ELSE MarkIncomplete(step)

Attached ==
  LET entries == record.entries
      recorded == DOMAIN entries
      claims == {Shown(entries[b].claim) : b \in recorded}
      sweeps == {Shown(entries[b].sweep) : b \in recorded}
      rest == IF recorded = Builders THEN {} ELSE {"pending"}
      observed == {b \in recorded : entries[b].claimable # Unseen}
      utc == rep.trigger = "utc_payout"
  IN  [rep EXCEPT
        !.record = record.status, !.recorded = recorded,
        !.claimables = [b \in observed |-> entries[b].claimable],
        !.rewards = AggregateBuilderStep(claims \cup rest),
        !.sweep = AggregateBuilderStep(sweeps \cup rest),
        !.warnings = UNION {
          Warn(observed # recorded, "claimable unseen"),
          Warn("warning" \in claims, "claim"),
          Warn("warning" \in sweeps, "sweep"),
          Warn(utc /\ recorded # Builders, "builders missing"),
          Warn(utc /\ observed # Builders, "claimables missing"),
          Warn(utc /\ record.status # "completed", "not completed"),
          Warn(utc /\ \E b \in recorded : entries[b].uncertain, "uncertain claim")}]

(* markMissingDailyConsolidation                                           *)
AttachedMissing ==
  [rep EXCEPT !.record = record.status, !.rewards = "skipped", !.sweep = "skipped",
              !.warnings = Warn(rep.trigger = "utc_payout", "no record")]

Attach ==
  /\ pc = "load" /\ pc' = "body"
  /\ rep' = IF record.status \in {"missing", "unreadable"} THEN AttachedMissing ELSE Attached
  /\ UNCHANGED <<record, canceled, err, history, landed, w>>

(* The load fails because the service is stopping: nothing is attached.    *)
AttachCanceled ==
  /\ pc = "load" /\ pc' = "body" /\ canceled' = TRUE
  /\ UNCHANGED <<record, rep, err, history, landed, w>>

-----------------------------------------------------------------------------
(* The task: what it leaves in the report.                                 *)

(* payoutSettlementBoundaries                                              *)
Boundaries(before, amount) == {x \in {before - amount, before - amount - Fee} : x >= 0}

Results ==
  {r \in [err : {"none", "retry", "fatal", "canceled"}, amount : Amounts \cup {Unknown},
          payout : {"pending", "skipped", "success", "failed", "unconfirmed"}] :
     /\ r.err = "none" => r.payout \in {"skipped", "success"}
     /\ r.payout = "skipped" => r.amount = 0
     /\ r.payout \in {"success", "failed", "unconfirmed"} => r.amount > 0
     /\ r.payout \in {"success", "unconfirmed"} => r.amount <= Last(history)}

(* Mutant: an ambiguous payout is treated like one that was not made.      *)
AfterTaskAnyway(r) ==
  IF r.err = "canceled" THEN "quiet"
  ELSE IF r.payout = "success" THEN "watch" ELSE "balance"

(* Where observeSettlementFinalBalance starts; it is skipped after a       *)
(* cancellation, and it returns at once for an ambiguous payout.           *)
AfterTask(r) ==
  IF r.err = "canceled" THEN "quiet"
  ELSE IF r.payout = "unconfirmed" THEN "rates"
  ELSE IF r.payout = "success" THEN "watch" ELSE "balance"

Task(r) ==
  /\ pc = "body" /\ pc' = AfterTask(r)
  /\ canceled => r.err = "canceled"
  /\ err' = r.err
  /\ rep' = [rep EXCEPT !.payout = r.payout, !.amount = r.amount, !.before = Last(history),
               !.balance = IF r.payout = "unconfirmed" THEN "unconfirmed" ELSE @]
  /\ landed' \in CASE r.payout = "success" -> {TRUE}
                   [] r.payout = "unconfirmed" -> BOOLEAN
                   [] OTHER -> {FALSE}
  /\ IF landed'
     THEN \E total \in Boundaries(Last(history), r.amount) : history' = Append(history, total)
     ELSE UNCHANGED history
  /\ UNCHANGED <<record, canceled, w>>

-----------------------------------------------------------------------------
(* observeSettlementFinalBalance                                           *)

Reads == Range(history)  \* the index may show any balance since the payout was prepared

RecordFinalBalance(total) ==
  /\ pc' = "rates" /\ rep' = [rep EXCEPT !.balance = "observed", !.told = total]
  /\ UNCHANGED <<record, canceled, err, history, landed, w>>

FinalBalanceLost(outcome) ==
  /\ pc' = "rates"
  /\ rep' = [rep EXCEPT !.balance = outcome, !.warnings = @ \cup {"balance"}]
  /\ UNCHANGED <<record, canceled, err, history, landed, w>>

SingleRead == pc = "balance" /\ \E total \in Reads : RecordFinalBalance(total)

SingleReadError == pc = "balance" /\ FinalBalanceLost("failed")

Watching == w.queries < QueryAttempts /\ w.seen < w.limit

(* Mutant: a failed query starts the window again.                         *)
WatchErrorRestarts ==
  /\ pc = "watch" /\ Watching
  /\ w' = NewWatch
  /\ UNCHANGED <<pc, record, canceled, rep, err, history, landed>>

WatchError ==
  /\ pc = "watch" /\ Watching
  /\ w' = [w EXCEPT !.queries = @ + 1, !.stable = 0]
  /\ UNCHANGED <<pc, record, canceled, rep, err, history, landed>>

(* Mutant: no read is reserved to confirm a match that comes last.         *)
GrowsLate(match, seen) == match /\ seen > w.limit /\ w.limit < QueryAttempts

(* A match at the end of the window reserves one read more.                *)
Grows(match, seen) == match /\ seen >= w.limit /\ w.limit < QueryAttempts

WatchRead ==
  /\ pc = "watch" /\ Watching
  /\ \E total \in Reads, hold \in Holds :
       LET match  == total \in Boundaries(rep.before, rep.amount)
           again  == match /\ w.stable > 0 /\ total = w.total /\ hold = w.hold
           stable == IF again THEN w.stable + 1 ELSE IF match THEN 1 ELSE 0
           seen   == w.seen + 1
       IN  IF stable >= Confirmations THEN RecordFinalBalance(total)
           ELSE /\ w' = [queries |-> w.queries + 1, seen |-> seen, stable |-> stable, match |-> match,
                         limit |-> IF Grows(match, seen) THEN w.limit + 1 ELSE w.limit,
                         total |-> IF match THEN total ELSE w.total,
                         hold  |-> IF match THEN hold ELSE w.hold]
                /\ UNCHANGED <<pc, record, canceled, rep, err, history, landed>>

WatchEnds ==
  /\ pc = "watch" /\ ~Watching
  /\ FinalBalanceLost(IF w.seen = 0 THEN "failed" ELSE "unconfirmed")

(* observeUserRateLimits, see RateLimit: a healthy account or a warning.   *)
ObserveUserRateLimits ==
  /\ pc = "rates" /\ pc' = "final"
  /\ \E healthy \in BOOLEAN : rep' = [rep EXCEPT !.warnings = @ \cup Warn(~healthy, "rate")]
  /\ UNCHANGED <<record, canceled, err, history, landed, w>>

-----------------------------------------------------------------------------
(* deliverRunReport                                                        *)

TotalOf(claimables) == MapThenSumSet(LAMBDA b : claimables[b], DOMAIN claimables)

(* reconcileDailyConsolidation: the warning when the rewards do not cover  *)
(* the payout, told only if every claimable was seen.                      *)
Shortfall ==
  /\ DOMAIN rep.claimables = Builders /\ rep.amount # Unknown
  /\ TotalOf(rep.claimables) < rep.amount

StatusOf(warnings) ==
  CASE err = "none" -> IF warnings = {} THEN "green" ELSE "warning"
    [] err = "retry" /\ rep.attempt > 0 /\ rep.attempt < MaxAttempts -> "retrying"
    [] OTHER -> "critical"

(* Mutant: the colour is chosen before the claimables are compared.        *)
DeliverTooEarly ==
  /\ pc = "final" /\ pc' = "sent"
  /\ rep' = [rep EXCEPT !.warnings = @ \cup Warn(Shortfall, "below payout"),
                        !.status = StatusOf(rep.warnings)]
  /\ UNCHANGED <<record, canceled, err, history, landed, w>>

Deliver ==
  /\ pc = "final" /\ pc' = "sent"
  /\ LET warnings == rep.warnings \cup Warn(Shortfall, "below payout")
     IN  rep' = [rep EXCEPT !.warnings = warnings, !.status = StatusOf(warnings)]
  /\ UNCHANGED <<record, canceled, err, history, landed, w>>

(* Others pay into the settlement account.                                 *)
Credit ==
  /\ pc \in {"balance", "watch"} /\ Len(history) < MaxBalances
  /\ \E c \in Credits : history' = Append(history, Last(history) + c)
  /\ UNCHANGED <<pc, record, canceled, rep, err, landed, w>>

(* The steps that no call can hold up for longer than its timeout.         *)
TimedStep ==
  \/ Attach \/ AttachCanceled
  \/ SingleRead \/ SingleReadError
  \/ WatchError \/ WatchRead \/ WatchEnds
  \/ ObserveUserRateLimits \/ Deliver

Step == TimedStep \/ \E r \in Results : Task(r)

Next == Step \/ Credit

Spec == Init /\ [][Next]_vars

(* The task itself is not fair: ListPending and Complete retry without a   *)
(* limit while MySQL is down (Retryer.Do).                                 *)
FairSpec == Spec /\ WF_vars(TimedStep)

-----------------------------------------------------------------------------
(* A scheduled task whose report is green had nothing to hide: the         *)
(* consolidation of the day completed, every builder has a record with its *)
(* claimable, no claim and no sweep is open or in doubt, the claimables    *)
(* cover the payout, and the ending balance was observed (finalize).       *)
GreenIsClean ==
  rep.trigger = "utc_payout" /\ rep.status = "green" =>
    /\ record.status = "completed" /\ DOMAIN record.entries = Builders
    /\ \A b \in Builders :
         LET e == record.entries[b]
         IN  e.claimable # Unseen /\ ~e.uncertain /\ {e.claim, e.sweep} \subseteq {"success", "skipped"}
    /\ ~(TotalOf([b \in Builders |-> record.entries[b].claimable]) < rep.amount)
    /\ rep.balance = "observed" /\ rep.warnings = {}

(* A claim or a sweep the 00:00 task never reached is not told as fine or  *)
(* still to come: whatever the trigger, the report of an interrupted       *)
(* consolidation warns (markIncompleteBuilderActions).                     *)
InterruptedIsTold ==
  rep.record = "captured" =>
    \A b \in rep.recorded :
      /\ "pending" = record.entries[b].claim => rep.rewards = "warning" /\ "claim" \in rep.warnings
      /\ "pending" = record.entries[b].sweep => rep.sweep = "warning" /\ "sweep" \in rep.warnings

(* The ending balance a report tells is one the settlement account had     *)
(* after the payout left it: never the balance from before, also when the  *)
(* index lags, flaps, or the payout is in doubt                            *)
(* (observeSettlementFinalBalance, markSettlementPayoutUnconfirmed).       *)
EndingBalanceIsSettled ==
  rep.balance = "observed" =>
    \E i \in (IF landed THEN 2 ELSE 1)..Len(history) : history[i] = rep.told

(* The watch gives up on a payout only with its queries spent or with a    *)
(* last balance that does not fit: a payout that becomes visible in the    *)
(* last read of the window still gets its confirming read.                 *)
GivesUpLast ==
  rep.payout = "success" /\ rep.balance = "unconfirmed" => w.queries = QueryAttempts \/ ~w.match

(* Unless its database calls are retried for ever, a task that is not      *)
(* cancelled delivers a report, whatever else fails: the lost record, the  *)
(* queries of the ending balance, the watch that grows (deliverRunReport). *)
EveryTaskReports ==
  \/ <>(pc = "sent" \/ (pc = "quiet" /\ err = "canceled"))
  \/ <>[](pc = "body")
=============================================================================
