# Verification of builder-code-bot

The bot moves money twice a day. At 00:00 UTC it claims the rewards of a set of
*builder* accounts on Hyperliquid and sweeps them to one *settlement* account;
at 01:00 UTC it pays the pending records of a MySQL funding table from the
settlement account to a recipient and marks the records done. Every request may
time out after it was carried out, the balances it reads come from an index
that lags, the process may die between any two calls, the power may fail, and
the files it recovers from may be damaged. This directory holds TLA+ models of that behaviour, the
TLC configurations that check them, and proofs checked by TLAPS.

    tlc -config MCPayoutFaults.cfg MCPayout      # one run
    tlapm PayoutProofs.tla                       # the proofs of one module

`PROJECT.json` lists the runs, the source lines behind each definition, one
mutated definition per property (each must break it), the hazards of the code
and the theorems.

## 1. The system

| Component | State it keeps | Operations | Made hard by |
|---|---|---|---|
| Payout protocol and recovery (`funding/payout.go`, `recovery.go`) | run state: phase, journal (signed request, nonce, balance before), submit count | preflight, sign, submit, replay once, observe, confirm, reject, block, complete, archive, recover | crash anywhere, unknown outcome of a request, stale balances |
| Run state store (`state/store.go`) | `current.json`, its backup, history files | Save (rotate, install), Load, Archive, Clear | failing half way, damaged files, renames that a power failure undoes |
| Daily consolidation (`funding/orchestrator.go`, `consolidation.go`, `daily_consolidation.go`) | per builder: claimable, claim and sweep status; balance baselines and floors | capture, baseline, claim, observe, sweep | concurrent builders, unknown outcomes, an index that goes back |
| Daily record store (`state/daily_consolidation.go`) | one file per UTC date | save captured, save completed, load | crash between the two saves, error after the install |
| MySQL repository (`repository/mysql`) | the funding table | list pending, complete in one transaction | lost COMMIT answers, row locks of lost connections, unbounded retry |
| MySQL outage observer and mails (`notification/dispatcher.go`, `mail/ses`) | open outages, `alerted` | RetryStarted, RetryProgress, Recovered, Alert | several operations, calls that end otherwise, refused mails |
| Scheduler and App.Run (`scheduler`, `app`) | next task, retry count, attempt number | plan, wait, run, retry | long tasks, clock set back, two counters for one thing |
| Request quotas (`funding/rate_limit.go`) | latch of mailed incidents | observe after a task, mail once | counts from before the requests, restarts |
| Run report (`funding/report.go`, `report_observation.go`) | warnings, stages, ending balance | attach the record, watch the balance, reconcile, finalize, deliver | lagging index, order of the deferred observers |
| Processes, lock and nonces (`app`, `state/lock_unix.go`, `signing/nonce.go`, `cmd/builder-code-bot`) | lock file, last nonce (in memory only) | start the service or the consolidate-only command, sign, end | two processes on one data directory, restarts, clock set back |
| Exchange client (`hyperliquid/client`, `hyperliquid/exchange`) | none | post, classify the answer | lost, late and repeated requests, answers of proxies |
| Development exchange (`dev/hyperliquidmock`) | accounts, rewards, kept answers | handle a signed request | repeated nonces, injected failures |
| Amounts and manifest, encoding and signatures, rendering, configuration, secrets, logging | | | see section 7 |

How they interact: `App.Run` hands two callbacks to the scheduler, which runs one
task at a time. The consolidation writes the record of the date, which the
funding task only reads for its report; the settlement account is the only
other thing the two share. The funding task goes through the store before every
call that may move money and through the repository after it. Every task ends
in the deferred observers (ending balance, quotas) and one report mail; the
repository's retry loop calls the outage observer. An operator may run the
consolidate-only command on the data directory of the service; the lock file
lets one of the two work at a time. All requests of a process take their nonce
from one generator and go through one client.

What makes each part correct:

* payout: a record is never paid twice, a request never leaves a third time,
  nothing that may still move money is forgotten, every verdict is reached;
* consolidation: a date is claimed once, what the record says happened, a
  claimed reward is not left behind, the record of 00:00 is never rewritten;
* repository: success means done, all or nothing, a call returns;
* processes and exchange client: nonces grow, accepted means executed, a
  rejection is true for good if the request was submitted only once, a repeated
  request executes once;
* observer, scheduler, quotas, report: what an operator is told is true, and
  what he must be told is told; no day is skipped but for a task that is not over.

## 2. Modules

| Module | Models | State and actions |
|---|---|---|
| `SnapshotStore` | the two snapshot files, as operators | an operation is the set of results its prefixes and failures can leave, each with the pairs of files a power loss may bring back |
| `Payout` | the 01:00 task of one process with the exchange, the table and the index around it | `pc` names the next call that crosses the process boundary; an action is that call and all code up to the next one; `cur`, `bak` the files; `inflight`, `applied` the requests; `ledger`, `seen` the balances and what the index shows of them; `durable` what `PowerLoss` may bring back |
| `PayoutProperties` | properties of `Payout` | |
| `PayoutLedger` | abstract specification: batches are paid at most once, marked done only when paid or worth nothing | `Accrue`, `Pay`, `Settle` steps on table and payments |
| `PayoutInvariant`, `PayoutProofs`, `PayoutSafety` | strengthening and proofs for `Payout` | |
| `Consolidation`, `ConsolidationProofs` | the 00:00 task with wallets, rewards, late requests, the index and the record file | goroutines of a phase touch one builder each and meet at a barrier: a phase is a set of builders still to do |
| `Completion` | `Repository.Complete` with `Retryer.Do` and the server's side of lost connections | one action per statement; `orphans` are transactions whose client is gone |
| `Outage` | `Retryer.Do` towards `MySQLRetryObserver`, and the mails | time in units of ten seconds; a mail is sent or refused |
| `Repository`, `CompletionProofs` | the repository with its observer | a step of `Completion` is joined to what `Retryer.Do` reports of it (`Observed`); other calls are their outcomes |
| `Service`, `ServiceProofs` | processes, lock file and nonce generator | what is signed and when is left open |
| `DevExchange` | `/exchange` of the development exchange | accounts, and the answer kept for a signer and a nonce |
| `ExchangeContract` | abstract specification: a request is settled once; accepted means executed, rejected at the only submission means never; the rejection of a repeated request says nothing | `Settle`, `Tell` |
| `Submission` (proofs in `ServiceProofs`) | `Service` and `DevExchange` with client, network and proxies between them | `sent` requests may be delivered at any time or never, copies only of those submitted again (`repeated`); to a copy the exchange gives its kept answer or, as the production exchange, "duplicate nonce" (`Answers`) |
| `Scheduler`, `SchedulerProofs` | `scheduler.Run`, the attempt counter of `App.Run`, the verdict of `finalize` | wall clock and timer advance separately |
| `RateLimit`, `RateLimitProofs` | quota observation and alert latch | accounts are observed in any order, a superset of the code's fixed order |
| `RunReport`, `RunReportProofs` | attachment, ending balance, colour, delivery of one report | the task itself is only its possible results |
| `MC...` | instances for TLC | |

`Payout` composes `SnapshotStore` (EXTENDS) and is shown to implement
`PayoutLedger` (INSTANCE with executed requests as payments). `Repository`
composes `Completion` and `Outage`. `Submission` composes `Service` and
`DevExchange` and is shown to implement `ExchangeContract`, the contract of
`docs/architecture.md:141-147`, by which `payout.go:180` believes only the
rejection of a first submission. `Payout` and `Consolidation` have an exchange of
their own with the same promises: there too a copy may be refused while another
is executed. `RunReport` takes
from `Consolidation` what a stored record satisfies (its assumption
`RunReportAssumption` restates `CompletedIsValid`), from `Payout` what a task may
return, and from `RateLimit` one bit. `Scheduler` sees tasks as durations and outcomes.

Abstractions used throughout: amounts are small naturals; a signed request is
its nonce and batch; decimals that are truncated are modelled with `Fine` units
per unit in `Consolidation`; logs and texts are left out; a warning is a kind.
Cancellation ends the process and keeps the disk, so in `Payout` it is a crash.

## 3. Runs

| Run | Shows |
|---|---|
| `payout_faults` | two records, arbitrary balance answers, crashes everywhere, any number of power losses and after them one damaged snapshot per run: no double payment, no third submission, an empty store has forgotten no money, a rejected run never pays, blocked is final, every snapshot can be recovered from |
| `payout_truthful` | with an index that does not go back and no other spender: confirmed means executed, and the protocol implements `PayoutLedger` |
| `payout_live` | every submission gets a verdict, every confirmed payout reaches the table |
| `consolidation_index` | reads of any age, credits by others: claim and sweep are told truthfully, a claimed reward is swept, a completed record passes its own validation |
| `consolidation_restart` | crashes and second starts on a date: claimed once, the record of 00:00 is frozen, every run ends although every call may fail |
| `repository` | success means done, one commit marks all rows, the call returns; outage and recovery mails alternate, and nothing goes untold while every call ends before the observer's eyes, also after a refused mail of an earlier outage |
| `outage_leak` | finding 1 (violation) |
| `scheduler` | the two counters agree, promised retries come, no task of a day is left out unless another is not over at its time, also with a clock set back |
| `scheduler_overrun` | finding 2 (violation) |
| `rate_limit` | a healthy verdict is true; one mail per incident |
| `report` | a green report hides nothing, every claim and sweep of an interrupted consolidation is told, the ending balance told is never the one before the payout, a late match still gets its confirming read, every task whose database calls end reports |
| `submission` | service and command on one data directory: nonces grow over restarts, accepted means executed, a rejection at the only submission is true for good, a nonce executes once, money is kept |

A day's tasks can be left out with the process up. The history variable `overrun`
notes every midnight and every hour of funding that passed while a task begun
before was not over or waited for its retry, and it is the only excuse the two
properties know. `EveryDayFunded` accepts a funding task of an earlier day, which
may wait for MySQL without a limit, and no consolidation: one that lasts beyond
01:00 is finding 2, so this run lets it last until 01:00 exactly.
`EveryDayConsolidated` accepts either: also a consolidation, because a timer that
fires early after the clock was set back starts one before its midnight, which
then passes. Section 5 says what an operator learns of such a day.

### Bounds and why they are enough

* `Payout`: two records make overlapping batches possible, which double payment
  needs; two nonces allow a second run beside a live first request; loops have
  two tries, the smallest number that has a first and a last; `MaxDamage` is
  one damaged file between two empty stores. With two the protocol cannot
  hold: no pair of files survives the loss of both (section 5). With
  `PowerFails` the power may fail any number of times; only a power loss after
  the damage, before the store is empty again, is left out (section 5).
* `Consolidation`: one builder. In the code a builder's goroutine writes only
  its own entry and its own wallet, and the phases meet at a barrier, so the
  properties, each about one builder, gain nothing from a second; the proofs
  hold for any set of builders. One run has
  long loops and an index of any age, the other two starts on the date. Rewards
  are chosen below and above the threshold, with a fraction that is truncated.
* `Repository`: three records with batches of two, so a batch boundary lies
  inside the manifest. The threshold of 18 units is the code's three minutes,
  two waits of nine units reach it, and a wait of nothing lets attempts repeat
  before and at it.
* `Submission`: one builder and the settlement account; three requests, because
  the lock matters only then (one process signs, another signs above it, the
  first signs again); two milliseconds, so that the clock can stand still, go on
  and be set back. Of the failure modes a refusal and an error status on an
  executed request are injected, beside none: the others give a client nothing
  that an executed or a refused request with a lost or foreign answer does not.
* `Scheduler`: three days and the code's five retries; only the order of the
  times matters, so a day has ten units with funding at the third. A funding
  task may go on until the clock stops. The overrun run lets a consolidation
  last one unit past the hour of funding.
* `RateLimit`: three tasks, which an incident, its end and the next incident
  need; quotas from below the threshold to above the window.
* `RunReport`: two builders with four kinds of entries, claimables that sum to
  just enough and just too little; a window of two with four queries, so that
  it can grow twice.

Every bound is a constant that appears in a guard and is named so in its module.

### Fairness

Only the steps of the process itself are fair, and of these only the ones that
wait no longer than a timeout. The calls to MySQL do: `Retryer.Do` repeats them
without a limit. `payout_live` assumes that the process is killed finitely
often (stated in the properties) and that the calls to disk and database which
are repeated for ever succeed in the end. `repository` assumes the server
ends a lost transaction (it closes dead connections) and that an attempt that is
repeated for ever succeeds. In `report` the payout itself, which contains such
calls, is not fair (`TimedStep` leaves it out): `EveryTaskReports` says that a task
reports or stays in the payout for ever. Otherwise `report`, and all of
`consolidation_restart`, which has no database call, assume no success of any call:
their loops are bounded. No step of another party, such as
a deposit or a delivery, is fair.

## 4. Proofs

All proofs hold for every value of the constants under the named assumptions.
`PayoutAssumption`, `SnapshotAssumption`, `FilesAssumption`,
`ConsolidationAssumption`, `CompletionAssumption`, `OutageAssumption`,
`SchedulerAssumption`, `ServiceAssumption`, `ExchangeAssumption` and
`SubmissionAssumption` only say that counts are naturals, that loops make at
least one try, that sets are what they are called (the manifest and the accounts
are finite, whoever signs has an account) and that the special values differ from
the ordinary ones. Two say more. `RateLimitAssumption`: an account's burst is no
larger than the window, which is what the code's constant is chosen for.
`RunReportAssumption`: a completed record is one that passed its validation, which
is `CompletedStaysValid` of `Consolidation`, and the watch asks for at least one
confirming read (with none `EndingBalanceIsSettled` is false).

Every proof has the same course: an inductive invariant, checked by TLC before
it was proved, one lemma per action or group of actions, and a last step that
combines them. Where an action changes little, frame lemmas say once what it
leaves alone.

### Payout

* `PayoutProofs!TypeCorrect` and `AlwaysRecoverable`: every snapshot on disk
  passes the validations recovery makes. The property says nothing of the
  process, so it is not inductive: what `Save` writes is the run in memory. The
  invariant `ShapeInv` adds which runs the process can hold at each call
  (`Fits`) and that journal, phase and submit count fit together in every run
  (`RunShape`), and that every file a power loss may bring back is such a run.
  These two need no bound on damage.
* `PayoutSafety!NeverPaidTwice`, `NeverSentThrice`, `NeverForgotten`,
  `RejectionIsTrue`, `BlockedForGood`: under `MaxDamage <= 1` (section 5 says why it
  is needed), with crashes, power losses, lost and late requests and balance
  answers unrestricted. None of them says what a restart will do, so `SafeInv`
  speaks of the runs that can go on (`Held`): the one in memory and every snapshot
  some continuation can load, which is each primary the disk may hold and each
  backup whose primary is unusable or may yet be lost. Each of them is the payout
  of a live request or shares no record with it, and is not taken further than
  its submissions (`HeldInv`, `CountInv`, `LiveInv`); a submitted nonce is archived
  or the only one to go on with (`OwnerInv`); when a request leaves, no snapshot
  can be loaded that would send it again as if for the first time (`SubmitInv`),
  which is what the two saves before it are for; a verdict is archived only when
  nothing else can be loaded (`EndInv`, `FinalInv`). The refusal of a first
  submission is believed only because of `AwaitInv`: there is no other copy.
* `PayoutSafety!ConfirmationIsTrue`, `PayoutImplementsLedger`: also under an index
  that is current at the baseline and does not go back (`~StaleBaseline`,
  `~RegressingReads`; section 5). `PaidInv` adds that while a held run is not
  executed, no balance the index can still show is below its baseline.
  For the ledger, `ClaimInv` says that all runs with work left are about one
  batch, and `WholeInv` that its records are pending or done together.

### Consolidation

`ConsolidationProofs`, for any set of builders. `RecordInv` ties the record of the
date to the report in memory and to the claims: a claim leaves only when the
record is on disk, and a start that finds one claims nothing. From it
`NeverClaimedTwice` and `RecordStaysFrozen`. For a single builder, `ClaimInv` says
that a claim is open, observed because its submission is unknown, or settled,
and that success means paid; `FlightInv` which sweep requests may still execute,
and that the first one is the only one until it is in doubt; `TellInv` what the
report may say at each point of the loops. From these `SweepsAreTold`,
`ClaimsArePaid`, `RewardsAreSwept` and `CompletedStaysValid`. The goroutines of a
phase touch one builder each, so a step of one leaves the invariant of another
alone, which the frame lemmas state once.

### Repository and observer

* `CompletionProofs!CompleteIsSound`, `CompleteIsAtomic`,
  `CompletionTypeCorrect`: the invariant `IInv` says that the rows a call has
  dropped from its list are done and stay so, that what the verification read
  covers the manifest, and that any transaction that may still commit, the
  current one or a lost one, covers every row that is not done. Without the last
  part a late COMMIT could mark a part of the manifest. The type invariant of
  `Completion` is proved here and checked by no run. `RepositoryIsSound` carries
  both results over to the repository with its observer: every step of
  `Repository` is a step of `Completion` or leaves it alone.
* `CompletionProofs!MailsTakeTurns`, `OutagesAreTold`, `RecoveriesAreTold`: every
  step of `Repository` is also a step of `Outage`. `ObserverInv` says that the latch
  counts the mails that stand, that a call failing beyond the threshold has set
  it, and that a set latch means a mail that arrived or was refused since MySQL
  last worked, as long as no call ended unseen (finding 1 is what happens
  otherwise).

### Processes and exchange

* `ServiceProofs!NoncesAlwaysGrow`, `SubmittedNoncesGrow`: that the nonces grow
  says nothing of the generators, so the invariant adds that only the holder of
  the lock has a generator in use (`Exclusive`) and that it is not below any
  nonce handed out (`Ahead`). The second theorem carries this over to the
  composition with network and exchange in the same way.
* `ServiceProofs!ContractIsKept`: `Submission` implements `ExchangeContract`. The
  invariant says that the exchange keeps one answer per signer and nonce, the
  one of the request it carried out (`Kept`), that the answer is true of it
  (`Answered`), and that an answer on its way is true of the request the process
  waits for (`Called`); a refusal is true of a repeated request whatever became
  of it (`True`), and a request that has become repeated stays so (`Monotone`).
  That requests of one signer do not share a nonce is the theorem before it;
  without it an answer could be about another request.
* `ServiceProofs!MoneyIsAlwaysKept`: a claim leaves the balance and reward of every
  account together as they were, a send moves an amount between two accounts,
  and only what is not on hold (`MoneyInv`). That such a move leaves the sum over
  all accounts alone is about the fold of the community modules, which takes out
  one element after the other in an order of its own: the lemmas before it show
  that the recursion of the sum has a solution on all subsets of a finite set
  (`SumExists`), that it does not matter which element is taken out first
  (`SumTakesOut`), and that equal summands give equal sums (`SumAgrees`). They need
  induction over subsets; the induction theorems of the library cannot be used
  (below), so it is done as a smallest counterexample (`LeastSubset`).

### Scheduler, quotas, report

* `SchedulerProofs!CountersAgree`, `ReportComesTrue`: `TaskInv` relates the two
  counters, the timer and the mailed verdict at every point of the loop, for
  every day length, retry budget and delay.
* `SchedulerProofs!NoDayUnfunded`, under the one condition that a consolidation
  takes no longer than from midnight to the hour of funding (finding 2 is a
  schedule without it): tasks may take any time and the clock be set back by any
  amount. The property speaks only of a scheduler that waits for midnight; `FundInv`
  says at every point that all hours of funding behind the clock are accounted
  for (funded, before the process, or in `overrun`), all before the planned time
  while it waits, and that a consolidation has not outlived its bound.
  `NoDayUnconsolidated` needs no condition: `SweepInv` says the same of midnights.
* `RateLimitProofs!RateLimitTypeCorrect`, `HealthyIsTrue`, `IncidentIsMailedOnce`:
  `IndexInv` bounds what the index shows by the requests that may not be counted
  yet, `LatchInv` ties the latch to the mails and to the last verdict, and
  `FreshInv` says that requests are sent only before the verdict.
* `RunReportProofs!GreenHidesNothing`, `InterruptionsAreTold`,
  `EndingBalanceIsFromAfter`, `WatchGivesUpLast`: `ReportInv` follows the report
  through its stages. A scheduled report without a warning was filled from a
  clean record (`Attachment`), the balance watch runs only after a payout
  that is in the history of balances (`Ending`), and its window is never longer
  than its queries (`Window`). The sum of the claimables stays an unexpanded
  function in these proofs.

### Winding down

No theorem here says that something happens in the end: reasoning from fairness
is beyond the prover. What can go wrong in the code's bounded loops is another
thing, that a counter is reset, a phase is entered again or a replay leads back
to where it came from, and that no loop does this is an action property over a
measure, proved for every bound:

* `PayoutProofs!PayoutWindsDown`: the calls of a task, with the phase of its run,
  are 20 stages (`StageOf`); every step of the process enters a lower one, or makes
  one more try inside a balance loop or a repeated save. It needs no bound on
  damage: also what a recovery may load leads only downwards.
* `ConsolidationProofs!ConsolidationWindsDown`: the phases come one after the other;
  inside one, each step brings one builder nearer to its end, first by rounds
  and then by queries, and leaves the others where they are (the frame lemmas).
* `CompletionProofs!AttemptsWindDown`: an attempt of `Complete` ends in an answer or
  in the pause of `Retryer.Do`, whose retries are unbounded on purpose.
* `RunReportProofs!TaskWindsDown`: a report is at most `QueryAttempts + 5` steps
  away, one of which is the whole payout.

In each, what happens around the process leaves the measure alone or ends the
process. What is missing to the liveness properties is that a task which has not
ended can take a step and takes it: that is left to TLC, and to the fairness of
section 3.

### Only model-checked

The liveness properties `EverySubmitResolves`, `ConfirmedSettles`, `EveryRunEnds`,
`CompleteReturns` and `EveryTaskReports`: reasoning from fairness, and whether a step
is enabled, is beyond the prover. The theorems above are their safety half. The
library's induction theorems take an operator as a parameter, which the installed
provers cannot instantiate; where induction was needed it is written out over sets.
Every safety invariant and action property of a passing run is proved, under the
conditions named above where there are any.

## 5. Findings

1. *An outage can go untold* (`outage_leak`, `repository/mysql/retry.go:90`). A
   call that ends in an error that is not retried leaves its outage open in the
   observer, and the next outage is not mailed; `docs/operations.md:163` says a
   lasting outage is.
2. *A long consolidation skips the funding of its day* (`scheduler_overrun`,
   `scheduler.go:66`). `docs/architecture.md:195-196` and `docs/operations.md:68`
   say the midnight task does not stand in the way of the one at 01:00.

Limits of the code that explain bounds or conditions of the models:

* `MaxDamage = 1`. `Save` replaces a damaged primary without renewing the backup
  (`state/store.go:97`), so a primary damaged between the two saves of
  `payout.go:104-105` lets the request leave while the backup still holds the
  run from before its journal. It takes a second damaged file to send a second
  request.
* No power loss after damage, between two empty stores. A primary damaged between
  the two saves of a blocked run, and then a power loss inside `Clear` that keeps
  the backup, bring back a run that was archived as rejected. A rename or
  removal is taken as atomic, as a journaling file system makes it, but each
  may be durable or not until the directory is synced.
* `NoncesGrow` supposes the clock beyond the earlier nonces when a new process
  first signs: the last nonce is not saved (`signing/nonce.go`). If it is not,
  the exchange refuses the request, which the payout models as a rejection.
* The excuses of `EveryDayFunded` and `EveryDayConsolidated`. A funding task has no
  time limit, because its MySQL calls are retried without one (`retry.go:55`). One
  that goes on over 00:00 leaves out that day's consolidation, with the process up
  and the clock steady; the 01:00 report then marks it, as `docs/operations.md:75`
  says. One that goes on beyond 01:00 as well takes that task and its report with
  it, and what remains of the day is the report of the long task when it ends.
* A mail that SES refuses is logged and not sent again, so `OutageIsTold` leaves
  out the outage whose own mail was refused. `Dispatcher.Report` does the same
  with a run report, although its comment says that every invocation must be
  delivered; `RunReport` counts a report as told when it is handed over, and so
  does `RateLimit` with the mail of a quota: the latch is set before
  `Dispatcher.Alert` drops a refused mail.
* A gateway that answers with a 2xx status and an `ok` or `err` of its own is
  outside `Foreign` in `Submission`: the client has no way to tell it from the
  exchange, and `ImplementsContract` supposes that there is none.
* `RegressingReads = FALSE` in `payout_truthful`. Two equal reads of the expected
  total confirm a payout (`payout.go:249`), also when they are older than a
  deposit of the same amount; that a historical balance never confirms
  (`docs/architecture.md:107`) rests on an index that does not go back.

## 6. Hazards

`PROJECT.json` lists them at the line where they bite, each with the properties
that would catch it.

## 7. Not modelled

* Encoding, hashing and signatures, key handling: pure functions, covered by test
  vectors. A signed request is its signer, nonce and content.
* The info client: what it reads is the lagging index of the task models. For
  the same reason the `/info` endpoint of the development exchange, whose queued
  snapshots script such a lag, is left out, and so are its answers to malformed
  requests, which the client never makes.
* Decimal arithmetic of amounts: the manifest total is a constant function of
  the batch, which the instance gives as the exact sum rounded up.
* The `boundary invalid` branch of the ending-balance watch: a successful payout
  always has a valid journal (`AlwaysRecoverable`), so the branch is defensive.
* Rendering, the text of mails, redaction of error bodies, configuration,
  secrets, logging, flag parsing and the test mail: input and output around the
  modelled parts, without state that a later step reads.

## 8. Plan

Done, in this order: store and payout with its ledger; first proofs;
consolidation; completion with proofs; outage; scheduler; quotas with proofs;
report; power losses in store and payout; the repository composed of completion
and outage, with refused mails; processes, lock and nonces with proofs; the
client and the development exchange with their contract; proofs of all safety
properties of payout, observer, scheduler, consolidation and report and of both
refinements; the sum over the accounts; the measures by which every task winds
down. What is left:
the info client and the `/info` endpoint, if the models of the tasks are to be
composed with them.
