--------------------------- MODULE Consolidation ---------------------------
(***************************************************************************)
(* The UTC 00:00 consolidation: every builder's claimable reward is        *)
(* captured and recorded, claimed, observed in the balance index and swept *)
(* to the settlement account (internal/funding orchestrator.go,            *)
(* consolidation.go, daily_consolidation.go).  Around it: the record file  *)
(* of one UTC date, the wallets of the builders, requests that execute     *)
(* late or never, and the balance index the process reads.                 *)
(*                                                                         *)
(* Rewards are in fine units of which Fine make one unit of a wallet: the  *)
(* exchange, and Truncate in the code, drop the fraction.  The goroutines  *)
(* of a phase touch one builder each and end in a barrier, so a phase is a *)
(* set of builders still to do, handled one call at a time in any order.   *)
(***************************************************************************)
EXTENDS Integers, Sequences

CONSTANTS
  Builders,
  Fine,              \* fine units of reward in one unit of balance
  Threshold,         \* claimRewardThresholdUSDC, in units
  ClaimableTries,    \* claimableQueryAttempts
  BaselineTries,     \* claimBaselineQueryAttempts
  ObserveTries,      \* claimBalanceObservationAttempts
  SweepReads,        \* sweepBalanceQueryAttempts
  SweepTries,        \* sweepSubmitAttempts
  Confirmations,     \* the three ...RequiredConfirmations constants
  OpeningTotals,     \* wallet totals before the first run
  OpeningRewards,    \* claimable rewards before the first run
  Holds,             \* amounts of a wallet that may be on hold
  Credits,           \* amounts others may send to a wallet
  MaxTotal,          \* bound: no credit above this wallet total
  MaxRuns,           \* bound: consolidations started
  RegressingReads    \* may a balance query return an older total?

Unseen == -1   \* ClaimableObserved = false
NoBuilder == "none"

ASSUME ConsolidationAssumption ==
  /\ NoBuilder \notin Builders
  /\ Fine \in Nat \ {0} /\ Threshold \in Nat \ {0}
  /\ ClaimableTries \in Nat \ {0} /\ BaselineTries \in Nat \ {0}
  /\ ObserveTries \in Nat \ {0} /\ SweepReads \in Nat \ {0}
  /\ SweepTries \in Nat \ {0} /\ Confirmations \in Nat \ {0}
  /\ OpeningTotals \subseteq Nat /\ OpeningRewards \subseteq Nat
  /\ Holds \subseteq Nat /\ Credits \subseteq Nat
  /\ MaxTotal \in Nat /\ MaxRuns \in Nat
  /\ RegressingReads \in BOOLEAN

VARIABLES
  record,    \* the daily record of this date: its status and its builders
  step,      \* phase of the process
  scheduled, \* is this the UTC task (and not --consolidate-only)?
  todo,      \* builders this phase still has to handle
  rep,       \* BuilderReport of each builder
  loop,      \* query loop of each builder in this phase
  base,      \* confirmed pre-claim balance
  target,    \* claimBalanceTarget: outcome of the claim submission
  floor,     \* claimEndingBalances of the converged claims
  sweep,     \* the submission loop of the builder being swept
  reply,     \* exchange answer that has reached the process
  run,       \* number of runs so far
  claims,    \* claims submitted by the scheduled task of this date
  wallet,    \* every total each wallet has had
  reward,    \* claimable reward of each builder
  flying,    \* requests the network still holds
  moved,     \* amount the requests of this run have moved
  claimed,   \* builders whose reward was claimed since the run started
  seen       \* position in wallet of the last balance read

report == <<rep, base, target, floor>>
local  == <<loop, sweep, reply>>
money  == <<wallet, reward, flying, moved, claimed>>
vars   == <<record, step, scheduled, todo, report, local, run, claims, money, seen>>

Pending == [claimable |-> Unseen, claim |-> "pending", uncertain |-> FALSE,
            sweep |-> "pending", amount |-> 0]
NoLoop  == [tries |-> 0, stable |-> 0, total |-> 0, avail |-> 0]
NoBase  == [known |-> FALSE, total |-> 0, avail |-> 0]
NoClaim == [made |-> FALSE, unknown |-> FALSE, preSeen |-> FALSE]
NoFloor == [known |-> FALSE, total |-> 0]
NoSweep == [builder |-> NoBuilder, try |-> 1, unknown |-> FALSE, retry |-> 0,
            amount |-> 0, sent |-> FALSE]
NoRecord == [status |-> "missing"]

All(v) == [b \in Builders |-> v]
Total(b) == wallet[b][Len(wallet[b])]

Init ==
  /\ record = NoRecord /\ step = "idle" /\ scheduled = FALSE /\ todo = {}
  /\ rep = All(Pending) /\ base = All(NoBase) /\ target = All(NoClaim)
  /\ floor = All(NoFloor) /\ loop = All(NoLoop) /\ sweep = NoSweep
  /\ reply = All("none") /\ run = 0 /\ claims = All(0)
  /\ \E t \in [Builders -> OpeningTotals] : wallet = [b \in Builders |-> <<t[b]>>]
  /\ reward \in [Builders -> OpeningRewards]
  /\ flying = {} /\ moved = All(0) /\ claimed = {} /\ seen = All(1)

-----------------------------------------------------------------------------
(* Phases                                                                  *)

Enter(s, work) ==
  /\ step' = s /\ todo' = work /\ loop' = All(NoLoop)
  /\ sweep' = NoSweep /\ reply' = All("none")

(* The run ends: its report is gone, the record file stays.                *)
Finish ==
  /\ Enter("idle", {})
  /\ rep' = All(Pending) /\ base' = All(NoBase)
  /\ target' = All(NoClaim) /\ floor' = All(NoFloor)

(* Mutant: only a completed record keeps the task from running again.      *)
StartUnlessCompleted ==
  /\ step = "idle" /\ run < MaxRuns
  /\ \/ scheduled' = TRUE /\ record.status # "completed"
     \/ scheduled' = FALSE
  /\ run' = run + 1 /\ moved' = All(0) /\ claimed' = {}
  /\ Enter("token", {})
  /\ UNCHANGED <<record, report, claims, wallet, reward, flying, seen>>

(* RunDailyConsolidation, or --consolidate-only, which ignores the record. *)
Start ==
  /\ step = "idle" /\ run < MaxRuns
  /\ \/ scheduled' = TRUE /\ record.status = "missing"
     \/ scheduled' = FALSE
  /\ run' = run + 1 /\ moved' = All(0) /\ claimed' = {}
  /\ Enter("token", {})
  /\ UNCHANGED <<record, report, claims, wallet, reward, flying, seen>>

(* queryConsolidationToken                                                 *)
TokenFound ==
  /\ step = "token"
  /\ Enter("capture", Builders)
  /\ UNCHANGED <<record, scheduled, report, run, claims, money, seen>>

TokenError ==
  /\ step = "token"
  /\ Finish
  /\ UNCHANGED <<record, scheduled, run, claims, money, seen>>

-----------------------------------------------------------------------------
(* captureBuilderClaimables                                                *)

Again(b) == loop' = [loop EXCEPT ![b] = [NoLoop EXCEPT !.tries = loop[b].tries + 1]]
DoneWith(b) == todo' = todo \ {b}

CaptureRead(b) ==
  /\ step = "capture" /\ b \in todo
  /\ rep' = [rep EXCEPT ![b].claimable = reward[b]]
  /\ DoneWith(b)
  /\ UNCHANGED <<record, step, scheduled, base, target, floor, local, run, claims,
                 money, seen>>

CaptureError(b) ==
  /\ step = "capture" /\ b \in todo
  /\ IF loop[b].tries + 1 < ClaimableTries
     THEN Again(b) /\ UNCHANGED <<rep, todo>>
     ELSE /\ rep' = [rep EXCEPT ![b].claim = "warning"]
          /\ DoneWith(b) /\ UNCHANGED loop
  /\ UNCHANGED <<record, step, scheduled, base, target, floor, sweep, reply, run,
                 claims, money, seen>>

(* claimEligible                                                           *)
Eligible(r) == r.claimable = Unseen \/ r.claimable >= Threshold * Fine

Recorded(status) == [status |-> status, builders |-> rep]

EndCapture ==
  /\ step = "capture" /\ todo = {}
  /\ IF scheduled THEN Enter("record", {})
     ELSE Enter("baseline", {b \in Builders : Eligible(rep[b])})
  /\ UNCHANGED <<record, scheduled, report, run, claims, money, seen>>

(* SaveDailyConsolidation may report an error and yet have installed the   *)
(* file.  The captured claimables are saved before anything is claimed.    *)
SaveCaptured ==
  /\ step = "record"
  /\ \/ /\ record' = Recorded("claimables_captured")
        /\ Enter("baseline", {b \in Builders : Eligible(rep[b])})
        /\ UNCHANGED report
     \/ /\ record' \in {record, Recorded("claimables_captured")}
        /\ Finish
  /\ UNCHANGED <<scheduled, run, claims, money, seen>>

-----------------------------------------------------------------------------
(* captureClaimBalanceBaselines                                            *)

Reads(b) == (IF RegressingReads THEN 1 ELSE seen[b]) .. Len(wallet[b])

Stable(l, total, avail) ==
  IF l.stable > 0 /\ total = l.total /\ avail = l.avail THEN l.stable + 1 ELSE 1

Looped(b, stable, total, avail) ==
  [tries |-> loop[b].tries + 1, stable |-> stable, total |-> total, avail |-> avail]

BaselineMissing(b) ==
  /\ rep' = [rep EXCEPT ![b].claim = "warning"]
  /\ DoneWith(b) /\ UNCHANGED <<loop, base>>

BaselineRead(b) ==
  /\ step = "baseline" /\ b \in todo
  /\ \E i \in Reads(b), hold \in Holds :
       LET total  == wallet[b][i]
           avail  == total - hold
           stable == Stable(loop[b], total, avail)
       IN  /\ hold <= total
           /\ seen' = [seen EXCEPT ![b] = i]
           /\ \/ /\ stable >= Confirmations
                 /\ base' = [base EXCEPT ![b] = [known |-> TRUE, total |-> total,
                                                 avail |-> avail]]
                 /\ DoneWith(b) /\ UNCHANGED <<rep, loop>>
              \/ /\ stable < Confirmations /\ loop[b].tries + 1 < BaselineTries
                 /\ loop' = [loop EXCEPT ![b] = Looped(b, stable, total, avail)]
                 /\ UNCHANGED <<rep, todo, base>>
              \/ /\ stable < Confirmations /\ loop[b].tries + 1 >= BaselineTries
                 /\ BaselineMissing(b)
  /\ UNCHANGED <<record, step, scheduled, target, floor, sweep, reply, run, claims, money>>

BaselineError(b) ==
  /\ step = "baseline" /\ b \in todo
  /\ IF loop[b].tries + 1 < BaselineTries
     THEN Again(b) /\ UNCHANGED <<rep, todo, base>>
     ELSE BaselineMissing(b)
  /\ UNCHANGED <<record, step, scheduled, target, floor, sweep, reply, run, claims,
                 money, seen>>

(* claimBuilderRewards skips what is below the threshold.                  *)
EndBaseline ==
  /\ step = "baseline" /\ todo = {}
  /\ rep' = [b \in Builders |-> IF Eligible(rep[b]) THEN rep[b]
                                ELSE [rep[b] EXCEPT !.claim = "skipped"]]
  /\ Enter("claim", {b \in Builders : base[b].known})
  /\ UNCHANGED <<record, scheduled, base, target, floor, run, claims, money, seen>>

-----------------------------------------------------------------------------
(* claimBuilderRewards: one claim per builder, never repeated              *)

Claim(b)        == [kind |-> "claim", builder |-> b, run |-> run, try |-> 1, amount |-> 0]
SpotSend(b, n)  == [kind |-> "sweep", builder |-> b, run |-> run, try |-> sweep.try,
                    amount |-> n]
Sent(b)         == loop[b].tries > 0

ClaimSubmit(b) ==
  /\ step = "claim" /\ b \in todo /\ ~Sent(b)
  /\ flying' = flying \cup {Claim(b)}
  /\ claims' = IF scheduled THEN [claims EXCEPT ![b] = @ + 1] ELSE claims
  /\ Again(b)
  /\ UNCHANGED <<record, step, scheduled, todo, report, sweep, reply, run, wallet,
                 reward, moved, claimed, seen>>

ClaimPrepareError(b) ==
  /\ step = "claim" /\ b \in todo /\ ~Sent(b)
  /\ rep' = [rep EXCEPT ![b].claim = "warning"]
  /\ DoneWith(b)
  /\ UNCHANGED <<record, step, scheduled, base, target, floor, local, run, claims,
                 money, seen>>

ClaimAccepted(b) ==
  /\ step = "claim" /\ b \in todo /\ reply[b] = "accepted"
  /\ rep' = [rep EXCEPT ![b].claim = "success"]
  /\ target' = [target EXCEPT ![b] = [NoClaim EXCEPT !.made = TRUE]]
  /\ DoneWith(b)
  /\ UNCHANGED <<record, step, scheduled, base, floor, local, run, claims, money, seen>>

(* The exchange's exact below-threshold answer settles a claim that was    *)
(* only tried because the claimable could not be read.                     *)
ClaimRejected(b) ==
  /\ step = "claim" /\ b \in todo /\ reply[b] \in {"rejected", "below"}
  /\ rep' = [rep EXCEPT ![b].claim =
                IF rep[b].claimable = Unseen /\ reply[b] = "below" THEN "skipped"
                ELSE "warning"]
  /\ DoneWith(b)
  /\ UNCHANGED <<record, step, scheduled, base, target, floor, local, run, claims,
                 money, seen>>

ClaimUnknown(b) ==
  /\ step = "claim" /\ b \in todo /\ Sent(b)
  /\ rep' = [rep EXCEPT ![b].uncertain = TRUE]
  /\ target' = [target EXCEPT ![b] = [NoClaim EXCEPT !.made = TRUE, !.unknown = TRUE]]
  /\ DoneWith(b)
  /\ UNCHANGED <<record, step, scheduled, base, floor, local, run, claims, money, seen>>

EndClaim ==
  /\ step = "claim" /\ todo = {}
  /\ Enter("observe", {b \in Builders : target[b].made})
  /\ UNCHANGED <<record, scheduled, report, run, claims, money, seen>>

-----------------------------------------------------------------------------
(* observeClaimBalances                                                    *)

MinimumIncrease(b) ==
  IF rep[b].claimable = Unseen THEN Threshold ELSE rep[b].claimable \div Fine

PreState(b, total, avail) ==
  target[b].unknown /\ total = base[b].total /\ avail = base[b].avail

(* Mutant: a higher balance alone settles an unknown submission.           *)
VisibleTotal(b, total, preSeen, claimableNow) ==
  total >= base[b].total + MinimumIncrease(b)

(* The balance shows the claim.  An unknown submission also needs a known  *)
(* claimable that has gone down, and a read of the state before it.        *)
Visible(b, total, preSeen, claimableNow) ==
  /\ total >= base[b].total + MinimumIncrease(b)
  /\ target[b].unknown =>
       /\ rep[b].claimable # Unseen
       /\ claimableNow # Unseen /\ claimableNow < rep[b].claimable
       /\ preSeen

Converged(b, total) ==
  /\ floor' = [floor EXCEPT ![b] = [known |-> TRUE, total |-> total]]
  /\ rep' = IF target[b].unknown
            THEN [rep EXCEPT ![b].uncertain = FALSE, ![b].claim = "success"]
            ELSE rep
  /\ DoneWith(b) /\ UNCHANGED <<loop, target>>

(* Mutant: an unknown claim keeps the status it had.                       *)
ExhaustedSilently(b) ==
  /\ rep' = [rep EXCEPT ![b].sweep = "warning",
                        ![b].claim = IF target[b].unknown THEN @ ELSE "warning"]
  /\ DoneWith(b) /\ UNCHANGED <<loop, target, floor>>

(* claimBalanceObservationExhausted; a builder without floor whose claim   *)
(* was made is one of the unconverged.                                     *)
Exhausted(b) ==
  /\ rep' = [rep EXCEPT ![b].sweep = "warning", ![b].claim = "warning"]
  /\ DoneWith(b) /\ UNCHANGED <<loop, target, floor>>

Unconverged(b) == target[b].made /\ ~floor[b].known

(* claimableNow is the second query, and fails when it is unseen.          *)
ObserveRead(b) ==
  /\ step = "observe" /\ b \in todo
  /\ \E i \in Reads(b), hold \in Holds, claimableNow \in {reward[b], Unseen} :
       LET total   == wallet[b][i]
           avail   == total - hold
           preSeen == target[b].preSeen \/ PreState(b, total, avail)
           stable  == IF Visible(b, total, preSeen, claimableNow)
                      THEN Stable(loop[b], total, avail) ELSE 0
       IN  /\ hold <= total
           /\ seen' = [seen EXCEPT ![b] = i]
           /\ \/ stable >= Confirmations /\ Converged(b, total)
              \/ /\ stable < Confirmations /\ loop[b].tries + 1 < ObserveTries
                 /\ loop' = [loop EXCEPT ![b] = Looped(b, stable, total, avail)]
                 /\ target' = [target EXCEPT ![b].preSeen = preSeen]
                 /\ UNCHANGED <<rep, floor, todo>>
              \/ /\ stable < Confirmations /\ loop[b].tries + 1 >= ObserveTries
                 /\ Exhausted(b)
  /\ UNCHANGED <<record, step, scheduled, base, sweep, reply, run, claims, money>>

ObserveError(b) ==
  /\ step = "observe" /\ b \in todo
  /\ IF loop[b].tries + 1 < ObserveTries
     THEN Again(b) /\ UNCHANGED <<rep, target, floor, todo>>
     ELSE Exhausted(b)
  /\ UNCHANGED <<record, step, scheduled, base, sweep, reply, run, claims, money, seen>>

EndObserve ==
  /\ step = "observe" /\ todo = {}
  /\ Enter("sweep", Builders)
  /\ UNCHANGED <<record, scheduled, report, run, claims, money, seen>>

-----------------------------------------------------------------------------
(* sweepBuilderBalances: the builders one after the other, in the order of *)
(* the configuration; each is tried again only after an unknown result.    *)

SweepPick(b) ==
  /\ step = "sweep" /\ sweep.builder = NoBuilder /\ b \in todo
  /\ sweep' = [NoSweep EXCEPT !.builder = b]
  /\ UNCHANGED <<record, step, scheduled, todo, report, loop, reply, run, claims,
                 money, seen>>

SweepEnds(b, status, swept) ==
  /\ rep' = [rep EXCEPT ![b].sweep = status, ![b].amount = @ + swept]
  /\ DoneWith(b)
  /\ sweep' = NoSweep /\ reply' = [reply EXCEPT ![b] = "none"]
  /\ UNCHANGED loop

(* Mutant: the attempt is not counted.                                     *)
SweepForever(b, s) ==
  /\ sweep' = [s EXCEPT !.sent = FALSE]
  /\ loop' = [loop EXCEPT ![b] = NoLoop] /\ reply' = [reply EXCEPT ![b] = "none"]
  /\ UNCHANGED <<rep, todo>>

(* The next attempt reads the balance afresh.                              *)
SweepAgain(b, s) ==
  /\ sweep' = [s EXCEPT !.try = @ + 1, !.sent = FALSE]
  /\ loop' = [loop EXCEPT ![b] = NoLoop] /\ reply' = [reply EXCEPT ![b] = "none"]
  /\ UNCHANGED <<rep, todo>>

(* PrepareSpotSend fails, or the request leaves with the whole available   *)
(* balance, but with no less than the last amount of unknown fate.         *)
SweepWith(b, avail) ==
  LET amount == IF sweep.unknown /\ sweep.retry > avail THEN sweep.retry ELSE avail
  IN  \/ /\ amount = 0
         /\ SweepEnds(b, IF Unconverged(b) THEN "warning" ELSE "skipped", 0)
         /\ UNCHANGED flying
      \/ /\ amount > 0
         /\ IF sweep.unknown /\ sweep.try < SweepTries
            THEN SweepAgain(b, sweep) ELSE SweepEnds(b, "warning", 0)
         /\ UNCHANGED flying
      \/ /\ amount > 0
         /\ flying' = flying \cup {SpotSend(b, amount)}
         /\ sweep' = [sweep EXCEPT !.amount = amount, !.sent = TRUE]
         /\ UNCHANGED <<rep, todo, loop, reply>>

(* Mutant: no floor.                                                       *)
NeverBelow(b, total) == FALSE

(* loadSweepBalance: the floor of a converged claim rejects a read that    *)
(* has gone back, until an earlier request may have spent it.              *)
BelowFloor(b, total) == floor[b].known /\ ~sweep.unknown /\ total < floor[b].total

SweepRead(b) ==
  /\ step = "sweep" /\ sweep.builder = b /\ ~sweep.sent
  /\ \E i \in Reads(b), hold \in Holds :
       LET total  == wallet[b][i]
           avail  == total - hold
           stable == IF BelowFloor(b, total) THEN 0 ELSE Stable(loop[b], total, avail)
       IN  /\ hold <= total
           /\ seen' = [seen EXCEPT ![b] = i]
           /\ \/ stable >= Confirmations /\ SweepWith(b, avail)
              \/ /\ stable < Confirmations /\ loop[b].tries + 1 < SweepReads
                 /\ loop' = [loop EXCEPT ![b] = Looped(b, stable, total, avail)]
                 /\ UNCHANGED <<rep, todo, sweep, reply, flying>>
              \/ /\ stable < Confirmations /\ loop[b].tries + 1 >= SweepReads
                 /\ SweepEnds(b, "warning", 0) /\ UNCHANGED flying
  /\ UNCHANGED <<record, step, scheduled, base, target, floor, run, claims, wallet,
                 reward, moved, claimed>>

SweepReadError(b) ==
  /\ step = "sweep" /\ sweep.builder = b /\ ~sweep.sent
  /\ IF loop[b].tries + 1 < SweepReads
     THEN Again(b) /\ UNCHANGED <<rep, todo, sweep, reply>>
     ELSE SweepEnds(b, "warning", 0)
  /\ UNCHANGED <<record, step, scheduled, base, target, floor, run, claims, money, seen>>

(* Mutant: an accepted retry is a success like any other.                  *)
SweepAcceptedRetry(b) ==
  /\ step = "sweep" /\ sweep.builder = b /\ sweep.sent /\ reply[b] = "accepted"
  /\ SweepEnds(b, IF Unconverged(b) THEN "warning" ELSE "success", sweep.amount)
  /\ UNCHANGED <<record, step, scheduled, base, target, floor, run, claims, money, seen>>

SweepAccepted(b) ==
  /\ step = "sweep" /\ sweep.builder = b /\ sweep.sent /\ reply[b] = "accepted"
  /\ SweepEnds(b, IF sweep.unknown \/ Unconverged(b) THEN "warning" ELSE "success",
               sweep.amount)
  /\ UNCHANGED <<record, step, scheduled, base, target, floor, run, claims, money, seen>>

(* A rejection ends the sweep unless an earlier request is in doubt.       *)
SweepRejected(b) ==
  /\ step = "sweep" /\ sweep.builder = b /\ sweep.sent /\ reply[b] = "rejected"
  /\ IF sweep.unknown /\ sweep.try < SweepTries
     THEN SweepAgain(b, sweep) ELSE SweepEnds(b, "warning", 0)
  /\ UNCHANGED <<record, step, scheduled, base, target, floor, run, claims, money, seen>>

(* Mutant: one attempt too many.                                           *)
SweepUnknownOnceMore(b) ==
  /\ step = "sweep" /\ sweep.builder = b /\ sweep.sent
  /\ IF sweep.try <= SweepTries
     THEN SweepAgain(b, [sweep EXCEPT !.unknown = TRUE, !.retry = sweep.amount])
     ELSE SweepEnds(b, "warning", 0)
  /\ UNCHANGED <<record, step, scheduled, base, target, floor, run, claims, money, seen>>

SweepUnknown(b) ==
  /\ step = "sweep" /\ sweep.builder = b /\ sweep.sent
  /\ IF sweep.try < SweepTries
     THEN SweepAgain(b, [sweep EXCEPT !.unknown = TRUE, !.retry = sweep.amount])
     ELSE SweepEnds(b, "warning", 0)
  /\ UNCHANGED <<record, step, scheduled, base, target, floor, run, claims, money, seen>>

EndSweep ==
  /\ step = "sweep" /\ todo = {}
  /\ IF scheduled THEN Enter("complete", {}) /\ UNCHANGED report ELSE Finish
  /\ UNCHANGED <<record, scheduled, run, claims, money, seen>>

(* DailyConsolidation.Validate of a completed record.                      *)
FinalStep(status) == status \in {"success", "warning", "skipped"}
ValidCompleted(r) ==
  \A b \in Builders :
    /\ FinalStep(r[b].claim) /\ FinalStep(r[b].sweep)
    /\ r[b].uncertain => r[b].claim = "warning"

SaveCompleted ==
  /\ step = "complete"
  /\ \/ ValidCompleted(rep) /\ record' = Recorded("completed")
     \/ UNCHANGED record
  /\ Finish
  /\ UNCHANGED <<scheduled, run, claims, money, seen>>

-----------------------------------------------------------------------------
(* The world                                                               *)

Crash ==
  /\ step # "idle"
  /\ Finish
  /\ UNCHANGED <<record, scheduled, run, claims, money, seen>>

(* The answer reaches the process while it waits for this very request.    *)
Awaited(q) ==
  /\ q.run = run
  /\ \/ q.kind = "claim" /\ step = "claim" /\ q.builder \in todo
     \/ /\ q.kind = "sweep" /\ step = "sweep" /\ sweep.builder = q.builder
        /\ sweep.sent /\ sweep.try = q.try

Answer(q, a) ==
  reply' = IF Awaited(q) THEN [reply EXCEPT ![q.builder] = a] ELSE reply

(* A claim pays the whole reward, a sweep what it asks for.                *)
ExchangeClaims ==
  /\ \E q \in flying :
       LET b == q.builder IN
       /\ q.kind = "claim" /\ reward[b] >= Threshold * Fine
       /\ flying' = flying \ {q}
       /\ wallet' = [wallet EXCEPT ![b] = Append(@, Total(b) + reward[b] \div Fine)]
       /\ reward' = [reward EXCEPT ![b] = 0]
       /\ claimed' = claimed \cup {b}
       /\ Answer(q, "accepted")
  /\ UNCHANGED <<record, step, scheduled, todo, report, loop, sweep, run, claims,
                 moved, seen>>

ExchangeSends ==
  /\ \E q \in flying :
       LET b == q.builder IN
       /\ q.kind = "sweep" /\ q.amount <= Total(b)
       /\ flying' = flying \ {q}
       /\ wallet' = [wallet EXCEPT ![b] = Append(@, Total(b) - q.amount)]
       /\ moved' = IF q.run = run THEN [moved EXCEPT ![b] = @ + q.amount] ELSE moved
       /\ Answer(q, "accepted")
  /\ UNCHANGED <<record, step, scheduled, todo, report, loop, sweep, run, claims,
                 reward, claimed, seen>>

ExchangeRefuses ==
  /\ \E q \in flying :
       /\ flying' = flying \ {q}
       /\ Answer(q, IF q.kind = "claim" /\ reward[q.builder] < Threshold * Fine
                    THEN "below" ELSE "rejected")
  /\ UNCHANGED <<record, step, scheduled, todo, report, loop, sweep, run, claims,
                 wallet, reward, moved, claimed, seen>>

LoseRequest ==
  /\ \E q \in flying : flying' = flying \ {q}
  /\ UNCHANGED <<record, step, scheduled, todo, report, local, run, claims, wallet,
                 reward, moved, claimed, seen>>

Credit ==
  /\ \E b \in Builders, c \in Credits :
       /\ Total(b) + c <= MaxTotal
       /\ wallet' = [wallet EXCEPT ![b] = Append(@, Total(b) + c)]
  /\ UNCHANGED <<record, step, scheduled, todo, report, local, run, claims, reward,
                 flying, moved, claimed, seen>>

-----------------------------------------------------------------------------
BuilderStep(b) ==
  \/ CaptureRead(b) \/ CaptureError(b) \/ BaselineRead(b) \/ BaselineError(b)
  \/ ClaimSubmit(b) \/ ClaimPrepareError(b)
  \/ ClaimAccepted(b) \/ ClaimRejected(b) \/ ClaimUnknown(b)
  \/ ObserveRead(b) \/ ObserveError(b)
  \/ SweepPick(b) \/ SweepRead(b) \/ SweepReadError(b)
  \/ SweepAccepted(b) \/ SweepRejected(b) \/ SweepUnknown(b)

Process ==
  \/ TokenFound \/ TokenError \/ EndCapture \/ SaveCaptured \/ EndBaseline
  \/ EndClaim \/ EndObserve \/ EndSweep \/ SaveCompleted
  \/ \E b \in Builders : BuilderStep(b)

World ==
  \/ Crash \/ Credit \/ ExchangeClaims \/ ExchangeSends \/ ExchangeRefuses
  \/ LoseRequest

Next == Start \/ Process \/ World

Spec == Init /\ [][Next]_vars

(* The process is never stuck: it waits with timeouts and bounded loops.   *)
FairSpec == Spec /\ WF_vars(Process)

-----------------------------------------------------------------------------
Status == {"pending", "success", "warning", "skipped"}
Reports == [claimable : Nat \cup {Unseen}, claim : Status, uncertain : BOOLEAN,
            sweep : Status, amount : Nat]
Loops   == [tries : Nat, stable : Nat, total : Nat, avail : Nat]
Bases   == [known : BOOLEAN, total : Nat, avail : Nat]
Targets == [made : BOOLEAN, unknown : BOOLEAN, preSeen : BOOLEAN]
Floors  == [known : BOOLEAN, total : Nat]
Sweeps  == [builder : Builders \cup {NoBuilder}, try : 1..SweepTries,
            unknown : BOOLEAN, retry : Nat, amount : Nat, sent : BOOLEAN]
Replies == {"none", "accepted", "rejected", "below"}
Flight == [kind : {"claim", "sweep"}, builder : Builders, run : Nat, try : Nat,
           amount : Nat]

(* Every variable has the shape the code gives it.                         *)
TypeOK ==
  /\ \/ record = NoRecord
     \/ record \in [status : {"claimables_captured", "completed"},
                    builders : [Builders -> Reports]]
  /\ step \in {"idle", "token", "capture", "record", "baseline", "claim", "observe",
              "sweep", "complete"}
  /\ scheduled \in BOOLEAN /\ todo \subseteq Builders
  /\ rep \in [Builders -> Reports] /\ loop \in [Builders -> Loops]
  /\ base \in [Builders -> Bases] /\ target \in [Builders -> Targets]
  /\ floor \in [Builders -> Floors] /\ sweep \in Sweeps /\ reply \in [Builders -> Replies]
  /\ run \in Nat /\ claims \in [Builders -> Nat]
  /\ wallet \in [Builders -> Seq(Nat)] /\ reward \in [Builders -> Nat]
  /\ flying \subseteq Flight /\ moved \in [Builders -> Nat] /\ claimed \subseteq Builders
  /\ seen \in [Builders -> Nat] /\ \A b \in Builders : seen[b] \in 1..Len(wallet[b])

(* The scheduled task claims a builder's reward at most once per date, and *)
(* only after the record of that date exists: a restart after a crash, or  *)
(* a save that failed half way, never repeats it (RunDailyConsolidation).  *)
ClaimedOnce ==
  \A b \in Builders :
    /\ claims[b] <= 1
    /\ claims[b] > 0 => record.status # "missing"

(* Whatever failed on the way, the report at the end of a run passes the   *)
(* validation that SaveDailyConsolidation makes of a completed record: no  *)
(* builder is left pending and no uncertain claim looks settled.           *)
CompletedIsValid ==
  step = "complete" => ValidCompleted(rep)

(* The reported sweep never exceeds what the run's requests have moved,    *)
(* and a sweep reported as success reports all of it (markSweepSucceeded,  *)
(* markSweepRetryAccepted).                                                *)
SweepIsTold ==
  \A b \in Builders :
    /\ rep[b].amount <= moved[b]
    /\ rep[b].sweep = "success" => rep[b].amount = moved[b]

(* A claim reported as success has been paid: neither a credit from others *)
(* nor an index that lags settles an unknown submission                    *)
(* (claimBuilderRewards, observeClaimBalances, resolveUncertainClaim).     *)
ClaimIsPaid ==
  \A b \in Builders : rep[b].claim = "success" => b \in claimed

(* When claim and sweep are both reported as success, the sweep contains   *)
(* the reward: the floor of loadSweepBalance keeps an older balance from   *)
(* being swept instead.                                                    *)
RewardIsSwept ==
  \A b \in Builders :
    rep[b].claim = "success" /\ rep[b].sweep = "success" =>
      \E hold \in Holds :
        rep[b].amount + hold >= base[b].total + MinimumIncrease(b)

(* The claimables of a date are frozen when they are first recorded, and a *)
(* completed record is final (dailyConsolidationFromReport).               *)
RecordIsFrozen ==
  [][record.status # "missing" =>
       /\ record'.status # "missing"
       /\ \A b \in Builders :
            record'.builders[b].claimable = record.builders[b].claimable
       /\ record.status = "completed" => UNCHANGED record]_vars

(* Every consolidation ends: its loops are bounded whatever the exchange   *)
(* and the index answer.                                                   *)
EveryRunEnds ==
  step # "idle" ~> step = "idle"
=============================================================================
