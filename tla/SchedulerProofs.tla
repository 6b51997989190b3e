-------------------------- MODULE SchedulerProofs --------------------------
(***************************************************************************)
(* Proofs about the scheduler, for a day of any length, any retry budget   *)
(* and any bound on the clock: the two counters of failed tasks agree, the *)
(* mailed verdict comes true, and no day goes without its tasks unless a   *)
(* task of before is not over when they are due.                           *)
(***************************************************************************)
EXTENDS Scheduler, TLAPS

USE SchedulerAssumption

-----------------------------------------------------------------------------
(* Days and hours                                                          *)

Hour(d) == d * Day + FundingAt

LEMMA DateBounds ==
  ASSUME NEW t \in Nat
  PROVE  Date(t) \in Nat /\ Date(t) * Day <= t /\ t < Date(t) * Day + Day
BY DEF Date

LEMMA DateRest ==
  ASSUME NEW t \in Nat
  PROVE  t % Day \in 0..Day-1 /\ t = Date(t) * Day + (t % Day)
BY DEF Date

LEMMA TimesGrows ==
  ASSUME NEW a \in Nat, NEW b \in Nat, NEW c \in Nat, a <= b PROVE a * c <= b * c
OBVIOUS

LEMMA TimesNext == ASSUME NEW a \in Int, NEW c \in Nat PROVE (a + 1) * c = a * c + c
OBVIOUS

LEMMA DateIs ==
  ASSUME NEW t \in Nat, NEW d \in Nat, d * Day <= t, t < d * Day + Day
  PROVE  Date(t) = d
<1>1. Day \in Nat /\ Day > 0
  OBVIOUS
<1>2. Date(t) \in Nat /\ Date(t) * Day <= t /\ t < Date(t) * Day + Day
  BY DateBounds
<1>3. CASE Date(t) < d
  <2>1. (Date(t) + 1) * Day <= d * Day
    BY <1>1, <1>2, <1>3, TimesGrows
  <2> QED
    BY <1>1, <1>2, <2>1, TimesNext
<1>4. CASE Date(t) > d
  <2>1. (d + 1) * Day <= Date(t) * Day
    BY <1>1, <1>2, <1>4, TimesGrows
  <2> QED
    BY <1>1, <1>2, <2>1, TimesNext
<1> QED
  BY <1>2, <1>3, <1>4

(* The three plans of NextScheduledTask.                                   *)
LEMMA PlanOf ==
  ASSUME NEW t \in Nat
  PROVE  LET n == NextScheduledTask(t)
             d == Date(t)
         IN  /\ n.at \in Nat /\ n.at >= t
             /\ \/ n.task = "consolidation" /\ n.at = t /\ t = d * Day
                \/ n.task = "funding" /\ n.at = Hour(d) /\ t <= Hour(d) /\ t > d * Day
                \/ n.task = "consolidation" /\ n.at = (d + 1) * Day /\ t > Hour(d)
<1> DEFINE d == Date(t)
<1>1. d \in Nat /\ d * Day \in Nat /\ d * Day <= t /\ t < d * Day + Day
  BY DateBounds
<1>2. t % Day \in 0..Day-1 /\ t = d * Day + (t % Day)
  BY DateRest
<1>3. (d + 1) * Day = d * Day + Day
  BY <1>1, TimesNext
<1> HIDE DEF d
<1>4. CASE t % Day = 0
  <2>1. NextScheduledTask(t) = [task |-> "consolidation", at |-> t]
    BY <1>4 DEF NextScheduledTask
  <2> QED
    BY <1>1, <1>2, <1>4, <2>1 DEF d
<1>5. CASE t % Day # 0 /\ t <= Hour(d)
  <2>1. NextScheduledTask(t) = [task |-> "funding", at |-> Hour(d)]
    BY <1>5 DEF NextScheduledTask, Midnight, Hour, d
  <2>2. Hour(d) \in Nat /\ t > d * Day
    BY <1>1, <1>2, <1>5 DEF Hour
  <2> QED
    BY <1>1, <1>5, <2>1, <2>2 DEF d
<1>6. CASE t % Day # 0 /\ ~(t <= Hour(d))
  <2>1. NextScheduledTask(t) = [task |-> "consolidation", at |-> d * Day + Day]
    BY <1>6 DEF NextScheduledTask, Midnight, Hour, d
  <2>2. t > Hour(d)
    BY <1>1, <1>6 DEF Hour
  <2> QED
    BY <1>1, <1>3, <2>1, <2>2 DEF d
<1> QED
  BY <1>4, <1>5, <1>6

-----------------------------------------------------------------------------
(* Types, and what the two counters and the report have to do with the     *)
(* state of the process.                                                   *)

TypeInv ==
  /\ now \in Nat /\ setBack \in 0..MaxSetBack /\ since \in Nat /\ since <= now
  /\ pc \in {"boot", "plan", "wait", "consolidate", "fund", "exited"}
  /\ task \in {"funding", "consolidation"} /\ at \in Nat /\ delay \in Nat
  /\ spent \in Nat /\ retries \in 0..MaxRetries /\ attempt \in Nat /\ failed \in Nat
  /\ pc = "consolidate" => spent <= MaxConsolidation /\ task = "consolidation"

CountInv ==
  /\ pc # "exited" => attempt = retries + 1 /\ failed = retries
  /\ retries > 0 => pc \in {"plan", "wait", "fund", "exited"}

TimerInv ==
  pc = "wait" =>
    /\ now + delay <= at /\ at <= now + delay + setBack
    /\ retries > 0 => task = "funding" /\ delay <= RetryDelay

ReportInv ==
  /\ report = "retrying" => pc # "exited" /\ retries > 0
  /\ report = "critical" => pc = "exited"

TaskInv == TypeInv /\ CountInv /\ TimerInv /\ ReportInv

LEMMA PlanStep == ASSUME TaskInv, Plan PROVE TaskInv'
<1>0. now \in Nat /\ retries \in Nat /\ setBack \in Nat
  BY DEF TaskInv, TypeInv
<1>1. /\ pc = "plan" /\ pc' = "wait"
      /\ UNCHANGED <<now, spent, retries, attempt, report, failed, since, setBack>>
  BY DEF Plan, history
<1>2. PICK a \in Nat, d \in Nat :
        /\ at' = a /\ delay' = d /\ a = now + d /\ task' \in {"funding", "consolidation"}
        /\ retries > 0 => task' = "funding" /\ d <= RetryDelay
  <2>1. CASE retries > 0
    BY <1>0, <2>1 DEF Plan
  <2>2. CASE ~(retries > 0)
    <3> PICK n : n = NextScheduledTask(now)
      OBVIOUS
    <3>1. task' = n.task /\ at' = n.at /\ delay' = n.at - now
      BY <2>2 DEF Plan
    <3>2. n.at \in Nat /\ n.at >= now /\ n.task \in {"funding", "consolidation"}
      BY <1>0, PlanOf
    <3>3. n.at - now \in Nat /\ n.at = now + (n.at - now)
      BY <1>0, <3>2
    <3> QED
      BY <2>2, <3>1, <3>2, <3>3
  <2> QED
    BY <2>1, <2>2
<1>3. now + d <= a /\ a <= now + d + setBack
  BY <1>0, <1>2
<1> QED
  BY <1>1, <1>2, <1>3 DEF TaskInv, TypeInv, CountInv, TimerInv, ReportInv

LEMMA TaskStep == TaskInv /\ [Next]_vars => TaskInv'
<1> SUFFICES ASSUME TaskInv, [Next]_vars PROVE TaskInv'
  OBVIOUS
<1> USE DEF TaskInv, TypeInv, CountInv, TimerInv, ReportInv
<1>1. CASE UNCHANGED vars
  BY <1>1 DEF vars, timer, history
<1>2. CASE Boot
  BY <1>2 DEF Boot, timer
<1>3. CASE StartConsolidation \/ StartFunding
  BY <1>3 DEF StartConsolidation, StartFunding, timer
<1>4. CASE EndConsolidation
  BY <1>4 DEF EndConsolidation, timer, history
<1>5. CASE Funded
  BY <1>5 DEF Funded, timer
<1>6. CASE FundingFails
  <2>1. attempt = retries + 1 /\ MaxAttempts = MaxRetries + 1
    BY <1>6 DEF FundingFails, MaxAttempts
  <2>2. CASE retries >= MaxRetries
    BY <1>6, <2>1, <2>2 DEF FundingFails, Verdict, timer
  <2>3. CASE ~(retries >= MaxRetries)
    BY <1>6, <2>1, <2>3 DEF FundingFails, Verdict, timer
  <2> QED
    BY <2>2, <2>3
<1>7. CASE FundingFatal \/ Cancel
  BY <1>7 DEF FundingFatal, Cancel, timer, history
<1>8. CASE Tick
  BY <1>8 DEF Tick, history
<1>9. CASE SetClockBack
  BY <1>9 DEF SetClockBack, timer
<1> QED
  BY <1>1, <1>2, <1>3, <1>4, <1>5, <1>6, <1>7, <1>8, <1>9, PlanStep DEF Next

LEMMA TaskAlways == Spec => []TaskInv
<1>1. Init => TaskInv
  BY DEF Init, TaskInv, TypeInv, CountInv, TimerInv, ReportInv
<1> QED
  BY <1>1, TaskStep, PTL DEF Spec

(* The attempt App.Run passes to a funding task, the retries the scheduler *)
(* counts and the failures there were are the same number.                 *)
THEOREM CountersAgree == Spec => []AttemptsAgree
<1>1. TaskInv => AttemptsAgree
  BY DEF TaskInv, CountInv, AttemptsAgree
<1> QED
  BY <1>1, TaskAlways, PTL

(* After a report of "retrying" the service retries, in time; after a      *)
(* report of "critical" it has ended.                                      *)
THEOREM ReportComesTrue == Spec => []ReportIsTrue
<1>1. TaskInv => ReportIsTrue
  BY DEF TaskInv, TypeInv, TimerInv, ReportInv, ReportIsTrue
<1> QED
  BY <1>1, TaskAlways, PTL

-----------------------------------------------------------------------------
(* Where midnights and hours of funding lie.                               *)

LEMMA DayOrder ==
  ASSUME NEW d \in Nat, NEW e \in Nat, d < e
  PROVE  d * Day + Day <= e * Day
<1>1. Day \in Nat
  OBVIOUS
<1>2. (d + 1) * Day <= e * Day
  BY <1>1, TimesGrows
<1> QED
  BY <1>1, <1>2, TimesNext

LEMMA DaysApart ==
  ASSUME NEW d \in Nat, NEW e \in Nat
  PROVE  /\ d * Day \in Nat /\ Hour(d) \in Nat /\ Hour(d) = d * Day + FundingAt
         /\ (e + 1) * Day = e * Day + Day
         /\ d * Day < e * Day + Day => d * Day <= e * Day
         /\ Hour(d) < e * Day + Day => Hour(d) <= Hour(e)
         /\ Hour(d) < Hour(e) => Hour(d) < e * Day
<1>1. Day \in Nat /\ FundingAt \in Nat /\ FundingAt < Day
  OBVIOUS
<1> PICK M \in Nat, N \in Nat : M = d * Day /\ N = e * Day
  BY <1>1
<1>2. Hour(d) = M + FundingAt /\ Hour(e) = N + FundingAt
  BY DEF Hour
<1>3. (e + 1) * Day = N + Day
  BY <1>1, TimesNext
<1>4. CASE d < e
  <2>1. M + Day <= N
    BY <1>4, DayOrder
  <2> QED
    BY <1>1, <1>2, <1>3, <2>1
<1>5. CASE d = e
  BY <1>1, <1>2, <1>3, <1>5
<1>6. CASE d > e
  <2>1. N + Day <= M
    BY <1>6, DayOrder
  <2> QED
    BY <1>1, <1>2, <1>3, <2>1
<1> QED
  BY <1>4, <1>5, <1>6

(* Both kinds of time are recorded when they pass.                         *)
LEMMA SlotsAreSeen ==
  ASSUME NEW d \in Nat
  PROVE  (d * Day) % Day \in {0, FundingAt} /\ Hour(d) % Day \in {0, FundingAt}
<1>1. Day \in Nat /\ FundingAt \in Nat /\ FundingAt < Day /\ d * Day \in Nat /\ Hour(d) \in Nat
      /\ Hour(d) = d * Day + FundingAt
  BY DaysApart
<1>2. Date(d * Day) = d /\ Date(Hour(d)) = d
  BY <1>1, DateIs
<1>3. (d * Day) % Day \in Nat /\ d * Day = d * Day + ((d * Day) % Day)
  BY <1>1, <1>2, DateRest
<1>4. Hour(d) % Day \in Nat /\ Hour(d) = d * Day + (Hour(d) % Day)
  BY <1>1, <1>2, DateRest
<1> QED
  BY <1>1, <1>3, <1>4

(* What passes while a task is unfinished is recorded.                     *)
LEMMA PassedIsSeen ==
  ASSUME Tick, now % Day \in {0, FundingAt}, NEW t \in Unfinished
  PROVE  <<now, t>> \in overrun'
BY DEF Tick

(* No step forgets what was done.                                          *)
LEMMA NothingUndone ==
  ASSUME [Next]_vars
  PROVE  /\ funded \subseteq funded' /\ consolidated \subseteq consolidated'
         /\ overrun \subseteq overrun'
         /\ since' = since \/ Boot
BY DEF Next, vars, timer, history, Boot, Plan, StartConsolidation, EndConsolidation,
       StartFunding, Funded, FundingFails, FundingFatal, Cancel, Tick, SetClockBack

-----------------------------------------------------------------------------
(* No day without funding.  The property speaks of the moment of a wait    *)
(* only; the invariant says of every moment that each hour of funding that *)
(* lies behind the clock was served or has an excuse, and of a wait that   *)
(* so are those it will pass.  A clock that is set back only makes fewer   *)
(* hours lie behind it.                                                    *)

Served(d) == d \in funded \/ since > Hour(d) \/ <<Hour(d), "funding">> \in overrun

FundInv ==
  pc \notin {"boot", "exited"} =>
    /\ \A d \in Nat : now > Hour(d) => Served(d)
    /\ pc = "fund" /\ spent = 0 /\ retries = 0 => \A d \in Nat : now >= Hour(d) => Served(d)
    /\ pc = "wait" /\ retries = 0 => \A d \in Nat : Hour(d) < at => Served(d)
    /\ pc \in {"wait", "consolidate"} /\ task = "consolidation" => at = Date(at) * Day
    /\ pc = "consolidate" => now <= at + spent /\ \A d \in Nat : Hour(d) < at => Served(d)

LEMMA ServedStays ==
  ASSUME [Next]_vars, ~Boot PROVE \A d \in Nat : Served(d) => Served(d)'
BY NothingUndone DEF Served

LEMMA FundPlan == ASSUME TaskInv, FundInv, Plan PROVE FundInv'
<1>0. now \in Nat /\ retries \in Nat
  BY DEF TaskInv, TypeInv
<1>1. pc = "plan" /\ pc' = "wait"
      /\ UNCHANGED <<now, retries, funded, since, overrun>>
  BY DEF Plan, history
<1>2. \A d \in Nat : Served(d)' = Served(d)
  BY <1>1 DEF Served
<1>3. \A d \in Nat : now > Hour(d) => Served(d)
  BY <1>1 DEF FundInv
<1>4. CASE retries > 0
  <2>1. task' = "funding"
    BY <1>4 DEF Plan
  <2> QED
    BY <1>0, <1>1, <1>2, <1>3, <1>4, <2>1 DEF FundInv
<1>5. CASE ~(retries > 0)
  <2> PICK n : n = NextScheduledTask(now)
    OBVIOUS
  <2>1. task' = n.task /\ at' = n.at
    BY <1>5 DEF Plan
  <2> PICK D \in Nat : D = Date(now)
    BY <1>0, DateBounds
  <2>2. CASE n.task = "consolidation" /\ n.at = now /\ now = D * Day
    BY <1>1, <1>2, <1>3, <2>1, <2>2 DEF FundInv
  <2>3. CASE n.task = "funding" /\ n.at = Hour(D) /\ now > D * Day
    <3>1. ASSUME NEW d \in Nat, Hour(d) < Hour(D) PROVE Served(d)
      <4>1. Hour(d) < D * Day /\ D * Day \in Nat /\ Hour(d) \in Nat
        BY <3>1, DaysApart
      <4> QED
        BY <1>0, <1>3, <2>3, <4>1
    <3> QED
      BY <1>1, <1>2, <1>3, <2>1, <2>3, <3>1 DEF FundInv
  <2>4. CASE n.task = "consolidation" /\ n.at = (D + 1) * Day /\ now > Hour(D)
    <3>1. D * Day \in Nat /\ (D + 1) * Day = D * Day + Day /\ Day \in Nat /\ Day > 0
      <4>1. D * Day \in Nat /\ (D + 1) * Day = D * Day + Day
        BY DaysApart
      <4> QED
        BY <4>1
    <3>2. ASSUME NEW d \in Nat, Hour(d) < (D + 1) * Day PROVE Served(d)
      <4>1. Hour(d) <= Hour(D) /\ Hour(d) \in Nat /\ Hour(D) \in Nat
        BY <3>1, <3>2, DaysApart
      <4> QED
        BY <1>0, <1>3, <2>4, <4>1
    <3>3. D + 1 \in Nat /\ (D + 1) * Day \in Nat
      BY <3>1
    <3>4. Date((D + 1) * Day) = D + 1
      BY <3>1, <3>3, DateIs
    <3> QED
      BY <1>1, <1>2, <1>3, <2>1, <2>4, <3>2, <3>4 DEF FundInv
  <2> QED
    BY <1>0, <2>2, <2>3, <2>4, PlanOf
<1> QED
  BY <1>4, <1>5

LEMMA FundTick ==
  ASSUME MaxConsolidation <= FundingAt, TaskInv, FundInv, Tick PROVE FundInv'
<1>0. now \in Nat /\ retries \in Nat /\ delay \in Nat /\ spent \in Nat /\ at \in Nat
  BY DEF TaskInv, TypeInv
<1>1. pc' = pc /\ pc \in {"boot", "wait", "consolidate", "fund"} /\ now' = now + 1
      /\ UNCHANGED <<task, at, retries>>
  BY DEF Tick
<1>2. \A d \in Nat : Served(d) => Served(d)'
  <2>1. ~Boot
    BY <1>0, <1>1 DEF Boot
  <2> QED
    BY <2>1, ServedStays DEF Next
<1>3. SUFFICES ASSUME pc # "boot" PROVE FundInv'
  BY <1>1 DEF FundInv
<1>4. ASSUME NEW d \in Nat, now' > Hour(d) PROVE Served(d)'
  <2>1. Hour(d) \in Nat
    BY DaysApart
  <2>2. CASE now > Hour(d)
    BY <1>1, <1>2, <1>3, <2>2 DEF FundInv
  <2>3. CASE now = Hour(d)
    <3>1. CASE "funding" \in Unfinished
      BY <2>3, <3>1, PassedIsSeen, SlotsAreSeen DEF Served
    <3>2. CASE "funding" \notin Unfinished
      <4>1. retries = 0 /\ ~(pc = "fund" /\ spent > 0)
        BY <1>0, <3>2 DEF Unfinished
      <4>2. CASE pc = "wait"
        <5>1. now < at
          BY <1>0, <4>2 DEF Tick, TaskInv, TimerInv
        <5> QED
          BY <1>2, <2>3, <4>1, <4>2, <5>1 DEF FundInv
      <4>3. CASE pc = "fund"
        <5>1. now >= Hour(d) /\ spent = 0
          BY <1>0, <2>3, <4>1, <4>3
        <5> QED
          BY <1>2, <4>1, <4>3, <5>1 DEF FundInv
      <4>4. CASE pc = "consolidate"
        <5>1. spent < FundingAt /\ task = "consolidation"
          BY <1>0, <4>4 DEF Tick, TaskInv, TypeInv
        <5> PICK E \in Nat : E = Date(at)
          BY <1>0, DateBounds
        <5>2. now <= at + spent /\ at = E * Day
          BY <4>4, <5>1 DEF FundInv
        <5>3. Hour(d) < Hour(E)
          BY <1>0, <2>3, <5>1, <5>2, DaysApart
        <5>4. Hour(d) < at
          BY <5>2, <5>3, DaysApart
        <5> QED
          BY <1>2, <4>4, <5>4 DEF FundInv
      <4> QED
        BY <1>1, <1>3, <4>2, <4>3, <4>4
    <3> QED
      BY <3>1, <3>2
  <2> QED
    BY <1>0, <1>1, <1>4, <2>1, <2>2, <2>3
<1>5. CASE pc = "wait"
  <2>1. retries = 0 => \A d \in Nat : Hour(d) < at => Served(d)'
    BY <1>2, <1>5 DEF FundInv
  <2> QED
    BY <1>1, <1>4, <1>5, <2>1 DEF FundInv
<1>6. CASE pc = "consolidate"
  <2>1. spent' = spent + 1
    BY <1>6 DEF Tick
  <2>2. now' <= at + spent'
    BY <1>0, <1>1, <1>6, <2>1 DEF FundInv
  <2>3. \A d \in Nat : Hour(d) < at => Served(d)'
    BY <1>2, <1>6 DEF FundInv
  <2> QED
    BY <1>1, <1>4, <1>6, <2>2, <2>3 DEF FundInv
<1>7. CASE pc = "fund"
  <2>1. spent' # 0
    BY <1>0, <1>7 DEF Tick
  <2> QED
    BY <1>1, <1>4, <1>7, <2>1 DEF FundInv
<1> QED
  BY <1>1, <1>3, <1>5, <1>6, <1>7

LEMMA FundStep ==
  ASSUME MaxConsolidation <= FundingAt PROVE TaskInv /\ FundInv /\ [Next]_vars => FundInv'
<1> SUFFICES ASSUME TaskInv, FundInv, [Next]_vars PROVE FundInv'
  OBVIOUS
<1>0. now \in Nat /\ retries \in Nat /\ delay \in Nat /\ spent \in Nat /\ at \in Nat
  BY DEF TaskInv, TypeInv
<1>1. CASE UNCHANGED vars
  BY <1>1 DEF vars, timer, history, FundInv, Served
<1>2. CASE Boot
  <2>1. pc' \in {"plan", "exited"} /\ since' = now /\ now' = now
    BY <1>2 DEF Boot
  <2> QED
    BY <2>1 DEF FundInv, Served
<1>a. CASE ~Boot
  <2>0. \A d \in Nat : Served(d) => Served(d)'
    BY <1>a, ServedStays
  <2>1. CASE StartConsolidation
    <3>1. pc = "wait" /\ delay = 0 /\ task = "consolidation" /\ pc' = "consolidate" /\ spent' = 0
          /\ UNCHANGED <<now, task, at, retries>>
      BY <2>1 DEF StartConsolidation, timer
    <3>2. now <= at + spent' /\ retries = 0
      BY <1>0, <3>1 DEF TaskInv, TimerInv
    <3>3. \A d \in Nat : Hour(d) < at => Served(d)'
      BY <2>0, <3>1, <3>2 DEF FundInv
    <3>4. \A d \in Nat : now > Hour(d) => Served(d)'
      BY <2>0, <3>1 DEF FundInv
    <3>5. at = Date(at) * Day
      BY <3>1 DEF FundInv
    <3> QED
      BY <3>1, <3>2, <3>3, <3>4, <3>5 DEF FundInv
  <2>2. CASE StartFunding
    <3>1. pc = "wait" /\ pc' = "fund" /\ spent' = 0 /\ UNCHANGED <<now, task, at, retries>>
          /\ funded' = funded \cup {Date(now)}
      BY <2>2 DEF StartFunding, timer
    <3>2. \A d \in Nat : now > Hour(d) => Served(d)'
      BY <2>0, <3>1 DEF FundInv
    <3>3. ASSUME NEW d \in Nat, now >= Hour(d) PROVE Served(d)'
      <4>1. CASE now = Hour(d)
        <5>1. d * Day <= now /\ now < d * Day + Day
          BY <1>0, <4>1, DaysApart
        <5>2. Date(now) = d
          BY <1>0, <5>1, DateIs
        <5> QED
          BY <3>1, <5>2 DEF Served
      <4>2. CASE now > Hour(d)
        BY <3>2, <4>2
      <4>3. Hour(d) \in Nat
        BY DaysApart
      <4> QED
        BY <1>0, <3>3, <4>1, <4>2, <4>3
    <3> QED
      BY <3>1, <3>2, <3>3 DEF FundInv
  <2>3. CASE EndConsolidation \/ Funded \/ FundingFails
    <3>1. pc' \in {"plan", "exited"} /\ pc \in {"consolidate", "fund"} /\ now' = now
      BY <2>3 DEF EndConsolidation, Funded, FundingFails
    <3> QED
      BY <2>0, <3>1 DEF FundInv
  <2>4. CASE FundingFatal \/ Cancel
    BY <2>4 DEF FundingFatal, Cancel, FundInv
  <2>5. CASE SetClockBack
    <3>1. pc' = pc /\ pc \in {"wait", "consolidate", "fund"} /\ now' = now - 1
          /\ UNCHANGED <<task, at, spent, retries>>
      BY <2>5 DEF SetClockBack, timer
    <3>2. /\ \A d \in Nat : now' > Hour(d) => now > Hour(d)
          /\ \A d \in Nat : now' >= Hour(d) => now >= Hour(d)
          /\ now <= at + spent => now' <= at + spent
      BY <1>0, <3>1, DaysApart
    <3> QED
      BY <2>0, <3>1, <3>2 DEF FundInv
  <2> QED
    BY <1>a, <1>1, <2>1, <2>2, <2>3, <2>4, <2>5, FundPlan, FundTick DEF Next
<1> QED
  BY <1>2, <1>a

(* When the scheduler waits for a consolidation, the day before it had its *)
(* funding task, if the process was up at its hour and no funding task of  *)
(* before was unfinished then: for every day length, hour, retry budget    *)
(* and delay, for funding tasks of any length and however often the clock  *)
(* is set back, as long as a consolidation ends by the hour of funding     *)
(* (NextScheduledTaskUTC, Scheduler.Run).                                  *)
THEOREM NoDayUnfunded ==
  ASSUME MaxConsolidation <= FundingAt PROVE Spec => []EveryDayFunded
<1>1. Init => FundInv
  BY DEF Init, FundInv
<1>2. TaskInv /\ FundInv => EveryDayFunded
  <2> SUFFICES ASSUME TaskInv, FundInv, pc = "wait", task = "consolidation"
               PROVE  Served(Date(at) - 1)
    BY DEF EveryDayFunded, Served, Hour
  <2>0. at \in Nat /\ since \in Nat /\ retries \in Nat
    BY DEF TaskInv, TypeInv
  <2> PICK E \in Nat : E = Date(at)
    BY <2>0, DateBounds
  <2>1. at = E * Day /\ retries = 0
    BY <2>0 DEF FundInv, TaskInv, TimerInv
  <2>2. CASE E = 0
    <3>1. Hour(E - 1) < 0
      BY <2>2 DEF Hour
    <3> QED
      BY <2>0, <2>2, <3>1 DEF Served, Hour
  <2>3. CASE E # 0
    <3> PICK d \in Nat : d = E - 1
      BY <2>3
    <3>1. d < E /\ d * Day + Day <= E * Day /\ d * Day \in Nat /\ E * Day \in Nat
      BY DayOrder
    <3>2. Hour(d) < at
      BY <2>1, <3>1 DEF Hour
    <3> QED
      BY <2>1, <3>2 DEF FundInv
  <2> QED
    BY <2>2, <2>3
<1> QED
  BY <1>1, <1>2, TaskAlways, FundStep, PTL DEF Spec

-----------------------------------------------------------------------------
(* No day without a consolidation: the same for midnights.                 *)

Swept(d) ==
  \/ d \in consolidated \/ since > d * Day
  \/ \E t \in {"consolidation", "funding"} : <<d * Day, t>> \in overrun

SweepInv ==
  pc \notin {"boot", "exited"} =>
    /\ \A d \in Nat : now > d * Day => Swept(d)
    /\ pc \in {"consolidate", "fund"} /\ spent = 0 /\ retries = 0 =>
         \A d \in Nat : now >= d * Day => Swept(d)
    /\ pc = "wait" /\ retries = 0 =>
         \A d \in Nat : d * Day < at \/ (d * Day = at /\ task = "funding") => Swept(d)

LEMMA SweptStays ==
  ASSUME [Next]_vars, ~Boot PROVE \A d \in Nat : Swept(d) => Swept(d)'
BY NothingUndone DEF Swept

LEMMA SweepPlan == ASSUME TaskInv, SweepInv, Plan PROVE SweepInv'
<1>0. now \in Nat /\ retries \in Nat
  BY DEF TaskInv, TypeInv
<1>1. pc = "plan" /\ pc' = "wait"
      /\ UNCHANGED <<now, retries, consolidated, since, overrun>>
  BY DEF Plan, history
<1>2. \A d \in Nat : Swept(d)' = Swept(d)
  BY <1>1 DEF Swept
<1>3. \A d \in Nat : now > d * Day => Swept(d)
  BY <1>1 DEF SweepInv
<1>4. CASE retries > 0
  BY <1>0, <1>1, <1>2, <1>3, <1>4 DEF SweepInv
<1>5. CASE ~(retries > 0)
  <2> PICK n : n = NextScheduledTask(now)
    OBVIOUS
  <2>1. task' = n.task /\ at' = n.at
    BY <1>5 DEF Plan
  <2> PICK D \in Nat : D = Date(now)
    BY <1>0, DateBounds
  <2>2. CASE n.task = "consolidation" /\ n.at = now /\ now = D * Day
    BY <1>1, <1>2, <1>3, <2>1, <2>2 DEF SweepInv
  <2>3. CASE /\ \/ n.task = "funding" /\ n.at = Hour(D) /\ now > D * Day
                \/ n.task = "consolidation" /\ n.at = (D + 1) * Day /\ now > Hour(D)
    <3>1. D * Day \in Nat /\ Hour(D) = D * Day + FundingAt /\ (D + 1) * Day = D * Day + Day
      BY DaysApart
    <3>2. ASSUME NEW d \in Nat, d * Day < n.at \/ (d * Day = n.at /\ n.task = "funding")
          PROVE  Swept(d)
      <4>1. d * Day \in Nat
        BY DaysApart
      <4>2. d * Day < D * Day + Day
        BY <2>3, <3>1, <3>2, <4>1
      <4>3. d * Day <= D * Day
        BY <4>2, DaysApart
      <4>4. now > D * Day
        BY <1>0, <2>3, <3>1
      <4> QED
        BY <1>0, <1>3, <3>1, <4>1, <4>3, <4>4
    <3> QED
      BY <1>1, <1>2, <1>3, <2>1, <3>2 DEF SweepInv
  <2> QED
    BY <1>0, <2>2, <2>3, PlanOf
<1> QED
  BY <1>4, <1>5

LEMMA SweepTick == ASSUME TaskInv, SweepInv, Tick PROVE SweepInv'
<1>0. now \in Nat /\ retries \in Nat /\ delay \in Nat /\ spent \in Nat /\ at \in Nat
  BY DEF TaskInv, TypeInv
<1>1. pc' = pc /\ pc \in {"boot", "wait", "consolidate", "fund"} /\ now' = now + 1
      /\ UNCHANGED <<task, at, retries>>
  BY DEF Tick
<1>2. \A d \in Nat : Swept(d) => Swept(d)'
  <2>1. ~Boot
    BY <1>0, <1>1 DEF Boot
  <2> QED
    BY <2>1, SweptStays DEF Next
<1>3. SUFFICES ASSUME pc # "boot" PROVE SweepInv'
  BY <1>1 DEF SweepInv
<1>4. ASSUME NEW d \in Nat, now' > d * Day PROVE Swept(d)'
  <2>1. d * Day \in Nat
    BY DaysApart
  <2>2. CASE now > d * Day
    BY <1>1, <1>2, <1>3, <2>2 DEF SweepInv
  <2>3. CASE now = d * Day
    <3>1. ASSUME NEW t \in Unfinished PROVE Swept(d)'
      <4>1. t \in {"consolidation", "funding"}
        BY DEF Unfinished
      <4> QED
        BY <2>3, <4>1, PassedIsSeen, SlotsAreSeen DEF Swept
    <3>2. CASE "funding" \notin Unfinished /\ "consolidation" \notin Unfinished
      <4>1. retries = 0 /\ ~(pc = "fund" /\ spent > 0) /\ ~(pc = "consolidate" /\ spent > 0)
        BY <1>0, <3>2 DEF Unfinished
      <4>2. CASE pc = "wait"
        <5>1. now < at
          BY <1>0, <4>2 DEF Tick, TaskInv, TimerInv
        <5> QED
          BY <1>2, <2>3, <4>1, <4>2, <5>1 DEF SweepInv
      <4>3. CASE pc \in {"consolidate", "fund"}
        <5>1. now >= d * Day /\ spent = 0
          BY <1>0, <2>3, <4>1, <4>3
        <5> QED
          BY <1>2, <4>1, <4>3, <5>1 DEF SweepInv
      <4> QED
        BY <1>1, <1>3, <4>2, <4>3
    <3> QED
      BY <3>1, <3>2
  <2> QED
    BY <1>0, <1>1, <1>4, <2>1, <2>2, <2>3
<1>5. pc = "wait" /\ retries = 0 =>
        \A d \in Nat : d * Day < at \/ (d * Day = at /\ task = "funding") => Swept(d)'
  BY <1>2 DEF SweepInv
<1>6. pc \in {"consolidate", "fund"} => spent' # 0
  BY <1>0 DEF Tick
<1> QED
  BY <1>1, <1>4, <1>5, <1>6 DEF SweepInv

LEMMA SweepStep == TaskInv /\ SweepInv /\ [Next]_vars => SweepInv'
<1> SUFFICES ASSUME TaskInv, SweepInv, [Next]_vars PROVE SweepInv'
  OBVIOUS
<1>0. now \in Nat /\ retries \in Nat /\ delay \in Nat /\ spent \in Nat /\ at \in Nat
  BY DEF TaskInv, TypeInv
<1>1. CASE UNCHANGED vars
  BY <1>1 DEF vars, timer, history, SweepInv, Swept
<1>2. CASE Boot
  <2>1. pc' \in {"plan", "exited"} /\ since' = now /\ now' = now
    BY <1>2 DEF Boot
  <2> QED
    BY <2>1 DEF SweepInv, Swept
<1>a. CASE ~Boot
  <2>0. \A d \in Nat : Swept(d) => Swept(d)'
    BY <1>a, SweptStays
  <2>1. CASE StartConsolidation
    <3>1. pc = "wait" /\ pc' = "consolidate" /\ now' = now
          /\ consolidated' = consolidated \cup {Date(now)}
      BY <2>1 DEF StartConsolidation
    <3>2. \A d \in Nat : now > d * Day => Swept(d)'
      BY <2>0, <3>1 DEF SweepInv
    <3>3. ASSUME NEW d \in Nat, now >= d * Day PROVE Swept(d)'
      <4>0. d * Day \in Nat
        BY DaysApart
      <4>1. CASE now = d * Day
        <5>1. Date(now) = d
          BY <1>0, <4>0, <4>1, DateIs
        <5> QED
          BY <3>1, <5>1 DEF Swept
      <4>2. CASE now > d * Day
        BY <3>2, <4>2
      <4> QED
        BY <1>0, <3>3, <4>0, <4>1, <4>2
    <3> QED
      BY <3>1, <3>2, <3>3 DEF SweepInv
  <2>2. CASE StartFunding
    <3>1. pc = "wait" /\ delay = 0 /\ task = "funding" /\ pc' = "fund" /\ UNCHANGED <<now, retries>>
      BY <2>2 DEF StartFunding
    <3>2. \A d \in Nat : now > d * Day => Swept(d)'
      BY <2>0, <3>1 DEF SweepInv
    <3>3. ASSUME NEW d \in Nat, now >= d * Day, retries = 0 PROVE Swept(d)'
      <4>0. d * Day \in Nat
        BY DaysApart
      <4>1. now <= at
        BY <1>0, <3>1 DEF TaskInv, TimerInv
      <4>2. d * Day < at \/ d * Day = at
        BY <1>0, <3>3, <4>0, <4>1
      <4> QED
        BY <2>0, <3>1, <3>3, <4>2 DEF SweepInv
    <3> QED
      BY <3>1, <3>2, <3>3 DEF SweepInv
  <2>3. CASE EndConsolidation \/ Funded \/ FundingFails
    <3>1. pc' \in {"plan", "exited"} /\ pc \in {"consolidate", "fund"} /\ now' = now
      BY <2>3 DEF EndConsolidation, Funded, FundingFails
    <3> QED
      BY <2>0, <3>1 DEF SweepInv
  <2>4. CASE FundingFatal \/ Cancel
    BY <2>4 DEF FundingFatal, Cancel, SweepInv
  <2>5. CASE SetClockBack
    <3>1. pc' = pc /\ pc \in {"wait", "consolidate", "fund"} /\ now' = now - 1
          /\ UNCHANGED <<task, at, spent, retries>>
      BY <2>5 DEF SetClockBack, timer
    <3>2. \A d \in Nat : (now' > d * Day => now > d * Day) /\ (now' >= d * Day => now >= d * Day)
      BY <1>0, <3>1, DaysApart
    <3> QED
      BY <2>0, <3>1, <3>2 DEF SweepInv
  <2> QED
    BY <1>a, <1>1, <2>1, <2>2, <2>3, <2>4, <2>5, SweepPlan, SweepTick DEF Next
<1> QED
  BY <1>2, <1>a

(* When the scheduler waits for the funding task of a day, the             *)
(* consolidation of that day was started, if the process was up at         *)
(* midnight and no task begun before was unfinished then: for every day    *)
(* length, hour, retry budget and delay, for tasks of any length and       *)
(* however often the clock is set back (NextScheduledTaskUTC,              *)
(* Scheduler.Run).                                                         *)
THEOREM NoDayUnconsolidated == Spec => []EveryDayConsolidated
<1>1. Init => SweepInv
  BY DEF Init, SweepInv
<1>2. TaskInv /\ SweepInv => EveryDayConsolidated
  <2> SUFFICES ASSUME TaskInv, SweepInv, pc = "wait", task = "funding", retries = 0
               PROVE  Swept(Date(at))
    BY DEF EveryDayConsolidated, Swept
  <2>1. at \in Nat
    BY DEF TaskInv, TypeInv
  <2> PICK E \in Nat : E = Date(at)
    BY <2>1, DateBounds
  <2>2. E * Day \in Nat /\ E * Day <= at
    BY <2>1, DateBounds, DaysApart
  <2>3. E * Day < at \/ E * Day = at
    BY <2>1, <2>2
  <2> QED
    BY <2>3 DEF SweepInv
<1> QED
  BY <1>1, <1>2, TaskAlways, SweepStep, PTL DEF Spec
=============================================================================
