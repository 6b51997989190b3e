----------------------------- MODULE Scheduler -----------------------------
(***************************************************************************)
(* The UTC scheduler and the attempt counter of App.Run around it, with    *)
(* the verdict that RunReport.finalize mails after each funding task       *)
(* (internal/scheduler/scheduler.go, internal/app app.go and runtime.go,   *)
(* internal/funding/report.go).  One process, one task at a time.  The     *)
(* wall clock counts units of time; the timer counts them down on its own, *)
(* so a clock that is set back makes it fire early.                        *)
(***************************************************************************)
EXTENDS Integers

CONSTANTS
  Day,               \* units in a day; consolidation is at its start
  FundingAt,         \* dailyRunHourUTC
  RetryDelay,        \* NonfatalRetryDelay
  MaxRetries,        \* MaxNonfatalRetries
  MaxConsolidation,  \* bound: units a consolidation takes
  MaxSetBack,        \* bound: units the clock is set back in all
  LastDay            \* bound: the clock stops at the end of this day

ASSUME SchedulerAssumption ==
  /\ Day \in Nat \ {0} /\ FundingAt \in 1..Day-1 /\ RetryDelay \in Nat \ {0}
  /\ MaxRetries \in Nat /\ MaxConsolidation \in Nat \ {0}
  /\ MaxSetBack \in Nat /\ LastDay \in Nat

VARIABLES
  now,          \* wall clock
  pc,           \* what the process does
  task, at,     \* the planned task and its time
  delay,        \* what the timer has left
  spent,        \* how long the running task has taken
  retries,      \* of Scheduler.Run
  attempt,      \* of App.Run
  report,       \* status of the report of the last funding task
  failed,       \* funding tasks that failed since one succeeded
  since,        \* when the scheduler took over
  consolidated, \* days whose consolidation was started
  funded,       \* days on which a funding task was started
  overrun,      \* times for a task that passed while another was unfinished
  setBack       \* units the clock was set back

timer   == <<task, at, delay>>
history == <<failed, since, consolidated, funded, overrun, setBack>>
vars    == <<now, pc, timer, spent, retries, attempt, report, history>>

MaxAttempts == MaxRetries + 1
Date(t)     == t \div Day
Midnight(t) == Date(t) * Day

Init ==
  /\ now \in 0..Day /\ pc = "boot" /\ task = "funding" /\ at = 0 /\ delay = 0 /\ spent = 0
  /\ retries = 0 /\ attempt = 1 /\ report = "none" /\ failed = 0 /\ since = now
  /\ consolidated = {} /\ funded = {} /\ overrun = {} /\ setBack = 0

-----------------------------------------------------------------------------
(* startRuntime: a recovery, or a run on start, that fails ends the        *)
(* process.                                                                *)
Boot ==
  /\ pc = "boot"
  /\ \/ pc' = "plan" /\ UNCHANGED report
     \/ pc' = "exited" /\ report' \in {"none", "critical"}
  /\ since' = now
  /\ UNCHANGED <<now, timer, spent, retries, attempt, failed, consolidated, funded, overrun,
                 setBack>>

(* Mutant: the hour of funding has passed as soon as it strikes.           *)
NextScheduledTaskStrict(t) ==
  IF t % Day = 0 THEN [task |-> "consolidation", at |-> t]
  ELSE IF t < Midnight(t) + FundingAt
       THEN [task |-> "funding", at |-> Midnight(t) + FundingAt]
       ELSE [task |-> "consolidation", at |-> Midnight(t) + Day]

(* Mutant: so has midnight.                                                *)
NextScheduledTaskAfter(t) ==
  IF t <= Midnight(t) + FundingAt
  THEN [task |-> "funding", at |-> Midnight(t) + FundingAt]
  ELSE [task |-> "consolidation", at |-> Midnight(t) + Day]

(* NextScheduledTaskUTC                                                    *)
NextScheduledTask(t) ==
  IF t % Day = 0 THEN [task |-> "consolidation", at |-> t]
  ELSE IF t <= Midnight(t) + FundingAt
       THEN [task |-> "funding", at |-> Midnight(t) + FundingAt]
       ELSE [task |-> "consolidation", at |-> Midnight(t) + Day]

(* Mutant: a retry does not take precedence over the plan of the day.      *)
PlanOfTheDay ==
  /\ pc = "plan"
  /\ LET next == NextScheduledTask(now)
     IN  task' = next.task /\ at' = next.at /\ delay' = next.at - now
  /\ pc' = "wait"
  /\ UNCHANGED <<now, spent, retries, attempt, report, history>>

Plan ==
  /\ pc = "plan"
  /\ LET next == IF retries > 0 THEN [task |-> "funding", at |-> now + RetryDelay]
                 ELSE NextScheduledTask(now)
     IN  task' = next.task /\ at' = next.at /\ delay' = next.at - now
  /\ pc' = "wait"
  /\ UNCHANGED <<now, spent, retries, attempt, report, history>>

StartConsolidation ==
  /\ pc = "wait" /\ delay = 0 /\ task = "consolidation"
  /\ pc' = "consolidate" /\ spent' = 0
  /\ consolidated' = consolidated \cup {Date(now)}
  /\ UNCHANGED <<now, timer, retries, attempt, report, failed, since, funded, overrun,
                 setBack>>

StartFunding ==
  /\ pc = "wait" /\ delay = 0 /\ task = "funding"
  /\ pc' = "fund" /\ spent' = 0 /\ report' = "none"
  /\ funded' = funded \cup {Date(now)}
  /\ UNCHANGED <<now, timer, retries, attempt, failed, since, consolidated, overrun, setBack>>

(* Whether it failed or not, the scheduler goes on.                        *)
EndConsolidation ==
  /\ pc = "consolidate" /\ spent > 0
  /\ pc' = "plan"
  /\ UNCHANGED <<now, timer, spent, retries, attempt, report, history>>

(* Mutant: the attempt of an earlier failure is kept.                      *)
FundedKeepsAttempt ==
  /\ pc = "fund" /\ spent > 0
  /\ pc' = "plan" /\ retries' = 0 /\ report' = "success" /\ failed' = 0
  /\ UNCHANGED <<now, timer, spent, attempt, since, consolidated, funded, overrun, setBack>>

Funded ==
  /\ pc = "fund" /\ spent > 0
  /\ pc' = "plan" /\ retries' = 0 /\ attempt' = 1 /\ report' = "success" /\ failed' = 0
  /\ UNCHANGED <<now, timer, spent, since, consolidated, funded, overrun, setBack>>

(* RunReport.finalize of a task that failed without being fatal            *)
Verdict == IF attempt < MaxAttempts THEN "retrying" ELSE "critical"

FundingFails ==
  /\ pc = "fund" /\ spent > 0
  /\ report' = Verdict /\ failed' = failed + 1
  /\ attempt' = IF attempt < MaxAttempts THEN attempt + 1 ELSE attempt
  /\ IF retries >= MaxRetries
     THEN pc' = "exited" /\ UNCHANGED retries
     ELSE pc' = "plan" /\ retries' = retries + 1
  /\ UNCHANGED <<now, timer, spent, since, consolidated, funded, overrun, setBack>>

FundingFatal ==
  /\ pc = "fund" /\ spent > 0
  /\ pc' = "exited" /\ report' = "critical"
  /\ UNCHANGED <<now, timer, spent, retries, attempt, history>>

(* The context is cancelled: no report.                                    *)
Cancel ==
  /\ pc \in {"plan", "wait", "consolidate", "fund"}
  /\ pc' = "exited" /\ report' = "none"
  /\ UNCHANGED <<now, timer, spent, retries, attempt, history>>

-----------------------------------------------------------------------------
(* Time: a timer that has run out fires.  The loops of a consolidation are *)
(* bounded and so is its time; a funding task waits for MySQL without a    *)
(* limit (Retryer.Do) and may go on for days.                              *)

(* What was begun before this moment and is not over, or is to be retried. *)
Unfinished ==
  {t \in {"consolidation", "funding"} :
     \/ t = "consolidation" /\ pc = "consolidate" /\ spent > 0
     \/ t = "funding" /\ (retries > 0 \/ (pc = "fund" /\ spent > 0))}

Tick ==
  /\ now < (LastDay + 1) * Day
  /\ \/ pc = "boot" /\ now < Day /\ UNCHANGED <<delay, spent>>
     \/ pc = "wait" /\ delay > 0 /\ delay' = delay - 1 /\ UNCHANGED spent
     \/ /\ pc = "fund" \/ (pc = "consolidate" /\ spent < MaxConsolidation)
        /\ spent' = spent + 1 /\ UNCHANGED delay
  /\ now' = now + 1
  /\ overrun' = IF now % Day \in {0, FundingAt} THEN overrun \cup ({now} \X Unfinished) ELSE overrun
  /\ UNCHANGED <<pc, task, at, retries, attempt, report, failed, since, consolidated, funded,
                 setBack>>

SetClockBack ==
  /\ pc \in {"wait", "consolidate", "fund"} /\ setBack < MaxSetBack /\ now > since
  /\ now' = now - 1 /\ setBack' = setBack + 1
  /\ UNCHANGED <<pc, timer, spent, retries, attempt, report, failed, since, consolidated,
                 funded, overrun>>

Next ==
  \/ Boot \/ Plan \/ StartConsolidation \/ EndConsolidation
  \/ StartFunding \/ Funded \/ FundingFails \/ FundingFatal \/ Cancel
  \/ Tick \/ SetClockBack

Spec == Init /\ [][Next]_vars

-----------------------------------------------------------------------------
(* The attempt that App.Run passes to a funding task, the retries that the *)
(* scheduler counts and the failures there were are the same number.       *)
AttemptsAgree ==
  pc = "fund" => attempt = retries + 1 /\ failed = retries

(* What the report announces is what happens: after "retrying" the service *)
(* does retry, after "critical" it has ended, and it ends for want of      *)
(* retries only after the last of them (finalize and Scheduler.Run decide  *)
(* this apart from each other).                                            *)
ReportIsTrue ==
  /\ report = "retrying" => pc # "exited" /\ retries > 0
  /\ report = "retrying" /\ pc = "wait" => task = "funding" /\ at <= now + RetryDelay + setBack
  /\ report = "critical" => pc = "exited"

(* When the scheduler waits for a consolidation, the day before it had its *)
(* funding task, if the process was up at its hour, whatever failed on     *)
(* that day and however the clock was set back.  The only excuse is a      *)
(* funding task of an earlier day that was still going on, or still to be  *)
(* retried, at that hour: a failed or slow consolidation is none           *)
(* (docs/operations.md: the midnight task does not hold up the one at      *)
(* 01:00).                                                                 *)
EveryDayFunded ==
  pc = "wait" /\ task = "consolidation" =>
    LET day == Date(at) - 1
        hour == day * Day + FundingAt
    IN  day \in funded \/ since > hour \/ <<hour, "funding">> \in overrun

(* When the scheduler waits for the funding task of a day, the             *)
(* consolidation of that day was started, if the process was up at         *)
(* midnight, however the clock was set back.  The only excuse is a task    *)
(* begun before midnight that was not over then: a funding task of the day *)
(* before, or one that waits for its retry, or a consolidation started     *)
(* early by a clock that was set back.                                     *)
EveryDayConsolidated ==
  pc = "wait" /\ task = "funding" /\ retries = 0 =>
    LET day == Date(at)
    IN  \/ day \in consolidated \/ since > day * Day
        \/ \E t \in {"consolidation", "funding"} : <<day * Day, t>> \in overrun
=============================================================================
