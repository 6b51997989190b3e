----------------------------- MODULE RateLimit -----------------------------
(***************************************************************************)
(* The look at the request quotas of the controlled accounts that ends     *)
(* every funding task and every consolidation, and the latch that keeps    *)
(* one incident from being mailed twice (internal/funding/rate_limit.go).  *)
(* The exchange counts the requests of a task; its index may still show    *)
(* any count since the task began, and a lost request is not counted.  A   *)
(* payout that was left open, by a failure or by a crash, is taken up by   *)
(* the next task, which knows from its journal that it may have been sent. *)
(***************************************************************************)
EXTENDS Integers

CONSTANTS
  Accounts,      \* builders and settlement account
  Journaled,     \* those whose submissions the saved run tells: the settlement account
  Threshold,     \* userRateLimitAlertThreshold
  Window,        \* userRateLimitVisibilityActionWindow
  Attempts,      \* userRateLimitVisibilityAttempts
  Burst,         \* requests an account sends in one task, or in a run and what takes it up
  Quotas,        \* quotas before the first task
  Gains,         \* quota an account may gain between two tasks
  MaxQuota,      \* bound: no gain above this quota
  MaxTasks       \* bound: tasks started

NoAccount == "none"

ASSUME RateLimitAssumption ==
  /\ Journaled \subseteq Accounts /\ NoAccount \notin Accounts
  /\ Threshold \in Nat /\ Window \in Nat /\ Attempts \in Nat \ {0}
  /\ Burst \in Nat /\ Burst <= Window
  /\ Quotas \subseteq Nat /\ Gains \subseteq Nat /\ MaxQuota \in Nat /\ MaxTasks \in Nat

VARIABLES
  pc,        \* "idle", "task", "observe"
  tasks,     \* tasks started
  open,      \* is there a saved run to take up?
  sent,      \* requests of each account in this task
  todo,      \* accounts still to be observed
  obs,       \* the account whose quota is read again, and its lowest value
  verdict,   \* what the report says of each account
  lowLimits, \* accounts whose incident was mailed
  standing,  \* mails since an account was last healthy, in this process
  quota,     \* requests an account has left
  before     \* what it had when the task began

vars == <<pc, tasks, open, sent, todo, obs, verdict, lowLimits, standing, quota, before>>

NoObs == [account |-> NoAccount, remaining |-> 0, attempts |-> 0]

Init ==
  /\ pc = "idle" /\ tasks = 0 /\ open = FALSE /\ todo = {} /\ obs = NoObs
  /\ sent = [a \in Accounts |-> 0] /\ verdict = [a \in Accounts |-> "none"]
  /\ lowLimits = {} /\ standing = [a \in Accounts |-> 0]
  /\ quota \in [Accounts -> Quotas] /\ before = quota

-----------------------------------------------------------------------------
(* The task                                                                *)

TakenUp(a) == open /\ a \in Journaled

(* Mutant: only requests of this very process count as submitted.          *)
StartTaskAfresh ==
  /\ pc = "idle" /\ tasks < MaxTasks
  /\ pc' = "task" /\ tasks' = tasks + 1
  /\ sent' = [a \in Accounts |-> 0]
  /\ before' = [a \in Accounts |-> IF TakenUp(a) THEN before[a] ELSE quota[a]]
  /\ verdict' = [a \in Accounts |-> "none"]
  /\ UNCHANGED <<open, todo, obs, lowLimits, standing, quota>>

(* markRecoveredPayoutSubmission                                           *)
StartTask ==
  /\ pc = "idle" /\ tasks < MaxTasks
  /\ pc' = "task" /\ tasks' = tasks + 1
  /\ sent' = [a \in Accounts |-> IF TakenUp(a) THEN sent[a] ELSE 0]
  /\ before' = [a \in Accounts |-> IF TakenUp(a) THEN before[a] ELSE quota[a]]
  /\ verdict' = [a \in Accounts |-> "none"]
  /\ UNCHANGED <<open, todo, obs, lowLimits, standing, quota>>

(* markSubmitted: the request is counted or lost.                          *)
Submit(a) ==
  /\ pc = "task" /\ sent[a] < Burst
  /\ sent' = [sent EXCEPT ![a] = @ + 1]
  /\ \/ UNCHANGED quota
     \/ quota' = [quota EXCEPT ![a] = IF @ = 0 THEN 0 ELSE @ - 1]
  /\ UNCHANGED <<pc, tasks, open, todo, obs, verdict, lowLimits, standing, before>>

(* A failed task leaves its run open; a cancelled one is not followed by   *)
(* an observation.                                                         *)
EndTask ==
  /\ pc = "task" /\ open' \in BOOLEAN
  /\ \/ pc' = "observe" /\ todo' = Accounts
     \/ pc' = "idle" /\ UNCHANGED todo
  /\ UNCHANGED <<tasks, sent, obs, verdict, lowLimits, standing, quota, before>>

-----------------------------------------------------------------------------
(* observeUserRateLimits                                                   *)

Reads(a) == quota[a]..before[a]

(* Mutant: the account stays in the latch for good.                        *)
UpdateRateLimitAlertForGood(a, atRisk) ==
  /\ lowLimits' = IF atRisk THEN lowLimits \cup {a} ELSE lowLimits
  /\ standing' = [standing EXCEPT ![a] =
                    IF ~atRisk THEN 0 ELSE IF a \in lowLimits THEN @ ELSE @ + 1]

(* updateRateLimitAlert, and the mail when it returns true.                *)
UpdateRateLimitAlert(a, atRisk) ==
  /\ lowLimits' = IF atRisk THEN lowLimits \cup {a} ELSE lowLimits \ {a}
  /\ standing' = [standing EXCEPT ![a] =
                    IF ~atRisk THEN 0 ELSE IF a \in lowLimits THEN @ ELSE @ + 1]

Observed(a, remaining, unconfirmed) ==
  LET low == remaining < Threshold
  IN  /\ verdict' = [verdict EXCEPT ![a] = IF low THEN "low"
                       ELSE IF unconfirmed THEN "unconfirmed" ELSE "healthy"]
      /\ UpdateRateLimitAlert(a, low \/ unconfirmed)
      /\ todo' = todo \ {a} /\ obs' = NoObs

(* rateLimitNeedsVisibilityConfirmation                                    *)
NeedsVisibilityConfirmation(remaining) ==
  remaining >= Threshold /\ remaining < Threshold + Window

QueryError(a) ==
  /\ pc = "observe" /\ obs = NoObs /\ a \in todo
  /\ verdict' = [verdict EXCEPT ![a] = "failed"]
  /\ todo' = todo \ {a}
  /\ UNCHANGED <<pc, tasks, open, sent, obs, lowLimits, standing, quota, before>>

FirstRead(a) ==
  /\ pc = "observe" /\ obs = NoObs /\ a \in todo
  /\ \E remaining \in Reads(a) :
       IF sent[a] > 0 /\ NeedsVisibilityConfirmation(remaining)
       THEN /\ obs' = [account |-> a, remaining |-> remaining, attempts |-> 1]
            /\ UNCHANGED <<todo, verdict, lowLimits, standing>>
       ELSE Observed(a, remaining, FALSE)
  /\ UNCHANGED <<pc, tasks, open, sent, quota, before>>

(* Mutant: one read too many.                                              *)
NextReadOnceMore(a) ==
  /\ pc = "observe" /\ obs.account = a /\ obs.attempts <= Attempts
  /\ \E r \in Reads(a) :
       LET remaining == IF r < obs.remaining THEN r ELSE obs.remaining
       IN  IF remaining < Threshold THEN Observed(a, remaining, FALSE)
           ELSE /\ obs' = [obs EXCEPT !.remaining = remaining, !.attempts = @ + 1]
                /\ UNCHANGED <<todo, verdict, lowLimits, standing>>
  /\ UNCHANGED <<pc, tasks, open, sent, quota, before>>

(* The quota is near the threshold: it is read again until it is below,    *)
(* and never believed.                                                     *)
NextRead(a) ==
  /\ pc = "observe" /\ obs.account = a /\ obs.attempts < Attempts
  /\ \E r \in Reads(a) :
       LET remaining == IF r < obs.remaining THEN r ELSE obs.remaining
       IN  IF remaining < Threshold THEN Observed(a, remaining, FALSE)
           ELSE /\ obs' = [obs EXCEPT !.remaining = remaining, !.attempts = @ + 1]
                /\ UNCHANGED <<todo, verdict, lowLimits, standing>>
  /\ UNCHANGED <<pc, tasks, open, sent, quota, before>>

NextReadError(a) ==
  /\ pc = "observe" /\ obs.account = a /\ obs.attempts < Attempts
  /\ Observed(a, obs.remaining, TRUE)
  /\ UNCHANGED <<pc, tasks, open, sent, quota, before>>

ReadsExhausted(a) ==
  /\ pc = "observe" /\ obs.account = a /\ obs.attempts >= Attempts
  /\ Observed(a, obs.remaining, TRUE)
  /\ UNCHANGED <<pc, tasks, open, sent, quota, before>>

EndObservation ==
  /\ pc = "observe" /\ todo = {}
  /\ pc' = "idle"
  /\ UNCHANGED <<tasks, open, sent, todo, obs, verdict, lowLimits, standing, quota, before>>

-----------------------------------------------------------------------------
(* The world                                                               *)

Gain ==
  /\ pc = "idle"
  /\ \E a \in Accounts, g \in Gains :
       /\ quota[a] + g <= MaxQuota
       /\ quota' = [quota EXCEPT ![a] = @ + g] /\ before' = [before EXCEPT ![a] = @ + g]
  /\ UNCHANGED <<pc, tasks, open, sent, todo, obs, verdict, lowLimits, standing>>

(* The process ends and is started again.                                  *)
Restart ==
  /\ pc' = "idle" /\ todo' = {} /\ obs' = NoObs
  /\ open' \in IF pc = "task" THEN BOOLEAN ELSE {open}
  /\ verdict' = [a \in Accounts |-> "none"]
  /\ lowLimits' = {} /\ standing' = [a \in Accounts |-> 0]
  /\ UNCHANGED <<tasks, sent, quota, before>>

Next ==
  \/ StartTask \/ EndTask \/ EndObservation \/ Gain \/ Restart
  \/ \E a \in Accounts :
       \/ Submit(a) \/ QueryError(a) \/ FirstRead(a) \/ NextRead(a)
       \/ NextReadError(a) \/ ReadsExhausted(a)

Spec == Init /\ [][Next]_vars

-----------------------------------------------------------------------------
(* Every variable has the shape the code gives it.                         *)
TypeOK ==
  /\ pc \in {"idle", "task", "observe"} /\ tasks \in Nat /\ open \in BOOLEAN
  /\ sent \in [Accounts -> 0..Burst] /\ todo \subseteq Accounts
  /\ obs = NoObs \/ obs \in [account : todo, remaining : Nat, attempts : 1..Attempts]
  /\ verdict \in [Accounts -> {"none", "failed", "low", "unconfirmed", "healthy"}]
  /\ lowLimits \subseteq Accounts /\ standing \in [Accounts -> Nat]
  /\ quota \in [Accounts -> Nat] /\ before \in [Accounts -> Nat]

(* An account the report calls healthy has at least the threshold left,    *)
(* although the index may show a count from before the requests of the     *)
(* task, or of a task before the crash: the window is as wide as a burst   *)
(* (observeUserRateLimit, markRecoveredPayoutSubmission).                  *)
HealthyIsHealthy ==
  \A a \in Accounts : verdict[a] = "healthy" => quota[a] >= Threshold

(* An account at risk has been mailed exactly once since it was last found *)
(* healthy, over any number of tasks and retries; a failed query neither   *)
(* ends nor repeats an incident (updateRateLimitAlert).                    *)
RiskIsMailedOnce ==
  \A a \in Accounts :
    /\ standing[a] <= 1
    /\ verdict[a] \in {"low", "unconfirmed"} => standing[a] = 1
    /\ verdict[a] = "healthy" => standing[a] = 0
=============================================================================
