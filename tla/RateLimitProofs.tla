-------------------------- MODULE RateLimitProofs --------------------------
(***************************************************************************)
(* For every number of accounts, threshold and window: what the report     *)
(* calls healthy is healthy, and an incident is mailed once.               *)
(***************************************************************************)
EXTENDS RateLimit, TLAPS

(* What the index may show lies between the quota and the quota plus the   *)
(* requests that may not be counted yet.                                   *)
IndexInv == \A a \in Accounts : quota[a] <= before[a] /\ before[a] <= quota[a] + sent[a]

(* The latch tells whether the current incident was mailed, and the report *)
(* of the last observation agrees with it.                                 *)
LatchInv ==
  \A a \in Accounts :
    /\ standing[a] = IF a \in lowLimits THEN 1 ELSE 0
    /\ verdict[a] \in {"low", "unconfirmed"} => a \in lowLimits
    /\ verdict[a] = "healthy" => a \notin lowLimits

(* A task has no verdict while it still sends requests.                    *)
FreshInv == pc = "task" => \A a \in Accounts : verdict[a] = "none"

Inv == TypeOK /\ IndexInv /\ LatchInv /\ FreshInv /\ HealthyIsHealthy

(* The mails that stand follow from the latch.                             *)
LEMMA LatchGivesMail == LatchInv => RiskIsMailedOnce
<1> SUFFICES ASSUME LatchInv, NEW a \in Accounts
             PROVE  /\ standing[a] <= 1
                    /\ verdict[a] \in {"low", "unconfirmed"} => standing[a] = 1
                    /\ verdict[a] = "healthy" => standing[a] = 0
  BY DEF RiskIsMailedOnce
<1>1. CASE a \in lowLimits BY <1>1 DEF LatchInv
<1>2. CASE a \notin lowLimits BY <1>2 DEF LatchInv
<1> QED BY <1>1, <1>2

LEMMA InitInv == Init => Inv
<1> SUFFICES ASSUME Init PROVE Inv
  OBVIOUS
<1> USE RateLimitAssumption DEF Init
<1>1. TypeOK
  <2>1. quota \in [Accounts -> Nat] /\ before \in [Accounts -> Nat] OBVIOUS
  <2>2. sent \in [Accounts -> 0..Burst] /\ standing \in [Accounts -> Nat] OBVIOUS
  <2>3. verdict \in [Accounts -> {"none", "failed", "low", "unconfirmed", "healthy"}] OBVIOUS
  <2> QED BY <2>1, <2>2, <2>3 DEF TypeOK
<1>2. IndexInv
  <2> SUFFICES ASSUME NEW a \in Accounts
               PROVE quota[a] <= before[a] /\ before[a] <= quota[a] + sent[a]
    BY DEF IndexInv
  <2>1. quota[a] \in Nat /\ before[a] = quota[a] /\ sent[a] = 0 OBVIOUS
  <2> QED BY <2>1
<1>3. LatchInv BY DEF LatchInv
<1>4. FreshInv /\ HealthyIsHealthy BY DEF FreshInv, HealthyIsHealthy
<1> QED BY <1>1, <1>2, <1>3, <1>4 DEF Inv

(* The verdict on one account, given that a healthy one is warranted.      *)
LEMMA ObservedInv ==
  ASSUME Inv, NEW a \in Accounts, a \in todo, NEW r \in Nat, NEW u \in BOOLEAN,
         pc = "observe", Observed(a, r, u),
         (r >= Threshold /\ ~u) => quota[a] >= Threshold,
         UNCHANGED <<pc, tasks, open, sent, quota, before>>
  PROVE  Inv'
<1> DEFINE low == r < Threshold
<1> USE RateLimitAssumption
<1>0. /\ verdict' = [verdict EXCEPT ![a] = IF low THEN "low" ELSE IF u THEN "unconfirmed" ELSE "healthy"]
      /\ lowLimits' = IF low \/ u THEN lowLimits \cup {a} ELSE lowLimits \ {a}
      /\ standing' = [standing EXCEPT ![a] =
                    IF ~(low \/ u) THEN 0 ELSE IF a \in lowLimits THEN @ ELSE @ + 1]
      /\ todo' = todo \ {a} /\ obs' = NoObs
  BY DEF Observed, UpdateRateLimitAlert
<1>1. TypeOK'
  <2>1. standing[a] \in Nat BY DEF Inv, TypeOK
  <2>2. standing' \in [Accounts -> Nat]
    BY <1>0, <2>1 DEF Inv, TypeOK
  <2>3. verdict' \in [Accounts -> {"none", "failed", "low", "unconfirmed", "healthy"}]
    BY <1>0 DEF Inv, TypeOK
  <2> QED BY <1>0, <2>2, <2>3 DEF Inv, TypeOK
<1>2. IndexInv' BY DEF Inv, IndexInv
<1>3. LatchInv'
  <2> SUFFICES ASSUME NEW b \in Accounts
               PROVE /\ standing'[b] = IF b \in lowLimits' THEN 1 ELSE 0
                     /\ verdict'[b] \in {"low", "unconfirmed"} => b \in lowLimits'
                     /\ verdict'[b] = "healthy" => b \notin lowLimits'
    BY DEF LatchInv
  <2>1. CASE b = a BY <2>1, <1>0 DEF Inv, TypeOK, LatchInv
  <2>2. CASE b # a BY <2>2, <1>0 DEF Inv, TypeOK, LatchInv
  <2> QED BY <2>1, <2>2
<1>4. FreshInv' BY DEF FreshInv
<1>5. HealthyIsHealthy'
  BY <1>0 DEF Inv, TypeOK, HealthyIsHealthy
<1> QED BY <1>1, <1>2, <1>3, <1>4, <1>5 DEF Inv

LEMMA NextInv == Inv /\ [Next]_vars => Inv'
<1> SUFFICES ASSUME Inv, [Next]_vars PROVE Inv'
  OBVIOUS
<1> USE RateLimitAssumption
<1>1. CASE StartTask
  <2>1. TypeOK' BY <1>1 DEF Inv, TypeOK, StartTask
  <2>2. IndexInv' BY <1>1 DEF Inv, TypeOK, IndexInv, StartTask
  <2> QED BY <2>1, <2>2, <1>1 DEF Inv, TypeOK, LatchInv, FreshInv, HealthyIsHealthy, StartTask
<1>2. CASE EndTask
  <2>1. TypeOK' BY <1>2 DEF Inv, TypeOK, EndTask, NoObs
  <2> QED BY <2>1, <1>2 DEF Inv, IndexInv, LatchInv, FreshInv, HealthyIsHealthy, EndTask
<1>3. CASE EndObservation
  BY <1>3 DEF Inv, TypeOK, IndexInv, LatchInv, FreshInv, HealthyIsHealthy, EndObservation
<1>4. CASE Gain
  <2>1. PICK a \in Accounts, g \in Gains :
          quota' = [quota EXCEPT ![a] = @ + g] /\ before' = [before EXCEPT ![a] = @ + g]
    BY <1>4 DEF Gain
  <2>2. g \in Nat BY <2>1
  <2>3. TypeOK' BY <1>4, <2>1, <2>2 DEF Inv, TypeOK, Gain
  <2>4. IndexInv' BY <1>4, <2>1, <2>2 DEF Inv, TypeOK, IndexInv, Gain
  <2>5. HealthyIsHealthy' BY <1>4, <2>1, <2>2 DEF Inv, TypeOK, HealthyIsHealthy, Gain
  <2> QED BY <2>3, <2>4, <2>5, <1>4 DEF Inv, LatchInv, FreshInv, Gain
<1>5. CASE Restart
  <2>1. TypeOK' BY <1>5 DEF Inv, TypeOK, Restart
  <2> QED BY <2>1, <1>5 DEF Inv, TypeOK, IndexInv, LatchInv, FreshInv, HealthyIsHealthy, Restart
<1>6. ASSUME NEW a \in Accounts, Submit(a) PROVE Inv'
  <2>1. TypeOK' BY <1>6 DEF Inv, TypeOK, Submit
  <2>2. IndexInv' BY <1>6 DEF Inv, TypeOK, IndexInv, Submit
  <2>3. HealthyIsHealthy' BY <1>6 DEF Inv, TypeOK, FreshInv, HealthyIsHealthy, Submit
  <2> QED BY <2>1, <2>2, <2>3, <1>6 DEF Inv, LatchInv, FreshInv, Submit
<1>7. ASSUME NEW a \in Accounts, QueryError(a) PROVE Inv'
  <2>1. TypeOK' BY <1>7 DEF Inv, TypeOK, QueryError
  <2> QED BY <2>1, <1>7 DEF Inv, TypeOK, IndexInv, LatchInv, FreshInv, HealthyIsHealthy, QueryError
<1>8. ASSUME NEW a \in Accounts, FirstRead(a) PROVE Inv'
  <2>1. PICK r \in Reads(a) :
          IF sent[a] > 0 /\ NeedsVisibilityConfirmation(r)
          THEN /\ obs' = [account |-> a, remaining |-> r, attempts |-> 1]
               /\ UNCHANGED <<todo, verdict, lowLimits, standing>>
          ELSE Observed(a, r, FALSE)
    BY <1>8 DEF FirstRead
  <2>2. r \in Nat /\ r >= quota[a] /\ r <= before[a]
    BY DEF Inv, TypeOK, Reads
  <2>3. CASE sent[a] > 0 /\ NeedsVisibilityConfirmation(r)
    <3>1. obs' \in [account : todo', remaining : Nat, attempts : 1..Attempts]
      <4>1. a \in todo BY <1>8 DEF FirstRead
      <4>2. 1 \in 1..Attempts OBVIOUS
      <4>3. obs' = [account |-> a, remaining |-> r, attempts |-> 1] /\ todo' = todo
        BY <2>1, <2>3
      <4> QED BY <4>1, <4>2, <4>3, <2>2
    <3>2. TypeOK' BY <1>8, <2>1, <2>3, <3>1 DEF Inv, TypeOK, FirstRead
    <3> QED BY <3>2, <1>8, <2>1, <2>3 DEF Inv, IndexInv, LatchInv, FreshInv, HealthyIsHealthy, FirstRead
  <2>4. CASE ~(sent[a] > 0 /\ NeedsVisibilityConfirmation(r))
    <3>1. r >= Threshold => quota[a] >= Threshold
      BY <2>2, <2>4 DEF Inv, TypeOK, IndexInv, NeedsVisibilityConfirmation
    <3> QED BY <3>1, <2>1, <2>2, <2>4, <1>8, ObservedInv DEF FirstRead
  <2> QED BY <2>3, <2>4
<1>9. ASSUME NEW a \in Accounts, obs.account = a
      PROVE  a \in todo /\ obs.remaining \in Nat /\ obs.attempts \in 1..Attempts
  BY <1>9 DEF Inv, TypeOK, NoObs
<1>10. ASSUME NEW a \in Accounts, NextRead(a) PROVE Inv'
  <2>1. pc = "observe" /\ obs.account = a /\ obs.attempts < Attempts
        /\ UNCHANGED <<pc, tasks, open, sent, quota, before>>
    BY <1>10 DEF NextRead
  <2>2. PICK r \in Reads(a) :
          LET remaining == IF r < obs.remaining THEN r ELSE obs.remaining
          IN  IF remaining < Threshold THEN Observed(a, remaining, FALSE)
              ELSE /\ obs' = [obs EXCEPT !.remaining = remaining, !.attempts = @ + 1]
                   /\ UNCHANGED <<todo, verdict, lowLimits, standing>>
    BY <1>10 DEF NextRead
  <2> DEFINE m == IF r < obs.remaining THEN r ELSE obs.remaining
  <2>3. a \in todo /\ obs.remaining \in Nat /\ obs.attempts \in 1..Attempts
    BY <1>9, <2>1
  <2>4. m \in Nat BY <2>3 DEF Inv, TypeOK, Reads
  <2>5. CASE m < Threshold
    <3>1. Observed(a, m, FALSE) BY <2>2, <2>5
    <3> HIDE DEF m
    <3>2. ~(m >= Threshold) BY <2>4, <2>5
    <3> QED BY <3>1, <3>2, <2>1, <2>3, <2>4, ObservedInv, Zenon
  <2>6. CASE ~(m < Threshold)
    <3>1. obs' = [obs EXCEPT !.remaining = m, !.attempts = @ + 1]
          /\ UNCHANGED <<todo, verdict, lowLimits, standing>>
      BY <2>2, <2>6
    <3>2. obs \in [account : todo, remaining : Nat, attempts : 1..Attempts]
      BY <2>1, <2>3 DEF Inv, TypeOK, NoObs
    <3>3. obs' \in [account : todo', remaining : Nat, attempts : 1..Attempts]
      <4> HIDE DEF m
      <4>1. obs.attempts + 1 \in 1..Attempts BY <2>1, <2>3
      <4> QED BY <3>1, <3>2, <4>1, <2>4
    <3>4. TypeOK' BY <3>1, <3>3, <2>1 DEF Inv, TypeOK
    <3> QED BY <3>1, <3>4, <2>1 DEF Inv, IndexInv, LatchInv, FreshInv, HealthyIsHealthy
  <2> QED BY <2>5, <2>6
<1>11. ASSUME NEW a \in Accounts, NextReadError(a) \/ ReadsExhausted(a) PROVE Inv'
  <2>1. /\ pc = "observe" /\ obs.account = a /\ Observed(a, obs.remaining, TRUE)
        /\ UNCHANGED <<pc, tasks, open, sent, quota, before>>
    BY <1>11 DEF NextReadError, ReadsExhausted
  <2> QED BY <2>1, <1>9, ObservedInv
<1>12. CASE UNCHANGED vars
  BY <1>12 DEF vars, Inv, TypeOK, IndexInv, LatchInv, FreshInv, HealthyIsHealthy
<1> QED
  BY <1>1, <1>2, <1>3, <1>4, <1>5, <1>6, <1>7, <1>8, <1>10, <1>11, <1>12 DEF Next

(* Counts, verdicts and the standing mails keep their types through every  *)
(* task, retry and failed query (observeUserRateLimits).                   *)
THEOREM RateLimitTypeCorrect == Spec => []TypeOK
<1>1. Inv => TypeOK BY DEF Inv
<1> QED BY InitInv, NextInv, <1>1, PTL DEF Spec

(* An account the report of a task calls healthy has at least the          *)
(* threshold left, whatever stale count the index showed, for every        *)
(* threshold and every window as wide as a burst (observeUserRateLimit).   *)
THEOREM HealthyIsTrue == Spec => []HealthyIsHealthy
<1>1. Inv => HealthyIsHealthy BY DEF Inv
<1> QED BY InitInv, NextInv, <1>1, PTL DEF Spec

(* An account at risk is mailed once per incident, over tasks, retries and *)
(* failed queries (updateRateLimitAlert).                                  *)
THEOREM IncidentIsMailedOnce == Spec => []RiskIsMailedOnce
<1>1. Inv => RiskIsMailedOnce BY LatchGivesMail DEF Inv
<1> QED BY InitInv, NextInv, <1>1, PTL DEF Spec
=============================================================================
