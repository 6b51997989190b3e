------------------------ MODULE ConsolidationProofs ------------------------
(***************************************************************************)
(* Proofs about the 00:00 consolidation, for any number of builders, any   *)
(* bounds of its loops and any number of runs, crashes and late requests.  *)
(* RecordInv ties the claims of a date to its record; for one builder,     *)
(* ClaimInv follows the claim from its eligibility to the claimed reward,  *)
(* FlightInv the sweeps of this run that are still on their way, and       *)
(* TellInv what the report says of them.  A step of one builder leaves the *)
(* others alone (the ...Frame lemmas), so each part is proved for the      *)
(* builder that moves.                                                     *)
(***************************************************************************)
EXTENDS Consolidation, TLAPS

USE ConsolidationAssumption

-----------------------------------------------------------------------------
(* Types                                                                   *)

LEMMA Blank ==
  /\ All(NoLoop) \in [Builders -> Loops] /\ NoSweep \in Sweeps
  /\ All("none") \in [Builders -> Replies] /\ All(Pending) \in [Builders -> Reports]
  /\ All(NoBase) \in [Builders -> Bases] /\ All(NoClaim) \in [Builders -> Targets]
  /\ All(NoFloor) \in [Builders -> Floors] /\ All(0) \in [Builders -> Nat]
BY DEF All, NoLoop, Loops, NoSweep, Sweeps, Replies, Pending, Reports, Status, NoBase, Bases,
       NoClaim, Targets, NoFloor, Floors, Unseen

(* What a value of a type is made of, and what it may become.              *)
LEMMA ReportUpdate ==
  ASSUME NEW r \in [Builders -> Reports], NEW b \in Builders, NEW s \in Status
  PROVE  /\ \A n \in Nat : [r EXCEPT ![b].claimable = n] \in [Builders -> Reports]
         /\ [r EXCEPT ![b].claim = s] \in [Builders -> Reports]
         /\ [r EXCEPT ![b].uncertain = TRUE] \in [Builders -> Reports]
         /\ [r EXCEPT ![b].uncertain = FALSE, ![b].claim = s] \in [Builders -> Reports]
         /\ [r EXCEPT ![b].sweep = s, ![b].claim = s] \in [Builders -> Reports]
         /\ \A n \in Nat : [r EXCEPT ![b].sweep = s, ![b].amount = @ + n] \in [Builders -> Reports]
<1>1. ASSUME NEW x \in Reports PROVE [r EXCEPT ![b] = x] \in [Builders -> Reports]
  OBVIOUS
<1>2. r[b] \in Reports
  OBVIOUS
<1>3. ASSUME NEW n \in Nat PROVE [r EXCEPT ![b].claimable = n] \in [Builders -> Reports]
  <2>1. [r[b] EXCEPT !.claimable = n] \in Reports
    BY <1>2 DEF Reports
  <2> QED
    BY <1>1, <2>1
<1>4. [r EXCEPT ![b].claim = s] \in [Builders -> Reports]
  <2>1. [r[b] EXCEPT !.claim = s] \in Reports
    BY <1>2 DEF Reports
  <2> QED
    BY <1>1, <2>1
<1>5. [r EXCEPT ![b].uncertain = TRUE] \in [Builders -> Reports]
  <2>1. [r[b] EXCEPT !.uncertain = TRUE] \in Reports
    BY <1>2 DEF Reports
  <2> QED
    BY <1>1, <2>1
<1>6. [r EXCEPT ![b].uncertain = FALSE, ![b].claim = s] \in [Builders -> Reports]
  <2>1. [r[b] EXCEPT !.uncertain = FALSE, !.claim = s] \in Reports
    BY <1>2 DEF Reports
  <2>2. [r EXCEPT ![b].uncertain = FALSE, ![b].claim = s]
          = [r EXCEPT ![b] = [r[b] EXCEPT !.uncertain = FALSE, !.claim = s]]
    OBVIOUS
  <2> QED
    BY <1>1, <2>1, <2>2
<1>7. [r EXCEPT ![b].sweep = s, ![b].claim = s] \in [Builders -> Reports]
  <2>1. [r[b] EXCEPT !.sweep = s, !.claim = s] \in Reports
    BY <1>2 DEF Reports
  <2>2. [r EXCEPT ![b].sweep = s, ![b].claim = s]
          = [r EXCEPT ![b] = [r[b] EXCEPT !.sweep = s, !.claim = s]]
    OBVIOUS
  <2> QED
    BY <1>1, <2>1, <2>2
<1>8. ASSUME NEW n \in Nat
      PROVE  [r EXCEPT ![b].sweep = s, ![b].amount = @ + n] \in [Builders -> Reports]
  <2>0. r[b].amount + n \in Nat
    BY <1>2 DEF Reports
  <2>1. [r[b] EXCEPT !.sweep = s, !.amount = r[b].amount + n] \in Reports
    BY <1>2, <2>0 DEF Reports
  <2>2. [r[b] EXCEPT !.sweep = s].amount = r[b].amount
    BY <1>2 DEF Reports
  <2>3. [r EXCEPT ![b].sweep = s, ![b].amount = @ + n]
          = [r EXCEPT ![b] = [r[b] EXCEPT !.sweep = s, !.amount = r[b].amount + n]]
    BY <1>2, <2>2
  <2> QED
    BY <1>1, <2>1, <2>3
<1> QED
  BY <1>3, <1>4, <1>5, <1>6, <1>7, <1>8

LEMMA LoopUpdate ==
  ASSUME NEW l \in [Builders -> Loops], NEW b \in Builders
  PROVE  /\ [l EXCEPT ![b] = [NoLoop EXCEPT !.tries = l[b].tries + 1]] \in [Builders -> Loops]
         /\ [l EXCEPT ![b] = NoLoop] \in [Builders -> Loops]
         /\ \A s, t, a \in Nat :
              [l EXCEPT ![b] = [tries |-> l[b].tries + 1, stable |-> s, total |-> t, avail |-> a]]
                \in [Builders -> Loops]
BY DEF Loops, NoLoop

LEMMA ReadTypes ==
  ASSUME TypeOK, NEW b \in Builders, NEW i \in Reads(b)
  PROVE  /\ wallet[b][i] \in Nat
         /\ [seen EXCEPT ![b] = i] \in [Builders -> Nat]
         /\ \A c \in Builders : [seen EXCEPT ![b] = i][c] \in 1..Len(wallet[c])
<1>1. wallet[b] \in Seq(Nat) /\ seen \in [Builders -> Nat] /\ seen[b] \in 1..Len(wallet[b])
      /\ \A c \in Builders : seen[c] \in 1..Len(wallet[c])
  BY DEF TypeOK
<1>2. i \in 1..Len(wallet[b])
  BY <1>1 DEF Reads
<1> QED
  BY <1>1, <1>2

LEMMA StableType ==
  ASSUME NEW l \in Loops, NEW t \in Nat, NEW a \in Nat PROVE Stable(l, t, a) \in Nat \ {0}
BY DEF Stable, Loops

LEMMA TotalType ==
  ASSUME TypeOK, NEW b \in Builders
  PROVE  /\ Total(b) \in Nat
         /\ \A n \in Nat :
              /\ [wallet EXCEPT ![b] = Append(@, n)] \in [Builders -> Seq(Nat)]
              /\ \A c \in Builders : seen[c] \in 1..Len([wallet EXCEPT ![b] = Append(@, n)][c])
<1>1. wallet \in [Builders -> Seq(Nat)] /\ \A c \in Builders : seen[c] \in 1..Len(wallet[c])
  BY DEF TypeOK
<1>2. Total(b) \in Nat
  BY <1>1 DEF Total
<1>3. ASSUME NEW n \in Nat
      PROVE  /\ [wallet EXCEPT ![b] = Append(@, n)] \in [Builders -> Seq(Nat)]
             /\ \A c \in Builders : seen[c] \in 1..Len([wallet EXCEPT ![b] = Append(@, n)][c])
  <2>1. [wallet EXCEPT ![b] = Append(@, n)] = [wallet EXCEPT ![b] = Append(wallet[b], n)]
    BY <1>1
  <2>2. Append(wallet[b], n) \in Seq(Nat) /\ Len(Append(wallet[b], n)) = Len(wallet[b]) + 1
    BY <1>1
  <2> QED
    BY <1>1, <2>1, <2>2
<1> QED
  BY <1>2, <1>3

LEMMA PhaseTypes ==
  ASSUME TypeOK,
         Start \/ TokenFound \/ TokenError \/ EndCapture \/ SaveCaptured \/ EndBaseline
         \/ EndClaim \/ EndObserve \/ EndSweep \/ SaveCompleted \/ Crash
  PROVE  TypeOK'
<1> USE Blank DEF TypeOK, Enter
<1>1. CASE Start
  <2>1. scheduled' \in BOOLEAN
    BY <1>1 DEF Start
  <2>2. run' \in Nat
    BY <1>1 DEF Start
  <2> QED
    BY <1>1, <2>1, <2>2 DEF Start, report
<1>2. CASE TokenFound
  BY <1>2 DEF TokenFound, report, money
<1>3. CASE EndCapture
  BY <1>3 DEF EndCapture, report, money
<1>4. CASE SaveCaptured
  <2>1. Recorded("claimables_captured") \in [status : {"claimables_captured", "completed"},
                                              builders : [Builders -> Reports]]
    BY DEF Recorded
  <2> QED
    BY <1>4, <2>1 DEF SaveCaptured, report, money, Finish
<1>5. CASE EndBaseline
  <2>1. ASSUME NEW r \in Reports PROVE [r EXCEPT !.claim = "skipped"] \in Reports
    BY DEF Reports, Status
  <2>2. rep' = [b \in Builders |-> IF Eligible(rep[b]) THEN rep[b]
                                   ELSE [rep[b] EXCEPT !.claim = "skipped"]]
    BY <1>5 DEF EndBaseline
  <2>3. rep' \in [Builders -> Reports]
    BY <2>1, <2>2
  <2> QED
    BY <1>5, <2>3 DEF EndBaseline, money
<1>6. CASE EndClaim
  BY <1>6 DEF EndClaim, report, money
<1>7. CASE EndObserve
  BY <1>7 DEF EndObserve, report, money
<1>8. CASE EndSweep
  BY <1>8 DEF EndSweep, report, money, Finish
<1>9. CASE SaveCompleted
  <2>1. Recorded("completed") \in [status : {"claimables_captured", "completed"},
                                   builders : [Builders -> Reports]]
    BY DEF Recorded
  <2> QED
    BY <1>9, <2>1 DEF SaveCompleted, money, Finish
<1>10. CASE Crash \/ TokenError
  BY <1>10 DEF Crash, TokenError, money, Finish
<1> QED
  BY <1>1, <1>2, <1>3, <1>4, <1>5, <1>6, <1>7, <1>8, <1>9, <1>10

LEMMA WorldTypes ==
  ASSUME TypeOK, Credit \/ ExchangeClaims \/ ExchangeSends \/ ExchangeRefuses \/ LoseRequest
  PROVE  TypeOK'
<1>0. flying \subseteq Flight /\ reply \in [Builders -> Replies] /\ reward \in [Builders -> Nat]
      /\ moved \in [Builders -> Nat]
  BY DEF TypeOK
<1>1. ASSUME NEW q \in Flight, NEW a \in Replies, Answer(q, a) PROVE reply' \in [Builders -> Replies]
  BY <1>0, <1>1 DEF Answer, Flight
<1>2. CASE Credit
  <2>1. PICK b \in Builders, c \in Credits : wallet' = [wallet EXCEPT ![b] = Append(@, Total(b) + c)]
    BY <1>2 DEF Credit
  <2>2. Total(b) + c \in Nat
    BY TotalType
  <2>3. UNCHANGED <<record, step, scheduled, todo, report, local, run, claims, reward,
                    flying, moved, claimed, seen>>
    BY <1>2 DEF Credit
  <2> QED
    BY <2>1, <2>2, <2>3, TotalType DEF TypeOK, report, local
<1>3. CASE ExchangeClaims
  <2>1. PICK q \in flying :
          /\ flying' = flying \ {q}
          /\ wallet' = [wallet EXCEPT ![q.builder] = Append(@, Total(q.builder) + reward[q.builder] \div Fine)]
          /\ reward' = [reward EXCEPT ![q.builder] = 0]
          /\ claimed' = claimed \cup {q.builder}
          /\ Answer(q, "accepted")
    BY <1>3 DEF ExchangeClaims
  <2>2. q \in Flight /\ q.builder \in Builders
    BY <1>0, <2>1 DEF Flight
  <2>3. Total(q.builder) + reward[q.builder] \div Fine \in Nat
    <3>1. Total(q.builder) \in Nat /\ reward[q.builder] \in Nat
      BY <1>0, <2>2, TotalType
    <3>2. reward[q.builder] \div Fine \in Nat
      BY <3>1
    <3> QED
      BY <3>1, <3>2
  <2>4. reply' \in [Builders -> Replies]
    BY <1>1, <2>1, <2>2 DEF Replies
  <2>5. UNCHANGED <<record, step, scheduled, todo, report, loop, sweep, run, claims, moved, seen>>
    BY <1>3 DEF ExchangeClaims
  <2>6. wallet' \in [Builders -> Seq(Nat)] /\ \A c \in Builders : seen[c] \in 1..Len(wallet'[c])
    BY <2>1, <2>2, <2>3, TotalType, Zenon
  <2>7. reward' \in [Builders -> Nat] /\ claimed' \subseteq Builders /\ flying' \subseteq Flight
    BY <2>1, <2>2 DEF TypeOK
  <2> QED
    BY <2>4, <2>5, <2>6, <2>7 DEF TypeOK, report
<1>4. CASE ExchangeSends
  <2>1. PICK q \in flying :
          /\ q.amount <= Total(q.builder) /\ flying' = flying \ {q}
          /\ wallet' = [wallet EXCEPT ![q.builder] = Append(@, Total(q.builder) - q.amount)]
          /\ moved' = IF q.run = run THEN [moved EXCEPT ![q.builder] = @ + q.amount] ELSE moved
          /\ Answer(q, "accepted")
    BY <1>4 DEF ExchangeSends
  <2>2. q \in Flight /\ q.builder \in Builders /\ q.amount \in Nat
    BY <1>0, <2>1 DEF Flight
  <2>3. Total(q.builder) - q.amount \in Nat
    BY <2>1, <2>2, TotalType
  <2>4. reply' \in [Builders -> Replies]
    BY <1>1, <2>1, <2>2 DEF Replies
  <2>5. moved' \in [Builders -> Nat]
    BY <1>0, <2>1, <2>2
  <2>6. UNCHANGED <<record, step, scheduled, todo, report, loop, sweep, run, claims, reward,
                    claimed, seen>>
    BY <1>4 DEF ExchangeSends
  <2>7. wallet' \in [Builders -> Seq(Nat)] /\ \A c \in Builders : seen[c] \in 1..Len(wallet'[c])
    BY <2>1, <2>2, <2>3, TotalType, Zenon
  <2> QED
    BY <2>1, <2>4, <2>5, <2>6, <2>7 DEF TypeOK, report
<1>5. CASE ExchangeRefuses
  <2>1. PICK q \in flying, a \in {"below", "rejected"} : flying' = flying \ {q} /\ Answer(q, a)
    BY <1>5 DEF ExchangeRefuses
  <2>2. reply' \in [Builders -> Replies]
    BY <1>0, <1>1, <2>1 DEF Replies
  <2>3. UNCHANGED <<record, step, scheduled, todo, report, loop, sweep, run, claims, wallet,
                    reward, moved, claimed, seen>>
    BY <1>5 DEF ExchangeRefuses
  <2> QED
    BY <2>1, <2>2, <2>3 DEF TypeOK, report
<1>6. CASE LoseRequest
  BY <1>6 DEF TypeOK, LoseRequest, report, local
<1> QED
  BY <1>2, <1>3, <1>4, <1>5, <1>6

LEMMA CaptureTypes ==
  ASSUME TypeOK, NEW b \in Builders,
         CaptureRead(b) \/ CaptureError(b) \/ BaselineRead(b) \/ BaselineError(b)
  PROVE  TypeOK'
<1>0. rep \in [Builders -> Reports] /\ loop \in [Builders -> Loops] /\ base \in [Builders -> Bases]
      /\ reward[b] \in Nat /\ loop[b] \in Loops /\ "warning" \in Status
  BY DEF TypeOK, Status
<1>1. CASE CaptureRead(b)
  <2>1. rep' \in [Builders -> Reports]
    BY <1>0, <1>1, ReportUpdate DEF CaptureRead
  <2> QED
    BY <1>1, <2>1 DEF TypeOK, CaptureRead, DoneWith, local, money
<1>2. CASE CaptureError(b)
  <2>0. rep' = rep \/ rep' = [rep EXCEPT ![b].claim = "warning"]
    BY <1>2 DEF CaptureError
  <2>1. rep' \in [Builders -> Reports]
    <3>1. [rep EXCEPT ![b].claim = "warning"] \in [Builders -> Reports]
      BY <1>0, ReportUpdate
    <3> QED
      BY <1>0, <2>0, <3>1
  <2>2. Again(b) \/ loop' = loop
    BY <1>2 DEF CaptureError
  <2>3. loop' \in [Builders -> Loops]
    BY <1>0, <2>2, LoopUpdate DEF Again
  <2> QED
    BY <1>2, <2>1, <2>3 DEF TypeOK, CaptureError, DoneWith, money
<1>3. CASE BaselineRead(b)
  <2>1. PICK i, hold, t, a, s :
       /\ i \in Reads(b) /\ hold \in Holds
       /\ t = wallet[b][i] /\ a = t - hold /\ s = Stable(loop[b], t, a)
       /\ hold <= t
       /\ seen' = [seen EXCEPT ![b] = i]
       /\ \/ /\ s >= Confirmations
             /\ base' = [base EXCEPT ![b] = [known |-> TRUE, total |-> t, avail |-> a]]
             /\ DoneWith(b) /\ UNCHANGED <<rep, loop>>
          \/ /\ s < Confirmations /\ loop[b].tries + 1 < BaselineTries
             /\ loop' = [loop EXCEPT ![b] = Looped(b, s, t, a)]
             /\ UNCHANGED <<rep, todo, base>>
          \/ /\ s < Confirmations /\ loop[b].tries + 1 >= BaselineTries
             /\ BaselineMissing(b)
    BY <1>3, Zenon DEF BaselineRead
  <2>2. t \in Nat /\ seen' \in [Builders -> Nat] /\ \A c \in Builders : seen'[c] \in 1..Len(wallet[c])
    BY <2>1, ReadTypes
  <2>3. a \in Nat
    BY <2>1, <2>2
  <2>4. s \in Nat
    BY <1>0, <2>1, <2>2, <2>3, StableType
  <2>5. CASE base' = [base EXCEPT ![b] = [known |-> TRUE, total |-> t, avail |-> a]]
             /\ DoneWith(b) /\ UNCHANGED <<rep, loop>>
    <3>1. base' \in [Builders -> Bases]
      BY <1>0, <2>2, <2>3, <2>5 DEF Bases
    <3> QED
      BY <1>3, <2>2, <2>5, <3>1 DEF TypeOK, BaselineRead, DoneWith, money
  <2>6. CASE loop' = [loop EXCEPT ![b] = Looped(b, s, t, a)] /\ UNCHANGED <<rep, todo, base>>
    <3>1. loop' \in [Builders -> Loops]
      BY <1>0, <2>2, <2>3, <2>4, <2>6, LoopUpdate DEF Looped
    <3> QED
      BY <1>3, <2>2, <2>6, <3>1 DEF TypeOK, BaselineRead, money
  <2>7. CASE BaselineMissing(b)
    <3>1. rep' \in [Builders -> Reports]
      BY <1>0, <2>7, ReportUpdate DEF BaselineMissing
    <3> QED
      BY <1>3, <2>2, <2>7, <3>1 DEF TypeOK, BaselineRead, BaselineMissing, DoneWith, money
  <2> QED
    BY <2>1, <2>5, <2>6, <2>7
<1>4. CASE BaselineError(b)
  <2>0. rep' = rep \/ rep' = [rep EXCEPT ![b].claim = "warning"]
    BY <1>4 DEF BaselineError, BaselineMissing
  <2>1. rep' \in [Builders -> Reports]
    <3>1. [rep EXCEPT ![b].claim = "warning"] \in [Builders -> Reports]
      BY <1>0, ReportUpdate
    <3> QED
      BY <1>0, <2>0, <3>1
  <2>2. Again(b) \/ loop' = loop
    BY <1>4 DEF BaselineError, BaselineMissing
  <2>3. loop' \in [Builders -> Loops]
    BY <1>0, <2>2, LoopUpdate DEF Again
  <2> QED
    BY <1>4, <2>1, <2>3 DEF TypeOK, BaselineError, BaselineMissing, DoneWith, money
<1> QED
  BY <1>1, <1>2, <1>3, <1>4

LEMMA ClaimTypes ==
  ASSUME TypeOK, NEW b \in Builders,
         ClaimSubmit(b) \/ ClaimPrepareError(b) \/ ClaimAccepted(b) \/ ClaimRejected(b)
         \/ ClaimUnknown(b)
  PROVE  TypeOK'
<1>0. rep \in [Builders -> Reports] /\ loop \in [Builders -> Loops] /\ target \in [Builders -> Targets]
      /\ {"warning", "skipped", "success"} \subseteq Status
  BY DEF TypeOK, Status
<1>1. CASE ClaimSubmit(b)
  <2>1. Claim(b) \in Flight
    BY DEF Claim, Flight, TypeOK
  <2>2. loop' \in [Builders -> Loops]
    BY <1>0, <1>1, LoopUpdate DEF ClaimSubmit, Again
  <2>3. claims' \in [Builders -> Nat]
    BY <1>1 DEF ClaimSubmit, TypeOK
  <2> QED
    BY <1>1, <2>1, <2>2, <2>3 DEF TypeOK, ClaimSubmit, report
<1>2. CASE ClaimPrepareError(b)
  <2>1. rep' \in [Builders -> Reports]
    BY <1>0, <1>2, ReportUpdate DEF ClaimPrepareError
  <2> QED
    BY <1>2, <2>1 DEF TypeOK, ClaimPrepareError, DoneWith, local, money
<1>3. CASE ClaimAccepted(b)
  <2>1. rep' \in [Builders -> Reports]
    BY <1>0, <1>3, ReportUpdate DEF ClaimAccepted
  <2>2. target' \in [Builders -> Targets]
    BY <1>0, <1>3 DEF ClaimAccepted, NoClaim, Targets
  <2> QED
    BY <1>3, <2>1, <2>2 DEF TypeOK, ClaimAccepted, DoneWith, local, money
<1>4. CASE ClaimRejected(b)
  <2>1. rep' \in [Builders -> Reports]
    BY <1>0, <1>4, ReportUpdate DEF ClaimRejected
  <2> QED
    BY <1>4, <2>1 DEF TypeOK, ClaimRejected, DoneWith, local, money
<1>5. CASE ClaimUnknown(b)
  <2>1. rep' \in [Builders -> Reports]
    BY <1>0, <1>5, ReportUpdate DEF ClaimUnknown
  <2>2. target' \in [Builders -> Targets]
    BY <1>0, <1>5 DEF ClaimUnknown, NoClaim, Targets
  <2> QED
    BY <1>5, <2>1, <2>2 DEF TypeOK, ClaimUnknown, DoneWith, local, money
<1> QED
  BY <1>1, <1>2, <1>3, <1>4, <1>5

LEMMA ObserveTypes ==
  ASSUME TypeOK, NEW b \in Builders, ObserveRead(b) \/ ObserveError(b)
  PROVE  TypeOK'
<1>0. rep \in [Builders -> Reports] /\ loop \in [Builders -> Loops] /\ target \in [Builders -> Targets]
      /\ floor \in [Builders -> Floors] /\ {"warning", "success"} \subseteq Status
      /\ loop[b] \in Loops
  BY DEF TypeOK, Status
<1>1. ASSUME Exhausted(b)
      PROVE  rep' \in [Builders -> Reports] /\ UNCHANGED <<loop, target, floor>>
             /\ todo' \subseteq Builders
  BY <1>0, <1>1, ReportUpdate DEF Exhausted, DoneWith, TypeOK
<1>2. CASE ObserveRead(b)
  <2>1. PICK i \in Reads(b), hold \in Holds, c \in {reward[b], Unseen} :
       LET t == wallet[b][i]
           a == t - hold
           p == target[b].preSeen \/ PreState(b, t, a)
           s == IF Visible(b, t, p, c) THEN Stable(loop[b], t, a) ELSE 0
       IN
       /\ hold <= t
       /\ seen' = [seen EXCEPT ![b] = i]
       /\ \/ s >= Confirmations /\ Converged(b, t)
          \/ /\ s < Confirmations /\ loop[b].tries + 1 < ObserveTries
             /\ loop' = [loop EXCEPT ![b] = Looped(b, s, t, a)]
             /\ target' = [target EXCEPT ![b].preSeen = p]
             /\ UNCHANGED <<rep, floor, todo>>
          \/ /\ s < Confirmations /\ loop[b].tries + 1 >= ObserveTries
             /\ Exhausted(b)
    BY <1>2, Zenon DEF ObserveRead
  <2> DEFINE t == wallet[b][i]
             a == t - hold
             p == target[b].preSeen \/ PreState(b, t, a)
             s == IF Visible(b, t, p, c) THEN Stable(loop[b], t, a) ELSE 0
  <2>2. t \in Nat /\ seen' \in [Builders -> Nat] /\ \A d \in Builders : seen'[d] \in 1..Len(wallet[d])
    BY <2>1, ReadTypes
  <2>3. a \in Nat
    BY <2>1, <2>2
  <2>4. s \in Nat
    BY <1>0, <2>1, <2>2, <2>3, StableType
  <2>5. p \in BOOLEAN
    BY <1>0, <2>1, Zenon DEF PreState
  <2>6. CASE Converged(b, t)
    <3>1. rep' \in [Builders -> Reports]
      BY <1>0, <2>6, ReportUpdate DEF Converged
    <3>2. floor' \in [Builders -> Floors]
      BY <1>0, <2>2, <2>6 DEF Converged, Floors
    <3> QED
      BY <1>2, <2>2, <2>6, <3>1, <3>2 DEF TypeOK, Converged, DoneWith, ObserveRead, money
  <2>7. CASE Exhausted(b)
    BY <1>1, <1>2, <2>2, <2>7 DEF TypeOK, ObserveRead, money
  <2>8. CASE /\ loop' = [loop EXCEPT ![b] = Looped(b, s, t, a)]
             /\ target' = [target EXCEPT ![b].preSeen = p]
             /\ UNCHANGED <<rep, floor, todo>>
    <3>1. loop' \in [Builders -> Loops]
      BY <1>0, <2>2, <2>3, <2>4, <2>8, LoopUpdate DEF Looped
    <3>2. target' \in [Builders -> Targets]
      <4>1. target[b] \in Targets
        BY <1>0
      <4>2. [target[b] EXCEPT !.preSeen = p] \in Targets
        BY <2>5, <4>1 DEF Targets
      <4> QED
        BY <1>0, <2>8, <4>2
    <3> QED
      BY <1>2, <2>2, <2>8, <3>1, <3>2 DEF TypeOK, ObserveRead, money
  <2> QED
    BY <2>1, <2>6, <2>7, <2>8
<1>3. CASE ObserveError(b)
  <2>1. CASE Exhausted(b)
    BY <1>1, <1>3, <2>1 DEF TypeOK, ObserveError, money
  <2>2. CASE Again(b) /\ UNCHANGED <<rep, target, floor, todo>>
    <3>1. loop' \in [Builders -> Loops]
      BY <1>0, <2>2, LoopUpdate DEF Again
    <3> QED
      BY <1>3, <2>2, <3>1 DEF TypeOK, ObserveError, money
  <2> QED
    BY <1>3, <2>1, <2>2 DEF ObserveError
<1> QED
  BY <1>2, <1>3

LEMMA SweepEndsTypes ==
  ASSUME TypeOK, NEW b \in Builders, NEW s \in Status, NEW n \in Nat, SweepEnds(b, s, n)
  PROVE  /\ rep' \in [Builders -> Reports] /\ todo' \subseteq Builders
         /\ sweep' \in Sweeps /\ reply' \in [Builders -> Replies] /\ loop' \in [Builders -> Loops]
<1>1. rep \in [Builders -> Reports]
  BY DEF TypeOK
<1>2. rep' \in [Builders -> Reports]
  BY <1>1, ReportUpdate DEF SweepEnds
<1> QED
  BY <1>2, Blank DEF SweepEnds, DoneWith, TypeOK, Replies

LEMMA SweepAgainTypes ==
  ASSUME TypeOK, NEW b \in Builders, NEW s \in Sweeps, s.try < SweepTries, SweepAgain(b, s)
  PROVE  /\ rep' \in [Builders -> Reports] /\ todo' \subseteq Builders
         /\ sweep' \in Sweeps /\ reply' \in [Builders -> Replies] /\ loop' \in [Builders -> Loops]
<1>1. s.try + 1 \in 1..SweepTries
  BY DEF Sweeps
<1>2. [s EXCEPT !.try = s.try + 1, !.sent = FALSE] \in Sweeps
  BY <1>1 DEF Sweeps
<1>3. sweep' \in Sweeps
  BY <1>2 DEF SweepAgain
<1>4. loop' \in [Builders -> Loops]
  BY LoopUpdate DEF SweepAgain, TypeOK
<1> QED
  BY <1>3, <1>4 DEF SweepAgain, TypeOK, Replies

LEMMA SweepTypes ==
  ASSUME TypeOK, NEW b \in Builders,
         SweepPick(b) \/ SweepRead(b) \/ SweepReadError(b) \/ SweepAccepted(b)
         \/ SweepRejected(b) \/ SweepUnknown(b)
  PROVE  TypeOK'
<1> DEFINE Ends(s, n) == SweepEnds(b, s, n) /\ s \in Status /\ n \in Nat
           Redo(s) == SweepAgain(b, s) /\ s \in Sweeps /\ s.try < SweepTries
           Good == /\ rep' \in [Builders -> Reports] /\ todo' \subseteq Builders
                   /\ sweep' \in Sweeps /\ reply' \in [Builders -> Replies]
                   /\ loop' \in [Builders -> Loops]
<1>0. sweep \in Sweeps /\ loop \in [Builders -> Loops] /\ loop[b] \in Loops
      /\ {"warning", "skipped", "success"} \subseteq Status /\ sweep.amount \in Nat
      /\ sweep.retry \in Nat
  BY DEF TypeOK, Status, Sweeps
<1>1. ASSUME NEW s, NEW n, Ends(s, n) PROVE Good
  BY <1>1, SweepEndsTypes
<1>2. ASSUME NEW s, Redo(s) PROVE Good
  BY <1>2, SweepAgainTypes
<1>3. Ends("warning", 0) <=> SweepEnds(b, "warning", 0)
  BY <1>0
<1>4. CASE SweepPick(b)
  <2>1. sweep' \in Sweeps
    BY <1>4, Blank DEF SweepPick, Sweeps
  <2> QED
    BY <1>4, <2>1 DEF TypeOK, SweepPick, report, money
<1>5. CASE SweepRead(b)
  <2>1. PICK i \in Reads(b), hold \in Holds :
       LET t == wallet[b][i]
           a == t - hold
           s == IF BelowFloor(b, t) THEN 0 ELSE Stable(loop[b], t, a)
       IN  /\ hold <= t
           /\ seen' = [seen EXCEPT ![b] = i]
           /\ \/ s >= Confirmations /\ SweepWith(b, a)
              \/ /\ s < Confirmations /\ loop[b].tries + 1 < SweepReads
                 /\ loop' = [loop EXCEPT ![b] = Looped(b, s, t, a)]
                 /\ UNCHANGED <<rep, todo, sweep, reply, flying>>
              \/ /\ s < Confirmations /\ loop[b].tries + 1 >= SweepReads
                 /\ SweepEnds(b, "warning", 0) /\ UNCHANGED flying
    BY <1>5, Zenon DEF SweepRead
  <2> DEFINE t == wallet[b][i]
             a == t - hold
             s == IF BelowFloor(b, t) THEN 0 ELSE Stable(loop[b], t, a)
  <2>2. t \in Nat /\ seen' \in [Builders -> Nat] /\ \A d \in Builders : seen'[d] \in 1..Len(wallet[d])
    BY <2>1, ReadTypes
  <2>3. a \in Nat
    BY <2>1, <2>2
  <2>4. s \in Nat
    BY <1>0, <2>2, <2>3, StableType
  <2> HIDE DEF t, a, s
  <2>5. CASE SweepWith(b, a)
    <3> DEFINE m == IF sweep.unknown /\ sweep.retry > a THEN sweep.retry ELSE a
    <3>1. m \in Nat
      BY <1>0, <2>3
    <3>2. SpotSend(b, m) \in Flight
      <4>1. sweep.try \in Nat /\ run \in Nat
        BY DEF Sweeps, TypeOK
      <4> QED
        BY <3>1, <4>1 DEF SpotSend, Flight
    <3>3. PICK x \in Status :
             \/ SweepEnds(b, x, 0) /\ UNCHANGED flying
             \/ SweepAgain(b, sweep) /\ sweep.try < SweepTries /\ UNCHANGED flying
             \/ /\ flying' = flying \cup {SpotSend(b, m)}
                /\ sweep' = [sweep EXCEPT !.amount = m, !.sent = TRUE]
                /\ UNCHANGED <<rep, todo, loop, reply>>
      <4>1. \/ SweepEnds(b, IF Unconverged(b) THEN "warning" ELSE "skipped", 0) /\ UNCHANGED flying
            \/ IF sweep.unknown /\ sweep.try < SweepTries
               THEN SweepAgain(b, sweep) /\ UNCHANGED flying
               ELSE SweepEnds(b, "warning", 0) /\ UNCHANGED flying
            \/ /\ flying' = flying \cup {SpotSend(b, m)}
               /\ sweep' = [sweep EXCEPT !.amount = m, !.sent = TRUE]
               /\ UNCHANGED <<rep, todo, loop, reply>>
        BY <2>5 DEF SweepWith
      <4> QED
        BY <1>0, <4>1
    <3>4. Good /\ flying' \subseteq Flight
      <4>1. flying \subseteq Flight
        BY DEF TypeOK
      <4>2. CASE SweepEnds(b, x, 0) /\ UNCHANGED flying
        BY <1>1, <4>1, <4>2
      <4>3. CASE SweepAgain(b, sweep) /\ sweep.try < SweepTries /\ UNCHANGED flying
        BY <1>0, <1>2, <4>1, <4>3
      <4>4. CASE /\ flying' = flying \cup {SpotSend(b, m)}
                 /\ sweep' = [sweep EXCEPT !.amount = m, !.sent = TRUE]
                 /\ UNCHANGED <<rep, todo, loop, reply>>
        <5>1. sweep' \in Sweeps
          BY <1>0, <3>1, <4>4 DEF Sweeps
        <5> QED
          BY <3>2, <4>1, <4>4, <5>1 DEF TypeOK
      <4> QED
        BY <3>3, <4>2, <4>3, <4>4
    <3> QED
      BY <1>5, <2>2, <3>4 DEF TypeOK, SweepRead
  <2>6. CASE loop' = [loop EXCEPT ![b] = Looped(b, s, t, a)] /\ UNCHANGED <<rep, todo, sweep, reply, flying>>
    <3>1. loop' \in [Builders -> Loops]
      BY <1>0, <2>2, <2>3, <2>4, <2>6, LoopUpdate DEF Looped
    <3> QED
      BY <1>5, <2>2, <2>6, <3>1 DEF TypeOK, SweepRead
  <2>7. CASE SweepEnds(b, "warning", 0) /\ UNCHANGED flying
    <3>1. Good
      BY <1>1, <1>3, <2>7
    <3> QED
      BY <1>5, <2>2, <2>7, <3>1 DEF TypeOK, SweepRead
  <2> QED
    BY <2>1, <2>5, <2>6, <2>7 DEF t, a, s
<1>6. CASE SweepReadError(b)
  <2>1. Good
    <3>1. CASE SweepEnds(b, "warning", 0)
      BY <1>1, <1>3, <3>1
    <3>2. CASE Again(b) /\ UNCHANGED <<rep, todo, sweep, reply>>
      BY <1>0, <3>2, LoopUpdate DEF Again, TypeOK
    <3> QED
      BY <1>6, <3>1, <3>2 DEF SweepReadError
  <2> QED
    BY <1>6, <2>1 DEF TypeOK, SweepReadError, money
<1>7. CASE SweepAccepted(b)
  <2>1. PICK x \in Status : SweepEnds(b, x, sweep.amount)
    BY <1>0, <1>7 DEF SweepAccepted
  <2>2. Good
    BY <1>0, <1>1, <2>1
  <2> QED
    BY <1>7, <2>2 DEF TypeOK, SweepAccepted, money
<1>8. CASE SweepRejected(b)
  <2>1. Good
    <3>1. CASE sweep.unknown /\ sweep.try < SweepTries
      BY <1>0, <1>2, <1>8, <3>1 DEF SweepRejected
    <3>2. CASE ~(sweep.unknown /\ sweep.try < SweepTries)
      BY <1>1, <1>3, <1>8, <3>2 DEF SweepRejected
    <3> QED
      BY <3>1, <3>2
  <2> QED
    BY <1>8, <2>1 DEF TypeOK, SweepRejected, money
<1>9. CASE SweepUnknown(b)
  <2>1. Good
    <3>1. CASE sweep.try < SweepTries
      <4> DEFINE z == [sweep EXCEPT !.unknown = TRUE, !.retry = sweep.amount]
      <4>1. z \in Sweeps /\ z.try = sweep.try
        BY <1>0 DEF Sweeps
      <4>2. SweepAgain(b, z)
        BY <1>9, <3>1 DEF SweepUnknown
      <4> HIDE DEF z
      <4> QED
        BY <1>2, <3>1, <4>1, <4>2
    <3>2. CASE ~(sweep.try < SweepTries)
      BY <1>1, <1>3, <1>9, <3>2 DEF SweepUnknown
    <3> QED
      BY <3>1, <3>2
  <2> QED
    BY <1>9, <2>1 DEF TypeOK, SweepUnknown, money
<1> QED
  BY <1>4, <1>5, <1>6, <1>7, <1>8, <1>9

LEMMA TypeStep == TypeOK /\ [Next]_vars => TypeOK'
<1> SUFFICES ASSUME TypeOK, [Next]_vars PROVE TypeOK'
  OBVIOUS
<1>1. CASE UNCHANGED vars
  BY <1>1 DEF TypeOK, vars, report, local, money
<1>2. ASSUME NEW b \in Builders, BuilderStep(b) PROVE TypeOK'
  BY <1>2, CaptureTypes, ClaimTypes, ObserveTypes, SweepTypes DEF BuilderStep
<1> QED
  BY <1>1, <1>2, PhaseTypes, WorldTypes DEF Next, Process, World

(* Whatever fails on the way, every variable keeps the shape the code      *)
(* gives it: no loop, retry or late answer takes the report, a query loop  *)
(* or the submission loop out of its bounds (RunDailyConsolidation).       *)
THEOREM ConsolidationTypeCorrect == Spec => []TypeOK
<1>1. Init => TypeOK
  <2> SUFFICES ASSUME Init PROVE TypeOK
    OBVIOUS
  <2>1. PICK t \in [Builders -> OpeningTotals] : wallet = [b \in Builders |-> <<t[b]>>]
    BY DEF Init
  <2>2. wallet \in [Builders -> Seq(Nat)] /\ \A b \in Builders : Len(wallet[b]) = 1
    <3>1. \A b \in Builders : t[b] \in Nat
      OBVIOUS
    <3>2. \A n \in Nat : <<n>> \in Seq(Nat) /\ Len(<<n>>) = 1
      OBVIOUS
    <3>3. \A b \in Builders : <<t[b]>> \in Seq(Nat) /\ Len(<<t[b]>>) = 1
      BY <3>1, <3>2
    <3> QED
      BY <2>1, <3>3
  <2>3. seen \in [Builders -> Nat] /\ \A b \in Builders : seen[b] \in 1..Len(wallet[b])
    BY <2>2 DEF Init, All
  <2> QED
    BY <2>2, <2>3, Blank DEF Init, TypeOK
<1> QED
  BY <1>1, TypeStep, PTL DEF Spec

-----------------------------------------------------------------------------
(* The invariants.  A record of the date exists before the scheduled task  *)
(* claims, and a claim is made only by the run that saved it.              *)

RecordInv ==
  /\ step \in {"record", "complete"} => scheduled
  /\ scheduled /\ step \in {"token", "capture", "record"} => record.status = "missing"
  /\ scheduled /\ step \in {"baseline", "claim", "observe", "sweep", "complete"} =>
       /\ record.status = "claimables_captured"
       /\ \A b \in Builders : record.builders[b].claimable = rep[b].claimable
  /\ \A b \in Builders :
       /\ claims[b] <= 1
       /\ claims[b] > 0 => record.status # "missing"
       /\ scheduled /\ (step = "baseline" \/ (step = "claim" /\ b \in todo /\ ~Sent(b))) => claims[b] = 0

(* A claim that is neither open nor settled has an unknown submission that *)
(* is still observed; a claimable the run has seen is the reward until     *)
(* that is claimed.                                                        *)
Settled(r) == FinalStep(r.claim) /\ (r.uncertain => r.claim = "warning")

Fresh(b) == rep[b] = Pending /\ base[b] = NoBase /\ target[b] = NoClaim /\ floor[b] = NoFloor

ClaimInv(b) ==
  /\ step \in {"idle", "token"} => Fresh(b)
  /\ step \in {"capture", "record", "baseline"} =>
       rep[b].claim \in {"pending", "warning"} /\ ~rep[b].uncertain /\ target[b] = NoClaim
  /\ step = "baseline" /\ b \notin todo /\ Eligible(rep[b]) =>
       base[b].known \/ rep[b].claim = "warning"
  /\ step = "claim" =>
       /\ b \in todo => ~rep[b].uncertain /\ ~target[b].made
       /\ b \notin todo => (target[b].made /\ target[b].unknown) \/ Settled(rep[b])
       /\ reply[b] = "accepted" => b \in claimed
  /\ step = "observe" => (b \in todo /\ target[b].unknown) \/ Settled(rep[b])
  /\ step = "observe" /\ b \in todo => target[b].made
  /\ step \in {"sweep", "complete"} => Settled(rep[b])
  /\ rep[b].claim = "success" => b \in claimed /\ target[b].made
  /\ rep[b].claimable # Unseen /\ b \notin claimed => rep[b].claimable = reward[b]

(* Of the requests of this run, only the last attempt of the builder being *)
(* swept can be answered; while no earlier one is in doubt, it is the only *)
(* one there is, and it has moved its amount just when it was accepted.    *)
Mine(q, b) == q.kind = "sweep" /\ q.run = run /\ q.builder = b

Done(b) == step = "complete" \/ (step = "sweep" /\ b \notin todo)

Waiting(b) ==
  \/ step \in {"token", "capture", "record", "baseline", "claim", "observe"}
  \/ step = "sweep" /\ b \in todo /\ sweep.builder # b

Covers(amount, b) == \E hold \in Holds : amount + hold >= floor[b].total

FlightInv(b) ==
  /\ \A q \in flying : q.run <= run /\ (Mine(q, b) => q.try >= 1)
  /\ sweep.builder = b => step = "sweep" /\ b \in todo
  /\ Waiting(b) => moved[b] = 0 /\ \A q \in flying : ~Mine(q, b)
  /\ step = "sweep" /\ ~(sweep.builder = b /\ sweep.sent) => reply[b] = "none"
  /\ sweep.builder = b =>
       /\ \A q \in flying : Mine(q, b) =>
            q.try <= sweep.try /\ (q.try = sweep.try => sweep.sent /\ q.amount = sweep.amount)
       /\ ~sweep.unknown => sweep.try = 1
       /\ ~sweep.unknown /\ ~sweep.sent => moved[b] = 0
       /\ sweep.sent /\ reply[b] = "accepted" => moved[b] >= sweep.amount
       /\ sweep.sent /\ ~sweep.unknown =>
            /\ IF reply[b] = "accepted" THEN moved[b] = sweep.amount /\ \A q \in flying : ~Mine(q, b)
               ELSE moved[b] = 0
            /\ floor[b].known => Covers(sweep.amount, b)

(* What the report tells of the sweep, and how much the floor asks for.    *)
TellInv(b) ==
  /\ ~Done(b) => rep[b].amount = 0 /\ rep[b].sweep # "success"
  /\ Done(b) => FinalStep(rep[b].sweep)
  /\ rep[b].amount <= moved[b]
  /\ rep[b].sweep = "success" =>
       /\ rep[b].amount = moved[b] /\ \A q \in flying : ~Mine(q, b)
       /\ ~Unconverged(b) /\ (floor[b].known => Covers(rep[b].amount, b))
  /\ step \in {"token", "capture", "record", "baseline", "claim"} => ~floor[b].known
  /\ floor[b].known => floor[b].total >= base[b].total + MinimumIncrease(b)

Same(c) ==
  /\ rep'[c] = rep[c] /\ base'[c] = base[c] /\ target'[c] = target[c] /\ floor'[c] = floor[c]
  /\ loop'[c] = loop[c] /\ reply'[c] = reply[c] /\ claims'[c] = claims[c]
  /\ sweep'.builder = c <=> sweep.builder = c
  /\ sweep.builder = c => sweep' = sweep

Framed(b) ==
  /\ UNCHANGED <<record, step, scheduled, run, wallet, reward, moved, claimed>>
  /\ todo' = todo \/ todo' = todo \ {b}
  /\ \/ flying' = flying \/ flying' = flying \cup {Claim(b)}
     \/ \E n \in Nat : flying' = flying \cup {SpotSend(b, n)}
  /\ \A c \in Builders \ {b} : Same(c)

-----------------------------------------------------------------------------
(* A step of one builder leaves the others alone.                          *)

LEMMA CaptureFrame ==
  ASSUME TypeOK, NEW b \in Builders,
         CaptureRead(b) \/ CaptureError(b) \/ BaselineRead(b) \/ BaselineError(b)
  PROVE  Framed(b)
<1>0. rep \in [Builders -> Reports] /\ loop \in [Builders -> Loops] /\ base \in [Builders -> Bases]
  BY DEF TypeOK
<1>1. CASE CaptureRead(b)
  BY <1>0, <1>1 DEF CaptureRead, DoneWith, local, money, Framed, Same
<1>2. CASE CaptureError(b)
  BY <1>0, <1>2 DEF CaptureError, Again, DoneWith, money, Framed, Same
<1>3. CASE BaselineRead(b)
  <2>1. \/ /\ DoneWith(b) /\ UNCHANGED <<rep, loop>>
           /\ \E x : base' = [base EXCEPT ![b] = x]
        \/ UNCHANGED <<rep, todo, base>> /\ \E x : loop' = [loop EXCEPT ![b] = x]
        \/ BaselineMissing(b)
    BY <1>3, Zenon DEF BaselineRead
  <2> QED
    BY <1>0, <1>3, <2>1 DEF BaselineRead, BaselineMissing, DoneWith, money, Framed, Same
<1>4. CASE BaselineError(b)
  BY <1>0, <1>4 DEF BaselineError, BaselineMissing, Again, DoneWith, money, Framed, Same
<1> QED
  BY <1>1, <1>2, <1>3, <1>4

LEMMA ClaimFrame ==
  ASSUME TypeOK, NEW b \in Builders,
         ClaimSubmit(b) \/ ClaimPrepareError(b) \/ ClaimAccepted(b) \/ ClaimRejected(b)
         \/ ClaimUnknown(b)
  PROVE  Framed(b)
<1>0. rep \in [Builders -> Reports] /\ loop \in [Builders -> Loops] /\ target \in [Builders -> Targets]
      /\ claims \in [Builders -> Nat]
  BY DEF TypeOK
<1>1. CASE ClaimSubmit(b)
  BY <1>0, <1>1 DEF ClaimSubmit, Again, report, Framed, Same
<1>2. CASE ClaimPrepareError(b)
  BY <1>0, <1>2 DEF ClaimPrepareError, DoneWith, local, money, Framed, Same
<1>3. CASE ClaimAccepted(b)
  BY <1>0, <1>3 DEF ClaimAccepted, DoneWith, local, money, Framed, Same
<1>4. CASE ClaimRejected(b)
  BY <1>0, <1>4 DEF ClaimRejected, DoneWith, local, money, Framed, Same
<1>5. CASE ClaimUnknown(b)
  BY <1>0, <1>5 DEF ClaimUnknown, DoneWith, local, money, Framed, Same
<1> QED
  BY <1>1, <1>2, <1>3, <1>4, <1>5

LEMMA ObserveFrame ==
  ASSUME TypeOK, NEW b \in Builders, ObserveRead(b) \/ ObserveError(b)
  PROVE  Framed(b)
<1>0. rep \in [Builders -> Reports] /\ loop \in [Builders -> Loops] /\ target \in [Builders -> Targets]
      /\ floor \in [Builders -> Floors]
  BY DEF TypeOK
<1>1. CASE ObserveRead(b)
  <2>1. PICK i \in Reads(b), hold \in Holds :
          LET p == target[b].preSeen \/ PreState(b, wallet[b][i], wallet[b][i] - hold)
          IN  \/ Converged(b, wallet[b][i])
              \/ /\ UNCHANGED <<rep, floor, todo>>
                 /\ \E x : loop' = [loop EXCEPT ![b] = x]
                 /\ target' = [target EXCEPT ![b].preSeen = p]
              \/ Exhausted(b)
    BY <1>1, Zenon DEF ObserveRead
  <2> QED
    BY <1>0, <1>1, <2>1 DEF ObserveRead, Converged, Exhausted, DoneWith, money, Framed, Same
<1>2. CASE ObserveError(b)
  BY <1>0, <1>2 DEF ObserveError, Again, Exhausted, DoneWith, money, Framed, Same
<1> QED
  BY <1>1, <1>2

(* While a builder is swept, no other is.                                  *)
SweptAlone(b) ==
  /\ rep' = rep \/ \E x : rep' = [rep EXCEPT ![b] = x]
  /\ loop' = loop \/ \E x : loop' = [loop EXCEPT ![b] = x]
  /\ reply' = reply \/ \E x : reply' = [reply EXCEPT ![b] = x]
  /\ todo' = todo \/ todo' = todo \ {b}
  /\ sweep.builder \in {b, NoBuilder} /\ sweep'.builder \in {b, NoBuilder}

LEMMA SweepEndsAlone ==
  ASSUME TypeOK, NEW b \in Builders, sweep.builder = b, NEW s, NEW n, SweepEnds(b, s, n)
  PROVE  SweptAlone(b)
<1>1. [rep EXCEPT ![b].sweep = s, ![b].amount = @ + n]
        = [rep EXCEPT ![b] = [rep[b] EXCEPT !.sweep = s, !.amount = @ + n]]
  BY DEF TypeOK
<1> QED
  BY <1>1 DEF SweepEnds, SweptAlone, DoneWith, NoSweep

LEMMA SweepAgainAlone ==
  ASSUME TypeOK, NEW b \in Builders, sweep.builder = b, NEW s \in Sweeps, s.builder = b,
         SweepAgain(b, s)
  PROVE  SweptAlone(b)
BY DEF SweepAgain, SweptAlone, Sweeps

LEMMA SweepFrame ==
  ASSUME TypeOK, NEW b \in Builders,
         SweepPick(b) \/ SweepRead(b) \/ SweepReadError(b) \/ SweepAccepted(b)
         \/ SweepRejected(b) \/ SweepUnknown(b)
  PROVE  Framed(b)
<1>0. sweep \in Sweeps /\ rep \in [Builders -> Reports] /\ loop \in [Builders -> Loops]
      /\ reply \in [Builders -> Replies]
  BY DEF TypeOK
<1>1. UNCHANGED <<record, step, scheduled, run, wallet, reward, moved, claimed, base, target,
                  floor, claims>>
  BY DEF SweepPick, SweepRead, SweepReadError, SweepAccepted, SweepRejected, SweepUnknown,
         report, money
<1>2. SweptAlone(b) /\ (flying' = flying \/ \E n \in Nat : flying' = flying \cup {SpotSend(b, n)})
  <2>1. CASE SweepPick(b)
    BY <2>1 DEF SweepPick, SweptAlone, NoSweep, report, money
  <2>2. CASE SweepRead(b)
    <3>1. sweep.builder = b
      BY <2>2 DEF SweepRead
    <3>2. PICK i \in Reads(b), hold \in Holds :
         LET a == wallet[b][i] - hold
         IN  /\ hold <= wallet[b][i]
             /\ \/ SweepWith(b, a)
                \/ /\ \E x : loop' = [loop EXCEPT ![b] = x]
                   /\ UNCHANGED <<rep, todo, sweep, reply, flying>>
                \/ SweepEnds(b, "warning", 0) /\ UNCHANGED flying
      BY <2>2, Zenon DEF SweepRead
    <3> DEFINE a == wallet[b][i] - hold
    <3>3. a \in Nat
      <4>1. wallet[b][i] \in Nat
        BY ReadTypes
      <4>2. hold <= wallet[b][i] /\ hold \in Nat
        BY <3>2, Zenon
      <4>3. \A x, y \in Nat : y <= x => x - y \in Nat
        OBVIOUS
      <4> QED
        BY <4>1, <4>2, <4>3, Zenon
    <3> HIDE DEF a
    <3>4. CASE SweepWith(b, a)
      <4> DEFINE m == IF sweep.unknown /\ sweep.retry > a THEN sweep.retry ELSE a
      <4>1. m \in Nat
        BY <1>0, <3>3 DEF Sweeps
      <4>2. \/ (\E x : SweepEnds(b, x, 0)) /\ UNCHANGED flying
            \/ SweepAgain(b, sweep) /\ UNCHANGED flying
            \/ /\ flying' = flying \cup {SpotSend(b, m)}
               /\ sweep' = [sweep EXCEPT !.amount = m, !.sent = TRUE]
               /\ UNCHANGED <<rep, todo, loop, reply>>
        BY <3>4 DEF SweepWith
      <4>3. CASE (\E x : SweepEnds(b, x, 0)) /\ UNCHANGED flying
        BY <3>1, <4>3, SweepEndsAlone
      <4>4. CASE SweepAgain(b, sweep) /\ UNCHANGED flying
        BY <1>0, <3>1, <4>4, SweepAgainAlone
      <4>5. CASE /\ flying' = flying \cup {SpotSend(b, m)}
                 /\ sweep' = [sweep EXCEPT !.amount = m, !.sent = TRUE]
                 /\ UNCHANGED <<rep, todo, loop, reply>>
        <5>1. sweep'.builder = b
          BY <1>0, <3>1, <4>5 DEF Sweeps
        <5> QED
          BY <3>1, <4>1, <4>5, <5>1 DEF SweptAlone
      <4> QED
        BY <4>2, <4>3, <4>4, <4>5
    <3>5. CASE (\E x : loop' = [loop EXCEPT ![b] = x]) /\ UNCHANGED <<rep, todo, sweep, reply, flying>>
      BY <3>1, <3>5 DEF SweptAlone
    <3>6. CASE SweepEnds(b, "warning", 0) /\ UNCHANGED flying
      BY <3>1, <3>6, SweepEndsAlone
    <3> QED
      BY <3>2, <3>4, <3>5, <3>6 DEF a
  <2>3. CASE SweepReadError(b)
    <3>1. sweep.builder = b /\ flying' = flying
      BY <2>3 DEF SweepReadError, money
    <3>2. SweepEnds(b, "warning", 0) \/ (Again(b) /\ UNCHANGED <<rep, todo, sweep, reply>>)
      BY <2>3 DEF SweepReadError
    <3> QED
      BY <3>1, <3>2, SweepEndsAlone DEF Again, SweptAlone
  <2>4. CASE SweepAccepted(b)
    <3>1. sweep.builder = b /\ flying' = flying
      BY <2>4 DEF SweepAccepted, money
    <3>2. \E x : SweepEnds(b, x, sweep.amount)
      BY <2>4, Zenon DEF SweepAccepted
    <3> QED
      BY <3>1, <3>2, SweepEndsAlone
  <2>5. CASE SweepRejected(b)
    <3>1. sweep.builder = b /\ flying' = flying
      BY <2>5 DEF SweepRejected, money
    <3>2. SweepEnds(b, "warning", 0) \/ SweepAgain(b, sweep)
      BY <2>5 DEF SweepRejected
    <3> QED
      BY <1>0, <3>1, <3>2, SweepEndsAlone, SweepAgainAlone
  <2>6. CASE SweepUnknown(b)
    <3>1. sweep.builder = b /\ flying' = flying
      BY <2>6 DEF SweepUnknown, money
    <3>2. SweepEnds(b, "warning", 0)
          \/ SweepAgain(b, [sweep EXCEPT !.unknown = TRUE, !.retry = sweep.amount])
      BY <2>6 DEF SweepUnknown
    <3>3. [sweep EXCEPT !.unknown = TRUE, !.retry = sweep.amount] \in Sweeps
          /\ [sweep EXCEPT !.unknown = TRUE, !.retry = sweep.amount].builder = b
      BY <1>0, <3>1 DEF Sweeps
    <3> QED
      BY <3>1, <3>2, <3>3, SweepEndsAlone, SweepAgainAlone
  <2> QED
    BY <2>1, <2>2, <2>3, <2>4, <2>5, <2>6
<1>3. ASSUME NEW c \in Builders, c # b PROVE Same(c)
  <2>1. c # NoBuilder
    OBVIOUS
  <2>2. rep'[c] = rep[c] /\ loop'[c] = loop[c] /\ reply'[c] = reply[c]
    BY <1>0, <1>2, <1>3 DEF SweptAlone
  <2>3. sweep'.builder # c /\ sweep.builder # c
    BY <1>2, <1>3, <2>1 DEF SweptAlone
  <2> QED
    BY <1>1, <2>2, <2>3 DEF Same
<1> QED
  BY <1>1, <1>2, <1>3 DEF Framed, SweptAlone

LEMMA BuilderFrame ==
  ASSUME TypeOK, NEW b \in Builders, BuilderStep(b) PROVE Framed(b)
BY CaptureFrame, ClaimFrame, ObserveFrame, SweepFrame DEF BuilderStep

-----------------------------------------------------------------------------
(* The record of the date                                                  *)

LEMMA SweepEndsReport ==
  ASSUME TypeOK, NEW b \in Builders, NEW s, NEW n, SweepEnds(b, s, n)
  PROVE  /\ rep'[b].claimable = rep[b].claimable /\ rep'[b].claim = rep[b].claim
         /\ rep'[b].uncertain = rep[b].uncertain
         /\ rep'[b].sweep = s /\ rep'[b].amount = rep[b].amount + n
<1>1. rep \in [Builders -> Reports] /\ rep[b] \in Reports
  BY DEF TypeOK
<1>2. [rep[b] EXCEPT !.sweep = s].amount = rep[b].amount
  BY <1>1 DEF Reports
<1>3. rep' = [rep EXCEPT ![b] = [rep[b] EXCEPT !.sweep = s, !.amount = rep[b].amount + n]]
  BY <1>1, <1>2 DEF SweepEnds
<1>4. rep'[b] = [rep[b] EXCEPT !.sweep = s, !.amount = rep[b].amount + n]
  BY <1>1, <1>3
<1> QED
  BY <1>1, <1>4 DEF Reports

(* A builder being swept has its step left as it is, or told.              *)
LEMMA SweepReport ==
  ASSUME TypeOK, NEW b \in Builders,
         SweepPick(b) \/ SweepRead(b) \/ SweepReadError(b) \/ SweepAccepted(b)
         \/ SweepRejected(b) \/ SweepUnknown(b)
  PROVE  rep' = rep \/ \E s, n : SweepEnds(b, s, n)
<1>1. CASE SweepPick(b)
  BY <1>1 DEF SweepPick, report
<1>2. CASE SweepRead(b)
  <2>1. PICK i \in Reads(b), hold \in Holds :
          SweepWith(b, wallet[b][i] - hold) \/ UNCHANGED rep \/ SweepEnds(b, "warning", 0)
    BY <1>2, Zenon DEF SweepRead
  <2> QED
    BY <2>1, Zenon DEF SweepWith, SweepAgain
<1>3. CASE SweepReadError(b)
  BY <1>3, Zenon DEF SweepReadError
<1>4. CASE SweepAccepted(b)
  BY <1>4, Zenon DEF SweepAccepted
<1>5. CASE SweepRejected(b) \/ SweepUnknown(b)
  BY <1>5, Zenon DEF SweepRejected, SweepUnknown, SweepAgain
<1> QED
  BY <1>1, <1>2, <1>3, <1>4, <1>5

LEMMA ClaimableKept ==
  ASSUME TypeOK, NEW b \in Builders, BuilderStep(b), step # "capture"
  PROVE  rep'[b].claimable = rep[b].claimable
<1>0. rep \in [Builders -> Reports] /\ rep[b] \in Reports
  BY DEF TypeOK
<1>1. ~CaptureRead(b) /\ ~CaptureError(b)
  BY DEF CaptureRead, CaptureError
<1>2. CASE BaselineRead(b) \/ BaselineError(b)
  <2>1. rep' = rep \/ rep' = [rep EXCEPT ![b].claim = "warning"]
    BY <1>2 DEF BaselineRead, BaselineError, BaselineMissing
  <2> QED
    BY <1>0, <2>1 DEF Reports
<1>3. CASE ClaimSubmit(b) \/ ClaimPrepareError(b) \/ ClaimAccepted(b) \/ ClaimRejected(b)
           \/ ClaimUnknown(b)
  BY <1>0, <1>3 DEF ClaimSubmit, ClaimPrepareError, ClaimAccepted, ClaimRejected, ClaimUnknown,
                    report, Reports
<1>4. CASE ObserveRead(b) \/ ObserveError(b)
  <2>1. rep' = rep \/ Exhausted(b) \/ \E t : Converged(b, t)
    BY <1>4, Zenon DEF ObserveRead, ObserveError
  <2> QED
    BY <1>0, <2>1 DEF Reports, Exhausted, Converged
<1>5. CASE SweepPick(b) \/ SweepRead(b) \/ SweepReadError(b) \/ SweepAccepted(b)
           \/ SweepRejected(b) \/ SweepUnknown(b)
  BY <1>5, SweepReport, SweepEndsReport
<1> QED
  BY <1>1, <1>2, <1>3, <1>4, <1>5 DEF BuilderStep

LEMMA ClaimsKept ==
  ASSUME NEW b \in Builders, BuilderStep(b), ~ClaimSubmit(b)
  PROVE  claims' = claims /\ (step = "claim" => loop' = loop)
BY DEF BuilderStep, CaptureRead, CaptureError, BaselineRead, BaselineError, ClaimPrepareError,
       ClaimAccepted, ClaimRejected, ClaimUnknown, ObserveRead, ObserveError, SweepPick, SweepRead,
       SweepReadError, SweepAccepted, SweepRejected, SweepUnknown, local, money, report

LEMMA RecordBuilder ==
  ASSUME TypeOK, RecordInv, NEW b \in Builders, BuilderStep(b) PROVE RecordInv'
<1>0. Framed(b)
  BY BuilderFrame
<1>1. UNCHANGED <<record, step, scheduled>> /\ todo' \subseteq todo
  BY <1>0 DEF Framed
<1>2. ASSUME NEW c \in Builders, step # "capture" PROVE rep'[c].claimable = rep[c].claimable
  <2>1. CASE c = b
    BY <1>2, <2>1, ClaimableKept
  <2>2. CASE c # b
    BY <1>0, <2>2 DEF Framed, Same
  <2> QED
    BY <2>1, <2>2
<1>3. ASSUME NEW c \in Builders
      PROVE  /\ claims'[c] <= 1
             /\ claims'[c] > 0 => record.status # "missing"
             /\ scheduled /\ (step = "baseline" \/ (step = "claim" /\ c \in todo' /\ ~Sent(c)'))
                  => claims'[c] = 0
  <2>0. claims[c] \in Nat /\ loop \in [Builders -> Loops]
    BY DEF TypeOK
  <2>1. CASE c # b
    BY <1>0, <1>1, <2>1 DEF Framed, Same, RecordInv, Sent
  <2>2. CASE c = b /\ ~ClaimSubmit(b)
    <3>1. claims' = claims /\ (step = "claim" => loop' = loop)
      BY <2>2, ClaimsKept
    <3> QED
      BY <1>1, <3>1 DEF RecordInv, Sent
  <2>3. CASE c = b /\ ClaimSubmit(b)
    <3>1. step = "claim" /\ b \in todo /\ ~Sent(b) /\ Again(b)
          /\ claims' = IF scheduled THEN [claims EXCEPT ![b] = @ + 1] ELSE claims
      BY <2>3 DEF ClaimSubmit
    <3>2. loop'[b].tries = loop[b].tries + 1 /\ loop[b].tries \in Nat
      BY <2>0, <3>1 DEF Again, NoLoop, Loops
    <3>3. Sent(b)'
      BY <3>2 DEF Sent
    <3>4. CASE scheduled
      <4>1. claims[b] = 0 /\ record.status = "claimables_captured"
        BY <3>1, <3>4 DEF RecordInv
      <4>2. claims'[b] = 1
        BY <3>1, <3>4, <4>1 DEF TypeOK
      <4> QED
        BY <2>3, <3>1, <3>3, <4>1, <4>2
    <3>5. CASE ~scheduled
      BY <2>3, <3>1, <3>5 DEF RecordInv
    <3> QED
      BY <3>4, <3>5
  <2> QED
    BY <2>1, <2>2, <2>3
<1> QED
  BY <1>1, <1>2, <1>3 DEF RecordInv

LEMMA RecordPhase ==
  ASSUME TypeOK, RecordInv,
         Start \/ TokenFound \/ TokenError \/ EndCapture \/ SaveCaptured \/ EndBaseline
         \/ EndClaim \/ EndObserve \/ EndSweep \/ SaveCompleted \/ Crash
  PROVE  RecordInv'
<1>0. scheduled \in BOOLEAN /\ rep \in [Builders -> Reports] /\ claims \in [Builders -> Nat]
  BY DEF TypeOK
<1> USE DEF Enter, Finish
<1>1. CASE Start
  BY <1>1 DEF Start, RecordInv
<1>2. CASE TokenFound
  BY <1>2 DEF TokenFound, RecordInv
<1>3. CASE EndCapture
  BY <1>3 DEF EndCapture, RecordInv
<1>4. CASE SaveCaptured
  <2>1. step = "record" /\ scheduled /\ UNCHANGED <<scheduled, claims>> /\ record.status = "missing"
        /\ \A b \in Builders : ~(claims[b] > 0)
    BY <1>4 DEF SaveCaptured, RecordInv
  <2>2. \A b \in Builders : claims[b] = 0
    BY <1>0, <2>1
  <2>3. CASE record' = Recorded("claimables_captured") /\ step' = "baseline" /\ UNCHANGED rep
    BY <2>1, <2>2, <2>3 DEF RecordInv, Recorded
  <2>4. CASE step' = "idle"
    BY <2>1, <2>2, <2>4 DEF RecordInv
  <2> QED
    BY <1>4, <2>3, <2>4 DEF SaveCaptured, report
<1>5. CASE EndBaseline
  <2>1. \A b \in Builders : rep'[b].claimable = rep[b].claimable
    BY <1>0, <1>5 DEF EndBaseline, Reports
  <2> QED
    BY <1>5, <2>1 DEF EndBaseline, RecordInv
<1>6. CASE EndClaim \/ EndObserve
  BY <1>6 DEF EndClaim, EndObserve, RecordInv, report
<1>7. CASE EndSweep
  BY <1>7 DEF EndSweep, RecordInv, report
<1>8. CASE SaveCompleted
  <2>1. step' = "idle" /\ UNCHANGED claims /\ (record' = Recorded("completed") \/ record' = record)
    BY <1>8 DEF SaveCompleted
  <2> QED
    BY <2>1 DEF RecordInv, Recorded
<1>9. CASE Crash \/ TokenError
  BY <1>9 DEF Crash, TokenError, RecordInv
<1> QED
  BY <1>1, <1>2, <1>3, <1>4, <1>5, <1>6, <1>7, <1>8, <1>9

LEMMA RecordStep == TypeOK /\ RecordInv /\ [Next]_vars => RecordInv'
<1> SUFFICES ASSUME TypeOK, RecordInv, [Next]_vars PROVE RecordInv'
  OBVIOUS
<1>1. CASE UNCHANGED vars
  BY <1>1 DEF RecordInv, Sent, vars, report, local
<1>2. CASE Credit \/ ExchangeClaims \/ ExchangeSends \/ ExchangeRefuses \/ LoseRequest
  <2>1. UNCHANGED <<record, step, scheduled, rep, claims, loop, todo>>
    BY <1>2 DEF Credit, ExchangeClaims, ExchangeSends, ExchangeRefuses, LoseRequest, report, local
  <2> QED
    BY <2>1 DEF RecordInv, Sent
<1> QED
  BY <1>1, <1>2, RecordBuilder, RecordPhase DEF Next, Process, World

LEMMA RecordAlways == Spec => [](TypeOK /\ RecordInv)
<1>1. Init => RecordInv
  BY DEF Init, RecordInv, All, NoRecord
<1> QED
  BY <1>1, RecordStep, ConsolidationTypeCorrect, PTL DEF Spec

(* The scheduled task claims a builder's reward at most once per date, and *)
(* only once the record of that date exists, over crashes, restarts,       *)
(* manual runs and saves that fail half way (RunDailyConsolidation).       *)
THEOREM NeverClaimedTwice == Spec => []ClaimedOnce
<1>1. RecordInv => ClaimedOnce
  BY DEF RecordInv, ClaimedOnce
<1> QED
  BY <1>1, RecordAlways, PTL

(* The claimables of a date are frozen when they are first recorded, and a *)
(* completed record is final (dailyConsolidationFromReport).               *)
THEOREM RecordStaysFrozen == Spec => RecordIsFrozen
<1> DEFINE Kept == record.status # "missing" =>
       /\ record'.status # "missing"
       /\ \A b \in Builders :
            record'.builders[b].claimable = record.builders[b].claimable
       /\ record.status = "completed" => UNCHANGED record
<1>1. TypeOK /\ RecordInv /\ [Next]_vars => Kept \/ UNCHANGED vars
  <2> SUFFICES ASSUME TypeOK, RecordInv, Next, record.status # "missing" PROVE Kept
    OBVIOUS
  <2>1. CASE UNCHANGED record
    BY <2>1
  <2>2. CASE SaveCaptured
    <3>1. record.status = "missing"
      BY <2>2 DEF SaveCaptured, RecordInv
    <3> QED
      BY <3>1
  <2>3. CASE SaveCompleted
    <3>1. record.status = "claimables_captured"
          /\ \A b \in Builders : record.builders[b].claimable = rep[b].claimable
      BY <2>3 DEF SaveCompleted, RecordInv
    <3>2. record' = record \/ record' = [status |-> "completed", builders |-> rep]
      BY <2>3 DEF SaveCompleted, Recorded
    <3> QED
      BY <3>1, <3>2
  <2>4. ASSUME NEW b \in Builders, BuilderStep(b) PROVE UNCHANGED record
    BY <2>4, BuilderFrame DEF Framed
  <2>5. ASSUME Start \/ World \/ TokenFound \/ TokenError \/ EndCapture \/ EndBaseline
               \/ EndClaim \/ EndObserve \/ EndSweep
        PROVE  UNCHANGED record
    BY <2>5 DEF Start, World, Credit, ExchangeClaims, ExchangeSends, ExchangeRefuses, LoseRequest,
                Crash, TokenFound, TokenError, EndCapture, EndBaseline, EndClaim, EndObserve, EndSweep
  <2> QED
    BY <2>1, <2>2, <2>3, <2>4, <2>5 DEF Next, Process
<1> QED
  BY <1>1, RecordAlways, PTL DEF Spec, RecordIsFrozen

-----------------------------------------------------------------------------
(* Claims and sweeps: a step of another builder                            *)

BuilderInv(b) == ClaimInv(b) /\ FlightInv(b) /\ TellInv(b)

LEMMA OthersKept ==
  ASSUME TypeOK, NEW b \in Builders, NEW c \in Builders, c # b, Framed(b), BuilderInv(c)
  PROVE  BuilderInv(c)'
<1>1. /\ UNCHANGED <<record, step, scheduled, run, wallet, reward, moved, claimed>>
      /\ (c \in todo' <=> c \in todo) /\ Same(c)
  BY DEF Framed
<1>2. ASSUME NEW q \in flying' PROVE q \in flying \/ (q.run = run /\ ~Mine(q, c))
  BY <1>2 DEF Framed, Claim, SpotSend, Mine
<1>3. flying \subseteq flying' /\ run \in Nat
  BY DEF Framed, TypeOK
<1>4. ClaimInv(c)'
  BY <1>1 DEF BuilderInv, ClaimInv, Same, Fresh, Settled, FinalStep, Eligible, Unseen, Pending, NoBase,
              NoClaim, NoFloor
<1>5. \A q : Mine(q, c)' <=> Mine(q, c)
  BY <1>1 DEF Mine
<1>6. (\A q \in flying : ~Mine(q, c)) => \A q \in flying' : ~Mine(q, c)'
  BY <1>2, <1>5
<1>7. (Waiting(c)' <=> Waiting(c)) /\ (Done(c)' <=> Done(c)) /\ (\A n : Covers(n, c)' <=> Covers(n, c))
  BY <1>1 DEF Waiting, Done, Same, Covers
<1>8. FlightInv(c)'
  <2>1. \A q \in flying' : q.run <= run' /\ (Mine(q, c)' => q.try >= 1)
    BY <1>1, <1>2, <1>3, <1>5 DEF BuilderInv, FlightInv
  <2>2. sweep'.builder = c => step' = "sweep" /\ c \in todo'
    BY <1>1 DEF BuilderInv, FlightInv, Same
  <2>3. Waiting(c)' => moved'[c] = 0 /\ \A q \in flying' : ~Mine(q, c)'
    BY <1>1, <1>6, <1>7 DEF BuilderInv, FlightInv
  <2>4. step' = "sweep" /\ ~(sweep'.builder = c /\ sweep'.sent) => reply'[c] = "none"
    BY <1>1 DEF BuilderInv, FlightInv, Same
  <2>5. CASE sweep.builder # c
    <3>1. sweep'.builder # c
      BY <1>1, <2>5 DEF Same
    <3> QED
      BY <2>1, <2>2, <2>3, <2>4, <3>1 DEF FlightInv
  <2>6. CASE sweep.builder = c
    <3>1. sweep' = sweep
      BY <1>1, <2>6 DEF Same
    <3>2. \A q \in flying' : Mine(q, c)' =>
            q.try <= sweep.try /\ (q.try = sweep.try => sweep.sent /\ q.amount = sweep.amount)
      BY <1>2, <1>5, <2>6 DEF BuilderInv, FlightInv
    <3> QED
      BY <1>1, <1>6, <1>7, <2>1, <2>2, <2>3, <2>4, <2>6, <3>1, <3>2 DEF BuilderInv, FlightInv, Same
  <2> QED
    BY <2>5, <2>6
<1>9. TellInv(c)'
  BY <1>1, <1>6, <1>7 DEF BuilderInv, TellInv, Same, FinalStep, Unconverged, MinimumIncrease
<1> QED
  BY <1>4, <1>8, <1>9 DEF BuilderInv

(* Before the sweeps, the requests of the sweeps are none of anybody's.    *)
LEMMA NotYetSwept ==
  ASSUME TypeOK, NEW b \in Builders, FlightInv(b), step \notin {"sweep", "complete", "idle"},
         UNCHANGED <<step, run, moved, sweep>>,
         flying' = flying \/ flying' = flying \cup {Claim(b)}
  PROVE  FlightInv(b)'
<1>1. run \in Nat /\ sweep.builder # b
  BY DEF TypeOK, FlightInv
<1>2. \A q : Mine(q, b)' <=> Mine(q, b)
  BY DEF Mine
<1>3. ~Mine(Claim(b), b) /\ Claim(b).run = run
  BY DEF Mine, Claim
<1>4. \A q \in flying' : q.run <= run /\ (Mine(q, b)' => q.try >= 1)
  BY <1>1, <1>2, <1>3 DEF FlightInv
<1>5. moved[b] = 0 /\ \A q \in flying' : ~Mine(q, b)'
  <2>1. Waiting(b)
    BY DEF Waiting, TypeOK
  <2> QED
    BY <1>2, <1>3, <2>1 DEF FlightInv
<1> QED
  BY <1>1, <1>4, <1>5 DEF FlightInv

(* The sweep of a builder is not told before it is swept.                  *)
LEMMA NotYetTold ==
  ASSUME TypeOK, NEW b \in Builders, TellInv(b), step \notin {"sweep", "complete", "idle"},
         UNCHANGED <<step, moved>>, rep'[b].amount = rep[b].amount,
         rep'[b].sweep = rep[b].sweep \/ rep'[b].sweep = "warning",
         (step # "observe" => floor' = floor),
         floor'[b].known => floor'[b].total >= base'[b].total + MinimumIncrease(b)'
  PROVE  TellInv(b)'
<1>1. ~Done(b) /\ ~Done(b)'
  BY DEF Done
<1>2. rep'[b].amount = 0 /\ rep'[b].sweep # "success" /\ 0 <= moved[b]
  BY <1>1 DEF TellInv, TypeOK
<1>3. step \in {"token", "capture", "record", "baseline", "claim"} => ~floor'[b].known
  BY DEF TellInv
<1> QED
  BY <1>1, <1>2, <1>3 DEF TellInv

LEMMA CaptureKeeps ==
  ASSUME TypeOK, NEW b \in Builders, BuilderInv(b),
         CaptureRead(b) \/ CaptureError(b) \/ BaselineRead(b) \/ BaselineError(b)
  PROVE  BuilderInv(b)'
<1>0. rep \in [Builders -> Reports] /\ rep[b] \in Reports /\ base \in [Builders -> Bases]
  BY DEF TypeOK
<1>1. /\ step \in {"capture", "baseline"} /\ b \in todo
      /\ UNCHANGED <<step, run, moved, sweep, reply, flying, target, floor, reward, claimed>>
  BY DEF CaptureRead, CaptureError, BaselineRead, BaselineError, local, money
<1>2. FlightInv(b)'
  BY <1>1, NotYetSwept DEF BuilderInv
<1>3. PICK r : rep'[b] = r /\
        \/ r = rep[b] /\ (b \in todo' \/ base'[b].known)
        \/ r = [rep[b] EXCEPT !.claim = "warning"]
        \/ step = "capture" /\ r = [rep[b] EXCEPT !.claimable = reward[b]]
  <2>1. CASE CaptureRead(b)
    BY <1>0, <2>1 DEF CaptureRead
  <2>2. CASE CaptureError(b)
    BY <1>0, <1>1, <2>2 DEF CaptureError
  <2>3. CASE BaselineRead(b)
    <3>1. \/ (\E t, a : base' = [base EXCEPT ![b] = [known |-> TRUE, total |-> t, avail |-> a]])
             /\ UNCHANGED rep
          \/ UNCHANGED <<rep, todo>>
          \/ rep' = [rep EXCEPT ![b].claim = "warning"]
      BY <2>3, Zenon DEF BaselineRead, BaselineMissing
    <3> QED
      BY <1>0, <1>1, <3>1
  <2>4. CASE BaselineError(b)
    BY <1>0, <1>1, <2>4 DEF BaselineError, BaselineMissing
  <2> QED
    BY <2>1, <2>2, <2>3, <2>4
<1>4. /\ r.amount = rep[b].amount /\ r.sweep = rep[b].sweep /\ r.uncertain = rep[b].uncertain
      /\ r.claim = rep[b].claim \/ r.claim = "warning"
      /\ r.claimable = rep[b].claimable \/ (step = "capture" /\ r.claimable = reward[b])
  BY <1>0, <1>3 DEF Reports
<1>5. TellInv(b)'
  <2>1. ~floor[b].known
    BY <1>1 DEF BuilderInv, TellInv
  <2> QED
    BY <1>1, <1>3, <1>4, <2>1, NotYetTold DEF BuilderInv
<1>6. ClaimInv(b)'
  <2>1. r.claim \in {"pending", "warning"} /\ ~r.uncertain /\ target[b] = NoClaim
    BY <1>1, <1>4 DEF BuilderInv, ClaimInv
  <2>2. r.claimable # Unseen /\ b \notin claimed => r.claimable = reward[b]
    BY <1>4 DEF BuilderInv, ClaimInv
  <2>3. step = "baseline" /\ b \notin todo' => base'[b].known \/ r.claim = "warning"
    BY <1>0, <1>3 DEF Reports
  <2> QED
    BY <1>1, <1>3, <2>1, <2>2, <2>3 DEF ClaimInv
<1> QED
  BY <1>2, <1>5, <1>6 DEF BuilderInv

LEMMA ClaimKeeps ==
  ASSUME TypeOK, NEW b \in Builders, BuilderInv(b),
         ClaimSubmit(b) \/ ClaimPrepareError(b) \/ ClaimAccepted(b) \/ ClaimRejected(b)
         \/ ClaimUnknown(b)
  PROVE  BuilderInv(b)'
<1>0. rep \in [Builders -> Reports] /\ rep[b] \in Reports /\ target \in [Builders -> Targets]
  BY DEF TypeOK
<1>1. /\ step = "claim" /\ b \in todo
      /\ UNCHANGED <<step, run, moved, sweep, reply, base, floor, reward, claimed>>
  BY DEF ClaimSubmit, ClaimPrepareError, ClaimAccepted, ClaimRejected, ClaimUnknown, local, money,
         report
<1>2. flying' = flying \/ flying' = flying \cup {Claim(b)}
  BY DEF ClaimSubmit, ClaimPrepareError, ClaimAccepted, ClaimRejected, ClaimUnknown, money
<1>3. FlightInv(b)'
  BY <1>1, <1>2, NotYetSwept DEF BuilderInv
<1>4. PICK r, g : rep'[b] = r /\ target'[b] = g /\
        \/ r = rep[b] /\ g = target[b] /\ b \in todo'
        \/ r = [rep[b] EXCEPT !.claim = "warning"] /\ g = target[b] /\ b \notin todo'
        \/ r = [rep[b] EXCEPT !.claim = "skipped"] /\ g = target[b] /\ b \notin todo'
        \/ /\ r = [rep[b] EXCEPT !.claim = "success"] /\ g = [NoClaim EXCEPT !.made = TRUE]
           /\ b \notin todo' /\ reply[b] = "accepted"
        \/ /\ r = [rep[b] EXCEPT !.uncertain = TRUE] /\ b \notin todo'
           /\ g = [NoClaim EXCEPT !.made = TRUE, !.unknown = TRUE]
  <2>1. CASE ClaimSubmit(b)
    BY <1>1, <2>1 DEF ClaimSubmit, report
  <2>2. CASE ClaimPrepareError(b)
    BY <1>0, <2>2 DEF ClaimPrepareError, DoneWith
  <2>3. CASE ClaimAccepted(b)
    BY <1>0, <2>3 DEF ClaimAccepted, DoneWith
  <2>4. CASE ClaimRejected(b)
    BY <1>0, <2>4 DEF ClaimRejected, DoneWith
  <2>5. CASE ClaimUnknown(b)
    BY <1>0, <2>5 DEF ClaimUnknown, DoneWith
  <2> QED
    BY <2>1, <2>2, <2>3, <2>4, <2>5
<1>5. /\ r.amount = rep[b].amount /\ r.sweep = rep[b].sweep /\ r.claimable = rep[b].claimable
  BY <1>0, <1>4 DEF Reports
<1>6. TellInv(b)'
  <2>1. ~floor[b].known
    BY <1>1 DEF BuilderInv, TellInv
  <2> QED
    BY <1>1, <1>4, <1>5, <2>1, NotYetTold DEF BuilderInv
<1>7. ~rep[b].uncertain /\ ~target[b].made /\ rep[b].claim # "success"
  BY <1>1 DEF BuilderInv, ClaimInv
<1>8. /\ b \in todo' => ~r.uncertain /\ ~g.made
      /\ b \notin todo' => (g.made /\ g.unknown) \/ Settled(r)
      /\ r.claim = "success" => b \in claimed /\ g.made
  <2>1. CASE r = rep[b] /\ g = target[b] /\ b \in todo'
    BY <1>7, <2>1
  <2>2. CASE r = [rep[b] EXCEPT !.claim = "warning"] /\ g = target[b] /\ b \notin todo'
    BY <1>0, <2>2 DEF Reports, Settled, FinalStep
  <2>3. CASE r = [rep[b] EXCEPT !.claim = "skipped"] /\ g = target[b] /\ b \notin todo'
    BY <1>0, <1>7, <2>3 DEF Reports, Settled, FinalStep
  <2>4. CASE /\ r = [rep[b] EXCEPT !.claim = "success"] /\ g = [NoClaim EXCEPT !.made = TRUE]
             /\ b \notin todo' /\ reply[b] = "accepted"
    <3>1. b \in claimed
      BY <1>1, <2>4 DEF BuilderInv, ClaimInv
    <3> QED
      BY <1>0, <1>7, <2>4, <3>1 DEF Reports, Settled, FinalStep, NoClaim
  <2>5. CASE /\ r = [rep[b] EXCEPT !.uncertain = TRUE] /\ b \notin todo'
             /\ g = [NoClaim EXCEPT !.made = TRUE, !.unknown = TRUE]
    BY <1>0, <1>7, <2>5 DEF Reports, NoClaim
  <2> QED
    BY <1>4, <2>1, <2>2, <2>3, <2>4, <2>5
<1>9. ClaimInv(b)'
  <2>1. rep[b].claimable # Unseen /\ b \notin claimed => rep[b].claimable = reward[b]
    BY DEF BuilderInv, ClaimInv
  <2>2. reply[b] = "accepted" => b \in claimed
    BY <1>1 DEF BuilderInv, ClaimInv
  <2> QED
    BY <1>1, <1>4, <1>5, <1>8, <2>1, <2>2 DEF ClaimInv, Settled
<1> QED
  BY <1>3, <1>6, <1>9 DEF BuilderInv

LEMMA ObserveKeeps ==
  ASSUME TypeOK, NEW b \in Builders, BuilderInv(b), ObserveRead(b) \/ ObserveError(b)
  PROVE  BuilderInv(b)'
<1>0. rep \in [Builders -> Reports] /\ rep[b] \in Reports /\ target \in [Builders -> Targets]
      /\ target[b] \in Targets /\ floor \in [Builders -> Floors] /\ reward[b] \in Nat
      /\ loop[b] \in Loops
  BY DEF TypeOK
<1>1. /\ step = "observe" /\ b \in todo
      /\ UNCHANGED <<step, run, moved, sweep, reply, base, reward, claimed, flying>>
  BY DEF ObserveRead, ObserveError, money
<1>2. FlightInv(b)'
  BY <1>1, NotYetSwept DEF BuilderInv
<1>3. /\ target[b].made /\ (target[b].unknown \/ Settled(rep[b]))
      /\ rep[b].claim = "success" => b \in claimed
      /\ rep[b].claimable # Unseen /\ b \notin claimed => rep[b].claimable = reward[b]
      /\ floor[b].known => floor[b].total >= base[b].total + MinimumIncrease(b)
  BY <1>1 DEF BuilderInv, ClaimInv, TellInv
<1>4. ASSUME rep'[b].claimable = rep[b].claimable, rep'[b].amount = rep[b].amount,
             rep'[b].sweep = rep[b].sweep \/ rep'[b].sweep = "warning",
             floor'[b] = floor[b] \/ floor'[b].total >= base[b].total + MinimumIncrease(b),
             target'[b].made = target[b].made,
             (b \in todo' /\ target'[b].unknown) \/ Settled(rep'[b]),
             rep'[b].claim = "success" => b \in claimed
      PROVE  BuilderInv(b)'
  <2>1. MinimumIncrease(b)' = MinimumIncrease(b)
    BY <1>4 DEF MinimumIncrease
  <2>2. TellInv(b)'
    BY <1>1, <1>3, <1>4, <2>1, NotYetTold DEF BuilderInv
  <2>3. ClaimInv(b)'
    BY <1>1, <1>3, <1>4 DEF ClaimInv, Settled
  <2> QED
    BY <1>2, <2>2, <2>3 DEF BuilderInv
<1>5. ASSUME Exhausted(b) PROVE BuilderInv(b)'
  <2>1. rep'[b] = [rep[b] EXCEPT !.sweep = "warning", !.claim = "warning"] /\ UNCHANGED <<target, floor>>
    BY <1>0, <1>5 DEF Exhausted
  <2>2. /\ rep'[b].claimable = rep[b].claimable /\ rep'[b].amount = rep[b].amount
        /\ rep'[b].sweep = "warning" /\ rep'[b].claim = "warning"
    BY <1>0, <2>1 DEF Reports
  <2> QED
    BY <1>4, <2>1, <2>2 DEF Settled, FinalStep
<1>6. CASE ObserveError(b)
  <2>1. CASE Exhausted(b)
    BY <1>5, <2>1
  <2>2. CASE UNCHANGED <<rep, target, floor, todo>>
    BY <1>1, <1>3, <1>4, <2>2
  <2> QED
    BY <1>6, <2>1, <2>2 DEF ObserveError
<1>7. CASE ObserveRead(b)
  <2>1. PICK i \in Reads(b), hold \in Holds, c \in {reward[b], Unseen} :
       LET t == wallet[b][i]
           a == t - hold
           p == target[b].preSeen \/ PreState(b, t, a)
           s == IF Visible(b, t, p, c) THEN Stable(loop[b], t, a) ELSE 0
       IN  \/ s >= Confirmations /\ Converged(b, t)
           \/ /\ target' = [target EXCEPT ![b].preSeen = p]
              /\ UNCHANGED <<rep, floor, todo>>
           \/ Exhausted(b)
    BY <1>7, Zenon DEF ObserveRead
  <2> DEFINE t == wallet[b][i]
             p == target[b].preSeen \/ PreState(b, t, t - hold)
  <2>2. CASE Exhausted(b)
    BY <1>5, <2>2
  <2>3. CASE target' = [target EXCEPT ![b].preSeen = p] /\ UNCHANGED <<rep, floor, todo>>
    <3>1. target'[b].made = target[b].made /\ target'[b].unknown = target[b].unknown
      BY <1>0, <2>3 DEF Targets
    <3> QED
      BY <1>1, <1>3, <1>4, <2>3, <3>1
  <2>4. CASE Visible(b, t, p, c) /\ Converged(b, t)
    <3>1. t >= base[b].total + MinimumIncrease(b)
      BY <2>4 DEF Visible
    <3>2. floor'[b].total = t /\ target' = target
      BY <1>0, <2>4 DEF Converged, Floors
    <3>3. CASE target[b].unknown
      <4>1. rep'[b] = [rep[b] EXCEPT !.uncertain = FALSE, !.claim = "success"]
        BY <1>0, <2>4, <3>3 DEF Converged
      <4>2. /\ rep'[b].claimable = rep[b].claimable /\ rep'[b].amount = rep[b].amount
            /\ rep'[b].sweep = rep[b].sweep /\ rep'[b].claim = "success" /\ ~rep'[b].uncertain
        BY <1>0, <4>1 DEF Reports
      <4>3. rep[b].claimable # Unseen /\ c # Unseen /\ c < rep[b].claimable
        BY <2>4, <3>3 DEF Visible
      <4>4. reward[b] # rep[b].claimable
        BY <1>0, <4>3 DEF Unseen
      <4>5. b \in claimed
        BY <1>3, <4>3, <4>4
      <4> QED
        BY <1>4, <3>1, <3>2, <4>2, <4>5 DEF Settled, FinalStep
    <3>4. CASE ~target[b].unknown
      <4>1. rep' = rep
        BY <2>4, <3>4 DEF Converged
      <4> QED
        BY <1>3, <1>4, <3>1, <3>2, <3>4, <4>1
    <3> QED
      BY <3>3, <3>4
  <2>5. 0 < Confirmations
    OBVIOUS
  <2> QED
    BY <2>1, <2>2, <2>3, <2>4, <2>5
<1> QED
  BY <1>6, <1>7

-----------------------------------------------------------------------------
(* The sweep of a builder                                                  *)

LEMMA SweepEndsKeeps ==
  ASSUME TypeOK, NEW b \in Builders, BuilderInv(b), step = "sweep", sweep.builder = b,
         UNCHANGED <<step, run, moved, flying, base, target, floor, reward, claimed>>,
         NEW s, FinalStep(s), NEW n \in Nat, n <= moved[b], SweepEnds(b, s, n),
         s = "success" => /\ n = moved[b] /\ \A q \in flying : ~Mine(q, b)
                          /\ ~Unconverged(b) /\ (floor[b].known => Covers(n, b))
  PROVE  BuilderInv(b)'
<1>1. b \in todo /\ ~Done(b) /\ rep[b].amount = 0
  BY DEF BuilderInv, FlightInv, TellInv, Done
<1>2. /\ rep'[b].claimable = rep[b].claimable /\ rep'[b].claim = rep[b].claim
      /\ rep'[b].uncertain = rep[b].uncertain /\ rep'[b].sweep = s /\ rep'[b].amount = n
  BY <1>1, SweepEndsReport
<1>3. b \notin todo' /\ sweep'.builder # b /\ reply'[b] = "none"
  BY DEF SweepEnds, DoneWith, NoSweep, TypeOK
<1>4. \A q : Mine(q, b)' <=> Mine(q, b)
  BY DEF Mine
<1>5. ~Waiting(b)' /\ Done(b)'
  BY <1>3 DEF Waiting, Done
<1>6. FlightInv(b)'
  BY <1>3, <1>4, <1>5 DEF BuilderInv, FlightInv
<1>7. ClaimInv(b)'
  BY <1>2 DEF BuilderInv, ClaimInv, Settled
<1>8. Unconverged(b)' = Unconverged(b) /\ MinimumIncrease(b)' = MinimumIncrease(b)
      /\ Covers(n, b)' = Covers(n, b)
  BY <1>2 DEF Unconverged, MinimumIncrease, Covers
<1>9. TellInv(b)'
  BY <1>2, <1>4, <1>5, <1>8 DEF BuilderInv, TellInv, FinalStep
<1> QED
  BY <1>6, <1>7, <1>9 DEF BuilderInv

(* The sweep goes on: nothing is told yet.                                 *)
LEMMA SweepGoesOn ==
  ASSUME TypeOK, NEW b \in Builders, BuilderInv(b), step = "sweep", b \in todo, FlightInv(b)',
         UNCHANGED <<step, run, moved, todo, rep, base, target, floor, reward, claimed>>
  PROVE  BuilderInv(b)'
<1>1. ~Done(b) /\ ~Done(b)'
  BY DEF Done
<1>2. rep[b].sweep # "success"
  BY <1>1 DEF BuilderInv, TellInv
<1>3. ClaimInv(b)'
  BY DEF BuilderInv, ClaimInv, Settled
<1>4. MinimumIncrease(b)' = MinimumIncrease(b)
  BY DEF MinimumIncrease
<1>5. TellInv(b)'
  BY <1>1, <1>2, <1>4 DEF BuilderInv, TellInv
<1> QED
  BY <1>3, <1>5 DEF BuilderInv

LEMMA SweepAgainKeeps ==
  ASSUME TypeOK, NEW b \in Builders, BuilderInv(b), step = "sweep", sweep.builder = b,
         UNCHANGED <<step, run, moved, flying, base, target, floor, reward, claimed>>,
         NEW z \in Sweeps, z.builder = b, z.unknown, z.try = sweep.try, SweepAgain(b, z)
  PROVE  BuilderInv(b)'
<1>1. /\ sweep'.builder = b /\ sweep'.unknown /\ sweep'.try = sweep.try + 1 /\ ~sweep'.sent
      /\ reply'[b] = "none" /\ UNCHANGED <<rep, todo>> /\ sweep.try \in Nat
  BY DEF SweepAgain, Sweeps, TypeOK
<1>2. \A q : Mine(q, b)' <=> Mine(q, b)
  BY DEF Mine
<1>3. \A q \in flying : q.try \in Nat
  BY DEF TypeOK, Flight
<1>4. \A q \in flying : Mine(q, b) => q.try <= sweep'.try /\ q.try # sweep'.try
  BY <1>1, <1>3 DEF BuilderInv, FlightInv
<1>5. ~Waiting(b)' /\ b \in todo
  BY <1>1 DEF Waiting, BuilderInv, FlightInv
<1>6. FlightInv(b)'
  BY <1>1, <1>2, <1>4, <1>5 DEF BuilderInv, FlightInv
<1> QED
  BY <1>1, <1>5, <1>6, SweepGoesOn

LEMMA SweepKeeps ==
  ASSUME TypeOK, NEW b \in Builders, BuilderInv(b),
         SweepPick(b) \/ SweepRead(b) \/ SweepReadError(b) \/ SweepAccepted(b)
         \/ SweepRejected(b) \/ SweepUnknown(b)
  PROVE  BuilderInv(b)'
<1>0. /\ sweep \in Sweeps /\ loop[b] \in Loops /\ moved[b] \in Nat /\ floor[b] \in Floors
      /\ sweep.amount \in Nat /\ sweep.retry \in Nat
  BY DEF TypeOK, Sweeps
<1>1. step = "sweep" /\ UNCHANGED <<step, run, moved, base, target, floor, reward, claimed>>
  BY DEF SweepPick, SweepRead, SweepReadError, SweepAccepted, SweepRejected, SweepUnknown,
         report, money
<1>2. ASSUME sweep.builder = b, UNCHANGED flying, NEW s \in {"warning", "skipped"}, SweepEnds(b, s, 0)
      PROVE  BuilderInv(b)'
  BY <1>0, <1>1, <1>2, SweepEndsKeeps DEF FinalStep
<1>3. CASE SweepPick(b)
  <2>1. /\ sweep.builder # b /\ b \in todo /\ sweep' = [NoSweep EXCEPT !.builder = b]
        /\ UNCHANGED <<todo, rep, reply, flying>>
    BY <1>3 DEF SweepPick, report, money
  <2>2. moved[b] = 0 /\ reply[b] = "none" /\ \A q \in flying : ~Mine(q, b)
    BY <1>1, <2>1 DEF BuilderInv, FlightInv, Waiting
  <2>3. sweep'.builder = b /\ ~sweep'.unknown /\ ~sweep'.sent /\ sweep'.try = 1
    BY <2>1 DEF NoSweep
  <2>4. \A q : Mine(q, b)' <=> Mine(q, b)
    BY <1>1 DEF Mine
  <2>5. ~Waiting(b)'
    BY <1>1, <2>3 DEF Waiting
  <2>6. FlightInv(b)'
    BY <1>1, <2>1, <2>2, <2>3, <2>4, <2>5 DEF BuilderInv, FlightInv
  <2> QED
    BY <1>1, <2>1, <2>6, SweepGoesOn
<1>4. CASE SweepRead(b)
  <2>1. PICK i \in Reads(b), hold \in Holds :
       LET t == wallet[b][i]
           a == t - hold
           s == IF BelowFloor(b, t) THEN 0 ELSE Stable(loop[b], t, a)
       IN  /\ hold <= t
           /\ \/ s >= Confirmations /\ SweepWith(b, a)
              \/ UNCHANGED <<rep, todo, sweep, reply, flying>>
              \/ SweepEnds(b, "warning", 0) /\ UNCHANGED flying
    BY <1>4, Zenon DEF SweepRead
  <2>2. sweep.builder = b /\ ~sweep.sent
    BY <1>4 DEF SweepRead
  <2>3. b \in todo /\ reply[b] = "none" /\ (~sweep.unknown => moved[b] = 0 /\ sweep.try = 1)
    BY <1>1, <2>2 DEF BuilderInv, FlightInv
  <2>4. \A q : Mine(q, b)' <=> Mine(q, b)
    BY <1>1 DEF Mine
  <2> PICK t \in Nat : t = wallet[b][i]
    BY ReadTypes
  <2>5. hold \in Nat /\ hold <= t
    BY <2>1, Zenon
  <2> PICK a \in Nat : a = t - hold
    BY <2>5
  <2>6. CASE UNCHANGED <<rep, todo, sweep, reply, flying>>
    <3>1. FlightInv(b)'
      BY <1>1, <2>4, <2>6 DEF BuilderInv, FlightInv, Waiting, Covers
    <3> QED
      BY <1>1, <2>3, <2>6, <3>1, SweepGoesOn
  <2>7. CASE SweepEnds(b, "warning", 0) /\ UNCHANGED flying
    BY <1>2, <2>2, <2>7
  <2>8. CASE ~BelowFloor(b, t) /\ SweepWith(b, a)
    <3> PICK m \in Nat : m = IF sweep.unknown /\ sweep.retry > a THEN sweep.retry ELSE a
      BY <1>0
    <3>1. \/ /\ SweepEnds(b, IF Unconverged(b) THEN "warning" ELSE "skipped", 0)
             /\ UNCHANGED flying
          \/ IF sweep.unknown /\ sweep.try < SweepTries
             THEN SweepAgain(b, sweep) /\ UNCHANGED flying
             ELSE SweepEnds(b, "warning", 0) /\ UNCHANGED flying
          \/ /\ flying' = flying \cup {SpotSend(b, m)}
             /\ sweep' = [sweep EXCEPT !.amount = m, !.sent = TRUE]
             /\ UNCHANGED <<rep, todo, loop, reply>>
      BY <2>8 DEF SweepWith
    <3>2. CASE \E s \in {"warning", "skipped"} : SweepEnds(b, s, 0) /\ UNCHANGED flying
      BY <1>2, <2>2, <3>2
    <3>3. CASE sweep.unknown /\ SweepAgain(b, sweep) /\ UNCHANGED flying
      BY <1>0, <1>1, <2>2, <3>3, SweepAgainKeeps
    <3>4. CASE /\ flying' = flying \cup {SpotSend(b, m)}
               /\ sweep' = [sweep EXCEPT !.amount = m, !.sent = TRUE]
               /\ UNCHANGED <<rep, todo, loop, reply>>
      <4>1. /\ sweep'.builder = b /\ sweep'.unknown = sweep.unknown /\ sweep'.try = sweep.try
            /\ sweep'.sent /\ sweep'.amount = m /\ sweep.try \in 1..SweepTries
        BY <1>0, <2>2, <3>4 DEF Sweeps
      <4>2. /\ SpotSend(b, m).run = run /\ SpotSend(b, m).try = sweep.try
            /\ SpotSend(b, m).amount = m /\ run \in Nat
        BY DEF SpotSend, TypeOK
      <4>3. \A q \in flying : Mine(q, b) => q.try <= sweep.try /\ q.try # sweep.try
        BY <2>2 DEF BuilderInv, FlightInv
      <4>4. \A q \in flying' : Mine(q, b)' =>
              q.try <= sweep.try /\ q.try >= 1 /\ (q.try = sweep.try => q.amount = m)
        BY <2>4, <3>4, <4>1, <4>2, <4>3 DEF BuilderInv, FlightInv
      <4>5. \A q \in flying' : q.run <= run
        BY <3>4, <4>2 DEF BuilderInv, FlightInv
      <4>6. ~sweep.unknown /\ floor[b].known => Covers(m, b)
        <5> SUFFICES ASSUME ~sweep.unknown, floor[b].known PROVE Covers(m, b)
          OBVIOUS
        <5>1. ~(t < floor[b].total) /\ m = a
          BY <2>8 DEF BelowFloor
        <5>2. floor[b].total \in Nat
          BY <1>0 DEF Floors
        <5>3. m + hold >= floor[b].total
          BY <2>5, <5>1, <5>2
        <5> QED
          BY <5>3 DEF Covers
      <4>7. ~Waiting(b)' /\ (Covers(m, b)' <=> Covers(m, b))
        BY <1>1, <4>1 DEF Waiting, Covers
      <4>8. FlightInv(b)'
        BY <1>1, <2>3, <3>4, <4>1, <4>4, <4>5, <4>6, <4>7 DEF FlightInv
      <4> QED
        BY <1>1, <2>3, <3>4, <4>8, SweepGoesOn
    <3> QED
      BY <3>1, <3>2, <3>3, <3>4
  <2>9. 0 < Confirmations
    OBVIOUS
  <2> QED
    BY <2>1, <2>6, <2>7, <2>8, <2>9
<1>5. CASE SweepReadError(b)
  <2>1. sweep.builder = b /\ UNCHANGED flying
    BY <1>5 DEF SweepReadError, money
  <2>2. CASE SweepEnds(b, "warning", 0)
    BY <1>2, <2>1, <2>2
  <2>3. CASE UNCHANGED <<rep, todo, sweep, reply>>
    <3>1. \A q : Mine(q, b)' <=> Mine(q, b)
      BY <1>1 DEF Mine
    <3>2. FlightInv(b)' /\ b \in todo
      BY <1>1, <2>1, <2>3, <3>1 DEF BuilderInv, FlightInv, Waiting, Covers
    <3> QED
      BY <1>1, <2>3, <3>2, SweepGoesOn
  <2> QED
    BY <1>5, <2>2, <2>3 DEF SweepReadError
<1>6. CASE SweepAccepted(b)
  <2>1. sweep.builder = b /\ UNCHANGED flying /\ sweep.sent /\ reply[b] = "accepted"
    BY <1>6 DEF SweepAccepted, money
  <2>2. PICK s : /\ SweepEnds(b, s, sweep.amount)
                 /\ s = IF sweep.unknown \/ Unconverged(b) THEN "warning" ELSE "success"
    BY <1>6 DEF SweepAccepted
  <2>3. sweep.amount <= moved[b]
    BY <1>0, <2>1 DEF BuilderInv, FlightInv
  <2>4. s = "success" => /\ sweep.amount = moved[b] /\ \A q \in flying : ~Mine(q, b)
                         /\ ~Unconverged(b) /\ (floor[b].known => Covers(sweep.amount, b))
    BY <2>1, <2>2 DEF BuilderInv, FlightInv
  <2>5. FinalStep(s)
    BY <2>2 DEF FinalStep
  <2> QED
    BY <1>0, <1>1, <2>1, <2>2, <2>3, <2>4, <2>5, SweepEndsKeeps
<1>7. CASE SweepRejected(b)
  <2>1. sweep.builder = b /\ UNCHANGED flying
    BY <1>7 DEF SweepRejected, money
  <2>2. CASE SweepEnds(b, "warning", 0)
    BY <1>2, <2>1, <2>2
  <2>3. CASE sweep.unknown /\ SweepAgain(b, sweep)
    BY <1>0, <1>1, <2>1, <2>3, SweepAgainKeeps
  <2> QED
    BY <1>7, <2>2, <2>3 DEF SweepRejected
<1>8. CASE SweepUnknown(b)
  <2>1. sweep.builder = b /\ UNCHANGED flying
    BY <1>8 DEF SweepUnknown, money
  <2>2. CASE SweepEnds(b, "warning", 0)
    BY <1>2, <2>1, <2>2
  <2> PICK z : z = [sweep EXCEPT !.unknown = TRUE, !.retry = sweep.amount]
    OBVIOUS
  <2>3. CASE SweepAgain(b, z)
    <3>1. z \in Sweeps /\ z.builder = b /\ z.unknown /\ z.try = sweep.try
      BY <1>0, <2>1 DEF Sweeps
    <3> QED
      BY <1>1, <2>1, <2>3, <3>1, SweepAgainKeeps
  <2> QED
    BY <1>8, <2>2, <2>3 DEF SweepUnknown
<1> QED
  BY <1>3, <1>4, <1>5, <1>6, <1>7, <1>8

-----------------------------------------------------------------------------
(* From phase to phase                                                     *)

(* A run that ends leaves a blank report.                                  *)
LEMMA FinishKeeps ==
  ASSUME TypeOK, NEW b \in Builders, BuilderInv(b), Finish,
         UNCHANGED <<run, wallet, reward, flying, moved, claimed>>
  PROVE  BuilderInv(b)'
<1>1. /\ step' = "idle" /\ sweep'.builder # b /\ rep'[b] = Pending /\ base'[b] = NoBase
      /\ target'[b] = NoClaim /\ floor'[b] = NoFloor /\ moved[b] \in Nat
  BY DEF Finish, Enter, All, NoSweep, TypeOK
<1>2. \A q : Mine(q, b)' <=> Mine(q, b)
  BY DEF Mine
<1>3. ClaimInv(b)'
  BY <1>1 DEF ClaimInv, Fresh, Pending, Unseen
<1>4. FlightInv(b)'
  BY <1>1, <1>2 DEF BuilderInv, FlightInv, Waiting
<1>5. TellInv(b)'
  BY <1>1 DEF TellInv, Done, Pending, NoFloor
<1> QED
  BY <1>3, <1>4, <1>5 DEF BuilderInv

(* What a phase before the sweeps hands on to the next.                    *)
LEMMA EnterKeeps ==
  ASSUME TypeOK, NEW b \in Builders, BuilderInv(b),
         step \in {"token", "capture", "record", "baseline", "claim", "observe"},
         NEW s \in {"capture", "record", "baseline", "claim", "observe", "sweep"}, NEW W,
         Enter(s, W), s = "sweep" => b \in W, step = "observe" => s = "sweep",
         UNCHANGED <<run, reward, flying, moved, claimed, base, target, floor>>,
         rep'[b].amount = rep[b].amount, rep'[b].sweep = rep[b].sweep,
         rep'[b].claimable = rep[b].claimable, ClaimInv(b)'
  PROVE  BuilderInv(b)'
<1>1. step' = s /\ todo' = W /\ sweep'.builder # b /\ reply'[b] = "none" /\ moved[b] \in Nat
  BY DEF Enter, NoSweep, All, TypeOK
<1>2. \A q : Mine(q, b)' <=> Mine(q, b)
  BY DEF Mine
<1>3. moved[b] = 0 /\ \A q \in flying : ~Mine(q, b)
  BY DEF BuilderInv, FlightInv, Waiting
<1>4. FlightInv(b)'
  BY <1>1, <1>2, <1>3 DEF BuilderInv, FlightInv
<1>5. ~Done(b) /\ ~Done(b)'
  BY <1>1 DEF Done
<1>6. MinimumIncrease(b)' = MinimumIncrease(b)
  BY DEF MinimumIncrease
<1>7. s # "sweep" => ~floor[b].known
  BY DEF BuilderInv, TellInv
<1>8. TellInv(b)'
  BY <1>1, <1>3, <1>5, <1>6, <1>7 DEF BuilderInv, TellInv
<1> QED
  BY <1>4, <1>8 DEF BuilderInv

LEMMA PhaseKeeps ==
  ASSUME TypeOK, NEW b \in Builders, BuilderInv(b),
         Start \/ TokenFound \/ TokenError \/ EndCapture \/ SaveCaptured \/ EndBaseline
         \/ EndClaim \/ EndObserve \/ EndSweep \/ SaveCompleted \/ Crash
  PROVE  BuilderInv(b)'
<1>0. rep \in [Builders -> Reports] /\ rep[b] \in Reports
  BY DEF TypeOK
<1>1. CASE Start
  <2>1. /\ step = "idle" /\ step' = "token" /\ run' = run + 1 /\ moved'[b] = 0 /\ run \in Nat
        /\ sweep'.builder # b /\ UNCHANGED <<rep, base, target, floor, flying>>
    BY <1>1 DEF Start, Enter, NoSweep, All, report, TypeOK
  <2>2. Fresh(b)
    BY <2>1 DEF BuilderInv, ClaimInv
  <2>3. \A q \in flying : q.run \in Nat /\ q.run <= run
    BY DEF BuilderInv, FlightInv, TypeOK, Flight
  <2>4. \A q \in flying : q.run <= run' /\ ~Mine(q, b)'
    BY <2>1, <2>3 DEF Mine
  <2>5. FlightInv(b)'
    BY <2>1, <2>4 DEF FlightInv, Waiting
  <2>6. ClaimInv(b)'
    BY <2>1, <2>2 DEF ClaimInv, Fresh, Pending, Unseen
  <2>7. TellInv(b)'
    BY <2>1, <2>2 DEF TellInv, Done, Fresh, Pending, NoFloor
  <2> QED
    BY <2>5, <2>6, <2>7 DEF BuilderInv
<1>2. CASE TokenFound
  <2>1. step = "token" /\ Enter("capture", Builders)
        /\ UNCHANGED <<rep, base, target, floor, run, reward, flying, moved, claimed>>
    BY <1>2 DEF TokenFound, report, money
  <2>2. Fresh(b) /\ step' = "capture"
    BY <2>1 DEF BuilderInv, ClaimInv, Enter
  <2>3. ClaimInv(b)'
    BY <2>1, <2>2 DEF ClaimInv, Fresh, Pending, Unseen
  <2> QED
    BY <2>1, <2>3, EnterKeeps
<1>3. ASSUME Enter("baseline", {c \in Builders : Eligible(rep[c])}), step \in {"capture", "record"},
             UNCHANGED <<rep, base, target, floor, run, reward, flying, moved, claimed>>
      PROVE  BuilderInv(b)'
  <2>1. step' = "baseline" /\ (b \notin todo' => ~Eligible(rep[b]))
    BY <1>3 DEF Enter
  <2>2. rep[b].claim \in {"pending", "warning"} /\ ~rep[b].uncertain /\ target[b] = NoClaim
    BY <1>3 DEF BuilderInv, ClaimInv
  <2>3. Eligible(rep[b])' <=> Eligible(rep[b])
    BY <1>3 DEF Eligible
  <2>4. ClaimInv(b)'
    BY <1>3, <2>1, <2>2, <2>3 DEF BuilderInv, ClaimInv
  <2> QED
    BY <1>3, <2>4, EnterKeeps
<1>4. CASE EndCapture
  <2>1. step = "capture" /\ UNCHANGED <<rep, base, target, floor, run, reward, flying, moved, claimed>>
    BY <1>4 DEF EndCapture, report, money
  <2>2. CASE Enter("record", {})
    <3>1. step' = "record"
      BY <2>2 DEF Enter
    <3>2. ClaimInv(b)'
      BY <2>1, <3>1 DEF BuilderInv, ClaimInv
    <3> QED
      BY <2>1, <2>2, <3>2, EnterKeeps
  <2> QED
    BY <1>3, <1>4, <2>1, <2>2 DEF EndCapture
<1>5. CASE SaveCaptured
  <2>1. step = "record" /\ UNCHANGED <<run, wallet, reward, flying, moved, claimed>>
    BY <1>5 DEF SaveCaptured, money
  <2>2. CASE Finish
    BY <2>1, <2>2, FinishKeeps
  <2>3. CASE Enter("baseline", {c \in Builders : Eligible(rep[c])}) /\ UNCHANGED report
    BY <1>3, <2>1, <2>3 DEF report
  <2> QED
    BY <1>5, <2>2, <2>3 DEF SaveCaptured
<1>6. CASE EndBaseline
  <2>1. /\ step = "baseline" /\ todo = {} /\ Enter("claim", {c \in Builders : base[c].known})
        /\ rep'[b] = IF Eligible(rep[b]) THEN rep[b] ELSE [rep[b] EXCEPT !.claim = "skipped"]
        /\ UNCHANGED <<base, target, floor, run, reward, flying, moved, claimed>>
    BY <1>6 DEF EndBaseline, money
  <2>2. /\ rep[b].claim \in {"pending", "warning"} /\ ~rep[b].uncertain /\ target[b] = NoClaim
        /\ Eligible(rep[b]) => base[b].known \/ rep[b].claim = "warning"
        /\ rep[b].claimable # Unseen /\ b \notin claimed => rep[b].claimable = reward[b]
    BY <2>1 DEF BuilderInv, ClaimInv
  <2>3. step' = "claim" /\ (b \in todo' <=> base[b].known) /\ reply'[b] = "none"
    BY <2>1 DEF Enter, All
  <2>4. /\ rep'[b].amount = rep[b].amount /\ rep'[b].sweep = rep[b].sweep
        /\ rep'[b].claimable = rep[b].claimable /\ rep'[b].uncertain = rep[b].uncertain
        /\ rep'[b].claim = IF Eligible(rep[b]) THEN rep[b].claim ELSE "skipped"
    BY <1>0, <2>1 DEF Reports
  <2>5. ClaimInv(b)'
    BY <2>1, <2>2, <2>3, <2>4 DEF ClaimInv, Settled, FinalStep, NoClaim
  <2> QED
    BY <2>1, <2>4, <2>5, EnterKeeps
<1>7. CASE EndClaim
  <2>1. /\ step = "claim" /\ todo = {} /\ Enter("observe", {c \in Builders : target[c].made})
        /\ UNCHANGED <<rep, base, target, floor, run, reward, flying, moved, claimed>>
    BY <1>7 DEF EndClaim, report, money
  <2>2. step' = "observe" /\ (b \in todo' <=> target[b].made)
    BY <2>1 DEF Enter
  <2>3. (target[b].made /\ target[b].unknown) \/ Settled(rep[b])
    BY <2>1 DEF BuilderInv, ClaimInv
  <2>4. ClaimInv(b)'
    BY <2>1, <2>2, <2>3 DEF BuilderInv, ClaimInv, Settled
  <2> QED
    BY <2>1, <2>4, EnterKeeps
<1>8. CASE EndObserve
  <2>1. /\ step = "observe" /\ todo = {} /\ Enter("sweep", Builders)
        /\ UNCHANGED <<rep, base, target, floor, run, reward, flying, moved, claimed>>
    BY <1>8 DEF EndObserve, report, money
  <2>2. step' = "sweep" /\ Settled(rep[b])
    BY <2>1 DEF Enter, BuilderInv, ClaimInv
  <2>3. ClaimInv(b)'
    BY <2>1, <2>2 DEF BuilderInv, ClaimInv, Settled
  <2> QED
    BY <2>1, <2>3, EnterKeeps
<1>9. CASE EndSweep
  <2>1. step = "sweep" /\ todo = {} /\ UNCHANGED <<run, wallet, reward, flying, moved, claimed>>
    BY <1>9 DEF EndSweep, money
  <2>2. CASE Finish
    BY <2>1, <2>2, FinishKeeps
  <2>3. CASE Enter("complete", {}) /\ UNCHANGED report
    <3>1. step' = "complete" /\ sweep'.builder # b /\ UNCHANGED <<rep, base, target, floor>>
      BY <2>3 DEF Enter, NoSweep, report
    <3>2. Done(b) /\ Done(b)' /\ ~Waiting(b)'
      BY <2>1, <3>1 DEF Done, Waiting
    <3>3. \A q : Mine(q, b)' <=> Mine(q, b)
      BY <2>1 DEF Mine
    <3>4. FlightInv(b)'
      BY <2>1, <3>1, <3>2, <3>3 DEF BuilderInv, FlightInv
    <3>5. ClaimInv(b)'
      BY <2>1, <3>1 DEF BuilderInv, ClaimInv, Settled
    <3>6. Unconverged(b)' = Unconverged(b) /\ MinimumIncrease(b)' = MinimumIncrease(b)
          /\ \A n : Covers(n, b)' <=> Covers(n, b)
      BY <3>1 DEF Unconverged, MinimumIncrease, Covers
    <3>7. TellInv(b)'
      BY <2>1, <3>1, <3>2, <3>3, <3>6 DEF BuilderInv, TellInv, FinalStep
    <3> QED
      BY <3>4, <3>5, <3>7 DEF BuilderInv
  <2> QED
    BY <1>9, <2>2, <2>3 DEF EndSweep
<1>10. CASE TokenError \/ SaveCompleted \/ Crash
  BY <1>10, FinishKeeps DEF TokenError, SaveCompleted, Crash, money
<1> QED
  BY <1>1, <1>2, <1>4, <1>5, <1>6, <1>7, <1>8, <1>9, <1>10

-----------------------------------------------------------------------------
(* The world                                                               *)

(* A request leaves the network and moves nothing of this builder.         *)
LEMMA AnswerKeeps ==
  ASSUME TypeOK, NEW b \in Builders, BuilderInv(b), flying' \subseteq flying, moved'[b] = moved[b],
         UNCHANGED <<step, run, todo, rep, base, target, floor, sweep>>,
         claimed \subseteq claimed', reward'[b] = reward[b] \/ b \in claimed',
         \/ reply'[b] = reply[b]
         \/ step = "claim" /\ (reply'[b] = "accepted" => b \in claimed')
         \/ /\ step = "sweep" /\ sweep.builder = b /\ sweep.sent /\ reply'[b] # "accepted"
            /\ ~sweep.unknown => reply[b] # "accepted"
  PROVE  BuilderInv(b)'
<1>1. \A q : Mine(q, b)' <=> Mine(q, b)
  BY DEF Mine
<1>2. (Waiting(b)' <=> Waiting(b)) /\ (Done(b)' <=> Done(b)) /\ \A n : Covers(n, b)' <=> Covers(n, b)
  BY DEF Waiting, Done, Covers
<1>3. Unconverged(b)' = Unconverged(b) /\ MinimumIncrease(b)' = MinimumIncrease(b)
  BY DEF Unconverged, MinimumIncrease
<1>4. ClaimInv(b)'
  BY DEF BuilderInv, ClaimInv, Fresh, Settled, FinalStep, Eligible
<1>5. TellInv(b)'
  BY <1>1, <1>2, <1>3 DEF BuilderInv, TellInv, FinalStep
<1>6. FlightInv(b)'
  BY <1>1, <1>2 DEF BuilderInv, FlightInv
<1> QED
  BY <1>4, <1>5, <1>6 DEF BuilderInv

(* A sweep of this run moves its amount.                                   *)
LEMMA SendKeeps ==
  ASSUME TypeOK, NEW b \in Builders, BuilderInv(b), NEW q \in flying, Mine(q, b),
         flying' = flying \ {q}, moved'[b] = moved[b] + q.amount,
         Answer(q, "accepted"),
         UNCHANGED <<step, run, todo, rep, base, target, floor, sweep, reward, claimed>>
  PROVE  BuilderInv(b)'
<1>0. /\ moved[b] \in Nat /\ q.amount \in Nat /\ q.try \in Nat /\ reply \in [Builders -> Replies]
      /\ sweep.amount \in Nat /\ sweep.try \in Nat /\ rep[b].amount \in Nat
  <2>1. sweep \in Sweeps /\ rep[b] \in Reports /\ q \in Flight /\ moved[b] \in Nat
        /\ reply \in [Builders -> Replies]
    BY DEF TypeOK
  <2> QED
    BY <2>1, ConsolidationAssumption DEF Flight, Sweeps, Reports
<1>1. \A r : Mine(r, b)' <=> Mine(r, b)
  BY DEF Mine
<1>2. (Waiting(b)' <=> Waiting(b)) /\ (Done(b)' <=> Done(b)) /\ \A n : Covers(n, b)' <=> Covers(n, b)
  BY DEF Waiting, Done, Covers
<1>3. Unconverged(b)' = Unconverged(b) /\ MinimumIncrease(b)' = MinimumIncrease(b)
  BY DEF Unconverged, MinimumIncrease
<1>4. ~Waiting(b) /\ rep[b].sweep # "success"
  BY DEF BuilderInv, FlightInv, TellInv
<1>5. TellInv(b)'
  <2>1. rep[b].amount <= moved'[b]
    BY <1>0 DEF BuilderInv, TellInv
  <2> QED
    BY <1>1, <1>2, <1>3, <1>4, <2>1 DEF BuilderInv, TellInv, FinalStep
<1>6. reply'[b] = IF step = "sweep" /\ sweep.builder = b /\ sweep.sent /\ sweep.try = q.try
                  THEN "accepted" ELSE reply[b]
  BY <1>0 DEF Answer, Awaited, Mine
<1>7. ClaimInv(b)'
  BY <1>6 DEF BuilderInv, ClaimInv, Fresh, Settled, FinalStep, Eligible
<1>8. FlightInv(b)'
  <2>1. CASE sweep.builder # b
    BY <1>1, <1>2, <1>4, <1>6, <2>1 DEF BuilderInv, FlightInv
  <2>2. CASE sweep.builder = b /\ sweep.unknown
    <3>1. sweep.sent /\ reply'[b] = "accepted" => moved'[b] >= sweep.amount
      BY <1>0, <1>6, <2>2 DEF BuilderInv, FlightInv
    <3> QED
      BY <1>1, <1>2, <1>4, <1>6, <2>2, <3>1 DEF BuilderInv, FlightInv
  <2>3. CASE sweep.builder = b /\ ~sweep.unknown
    <3>1. step = "sweep" /\ sweep.try = 1 /\ q.try = 1 /\ sweep.sent /\ q.amount = sweep.amount
      BY <1>0, <2>3 DEF BuilderInv, FlightInv
    <3>2. reply'[b] = "accepted" /\ moved[b] = 0
      BY <1>6, <2>3, <3>1 DEF BuilderInv, FlightInv
    <3>3. moved'[b] = sweep.amount
      BY <1>0, <3>1, <3>2
    <3>4. \A r \in flying' : ~Mine(r, b)
      <4> SUFFICES ASSUME NEW r \in flying, Mine(r, b) PROVE r = q
        OBVIOUS
      <4>1. r.try \in Nat /\ r.try <= 1 /\ r.try >= 1 /\ (r.try = 1 => r.amount = sweep.amount)
        BY <2>3, <3>1 DEF BuilderInv, FlightInv, TypeOK, Flight
      <4>2. r.try = q.try /\ r.amount = q.amount /\ r.kind = q.kind /\ r.run = q.run
            /\ r.builder = q.builder
        BY <3>1, <4>1 DEF Mine
      <4>3. r \in Flight /\ q \in Flight
        BY DEF TypeOK
      <4> QED
        BY <4>2, <4>3 DEF Flight
    <3>5. \A r \in flying' : r.run <= run
      BY DEF BuilderInv, FlightInv
    <3>6. b \in todo /\ (floor[b].known => Covers(sweep.amount, b))
      BY <2>3, <3>1 DEF BuilderInv, FlightInv
    <3>7. \A r \in flying' : ~Mine(r, b)'
      BY <1>1, <3>4
    <3>8. (floor[b].known => Covers(sweep.amount, b))'
      BY <1>2, <3>6
    <3>9. moved'[b] >= sweep.amount
      BY <1>0, <3>3
    <3> QED
      BY <1>2, <1>4, <2>3, <3>1, <3>2, <3>3, <3>5, <3>6, <3>7, <3>8, <3>9 DEF FlightInv
  <2> QED
    BY <2>1, <2>2, <2>3
<1> QED
  BY <1>5, <1>7, <1>8 DEF BuilderInv

LEMMA WorldKeeps ==
  ASSUME TypeOK, NEW b \in Builders, BuilderInv(b),
         Credit \/ ExchangeClaims \/ ExchangeSends \/ ExchangeRefuses \/ LoseRequest
  PROVE  BuilderInv(b)'
<1>0. reply \in [Builders -> Replies] /\ flying \subseteq Flight /\ moved \in [Builders -> Nat]
      /\ reward \in [Builders -> Nat]
  BY DEF TypeOK
<1>1. UNCHANGED <<step, run, todo, rep, base, target, floor, sweep>>
  BY DEF Credit, ExchangeClaims, ExchangeSends, ExchangeRefuses, LoseRequest, report, local
<1>2. CASE Credit \/ LoseRequest
  BY <1>1, <1>2, AnswerKeeps DEF Credit, LoseRequest, local
<1>3. CASE ExchangeClaims
  <2>1. PICK q \in flying :
          /\ q.kind = "claim" /\ flying' = flying \ {q} /\ reward' = [reward EXCEPT ![q.builder] = 0]
          /\ claimed' = claimed \cup {q.builder} /\ Answer(q, "accepted") /\ UNCHANGED moved
    BY <1>3 DEF ExchangeClaims
  <2>2. reply'[b] = reply[b] \/ (step = "claim" /\ b \in claimed')
    BY <1>0, <2>1 DEF Answer, Awaited
  <2>3. reward'[b] = reward[b] \/ b \in claimed'
    BY <1>0, <2>1
  <2> QED
    BY <1>1, <2>1, <2>2, <2>3, AnswerKeeps
<1>4. CASE ExchangeSends
  <2>1. PICK q \in flying :
          /\ q.kind = "sweep" /\ flying' = flying \ {q} /\ Answer(q, "accepted")
          /\ moved' = IF q.run = run THEN [moved EXCEPT ![q.builder] = @ + q.amount] ELSE moved
          /\ UNCHANGED <<reward, claimed>>
    BY <1>4 DEF ExchangeSends
  <2>2. CASE Mine(q, b)
    <3>1. moved'[b] = moved[b] + q.amount
      BY <1>0, <2>1, <2>2 DEF Mine
    <3> QED
      BY <1>1, <2>1, <2>2, <3>1, SendKeeps
  <2>3. CASE ~Mine(q, b)
    <3>1. moved'[b] = moved[b]
      BY <1>0, <2>1, <2>3 DEF Mine
    <3>2. reply'[b] = reply[b]
      BY <1>0, <2>1, <2>3 DEF Mine, Answer, Awaited
    <3> QED
      BY <1>1, <2>1, <3>1, <3>2, AnswerKeeps
  <2> QED
    BY <2>2, <2>3
<1>5. CASE ExchangeRefuses
  <2>1. PICK q \in flying, x \in {"below", "rejected"} : flying' = flying \ {q} /\ Answer(q, x)
    BY <1>5 DEF ExchangeRefuses
  <2>2. UNCHANGED <<moved, reward, claimed>>
    BY <1>5 DEF ExchangeRefuses
  <2>3. \/ reply'[b] = reply[b]
        \/ step = "claim" /\ reply'[b] # "accepted"
        \/ step = "sweep" /\ sweep.builder = b /\ sweep.sent /\ reply'[b] # "accepted" /\ Mine(q, b)
    BY <1>0, <2>1 DEF Answer, Awaited, Mine
  <2>4. Mine(q, b) /\ sweep.builder = b /\ sweep.sent /\ ~sweep.unknown => reply[b] # "accepted"
    BY DEF BuilderInv, FlightInv
  <2> QED
    BY <1>1, <2>1, <2>2, <2>3, <2>4, AnswerKeeps
<1> QED
  BY <1>2, <1>3, <1>4, <1>5

LEMMA BuilderKeeps ==
  TypeOK /\ (\A b \in Builders : BuilderInv(b)) /\ [Next]_vars => (\A b \in Builders : BuilderInv(b))'
<1> SUFFICES ASSUME TypeOK, \A b \in Builders : BuilderInv(b), [Next]_vars, NEW c \in Builders
             PROVE  BuilderInv(c)'
  OBVIOUS
<1>1. CASE UNCHANGED vars
  <2>1. UNCHANGED <<step, run, todo, rep, base, target, floor, sweep, reply, flying, moved, claimed,
                    reward>>
    BY <1>1 DEF vars, report, local, money
  <2> QED
    BY <2>1, AnswerKeeps
<1>2. ASSUME NEW b \in Builders, BuilderStep(b) PROVE BuilderInv(c)'
  <2>1. CASE c # b
    BY <1>2, <2>1, BuilderFrame, OthersKept
  <2>2. CASE c = b
    BY <1>2, <2>2, CaptureKeeps, ClaimKeeps, ObserveKeeps, SweepKeeps DEF BuilderStep
  <2> QED
    BY <2>1, <2>2
<1> QED
  BY <1>1, <1>2, PhaseKeeps, WorldKeeps DEF Next, Process, World

LEMMA BuilderAlways == Spec => [](TypeOK /\ \A b \in Builders : BuilderInv(b))
<1>1. Init => \A b \in Builders : BuilderInv(b)
  <2> SUFFICES ASSUME Init, NEW b \in Builders PROVE BuilderInv(b)
    OBVIOUS
  <2>1. /\ step = "idle" /\ flying = {} /\ sweep.builder # b /\ moved[b] = 0
        /\ rep[b] = Pending /\ base[b] = NoBase /\ target[b] = NoClaim /\ floor[b] = NoFloor
    BY DEF Init, All, NoSweep
  <2>2. ClaimInv(b)
    BY <2>1 DEF ClaimInv, Fresh, Pending, Unseen
  <2>3. FlightInv(b)
    BY <2>1 DEF FlightInv, Waiting
  <2>4. TellInv(b)
    BY <2>1 DEF TellInv, Done, Pending, NoFloor
  <2> QED
    BY <2>2, <2>3, <2>4 DEF BuilderInv
<1> QED
  BY <1>1, BuilderKeeps, ConsolidationTypeCorrect, PTL DEF Spec

(* The reported sweep never exceeds what the run's requests have moved,    *)
(* and a sweep reported as success reports all of it, whatever is lost,    *)
(* late or answered twice (sweepBuilderBalances, markSweepSucceeded).      *)
THEOREM SweepsAreTold == Spec => []SweepIsTold
<1>1. (\A b \in Builders : BuilderInv(b)) => SweepIsTold
  BY DEF BuilderInv, TellInv, SweepIsTold
<1> QED
  BY <1>1, BuilderAlways, PTL

(* A claim reported as success has been paid: neither a credit of others   *)
(* nor an index that lags settles an unknown submission                    *)
(* (claimBuilderRewards, observeClaimBalances).                            *)
THEOREM ClaimsArePaid == Spec => []ClaimIsPaid
<1>1. (\A b \in Builders : BuilderInv(b)) => ClaimIsPaid
  BY DEF BuilderInv, ClaimInv, ClaimIsPaid
<1> QED
  BY <1>1, BuilderAlways, PTL

(* When claim and sweep are both reported as success, the sweep contains   *)
(* the reward, for every age of the balances that are read                 *)
(* (loadSweepBalance).                                                     *)
THEOREM RewardsAreSwept == Spec => []RewardIsSwept
<1>1. TypeOK /\ (\A b \in Builders : BuilderInv(b)) => RewardIsSwept
  <2> SUFFICES ASSUME TypeOK, NEW b \in Builders, BuilderInv(b),
                      rep[b].claim = "success", rep[b].sweep = "success"
               PROVE  \E hold \in Holds : rep[b].amount + hold >= base[b].total + MinimumIncrease(b)
    BY DEF RewardIsSwept
  <2>1. floor[b].known
    BY DEF BuilderInv, ClaimInv, TellInv, Unconverged
  <2>2. floor[b].total >= base[b].total + MinimumIncrease(b)
    BY <2>1 DEF BuilderInv, TellInv
  <2>3. PICK hold \in Holds : rep[b].amount + hold >= floor[b].total
    BY <2>1 DEF BuilderInv, TellInv, Covers
  <2>4. floor[b].total \in Nat /\ base[b].total \in Nat /\ rep[b].amount \in Nat /\ hold \in Nat
    BY DEF TypeOK, Floors, Bases, Reports
  <2>5. MinimumIncrease(b) \in Int
    <3>1. rep[b].claimable # Unseen => rep[b].claimable \in Nat
      BY DEF TypeOK, Reports
    <3> QED
      BY <3>1 DEF MinimumIncrease
  <2>6. rep[b].amount + hold >= base[b].total + MinimumIncrease(b)
    BY <2>2, <2>3, <2>4, <2>5
  <2> QED
    BY <2>6
<1> QED
  BY <1>1, BuilderAlways, PTL

(* Whatever failed on the way, the report at the end of a run passes the   *)
(* validation SaveDailyConsolidation makes of a completed record           *)
(* (DailyConsolidation.Validate).                                          *)
THEOREM CompletedStaysValid == Spec => []CompletedIsValid
<1>1. (\A b \in Builders : BuilderInv(b)) => CompletedIsValid
  BY DEF BuilderInv, ClaimInv, TellInv, Settled, Done, CompletedIsValid, ValidCompleted, FinalStep
<1> QED
  BY <1>1, BuilderAlways, PTL

-----------------------------------------------------------------------------
(* Every consolidation winds down.  The phases are counted down; inside    *)
(* one, every builder still to do has its rounds of submission and, in     *)
(* each, the queries left to it.                                           *)

Phase ==
  CASE step = "token"    -> 8
    [] step = "capture"  -> 7
    [] step = "record"   -> 6
    [] step = "baseline" -> 5
    [] step = "claim"    -> 4
    [] step = "observe"  -> 3
    [] step = "sweep"    -> 2
    [] step = "complete" -> 1
    [] OTHER             -> 0

Rounds(b) ==
  IF step # "sweep" THEN 0
  ELSE IF sweep.builder = b THEN SweepTries - sweep.try ELSE SweepTries

Remaining(limit, tries) == IF tries < limit THEN limit - tries ELSE 0

Queries(b) ==
  CASE step = "capture"  -> Remaining(ClaimableTries, loop[b].tries)
    [] step = "baseline" -> Remaining(BaselineTries, loop[b].tries)
    [] step = "claim"    -> IF Sent(b) THEN 0 ELSE 1
    [] step = "observe"  -> Remaining(ObserveTries, loop[b].tries)
    [] step = "sweep"    -> IF sweep.builder = b /\ sweep.sent THEN 0
                            ELSE 1 + Remaining(SweepReads, loop[b].tries)
    [] OTHER             -> 0

Nearer(b) == Rounds(b)' < Rounds(b) \/ (Rounds(b)' = Rounds(b) /\ Queries(b)' < Queries(b))

(* A builder is done with, or comes nearer to it.                          *)
Progress(b) == b \in todo /\ (todo' = todo \ {b} \/ (todo' = todo /\ Nearer(b)))

(* A phase ends, or one of its builders makes progress while the others    *)
(* stay where they are.                                                    *)
Advances ==
  \/ Phase' < Phase
  \/ /\ Phase' = Phase
     /\ \E b \in Builders :
          Progress(b) /\ \A c \in Builders \ {b} : UNCHANGED <<Rounds(c), Queries(c)>>

LEMMA RankType ==
  ASSUME TypeOK PROVE Phase \in 0..8 /\ \A b \in Builders : Rounds(b) \in Nat /\ Queries(b) \in Nat
<1>1. Phase \in 0..8
  BY DEF Phase
<1>2. ASSUME NEW b \in Builders PROVE Rounds(b) \in Nat /\ Queries(b) \in Nat
  <2>1. loop[b].tries \in Nat /\ sweep.try \in 1..SweepTries
    BY DEF TypeOK, Loops, Sweeps
  <2>2. Rounds(b) \in Nat
    BY <2>1 DEF Rounds
  <2>3. \A limit \in Nat : Remaining(limit, loop[b].tries) \in Nat
    BY <2>1 DEF Remaining
  <2>4. Queries(b) \in Nat
    BY <2>3 DEF Queries
  <2> QED
    BY <2>2, <2>4
<1> QED
  BY <1>1, <1>2

(* One query more.                                                         *)
LEMMA OneMore ==
  ASSUME TypeOK, NEW b \in Builders, NEW limit \in Nat, loop[b].tries + 1 < limit,
         Again(b) \/ \E s, t, a : loop' = [loop EXCEPT ![b] = Looped(b, s, t, a)]
  PROVE  Remaining(limit, loop'[b].tries) < Remaining(limit, loop[b].tries)
<1>1. loop[b].tries \in Nat
  BY DEF TypeOK, Loops
<1>2. loop'[b].tries = loop[b].tries + 1
  <2>1. loop \in [Builders -> Loops]
    BY DEF TypeOK
  <2>2. CASE Again(b)
    BY <2>1, <2>2 DEF Again, NoLoop
  <2>3. CASE \E s, t, a : loop' = [loop EXCEPT ![b] = Looped(b, s, t, a)]
    <3>1. PICK s, t, a : loop' = [loop EXCEPT ![b] = Looped(b, s, t, a)]
      BY <2>3
    <3>2. loop'[b] = Looped(b, s, t, a)
      BY <2>1, <3>1
    <3> QED
      BY <3>2 DEF Looped
  <2> QED
    BY <2>2, <2>3
<1> QED
  BY <1>1, <1>2 DEF Remaining

LEMMA QueryProgress ==
  ASSUME TypeOK, NEW b \in Builders,
         \/ CaptureRead(b) \/ CaptureError(b) \/ BaselineRead(b) \/ BaselineError(b)
         \/ ObserveRead(b) \/ ObserveError(b)
  PROVE  Progress(b)
<1>1. step \in {"capture", "baseline", "observe"} /\ step' = step /\ b \in todo
  BY DEF CaptureRead, CaptureError, BaselineRead, BaselineError, ObserveRead, ObserveError
<1>2. CASE DoneWith(b)
  BY <1>1, <1>2 DEF DoneWith, Progress
<1>3. ASSUME NEW limit \in Nat, loop[b].tries + 1 < limit, todo' = todo,
             Again(b) \/ \E s, t, a : loop' = [loop EXCEPT ![b] = Looped(b, s, t, a)],
             \/ step = "capture" /\ limit = ClaimableTries
             \/ step = "baseline" /\ limit = BaselineTries
             \/ step = "observe" /\ limit = ObserveTries
      PROVE  Progress(b)
  <2>1. Remaining(limit, loop'[b].tries) < Remaining(limit, loop[b].tries)
    BY <1>3, OneMore
  <2>2. Rounds(b)' = Rounds(b)
    BY <1>1 DEF Rounds
  <2>3. Queries(b) = Remaining(limit, loop[b].tries) /\ Queries(b)' = Remaining(limit, loop'[b].tries)
    BY <1>1, <1>3 DEF Queries
  <2> QED
    BY <1>1, <1>3, <2>1, <2>2, <2>3 DEF Progress, Nearer
<1>4. CASE CaptureRead(b) \/ CaptureError(b)
  BY <1>2, <1>3, <1>4 DEF CaptureRead, CaptureError
<1>5. CASE BaselineRead(b)
  <2>1. \/ DoneWith(b)
        \/ /\ loop[b].tries + 1 < BaselineTries /\ todo' = todo
           /\ \E s, t, a : loop' = [loop EXCEPT ![b] = Looped(b, s, t, a)]
    BY <1>5, Zenon DEF BaselineRead, BaselineMissing
  <2> QED
    BY <1>2, <1>3, <1>5, <2>1 DEF BaselineRead
<1>6. CASE BaselineError(b)
  BY <1>2, <1>3, <1>6 DEF BaselineError, BaselineMissing
<1>7. CASE ObserveRead(b)
  <2>1. \/ (\E t : Converged(b, t)) \/ Exhausted(b)
        \/ /\ loop[b].tries + 1 < ObserveTries /\ todo' = todo
           /\ \E s, t, a : loop' = [loop EXCEPT ![b] = Looped(b, s, t, a)]
    BY <1>7, Zenon DEF ObserveRead
  <2> QED
    BY <1>2, <1>3, <1>7, <2>1 DEF ObserveRead, Converged, Exhausted
<1>8. CASE ObserveError(b)
  BY <1>2, <1>3, <1>8 DEF ObserveError, Exhausted
<1> QED
  BY <1>4, <1>5, <1>6, <1>7, <1>8

LEMMA ClaimProgress ==
  ASSUME TypeOK, NEW b \in Builders,
         ClaimSubmit(b) \/ ClaimPrepareError(b) \/ ClaimAccepted(b) \/ ClaimRejected(b)
         \/ ClaimUnknown(b)
  PROVE  Progress(b)
<1>1. CASE ClaimSubmit(b)
  <2>1. step = "claim" /\ step' = step /\ b \in todo /\ todo' = todo /\ ~Sent(b)
    BY <1>1 DEF ClaimSubmit
  <2>2. loop[b].tries \in Nat /\ loop'[b].tries = loop[b].tries + 1
    BY <1>1 DEF ClaimSubmit, Again, TypeOK, Loops, NoLoop
  <2>3. Queries(b) = 1 /\ Queries(b)' = 0 /\ Rounds(b)' = Rounds(b)
    BY <2>1, <2>2 DEF Queries, Rounds, Sent
  <2> QED
    BY <2>1, <2>3 DEF Progress, Nearer
<1> QED
  BY <1>1 DEF ClaimPrepareError, ClaimAccepted, ClaimRejected, ClaimUnknown, DoneWith, Progress

(* A sweep is done with, or goes into its next round.                      *)
LEMMA SweepRoundProgress ==
  ASSUME TypeOK, NEW b \in Builders, FlightInv(b), step = "sweep", step' = step,
         sweep.builder = b,
         \/ \E x, n : SweepEnds(b, x, n)
         \/ \E s \in Sweeps : /\ s.builder = b /\ s.try = sweep.try /\ SweepAgain(b, s)
                              /\ sweep.try < SweepTries
  PROVE  Progress(b)
<1>1. b \in todo /\ sweep.try \in 1..SweepTries
  BY DEF FlightInv, TypeOK, Sweeps
<1>2. CASE \E x, n : SweepEnds(b, x, n)
  BY <1>1, <1>2 DEF SweepEnds, DoneWith, Progress
<1>3. ASSUME NEW s \in Sweeps, s.builder = b, s.try = sweep.try, SweepAgain(b, s),
             sweep.try < SweepTries
      PROVE  Progress(b)
  <2>1. sweep'.builder = b /\ sweep'.try = sweep.try + 1 /\ todo' = todo
    BY <1>3 DEF SweepAgain, Sweeps
  <2>2. Rounds(b) = SweepTries - sweep.try /\ Rounds(b)' = SweepTries - (sweep.try + 1)
    BY <2>1 DEF Rounds
  <2> QED
    BY <1>1, <2>1, <2>2 DEF Progress, Nearer
<1> QED
  BY <1>2, <1>3

LEMMA SweepProgress ==
  ASSUME TypeOK, NEW b \in Builders, FlightInv(b),
         SweepPick(b) \/ SweepRead(b) \/ SweepReadError(b) \/ SweepAccepted(b)
         \/ SweepRejected(b) \/ SweepUnknown(b)
  PROVE  Progress(b)
<1>0. sweep \in Sweeps /\ sweep.try \in 1..SweepTries /\ step = "sweep" /\ step' = step
      /\ loop[b].tries \in Nat
  BY DEF TypeOK, Sweeps, Loops, SweepPick, SweepRead, SweepReadError, SweepAccepted,
         SweepRejected, SweepUnknown
<1>1. CASE SweepPick(b)
  <2>1. b \in todo /\ todo' = todo /\ sweep.builder # b /\ sweep'.builder = b /\ sweep'.try = 1
    BY <1>1 DEF SweepPick, NoSweep
  <2>2. Rounds(b) = SweepTries /\ Rounds(b)' = SweepTries - 1
    BY <1>0, <2>1 DEF Rounds
  <2> QED
    BY <2>1, <2>2 DEF Progress, Nearer
<1>2. ASSUME sweep.builder = b, ~sweep.sent, loop[b].tries + 1 < SweepReads,
             UNCHANGED <<todo, sweep>>,
             Again(b) \/ \E s, t, a : loop' = [loop EXCEPT ![b] = Looped(b, s, t, a)]
      PROVE  Progress(b)
  <2>1. Remaining(SweepReads, loop'[b].tries) < Remaining(SweepReads, loop[b].tries)
    BY <1>2, OneMore
  <2>2. /\ Remaining(SweepReads, loop[b].tries) \in Nat
        /\ Remaining(SweepReads, loop'[b].tries) \in Int
    <3>1. loop'[b].tries \in Nat
      <4>1. loop' \in [Builders -> Loops] \/ loop'[b].tries = loop[b].tries + 1
        <5>1. loop \in [Builders -> Loops]
          BY DEF TypeOK
        <5> QED
          BY <1>2, <5>1 DEF Again, NoLoop, Looped
      <4> QED
        BY <1>0, <4>1 DEF Loops
    <3> QED
      BY <1>0, <3>1 DEF Remaining
  <2>3. /\ Queries(b) = 1 + Remaining(SweepReads, loop[b].tries)
        /\ Queries(b)' = 1 + Remaining(SweepReads, loop'[b].tries)
    BY <1>0, <1>2 DEF Queries
  <2>4. Rounds(b)' = Rounds(b)
    BY <1>0, <1>2 DEF Rounds
  <2>5. b \in todo
    BY <1>2 DEF FlightInv
  <2> QED
    BY <1>2, <2>1, <2>2, <2>3, <2>4, <2>5 DEF Progress, Nearer
<1>3. ASSUME sweep.builder = b, ~sweep.sent, UNCHANGED <<todo, loop>>,
             NEW n, sweep' = [sweep EXCEPT !.amount = n, !.sent = TRUE]
      PROVE  Progress(b)
  <2>1. sweep'.builder = b /\ sweep'.try = sweep.try /\ sweep'.sent
    BY <1>0, <1>3 DEF Sweeps
  <2>2. Queries(b)' = 0 /\ Queries(b) > 0 /\ Rounds(b)' = Rounds(b)
    BY <1>0, <1>3, <2>1 DEF Queries, Rounds, Remaining
  <2>3. b \in todo
    BY <1>3 DEF FlightInv
  <2> QED
    BY <1>3, <2>2, <2>3 DEF Progress, Nearer
<1>4. CASE SweepRead(b)
  <2>1. sweep.builder = b /\ ~sweep.sent
    BY <1>4 DEF SweepRead
  <2>2. \/ \E a : SweepWith(b, a)
        \/ /\ loop[b].tries + 1 < SweepReads /\ UNCHANGED <<todo, sweep>>
           /\ \E s, t, a : loop' = [loop EXCEPT ![b] = Looped(b, s, t, a)]
        \/ SweepEnds(b, "warning", 0)
    <3>1. PICK i \in Reads(b), hold \in Holds :
         LET t == wallet[b][i]
             a == t - hold
             s == IF BelowFloor(b, t) THEN 0 ELSE Stable(loop[b], t, a)
         IN  \/ s >= Confirmations /\ SweepWith(b, a)
             \/ /\ s < Confirmations /\ loop[b].tries + 1 < SweepReads
                /\ loop' = [loop EXCEPT ![b] = Looped(b, s, t, a)]
                /\ UNCHANGED <<rep, todo, sweep, reply, flying>>
             \/ /\ s < Confirmations /\ loop[b].tries + 1 >= SweepReads
                /\ SweepEnds(b, "warning", 0) /\ UNCHANGED flying
      BY <1>4, Zenon DEF SweepRead
    <3> QED
      BY <3>1
  <2>3. ASSUME NEW a, SweepWith(b, a) PROVE Progress(b)
    <3>1. \/ \E x, n : SweepEnds(b, x, n)
          \/ SweepAgain(b, sweep) /\ sweep.try < SweepTries
          \/ UNCHANGED <<todo, loop>> /\ \E n : sweep' = [sweep EXCEPT !.amount = n, !.sent = TRUE]
      BY <2>3, Zenon DEF SweepWith
    <3> QED
      BY <1>0, <1>3, <2>1, <3>1, SweepRoundProgress
  <2> QED
    BY <1>0, <1>2, <2>1, <2>2, <2>3, SweepRoundProgress
<1>5. CASE SweepReadError(b)
  BY <1>0, <1>2, <1>5, SweepRoundProgress DEF SweepReadError
<1>6. CASE SweepAccepted(b)
  <2>1. sweep.builder = b /\ \E x, n : SweepEnds(b, x, n)
    BY <1>6, Zenon DEF SweepAccepted
  <2> QED
    BY <1>0, <2>1, SweepRoundProgress
<1>7. CASE SweepRejected(b)
  BY <1>0, <1>7, SweepRoundProgress DEF SweepRejected
<1>8. CASE SweepUnknown(b)
  <2> DEFINE s == [sweep EXCEPT !.unknown = TRUE, !.retry = sweep.amount]
  <2>1. sweep.builder = b
        /\ (SweepEnds(b, "warning", 0) \/ (SweepAgain(b, s) /\ sweep.try < SweepTries))
    BY <1>8 DEF SweepUnknown
  <2>2. s \in Sweeps /\ s.builder = b /\ s.try = sweep.try
    BY <1>0, <2>1 DEF Sweeps
  <2> HIDE DEF s
  <2> QED
    BY <1>0, <2>1, <2>2, SweepRoundProgress
<1> QED
  BY <1>1, <1>4, <1>5, <1>6, <1>7, <1>8

LEMMA BuilderAdvances ==
  ASSUME TypeOK, NEW b \in Builders, FlightInv(b), BuilderStep(b) PROVE Advances
<1>1. Progress(b)
  BY QueryProgress, ClaimProgress, SweepProgress DEF BuilderStep
<1>2. Framed(b)
  BY BuilderFrame
<1>3. Phase' = Phase
  BY <1>2 DEF Framed, Phase
<1>4. ASSUME NEW c \in Builders \ {b} PROVE UNCHANGED <<Rounds(c), Queries(c)>>
  <2>1. step' = step /\ loop'[c] = loop[c] /\ (sweep'.builder = c <=> sweep.builder = c)
        /\ (sweep.builder = c => sweep' = sweep)
    BY <1>2 DEF Framed, Same
  <2> QED
    BY <2>1 DEF Rounds, Queries, Sent
<1> QED
  BY <1>1, <1>3, <1>4 DEF Advances

LEMMA PhaseAdvances ==
  ASSUME TokenFound \/ TokenError \/ EndCapture \/ SaveCaptured \/ EndBaseline
         \/ EndClaim \/ EndObserve \/ EndSweep \/ SaveCompleted
  PROVE  Advances
<1>1. \/ step = "token" /\ step' \in {"capture", "idle"}
      \/ step = "capture" /\ step' \in {"record", "baseline"}
      \/ step = "record" /\ step' \in {"baseline", "idle"}
      \/ step = "baseline" /\ step' = "claim"
      \/ step = "claim" /\ step' = "observe"
      \/ step = "observe" /\ step' = "sweep"
      \/ step = "sweep" /\ step' \in {"complete", "idle"}
      \/ step = "complete" /\ step' = "idle"
  BY DEF TokenFound, TokenError, EndCapture, SaveCaptured, EndBaseline, EndClaim, EndObserve,
         EndSweep, SaveCompleted, Finish, Enter
<1> QED
  BY <1>1 DEF Phase, Advances

(* Every consolidation winds down, for any builders and bounds and         *)
(* whatever the exchange and the index answer: each step of the process    *)
(* ends a phase, is the last one for a builder in it, or leaves that       *)
(* builder fewer queries in this round or fewer rounds, and costs the      *)
(* other builders nothing.  What happens around the process sends it back  *)
(* nowhere (the loops of captureBuilderClaimables,                         *)
(* captureClaimBalanceBaselines, observeClaimBalances and                  *)
(* sweepBuilderBalances).                                                  *)
THEOREM ConsolidationWindsDown ==
  Spec => [][/\ Phase \in 0..8 /\ \A b \in Builders : Rounds(b) \in Nat /\ Queries(b) \in Nat
             /\ Process => Advances
             /\ World => \/ Phase' = 0
                         \/ /\ UNCHANGED <<Phase, todo>>
                            /\ \A b \in Builders : UNCHANGED <<Rounds(b), Queries(b)>>]_vars
<1>1. ASSUME World
      PROVE  \/ Phase' = 0
             \/ /\ UNCHANGED <<Phase, todo>>
                /\ \A b \in Builders : UNCHANGED <<Rounds(b), Queries(b)>>
  <2>1. CASE Crash
    BY <2>1 DEF Crash, Finish, Enter, Phase
  <2>2. CASE Credit \/ ExchangeClaims \/ ExchangeSends \/ ExchangeRefuses \/ LoseRequest
    <3>1. UNCHANGED <<step, todo, loop, sweep>>
      BY <2>2 DEF Credit, ExchangeClaims, ExchangeSends, ExchangeRefuses, LoseRequest, local
    <3> QED
      BY <3>1 DEF Phase, Rounds, Queries, Sent
  <2> QED
    BY <1>1, <2>1, <2>2 DEF World
<1>2. ASSUME TypeOK, \A b \in Builders : BuilderInv(b), Process PROVE Advances
  BY <1>2, BuilderAdvances, PhaseAdvances DEF Process, BuilderInv
<1>3. TypeOK /\ (\A b \in Builders : BuilderInv(b)) /\ [Next]_vars =>
        [/\ Phase \in 0..8 /\ \A b \in Builders : Rounds(b) \in Nat /\ Queries(b) \in Nat
         /\ Process => Advances
         /\ World => \/ Phase' = 0
                     \/ /\ UNCHANGED <<Phase, todo>>
                        /\ \A b \in Builders : UNCHANGED <<Rounds(b), Queries(b)>>]_vars
  BY <1>1, <1>2, RankType
<1> QED
  BY <1>3, BuilderAlways, PTL DEF Spec
=============================================================================
