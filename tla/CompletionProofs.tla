-------------------------- MODULE CompletionProofs --------------------------
(***************************************************************************)
(* What Repository.Complete promises, for every manifest, batch size and   *)
(* table, any number of faults and any number of lost transactions.        *)
(***************************************************************************)
EXTENDS Repository, TLAPS

-----------------------------------------------------------------------------
(* The inductive invariant.  Status 1 is never taken back, so what the     *)
(* process has learnt stays true while it works on.                        *)

(* A transaction about to commit, or already lost with its COMMIT, covers  *)
(* every record that is not done.                                          *)
Covers(w) == \A i \in Ids : i \in w \/ row[i] = "done"

(* Records outside the ids of the next transaction are done.               *)
RestIsDone == \A i \in Ids \ remaining : row[i] = "done"

(* Records already read and not found at status 0 are done.                *)
ReadIsDone == Resolving => \A i \in Ids : i \in left \/ i \in zero \/ row[i] = "done"

ResolvingKnown == Resolving => resolveCommit

IInv ==
  /\ TypeOK
  /\ OkIsDone
  /\ RestIsDone
  /\ ReadIsDone
  /\ ResolvingKnown
  /\ pc = "commit" => Covers(wrote)
  /\ \A o \in orphans : o.commit => Covers(o.wrote)

LEMMA InitIInv == Init => IInv
BY CompletionAssumption
DEF Init, IInv, TypeOK, OkIsDone, RestIsDone, ReadIsDone, ResolvingKnown, Resolving, Covers,
    Statuses, Kinds

(* Batches are subsets of what a loop has left.                            *)
LEMMA BatchIn == ASSUME NEW batch \in Batches(left) PROVE batch \subseteq left
BY DEF Batches

Orphan == [wrote : SUBSET Ids, commit : BOOLEAN]

LEMMA LostType == ASSUME TypeOK, NEW b \in BOOLEAN PROVE Lost(wrote, b) \in Orphan
BY DEF TypeOK, Lost, Orphan

LEMMA AbortType == ASSUME TypeOK, Abort PROVE orphans' \subseteq Orphan
BY LostType DEF TypeOK, Abort, Orphan

LEMMA CommittedType ==
  ASSUME TypeOK, NEW w \in SUBSET Ids PROVE Committed(w) \in [Ids -> Statuses]
BY DEF TypeOK, Committed, Statuses

(* An error leaves the call well typed.                                    *)
LEMMA FailType ==
  ASSUME TypeOK, NEW kind, Fail(kind), UNCHANGED <<row, healthy>>, orphans' \subseteq Orphan
  PROVE  TypeOK'
<1>1. CASE kind = "transient"
  BY <1>1 DEF TypeOK, Fail, Orphan, Kinds
<1>2. CASE kind # "transient"
  BY <1>2 DEF TypeOK, Fail, Return, Orphan, Kinds
<1> QED
  BY <1>1, <1>2

(* The shape of the state survives every step.                             *)
LEMMA TypeStep == ASSUME TypeOK, [Next]_vars, ResolvingKnown PROVE TypeOK'
<1>0. orphans \subseteq Orphan
  BY DEF TypeOK, Orphan
<1>1. CASE UNCHANGED vars
  BY <1>1 DEF TypeOK, vars, call
<1>2. CASE Call
  BY <1>2 DEF TypeOK, Call, Kinds
<1>3. CASE Wake \/ Attempt \/ Begin
  BY <1>3 DEF TypeOK, Wake, Attempt, Begin, Kinds
<1>4. CASE Verify
  <2>1. CASE \A i \in remaining : Updated(i)
    BY <1>4, <2>1 DEF TypeOK, Verify, Kinds
  <2>2. CASE ~ \A i \in remaining : Updated(i)
    BY <1>4, <2>2, AbortType, FailType DEF Verify
  <2> QED
    BY <2>1, <2>2
<1>5. CASE Commit
  <2>1. row' \in [Ids -> Statuses]
    BY <1>5, CommittedType DEF Commit, TypeOK
  <2> QED
    BY <1>5, <2>1 DEF TypeOK, Commit, Return, Kinds
<1>6. CASE Resolved \/ Unresolved \/ Replay
  <2>1. CASE Resolved \/ Unresolved
    BY <2>1 DEF TypeOK, Resolved, Unresolved, Return, Kinds
  <2>2. CASE Replay
    BY <2>2 DEF TypeOK, Replay, Kinds
  <2> QED
    BY <1>6, <2>1, <2>2
<1>7. ASSUME NEW batch \in Batches(left), Update(batch) PROVE TypeOK'
  BY <1>7, BatchIn DEF TypeOK, Update, Kinds
<1>8. ASSUME NEW batch \in Batches(left), ReadStatuses(batch) PROVE TypeOK'
  <2>1. CASE \A i \in batch : row[i] \in Integral
    BY <1>8, <2>1, BatchIn DEF TypeOK, ReadStatuses, Kinds
  <2>2. CASE ~ \A i \in batch : row[i] \in Integral
    BY <1>0, <1>8, <2>2, FailType DEF ReadStatuses
  <2> QED
    BY <2>1, <2>2
<1>9. CASE BeginError \/ ReadStatusesError
  BY <1>0, <1>9, FailType DEF BeginError, ReadStatusesError
<1>10. CASE UpdateError \/ LockWaitTimeout \/ VerifyError
  BY <1>10, AbortType, FailType DEF UpdateError, LockWaitTimeout, VerifyError
<1>11. CASE CommitError
  <2>1. row' \in [Ids -> Statuses]
    BY <1>11, CommittedType DEF CommitError, TypeOK
  <2>2. orphans' \subseteq Orphan
    BY <1>0, <1>11, LostType DEF CommitError
  <2> QED
    BY <1>11, <2>1, <2>2 DEF TypeOK, CommitError, Kinds, Orphan
<1>12. CASE Stop
  <2>1. orphans' \subseteq Orphan
    BY <1>0, <1>12, LostType DEF Stop
  <2> QED
    BY <1>12, <2>1 DEF TypeOK, Stop, Return, Kinds, Orphan
<1>13. CASE ServerRollsBack \/ Heal
  <2>1. CASE ServerRollsBack
    BY <2>1 DEF TypeOK, ServerRollsBack, call
  <2>2. CASE Heal
    BY <2>2 DEF TypeOK, Heal, call
  <2> QED
    BY <1>13, <2>1, <2>2
<1>14. CASE ServerCommits
  <2>1. row' \in [Ids -> Statuses]
    BY <1>14, CommittedType DEF ServerCommits, TypeOK
  <2> QED
    BY <1>14, <2>1 DEF TypeOK, ServerCommits, call, Kinds
<1> QED
  BY <1>1, <1>2, <1>3, <1>4, <1>5, <1>6, <1>7, <1>8, <1>9, <1>10, <1>11, <1>12, <1>13, <1>14
  DEF Next, Process, Faults

-----------------------------------------------------------------------------
(* Status 1 is never taken back: only a commit changes the table.          *)
LEMMA DoneStays ==
  ASSUME TypeOK, [Next]_vars, NEW i \in Ids, row[i] = "done"
  PROVE  row'[i] = "done"
<1>1. row' = row \/ \E w \in SUBSET Ids : row' = Committed(w)
  <2>1. CASE Commit \/ CommitError
    BY <2>1 DEF TypeOK, Commit, CommitError
  <2>2. CASE ServerCommits
    BY <2>2 DEF TypeOK, ServerCommits
  <2>3. CASE ~ (Commit \/ CommitError \/ ServerCommits)
    BY <2>3 DEF Next, Process, Faults, vars, Call, Wake, Attempt, Begin, Verify, Resolved,
       Unresolved, Replay, Update, ReadStatuses, BeginError, UpdateError, LockWaitTimeout,
       VerifyError, ReadStatusesError, Stop, ServerRollsBack, Heal
  <2> QED
    BY <2>1, <2>2, <2>3
<1> QED
  BY <1>1 DEF Committed

(* A commit of a transaction that covers the manifest finishes all of it.  *)
LEMMA CommitFinishes ==
  ASSUME TypeOK, NEW w, Covers(w), row' = Committed(w)
  PROVE  \A i \in Ids : row'[i] = "done"
BY DEF TypeOK, Committed, Covers

(* A verified transaction covers the manifest.                             *)
LEMMA VerifiedCovers ==
  ASSUME RestIsDone, \A i \in remaining : Updated(i)
  PROVE  Covers(wrote)
BY DEF RestIsDone, Updated, Covers

LEMMA StepRestIsDone == ASSUME IInv, [Next]_vars PROVE RestIsDone'
<1>1. \A i \in Ids : row[i] = "done" => row'[i] = "done"
  BY DoneStays DEF IInv
<1>2. CASE Call
  BY <1>2 DEF Call, RestIsDone
<1>3. CASE Replay
  BY <1>1, <1>3 DEF Replay, RestIsDone, IInv, ReadIsDone
<1>4. CASE ~ (Call \/ Replay)
  <2>1. remaining' = remaining
    BY <1>4 DEF Next, Process, Faults, vars, call, Wake, Attempt, Begin, Verify, Commit,
       Resolved, Unresolved, Update, ReadStatuses, BeginError, UpdateError,
       LockWaitTimeout, VerifyError, CommitError, ReadStatusesError, Stop,
       ServerRollsBack, ServerCommits, Heal, Fail, Return
  <2> QED
    BY <1>1, <2>1 DEF RestIsDone, IInv
<1> QED
  BY <1>2, <1>3, <1>4

(* An error, or the end of the call, leaves the reading loop.              *)
LEMMA FailLeaves ==
  ASSUME NEW kind, Fail(kind)
  PROVE  pc' \in {"sleep", "idle"} /\ answer' \in {answer, "error"}
BY DEF Fail, Return

LEMMA StepReading == ASSUME IInv, [Next]_vars PROVE ReadIsDone' /\ ResolvingKnown'
<1>1. \A i \in Ids : row[i] = "done" => row'[i] = "done"
  BY DoneStays DEF IInv
<1>2. ReadIsDone /\ ResolvingKnown
  BY DEF IInv
<1>3. CASE Attempt
  BY <1>3 DEF Attempt, ReadIsDone, ResolvingKnown, Resolving
<1>4. CASE CommitError
  BY <1>4 DEF CommitError, ReadIsDone, ResolvingKnown, Resolving
<1>5. ASSUME NEW batch \in Batches(left), ReadStatuses(batch)
      PROVE  ReadIsDone' /\ ResolvingKnown'
  <2>1. CASE \A i \in batch : row[i] \in Integral
    BY <1>1, <1>2, <1>5, <2>1
    DEF ReadStatuses, ReadIsDone, ResolvingKnown, Resolving, Integral
  <2>2. CASE ~ \A i \in batch : row[i] \in Integral
    BY <1>5, <2>2, FailLeaves DEF ReadStatuses, ReadIsDone, ResolvingKnown, Resolving
  <2> QED
    BY <2>1, <2>2
<1>6. CASE UNCHANGED call
  BY <1>1, <1>2, <1>6 DEF call, ReadIsDone, ResolvingKnown, Resolving
<1>7. CASE pc' \notin {"check", "resolve"}
  BY <1>7 DEF ReadIsDone, ResolvingKnown, Resolving
<1>8. ASSUME ~ Attempt, ~ CommitError, ~ UNCHANGED call,
             ~ \E batch \in Batches(left) : ReadStatuses(batch)
      PROVE  pc' \notin {"check", "resolve"}
  <2>1. CASE Call \/ Wake \/ Begin \/ Replay
    BY <2>1 DEF Call, Wake, Begin, Replay
  <2>2. CASE Commit \/ Resolved \/ Unresolved \/ Stop
    BY <2>2 DEF Commit, Resolved, Unresolved, Stop, Return
  <2>3. CASE Verify
    BY <2>3, FailLeaves DEF Verify
  <2>4. CASE BeginError \/ UpdateError \/ LockWaitTimeout \/ VerifyError \/ ReadStatusesError
    BY <2>4, FailLeaves
    DEF BeginError, UpdateError, LockWaitTimeout, VerifyError, ReadStatusesError
  <2>5. ASSUME NEW batch \in Batches(left), Update(batch) PROVE pc' \notin {"check", "resolve"}
    BY <2>5 DEF Update
  <2> QED
    BY <1>8, <2>1, <2>2, <2>3, <2>4, <2>5
    DEF Next, Process, Faults, vars, ServerRollsBack, ServerCommits, Heal
<1> QED
  BY <1>3, <1>4, <1>5, <1>6, <1>7, <1>8

LEMMA StepCommit == ASSUME IInv, [Next]_vars PROVE (pc = "commit" => Covers(wrote))'
<1>1. \A i \in Ids : row[i] = "done" => row'[i] = "done"
  BY DoneStays DEF IInv
<1>2. CASE Verify
  <2>1. CASE \A i \in remaining : Updated(i)
    <3>1. Covers(wrote)
      BY <2>1, VerifiedCovers DEF IInv
    <3> QED
      BY <1>1, <1>2, <2>1, <3>1 DEF Verify, Covers
  <2>2. CASE ~ \A i \in remaining : Updated(i)
    BY <1>2, <2>2, FailLeaves DEF Verify
  <2> QED
    BY <2>1, <2>2
<1>3. CASE UNCHANGED call
  BY <1>1, <1>3 DEF call, IInv, Covers
<1>4. ASSUME ~ Verify, ~ UNCHANGED call PROVE pc' # "commit"
  <2>1. CASE Call \/ Wake \/ Begin \/ Replay \/ Attempt \/ CommitError
    BY <2>1 DEF Call, Wake, Begin, Replay, Attempt, CommitError
  <2>2. CASE Commit \/ Resolved \/ Unresolved \/ Stop
    BY <2>2 DEF Commit, Resolved, Unresolved, Stop, Return
  <2>3. CASE BeginError \/ UpdateError \/ LockWaitTimeout \/ VerifyError \/ ReadStatusesError
    BY <2>3, FailLeaves
    DEF BeginError, UpdateError, LockWaitTimeout, VerifyError, ReadStatusesError
  <2>4. ASSUME NEW batch \in Batches(left), Update(batch) PROVE pc' # "commit"
    BY <2>4 DEF Update
  <2>5. ASSUME NEW batch \in Batches(left), ReadStatuses(batch) PROVE pc' # "commit"
    BY <2>5, FailLeaves DEF ReadStatuses, Resolving
  <2> QED
    BY <1>4, <2>1, <2>2, <2>3, <2>4, <2>5
    DEF Next, Process, Faults, vars, ServerRollsBack, ServerCommits, Heal
<1> QED
  BY <1>2, <1>3, <1>4

LEMMA StepOrphans ==
  ASSUME IInv, [Next]_vars PROVE (\A o \in orphans : o.commit => Covers(o.wrote))'
<1>1. \A i \in Ids : row[i] = "done" => row'[i] = "done"
  BY DoneStays DEF IInv
<1>2. \A o \in orphans' : o \in orphans \/ o = Lost(wrote, FALSE)
                          \/ (pc = "commit" /\ o = Lost(wrote, TRUE))
  <2>1. CASE CommitError \/ Stop \/ ServerRollsBack \/ ServerCommits
    BY <2>1 DEF CommitError, Stop, ServerRollsBack, ServerCommits
  <2>2. CASE Verify \/ UpdateError \/ LockWaitTimeout \/ VerifyError
    BY <2>2 DEF Verify, UpdateError, LockWaitTimeout, VerifyError, Abort
  <2>3. ASSUME ~ (CommitError \/ Stop \/ ServerRollsBack \/ ServerCommits),
               ~ (Verify \/ UpdateError \/ LockWaitTimeout \/ VerifyError)
        PROVE  orphans' = orphans
    BY <2>3 DEF Next, Process, Faults, vars, Call, Wake, Attempt, Begin, Commit, Resolved,
       Unresolved, Replay, Update, ReadStatuses, BeginError, ReadStatusesError, Heal
  <2> QED
    BY <2>1, <2>2, <2>3
<1>3. \A o \in orphans' : o.commit => Covers(o.wrote)
  BY <1>2 DEF IInv, Lost
<1> QED
  BY <1>1, <1>3 DEF Covers

LEMMA StepOk == ASSUME IInv, [Next]_vars PROVE OkIsDone'
<1>1. \A i \in Ids : row[i] = "done" => row'[i] = "done"
  BY DoneStays DEF IInv
<1>2. CASE Commit
  BY <1>2, CommitFinishes DEF Commit, IInv, OkIsDone
<1>3. CASE Resolved
  BY <1>1, <1>3 DEF Resolved, IInv, ReadIsDone, OkIsDone
<1>4. CASE answer' = answer
  BY <1>1, <1>4 DEF OkIsDone, IInv
<1>5. ASSUME ~ Commit, ~ Resolved PROVE answer' \in {answer, "none", "error"}
  <2>1. CASE Call \/ Wake \/ Begin \/ Replay \/ Attempt \/ CommitError
    BY <2>1 DEF Call, Wake, Begin, Replay, Attempt, CommitError
  <2>2. CASE Unresolved \/ Stop
    BY <2>2 DEF Unresolved, Stop, Return
  <2>3. CASE Verify
    BY <2>3, FailLeaves DEF Verify
  <2>4. CASE BeginError \/ UpdateError \/ LockWaitTimeout \/ VerifyError \/ ReadStatusesError
    BY <2>4, FailLeaves
    DEF BeginError, UpdateError, LockWaitTimeout, VerifyError, ReadStatusesError
  <2>5. ASSUME NEW batch \in Batches(left), Update(batch) \/ ReadStatuses(batch)
        PROVE  answer' \in {answer, "none", "error"}
    BY <2>5, FailLeaves DEF Update, ReadStatuses
  <2>6. CASE ServerRollsBack \/ ServerCommits \/ Heal \/ UNCHANGED vars
    BY <2>6 DEF ServerRollsBack, ServerCommits, Heal, vars
  <2> QED
    BY <1>5, <2>1, <2>2, <2>3, <2>4, <2>5, <2>6 DEF Next, Process, Faults
<1> QED
  BY <1>2, <1>3, <1>4, <1>5 DEF OkIsDone

LEMMA NextIInv == IInv /\ [Next]_vars => IInv'
BY TypeStep, StepOk, StepRestIsDone, StepReading, StepCommit, StepOrphans DEF IInv

-----------------------------------------------------------------------------
LEMMA InvariantHolds == Spec => []IInv
BY InitIInv, NextIInv, PTL DEF Spec

(* Complete never returns nil while a record of the manifest is not at     *)
(* status 1, whatever faults, lost commits and restarts came before        *)
(* (Repository.Complete).                                                  *)
THEOREM CompleteIsSound == Spec => []OkIsDone
<1>1. IInv => OkIsDone
  BY DEF IInv
<1> QED
  BY <1>1, InvariantHolds, PTL

(* The table changes for the whole manifest or not at all                  *)
(* (completeTransaction).                                                  *)
THEOREM CompleteIsAtomic == Spec => AllOrNothing
<1>1. ASSUME IInv, [Next]_vars PROVE [row' # row => \A i \in Ids : row'[i] = "done"]_vars
  <2>1. CASE Commit
    BY <1>1, <2>1, CommitFinishes DEF Commit, IInv
  <2>2. CASE CommitError
    BY <1>1, <2>2, CommitFinishes DEF CommitError, IInv
  <2>3. CASE ServerCommits
    BY <1>1, <2>3, CommitFinishes DEF ServerCommits, IInv
  <2>4. ASSUME ~ (Commit \/ CommitError \/ ServerCommits) PROVE row' = row
    BY <1>1, <2>4 DEF Next, Process, Faults, vars, Call, Wake, Attempt, Begin, Verify, Resolved,
       Unresolved, Replay, Update, ReadStatuses, BeginError, UpdateError, LockWaitTimeout,
       VerifyError, ReadStatusesError, Stop, ServerRollsBack, Heal
  <2> QED
    BY <2>1, <2>2, <2>3, <2>4
<1> QED
  BY <1>1, InvariantHolds, PTL DEF Spec, AllOrNothing

(* Every reachable state of a call is well typed.                          *)
THEOREM CompletionTypeCorrect == Spec => []TypeOK
<1>1. IInv => TypeOK
  BY DEF IInv
<1> QED
  BY <1>1, InvariantHolds, PTL

-----------------------------------------------------------------------------
(* One attempt.                                                            *)

(* Where a call stands, counted down.                                      *)
Stage ==
  CASE pc = "top"     -> 7
    [] pc = "resolve" -> 6
    [] pc = "begin"   -> 5
    [] pc = "update"  -> 4
    [] pc = "commit"  -> 3
    [] pc = "check"   -> 2
    [] pc = "sleep"   -> 1
    [] OTHER          -> 0

(* A loop over batches stays where it is with fewer ids left.              *)
Advances == Stage' < Stage \/ (Stage' = Stage /\ left' \subseteq left /\ left' # left)

LEMMA FailEnds == ASSUME NEW kind, Fail(kind) PROVE pc' \in {"sleep", "idle"}
BY DEF Fail, Return

LEMMA AttemptAdvances ==
  ASSUME TypeOK, (Process /\ ~Wake) \/ Faults PROVE Advances
<1>1. CASE Attempt \/ Begin \/ Commit \/ CommitError
  <2>1. \/ pc = "top" /\ pc' \in {"resolve", "begin"}
        \/ pc = "begin" /\ pc' = "update"
        \/ pc = "commit" /\ pc' \in {"idle", "check"}
    BY <1>1 DEF Attempt, Begin, Commit, CommitError, Return
  <2> QED
    BY <2>1 DEF Stage, Advances
<1>2. CASE Resolved \/ Unresolved \/ Replay
  BY <1>2 DEF Resolved, Unresolved, Replay, Resolving, Return, Stage, Advances
<1>3. CASE BeginError \/ UpdateError \/ LockWaitTimeout \/ VerifyError \/ ReadStatusesError
  <2>1. pc' \in {"sleep", "idle"}
    BY <1>3, FailEnds DEF BeginError, UpdateError, LockWaitTimeout, VerifyError, ReadStatusesError
  <2>2. pc \in {"begin", "update", "check", "resolve"}
    BY <1>3 DEF BeginError, UpdateError, LockWaitTimeout, VerifyError, ReadStatusesError, Resolving
  <2> QED
    BY <2>1, <2>2 DEF Stage, Advances
<1>4. CASE Verify
  <2>1. pc = "update" /\ pc' \in {"commit", "sleep", "idle"}
    BY <1>4, FailEnds DEF Verify
  <2> QED
    BY <2>1 DEF Stage, Advances
<1>5. ASSUME NEW batch \in Batches(left), batch # {}, Update(batch) \/ ReadStatuses(batch)
      PROVE  Advances
  <2>1. batch \subseteq left
    BY BatchIn
  <2>2. CASE left' = left \ batch /\ pc' = pc
    BY <1>5, <2>1, <2>2 DEF Stage, Advances
  <2>3. CASE Fail("permanent") /\ Resolving
    BY <2>3 DEF Fail, Return, Resolving, Stage, Advances
  <2> QED
    BY <1>5, <2>2, <2>3 DEF Update, ReadStatuses
<1>6. CASE Stop
  <2>1. pc' = "idle" /\ pc # "idle" /\ pc \in {"top", "sleep", "begin", "update", "commit",
                                               "check", "resolve"}
    BY <1>6 DEF Stop, Return, TypeOK
  <2> QED
    BY <2>1 DEF Stage, Advances
<1> QED
  BY <1>1, <1>2, <1>3, <1>4, <1>5, <1>6 DEF Process, Faults

(* Every attempt ends, for any manifest and batch size and whatever fails: *)
(* each step of Complete comes closer to an answer or to the pause before  *)
(* the next attempt, and nothing the server does sends it back.  Only the  *)
(* end of a pause starts another attempt (Retryer.Do, Complete).           *)
THEOREM AttemptsWindDown ==
  Spec => [][/\ (Process /\ ~Wake) \/ Faults => Advances
             /\ ServerRollsBack \/ ServerCommits \/ Heal => UNCHANGED <<Stage, left>>]_vars
<1>1. ServerRollsBack \/ ServerCommits \/ Heal => UNCHANGED <<Stage, left>>
  BY DEF ServerRollsBack, ServerCommits, Heal, call, Stage
<1>2. IInv /\ [Next]_vars =>
        [/\ (Process /\ ~Wake) \/ Faults => Advances
         /\ ServerRollsBack \/ ServerCommits \/ Heal => UNCHANGED <<Stage, left>>]_vars
  BY <1>1, AttemptAdvances DEF IInv
<1> QED
  BY <1>2, InvariantHolds, PTL DEF Spec

-----------------------------------------------------------------------------
(* Composed with the retries, their observer and the other repository      *)
(* calls, a step of the repository is a step of Complete or leaves its     *)
(* state alone.                                                            *)
LEMMA RepositoryStep == [RepositoryNext]_all => [Next]_vars
<1>1. Complete => Next
  BY DEF Complete, Next
<1>2. Completing => Next
  BY DEF Completing, Next
<1>3. Faults => Next
  BY DEF Next
<1>4. Server => Next
  BY DEF Server, Next
<1>5. Heal => Next
  BY DEF Next
<1>6. Others => UNCHANGED vars
  BY DEF Others
<1>7. UNCHANGED all => UNCHANGED vars
  BY DEF all
<1> QED
  BY <1>1, <1>2, <1>3, <1>4, <1>5, <1>6, <1>7 DEF RepositoryNext

(* The repository as the funding task uses it keeps both promises of       *)
(* Complete, whatever its observer, its mails and its other calls do       *)
(* (Repository.Complete inside Retryer.Do).                                *)
THEOREM RepositoryIsSound == RepositorySpec => []OkIsDone /\ AllOrNothing
<1>1. RepositorySpec => Spec
  BY RepositoryStep, PTL DEF RepositorySpec, RepositoryInit, Spec
<1> QED
  BY <1>1, CompleteIsSound, CompleteIsAtomic, PTL

-----------------------------------------------------------------------------
(* The observer of the retries.  Whatever Complete and the other calls do, *)
(* it sees a sequence of calls that fail, succeed or end unseen.           *)

LEMMA ObserverStep == [RepositoryNext]_all => [O!Next]_(O!vars)
<1> USE OutageAssumption
<1>1. Complete => O!Next
  BY DEF Complete, O!Next
<1>2. UNCHANGED observed => UNCHANGED O!vars
  BY DEF observed, O!vars, O!observer
<1>3. Observed => O!Next \/ UNCHANGED observed
  BY DEF Observed, O!Next
<1>4. Others => O!Next
  BY DEF Others, O!Next
<1> QED
  BY <1>1, <1>2, <1>3, <1>4 DEF RepositoryNext, Completing, Server, all

(* What the observer believes.  A failing call is among the outages, and   *)
(* it is the only one unless a call ended unseen; a mailed outage is one,  *)
(* the latch says which mails stand, and a call that failed beyond the     *)
(* threshold has set it; a set latch means that its mail arrived or was    *)
(* refused since MySQL last worked, unless a call ended unseen.            *)
ObserverInv ==
  /\ failures \in BOOLEAN /\ alerted \in BOOLEAN /\ leaked \in BOOLEAN
  /\ told \in BOOLEAN /\ lost \in BOOLEAN /\ down \in Nat
  /\ failures => operation # O!NoCall /\ operation \in outages
  /\ ~failures => down = 0
  /\ ~leaked => outages \subseteq {operation} /\ (~failures => outages = {})
  /\ alerted => outages # {}
  /\ standing = IF alerted THEN 1 ELSE 0
  /\ failures /\ down >= Threshold => alerted
  /\ alerted /\ ~leaked => told \/ lost

LEMMA ObserverFails == ASSUME ObserverInv, O!FailTransient PROVE ObserverInv'
<1>1. operation # O!NoCall /\ operation' = operation /\ leaked' = leaked /\ failures' = TRUE
  BY DEF O!FailTransient
<1>2. CASE ~failures /\ O!RetryStarted(operation) /\ UNCHANGED down
  <2>1. /\ outages' = outages \cup {operation} /\ UNCHANGED <<down, standing, told, lost>>
        /\ alerted' = IF outages = {} THEN FALSE ELSE alerted
    BY <1>2 DEF O!RetryStarted
  <2>2. down' = 0 /\ ~(down' >= Threshold) /\ down' \in Nat
    <3>1. down' = 0
      BY <1>2 DEF ObserverInv
    <3> QED
      BY <3>1, OutageAssumption
  <2>4. alerted' = alerted
    BY <2>1, Zenon DEF ObserverInv
  <2>3. outages' # {} /\ operation \in outages' /\ (~leaked => outages' \subseteq {operation})
    BY <2>1 DEF ObserverInv
  <2> QED
    <3>1. failures' \in BOOLEAN /\ alerted' \in BOOLEAN /\ leaked' \in BOOLEAN
          /\ told' \in BOOLEAN /\ lost' \in BOOLEAN
      BY <1>1, <2>1, <2>4 DEF ObserverInv
    <3>2. standing' = IF alerted' THEN 1 ELSE 0
      BY <2>1, <2>4 DEF ObserverInv
    <3>3. alerted' /\ ~leaked' => told' \/ lost'
      BY <1>1, <2>1, <2>4 DEF ObserverInv
    <3> QED
      BY <1>1, <2>2, <2>3, <3>1, <3>2, <3>3 DEF ObserverInv
<1>3. ASSUME NEW d \in Delays, failures, down' = down + d, O!RetryProgress(operation, down + d)
      PROVE  ObserverInv'
  <2>1. d \in Nat /\ down' \in Nat /\ outages' = outages \cup {operation} /\ operation \in outages
    BY <1>3, OutageAssumption DEF ObserverInv, O!RetryProgress
  <2>2. CASE down + d >= Threshold /\ ~alerted
    <3>1. alerted' = TRUE /\ standing' = standing + 1 /\ standing = 0 /\ (told' \/ lost')
          /\ told' \in BOOLEAN /\ lost' \in BOOLEAN
      BY <1>3, <2>2 DEF O!RetryProgress, O!Alert, O!Notify, ObserverInv
    <3> QED
      BY <1>1, <1>3, <2>1, <3>1 DEF ObserverInv
  <2>3. CASE ~(down + d >= Threshold /\ ~alerted)
    <3>1. UNCHANGED <<alerted, standing, told, lost>>
      BY <1>3, <2>3 DEF O!RetryProgress
    <3> QED
      BY <1>1, <1>3, <2>1, <2>3, <3>1 DEF ObserverInv
  <2> QED
    BY <2>2, <2>3
<1> QED
  BY <1>2, <1>3 DEF O!FailTransient

LEMMA ObserverSucceeds == ASSUME ObserverInv, O!Succeed PROVE ObserverInv'
<1>1. /\ operation' = O!NoCall /\ failures' = FALSE /\ down' = 0 /\ down' \in Nat
      /\ leaked' = (leaked /\ outages' # {})
  BY DEF O!Succeed, O!Return
<1>2. CASE failures /\ O!Recovered(operation)
  <2>1. /\ outages' = outages \ {operation} /\ operation \in outages
        /\ standing' = IF alerted /\ outages' = {} THEN standing - 1 ELSE standing
        /\ alerted' = (alerted /\ outages' # {})
        /\ told' = FALSE /\ lost' = (lost /\ outages' # {})
    BY <1>2 DEF ObserverInv, O!Recovered
  <2>2. standing' = IF alerted' THEN 1 ELSE 0
    <3>1. standing = IF alerted THEN 1 ELSE 0
      BY DEF ObserverInv
    <3>2. CASE alerted /\ outages' = {}
      <4>1. standing' = standing - 1 /\ ~alerted' /\ standing = 1
        BY <2>1, <3>1, <3>2
      <4> QED
        BY <4>1
    <3>3. CASE ~(alerted /\ outages' = {})
      <4>1. standing' = standing /\ (alerted' <=> alerted)
        BY <2>1, <3>3
      <4> QED
        BY <3>1, <4>1
    <3> QED
      BY <3>2, <3>3
  <2>3. ~leaked' => outages' = {}
    BY <1>1, <2>1 DEF ObserverInv
  <2>4. alerted' \in BOOLEAN /\ lost' \in BOOLEAN /\ leaked' \in BOOLEAN /\ (alerted' => outages' # {})
    BY <1>1, <2>1
  <2> QED
    <3>1. failures' \in BOOLEAN /\ alerted' \in BOOLEAN /\ leaked' \in BOOLEAN
          /\ told' \in BOOLEAN /\ lost' \in BOOLEAN
      BY <1>1, <2>1, <2>4
    <3>2. alerted' /\ ~leaked' => told' \/ lost'
      BY <2>3, <2>4
    <3> QED
      BY <1>1, <2>2, <2>3, <2>4, <3>1, <3>2 DEF ObserverInv
<1>3. CASE ~failures /\ told' = FALSE /\ UNCHANGED <<outages, alerted, standing, lost>>
  BY <1>1, <1>3, OutageAssumption DEF ObserverInv
<1> QED
  BY <1>2, <1>3 DEF O!Succeed, ObserverInv

LEMMA ObserverHolds == RepositorySpec => []ObserverInv
<1>1. RepositoryInit => ObserverInv
  BY OutageAssumption DEF RepositoryInit, O!Init, ObserverInv
<1>2. ASSUME ObserverInv, [O!Next]_(O!vars) PROVE ObserverInv'
  <2>1. CASE UNCHANGED O!vars
    BY <1>2, <2>1 DEF O!vars, O!observer, ObserverInv
  <2>2. ASSUME NEW op \in Operations, O!Call(op) PROVE ObserverInv'
    BY <1>2, <2>2, OutageAssumption DEF O!Call, O!observer, ObserverInv
  <2>3. CASE O!FailPermanent
    BY <1>2, <2>3, OutageAssumption DEF O!FailPermanent, O!Return, O!observer, ObserverInv
  <2>4. CASE O!Restart
    BY <1>2, <2>4, OutageAssumption DEF O!Restart, O!Return, ObserverInv
  <2> QED
    BY <1>2, <2>1, <2>2, <2>3, <2>4, ObserverFails, ObserverSucceeds DEF O!Next
<1> QED
  BY <1>1, <1>2, ObserverStep, PTL DEF RepositorySpec

(* No outage is mailed twice and no recovery without its outage, however   *)
(* calls of several operations overlap and end (MySQLRetryObserver).       *)
THEOREM MailsTakeTurns == RepositorySpec => []MailsInTurn
<1>1. ObserverInv => MailsInTurn
  BY DEF ObserverInv, MailsInTurn
<1> QED
  BY <1>1, ObserverHolds, PTL

(* Whoever has waited for MySQL longer than the threshold has been told,   *)
(* unless the mail was refused or a call ended unseen (RetryProgress).     *)
THEOREM OutagesAreTold == RepositorySpec => []FollowedOutageIsTold
<1>1. ObserverInv => FollowedOutageIsTold
  BY DEF ObserverInv, FollowedOutageIsTold, O!OutageIsTold
<1> QED
  BY <1>1, ObserverHolds, PTL

(* Once a call succeeds no mailed outage stands without its recovery mail, *)
(* unless a call ended unseen (RetryRecovered).                            *)
THEOREM RecoveriesAreTold == RepositorySpec => []RecoveryIsTold
<1>1. ObserverInv => RecoveryIsTold
  BY DEF ObserverInv, RecoveryIsTold
<1> QED
  BY <1>1, ObserverHolds, PTL
=============================================================================
