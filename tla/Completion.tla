----------------------------- MODULE Completion -----------------------------
(***************************************************************************)
(* Repository.Complete: the records of a manifest are marked done in one   *)
(* MySQL transaction, which is retried by Retryer.Do for as long as its    *)
(* errors are transient (internal/repository/mysql repository.go,          *)
(* retry.go, errors.go).  Around it: the committed table, and the          *)
(* transactions whose connection was lost, which keep their row locks      *)
(* until the server rolls them back or carries out a COMMIT that reached   *)
(* it without an answer coming back.                                       *)
(***************************************************************************)
EXTENDS Integers, FiniteSets

CONSTANTS
  Ids,             \* the records of the manifest
  BatchSize,       \* completeBatchSize
  OpeningStatuses  \* what the rows may hold when Complete is first called

(* status 0, status 1, any other status, and a row the query does not find *)
Statuses == {"pending", "done", "other", "gone"}
Integral == {"pending", "done"}

ASSUME CompletionAssumption ==
  /\ Ids # {} /\ IsFiniteSet(Ids) /\ BatchSize \in Nat \ {0}
  /\ OpeningStatuses \subseteq Statuses

VARIABLES
  row,           \* committed status of every record
  orphans,       \* transactions the server has and the client has lost
  pc,            \* where the call of Complete stands
  remaining,     \* ids the next transaction updates
  resolveCommit, \* is the outcome of a COMMIT still unknown?
  commitErr,     \* kind of the error that COMMIT gave
  left,          \* ids the current loop over batches has not reached
  zero,          \* ids readStatuses found at status 0
  wrote,         \* rows the open transaction has updated
  answer,        \* what the last call of Complete returned
  healthy        \* has the database stopped failing for good?

call == <<pc, remaining, resolveCommit, commitErr, left, zero, wrote>>
vars == <<row, orphans, call, answer, healthy>>

Kinds == {"transient", "permanent"}   \* IsRetryable

Init ==
  /\ row \in [Ids -> OpeningStatuses] /\ orphans = {}
  /\ pc = "idle" /\ remaining = Ids /\ resolveCommit = FALSE
  /\ commitErr = "none" /\ left = {} /\ zero = {} /\ wrote = {}
  /\ answer = "none" /\ healthy = FALSE

-----------------------------------------------------------------------------
(* The call and its loop                                                   *)

Call ==
  /\ pc = "idle"
  /\ pc' = "top" /\ remaining' = Ids /\ resolveCommit' = FALSE
  /\ commitErr' = "none" /\ left' = {} /\ zero' = {} /\ wrote' = {}
  /\ answer' = "none"
  /\ UNCHANGED <<row, orphans, healthy>>

Return(a) ==
  /\ pc' = "idle" /\ answer' = a /\ left' = {} /\ zero' = {} /\ wrote' = {}
  /\ UNCHANGED <<remaining, resolveCommit, commitErr>>

(* Retryer.Do sleeps after a transient error and returns any other.        *)
Fail(kind) ==
  IF kind = "transient"
  THEN /\ pc' = "sleep" /\ left' = {} /\ zero' = {} /\ wrote' = {}
       /\ UNCHANGED <<remaining, resolveCommit, commitErr, answer>>
  ELSE Return("error")

Wake ==
  /\ pc = "sleep"
  /\ pc' = "top"
  /\ UNCHANGED <<row, orphans, remaining, resolveCommit, commitErr, left, zero, wrote,
                 answer, healthy>>

Attempt ==
  /\ pc = "top"
  /\ IF resolveCommit THEN pc' = "resolve" /\ left' = Ids ELSE pc' = "begin" /\ UNCHANGED left
  /\ UNCHANGED <<row, orphans, remaining, resolveCommit, commitErr, zero, wrote, answer,
                 healthy>>

(* The next batch of a loop over ids.                                      *)
Batches(ids) ==
  {b \in SUBSET ids : Cardinality(b) = BatchSize \/ (b = ids /\ Cardinality(b) < BatchSize)}

-----------------------------------------------------------------------------
(* completeTransaction                                                     *)

Lost(w, sent) == [wrote |-> w, commit |-> sent]

(* The deferred Rollback reaches the server, or the connection is lost.    *)
Abort ==
  \/ UNCHANGED orphans
  \/ ~healthy /\ orphans' = orphans \cup {Lost(wrote, FALSE)}

Locked(ids) == \E o \in orphans : o.wrote \cap ids # {}

Begin ==
  /\ pc = "begin"
  /\ pc' = "update" /\ left' = remaining
  /\ UNCHANGED <<row, orphans, remaining, resolveCommit, commitErr, zero, wrote, answer,
                 healthy>>

BeginError ==
  /\ pc = "begin" /\ ~healthy
  /\ \E kind \in Kinds : Fail(kind)
  /\ UNCHANGED <<row, orphans, healthy>>

(* Mutant: the update runs outside the transaction.                        *)
UpdateCommits(batch) ==
  /\ pc = "update" /\ ~Locked(batch)
  /\ row' = [i \in Ids |-> IF i \in batch /\ row[i] = "pending" THEN "done" ELSE row[i]]
  /\ left' = left \ batch
  /\ UNCHANGED <<orphans, pc, remaining, resolveCommit, commitErr, zero, wrote, answer, healthy>>

(* UPDATE ... WHERE status = 0 AND id IN batch, behind the row locks of    *)
(* other transactions.                                                     *)
Update(batch) ==
  /\ pc = "update" /\ ~Locked(batch)
  /\ wrote' = wrote \cup {i \in batch : row[i] = "pending"}
  /\ left' = left \ batch
  /\ UNCHANGED <<row, orphans, pc, remaining, resolveCommit, commitErr, zero, answer, healthy>>

UpdateError ==
  /\ pc = "update" /\ left # {} /\ ~healthy
  /\ Abort
  /\ \E kind \in Kinds : Fail(kind)
  /\ UNCHANGED <<row, healthy>>

(* MySQL error 1205                                                        *)
LockWaitTimeout ==
  /\ pc = "update" /\ left # {} /\ Locked(left)
  /\ Abort
  /\ Fail("transient")
  /\ UNCHANGED <<row, healthy>>

(* readStatuses inside the transaction finds the record at status 1.       *)
Updated(i) == i \notin wrote => row[i] = "done"

Verify ==
  /\ pc = "update" /\ left = {}
  /\ IF \A i \in remaining : Updated(i)
     THEN /\ pc' = "commit"
          /\ UNCHANGED <<orphans, remaining, resolveCommit, commitErr, left, zero, wrote,
                         answer>>
     ELSE Abort /\ Fail("permanent")
  /\ UNCHANGED <<row, healthy>>

VerifyError ==
  /\ pc = "update" /\ left = {} /\ ~healthy
  /\ Abort
  /\ \E kind \in Kinds : Fail(kind)
  /\ UNCHANGED <<row, healthy>>

Committed(w) == [i \in Ids |-> IF i \in w THEN "done" ELSE row[i]]

Commit ==
  /\ pc = "commit"
  /\ row' = Committed(wrote)
  /\ Return("ok")
  /\ UNCHANGED <<orphans, healthy>>

(* The answer to COMMIT is an error: it was carried out, or may yet be, or *)
(* was rolled back.  Every id of the manifest is read again.               *)
CommitError ==
  /\ pc = "commit" /\ ~healthy
  /\ \/ row' = Committed(wrote) /\ UNCHANGED orphans
     \/ orphans' = orphans \cup {Lost(wrote, TRUE)} /\ UNCHANGED row
     \/ UNCHANGED <<row, orphans>>
  /\ resolveCommit' = TRUE /\ commitErr' \in Kinds
  /\ pc' = "check" /\ left' = Ids /\ zero' = {} /\ wrote' = {}
  /\ UNCHANGED <<remaining, answer, healthy>>

-----------------------------------------------------------------------------
(* The outcome of COMMIT is resolved on another connection, batch by batch *)
(* ("check": right after the error; "resolve": at the next attempt).       *)

Resolving == pc \in {"check", "resolve"}

ReadStatuses(batch) ==
  /\ Resolving
  /\ IF \A i \in batch : row[i] \in Integral
     THEN /\ zero' = zero \cup {i \in batch : row[i] = "pending"}
          /\ left' = left \ batch
          /\ UNCHANGED <<pc, remaining, resolveCommit, commitErr, wrote, answer>>
     ELSE Fail("permanent")
  /\ UNCHANGED <<row, orphans, healthy>>

ReadStatusesError ==
  /\ Resolving /\ left # {} /\ ~healthy
  /\ \E kind \in Kinds : Fail(kind)
  /\ UNCHANGED <<row, orphans, healthy>>

(* Mutant: the answer to COMMIT does not matter.                           *)
ResolvedAnyway ==
  /\ Resolving /\ left = {}
  /\ Return("ok")
  /\ UNCHANGED <<row, orphans, healthy>>

Resolved ==
  /\ Resolving /\ left = {} /\ zero = {}
  /\ Return("ok")
  /\ UNCHANGED <<row, orphans, healthy>>

Unresolved ==
  /\ Resolving /\ left = {} /\ zero # {} /\ commitErr = "permanent"
  /\ Return("error")
  /\ UNCHANGED <<row, orphans, healthy>>

(* Mutant: the rows found at status 0 are read over and over.              *)
ReplayReads ==
  /\ Resolving /\ left = {} /\ zero # {} /\ commitErr = "transient"
  /\ remaining' = zero
  /\ pc' = "sleep" /\ zero' = {}
  /\ UNCHANGED <<row, orphans, resolveCommit, commitErr, left, wrote, answer, healthy>>

(* Only the rows found at status 0 are updated again.                      *)
Replay ==
  /\ Resolving /\ left = {} /\ zero # {} /\ commitErr = "transient"
  /\ remaining' = zero /\ resolveCommit' = FALSE
  /\ pc' = IF pc = "check" THEN "sleep" ELSE "begin"
  /\ zero' = {}
  /\ UNCHANGED <<row, orphans, commitErr, left, wrote, answer, healthy>>

-----------------------------------------------------------------------------
(* The world                                                               *)

(* The context is cancelled or the process ends: the open transaction is   *)
(* left behind, perhaps with a COMMIT already on its way.                  *)
Stop ==
  /\ pc # "idle"
  /\ \/ UNCHANGED orphans
     \/ orphans' = orphans \cup {Lost(wrote, FALSE)}
     \/ pc = "commit" /\ orphans' = orphans \cup {Lost(wrote, TRUE)}
  /\ Return("none")
  /\ UNCHANGED <<row, healthy>>

ServerRollsBack ==
  /\ \E o \in orphans : orphans' = orphans \ {o}
  /\ UNCHANGED <<row, call, answer, healthy>>

ServerCommits ==
  /\ \E o \in orphans : o.commit /\ orphans' = orphans \ {o} /\ row' = Committed(o.wrote)
  /\ UNCHANGED <<call, answer, healthy>>

Heal ==
  /\ ~healthy /\ healthy' = TRUE
  /\ UNCHANGED <<row, orphans, call, answer>>

Process ==
  \/ Wake \/ Attempt \/ Begin \/ Verify \/ Commit \/ Resolved \/ Unresolved \/ Replay
  \/ \E batch \in Batches(left) : batch # {} /\ (Update(batch) \/ ReadStatuses(batch))

Faults ==
  \/ BeginError \/ UpdateError \/ LockWaitTimeout \/ VerifyError \/ CommitError
  \/ ReadStatusesError \/ Stop

Next ==
  \/ Call \/ Process \/ Faults
  \/ ServerRollsBack \/ ServerCommits \/ Heal

Spec == Init /\ [][Next]_vars

-----------------------------------------------------------------------------
(* Every variable has the shape the code gives it.                         *)
TypeOK ==
  /\ row \in [Ids -> Statuses]
  /\ orphans \subseteq [wrote : SUBSET Ids, commit : BOOLEAN]
  /\ pc \in {"idle", "top", "sleep", "begin", "update", "commit", "check", "resolve"}
  /\ remaining \subseteq Ids /\ left \subseteq Ids /\ zero \subseteq Ids /\ wrote \subseteq Ids
  /\ resolveCommit \in BOOLEAN /\ commitErr \in Kinds \cup {"none"}
  /\ resolveCommit => commitErr \in Kinds
  /\ answer \in {"none", "ok", "error"} /\ healthy \in BOOLEAN

(* When Complete returns nil every record of the manifest is at status 1,  *)
(* and stays so whatever lost transactions the server still settles.       *)
OkIsDone ==
  answer = "ok" => \A i \in Ids : row[i] = "done"

(* The table changes at most once, for the whole manifest: never a batch   *)
(* of it, and not at all when a record is missing or has another status,   *)
(* although lost commits may land between two reads or two attempts.       *)
AllOrNothing ==
  [][row' # row => \A i \in Ids : row'[i] = "done"]_vars

(* Once the database answers again, Complete returns: the retries neither  *)
(* wait for ever on the locks of a lost transaction nor on an unknown      *)
(* commit.                                                                 *)
CompleteReturns ==
  pc # "idle" ~> pc = "idle"
=============================================================================
