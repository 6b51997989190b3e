----------------------------- MODULE Repository -----------------------------
(***************************************************************************)
(* The MySQL repository as the funding task uses it, one call at a time:   *)
(* Complete with its transactions and retries (Completion), every other    *)
(* call by its outcome only, and the observer that Retryer.Do reports each *)
(* failed attempt and each recovery to (Outage), which mails operators.    *)
(***************************************************************************)
EXTENDS Completion

CONSTANTS
  Operations,       \* the repository calls that retry
  Threshold,        \* mysqlAlertThreshold, in units of ten seconds
  Delays,           \* time from one failed attempt to the next
  MaxDown           \* bound: how long a call is followed while it fails

ASSUME OutageAssumption ==
  /\ "complete" \in Operations
  /\ Threshold \in Nat \ {0} /\ Delays \subseteq Nat /\ 0 \in Delays /\ MaxDown \in Nat

VARIABLES operation, failures, down, outages, alerted, standing, told, lost, answered, leaked

O == INSTANCE Outage WITH call <- operation

observed == <<operation, failures, down, outages, alerted, standing, told, lost, answered,
              leaked>>
all == <<vars, observed>>

RepositoryInit == Init /\ O!Init

-----------------------------------------------------------------------------
(* Repository.Complete                                                     *)

Complete == Call /\ O!Call("complete")

(* What Retryer.Do makes of the end of an attempt.                         *)
Observed ==
  \/ pc' \notin {"sleep", "idle"} /\ UNCHANGED observed
  \/ pc' = "sleep" /\ O!FailTransient
  \/ pc' = "idle" /\ answer' = "ok" /\ O!Succeed
  \/ pc' = "idle" /\ answer' = "error" /\ O!FailPermanent
  \/ pc' = "idle" /\ answer' = "none" /\ O!Restart

Completing == Process /\ Observed

-----------------------------------------------------------------------------
(* The other calls                                                         *)

Others ==
  /\ pc = "idle"
  /\ \/ \E o \in Operations \ {"complete"} : O!Call(o)
     \/ O!Succeed \/ O!FailPermanent \/ O!Restart
     \/ ~healthy /\ O!FailTransient
  /\ UNCHANGED vars

Server == (ServerRollsBack \/ ServerCommits) /\ UNCHANGED observed

RepositoryNext ==
  \/ Complete \/ Completing \/ (Faults /\ Observed)
  \/ Others \/ Server \/ (Heal /\ UNCHANGED observed)

(* The process runs, the server gets rid of lost transactions, and the     *)
(* database is unreachable for a while only.                               *)
RepositorySpec ==
  /\ RepositoryInit /\ [][RepositoryNext]_all
  /\ WF_all(Completing) /\ WF_all(Server) /\ WF_all(Heal /\ UNCHANGED observed)

-----------------------------------------------------------------------------
(* Mails come in turn: no outage is mailed twice, and no recovery without  *)
(* its outage, although calls of several operations end in success, in an  *)
(* error or not at all (MySQLRetryObserver).                               *)
MailsInTurn ==
  /\ standing \in {0, 1}
  /\ standing = 1 => outages # {}

(* Whoever has waited for MySQL longer than the threshold has been told    *)
(* since MySQL last worked, if the observer was told of the end of every   *)
(* call it follows: neither what another operation does to the shared      *)
(* latch nor a mail refused in an earlier outage hides this one            *)
(* (RetryStarted, RetryProgress, Recovered, Alert).                        *)
FollowedOutageIsTold ==
  ~leaked => O!OutageIsTold

(* Once a call succeeds, no mailed outage stands without its recovery      *)
(* mail, unless a call ended unseen (docs/operations.md: recovery is       *)
(* mailed afterwards; RetryRecovered).                                     *)
RecoveryIsTold ==
  operation = O!NoCall /\ answered /\ ~leaked => standing = 0
=============================================================================
