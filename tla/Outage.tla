------------------------------- MODULE Outage -------------------------------
(***************************************************************************)
(* Retryer.Do and the MySQLRetryObserver it reports to: when an operator   *)
(* is told by mail that MySQL is down, and that it is back                 *)
(* (internal/repository/mysql/retry.go, internal/notification/             *)
(* dispatcher.go).  The funding task makes one repository call at a time.  *)
(* Time is in units of ten seconds; progress logs are left out.            *)
(***************************************************************************)
EXTENDS Integers

CONSTANTS
  Operations,       \* the repository calls that retry
  Threshold,        \* mysqlAlertThreshold
  Delays,           \* time from one failed attempt to the next
  MaxDown           \* bound: how long a call is followed while it fails

NoCall == "none"

VARIABLES
  call,      \* the operation being retried
  failures,  \* has an attempt of this call failed?
  down,      \* unavailableFor: time since its first failure
  outages,   \* operations the observer believes to be failing
  alerted,   \* has the observer mailed this outage?
  standing,  \* outage mails of this process less its recovery mails
  told,      \* did a mail arrive since MySQL last carried out a call?
  lost,      \* was the mail of the outage the observer follows refused?
  answered,  \* did the last call succeed?
  leaked     \* did a call end without telling the observer, since it last knew of none?

observer == <<outages, alerted, standing, told, lost>>
vars == <<call, failures, down, answered, leaked, observer>>

Init ==
  /\ call = NoCall /\ failures = FALSE /\ down = 0 /\ answered = FALSE /\ leaked = FALSE
  /\ outages = {} /\ alerted = FALSE /\ standing = 0 /\ told = FALSE /\ lost = FALSE

-----------------------------------------------------------------------------
(* Mails                                                                   *)

(* What Notify may return: the mail is sent, or an error (SES refuses it). *)
Notify == {"sent", "error"}

(* Dispatcher.Alert logs an error and drops the mail.                      *)
Alert ==
  \E result \in Notify :
    told' = (told \/ result = "sent") /\ lost' = (lost \/ result = "error")

-----------------------------------------------------------------------------
(* MySQLRetryObserver                                                      *)

RetryStarted(op) ==
  /\ outages' = outages \cup {op}
  /\ alerted' = IF outages = {} THEN FALSE ELSE alerted
  /\ UNCHANGED <<standing, told, lost>>

(* Mutant: every report of progress beyond the threshold is mailed.        *)
RetryProgressAgain(op, unavailableFor) ==
  /\ outages' = outages \cup {op}
  /\ IF unavailableFor >= Threshold
     THEN alerted' = TRUE /\ standing' = standing + 1 /\ Alert
     ELSE UNCHANGED <<alerted, standing, told, lost>>

(* Mutant: the mail is sent only beyond the threshold.                     *)
RetryProgressLate(op, unavailableFor) ==
  /\ outages' = outages \cup {op}
  /\ IF unavailableFor > Threshold /\ ~alerted
     THEN alerted' = TRUE /\ standing' = standing + 1 /\ Alert
     ELSE UNCHANGED <<alerted, standing, told, lost>>

(* The latch is set before the mail is sent, whatever becomes of it.       *)
RetryProgress(op, unavailableFor) ==
  /\ outages' = outages \cup {op}
  /\ IF unavailableFor >= Threshold /\ ~alerted
     THEN alerted' = TRUE /\ standing' = standing + 1 /\ Alert
     ELSE UNCHANGED <<alerted, standing, told, lost>>

(* Mutant: the end of an outage that was mailed is not.                    *)
RecoveredSilently(op) ==
  /\ outages' = outages \ {op}
  /\ alerted' = (alerted /\ outages' # {})
  /\ told' = FALSE /\ lost' = (lost /\ outages' # {}) /\ UNCHANGED standing

(* The last failing operation is back: the end of a mailed outage is       *)
(* mailed too (nothing later depends on whether that mail arrives).        *)
Recovered(op) ==
  /\ outages' = outages \ {op}
  /\ standing' = IF op \in outages /\ alerted /\ outages' = {} THEN standing - 1
                 ELSE standing
  /\ alerted' = (alerted /\ outages' # {})
  /\ told' = FALSE /\ lost' = (lost /\ outages' # {})

-----------------------------------------------------------------------------
(* Retryer.Do                                                              *)

Call(op) ==
  /\ call = NoCall
  /\ call' = op /\ failures' = FALSE /\ down' = 0
  /\ UNCHANGED <<answered, leaked, observer>>

Return(ok) ==
  /\ call' = NoCall /\ failures' = FALSE /\ down' = 0 /\ answered' = ok

Succeed ==
  /\ call # NoCall
  /\ IF failures THEN Recovered(call)
     ELSE told' = FALSE /\ UNCHANGED <<outages, alerted, standing, lost>>
  /\ leaked' = (leaked /\ outages' # {})
  /\ Return(TRUE)

FailTransient ==
  /\ call # NoCall
  /\ \/ ~failures /\ RetryStarted(call) /\ UNCHANGED down
     \/ \E d \in Delays :
          /\ failures /\ down + d <= MaxDown
          /\ down' = down + d
          /\ RetryProgress(call, down + d)
  /\ failures' = TRUE
  /\ UNCHANGED <<call, answered, leaked>>

FailPermanent ==
  /\ call # NoCall
  /\ leaked' = (leaked \/ failures)
  /\ Return(FALSE)
  /\ UNCHANGED observer

(* The context is cancelled, the process ends and is started again.        *)
Restart ==
  /\ call # NoCall
  /\ Return(FALSE)
  /\ leaked' = FALSE /\ outages' = {} /\ alerted' = FALSE /\ standing' = 0
  /\ told' = FALSE /\ lost' = FALSE

Next ==
  \/ \E op \in Operations : Call(op)
  \/ Succeed \/ FailTransient \/ FailPermanent \/ Restart

Spec == Init /\ [][Next]_vars

-----------------------------------------------------------------------------
(* Whoever has waited for MySQL longer than the threshold has been told    *)
(* since MySQL last worked, unless the mail was refused (docs/             *)
(* operations.md: a lasting outage is mailed; RetryProgress).              *)
OutageIsTold ==
  failures /\ down >= Threshold /\ ~lost => told
=============================================================================
