-------------------------- MODULE RunReportProofs --------------------------
(***************************************************************************)
(* Proofs about the report of a funding task: whatever the record of the   *)
(* day and the result of the task are, and however the balance index lags. *)
(***************************************************************************)
EXTENDS RunReport, SequenceTheorems, TLAPS

-----------------------------------------------------------------------------
(* The inductive invariant, in the order in which a report comes about.    *)

Fields(r) ==
  [trigger |-> r.trigger, attempt |-> r.attempt, warnings |-> r.warnings,
   record |-> r.record, recorded |-> r.recorded, claimables |-> r.claimables,
   rewards |-> r.rewards, sweep |-> r.sweep, payout |-> r.payout, amount |-> r.amount,
   before |-> r.before, balance |-> r.balance, told |-> r.told, status |-> r.status]

Watches ==
  [queries : Nat, seen : Nat, limit : Nat, stable : Nat, total : Nat, hold : Nat,
   match : BOOLEAN]

Shape ==
  /\ rep = Fields(rep) /\ w \in Watches /\ history \in Seq(Nat) /\ Len(history) >= 1
  /\ record \in Records

(* Before the record is attached, and while the service is stopping, there *)
(* is nothing in the report.                                               *)
Early ==
  /\ pc = "load" => rep.record = "none" /\ ~canceled
  /\ canceled => pc \in {"body", "quiet"}
  /\ pc \in {"load", "body"} => Len(history) = 1 /\ ~landed /\ rep.balance = "none" /\ w = NewWatch
  /\ pc # "sent" => rep.status = "none"

(* What the record shows when the scheduled task took it over without a    *)
(* warning.                                                                *)
CleanRecord ==
  /\ record.status = "completed" /\ DOMAIN record.entries = Builders
  /\ \A b \in Builders :
       LET e == record.entries[b]
       IN  e.claimable # Unseen /\ ~e.uncertain /\ {e.claim, e.sweep} \subseteq {"success", "skipped"}
  /\ rep.claimables = [b \in Builders |-> record.entries[b].claimable]

Attachment ==
  pc # "load" /\ ~canceled /\ rep.trigger = "utc_payout" /\ rep.warnings = {} => CleanRecord

(* Where the ending balance is asked for, and what may have been told.     *)
Ending ==
  /\ pc \in {"balance", "watch"} => rep.balance = "none"
  /\ pc = "balance" => ~landed
  /\ pc = "watch" => /\ rep.payout = "success" /\ rep.before = history[1] /\ landed
                     /\ rep.amount \in Nat \ {0} /\ Len(history) >= 2
  /\ pc \in {"balance", "watch", "rates", "final", "sent"} /\ err = "none" =>
       /\ rep.payout \in {"skipped", "success"} /\ rep.amount \in Nat
       /\ pc \in {"rates", "final", "sent"} /\ rep.warnings = {} => rep.balance = "observed"
  /\ rep.payout = "success" /\ rep.balance = "unconfirmed" => pc \in {"rates", "final", "sent"}
  /\ rep.status = "green" => err = "none" /\ rep.warnings = {} /\ ~Shortfall

(* The window of the watch is never longer than its queries, and it ends   *)
(* on a match only with the queries.                                       *)
Window ==
  /\ w.queries <= QueryAttempts /\ w.seen <= w.queries /\ w.limit <= QueryAttempts
  /\ w.match /\ w.seen >= w.limit => w.queries = QueryAttempts

ReportInv ==
  /\ Shape /\ Early /\ Attachment /\ Ending /\ Window
  /\ InterruptedIsTold /\ EndingBalanceIsSettled /\ GivesUpLast

-----------------------------------------------------------------------------
LEMMA InitReportInv == Init => ReportInv
<1> SUFFICES ASSUME Init PROVE ReportInv
  OBVIOUS
<1>1. PICK trigger, attempt : rep = NewRunReport(trigger, attempt)
  BY DEF Init
<1>2. rep = Fields(rep) /\ rep.record = "none" /\ rep.status = "none" /\ rep.balance = "none"
      /\ rep.warnings = {} /\ rep.payout = "pending"
  BY <1>1 DEF NewRunReport, Fields
<1>3. history \in Seq(Nat) /\ Len(history) = 1
  BY RunReportAssumption DEF Init
<1>4. w \in Watches /\ Window
  BY RunReportAssumption DEF Init, NewWatch, Watches, Window
<1>5. pc = "load" /\ record \in Records /\ canceled = FALSE /\ landed = FALSE /\ w = NewWatch
  BY DEF Init
<1> QED
  BY <1>2, <1>3, <1>4, <1>5 DEF ReportInv, Shape, Early, Attachment, Ending, InterruptedIsTold,
     EndingBalanceIsSettled, GivesUpLast

-----------------------------------------------------------------------------
(* attachDailyConsolidation                                                *)

(* An update of the report changes the fields it names.                    *)
Taken(r, t, n, c, x, y, z) ==
  [r EXCEPT !.record = t, !.recorded = n, !.claimables = c, !.rewards = x, !.sweep = y,
            !.warnings = z]

LEMMA TakenFields ==
  ASSUME NEW r, r = Fields(r), NEW t, NEW n, NEW c, NEW x, NEW y, NEW z
  PROVE  LET q == Taken(r, t, n, c, x, y, z)
         IN  /\ q = Fields(q) /\ q.record = t /\ q.recorded = n /\ q.claimables = c
             /\ q.rewards = x /\ q.sweep = y /\ q.warnings = z /\ q.trigger = r.trigger
             /\ q.balance = r.balance /\ q.status = r.status /\ q.payout = r.payout
<1>0. PICK m, q : m = [r EXCEPT !.record = t, !.recorded = n, !.claimables = c]
                  /\ q = Taken(r, t, n, c, x, y, z)
  OBVIOUS
<1>1. /\ m = Fields(m) /\ m.record = t /\ m.recorded = n /\ m.claimables = c
      /\ m.trigger = r.trigger /\ m.balance = r.balance /\ m.status = r.status
      /\ m.payout = r.payout
  BY <1>0 DEF Fields
<1>2. q = [m EXCEPT !.rewards = x, !.sweep = y, !.warnings = z]
  BY <1>0 DEF Taken
<1>3. /\ q = Fields(q) /\ q.record = t /\ q.recorded = n /\ q.claimables = c
      /\ q.rewards = x /\ q.sweep = y /\ q.warnings = z /\ q.trigger = r.trigger
      /\ q.balance = r.balance /\ q.status = r.status /\ q.payout = r.payout
  BY <1>1, <1>2 DEF Fields
<1> QED
  BY <1>0, <1>3

Missed(r, t, z) ==
  [r EXCEPT !.record = t, !.rewards = "skipped", !.sweep = "skipped", !.warnings = z]

LEMMA MissedFields ==
  ASSUME NEW r, r = Fields(r), NEW t, NEW z
  PROVE  LET q == Missed(r, t, z)
         IN  /\ q = Fields(q) /\ q.record = t /\ q.warnings = z /\ q.trigger = r.trigger
             /\ q.balance = r.balance /\ q.status = r.status /\ q.payout = r.payout
<1>1. PICK q : q = Missed(r, t, z)
  OBVIOUS
<1>2. /\ q = Fields(q) /\ q.record = t /\ q.warnings = z /\ q.trigger = r.trigger
      /\ q.balance = r.balance /\ q.status = r.status /\ q.payout = r.payout
  BY <1>1 DEF Fields, Missed
<1> QED
  BY <1>1, <1>2

(* A record is empty, or has the entries its status asks for.              *)
LEMMA RecordEntries ==
  ASSUME Shape
  PROVE  /\ record.status \in {"missing", "unreadable", "completed", "captured"}
         /\ record.status = "completed" =>
              \E S \in SUBSET Builders : record.entries \in [S -> FinalEntries]
<1>1. record \in Records
  BY DEF Shape
<1>2. CASE record \in [status : {"missing", "unreadable"}, entries : {<<>>}]
  BY <1>2
<1>3. ASSUME NEW S \in SUBSET Builders \ {{}},
             record \in [status : {"completed"}, entries : [S -> FinalEntries]] \cup
                        [status : {"captured"}, entries : [S -> CapturedEntries]]
      PROVE  /\ record.status \in {"completed", "captured"}
             /\ record.status = "completed" => record.entries \in [S -> FinalEntries]
  BY <1>3
<1> QED
  BY <1>1, <1>2, <1>3 DEF Records

(* What the report takes over from a record.                               *)
LEMMA AttachedIs ==
  ASSUME Shape, NEW q, q = Attached
  PROVE  /\ q = Fields(q) /\ q.record = record.status /\ q.recorded = DOMAIN record.entries
         /\ q.trigger = rep.trigger /\ q.balance = rep.balance /\ q.status = rep.status
         /\ q.payout = rep.payout
         /\ \A b \in DOMAIN record.entries : Shown(record.entries[b].claim) = "warning" =>
              q.rewards = "warning" /\ "claim" \in q.warnings
         /\ \A b \in DOMAIN record.entries : Shown(record.entries[b].sweep) = "warning" =>
              q.sweep = "warning" /\ "sweep" \in q.warnings
         /\ q.trigger = "utc_payout" /\ q.warnings = {} =>
              /\ record.status = "completed" /\ DOMAIN record.entries = Builders
              /\ \A b \in Builders :
                   /\ record.entries[b].claimable # Unseen /\ ~record.entries[b].uncertain
                   /\ Shown(record.entries[b].claim) # "warning"
                   /\ Shown(record.entries[b].sweep) # "warning"
              /\ q.claimables = [b \in Builders |-> record.entries[b].claimable]
<1> DEFINE recorded == DOMAIN record.entries
           claims == {Shown(record.entries[b].claim) : b \in recorded}
           sweeps == {Shown(record.entries[b].sweep) : b \in recorded}
           rest == IF recorded = Builders THEN {} ELSE {"pending"}
           observed == {b \in recorded : record.entries[b].claimable # Unseen}
           utc == rep.trigger = "utc_payout"
           claimables == [b \in observed |-> record.entries[b].claimable]
           told == UNION {
             Warn(observed # recorded, "claimable unseen"),
             Warn("warning" \in claims, "claim"),
             Warn("warning" \in sweeps, "sweep"),
             Warn(utc /\ recorded # Builders, "builders missing"),
             Warn(utc /\ observed # Builders, "claimables missing"),
             Warn(utc /\ record.status # "completed", "not completed"),
             Warn(utc /\ \E b \in recorded : record.entries[b].uncertain, "uncertain claim")}
<1>1. q = Taken(rep, record.status, recorded, claimables, AggregateBuilderStep(claims \cup rest),
                AggregateBuilderStep(sweeps \cup rest), told)
  BY DEF Attached, Taken
<1>2. \A c, k : c => k \in Warn(c, k)
  BY DEF Warn
<1>3. \A a, b, c, d, e, f, g, x : x \in a \/ x \in b \/ x \in c \/ x \in d \/ x \in e \/ x \in f \/ x \in g
        => x \in UNION {a, b, c, d, e, f, g}
  OBVIOUS
<1>4. /\ "warning" \in claims => "claim" \in told
      /\ "warning" \in sweeps => "sweep" \in told
      /\ utc /\ recorded # Builders => "builders missing" \in told
      /\ utc /\ observed # Builders => "claimables missing" \in told
      /\ utc /\ record.status # "completed" => "not completed" \in told
      /\ utc /\ (\E b \in recorded : record.entries[b].uncertain) => "uncertain claim" \in told
  BY <1>2, <1>3, Zenon
<1>5. /\ "warning" \in claims => AggregateBuilderStep(claims \cup rest) = "warning"
      /\ "warning" \in sweeps => AggregateBuilderStep(sweeps \cup rest) = "warning"
  BY DEF AggregateBuilderStep
<1>6. \A b \in recorded : Shown(record.entries[b].sweep) \in sweeps
                          /\ Shown(record.entries[b].claim) \in claims
  OBVIOUS
<1>7. observed = Builders => \A b \in Builders : record.entries[b].claimable # Unseen
  OBVIOUS
<1>8. observed = Builders => claimables = [b \in Builders |-> record.entries[b].claimable]
  OBVIOUS
<1> HIDE DEF recorded, claims, sweeps, rest, observed, claimables, told
<1>9. /\ q = Fields(q) /\ q.record = record.status /\ q.recorded = recorded
      /\ q.claimables = claimables /\ q.rewards = AggregateBuilderStep(claims \cup rest)
      /\ q.sweep = AggregateBuilderStep(sweeps \cup rest)
      /\ q.warnings = told /\ q.trigger = rep.trigger
      /\ q.balance = rep.balance /\ q.status = rep.status /\ q.payout = rep.payout
  <2>1. rep = Fields(rep)
    BY DEF Shape
  <2> QED
    BY <1>1, <2>1, TakenFields
<1>10. \A b \in recorded :
         /\ Shown(record.entries[b].claim) = "warning" => q.rewards = "warning" /\ "claim" \in q.warnings
         /\ Shown(record.entries[b].sweep) = "warning" => q.sweep = "warning" /\ "sweep" \in q.warnings
  BY <1>4, <1>5, <1>6, <1>9
<1>11. ASSUME utc, told = {}
       PROVE  /\ record.status = "completed" /\ recorded = Builders
              /\ \A b \in Builders :
                   /\ record.entries[b].claimable # Unseen /\ ~record.entries[b].uncertain
                   /\ Shown(record.entries[b].claim) # "warning"
                   /\ Shown(record.entries[b].sweep) # "warning"
              /\ claimables = [b \in Builders |-> record.entries[b].claimable]
  BY <1>4, <1>6, <1>7, <1>8, <1>11
<1> QED
  BY <1>9, <1>10, <1>11 DEF recorded

LEMMA AttachStep ==
  ASSUME ReportInv, Attach
  PROVE  ReportInv'
<1> USE DEF ReportInv
<1>1. /\ pc = "load" /\ pc' = "body" /\ UNCHANGED <<record, canceled, err, history, landed, w>>
      /\ rep.record = "none" /\ ~canceled /\ Len(history) = 1 /\ ~landed /\ rep.balance = "none"
      /\ w = NewWatch /\ rep.status = "none"
  BY DEF Attach, Early
<1>2. /\ rep' = Fields(rep') /\ rep'.record = record.status /\ rep'.trigger = rep.trigger
      /\ rep'.balance = rep.balance /\ rep'.status = rep.status /\ rep'.payout = rep.payout
      /\ rep'.record = "captured" => InterruptedIsTold'
      /\ rep'.trigger = "utc_payout" /\ rep'.warnings = {} => CleanRecord'
  <2>1. CASE record.status \in {"missing", "unreadable"}
    <3>1. rep' = AttachedMissing
      BY <2>1 DEF Attach
    <3>2. rep'.warnings = Warn(rep.trigger = "utc_payout", "no record") /\ rep'.record = record.status
          /\ rep' = Fields(rep') /\ rep'.trigger = rep.trigger
          /\ rep'.balance = rep.balance /\ rep'.status = rep.status /\ rep'.payout = rep.payout
      <4>1. rep = Fields(rep)
        BY DEF Shape
      <4>2. PICK z : z = Warn(rep.trigger = "utc_payout", "no record")
        OBVIOUS
      <4>3. rep' = Missed(rep, record.status, z)
        BY <3>1, <4>2 DEF AttachedMissing, Missed
      <4>4. rep'.warnings = z /\ rep'.record = record.status
            /\ rep' = Fields(rep') /\ rep'.trigger = rep.trigger
            /\ rep'.balance = rep.balance /\ rep'.status = rep.status /\ rep'.payout = rep.payout
        BY <4>1, <4>3, MissedFields
      <4> QED
        BY <4>2, <4>4
    <3> QED
      BY <2>1, <3>2 DEF Warn
  <2>2. CASE record.status \notin {"missing", "unreadable"}
    <3>1. rep' = Attached
      BY <2>2 DEF Attach
    <3>2. /\ rep' = Fields(rep') /\ rep'.record = record.status
          /\ rep'.recorded = DOMAIN record.entries
          /\ rep'.trigger = rep.trigger /\ rep'.balance = rep.balance /\ rep'.status = rep.status
          /\ rep'.payout = rep.payout
          /\ \A b \in DOMAIN record.entries : Shown(record.entries[b].claim) = "warning" =>
               rep'.rewards = "warning" /\ "claim" \in rep'.warnings
          /\ \A b \in DOMAIN record.entries : Shown(record.entries[b].sweep) = "warning" =>
               rep'.sweep = "warning" /\ "sweep" \in rep'.warnings
          /\ rep'.trigger = "utc_payout" /\ rep'.warnings = {} =>
               /\ record.status = "completed" /\ DOMAIN record.entries = Builders
               /\ \A b \in Builders :
                    /\ record.entries[b].claimable # Unseen /\ ~record.entries[b].uncertain
                    /\ Shown(record.entries[b].claim) # "warning"
                    /\ Shown(record.entries[b].sweep) # "warning"
               /\ rep'.claimables = [b \in Builders |-> record.entries[b].claimable]
      BY <3>1, AttachedIs
    <3>3. rep'.record = "captured" => InterruptedIsTold'
      BY <1>1, <3>2 DEF InterruptedIsTold, Shown, MarkIncomplete
    <3>4. ASSUME rep'.trigger = "utc_payout", rep'.warnings = {} PROVE CleanRecord'
      <4>1. PICK S \in SUBSET Builders : record.entries \in [S -> FinalEntries]
        BY <3>2, <3>4, RecordEntries
      <4>2. S = Builders
        BY <3>2, <3>4, <4>1
      <4>3. ASSUME NEW b \in Builders
            PROVE  {record.entries[b].claim, record.entries[b].sweep} \subseteq {"success", "skipped"}
        <5>1. record.entries[b] \in FinalEntries
          BY <4>1, <4>2
        <5>2. record.entries[b].claim # "warning" /\ record.entries[b].sweep # "warning"
          BY <3>2, <3>4 DEF Shown
        <5> QED
          BY <5>1, <5>2, RunReportAssumption DEF EntryType, Steps
      <4> QED
        BY <1>1, <3>2, <3>4, <4>3 DEF CleanRecord
    <3> QED
      BY <3>2, <3>3, <3>4
  <2> QED
    BY <2>1, <2>2
<1>3. Shape' /\ Early' /\ Attachment' /\ Window'
  BY <1>1, <1>2 DEF Shape, Early, Attachment, Window
<1>4. Ending'
  BY <1>1, <1>2 DEF Ending
<1>5. InterruptedIsTold'
  BY <1>2 DEF InterruptedIsTold
<1>6. EndingBalanceIsSettled' /\ GivesUpLast'
  BY <1>1, <1>2 DEF EndingBalanceIsSettled, GivesUpLast
<1> QED
  BY <1>3, <1>4, <1>5, <1>6

LEMMA AttachCanceledStep ==
  ASSUME ReportInv, AttachCanceled
  PROVE  ReportInv'
BY DEF ReportInv, AttachCanceled, Shape, Early, Attachment, CleanRecord, Ending, Shortfall, Window,
       InterruptedIsTold, EndingBalanceIsSettled, GivesUpLast

-----------------------------------------------------------------------------
(* The task, and the ending balance                                        *)

(* After the attachment, a report keeps what it took over and its warnings.*)
Keeps(r, q) ==
  /\ q = Fields(q) /\ q.trigger = r.trigger /\ q.record = r.record /\ q.recorded = r.recorded
  /\ q.rewards = r.rewards /\ q.sweep = r.sweep /\ q.claimables = r.claimables
  /\ r.warnings \subseteq q.warnings

LEMMA KeepsAttachment ==
  ASSUME ReportInv, pc # "load", UNCHANGED <<record, canceled>>, Keeps(rep, rep')
  PROVE  Attachment' /\ InterruptedIsTold'
<1>1. rep'.warnings = {} => rep.warnings = {}
  BY DEF Keeps
<1>2. CleanRecord => CleanRecord'
  BY DEF Keeps, CleanRecord
<1> QED
  BY <1>1, <1>2 DEF ReportInv, Attachment, InterruptedIsTold, Keeps

Paid(r, p, a, b, x) == [r EXCEPT !.payout = p, !.amount = a, !.before = b, !.balance = x]

LEMMA PaidFields ==
  ASSUME NEW r, r = Fields(r), NEW p, NEW a, NEW b, NEW x
  PROVE  LET q == Paid(r, p, a, b, x)
         IN  /\ Keeps(r, q) /\ q.payout = p /\ q.amount = a /\ q.before = b /\ q.balance = x
             /\ q.status = r.status
<1>1. PICK q : q = Paid(r, p, a, b, x)
  OBVIOUS
<1>2. /\ Keeps(r, q) /\ q.payout = p /\ q.amount = a /\ q.before = b /\ q.balance = x
      /\ q.status = r.status
  BY <1>1 DEF Fields, Paid, Keeps
<1> QED
  BY <1>1, <1>2

(* What is told of the ending balance, the warnings and the colour.        *)
Told(r, x, t) == [r EXCEPT !.balance = x, !.told = t]
Lost(r, x, z) == [r EXCEPT !.balance = x, !.warnings = z]
Warned(r, z) == [r EXCEPT !.warnings = z]
Sealed(r, z, s) == [r EXCEPT !.warnings = z, !.status = s]

LEMMA ToldFields ==
  ASSUME NEW r, r = Fields(r), NEW x, NEW t
  PROVE  LET q == Told(r, x, t)
         IN  /\ Keeps(r, q) /\ q.balance = x /\ q.told = t /\ q.warnings = r.warnings
             /\ q.payout = r.payout /\ q.amount = r.amount /\ q.status = r.status
<1>1. PICK q : q = Told(r, x, t)
  OBVIOUS
<1>2. /\ Keeps(r, q) /\ q.balance = x /\ q.told = t /\ q.warnings = r.warnings
      /\ q.payout = r.payout /\ q.amount = r.amount /\ q.status = r.status
  BY <1>1 DEF Fields, Told, Keeps
<1> QED
  BY <1>1, <1>2

LEMMA LostFields ==
  ASSUME NEW r, r = Fields(r), NEW x, NEW z, r.warnings \subseteq z
  PROVE  LET q == Lost(r, x, z)
         IN  /\ Keeps(r, q) /\ q.balance = x /\ q.warnings = z
             /\ q.payout = r.payout /\ q.amount = r.amount /\ q.status = r.status
<1>1. PICK q : q = Lost(r, x, z)
  OBVIOUS
<1>2. /\ Keeps(r, q) /\ q.balance = x /\ q.warnings = z
      /\ q.payout = r.payout /\ q.amount = r.amount /\ q.status = r.status
  BY <1>1 DEF Fields, Lost, Keeps
<1> QED
  BY <1>1, <1>2

LEMMA WarnedFields ==
  ASSUME NEW r, r = Fields(r), NEW z, r.warnings \subseteq z
  PROVE  LET q == Warned(r, z)
         IN  /\ Keeps(r, q) /\ q.balance = r.balance /\ q.warnings = z /\ q.told = r.told
             /\ q.payout = r.payout /\ q.amount = r.amount /\ q.status = r.status
<1>1. PICK q : q = Warned(r, z)
  OBVIOUS
<1>2. /\ Keeps(r, q) /\ q.balance = r.balance /\ q.warnings = z /\ q.told = r.told
      /\ q.payout = r.payout /\ q.amount = r.amount /\ q.status = r.status
  BY <1>1 DEF Fields, Warned, Keeps
<1> QED
  BY <1>1, <1>2

LEMMA SealedFields ==
  ASSUME NEW r, r = Fields(r), NEW z, NEW s, r.warnings \subseteq z
  PROVE  LET q == Sealed(r, z, s)
         IN  /\ Keeps(r, q) /\ q.balance = r.balance /\ q.warnings = z /\ q.told = r.told
             /\ q.payout = r.payout /\ q.amount = r.amount /\ q.status = s
<1>1. PICK q : q = Sealed(r, z, s)
  OBVIOUS
<1>2. /\ Keeps(r, q) /\ q.balance = r.balance /\ q.warnings = z /\ q.told = r.told
      /\ q.payout = r.payout /\ q.amount = r.amount /\ q.status = s
  BY <1>1 DEF Fields, Sealed, Keeps
<1> QED
  BY <1>1, <1>2

LEMMA BalanceAdded ==
  ASSUME NEW h \in Seq(Nat), NEW t \in Nat
  PROVE  /\ Append(h, t) \in Seq(Nat) /\ Len(Append(h, t)) = Len(h) + 1
         /\ \A i \in 1..Len(h) : Append(h, t)[i] = h[i]
BY AppendProperties

LEMMA TaskStep ==
  ASSUME ReportInv, NEW r \in Results, Task(r)
  PROVE  ReportInv'
<1> USE DEF ReportInv
<1>1. /\ pc = "body" /\ pc' = AfterTask(r) /\ err' = r.err /\ UNCHANGED <<record, canceled, w>>
      /\ canceled => r.err = "canceled"
      /\ Len(history) = 1 /\ ~landed /\ rep.balance = "none" /\ w = NewWatch /\ rep.status = "none"
  BY DEF Task, Early
<1>2. /\ r.err = "none" => r.payout \in {"skipped", "success"}
      /\ r.payout = "skipped" => r.amount = 0
      /\ r.payout \in {"success", "failed", "unconfirmed"} => r.amount > 0
      /\ r.amount \in Nat \cup {Unknown}
  BY RunReportAssumption DEF Results
<1>3. PICK before, x :
        /\ before = Last(history)
        /\ x = IF r.payout = "unconfirmed" THEN "unconfirmed" ELSE "none"
        /\ rep' = Paid(rep, r.payout, r.amount, before, x)
  BY <1>1 DEF Task, Paid
<1>4. /\ Keeps(rep, rep') /\ rep'.payout = r.payout /\ rep'.amount = r.amount
      /\ rep'.before = before /\ rep'.balance = x /\ rep'.status = "none"
  BY <1>1, <1>3, PaidFields DEF Shape
<1>5. before = history[1] /\ before \in Nat
  <2>1. history \in Seq(Nat) /\ Len(history) = 1
    BY <1>1 DEF Shape
  <2>2. \A i \in 1..Len(history) : history[i] \in Nat
    BY <2>1
  <2>3. 1 \in 1..Len(history)
    BY <2>1
  <2> QED
    BY <1>3, <2>1, <2>2, <2>3 DEF Last
<1>6. landed' \in BOOLEAN /\ (landed' => r.payout \in {"success", "unconfirmed"})
      /\ (r.payout = "success" => landed')
  <2>1. CASE r.payout = "success"
    BY <2>1 DEF Task
  <2>2. CASE r.payout = "unconfirmed"
    BY <2>2 DEF Task
  <2>3. CASE r.payout \notin {"success", "unconfirmed"}
    BY <2>3 DEF Task
  <2> QED
    BY <2>1, <2>2, <2>3
<1>7. history' \in Seq(Nat) /\ (IF landed' THEN Len(history') = 2 ELSE Len(history') = 1)
      /\ history'[1] = before
  <2>1. CASE landed'
    <3>1. PICK total \in Boundaries(Last(history), r.amount) : history' = Append(history, total)
      BY <2>1 DEF Task
    <3>2. r.amount \in Nat /\ Fee \in Nat
      BY <1>2, <1>6, <2>1, RunReportAssumption DEF Unknown
    <3>3. total \in Nat
      BY <1>3, <1>5, <3>1, <3>2 DEF Boundaries
    <3>4. history \in Seq(Nat) /\ Len(history) = 1
      BY <1>1 DEF Shape
    <3>5. Append(history, total) \in Seq(Nat)
          /\ Len(Append(history, total)) = Len(history) + 1
          /\ \A i \in 1..Len(history) : Append(history, total)[i] = history[i]
      BY <3>3, <3>4, BalanceAdded
    <3>6. 1 \in 1..Len(history) /\ Len(history) + 1 = 2
      BY <3>4
    <3> QED
      BY <1>5, <2>1, <3>1, <3>5, <3>6
  <2>2. CASE ~landed'
    BY <1>1, <1>5, <2>2 DEF Task, Shape
  <2> QED
    BY <2>1, <2>2
<1>8. Attachment' /\ InterruptedIsTold'
  BY <1>1, <1>4, KeepsAttachment
<1>9. Shape' /\ Window'
  BY <1>1, <1>4, <1>7 DEF Shape, Window, Keeps
<1>10. Early'
  BY <1>1, <1>4 DEF AfterTask, Early
<1>11. Ending'
  <2>1. r.payout = "success" => r.amount \in Nat \ {0}
    BY <1>2 DEF Unknown
  <2>2. r.err = "none" => r.amount \in Nat
    BY <1>2, <2>1
  <2>3. (pc \in {"balance", "watch"} => rep.balance = "none")'
    BY <1>1, <1>3, <1>4 DEF AfterTask
  <2>4. (pc = "balance" => ~landed)'
    BY <1>1, <1>6 DEF AfterTask
  <2>5. (pc = "watch" => /\ rep.payout = "success" /\ rep.before = history[1] /\ landed
                         /\ rep.amount \in Nat \ {0} /\ Len(history) >= 2)'
    <3>1. SUFFICES ASSUME pc' = "watch" PROVE r.payout = "success" /\ landed' /\ Len(history') >= 2
      BY <1>4, <1>5, <1>7, <2>1
    <3> QED
      BY <1>1, <1>6, <1>7, <3>1 DEF AfterTask
  <2>6. ASSUME err' = "none"
        PROVE  /\ r.payout \in {"skipped", "success"} /\ r.amount \in Nat
               /\ pc' \in {"balance", "watch"}
    BY <1>1, <1>2, <2>2, <2>6 DEF AfterTask
  <2>7. ~(rep'.payout = "success" /\ rep'.balance = "unconfirmed")
    BY <1>3, <1>4
  <2> QED
    BY <1>4, <2>3, <2>4, <2>5, <2>6, <2>7 DEF Ending
<1>12. EndingBalanceIsSettled' /\ GivesUpLast'
  BY <1>3, <1>4 DEF EndingBalanceIsSettled, GivesUpLast
<1> QED
  BY <1>8, <1>9, <1>10, <1>11, <1>12

LEMMA BalanceTold ==
  ASSUME ReportInv, pc \in {"balance", "watch"}, NEW total, RecordFinalBalance(total),
         \E i \in (IF landed THEN 2 ELSE 1)..Len(history) : history[i] = total
  PROVE  ReportInv'
<1> USE DEF ReportInv
<1>1. pc' = "rates" /\ rep' = Told(rep, "observed", total)
      /\ UNCHANGED <<record, canceled, err, history, landed, w>>
  BY DEF RecordFinalBalance, Told
<1>2. /\ Keeps(rep, rep') /\ rep'.balance = "observed" /\ rep'.told = total
      /\ rep'.payout = rep.payout /\ rep'.amount = rep.amount /\ rep'.status = rep.status
  BY <1>1, ToldFields DEF Shape
<1>3. Attachment' /\ InterruptedIsTold'
  BY <1>1, <1>2, KeepsAttachment
<1>4. Shape' /\ Window'
  BY <1>1, <1>2 DEF Shape, Window, Keeps
<1>5. Early' /\ ~canceled /\ rep.status = "none"
  BY <1>1, <1>2 DEF Early
<1>6. Ending'
  BY <1>1, <1>2, <1>5 DEF Ending
<1>7. EndingBalanceIsSettled' /\ GivesUpLast'
  BY <1>1, <1>2 DEF EndingBalanceIsSettled, GivesUpLast
<1> QED
  BY <1>3, <1>4, <1>5, <1>6, <1>7

LEMMA BalanceLost ==
  ASSUME ReportInv, pc \in {"balance", "watch"}, NEW outcome \in {"failed", "unconfirmed"},
         FinalBalanceLost(outcome),
         outcome = "unconfirmed" => w.queries = QueryAttempts \/ ~w.match
  PROVE  ReportInv'
<1> USE DEF ReportInv
<1>1. PICK z : z = rep.warnings \cup {"balance"}
  OBVIOUS
<1>2. pc' = "rates" /\ rep' = Lost(rep, outcome, z)
      /\ UNCHANGED <<record, canceled, err, history, landed, w>>
  BY <1>1 DEF FinalBalanceLost, Lost
<1>3. /\ Keeps(rep, rep') /\ rep'.balance = outcome /\ rep'.warnings = z
      /\ rep'.payout = rep.payout /\ rep'.amount = rep.amount /\ rep'.status = rep.status
  <2>1. rep = Fields(rep) /\ rep.warnings \subseteq z
    BY <1>1 DEF Shape
  <2> QED
    BY <1>2, <2>1, LostFields
<1>4. Attachment' /\ InterruptedIsTold'
  BY <1>2, <1>3, KeepsAttachment
<1>5. Shape' /\ Window'
  BY <1>2, <1>3 DEF Shape, Window, Keeps
<1>6. Early' /\ ~canceled /\ rep.status = "none"
  BY <1>2, <1>3 DEF Early
<1>7. Ending'
  BY <1>1, <1>2, <1>3, <1>6 DEF Ending
<1>8. EndingBalanceIsSettled' /\ GivesUpLast'
  BY <1>2, <1>3 DEF EndingBalanceIsSettled, GivesUpLast
<1> QED
  BY <1>4, <1>5, <1>6, <1>7, <1>8

(* A balance that fits the payout is none from before it.                  *)
LEMMA MatchIsLater ==
  ASSUME ReportInv, pc = "watch", NEW total \in Reads,
         total \in Boundaries(rep.before, rep.amount)
  PROVE  \E i \in 2..Len(history) : history[i] = total
<1>1. /\ rep.before = history[1] /\ rep.amount \in Nat \ {0} /\ history \in Seq(Nat)
      /\ Len(history) >= 2
  BY DEF ReportInv, Ending, Shape
<1>2. PICK i \in 1..Len(history) : total = history[i]
  BY <1>1 DEF Reads, Range
<1>3. \A j \in 1..Len(history) : history[j] \in Nat
  BY <1>1
<1>4. history[1] \in Nat
  <2>1. 1 \in 1..Len(history)
    BY <1>1
  <2> QED
    BY <1>3, <2>1
<1>5. total # history[1]
  <2>1. PICK amount, before : amount = rep.amount /\ before = history[1]
    OBVIOUS
  <2>2. amount \in Nat \ {0} /\ before \in Nat /\ Fee \in Nat
    BY <1>1, <1>4, <2>1, RunReportAssumption
  <2>3. total = before - amount \/ total = before - amount - Fee
    BY <1>1, <2>1 DEF Boundaries
  <2> QED
    BY <2>1, <2>2, <2>3
<1>6. i # 1
  BY <1>2, <1>5
<1> QED
  BY <1>2, <1>6

LEMMA WatchErrorStep ==
  ASSUME ReportInv, WatchError
  PROVE  ReportInv'
<1> USE DEF ReportInv
<1>1. /\ pc = "watch" /\ w.queries < QueryAttempts /\ w.seen < w.limit
      /\ w' = [w EXCEPT !.queries = @ + 1, !.stable = 0]
      /\ UNCHANGED <<pc, record, canceled, rep, err, history, landed>>
  BY DEF WatchError, Watching
<1>2. w \in Watches /\ QueryAttempts \in Nat
  BY RunReportAssumption DEF Shape
<1>3. w' \in Watches /\ w'.queries = w.queries + 1 /\ w'.seen = w.seen /\ w'.limit = w.limit
      /\ w'.match = w.match
  <2>1. PICK v, n : v = w /\ n = v.queries + 1 /\ w' = [v EXCEPT !.queries = n, !.stable = 0]
    BY <1>1
  <2>2. v \in Watches /\ n \in Nat
    BY <1>2, <2>1 DEF Watches
  <2>3. [v EXCEPT !.queries = n, !.stable = 0] \in Watches
    BY <2>2 DEF Watches
  <2> QED
    BY <2>1, <2>2, <2>3 DEF Watches
<1>4. Window'
  BY <1>1, <1>2, <1>3 DEF Window, Watches
<1>5. rep.balance = "none"
  BY <1>1 DEF Ending
<1> QED
  BY <1>1, <1>3, <1>4, <1>5 DEF Shape, Early, Attachment, CleanRecord, Ending, Shortfall,
     InterruptedIsTold, EndingBalanceIsSettled, GivesUpLast

LEMMA WatchReadStep ==
  ASSUME ReportInv, WatchRead
  PROVE  ReportInv'
<1> USE DEF ReportInv
<1>1. pc = "watch" /\ w.queries < QueryAttempts /\ w.seen < w.limit
  BY DEF WatchRead, Watching
<1>2. PICK total \in Reads, hold \in Holds :
        LET match  == total \in Boundaries(rep.before, rep.amount)
            again  == match /\ w.stable > 0 /\ total = w.total /\ hold = w.hold
            stable == IF again THEN w.stable + 1 ELSE IF match THEN 1 ELSE 0
            seen   == w.seen + 1
        IN  IF stable >= Confirmations THEN RecordFinalBalance(total)
            ELSE /\ w' = [queries |-> w.queries + 1, seen |-> seen, stable |-> stable,
                          match |-> match,
                          limit |-> IF Grows(match, seen) THEN w.limit + 1 ELSE w.limit,
                          total |-> IF match THEN total ELSE w.total,
                          hold  |-> IF match THEN hold ELSE w.hold]
                 /\ UNCHANGED <<pc, record, canceled, rep, err, history, landed>>
  BY DEF WatchRead
<1>3. /\ w \in Watches /\ landed /\ QueryAttempts \in Nat /\ Confirmations \in Nat \ {0}
      /\ rep.balance = "none" /\ w.limit <= QueryAttempts /\ w.seen <= w.queries
  BY <1>1, RunReportAssumption DEF Shape, Ending, Window
<1>4. /\ w.queries \in Nat /\ w.seen \in Nat /\ w.limit \in Nat /\ w.stable \in Nat
      /\ w.total \in Nat /\ w.hold \in Nat
  BY <1>3 DEF Watches
<1>5. total \in Nat /\ hold \in Nat
  <2>1. PICK i \in 1..Len(history) : total = history[i]
    BY DEF Reads, Range, Shape
  <2> QED
    BY <2>1, RunReportAssumption DEF Shape
<1>6. CASE RecordFinalBalance(total) /\ total \in Boundaries(rep.before, rep.amount)
  <2>1. \E i \in 2..Len(history) : history[i] = total
    BY <1>1, <1>6, MatchIsLater
  <2> QED
    BY <1>1, <1>3, <1>6, <2>1, BalanceTold
<1>7. CASE /\ UNCHANGED <<pc, record, canceled, rep, err, history, landed>>
           /\ w' \in Watches /\ Window'
  BY <1>1, <1>3, <1>7 DEF Shape, Early, Attachment, CleanRecord, Ending, Shortfall,
     InterruptedIsTold, EndingBalanceIsSettled, GivesUpLast
<1> DEFINE match  == total \in Boundaries(rep.before, rep.amount)
           again  == match /\ w.stable > 0 /\ total = w.total /\ hold = w.hold
           stable == IF again THEN w.stable + 1 ELSE IF match THEN 1 ELSE 0
           n      == w.seen + 1
           limit  == IF Grows(match, n) THEN w.limit + 1 ELSE w.limit
           x      == [queries |-> w.queries + 1, seen |-> n, stable |-> stable, match |-> match,
                      limit |-> limit, total |-> IF match THEN total ELSE w.total,
                      hold  |-> IF match THEN hold ELSE w.hold]
<1>8. IF stable >= Confirmations THEN RecordFinalBalance(total)
      ELSE w' = x /\ UNCHANGED <<pc, record, canceled, rep, err, history, landed>>
  BY <1>2
<1>9. match \in BOOLEAN /\ stable \in Nat /\ n \in Nat /\ limit \in Nat
  BY <1>4
<1>10. stable >= Confirmations => match
  BY <1>3
<1>11. x \in Watches
  <2>1. PICK a, b, c : /\ a = w.queries + 1 /\ b = (IF match THEN total ELSE w.total)
                       /\ c = (IF match THEN hold ELSE w.hold)
    OBVIOUS
  <2>2. a \in Nat /\ b \in Nat /\ c \in Nat
    BY <1>4, <1>5, <2>1
  <2>3. x = [queries |-> a, seen |-> n, stable |-> stable, match |-> match,
             limit |-> limit, total |-> b, hold |-> c]
    BY <2>1
  <2> HIDE DEF match, stable, n, limit, x
  <2> QED
    BY <1>9, <2>2, <2>3 DEF Watches
<1>12. ASSUME w' = x PROVE Window'
  <2>1. /\ w'.queries = w.queries + 1 /\ w'.seen = n /\ w'.limit = limit
        /\ w'.match = match
    BY <1>12
  <2>2. limit <= QueryAttempts /\ n <= w.queries + 1 /\ w.queries + 1 <= QueryAttempts
    BY <1>1, <1>3, <1>4 DEF Grows
  <2>3. match /\ n >= limit => w.queries + 1 = QueryAttempts
    BY <1>1, <1>3, <1>4 DEF Grows
  <2> QED
    BY <2>1, <2>2, <2>3 DEF Window
<1> HIDE DEF stable, x
<1> QED
  BY <1>6, <1>7, <1>8, <1>10, <1>11, <1>12

LEMMA BalanceStep ==
  ASSUME ReportInv, SingleRead \/ SingleReadError \/ WatchEnds
  PROVE  ReportInv'
<1>1. CASE SingleRead
  <2>1. PICK total \in Reads : pc = "balance" /\ RecordFinalBalance(total)
    BY <1>1 DEF SingleRead
  <2>2. ~landed /\ history \in Seq(Nat)
    BY <2>1 DEF ReportInv, Ending, Shape
  <2>3. \E i \in 1..Len(history) : history[i] = total
    BY <2>2 DEF Reads, Range
  <2> QED
    BY <2>1, <2>2, <2>3, BalanceTold
<1>2. CASE SingleReadError
  BY <1>2, BalanceLost DEF SingleReadError
<1>3. CASE WatchEnds
  <2>1. pc = "watch" /\ ~Watching /\ FinalBalanceLost(IF w.seen = 0 THEN "failed" ELSE "unconfirmed")
    BY <1>3 DEF WatchEnds
  <2>2. w.queries = QueryAttempts \/ ~w.match
    <3>1. w.queries \in Nat /\ w.seen \in Nat /\ w.limit \in Nat /\ QueryAttempts \in Nat
      BY RunReportAssumption DEF ReportInv, Shape, Watches
    <3> QED
      BY <2>1, <3>1 DEF Watching, ReportInv, Window
  <2> QED
    BY <2>1, <2>2, BalanceLost
<1> QED
  BY <1>1, <1>2, <1>3

(* Others' credits leave the balances there were.                          *)
LEMMA CreditStep ==
  ASSUME ReportInv, Credit
  PROVE  ReportInv'
<1> USE DEF ReportInv
<1>1. PICK c \in Credits : history' = Append(history, Last(history) + c)
  BY DEF Credit
<1>2. pc \in {"balance", "watch"} /\ UNCHANGED <<pc, record, canceled, rep, err, landed, w>>
  BY DEF Credit
<1>3. history \in Seq(Nat) /\ Len(history) >= 1
  BY DEF Shape
<1>4. Last(history) + c \in Nat
  <2>1. \A i \in 1..Len(history) : history[i] \in Nat
    BY <1>3
  <2>2. Len(history) \in 1..Len(history)
    BY <1>3
  <2>3. Last(history) \in Nat /\ c \in Nat
    BY <2>1, <2>2, RunReportAssumption DEF Last
  <2> QED
    BY <2>3
<1>5. /\ history' \in Seq(Nat) /\ Len(history') = Len(history) + 1
      /\ \A i \in 1..Len(history) : history'[i] = history[i]
  BY <1>1, <1>3, <1>4, BalanceAdded
<1>6. Len(history) \in Nat /\ Len(history') >= Len(history) /\ history'[1] = history[1]
  <2>1. 1 \in 1..Len(history) /\ Len(history) \in Nat
    BY <1>3
  <2> QED
    BY <1>5, <2>1
<1>7. rep.balance = "none"
  BY <1>2 DEF Ending
<1>8. Ending'
  BY <1>2, <1>6 DEF Ending, Shortfall
<1>9. Shape' /\ Early' /\ Window'
  BY <1>2, <1>3, <1>5, <1>6 DEF Shape, Early, Window
<1>10. Attachment' /\ InterruptedIsTold' /\ GivesUpLast'
  BY <1>2 DEF Attachment, CleanRecord, InterruptedIsTold, GivesUpLast
<1>11. EndingBalanceIsSettled'
  BY <1>2, <1>7 DEF EndingBalanceIsSettled
<1> QED
  BY <1>8, <1>9, <1>10, <1>11

-----------------------------------------------------------------------------
(* Quotas, colour and delivery                                             *)

LEMMA RatesStep ==
  ASSUME ReportInv, ObserveUserRateLimits
  PROVE  ReportInv'
<1> USE DEF ReportInv
<1>1. PICK healthy \in BOOLEAN :
        rep' = [rep EXCEPT !.warnings = rep.warnings \cup Warn(~healthy, "rate")]
  BY DEF ObserveUserRateLimits
<1>2. PICK z : z = rep.warnings \cup Warn(~healthy, "rate")
  OBVIOUS
<1>3. /\ pc = "rates" /\ pc' = "final" /\ UNCHANGED <<record, canceled, err, history, landed, w>>
      /\ rep' = Warned(rep, z)
  BY <1>1, <1>2 DEF ObserveUserRateLimits, Warned
<1>4. /\ Keeps(rep, rep') /\ rep'.balance = rep.balance /\ rep'.warnings = z /\ rep'.told = rep.told
      /\ rep'.payout = rep.payout /\ rep'.amount = rep.amount /\ rep'.status = rep.status
  <2>1. rep = Fields(rep) /\ rep.warnings \subseteq z
    BY <1>2 DEF Shape
  <2> QED
    BY <1>3, <2>1, WarnedFields
<1>5. Attachment' /\ InterruptedIsTold'
  BY <1>3, <1>4, KeepsAttachment
<1>6. Shape' /\ Window'
  BY <1>3, <1>4 DEF Shape, Window, Keeps
<1>7. Early' /\ rep.status = "none"
  BY <1>3, <1>4 DEF Early
<1>8. z = {} => rep.warnings = {}
  BY <1>2
<1>9. Ending'
  BY <1>3, <1>4, <1>7, <1>8 DEF Ending
<1>10. EndingBalanceIsSettled' /\ GivesUpLast'
  BY <1>3, <1>4 DEF EndingBalanceIsSettled, GivesUpLast
<1> QED
  BY <1>5, <1>6, <1>7, <1>9, <1>10

LEMMA DeliverStep ==
  ASSUME ReportInv, Deliver
  PROVE  ReportInv'
<1> USE DEF ReportInv
<1>1. PICK z, s : /\ z = rep.warnings \cup Warn(Shortfall, "below payout") /\ s = StatusOf(z)
                  /\ rep' = Sealed(rep, z, s)
  BY DEF Deliver, Sealed
<1>2. pc = "final" /\ pc' = "sent" /\ UNCHANGED <<record, canceled, err, history, landed, w>>
  BY DEF Deliver
<1>3. /\ Keeps(rep, rep') /\ rep'.balance = rep.balance /\ rep'.warnings = z /\ rep'.told = rep.told
      /\ rep'.payout = rep.payout /\ rep'.amount = rep.amount /\ rep'.status = s
  <2>1. rep = Fields(rep) /\ rep.warnings \subseteq z
    BY <1>1 DEF Shape
  <2>2. rep' = Sealed(rep, z, s)
    BY <1>1
  <2> QED
    BY <2>1, <2>2, SealedFields
<1>4. Attachment' /\ InterruptedIsTold'
  BY <1>2, <1>3, KeepsAttachment
<1>5. Shape' /\ Window' /\ Early'
  BY <1>2, <1>3 DEF Shape, Window, Keeps, Early
<1>6. z = {} => rep.warnings = {} /\ ~Shortfall
  BY <1>1 DEF Warn
<1>7. s = "green" => err = "none" /\ z = {}
  BY <1>1 DEF StatusOf
<1>8. Shortfall' <=> Shortfall
  BY <1>3 DEF Shortfall, Keeps
<1>9. Ending'
  BY <1>2, <1>3, <1>6, <1>7, <1>8 DEF Ending
<1>10. EndingBalanceIsSettled' /\ GivesUpLast'
  BY <1>2, <1>3 DEF EndingBalanceIsSettled, GivesUpLast
<1> QED
  BY <1>4, <1>5, <1>9, <1>10

LEMMA NextReportInv == ReportInv /\ [Next]_vars => ReportInv'
<1> SUFFICES ASSUME ReportInv, [Next]_vars PROVE ReportInv'
  OBVIOUS
<1>1. CASE UNCHANGED vars
  BY <1>1 DEF vars, ReportInv, Shape, Early, Attachment, CleanRecord, Ending, Shortfall, Window,
     InterruptedIsTold, EndingBalanceIsSettled, GivesUpLast
<1>2. ASSUME NEW r \in Results, Task(r) PROVE ReportInv'
  BY <1>2, TaskStep
<1> QED
  BY <1>1, <1>2, AttachStep, AttachCanceledStep, BalanceStep, WatchErrorStep, WatchReadStep,
     RatesStep, DeliverStep, CreditStep DEF Next, Step, TimedStep

LEMMA ReportAlways == Spec => []ReportInv
BY InitReportInv, NextReportInv, PTL DEF Spec

-----------------------------------------------------------------------------
(* A green report of a scheduled task hides nothing: the consolidation of  *)
(* the day completed and settled for every builder, it covers the payout,  *)
(* and the ending balance was observed (finalize).                         *)
THEOREM GreenHidesNothing == Spec => []GreenIsClean
<1>1. ReportInv => GreenIsClean
  <2> SUFFICES ASSUME ReportInv, rep.trigger = "utc_payout", rep.status = "green"
               PROVE  /\ CleanRecord /\ rep.balance = "observed" /\ rep.warnings = {}
                      /\ ~(TotalOf([b \in Builders |-> record.entries[b].claimable]) < rep.amount)
    BY DEF GreenIsClean, CleanRecord
  <2>1. err = "none" /\ rep.warnings = {} /\ ~Shortfall /\ pc = "sent" /\ ~canceled
    BY DEF ReportInv, Ending, Early
  <2>2. CleanRecord /\ rep.balance = "observed" /\ rep.amount \in Nat
    BY <2>1 DEF ReportInv, Attachment, Ending
  <2>3. rep.claimables = [b \in Builders |-> record.entries[b].claimable]
    BY <2>2 DEF CleanRecord
  <2>4. DOMAIN rep.claimables = Builders
    BY <2>3
  <2>5. ~(TotalOf(rep.claimables) < rep.amount)
    BY <2>1, <2>2, <2>4 DEF Shortfall, Unknown
  <2> QED
    BY <2>1, <2>2, <2>3, <2>5
<1> QED
  BY <1>1, ReportAlways, PTL

(* The report of an interrupted consolidation warns of every claim and     *)
(* every sweep that was not reached (markIncompleteBuilderActions).        *)
THEOREM InterruptionsAreTold == Spec => []InterruptedIsTold
<1>1. ReportInv => InterruptedIsTold
  BY DEF ReportInv
<1> QED
  BY <1>1, ReportAlways, PTL

(* The ending balance a report tells is one from after the payout, however *)
(* the index lags (observeSettlementFinalBalance).                         *)
THEOREM EndingBalanceIsFromAfter == Spec => []EndingBalanceIsSettled
<1>1. ReportInv => EndingBalanceIsSettled
  BY DEF ReportInv
<1> QED
  BY <1>1, ReportAlways, PTL

(* The watch over the ending balance gives up with its queries spent, or   *)
(* on a last balance that does not fit (the window that grows by one in    *)
(* observeSettlementFinalBalance).                                         *)
THEOREM WatchGivesUpLast == Spec => []GivesUpLast
<1>1. ReportInv => GivesUpLast
  BY DEF ReportInv
<1> QED
  BY <1>1, ReportAlways, PTL

-----------------------------------------------------------------------------
(* What a task has before it: its stages, and the queries left to the      *)
(* watch.                                                                  *)
Rank ==
  CASE pc = "load"                  -> QueryAttempts + 5
    [] pc = "body"                  -> QueryAttempts + 4
    [] pc \in {"balance", "watch"}  -> QueryAttempts - w.queries + 3
    [] pc = "rates"                 -> 2
    [] pc = "final"                 -> 1
    [] OTHER                        -> 0

LEMMA RankFalls ==
  ASSUME ReportInv, Step PROVE Rank \in Nat /\ Rank' \in Nat /\ Rank' < Rank
<1>1. w.queries \in Nat /\ QueryAttempts \in Nat /\ w.queries <= QueryAttempts
  BY RunReportAssumption DEF ReportInv, Shape, Watches, Window
<1>2. CASE Attach \/ AttachCanceled
  BY <1>1, <1>2 DEF Attach, AttachCanceled, Rank
<1>3. ASSUME NEW r \in Results, Task(r) PROVE Rank \in Nat /\ Rank' \in Nat /\ Rank' < Rank
  <2>1. pc = "body" /\ w' = w /\ pc' \in {"quiet", "rates", "watch", "balance"}
    BY <1>3 DEF Task, AfterTask
  <2> QED
    BY <1>1, <2>1 DEF Rank
<1>4. CASE SingleRead \/ SingleReadError \/ WatchEnds
  <2>1. pc \in {"balance", "watch"} /\ pc' = "rates"
    BY <1>4 DEF SingleRead, SingleReadError, WatchEnds, RecordFinalBalance, FinalBalanceLost
  <2> QED
    BY <1>1, <2>1 DEF Rank
<1>5. CASE WatchError \/ WatchRead
  <2>1. pc = "watch" /\ w.queries < QueryAttempts
    BY <1>5 DEF WatchError, WatchRead, Watching
  <2>2. pc' = "rates" \/ (pc' = "watch" /\ w'.queries = w.queries + 1)
    <3>1. CASE WatchError
      BY <3>1 DEF WatchError, ReportInv, Shape, Watches
    <3>2. CASE WatchRead
      BY <3>2 DEF WatchRead, RecordFinalBalance
    <3> QED
      BY <1>5, <3>1, <3>2
  <2> QED
    BY <1>1, <2>1, <2>2 DEF Rank
<1>6. CASE ObserveUserRateLimits \/ Deliver
  BY <1>1, <1>6 DEF ObserveUserRateLimits, Deliver, Rank
<1> QED
  BY <1>2, <1>3, <1>4, <1>5, <1>6 DEF Step, TimedStep

(* No task goes round in circles: whatever queries fail, whatever the      *)
(* index shows and however the window grows, every step of the task lowers *)
(* a natural number, which payments by others leave alone, so a report is  *)
(* at most QueryAttempts + 5 steps away, one of them the payout with its   *)
(* waits for MySQL (observeSettlementFinalBalance).                        *)
THEOREM TaskWindsDown ==
  Spec => [][/\ Rank \in 0..(QueryAttempts + 5) /\ Rank' \in 0..(QueryAttempts + 5)
             /\ Step => Rank' < Rank
             /\ Credit => Rank' = Rank]_vars
<1>1. ReportInv => Rank \in 0..(QueryAttempts + 5)
  <2> SUFFICES ASSUME ReportInv PROVE Rank \in 0..(QueryAttempts + 5)
    OBVIOUS
  <2>1. w.queries \in Nat /\ QueryAttempts \in Nat /\ w.queries <= QueryAttempts
    BY RunReportAssumption DEF ReportInv, Shape, Watches, Window
  <2> QED
    BY <2>1 DEF Rank
<1>2. Credit => Rank' = Rank
  BY DEF Credit, Rank
<1>3. ReportInv /\ Step => Rank' < Rank
  BY RankFalls
<1>4. ReportInv /\ ReportInv' /\ [Next]_vars =>
        [/\ Rank \in 0..(QueryAttempts + 5) /\ Rank' \in 0..(QueryAttempts + 5)
         /\ Step => Rank' < Rank
         /\ Credit => Rank' = Rank]_vars
  <2>1. ReportInv' => (Rank \in 0..(QueryAttempts + 5))'
    BY <1>1, PTL
  <2> QED
    BY <1>1, <1>2, <1>3, <2>1
<1> QED
  BY <1>4, ReportAlways, PTL DEF Spec
=============================================================================
