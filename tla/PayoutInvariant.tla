-------------------------- MODULE PayoutInvariant --------------------------
(***************************************************************************)
(* The inductive strengthening of the safety properties of the payout      *)
(* protocol.  It says which snapshots a restart could still be made to     *)
(* load, and how each of them relates to the requests that may yet move    *)
(* money.  It is inductive when at most one snapshot is damaged between    *)
(* two empty stores, whatever the machine loses in power failures.         *)
(***************************************************************************)
EXTENDS PayoutProperties

(* A run has a payout journal exactly from payout_prepared on (a run that  *)
(* owes nothing completes without one), and the journal passes the         *)
(* validation of its phase.                                                *)
RunShape(s) ==
  /\ s.phase = "prepared" => s.nonce = 0
  /\ s.nonce = 0 => s.phase \in {"prepared", "completed"}
  /\ ValidProgress(s)

(* Which runs the process can hold at which call.                          *)
Fits(p, s) ==
  /\ p \in {"down", "idle", "load", "list"} => s = NoRun
  /\ p = "preflight" => s.phase = "prepared" /\ PayoutTotal[s.batch] > 0
  /\ p \in {"submit", "await"} => s.phase \in {"payout_submitting", "payout_replaying"}
  /\ p = "observe" =>
       s.phase \in {"payout_prepared", "payout_submitting", "payout_replaying"}
  /\ p = "complete" =>
       s.phase = "payout_confirmed" \/ (s.phase = "prepared" /\ PayoutTotal[s.batch] = 0)
  /\ p \in {"archive", "clear"} => s.phase \in {"completed", "blocked"}
  /\ p = "clear" => s.phase = "completed" \/ s.reason = "rejected"

(* The files a store of such runs can hold.                                *)
ShapedFile == {f \in File : Valid(f) => RunShape(f)}

ShapeInv ==
  /\ Fits(pc, mem)
  /\ \A s \in Runs : RunShape(s)
  /\ durable \subseteq ShapedFile \X ShapedFile

-----------------------------------------------------------------------------
(* May the primary yet be lost, so that a restart loads the backup?        *)
Losable == PowerMayFail \/ damage < MaxDamage

(* The snapshots some continuation can load: a primary the disk may hold;  *)
(* a backup whose primary is unusable or may yet be lost.                  *)
CanLoad(f) ==
  /\ Valid(f)
  /\ \E p \in durable : f = p[1] \/ (f = p[2] /\ (~Valid(p[1]) \/ Losable))
Loadable == {f \in UNION {{p[1], p[2]} : p \in durable} : CanLoad(f)}

(* The process holds a run in memory.                                      *)
Active == pc \notin {"down", "idle", "load", "list"}

(* The runs that can go on, now or after a restart.                        *)
Held == Loadable \cup (IF Active THEN {mem} ELSE {})

Same(s, t) == s.nonce = t.nonce /\ s.batch = t.batch

(* Two payouts either are the same or share no record.                     *)
Compatible(s, q) ==
  /\ s.nonce = q.nonce => s.batch = q.batch
  /\ s.nonce # q.nonce => s.batch \cap q.batch = {}

-----------------------------------------------------------------------------
(* A rejected run is blocked, a completed one is done in the table, every  *)
(* nonce comes from the nonce clock, and a run that may still be replayed  *)
(* was submitted at most once.                                             *)
RunOK(s) ==
  /\ s.reason = "rejected" => s.phase = "blocked"
  /\ s.phase = "completed" => s.batch \subseteq Done
  /\ s.nonce < nextNonce
  /\ s.phase \in {"payout_prepared", "payout_submitting"} => submits[s.nonce] <= 1

(* A run does not clash with the requests that may move money: it is the   *)
(* payout of a live request or disjoint from it, and what was rejected,    *)
(* in the run or in the archive, is dead.                                  *)
NoClash(s) ==
  /\ \A q \in Live : Compatible(s, q)
  /\ s.reason = "rejected" => \A q \in Live : q.nonce # s.nonce
  /\ \A h \in history : h.result = "rejected" /\ h.nonce = s.nonce => s.reason = "rejected"

HeldInv == \A s \in Held : RunOK(s) /\ NoClash(s)

(* An unused nonce was never submitted or archived, no nonce was submitted *)
(* three times, a live request was submitted, a rejected run has a nonce.  *)
CountInv ==
  /\ \A n \in 1..MaxNonce : n >= nextNonce => submits[n] = 0
  /\ \A q \in Live : submits[q.nonce] > 0
  /\ \A h \in history : h.nonce < nextNonce /\ (h.result = "rejected" => h.nonce # 0)
  /\ NoThirdSubmit

LiveInv == RejectedIsUnpaid /\ \A p, q \in Live : Compatible(p, q)

(* What is visible is among what the disk may hold, a damaged file was     *)
(* counted, and a primary that says payout_prepared was never submitted.   *)
DiskFits ==
  /\ <<cur, bak>> \in durable
  /\ ~PowerMayFail => durable = {<<cur, bak>>}
  /\ \A p \in durable :
       /\ Invalid \in {p[1], p[2]} => damage > 0
       /\ Valid(p[1]) /\ p[1].phase = "payout_prepared" => submits[p[1].nonce] = 0

(* No restart finds an empty store, and every run that can go on has       *)
(* nonce n.                                                                *)
NeverEmpty == \A p \in durable : ~LoadsNothing(p[1], p[2])
Owned(n)   == NeverEmpty /\ \A s \in Held : s.nonce = n

Accounted(n) ==
  \E h \in history : h.nonce = n /\ h.result \in {"completed", "rejected"}

(* A submitted nonce is in the archive with its verdict, and the records   *)
(* of a live request are done, unless it is the only payout to go on with. *)
OwnerInv ==
  /\ \A n \in 1..MaxNonce : submits[n] > 0 => Accounted(n) \/ Owned(n)
  /\ \A q \in Live : q.batch \subseteq Done \/ Owned(q.nonce)

(* The run in memory is on disk for good, or its file was damaged since.   *)
OnDisk == durable = {<<cur, bak>>} /\ cur \in {mem, Invalid}

SaveInv ==
  pc = "save" =>
    /\ left > 0
    /\ left > 1 => mem.phase \in {"payout_replaying", "blocked"}
    /\ mem.phase \in {"payout_prepared", "payout_submitting"} => submits[mem.nonce] = 0
    /\ mem.phase = "payout_submitting" =>
         cur = Invalid \/ (Valid(cur) /\ Same(cur, mem) /\ cur.phase = "payout_prepared")
    /\ mem.phase = "payout_replaying" => submits[mem.nonce] <= 1
    /\ mem.phase \in {"payout_replaying", "blocked"} /\ left = 1 => OnDisk

(* When a request leaves, a restart can load no run that would send it     *)
(* again as if for the first time.                                         *)
SubmitInv ==
  pc = "submit" =>
    /\ OnDisk
    /\ mem.phase = "payout_submitting" =>
         /\ submits[mem.nonce] = 0
         /\ \A s \in Loadable :
              Same(s, mem) /\ s.phase \in {"payout_prepared", "payout_submitting"}
    /\ mem.phase = "payout_replaying" =>
         submits[mem.nonce] <= 1 /\ Loadable \subseteq {mem}

(* The first submission is in doubt only while its copy is on its way.     *)
AwaitInv ==
  pc = "await" /\ mem.phase = "payout_submitting" =>
    /\ submits[mem.nonce] = 1
    /\ \A c \in inflight : c.nonce = mem.nonce => c.try = 1 /\ reply = "none"
    /\ Spent(mem.nonce) => reply = "accepted"

(* A verdict is archived only when nothing else can be loaded, the store   *)
(* is cleared only of an archived run, and listed only when empty.         *)
EndInv ==
  /\ pc \in {"archive", "clear"} /\ mem.phase = "blocked" =>
       OnDisk /\ Loadable \subseteq {mem}
  /\ pc = "clear" => Archived(mem, RunResult(mem)) \in history
  /\ pc = "list" => LoadsNothing(cur, bak)

(* A blocked run that is archived is all that a restart finds.             *)
FinalInv ==
  (\E h \in history : h.result = "blocked") =>
    /\ pc \in {"down", "idle", "load"}
    /\ NeverEmpty
    /\ \A s \in Loadable : s.phase = "blocked"

SafeInv ==
  /\ HeldInv
  /\ CountInv
  /\ LiveInv
  /\ DiskFits
  /\ OwnerInv
  /\ SaveInv
  /\ SubmitInv
  /\ AwaitInv
  /\ EndInv
  /\ FinalInv

-----------------------------------------------------------------------------
(* With a truthful balance index: what is confirmed was executed, a live   *)
(* request is executed or the only payout to go on with, and the balance   *)
(* has not fallen below the one before a payout that was not executed.     *)
Settled(f) ==
  Valid(f) /\ f.phase \in {"payout_confirmed", "completed"} /\ f.nonce # 0 => Spent(f.nonce)

PaidInv ==
  /\ \A p \in durable : Settled(p[1]) /\ Settled(p[2])
  /\ Settled(mem)
  /\ pc = "await" /\ reply = "accepted" => Spent(mem.nonce)
  /\ \A q \in Live : Spent(q.nonce) \/ Owned(q.nonce)
  /\ \A s \in Held : s.nonce # 0 /\ ~Spent(s.nonce) =>
       \A i \in seen..Len(ledger) : ledger[i] >= s.before

(* A run that may go on and whose records are not all done: every such     *)
(* snapshot is about the batch of the newest run.                          *)
Claimed(f) == Valid(f) /\ f.phase # "blocked" /\ ~(f.batch \subseteq Done)

ClaimInv ==
  /\ \A f \in Loadable : Claimed(f) => Valid(Loaded) /\ f.batch = Loaded.batch
  /\ Active => \A f \in Loadable : Claimed(f) => f.batch = mem.batch
  /\ \A p \in durable : Valid(p[1]) /\ Claimed(p[2]) => p[2].batch = p[1].batch

(* The records of a request that may still be executed are pending, those  *)
(* of a run are pending or done together, and done only when paid unless   *)
(* they owe nothing; a request that may move money owes something.         *)
WholeBatch(s) ==
  \/ s.batch \subseteq Pending
  \/ s.batch \subseteq Done /\ (PayoutTotal[s.batch] > 0 => Spent(s.nonce))

WholeInv ==
  /\ \A q \in Live : PayoutTotal[q.batch] > 0 /\ (Spent(q.nonce) \/ q.batch \subseteq Pending)
  /\ \A s \in Held : s.phase # "blocked" => WholeBatch(s)
=============================================================================
