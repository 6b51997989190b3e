---------------------------- MODULE PayoutProofs ----------------------------
(***************************************************************************)
(* Proofs, for all values of the constants, of the safety properties that  *)
(* the TLC runs check on small instances.                                  *)
(***************************************************************************)
EXTENDS PayoutInvariant, TLAPS

USE FilesAssumption, PayoutAssumption, SnapshotAssumption

-----------------------------------------------------------------------------
(* Type correctness and the shape of every run, for any number of damaged  *)
(* snapshots.                                                              *)

(* A new run owes nothing yet and has no journal.                          *)
LEMMA NewRunShape ==
  ASSUME NEW B \in SUBSET Records
  PROVE  NewRun(B) \in RunState /\ RunShape(NewRun(B))
  BY DEF NewRun, RunState, Phases, RunShape, ValidProgress

LEMMA InitShape == Init => TypeOK /\ ShapeInv
  <1> SUFFICES ASSUME Init PROVE TypeOK /\ ShapeInv
    OBVIOUS
  <1>1. mem \in RunState /\ RunShape(mem) /\ mem = NoRun
    BY NewRunShape DEF Init, NoRun
  <1>2. TypeOK
    <2>1. Missing \in File /\ cur = Missing /\ bak = Missing
          /\ durable = {<<Missing, Missing>>}
      BY DEF Init, File
    <2>2. cur \in File /\ bak \in File /\ durable \subseteq File \X File
      BY <2>1
    <2>3. pre \in [tries : Nat, stable : Nat, total : Nat, avail : Nat]
          /\ obs \in [tries : Nat, good : Nat, atBefore : BOOLEAN,
                      evidence : {"none", "decreased", "decreased_with_fee"}, stable : Nat]
          /\ pc \in Processes /\ reply \in {"none", "accepted", "rejected"}
          /\ trigger \in {"none", "crashed", "recover", "run_on_start", "utc_payout"}
          /\ left \in 0..2 /\ damage \in Nat
      BY DEF Init, Processes, PreInit, ObsInit
    <2>4. status \in [Records -> {"absent", "pending", "done"}]
          /\ history = {} /\ inflight = {} /\ applied = {}
          /\ nextNonce \in 1..MaxNonce + 1 /\ submits \in [1..MaxNonce -> Nat]
      BY DEF Init
    <2>5. ledger \in Seq(Nat) /\ Len(ledger) > 0 /\ seen \in 1..Len(ledger)
      BY DEF Init
    <2> QED
      BY <1>1, <2>2, <2>3, <2>4, <2>5 DEF TypeOK
  <1>3. ShapeInv
    <2>1. Missing \in ShapedFile
      BY DEF ShapedFile, File, Valid
    <2>2. cur = Missing /\ bak = Missing /\ durable = {<<Missing, Missing>>}
      BY DEF Init
    <2>3. durable \subseteq ShapedFile \X ShapedFile
      BY <2>1, <2>2
    <2>4. Fits(pc, mem)
      BY DEF Init, Fits
    <2>5. \A s \in Runs : RunShape(s)
      BY <1>1, <2>2 DEF Runs, Snapshots, Valid
    <2> QED
      BY <2>3, <2>4, <2>5 DEF ShapeInv
  <1> QED
    BY <1>2, <1>3

(* The three parts of TypeOK /\ ShapeInv that a step changes separately.   *)
ProcInv ==
  /\ pc \in Processes
  /\ trigger \in {"none", "crashed", "recover", "run_on_start", "utc_payout"}
  /\ mem \in RunState
  /\ left \in 0..2
  /\ pre \in [tries : Nat, stable : Nat, total : Nat, avail : Nat]
  /\ obs \in [tries : Nat, good : Nat, atBefore : BOOLEAN,
              evidence : {"none", "decreased", "decreased_with_fee"},
              stable : Nat]
  /\ reply \in {"none", "accepted", "rejected"}
  /\ Fits(pc, mem)
  /\ RunShape(mem)

DiskInv ==
  /\ cur \in ShapedFile /\ bak \in ShapedFile
  /\ durable \subseteq ShapedFile \X ShapedFile
  /\ damage \in Nat

WorldInv ==
  /\ history \subseteq [nonce : 0..MaxNonce, batch : SUBSET Records,
                        result : {"completed", "rejected", "blocked",
                                  "failed_validation"}]
  /\ status \in [Records -> {"absent", "pending", "done"}]
  /\ nextNonce \in 1..MaxNonce + 1
  /\ submits \in [1..MaxNonce -> Nat]
  /\ inflight \subseteq Copy
  /\ applied \subseteq Request
  /\ ledger \in Seq(Nat) /\ Len(ledger) > 0
  /\ seen \in 1..Len(ledger)

LEMMA ShapeParts == TypeOK /\ ShapeInv <=> ProcInv /\ DiskInv /\ WorldInv
  <1>1. ShapedFile \subseteq File
    BY DEF ShapedFile
  <1>2. durable \subseteq ShapedFile \X ShapedFile => durable \subseteq File \X File
    BY <1>1
  <1>3. cur \in ShapedFile <=> cur \in File /\ (Valid(cur) => RunShape(cur))
    BY DEF ShapedFile
  <1>4. bak \in ShapedFile <=> bak \in File /\ (Valid(bak) => RunShape(bak))
    BY DEF ShapedFile
  <1>5. (\A s \in Runs : RunShape(s)) <=>
          /\ RunShape(mem)
          /\ Valid(cur) => RunShape(cur)
          /\ Valid(bak) => RunShape(bak)
    BY DEF Runs, Snapshots
  <1> QED
    BY <1>2, <1>3, <1>4, <1>5 DEF TypeOK, ShapeInv, ProcInv, DiskInv, WorldInv

LEMMA ValidIsRun == ASSUME NEW f \in File, Valid(f) PROVE f \in RunState
  BY DEF File, Valid

(* Going on with a well-shaped run, and leaving a run, keep the process    *)
(* well-shaped.                                                            *)
LEMMA GoProc ==
  ASSUME ProcInv, NEW p \in Processes, NEW s \in RunState, NEW k \in 0..2,
         RunShape(s), Fits(p, s), Go(p, s, k)
  PROVE  ProcInv'
  <1>1. pc' = p /\ mem' = s /\ left' = k /\ pre' = PreInit /\ obs' = ObsInit
        /\ reply' = "none" /\ trigger' = trigger
    BY DEF Go
  <1>2. RunShape(mem)' /\ Fits(pc, mem)'
    BY <1>1 DEF RunShape, ValidProgress, ValidJournal, Fits
  <1> QED
    BY <1>1, <1>2 DEF ProcInv, PreInit, ObsInit

LEMMA LeaveProc ==
  ASSUME NEW p \in {"down", "idle"}, NEW why \in {"none", "crashed"}, Leave(p, why)
  PROVE  ProcInv'
  <1>1. pc' = p /\ mem' = NoRun /\ left' = 0 /\ pre' = PreInit /\ obs' = ObsInit
        /\ reply' = "none" /\ trigger' = why
    BY DEF Leave
  <1>2. NoRun \in RunState /\ RunShape(NoRun)
    BY NewRunShape DEF NoRun
  <1>3. RunShape(mem)' /\ Fits(pc, mem)'
    BY <1>1, <1>2 DEF RunShape, ValidProgress, ValidJournal, Fits
  <1> QED
    BY <1>1, <1>2, <1>3 DEF ProcInv, PreInit, ObsInit, Processes

LEMMA ReturnProc == ASSUME NEW r, Return(r) PROVE ProcInv'
  BY LeaveProc DEF Return

(* The three ways a run changes more than its phase.                       *)
LEMMA JournalShape ==
  ASSUME NEW s \in RunState, NEW n \in 1..MaxNonce, NEW total \in Nat,
         PayoutTotal[s.batch] > 0, total >= PayoutTotal[s.batch]
  PROVE  LET u == [s EXCEPT !.phase = "payout_prepared", !.nonce = n,
                            !.before = total, !.attempts = 1]
         IN  u \in RunState /\ RunShape(u)
  <1> DEFINE u == [s EXCEPT !.phase = "payout_prepared", !.nonce = n,
                            !.before = total, !.attempts = 1]
  <1>1. u \in RunState
    <2> DEFINE u1 == [s EXCEPT !.phase = "payout_prepared"]
    <2>1. u1 \in RunState
      BY DEF RunState, Phases
    <2> HIDE DEF u1
    <2> DEFINE u2 == [u1 EXCEPT !.nonce = n]
    <2>2. u2 \in RunState
      BY <2>1 DEF RunState, Phases
    <2> HIDE DEF u2
    <2> DEFINE u3 == [u2 EXCEPT !.before = total]
    <2>3. u3 \in RunState
      BY <2>2 DEF RunState, Phases
    <2> HIDE DEF u3
    <2> DEFINE u4 == [u3 EXCEPT !.attempts = 1]
    <2>4. u4 \in RunState
      BY <2>3 DEF RunState, Phases
    <2> HIDE DEF u4
    <2> QED
      BY <2>4 DEF u1, u2, u3, u4
  <1>2. /\ u.phase = "payout_prepared" /\ u.nonce = n /\ u.before = total
        /\ u.attempts = 1 /\ u.batch = s.batch
    BY DEF RunState
  <1> HIDE DEF u
  <1>3. ValidJournal(u)
    <2>1. PayoutTotal[u.batch] > 0 /\ u.before >= PayoutTotal[u.batch]
      BY <1>2
    <2>2. u.nonce # 0 /\ u.attempts \in 1..2
      BY <1>2
    <2> QED
      BY <2>1, <2>2 DEF ValidJournal
  <1>4. RunShape(u)
    BY <1>2, <1>3 DEF RunShape, ValidProgress
  <1> QED
    BY <1>1, <1>4 DEF u

LEMMA ReplayShape ==
  ASSUME NEW s \in RunState, RunShape(s), s.nonce # 0
  PROVE  LET u == [s EXCEPT !.phase = "payout_replaying", !.attempts = 2,
                            !.reason = "none"]
         IN  u \in RunState /\ RunShape(u)
  <1> DEFINE u == [s EXCEPT !.phase = "payout_replaying", !.attempts = 2,
                            !.reason = "none"]
  <1>1. u \in RunState
    <2> DEFINE u1 == [s EXCEPT !.phase = "payout_replaying"]
    <2>1. u1 \in RunState
      BY DEF RunState, Phases
    <2> HIDE DEF u1
    <2> DEFINE u2 == [u1 EXCEPT !.attempts = 2]
    <2>2. u2 \in RunState
      BY <2>1 DEF RunState, Phases
    <2> HIDE DEF u2
    <2> DEFINE u3 == [u2 EXCEPT !.reason = "none"]
    <2>3. u3 \in RunState
      BY <2>2 DEF RunState, Phases
    <2> HIDE DEF u3
    <2> QED
      BY <2>3 DEF u1, u2, u3
  <1>2. /\ u.phase = "payout_replaying" /\ u.nonce = s.nonce /\ u.before = s.before
        /\ u.attempts = 2 /\ u.batch = s.batch
    BY DEF RunState
  <1> HIDE DEF u
  <1>3. ValidJournal(u)
    <2>1. PayoutTotal[u.batch] > 0 /\ u.before >= PayoutTotal[u.batch]
      BY <1>2 DEF ValidJournal, RunShape, ValidProgress
    <2>2. u.nonce # 0 /\ u.attempts \in 1..2
      BY <1>2
    <2> QED
      BY <2>1, <2>2 DEF ValidJournal
  <1>4. RunShape(u)
    BY <1>2, <1>3 DEF RunShape, ValidProgress
  <1> QED
    BY <1>1, <1>4 DEF u

(* A failed or successful Save leaves old files and the saved run only,    *)
(* whatever a power loss undoes of it.                                     *)
LEMMA SaveFiles ==
  ASSUME NEW S, NEW c \in S, NEW b \in S, NEW s \in S, NEW D \in SUBSET (S \X S),
         Missing \in S, NEW r \in SaveResults(c, b, D, s)
  PROVE  /\ r.cur \in S /\ r.bak \in S /\ r.durable \subseteq S \X S
         /\ r.result \in {"ok", "err"}
  <1>1. \A E \in SUBSET (S \X S) : Installed(E, s) \subseteq S \X S
    BY DEF Installed
  <1>2. Rotated(D, c) \subseteq S \X S
    BY DEF Rotated
  <1>3. \/ r = Outcome(c, b, "err", D)
        \/ r = Outcome(Missing, c, "err", Rotated(D, c))
        \/ r = Outcome(s, c, "err", Installed(Rotated(D, c), s))
        \/ r = Synced(s, c, Installed(Rotated(D, c), s))
        \/ r = Outcome(s, b, "err", Installed(D, s))
        \/ r = Synced(s, b, Installed(D, s))
    BY DEF SaveResults
  <1>4. Installed(D, s) \subseteq S \X S /\ Installed(Rotated(D, c), s) \subseteq S \X S
    BY <1>1, <1>2
  <1> QED
    BY <1>2, <1>3, <1>4 DEF Outcome, Synced

LEMMA ClearFiles ==
  ASSUME NEW S, NEW c \in S, NEW b \in S, NEW D \in SUBSET (S \X S),
         Missing \in S, NEW r \in ClearResults(c, b, D)
  PROVE  /\ r.cur \in S /\ r.bak \in S /\ r.durable \subseteq S \X S
         /\ r.result \in {"ok", "err"}
  <1>1. NoBackup(D) \subseteq S \X S
    BY DEF NoBackup
  <1>2. NoPrimary(NoBackup(D)) \subseteq S \X S
    BY <1>1 DEF NoPrimary
  <1>3. \/ r = Outcome(c, b, "err", D)
        \/ r = Outcome(c, Missing, "err", NoBackup(D))
        \/ r = Outcome(Missing, Missing, "err", NoPrimary(NoBackup(D)))
        \/ r = Synced(Missing, Missing, NoPrimary(NoBackup(D)))
    BY DEF ClearResults
  <1> QED
    BY <1>1, <1>2, <1>3 DEF Outcome, Synced

LEMMA MissingShaped == Missing \in ShapedFile /\ Invalid \in ShapedFile
  BY DEF ShapedFile, File, Valid

LEMMA RunShaped == ASSUME NEW s \in RunState, RunShape(s) PROVE s \in ShapedFile
  BY DEF ShapedFile, File

(* An operation whose outcome holds only well-shaped files keeps the disk  *)
(* well-shaped.                                                            *)
LEMMA StoreDisk ==
  ASSUME NEW r, Store(r), r.cur \in ShapedFile, r.bak \in ShapedFile,
         r.durable \subseteq ShapedFile \X ShapedFile
  PROVE  /\ cur' \in ShapedFile /\ bak' \in ShapedFile
         /\ durable' \subseteq ShapedFile \X ShapedFile
  BY DEF Store

LEMMA DiskKept == ASSUME DiskInv, UNCHANGED disk PROVE DiskInv'
  BY DEF DiskInv, disk, files

LEMMA ProcKept == ASSUME ProcInv, UNCHANGED proc PROVE ProcInv'
  BY DEF ProcInv, proc, RunShape, ValidProgress, ValidJournal, Fits

LEMMA WorldKept ==
  ASSUME WorldInv, UNCHANGED <<history, status, nextNonce, chain>>
  PROVE  WorldInv'
  BY DEF WorldInv, chain, net, funds

(* Steps of the process that change nothing but the process.               *)
LEMMA ShapeLoad ==
  ASSUME ProcInv, DiskInv, WorldInv, LoadNothing \/ LoadError \/ RecoverState
  PROVE  ProcInv'
  <1>1. CASE LoadNothing
    <2>1. NoRun \in RunState /\ RunShape(NoRun) /\ Fits("list", NoRun)
      BY NewRunShape DEF NoRun, Fits
    <2> QED
      BY <1>1, <2>1, ReturnProc, GoProc DEF LoadNothing, Processes
  <1>2. CASE LoadError
    BY <1>2, ReturnProc DEF LoadError
  <1>3. CASE RecoverState
    <2> DEFINE s == Loaded
    <2>1. s \in RunState /\ RunShape(s)
      BY <1>3, ValidIsRun DEF RecoverState, Loaded, LoadsPrimary, LoadsBackup, DiskInv, ShapedFile
    <2>2. CASE s.phase = "completed"
      <3>1. Fits("archive", s) /\ Go("archive", s, 0)
        BY <1>3, <2>2 DEF RecoverState, Fits
      <3> QED
        BY <2>1, <3>1, GoProc DEF Processes
    <2>3. CASE s.phase # "completed" /\ Resume(s, LoadsBackup(cur, bak))
      <3>1. CASE /\ s.phase = "prepared"
                 /\ Go(IF PayoutTotal[s.batch] = 0 THEN "complete" ELSE "preflight", s, 0)
        <4> DEFINE p == IF PayoutTotal[s.batch] = 0 THEN "complete" ELSE "preflight"
        <4>1. p \in Processes /\ Fits(p, s)
          BY <2>1, <3>1 DEF Fits, Processes, RunState
        <4>2. Go(p, s, 0)
          BY <3>1
        <4> HIDE DEF p, s
        <4> QED
          BY <2>1, <4>1, <4>2, GoProc
      <3>2. CASE /\ s.phase = "payout_prepared"
                 /\ Save([s EXCEPT !.phase = "payout_submitting"])
        <4> DEFINE u == [s EXCEPT !.phase = "payout_submitting"]
        <4>1. u \in RunState /\ RunShape(u) /\ Fits("save", u)
          BY <2>1, <3>2 DEF RunState, Phases, RunShape, ValidProgress, ValidJournal, Fits
        <4>2. Go("save", u, 1)
          BY <3>2 DEF Save
        <4> HIDE DEF u
        <4> QED
          BY <4>1, <4>2, GoProc DEF Processes
      <3>3. CASE /\ s.phase \in {"payout_prepared", "payout_submitting", "payout_replaying"}
                 /\ Go("observe", s, 0)
        <4>1. Fits("observe", s)
          BY <3>3 DEF Fits
        <4> QED
          BY <2>1, <3>3, <4>1, GoProc DEF Processes
      <3>4. CASE s.phase = "payout_confirmed" /\ Go("complete", s, 0)
        <4>1. Fits("complete", s)
          BY <3>4 DEF Fits
        <4> QED
          BY <2>1, <3>4, <4>1, GoProc DEF Processes
      <3>5. CASE Return("fatal")
        BY <3>5, ReturnProc
      <3> QED
        BY <2>3, <3>1, <3>2, <3>3, <3>4, <3>5 DEF Resume, RecoverUncertain, RecoverConfirmed
    <2>4. CASE Return("fatal")
      BY <2>4, ReturnProc
    <2> QED
      BY <1>3, <2>2, <2>3, <2>4 DEF RecoverState
  <1> QED
    BY <1>1, <1>2, <1>3

LEMMA ShapeSave ==
  ASSUME ProcInv, DiskInv, SaveState
  PROVE  ProcInv' /\ DiskInv'
  <1> PICK r \in SaveResults(cur, bak, durable, mem) :
        /\ Store(r)
        /\ IF r.result = "err"
           THEN Return(IF mem.phase \in {"payout_replaying", "blocked"}
                       THEN "fatal" ELSE "err")
           ELSE IF left > 1 THEN Go("save", mem, left - 1) ELSE AfterSave
    BY DEF SaveState
  <1> mem \in RunState /\ RunShape(mem) /\ left \in 0..2
    BY DEF ProcInv
  <1>1. DiskInv'
    <2>1. mem \in ShapedFile /\ Missing \in ShapedFile
      BY MissingShaped, RunShaped
    <2>2. /\ r.cur \in ShapedFile /\ r.bak \in ShapedFile
          /\ r.durable \subseteq ShapedFile \X ShapedFile
      BY <2>1, SaveFiles DEF DiskInv
    <2>3. damage' = damage
      BY DEF SaveState
    <2> QED
      BY <2>2, <2>3, StoreDisk DEF DiskInv
  <1>2. ProcInv'
    <2>1. CASE \E k : Return(k)
      BY <2>1, ReturnProc
    <2>2. CASE left > 1 /\ Go("save", mem, left - 1)
      <3>1. Fits("save", mem) /\ left - 1 \in 0..2
        BY <2>2 DEF Fits
      <3> QED
        BY <2>2, <3>1, GoProc DEF Processes
    <2>3. CASE AfterSave
      <3>1. CASE /\ mem.phase = "prepared"
                 /\ Go(IF PayoutTotal[mem.batch] = 0 THEN "complete" ELSE "preflight", mem, 0)
        <4> DEFINE p == IF PayoutTotal[mem.batch] = 0 THEN "complete" ELSE "preflight"
        <4>1. p \in Processes /\ Fits(p, mem)
          BY <3>1 DEF Fits, Processes, RunState
        <4>2. Go(p, mem, 0)
          BY <3>1
        <4> HIDE DEF p
        <4> QED
          BY <4>1, <4>2, GoProc
      <3>2. CASE /\ mem.phase = "payout_prepared"
                 /\ Save([mem EXCEPT !.phase = "payout_submitting"])
        <4> DEFINE u == [mem EXCEPT !.phase = "payout_submitting"]
        <4>1. u \in RunState /\ RunShape(u) /\ Fits("save", u)
          BY <3>2 DEF RunState, Phases, RunShape, ValidProgress, ValidJournal, Fits
        <4>2. Go("save", u, 1)
          BY <3>2 DEF Save
        <4> HIDE DEF u
        <4> QED
          BY <4>1, <4>2, GoProc DEF Processes
      <3>3. CASE /\ mem.phase \in {"payout_submitting", "payout_replaying"}
                 /\ Go("submit", mem, 0)
        BY <3>3, GoProc DEF Processes, Fits
      <3>4. CASE mem.phase = "payout_confirmed" /\ Go("complete", mem, 0)
        BY <3>4, GoProc DEF Processes, Fits
      <3>5. CASE mem.phase \in {"completed", "blocked"} /\ Go("archive", mem, 0)
        BY <3>5, GoProc DEF Processes, Fits
      <3> QED
        BY <2>3, <3>1, <3>2, <3>3, <3>4, <3>5 DEF AfterSave
    <2> QED
      BY <2>1, <2>2, <2>3
  <1> QED
    BY <1>1, <1>2

LEMMA ShapeList ==
  ASSUME ProcInv, WorldInv, ListError \/ ListNoData \/ ListInvalid \/ ListPending
  PROVE  ProcInv' /\ WorldInv'
  <1>1. Pending \in SUBSET Records
    BY DEF Pending
  <1>2. CASE ListError \/ ListNoData
    BY <1>2, ReturnProc, WorldKept DEF ListError, ListNoData
  <1>3. CASE ListInvalid
    <2>1. Archived(NewRun(Pending), "failed_validation")
            \in [nonce : 0..MaxNonce, batch : SUBSET Records,
                 result : {"completed", "rejected", "blocked", "failed_validation"}]
      BY <1>1 DEF Archived, NewRun
    <2>2. WorldInv'
      BY <1>3, <2>1 DEF ListInvalid, WorldInv, chain, net, funds
    <2> QED
      BY <1>3, <2>2, ReturnProc DEF ListInvalid
  <1>4. CASE ListPending
    <2>1. NewRun(Pending) \in RunState /\ RunShape(NewRun(Pending))
      BY <1>1, NewRunShape
    <2>2. Fits("save", NewRun(Pending))
      BY DEF Fits
    <2> QED
      BY <1>4, <2>1, <2>2, GoProc, WorldKept DEF ListPending, Save, Processes
  <1> QED
    BY <1>2, <1>3, <1>4

LEMMA ShapePreflightError ==
  ASSUME ProcInv, PreflightError
  PROVE  ProcInv'
  <1>1. CASE Return("err")
    BY <1>1, ReturnProc
  <1>2. CASE /\ pre' = [PreInit EXCEPT !.tries = pre.tries + 1]
             /\ UNCHANGED <<pc, trigger, mem, left, obs, reply>>
    <2>1. pre' \in [tries : Nat, stable : Nat, total : Nat, avail : Nat]
      BY <1>2 DEF PreInit, ProcInv
    <2> QED
      BY <1>2, <2>1 DEF ProcInv, Fits, RunShape, ValidProgress, ValidJournal
  <1> QED
    BY <1>1, <1>2 DEF PreflightError

(* The first journal of a run, from a balance that covers the payout.      *)
LEMMA ShapeExecute ==
  ASSUME ProcInv, nextNonce \in 1..MaxNonce + 1, pc = "preflight",
         NEW total \in Nat, total >= PayoutTotal[mem.batch], ExecutePayout(total)
  PROVE  ProcInv' /\ nextNonce' \in 1..MaxNonce + 1
  <1>1. CASE Return("err") /\ UNCHANGED nextNonce
    BY <1>1, ReturnProc
  <1>2. CASE /\ nextNonce <= MaxNonce
             /\ nextNonce' = nextNonce + 1
             /\ Save([mem EXCEPT !.phase = "payout_prepared", !.nonce = nextNonce,
                                 !.before = total, !.attempts = 1])
    <2> DEFINE u == [mem EXCEPT !.phase = "payout_prepared", !.nonce = nextNonce,
                                !.before = total, !.attempts = 1]
    <2>1. nextNonce \in 1..MaxNonce /\ nextNonce' \in 1..MaxNonce + 1
      BY <1>2
    <2>2. mem \in RunState /\ PayoutTotal[mem.batch] > 0
      BY DEF ProcInv, Fits
    <2>3. u \in RunState /\ RunShape(u)
      BY <2>1, <2>2, JournalShape
    <2>4. Go("save", u, 1)
      BY <1>2 DEF Save
    <2> HIDE DEF u
    <2> QED
      BY <2>1, <2>3, <2>4, GoProc DEF Processes, Fits
  <1> QED
    BY <1>1, <1>2 DEF ExecutePayout

LEMMA ShapePreflightRead ==
  ASSUME ProcInv, WorldInv, PreflightRead
  PROVE  ProcInv' /\ WorldInv'
  <1>1. \E i \in BaselineReads, hold \in Holds, stable \in Nat :
          /\ hold <= ledger[i]
          /\ seen' = i
          /\ \/ ledger[i] - hold >= PayoutTotal[mem.batch] /\ ExecutePayout(ledger[i])
             \/ /\ pre' = [tries |-> pre.tries + 1, stable |-> stable,
                           total |-> ledger[i], avail |-> ledger[i] - hold]
                /\ UNCHANGED <<pc, trigger, mem, left, obs, reply, nextNonce>>
             \/ Return("err") /\ UNCHANGED nextNonce
    BY DEF PreflightRead, ProcInv
  <1> PICK i \in BaselineReads, hold \in Holds, stable \in Nat :
        /\ hold <= ledger[i]
        /\ seen' = i
        /\ \/ ledger[i] - hold >= PayoutTotal[mem.batch] /\ ExecutePayout(ledger[i])
           \/ /\ pre' = [tries |-> pre.tries + 1, stable |-> stable,
                         total |-> ledger[i], avail |-> ledger[i] - hold]
              /\ UNCHANGED <<pc, trigger, mem, left, obs, reply, nextNonce>>
           \/ Return("err") /\ UNCHANGED nextNonce
    BY <1>1
  <1>2. i \in 1..Len(ledger) /\ ledger[i] \in Nat /\ hold \in Nat
        /\ ledger[i] - hold \in Nat /\ ledger[i] >= ledger[i] - hold
    BY DEF BaselineReads, WorldInv
  <1>3. mem \in RunState /\ PayoutTotal[mem.batch] \in Nat /\ pc = "preflight"
        /\ nextNonce \in 1..MaxNonce + 1
    BY DEF PreflightRead, ProcInv, WorldInv, RunState
  <1>4. nextNonce' \in 1..MaxNonce + 1 => WorldInv'
    BY <1>2 DEF PreflightRead, WorldInv, net, funds
  <1>5. CASE ledger[i] - hold >= PayoutTotal[mem.batch] /\ ExecutePayout(ledger[i])
    <2>1. ledger[i] >= PayoutTotal[mem.batch]
      BY <1>2, <1>3, <1>5
    <2> QED
      BY <1>2, <1>3, <1>4, <1>5, <2>1, ShapeExecute
  <1>6. CASE /\ pre' = [tries |-> pre.tries + 1, stable |-> stable,
                        total |-> ledger[i], avail |-> ledger[i] - hold]
             /\ UNCHANGED <<pc, trigger, mem, left, obs, reply, nextNonce>>
    <2>1. pre' \in [tries : Nat, stable : Nat, total : Nat, avail : Nat]
      BY <1>2, <1>6 DEF ProcInv
    <2>2. ProcInv'
      BY <1>6, <2>1 DEF ProcInv, Fits, RunShape, ValidProgress, ValidJournal
    <2> QED
      BY <1>3, <1>4, <1>6, <2>2
  <1>7. CASE Return("err") /\ UNCHANGED nextNonce
    BY <1>3, <1>4, <1>7, ReturnProc
  <1> QED
    BY <1>5, <1>6, <1>7

(* Confirming, blocking and replaying an observed or answered payout.      *)
LEMMA ShapeVerdict ==
  ASSUME ProcInv, pc \in {"await", "observe"},
         NEW o \in [tries : Nat, good : Nat, atBefore : BOOLEAN,
                    evidence : {"none", "decreased", "decreased_with_fee"},
                    stable : Nat],
         Confirm \/ Block("rejected") \/ Block("uncertain") \/ Replay \/ Observed(o)
  PROVE  ProcInv'
  <1>1. mem \in RunState /\ RunShape(mem)
        /\ mem.phase \in {"payout_prepared", "payout_submitting", "payout_replaying"}
    BY DEF ProcInv, Fits
  <1>2. CASE Confirm
    <2> DEFINE u == [mem EXCEPT !.phase = "payout_confirmed", !.reason = "none"]
    <2>1. u \in RunState /\ RunShape(u) /\ Fits("save", u)
      BY <1>1 DEF RunState, Phases, RunShape, ValidProgress, ValidJournal, Fits
    <2>2. Go("save", u, 1)
      BY <1>2 DEF Confirm, Save
    <2> HIDE DEF u
    <2> QED
      BY <2>1, <2>2, GoProc DEF Processes
  <1>3. ASSUME NEW why \in {"rejected", "uncertain"}, Block(why)
        PROVE  ProcInv'
    <2> DEFINE u == [mem EXCEPT !.phase = "blocked", !.reason = why]
    <2>1. u \in RunState /\ RunShape(u) /\ Fits("save", u)
      BY <1>1 DEF RunState, Phases, RunShape, ValidProgress, ValidJournal, Fits
    <2>2. Go("save", u, 2)
      BY <1>3 DEF Block, SaveTwice
    <2> HIDE DEF u
    <2> QED
      BY <2>1, <2>2, GoProc DEF Processes
  <1>4. CASE Replay
    <2> DEFINE u == [mem EXCEPT !.phase = "payout_replaying", !.attempts = 2,
                                !.reason = "none"]
    <2>1. mem.nonce # 0
      BY <1>1 DEF RunShape
    <2>2. u \in RunState /\ RunShape(u)
      BY <1>1, <2>1, ReplayShape
    <2>3. Go("save", u, 2)
      BY <1>4 DEF Replay, SaveTwice
    <2> HIDE DEF u
    <2> QED
      BY <2>2, <2>3, GoProc DEF Processes, Fits
  <1>5. CASE obs' = o /\ UNCHANGED <<pc, trigger, mem, left, pre, reply>>
    BY <1>5 DEF ProcInv, Fits, RunShape, ValidProgress, ValidJournal
  <1> QED
    BY <1>2, <1>3, <1>4, <1>5 DEF Observed

LEMMA ShapeSubmit ==
  ASSUME ProcInv, WorldInv, Submit
  PROVE  ProcInv' /\ WorldInv'
  <1>1. mem \in RunState /\ RunShape(mem) /\ mem.nonce # 0
        /\ mem.phase \in {"payout_submitting", "payout_replaying"}
    BY DEF Submit, ProcInv, Fits, RunShape
  <1>2. mem.nonce \in 1..MaxNonce /\ mem.batch \in SUBSET Records
    BY <1>1 DEF RunState
  <1>3. submits[mem.nonce] + 1 \in Nat
    BY <1>2 DEF WorldInv
  <1>4. submits' \in [1..MaxNonce -> Nat] /\ inflight' \subseteq Copy
    BY <1>2, <1>3 DEF Submit, WorldInv, Copy
  <1>5. ProcInv'
    BY <1>1, GoProc DEF Submit, Processes, Fits
  <1> QED
    BY <1>4, <1>5 DEF Submit, WorldInv, funds

LEMMA ShapeAwait ==
  ASSUME ProcInv, SubmitAccepted \/ SubmitRejected \/ SubmitUncertain
  PROVE  ProcInv'
  <1>1. ObsInit \in [tries : Nat, good : Nat, atBefore : BOOLEAN,
                     evidence : {"none", "decreased", "decreased_with_fee"},
                     stable : Nat]
    BY DEF ObsInit
  <1>2. CASE SubmitAccepted \/ SubmitRejected
    BY <1>1, <1>2, ShapeVerdict DEF SubmitAccepted, SubmitRejected
  <1>3. CASE SubmitUncertain
    <2>1. mem \in RunState /\ RunShape(mem) /\ Fits("observe", mem)
      BY <1>3 DEF SubmitUncertain, ProcInv, Fits
    <2> QED
      BY <1>3, <2>1, GoProc DEF SubmitUncertain, Processes
  <1> QED
    BY <1>2, <1>3

LEMMA ShapeObserve ==
  ASSUME ProcInv, WorldInv, ObserveError \/ ObserveRead
  PROVE  ProcInv' /\ WorldInv'
  <1> DEFINE Obs == [tries : Nat, good : Nat, atBefore : BOOLEAN,
                     evidence : {"none", "decreased", "decreased_with_fee"},
                     stable : Nat]
  <1>1. obs \in Obs
    BY DEF ProcInv
  <1>2. CASE ObserveError
    <2> DEFINE o == [obs EXCEPT !.tries = @ + 1, !.evidence = "none", !.stable = 0]
    <2>1. o \in Obs
      <3> DEFINE o1 == [obs EXCEPT !.tries = @ + 1]
      <3>1. o1 \in Obs
        BY <1>1
      <3> HIDE DEF o1
      <3> DEFINE o2 == [o1 EXCEPT !.evidence = "none"]
      <3>2. o2 \in Obs
        BY <3>1
      <3> HIDE DEF o2
      <3>3. [o2 EXCEPT !.stable = 0] \in Obs
        BY <3>2
      <3> QED
        BY <3>3 DEF o1, o2
    <2>2. Observed(o) /\ pc = "observe"
      BY <1>2 DEF ObserveError
    <2> HIDE DEF o
    <2> QED
      BY <1>2, <2>1, <2>2, ShapeVerdict, WorldKept DEF ObserveError
  <1>3. CASE ObserveRead
    <2> PICK i \in ObservationReads :
          LET e == Evidence(ledger[i], mem)
          IN  /\ seen' = i
              /\ Observed([tries    |-> obs.tries + 1,
                           good     |-> obs.good + 1,
                           atBefore |-> obs.atBefore /\ ledger[i] = mem.before,
                           evidence |-> e,
                           stable   |-> IF e = "none" THEN 0
                                        ELSE IF e = obs.evidence THEN obs.stable + 1
                                        ELSE 1])
      BY <1>3 DEF ObserveRead
    <2> DEFINE e == Evidence(ledger[i], mem)
               o == [tries    |-> obs.tries + 1,
                     good     |-> obs.good + 1,
                     atBefore |-> obs.atBefore /\ ledger[i] = mem.before,
                     evidence |-> e,
                     stable   |-> IF e = "none" THEN 0
                                  ELSE IF e = obs.evidence THEN obs.stable + 1
                                  ELSE 1]
    <2>1. e \in {"none", "decreased", "decreased_with_fee"}
      BY DEF Evidence
    <2>2. Observed(o) /\ pc = "observe" /\ seen' = i
      BY <1>3 DEF ObserveRead
    <2> HIDE DEF e
    <2>3. o \in Obs
      BY <1>1, <2>1
    <2> HIDE DEF o
    <2>4. i \in 1..Len(ledger)
      BY DEF ObservationReads, WorldInv
    <2>5. WorldInv'
      BY <1>3, <2>2, <2>4 DEF ObserveRead, WorldInv, net, funds
    <2> QED
      BY <2>2, <2>3, <2>5, ShapeVerdict
  <1> QED
    BY <1>2, <1>3

LEMMA MarkDoneType ==
  ASSUME WorldInv, NEW B
  PROVE  MarkDone(B) \in [Records -> {"absent", "pending", "done"}]
  BY DEF MarkDone, WorldInv

LEMMA ShapeComplete ==
  ASSUME ProcInv, WorldInv, CompleteDatabase \/ CompleteError
  PROVE  ProcInv' /\ WorldInv'
  <1>1. status' \in [Records -> {"absent", "pending", "done"}]
    BY MarkDoneType DEF CompleteDatabase, CompleteError, WorldInv
  <1>2. WorldInv'
    BY <1>1 DEF CompleteDatabase, CompleteError, WorldInv, chain, net, funds
  <1>3. CASE CompleteError
    BY <1>2, <1>3, ReturnProc DEF CompleteError
  <1>4. CASE CompleteDatabase
    <2> DEFINE u == [mem EXCEPT !.phase = "completed"]
    <2>1. mem \in RunState /\ RunShape(mem)
      BY DEF ProcInv
    <2>2. u \in RunState /\ RunShape(u) /\ Fits("save", u)
      BY <2>1 DEF RunState, Phases, RunShape, ValidProgress, ValidJournal, Fits
    <2>3. Go("save", u, 1)
      BY <1>4 DEF CompleteDatabase, Save
    <2> HIDE DEF u
    <2> QED
      BY <1>2, <2>2, <2>3, GoProc DEF Processes
  <1> QED
    BY <1>3, <1>4

LEMMA ShapeFinish ==
  ASSUME ProcInv, WorldInv, DiskInv, Archive \/ ArchiveError \/ ClearState
  PROVE  ProcInv' /\ WorldInv' /\ DiskInv'
  <1>1. mem \in RunState /\ RunShape(mem) /\ mem.phase \in {"completed", "blocked"}
    BY DEF Archive, ArchiveError, ClearState, ProcInv, Fits
  <1>2. Archived(mem, RunResult(mem))
          \in [nonce : 0..MaxNonce, batch : SUBSET Records,
               result : {"completed", "rejected", "blocked", "failed_validation"}]
    BY <1>1 DEF Archived, RunResult, RunState
  <1>3. CASE Archive
    <2>1. WorldInv' /\ DiskInv'
      BY <1>2, <1>3, DiskKept DEF Archive, WorldInv, chain, net, funds
    <2>2. CASE Return("fatal")
      BY <2>1, <2>2, ReturnProc
    <2>3. CASE RunResult(mem) # "blocked" /\ Go("clear", mem, 0)
      <3>1. Fits("clear", mem)
        BY <1>1, <2>3 DEF Fits, RunResult
      <3> QED
        BY <1>1, <2>1, <2>3, <3>1, GoProc DEF Processes
    <2> QED
      BY <1>3, <2>2, <2>3 DEF Archive
  <1>4. CASE ArchiveError
    <2>1. WorldInv' /\ DiskInv'
      BY <1>2, <1>4, DiskKept DEF ArchiveError, WorldInv, chain, net, funds
    <2> QED
      BY <1>4, <2>1, ReturnProc DEF ArchiveError
  <1>5. CASE ClearState
    <2>1. PICK r \in ClearResults(cur, bak, durable) :
            /\ Store(r)
            /\ damage' = IF r.result = "ok" THEN 0 ELSE damage
      BY <1>5 DEF ClearState
    <2>2. DiskInv'
      <3>1. /\ r.cur \in ShapedFile /\ r.bak \in ShapedFile
            /\ r.durable \subseteq ShapedFile \X ShapedFile
        BY MissingShaped, ClearFiles DEF DiskInv
      <3>2. damage' \in Nat
        BY <2>1 DEF DiskInv
      <3> QED
        BY <2>1, <3>1, <3>2, StoreDisk DEF DiskInv
    <2>3. ProcInv'
      BY <1>5, ReturnProc DEF ClearState
    <2> QED
      BY <1>5, <2>2, <2>3, WorldKept DEF ClearState
  <1> QED
    BY <1>3, <1>4, <1>5

(* Steps of the world.                                                     *)
LEMMA ShapeWorld ==
  ASSUME ProcInv, WorldInv, DiskInv, World
  PROVE  ProcInv' /\ WorldInv' /\ DiskInv'
  <1>0. Total \in Nat
    BY DEF Total, WorldInv
  <1>1. CASE Crash
    BY <1>1, LeaveProc, WorldKept, DiskKept DEF Crash
  <1>2. CASE Corrupt
    <2>1. cur' \in ShapedFile /\ bak' \in ShapedFile /\ damage' \in Nat
      BY <1>2, MissingShaped DEF Corrupt, DiskInv
    <2>2. durable' = {<<cur', bak'>>}
      BY <1>2 DEF Corrupt
    <2>3. DiskInv'
      BY <2>1, <2>2 DEF DiskInv
    <2> QED
      BY <1>2, <2>3, ProcKept, WorldKept DEF Corrupt
  <1>9. CASE PowerLoss
    <2>1. PICK p \in durable : cur' = p[1] /\ bak' = p[2] /\ durable' = {p}
      BY <1>9 DEF PowerLoss
    <2>2. p \in ShapedFile \X ShapedFile
      BY DEF DiskInv
    <2>3. damage' = damage
      BY <1>9 DEF PowerLoss
    <2>4. DiskInv'
      BY <2>1, <2>2, <2>3 DEF DiskInv
    <2> QED
      BY <1>9, <2>4, LeaveProc, WorldKept DEF PowerLoss
  <1>3. CASE InsertRecord
    <2>1. status' \in [Records -> {"absent", "pending", "done"}]
      BY <1>3 DEF InsertRecord, WorldInv
    <2>2. WorldInv'
      BY <1>3, <2>1 DEF InsertRecord, WorldInv, chain, net, funds
    <2> QED
      BY <1>3, <2>2, ProcKept, DiskKept DEF InsertRecord
  <1>4. CASE Deposit
    <2>1. PICK d \in Nat : ledger' = Append(ledger, Total + d)
      BY <1>4 DEF Deposit
    <2>2. ledger' \in Seq(Nat) /\ Len(ledger') = Len(ledger) + 1
      BY <1>0, <2>1 DEF WorldInv
    <2>3. WorldInv'
      BY <1>4, <2>2 DEF Deposit, WorldInv, net
    <2> QED
      BY <1>4, <2>3, ProcKept, DiskKept DEF Deposit
  <1>5. ASSUME NEW c, NEW x \in {"accepted", "rejected"}, Answer(c, x),
               UNCHANGED <<pc, trigger, mem, left, pre, obs>>
        PROVE  ProcInv'
    <2>1. reply' \in {"none", "accepted", "rejected"}
      BY <1>5 DEF Answer, ProcInv
    <2> QED
      BY <1>5, <2>1 DEF ProcInv, Fits, RunShape, ValidProgress, ValidJournal
  <1>6. CASE ExchangeApplies
    <2> PICK c \in inflight, fee \in {0, ActivationFee} :
          /\ PayoutTotal[c.batch] + fee <= Total
          /\ inflight' = inflight \ {c}
          /\ applied' = applied \cup {RequestOf(c)}
          /\ ledger' = Append(ledger, Total - PayoutTotal[c.batch] - fee)
          /\ Answer(c, "accepted")
      BY <1>6 DEF ExchangeApplies
    <2>1. c \in Copy /\ RequestOf(c) \in Request
      BY DEF WorldInv, Copy, Request, RequestOf
    <2>2. PayoutTotal[c.batch] \in Nat /\ fee \in Nat
      BY <2>1 DEF Copy
    <2>3. Total - PayoutTotal[c.batch] - fee \in Nat
      BY <1>0, <2>2
    <2>4. ledger' \in Seq(Nat) /\ Len(ledger') = Len(ledger) + 1
      BY <2>3 DEF WorldInv
    <2>5. WorldInv'
      BY <1>6, <2>1, <2>4 DEF ExchangeApplies, WorldInv
    <2> QED
      BY <1>5, <1>6, <2>5, DiskKept DEF ExchangeApplies
  <1>7. CASE ExchangeRefuses
    <2>1. WorldInv'
      BY <1>7 DEF ExchangeRefuses, WorldInv, funds
    <2> QED
      BY <1>5, <1>7, <2>1, DiskKept DEF ExchangeRefuses
  <1>8. CASE LoseRequest
    <2>1. WorldInv'
      BY <1>8 DEF LoseRequest, WorldInv, funds
    <2> QED
      BY <1>8, <2>1, ProcKept, DiskKept DEF LoseRequest
  <1> QED
    BY <1>1, <1>2, <1>3, <1>4, <1>6, <1>7, <1>8, <1>9 DEF World

LEMMA ShapeStep == TypeOK /\ ShapeInv /\ [Next]_vars => (TypeOK /\ ShapeInv)'
  <1> SUFFICES ASSUME ProcInv, DiskInv, WorldInv, [Next]_vars
               PROVE  ProcInv' /\ DiskInv' /\ WorldInv'
    BY ShapeParts, PTL
  <1>1. CASE UNCHANGED vars
    BY <1>1, ProcKept, DiskKept, WorldKept DEF vars
  <1>2. CASE Boot \/ Tick
    <2>1. ProcInv'
      BY <1>2 DEF Boot, Tick, ProcInv, Processes, Fits, RunShape, ValidProgress, ValidJournal
    <2> QED
      BY <1>2, <2>1, DiskKept, WorldKept DEF Boot, Tick
  <1>3. CASE LoadNothing \/ LoadError \/ RecoverState
    BY <1>3, ShapeLoad, DiskKept, WorldKept DEF LoadNothing, LoadError, RecoverState
  <1>4. CASE ListError \/ ListNoData \/ ListInvalid \/ ListPending
    BY <1>4, ShapeList, DiskKept DEF ListError, ListNoData, ListInvalid, ListPending
  <1>5. CASE SaveState
    BY <1>5, ShapeSave, WorldKept DEF SaveState
  <1>6. CASE PreflightError
    BY <1>6, ShapePreflightError, DiskKept, WorldKept DEF PreflightError
  <1>7. CASE PreflightRead
    BY <1>7, ShapePreflightRead, DiskKept DEF PreflightRead
  <1>8. CASE Submit
    BY <1>8, ShapeSubmit, DiskKept DEF Submit
  <1>9. CASE SubmitAccepted \/ SubmitRejected \/ SubmitUncertain
    BY <1>9, ShapeAwait, DiskKept, WorldKept
    DEF SubmitAccepted, SubmitRejected, SubmitUncertain
  <1>10. CASE ObserveError \/ ObserveRead
    BY <1>10, ShapeObserve, DiskKept DEF ObserveError, ObserveRead
  <1>11. CASE CompleteDatabase \/ CompleteError
    BY <1>11, ShapeComplete, DiskKept DEF CompleteDatabase, CompleteError
  <1>12. CASE Archive \/ ArchiveError \/ ClearState
    BY <1>12, ShapeFinish
  <1>13. CASE World
    BY <1>13, ShapeWorld
  <1> QED
    BY <1>1, <1>2, <1>3, <1>4, <1>5, <1>6, <1>7, <1>8, <1>9, <1>10, <1>11, <1>12, <1>13
    DEF Next, Process

LEMMA ShapeCorrect == Spec => [](TypeOK /\ ShapeInv)
  BY InitShape, ShapeStep, PTL DEF Spec

(* Every reachable state is well typed, whatever the bounds, however many  *)
(* snapshots are damaged and whatever power losses undo.                   *)
THEOREM TypeCorrect == Spec => []TypeOK
  BY ShapeCorrect, PTL

(* Recovery never meets a snapshot that its own validations refuse,        *)
(* whatever fails, however many snapshots are damaged and whatever power   *)
(* losses undo.                                                            *)
THEOREM AlwaysRecoverable == Spec => []SnapshotsRecoverable
  <1>1. TypeOK /\ ShapeInv => SnapshotsRecoverable
    BY DEF ShapeInv, SnapshotsRecoverable, Runs, RunShape, ValidProgress
  <1> QED
    BY <1>1, ShapeCorrect, PTL

-----------------------------------------------------------------------------
(* The stages of a task, counted down: every one is entered from a higher  *)
(* one, whatever a load finds and whatever fails.  Only the balance loops  *)
(* and a repeated save stay in a stage, with the tries left to them.       *)
StageOf(p, phase) ==
  CASE p = "load"      -> 20
    [] p = "list"      -> 19
    [] p = "save"      -> CASE phase = "prepared"          -> 18
                            [] phase = "payout_prepared"   -> 16
                            [] phase = "payout_submitting" -> 15
                            [] phase = "payout_replaying"  -> 11
                            [] phase = "payout_confirmed"  -> 7
                            [] phase = "completed"         -> 5
                            [] OTHER                       -> 4
    [] p = "preflight" -> 17
    [] p = "submit"    -> IF phase = "payout_replaying" THEN 10 ELSE 14
    [] p = "await"     -> IF phase = "payout_replaying" THEN 9 ELSE 13
    [] p = "observe"   -> IF phase = "payout_replaying" THEN 8 ELSE 12
    [] p = "complete"  -> 6
    [] p = "archive"   -> 3
    [] p = "clear"     -> 2
    [] OTHER           -> 0

Stage == StageOf(pc, mem.phase)

Remaining(limit, tries) == IF tries < limit THEN limit - tries ELSE 0

TriesLeft ==
  CASE pc = "save"      -> left
    [] pc = "preflight" -> Remaining(PreflightAttempts, pre.tries)
    [] pc = "observe"   -> Remaining(QueryAttempts, obs.tries)
    [] OTHER            -> 0

Advances == Stage' < Stage \/ (Stage' = Stage /\ TriesLeft' < TriesLeft)

LEMMA RankType == ASSUME ProcInv PROVE Stage \in 0..20 /\ TriesLeft \in Nat
  <1>1. pre.tries \in Nat /\ obs.tries \in Nat /\ left \in Nat
        /\ PreflightAttempts \in Nat /\ QueryAttempts \in Nat
    BY DEF ProcInv
  <1>2. TriesLeft \in Nat
    BY <1>1 DEF TriesLeft, Remaining
  <1>3. Stage \in 0..20
    BY DEF Stage, StageOf
  <1> QED
    BY <1>2, <1>3

LEMMA GoStage ==
  ASSUME NEW p, NEW s, NEW k, Go(p, s, k)
  PROVE  Stage' = StageOf(p, s.phase) /\ pc' = p /\ left' = k
  BY DEF Go, Stage

LEMMA ReturnStage == ASSUME NEW r, Return(r) PROVE Stage' = 0
  BY DEF Return, Leave, Stage, StageOf

(* What a save leads to is saved with the phase it says.                   *)
LEMMA SaveStage ==
  ASSUME NEW s \in RunState, NEW phase, NEW n, NEW b, NEW a, NEW z, NEW k,
         \/ Go("save", [s EXCEPT !.phase = phase], k)
         \/ Go("save", [s EXCEPT !.phase = phase, !.reason = z], k)
         \/ Go("save", [s EXCEPT !.phase = phase, !.attempts = a, !.reason = z], k)
         \/ Go("save", [s EXCEPT !.phase = phase, !.nonce = n, !.before = b, !.attempts = a], k)
  PROVE  Stage' = StageOf("save", phase)
  <1>1. mem'.phase = phase /\ pc' = "save"
    BY DEF Go, RunState
  <1> QED
    BY <1>1 DEF Stage

LEMMA LoadAdvances ==
  ASSUME ProcInv, DiskInv, LoadNothing \/ LoadError \/ RecoverState PROVE Advances
  <1>1. Stage = 20
    BY DEF LoadNothing, LoadError, RecoverState, Stage, StageOf
  <1>2. CASE LoadNothing \/ LoadError
    <2>1. Stage' = 0 \/ Stage' = 19
      BY <1>2, ReturnStage, GoStage DEF LoadNothing, LoadError, StageOf
    <2> QED
      BY <1>1, <2>1 DEF Advances
  <1>3. CASE RecoverState
    <2>1. PICK p, s, k : p \in Processes \ {"load"} /\ (Go(p, s, k) \/ Stage' = 0)
      BY <1>3, ReturnStage
      DEF RecoverState, Resume, RecoverUncertain, RecoverConfirmed, Save, Processes
    <2>2. Stage' \in 0..19
      BY <2>1, GoStage DEF StageOf, Processes
    <2> QED
      BY <1>1, <2>2 DEF Advances
  <1> QED
    BY <1>2, <1>3

LEMMA ListAdvances ==
  ASSUME ListError \/ ListNoData \/ ListInvalid \/ ListPending PROVE Advances
  <1>1. Stage = 19
    BY DEF ListError, ListNoData, ListInvalid, ListPending, Stage, StageOf
  <1>2. CASE ListPending
    <2>1. Go("save", NewRun(Pending), 1)
      BY <1>2 DEF ListPending, Save
    <2>2. NewRun(Pending).phase = "prepared"
      BY DEF NewRun
    <2>3. Stage' = StageOf("save", "prepared")
      BY <2>1, <2>2, GoStage
    <2> QED
      BY <1>1, <2>3 DEF Advances, StageOf
  <1>3. CASE ListError \/ ListNoData \/ ListInvalid
    <2>1. Stage' = 0
      BY <1>3, ReturnStage DEF ListError, ListNoData, ListInvalid
    <2> QED
      BY <1>1, <2>1 DEF Advances
  <1> QED
    BY <1>2, <1>3

LEMMA SaveAdvances == ASSUME ProcInv, SaveState PROVE Advances
  <1>1. pc = "save" /\ mem \in RunState /\ left \in 0..2 /\ mem.phase \in Phases
    BY DEF SaveState, ProcInv, RunState
  <1>2. \/ \E r : Return(r)
        \/ left > 1 /\ Go("save", mem, left - 1)
        \/ AfterSave
    BY DEF SaveState
  <1>3. Stage = StageOf("save", mem.phase)
    BY <1>1 DEF Stage
  <1>4. CASE \E r : Return(r)
    <2>1. Stage' = 0 /\ Stage > 0
      BY <1>3, <1>4, ReturnStage DEF StageOf
    <2> QED
      BY <1>3, <2>1 DEF Advances, StageOf
  <1>5. CASE left > 1 /\ Go("save", mem, left - 1)
    <2>1. Stage' = Stage /\ pc' = "save" /\ left' = left - 1
      BY <1>3, <1>5, GoStage
    <2> QED
      BY <1>1, <2>1 DEF Advances, TriesLeft
  <1>6. CASE AfterSave
    <2>1. CASE mem.phase = "prepared"
      <3>1. Stage' \in {StageOf("complete", mem.phase), StageOf("preflight", mem.phase)}
        BY <1>6, <2>1, GoStage DEF AfterSave
      <3> QED
        BY <1>3, <2>1, <3>1 DEF Advances, StageOf
    <2>2. CASE mem.phase = "payout_prepared"
      <3>1. Stage' = StageOf("save", "payout_submitting")
        BY <1>1, <1>6, <2>2, SaveStage DEF AfterSave, Save
      <3> QED
        BY <1>3, <2>2, <3>1 DEF Advances, StageOf
    <2>3. CASE mem.phase \in {"payout_submitting", "payout_replaying"}
      <3>1. Stage' = StageOf("submit", mem.phase)
        BY <1>6, <2>3, GoStage DEF AfterSave
      <3> QED
        BY <1>3, <2>3, <3>1 DEF Advances, StageOf
    <2>4. CASE mem.phase = "payout_confirmed"
      <3>1. Stage' = StageOf("complete", mem.phase)
        BY <1>6, <2>4, GoStage DEF AfterSave
      <3> QED
        BY <1>3, <2>4, <3>1 DEF Advances, StageOf
    <2>5. CASE mem.phase \in {"completed", "blocked"}
      <3>1. Stage' = StageOf("archive", mem.phase)
        BY <1>6, <2>5, GoStage DEF AfterSave
      <3> QED
        BY <1>3, <2>5, <3>1 DEF Advances, StageOf
    <2> QED
      BY <1>1, <2>1, <2>2, <2>3, <2>4, <2>5 DEF Phases
  <1> QED
    BY <1>2, <1>4, <1>5, <1>6

LEMMA PreflightAdvances ==
  ASSUME ProcInv, PreflightError \/ PreflightRead PROVE Advances
  <1>1. pc = "preflight" /\ mem \in RunState /\ pre.tries \in Nat /\ PreflightAttempts \in Nat
    BY DEF PreflightError, PreflightRead, ProcInv
  <1>2. Stage = 17
    BY <1>1 DEF Stage, StageOf
  <1>3. CASE \E r : Return(r)
    <2>1. Stage' = 0
      BY <1>3, ReturnStage
    <2> QED
      BY <1>2, <2>1 DEF Advances
  <1>4. ASSUME NEW n, NEW b, Save([mem EXCEPT !.phase = "payout_prepared", !.nonce = n,
                                              !.before = b, !.attempts = 1])
        PROVE  Advances
    <2>1. Stage' = StageOf("save", "payout_prepared")
      BY <1>1, <1>4, SaveStage DEF Save
    <2> QED
      BY <1>2, <2>1 DEF Advances, StageOf
  <1>5. CASE /\ pre.tries + 1 < PreflightAttempts
             /\ pre'.tries = pre.tries + 1 /\ pc' = pc /\ mem' = mem
    <2>1. Stage' = Stage
      BY <1>5 DEF Stage
    <2>2. TriesLeft = PreflightAttempts - pre.tries /\ TriesLeft' = PreflightAttempts - (pre.tries + 1)
      BY <1>1, <1>5 DEF TriesLeft, Remaining
    <2> QED
      BY <1>1, <2>1, <2>2 DEF Advances
  <1>6. CASE PreflightError
    BY <1>3, <1>5, <1>6 DEF PreflightError, PreInit
  <1>7. CASE PreflightRead
    <2>1. PICK i \in BaselineReads :
            \/ ExecutePayout(ledger[i])
            \/ pre.tries + 1 < PreflightAttempts /\ pc' = pc /\ mem' = mem
               /\ \E stable, total, avail :
                    pre' = [tries |-> pre.tries + 1, stable |-> stable,
                            total |-> total, avail |-> avail]
            \/ Return("err")
      BY <1>7, Zenon DEF PreflightRead
    <2>2. CASE ExecutePayout(ledger[i])
      BY <1>3, <1>4, <2>2 DEF ExecutePayout
    <2>3. CASE /\ pre.tries + 1 < PreflightAttempts /\ pc' = pc /\ mem' = mem
               /\ \E stable, total, avail :
                    pre' = [tries |-> pre.tries + 1, stable |-> stable,
                            total |-> total, avail |-> avail]
      <3>1. pre'.tries = pre.tries + 1
        BY <2>3
      <3> QED
        BY <1>5, <2>3, <3>1
    <2> QED
      BY <1>3, <2>1, <2>2, <2>3
  <1> QED
    BY <1>6, <1>7

(* The request leaves and is answered.                                     *)
LEMMA VerdictStage ==
  ASSUME mem \in RunState
  PROVE  /\ Confirm => Stage' = 7
         /\ \A reason : Block(reason) => Stage' = 4
         /\ Replay => Stage' = 11
  <1>1. Confirm => Stage' = StageOf("save", "payout_confirmed")
    BY SaveStage DEF Confirm, Save
  <1>2. ASSUME NEW reason, Block(reason) PROVE Stage' = StageOf("save", "blocked")
    BY <1>2, SaveStage DEF Block, SaveTwice
  <1>3. Replay => Stage' = StageOf("save", "payout_replaying")
    BY SaveStage DEF Replay, SaveTwice
  <1> QED
    BY <1>1, <1>2, <1>3 DEF StageOf

LEMMA SubmitAdvances ==
  ASSUME ProcInv, Submit \/ SubmitAccepted \/ SubmitRejected \/ SubmitUncertain
  PROVE  Advances
  <1>1. mem \in RunState
    BY DEF ProcInv
  <1>2. CASE Submit
    <2>1. Stage = StageOf("submit", mem.phase) /\ Stage' = StageOf("await", mem.phase)
      BY <1>2, GoStage DEF Submit, Stage
    <2> QED
      BY <2>1 DEF Advances, StageOf
  <1>3. CASE SubmitAccepted \/ SubmitRejected \/ SubmitUncertain
    <2>1. Stage = StageOf("await", mem.phase)
      BY <1>3 DEF SubmitAccepted, SubmitRejected, SubmitUncertain, Stage
    <2>2. Stage' = 7 \/ Stage' = 4 \/ Stage' = StageOf("observe", mem.phase)
      BY <1>1, <1>3, VerdictStage, GoStage DEF SubmitAccepted, SubmitRejected, SubmitUncertain
    <2> QED
      BY <2>1, <2>2 DEF Advances, StageOf
  <1> QED
    BY <1>2, <1>3

LEMMA ObserveAdvances == ASSUME ProcInv, ObserveError \/ ObserveRead PROVE Advances
  <1>1. pc = "observe" /\ mem \in RunState /\ obs.tries \in Nat /\ QueryAttempts \in Nat
    BY DEF ObserveError, ObserveRead, ProcInv
  <1>2. Stage = StageOf("observe", mem.phase)
    BY <1>1 DEF Stage
  <1>3. PICK o : o.tries = obs.tries + 1 /\ Observed(o)
    BY DEF ObserveError, ObserveRead, ProcInv
  <1>4. CASE Confirm \/ \E reason : Block(reason)
    <2>1. Stage' = 7 \/ Stage' = 4
      BY <1>1, <1>4, VerdictStage
    <2> QED
      BY <1>2, <2>1 DEF Advances, StageOf
  <1>5. CASE ReplayAllowed(o) /\ Replay
    <2>1. Stage' = 11 /\ mem.phase # "payout_replaying"
      BY <1>1, <1>5, VerdictStage DEF ReplayAllowed
    <2> QED
      BY <1>2, <2>1 DEF Advances, StageOf
  <1>6. CASE o.tries < QueryAttempts /\ obs' = o /\ pc' = pc /\ mem' = mem
    <2>1. Stage' = Stage
      BY <1>6 DEF Stage
    <2>2. TriesLeft = QueryAttempts - obs.tries /\ TriesLeft' = QueryAttempts - (obs.tries + 1)
      BY <1>1, <1>3, <1>6 DEF TriesLeft, Remaining
    <2> QED
      BY <1>1, <2>1, <2>2 DEF Advances
  <1> QED
    BY <1>3, <1>4, <1>5, <1>6 DEF Observed

LEMMA FinishAdvances ==
  ASSUME ProcInv, \/ CompleteDatabase \/ CompleteError
                  \/ Archive \/ ArchiveError \/ ClearState
  PROVE  Advances
  <1>1. mem \in RunState
    BY DEF ProcInv
  <1>2. CASE CompleteDatabase \/ CompleteError
    <2>1. Stage = 6
      BY <1>2 DEF CompleteDatabase, CompleteError, Stage, StageOf
    <2>2. Stage' = StageOf("save", "completed") \/ Stage' = 0
      BY <1>1, <1>2, SaveStage, ReturnStage DEF CompleteDatabase, CompleteError, Save
    <2> QED
      BY <2>1, <2>2 DEF Advances, StageOf
  <1>3. CASE Archive \/ ArchiveError
    <2>1. Stage = 3
      BY <1>3 DEF Archive, ArchiveError, Stage, StageOf
    <2>2. Stage' = StageOf("clear", mem.phase) \/ Stage' = 0
      BY <1>3, GoStage, ReturnStage DEF Archive, ArchiveError
    <2> QED
      BY <2>1, <2>2 DEF Advances, StageOf
  <1>4. CASE ClearState
    <2>1. Stage = 2
      BY <1>4 DEF ClearState, Stage, StageOf
    <2>2. Stage' = 0
      BY <1>4, ReturnStage DEF ClearState
    <2> QED
      BY <2>1, <2>2 DEF Advances
  <1> QED
    BY <1>2, <1>3, <1>4

(* A task never goes round in circles, whatever its snapshots hold and     *)
(* however saves, queries, submissions and updates fail: every step of the *)
(* process enters a lower one of its 20 stages, or stays with fewer tries  *)
(* left, and nothing around it sends it back.  Only a restart and the      *)
(* scheduler begin again (recoverState, executePayout,                     *)
(* observeUncertainPayout, replayPreparedPayout, finishRun).               *)
THEOREM PayoutWindsDown ==
  Spec => [][/\ Stage \in 0..20 /\ TriesLeft \in Nat /\ TriesLeft' \in Nat
             /\ Process => Advances
             /\ World => Stage' = 0 \/ UNCHANGED <<Stage, TriesLeft>>]_vars
  <1>1. ASSUME ProcInv, DiskInv, Process PROVE Advances
    BY <1>1, LoadAdvances, ListAdvances, SaveAdvances, PreflightAdvances, SubmitAdvances,
       ObserveAdvances, FinishAdvances DEF Process
  <1>2. World => Stage' = 0 \/ UNCHANGED <<Stage, TriesLeft>>
    <2>1. CASE Crash \/ PowerLoss
      BY <2>1 DEF Crash, PowerLoss, Leave, Stage, StageOf
    <2>2. CASE Corrupt \/ InsertRecord \/ Deposit \/ ExchangeApplies \/ ExchangeRefuses \/ LoseRequest
      <3>1. pc' = pc /\ mem' = mem /\ left' = left /\ pre' = pre /\ obs' = obs
        BY <2>2 DEF Corrupt, InsertRecord, Deposit, ExchangeApplies, ExchangeRefuses,
           LoseRequest, proc
      <3> QED
        BY <3>1 DEF Stage, TriesLeft
    <2> QED
      BY <2>1, <2>2 DEF World
  <1>3. ProcInv' => (TriesLeft \in Nat)'
    <2>1. ProcInv => TriesLeft \in Nat
      BY RankType
    <2> QED
      BY <2>1, PTL
  <1>4. ASSUME TypeOK /\ ShapeInv, (TypeOK /\ ShapeInv)', [Next]_vars
        PROVE  [/\ Stage \in 0..20 /\ TriesLeft \in Nat /\ TriesLeft' \in Nat
                /\ Process => Advances
                /\ World => Stage' = 0 \/ UNCHANGED <<Stage, TriesLeft>>]_vars
    <2>1. ProcInv /\ DiskInv
      BY <1>4, ShapeParts
    <2>2. ProcInv'
      BY <1>4, ShapeParts, PTL
    <2>3. Stage \in 0..20 /\ TriesLeft \in Nat
      BY <2>1, RankType
    <2>4. TriesLeft' \in Nat
      BY <1>3, <2>2
    <2> QED
      BY <1>1, <1>2, <2>1, <2>3, <2>4
  <1> QED
    BY <1>4, ShapeCorrect, PTL DEF Spec
=============================================================================
