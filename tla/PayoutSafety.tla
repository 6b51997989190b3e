---------------------------- MODULE PayoutSafety ----------------------------
(***************************************************************************)
(* Proofs, for all values of the constants, that no record is paid twice,  *)
(* no request leaves three times, nothing is forgotten and no verdict is   *)
(* wrong.  The fault model is the one two snapshots are made for: at most  *)
(* one of them is damaged between two empty stores (MaxDamage <= 1), while *)
(* crashes, power losses, lost and late requests are unlimited.            *)
(***************************************************************************)
EXTENDS PayoutProofs

USE FilesAssumption, PayoutAssumption, SnapshotAssumption

-----------------------------------------------------------------------------
(* What the disk operations do to the snapshots a restart can load.        *)

LEMMA LoadableIs == \A f : f \in Loadable <=> CanLoad(f)
  BY DEF Loadable, CanLoad

LEMMA LoadableNext == (\A f : f \in Loadable <=> CanLoad(f))'
  BY LoadableIs, PTL

LEMMA RunIsValid == ASSUME NEW s \in RunState PROVE Valid(s) /\ s # Missing /\ s # Invalid
  BY DEF Valid

(* The pairs a power loss may leave after a save: an old one, the rotated  *)
(* one, or the saved run over the rotated primary or over an old backup.   *)
LEMMA SavedPairs ==
  ASSUME TypeOK, DiskFits,
         NEW r \in SaveResults(cur, bak, durable, mem), Store(r), NEW p \in durable'
  PROVE  \/ p \in durable
         \/ Valid(cur) /\ p = <<Missing, cur>>
         \/ Valid(cur) /\ p = <<mem, cur>>
         \/ \E q \in durable : /\ p = <<mem, q[2]>>
                               /\ PowerMayFail \/ (q = <<cur, bak>> /\ ~Valid(cur))
  <1>1. \/ r = Outcome(cur, bak, "err", durable)
        \/ Valid(cur) /\ r = Outcome(Missing, cur, "err", Rotated(durable, cur))
        \/ Valid(cur) /\ r = Outcome(mem, cur, "err", Installed(Rotated(durable, cur), mem))
        \/ Valid(cur) /\ r = Synced(mem, cur, Installed(Rotated(durable, cur), mem))
        \/ ~Valid(cur) /\ r = Outcome(mem, bak, "err", Installed(durable, mem))
        \/ ~Valid(cur) /\ r = Synced(mem, bak, Installed(durable, mem))
    BY DEF SaveResults, SaveRotates, SaveInstalls, Valid
  <1>2. <<cur, bak>> \in durable
    BY DEF DiskFits
  <1>3. CASE ~PowerMayFail
    <2>1. p = <<r.cur, r.bak>>
      BY <1>3 DEF Store
    <2> QED
      BY <1>1, <1>2, <2>1 DEF Outcome, Synced
  <1>4. CASE PowerMayFail
    <2>1. p \in r.durable
      BY <1>4 DEF Store
    <2>2. CASE r.durable \subseteq Installed(Rotated(durable, cur), mem) /\ Valid(cur)
      BY <1>4, <2>1, <2>2 DEF Installed, Rotated
    <2>3. CASE r.durable \subseteq Installed(durable, mem)
      BY <1>4, <2>1, <2>3 DEF Installed
    <2>4. CASE r = Outcome(cur, bak, "err", durable)
      BY <2>1, <2>4 DEF Outcome
    <2>5. CASE r = Synced(mem, cur, Installed(Rotated(durable, cur), mem)) /\ Valid(cur)
      BY <2>1, <2>5 DEF Synced, Outcome
    <2>6. CASE r = Synced(mem, bak, Installed(durable, mem)) /\ ~Valid(cur)
      BY <1>2, <2>1, <2>6 DEF Synced, Outcome
    <2> QED
      BY <1>1, <2>2, <2>3, <2>4, <2>5, <2>6 DEF Outcome, Installed
  <1> QED
    BY <1>3, <1>4

(* A save makes at most the saved run newly loadable and never empties the *)
(* store.                                                                  *)
LEMMA SaveLoadable ==
  ASSUME TypeOK, DiskFits, damage' = damage,
         NEW r \in SaveResults(cur, bak, durable, mem), Store(r)
  PROVE  Loadable' \subseteq Loadable \cup {mem} /\ (NeverEmpty => NeverEmpty')
  <1>1. (PowerMayFail <=> PowerMayFail') /\ (Losable <=> Losable')
    BY DEF PowerMayFail, Losable
  <1>2. <<cur, bak>> \in durable /\ mem \in RunState /\ Valid(mem) /\ mem # Missing
    BY RunIsValid DEF DiskFits, TypeOK
  <1>3. ASSUME NEW f \in Loadable'
        PROVE  f \in Loadable \cup {mem}
    <2>1. PICK p \in durable' :
            Valid(f) /\ (f = p[1] \/ (f = p[2] /\ (~Valid(p[1]) \/ Losable)))
      BY <1>1, <1>3, LoadableNext DEF CanLoad
    <2>2. CASE p \in durable
      BY <2>1, <2>2, LoadableIs DEF CanLoad
    <2>3. CASE Valid(cur) /\ (p = <<Missing, cur>> \/ p = <<mem, cur>>)
      <3>1. f \in {cur, mem}
        BY <2>1, <2>3 DEF Valid
      <3>2. cur \in Loadable
        BY <1>2, <2>3, LoadableIs DEF CanLoad
      <3> QED
        BY <3>1, <3>2
    <2>4. ASSUME NEW q \in durable, p = <<mem, q[2]>>,
                 PowerMayFail \/ (q = <<cur, bak>> /\ ~Valid(cur))
          PROVE  f \in Loadable \cup {mem}
      <3>1. f = mem \/ f = q[2]
        BY <2>1, <2>4
      <3>2. ~Valid(q[1]) \/ Losable
        BY <2>4 DEF Losable
      <3> QED
        BY <2>1, <3>1, <3>2, LoadableIs DEF CanLoad
    <2> QED
      BY <2>2, <2>3, <2>4, SavedPairs
  <1>4. ASSUME NeverEmpty, NEW p \in durable'
        PROVE  ~LoadsNothing(p[1], p[2])
    BY <1>2, <1>4, SavedPairs DEF NeverEmpty, LoadsNothing, Valid
  <1> QED
    BY <1>3, <1>4 DEF NeverEmpty

(* A save that succeeds leaves one pair, and over a primary that was       *)
(* damaged or valid no older backup can be loaded any more.                *)
LEMMA SaveSynced ==
  ASSUME TypeOK, DiskFits, damage' = damage, MaxDamage <= 1,
         NEW r \in SaveResults(cur, bak, durable, mem), Store(r), r.result = "ok"
  PROVE  /\ durable' = {<<cur', bak'>>} /\ cur' = mem /\ NeverEmpty'
         /\ cur # Missing => Loadable' \subseteq {f \in {mem, cur} : Valid(f)}
  <1>1. \/ Valid(cur) /\ r = Synced(mem, cur, Installed(Rotated(durable, cur), mem))
        \/ /\ cur = Missing \/ (cur = Invalid /\ Valid(bak))
           /\ r = Synced(mem, bak, Installed(durable, mem))
    BY DEF SaveResults, SaveRotates, SaveInstalls, Outcome
  <1>2. mem \in RunState /\ Valid(mem) /\ mem # Missing
    BY RunIsValid DEF TypeOK
  <1>3. durable' = {<<cur', bak'>>} /\ cur' = mem
    BY <1>1 DEF Store, Synced, Outcome
  <1>4. NeverEmpty'
    BY <1>2, <1>3 DEF NeverEmpty, LoadsNothing
  <1>5. ASSUME cur # Missing, NEW f \in Loadable'
        PROVE  f \in {g \in {mem, cur} : Valid(g)}
    <2>1. Valid(f) /\ (f = mem \/ (f = bak' /\ Losable'))
      BY <1>2, <1>3, <1>5, LoadableNext DEF CanLoad
    <2>2. CASE Valid(cur)
      <3>1. bak' = cur
        BY <1>1, <2>2 DEF Store, Synced, Outcome, Valid
      <3> QED
        BY <2>1, <3>1
    <2>3. CASE ~Valid(cur)
      <3>1. cur = Invalid /\ damage \in Nat
        BY <1>1, <1>5, <2>3 DEF TypeOK
      <3>2. damage > 0
        BY <3>1 DEF DiskFits
      <3>3. ~Losable'
        BY <3>1, <3>2 DEF Losable, PowerMayFail
      <3> QED
        BY <2>1, <3>3
    <2> QED
      BY <2>2, <2>3
  <1> QED
    BY <1>3, <1>4, <1>5

LEMMA SaveFits ==
  ASSUME TypeOK, DiskFits, damage' = damage, submits' = submits,
         mem.phase = "payout_prepared" => submits[mem.nonce] = 0,
         NEW r \in SaveResults(cur, bak, durable, mem), Store(r)
  PROVE  DiskFits'
  <1>1. <<cur, bak>> \in durable /\ mem \in RunState /\ Valid(mem) /\ mem # Invalid
    BY RunIsValid DEF DiskFits, TypeOK
  <1>2. PowerMayFail <=> PowerMayFail'
    BY DEF PowerMayFail
  <1>3. <<cur', bak'>> \in durable'
    <2>1. <<r.cur, r.bak>> \in r.durable
      <3>1. <<Missing, cur>> \in Rotated(durable, cur)
        BY DEF Rotated
      <3>2. <<mem, cur>> \in Installed(Rotated(durable, cur), mem)
        BY <3>1 DEF Installed
      <3>3. <<mem, bak>> \in Installed(durable, mem)
        BY <1>1 DEF Installed
      <3> QED
        BY <1>1, <3>1, <3>2, <3>3 DEF SaveResults, Outcome, Synced
    <2> QED
      BY <2>1 DEF Store
  <1>4. ~PowerMayFail' => durable' = {<<cur', bak'>>}
    BY <1>2 DEF Store
  <1>5. ASSUME NEW p \in durable'
        PROVE  /\ Invalid \in {p[1], p[2]} => damage > 0
               /\ Valid(p[1]) /\ p[1].phase = "payout_prepared" => submits[p[1].nonce] = 0
    <2>1. CASE p \in durable
      BY <2>1 DEF DiskFits
    <2>2. CASE Valid(cur) /\ p = <<Missing, cur>>
      BY <2>2 DEF Valid
    <2>3. CASE Valid(cur) /\ p = <<mem, cur>>
      BY <1>1, <2>3 DEF Valid
    <2>4. CASE \E q \in durable : p = <<mem, q[2]>>
      BY <1>1, <2>4 DEF DiskFits
    <2> QED
      BY <2>1, <2>2, <2>3, <2>4, SavedPairs
  <1> QED
    BY <1>3, <1>4, <1>5 DEF DiskFits

(* Clearing makes nothing newly loadable; when it succeeds the store is    *)
(* empty for good.                                                         *)
LEMMA ClearDisk ==
  ASSUME TypeOK, DiskFits, submits' = submits,
         NEW r \in ClearResults(cur, bak, durable), Store(r),
         damage' = IF r.result = "ok" THEN 0 ELSE damage
  PROVE  Loadable' \subseteq Loadable /\ DiskFits'
  <1>1. <<cur, bak>> \in durable
    BY DEF DiskFits
  <1>2. \/ r = Outcome(cur, bak, "err", durable)
        \/ r = Outcome(cur, Missing, "err", NoBackup(durable))
        \/ r = Outcome(Missing, Missing, "err", NoPrimary(NoBackup(durable)))
        \/ r = Synced(Missing, Missing, NoPrimary(NoBackup(durable)))
    BY DEF ClearResults
  <1>3. CASE r.result = "ok"
    <2>1. cur' = Missing /\ bak' = Missing /\ durable' = {<<Missing, Missing>>}
      BY <1>2, <1>3 DEF Store, Synced, Outcome
    <2>2. Loadable' = {}
      BY <2>1, LoadableNext DEF CanLoad, Valid
    <2>3. DiskFits'
      BY <2>1 DEF DiskFits, Valid
    <2> QED
      BY <2>2, <2>3
  <1>4. CASE r.result # "ok"
    <2>1. damage' = damage /\ (PowerMayFail <=> PowerMayFail') /\ (Losable <=> Losable')
      BY <1>4 DEF PowerMayFail, Losable
    <2>2. ASSUME NEW p \in durable'
          PROVE  \E q \in durable : /\ p[1] \in {q[1], Missing}
                                    /\ p[2] \in {q[2], Missing}
                                    /\ p[1] # q[1] /\ p[2] # Missing => Losable
      <3>1. CASE PowerMayFail
        <4>1. p \in NoPrimary(NoBackup(durable)) \/ p \in NoBackup(durable) \/ p \in durable
          BY <1>2, <1>4, <3>1 DEF Store, Outcome, Synced
        <4>2. Losable
          BY <3>1 DEF Losable
        <4>3. NoBackup(durable) = durable \cup {<<q[1], Missing>> : q \in durable}
          BY DEF NoBackup
        <4>4. ASSUME NEW q \in NoBackup(durable)
              PROVE  \E q2 \in durable : q[1] = q2[1] /\ q[2] \in {q2[2], Missing}
          BY <4>3, <4>4
        <4>5. ASSUME NEW q \in NoPrimary(NoBackup(durable))
              PROVE  \E q2 \in NoBackup(durable) : q[1] \in {q2[1], Missing} /\ q[2] = q2[2]
          BY <4>5 DEF NoPrimary
        <4> QED
          BY <4>1, <4>2, <4>4, <4>5
      <3>2. CASE ~PowerMayFail
        <4>1. p = <<r.cur, r.bak>>
          BY <3>2 DEF Store
        <4>2. p = <<cur, bak>> \/ p = <<cur, Missing>> \/ p = <<Missing, Missing>>
          BY <1>2, <1>4, <4>1 DEF Outcome, Synced
        <4> QED
          BY <1>1, <4>2
      <3> QED
        BY <3>1, <3>2
    <2>3. ASSUME NEW f \in Loadable'
          PROVE  f \in Loadable
      <3>1. PICK p \in durable' :
              Valid(f) /\ (f = p[1] \/ (f = p[2] /\ (~Valid(p[1]) \/ Losable)))
        BY <2>1, <2>3, LoadableNext DEF CanLoad
      <3>2. PICK q \in durable : /\ p[1] \in {q[1], Missing}
                                 /\ p[2] \in {q[2], Missing}
                                 /\ p[1] # q[1] /\ p[2] # Missing => Losable
        BY <2>2
      <3> QED
        BY <3>1, <3>2, LoadableIs DEF CanLoad, Valid
    <2>4. <<cur', bak'>> \in durable'
      <3>1. <<r.cur, r.bak>> \in r.durable
        <4>1. <<cur, Missing>> \in NoBackup(durable)
          BY <1>1 DEF NoBackup
        <4>2. <<Missing, Missing>> \in NoPrimary(NoBackup(durable))
          BY <4>1 DEF NoPrimary
        <4> QED
          BY <1>1, <1>2, <4>1, <4>2 DEF Outcome, Synced
      <3> QED
        BY <3>1 DEF Store
    <2>5. ASSUME NEW p \in durable'
          PROVE  /\ Invalid \in {p[1], p[2]} => damage > 0
                 /\ Valid(p[1]) /\ p[1].phase = "payout_prepared" => submits[p[1].nonce] = 0
      <3>1. PICK q \in durable : p[1] \in {q[1], Missing} /\ p[2] \in {q[2], Missing}
        BY <2>2
      <3> QED
        BY <3>1 DEF DiskFits, Valid
    <2> QED
      BY <2>1, <2>3, <2>4, <2>5 DEF DiskFits, Store
  <1> QED
    BY <1>3, <1>4

LEMMA CorruptDisk ==
  ASSUME TypeOK, DiskFits, Corrupt
  PROVE  /\ Loadable' \subseteq Loadable /\ NeverEmpty' /\ DiskFits'
         /\ durable' = {<<cur', bak'>>} /\ cur' \in {cur, Invalid}
  <1>1. <<cur, bak>> \in durable /\ durable' = {<<cur', bak'>>} /\ Losable
        /\ submits' = submits
    BY DEF Corrupt, DiskFits, Losable, chain, net
  <1>2. \/ cur' = Invalid /\ bak' = bak
        \/ bak' = Invalid /\ cur' = cur
    BY DEF Corrupt
  <1>3. Loadable' \subseteq Loadable
    <2> SUFFICES ASSUME NEW f \in Loadable' PROVE f \in Loadable
      OBVIOUS
    <2>1. Valid(f) /\ f \in {cur', bak'}
      BY <1>1, LoadableNext DEF CanLoad
    <2> QED
      BY <1>1, <1>2, <2>1, LoadableIs DEF CanLoad, Valid
  <1>4. NeverEmpty'
    BY <1>1, <1>2 DEF NeverEmpty, LoadsNothing
  <1>5. damage' > 0
    BY DEF Corrupt, TypeOK
  <1>6. DiskFits'
    <2>1. Valid(cur') => cur' = cur
      BY <1>2 DEF Valid
    <2>2. Valid(cur) /\ cur.phase = "payout_prepared" => submits[cur.nonce] = 0
      BY <1>1 DEF DiskFits
    <2> QED
      BY <1>1, <1>5, <2>1, <2>2 DEF DiskFits
  <1> QED
    BY <1>1, <1>2, <1>3, <1>4, <1>6

LEMMA PowerLossDisk ==
  ASSUME TypeOK, DiskFits, PowerLoss
  PROVE  Loadable' \subseteq Loadable /\ (NeverEmpty => NeverEmpty') /\ DiskFits'
  <1>1. PICK p \in durable : cur' = p[1] /\ bak' = p[2] /\ durable' = {p}
    BY DEF PowerLoss
  <1>2. (PowerMayFail <=> PowerMayFail') /\ (Losable <=> Losable') /\ damage' = damage
        /\ submits' = submits
    BY DEF PowerLoss, PowerMayFail, Losable, chain, net
  <1>3. p = <<cur', bak'>>
    BY <1>1 DEF TypeOK
  <1>4. Loadable' \subseteq Loadable
    BY <1>1, <1>2, LoadableIs, LoadableNext DEF CanLoad
  <1>5. NeverEmpty => NeverEmpty'
    BY <1>1 DEF NeverEmpty
  <1>6. DiskFits'
    BY <1>1, <1>2, <1>3 DEF DiskFits
  <1> QED
    BY <1>4, <1>5, <1>6

LEMMA SameDisk ==
  ASSUME UNCHANGED disk
  PROVE  Loadable' = Loadable /\ (NeverEmpty <=> NeverEmpty')
  BY DEF disk, files, Loadable, CanLoad, Losable, PowerMayFail, NeverEmpty

LEMMA SameDiskFits ==
  ASSUME DiskFits, UNCHANGED disk, submits' = submits
  PROVE  DiskFits'
  BY DEF disk, files, DiskFits, PowerMayFail

-----------------------------------------------------------------------------
(* Most steps add nothing that can go wrong: what they leave to go on with *)
(* was held before, no request becomes live, and what they archive is      *)
(* true.  (Submit is the one step that adds a live request.)               *)

TrueVerdict(h) ==
  /\ h.nonce \in Nat /\ h.nonce < nextNonce
  /\ h.result = "rejected" =>
       /\ h.nonce # 0
       /\ \A q \in Live : q.nonce # h.nonce
       /\ \A s \in Held : s.nonce = h.nonce => s.reason = "rejected"

Tame ==
  /\ Loadable' \subseteq Held
  /\ Live' \subseteq Live
  /\ submits' = submits
  /\ Done \subseteq Done'
  /\ nextNonce' \in Nat /\ nextNonce <= nextNonce'
  /\ history \subseteq history'
  /\ \A h \in history' \ history : TrueVerdict(h)

Calm == Tame /\ (NeverEmpty => NeverEmpty')

(* The run a step goes on with is sound and belongs to the owner, if any.  *)
SoundRun ==
  Active' => /\ RunOK(mem)' /\ NoClash(mem)'
             /\ \A n \in 1..MaxNonce : Owned(n) => mem'.nonce = n

(* What every step but Submit and ClearState keeps.                        *)
Sound == Calm /\ SoundRun

LEMMA HeldRuns == ASSUME TypeOK PROVE Held \subseteq RunState
  <1>1. \A f \in Loadable : f \in RunState
    BY LoadableIs, ValidIsRun DEF CanLoad, TypeOK
  <1> QED
    BY <1>1 DEF Held, TypeOK

LEMMA LiveRequests == ASSUME TypeOK PROVE Live \subseteq Request
  BY DEF TypeOK, Live, Copy, Request, RequestOf

LEMMA TameRuns ==
  ASSUME TypeOK, SafeInv, Tame, NEW s \in Held
  PROVE  RunOK(s)' /\ NoClash(s)'
  <1>1. RunOK(s) /\ NoClash(s) /\ s \in RunState
    BY HeldRuns DEF SafeInv, HeldInv
  <1>2. RunOK(s)'
    <2>1. s.nonce \in Nat /\ nextNonce \in Nat /\ s.nonce < nextNonce'
      BY <1>1 DEF RunOK, RunState, TypeOK, Tame
    <2> QED
      BY <1>1, <2>1 DEF RunOK, Tame
  <1>3. NoClash(s)'
    <2>1. \A q \in Live' : Compatible(s, q)
      BY <1>1 DEF NoClash, Tame
    <2>2. s.reason = "rejected" => \A q \in Live' : q.nonce # s.nonce
      BY <1>1 DEF NoClash, Tame
    <2>3. \A h \in history' : h.result = "rejected" /\ h.nonce = s.nonce => s.reason = "rejected"
      BY <1>1 DEF NoClash, Tame, TrueVerdict
    <2> QED
      BY <2>1, <2>2, <2>3 DEF NoClash, Compatible
  <1> QED
    BY <1>2, <1>3

LEMMA TameStep ==
  ASSUME TypeOK, SafeInv, Tame, SoundRun
  PROVE  HeldInv' /\ CountInv' /\ LiveInv'
  <1>1. HeldInv'
    <2> SUFFICES ASSUME NEW s \in Held' PROVE RunOK(s)' /\ NoClash(s)'
      BY DEF HeldInv
    <2>1. CASE s \in Loadable'
      BY <2>1, TameRuns DEF Tame
    <2>2. CASE Active' /\ s = mem'
      BY <2>2 DEF SoundRun, RunOK, NoClash, Compatible
    <2> QED
      BY <2>1, <2>2 DEF Held
  <1>2. CountInv'
    <2>1. \A n \in 1..MaxNonce : n >= nextNonce' => submits'[n] = 0
      BY DEF SafeInv, CountInv, Tame, TypeOK
    <2>2. \A q \in Live' : submits'[q.nonce] > 0
      BY DEF SafeInv, CountInv, Tame
    <2>3. \A h \in history' : h.nonce < nextNonce' /\ (h.result = "rejected" => h.nonce # 0)
      <3> SUFFICES ASSUME NEW h \in history'
                   PROVE  h.nonce < nextNonce' /\ (h.result = "rejected" => h.nonce # 0)
        OBVIOUS
      <3>1. /\ h.nonce \in Nat /\ h.nonce < nextNonce
            /\ h.result = "rejected" => h.nonce # 0
        BY DEF SafeInv, CountInv, Tame, TrueVerdict, TypeOK
      <3> QED
        BY <3>1 DEF Tame, TypeOK
    <2>4. NoThirdSubmit'
      BY DEF SafeInv, CountInv, Tame, NoThirdSubmit
    <2> QED
      BY <2>1, <2>2, <2>3, <2>4 DEF CountInv
  <1>3. LiveInv'
    <2>1. RejectedIsUnpaid'
      BY DEF SafeInv, LiveInv, Tame, TrueVerdict, RejectedIsUnpaid
    <2>2. \A p, q \in Live' : Compatible(p, q)
      BY DEF SafeInv, LiveInv, Tame
    <2> QED
      BY <2>1, <2>2 DEF LiveInv, Compatible
  <1> QED
    BY <1>1, <1>2, <1>3

LEMMA CalmStep ==
  ASSUME TypeOK, SafeInv, Calm, SoundRun
  PROVE  HeldInv' /\ CountInv' /\ LiveInv' /\ OwnerInv'
  <1>1. HeldInv' /\ CountInv' /\ LiveInv'
    BY TameStep DEF Calm
  <1>2. OwnerInv'
    <2>1. ASSUME NEW n \in 1..MaxNonce, Owned(n)
          PROVE  Owned(n)'
      BY <2>1 DEF Owned, Tame, Calm, SoundRun, Held
    <2>2. ASSUME NEW n \in 1..MaxNonce, submits'[n] > 0
          PROVE  Accounted(n)' \/ Owned(n)'
      BY <2>1, <2>2 DEF SafeInv, OwnerInv, Accounted, Tame, Calm
    <2>3. ASSUME NEW q \in Live'
          PROVE  q.batch \subseteq Done' \/ Owned(q.nonce)'
      <3>1. q \in Live /\ q.nonce \in 1..MaxNonce
        BY LiveRequests DEF Tame, Calm, Request
      <3> QED
        BY <2>1, <3>1 DEF SafeInv, OwnerInv, Tame, Calm
    <2> QED
      BY <2>2, <2>3 DEF OwnerInv
  <1> QED
    BY <1>1, <1>2

(* Going on with a run that was held, or with the same payout further on.  *)
LEMMA SoundKept ==
  ASSUME TypeOK, SafeInv, Calm, Active' => mem' \in Held
  PROVE  SoundRun
  <1> SUFFICES ASSUME Active'
               PROVE  /\ RunOK(mem)' /\ NoClash(mem)'
                      /\ \A n \in 1..MaxNonce : Owned(n) => mem'.nonce = n
    BY DEF SoundRun
  <1>1. PICK s \in Held : s = mem'
    OBVIOUS
  <1>2. RunOK(s)' /\ NoClash(s)'
    BY TameRuns DEF Calm
  <1> QED
    BY <1>1, <1>2 DEF RunOK, NoClash, Compatible, Owned

LEMMA SoundSame ==
  ASSUME TypeOK, SafeInv, Calm, NEW s \in Held,
         mem'.nonce = s.nonce, mem'.batch = s.batch,
         s.reason # "rejected", mem'.reason # "rejected",
         mem'.phase = "completed" => mem'.batch \subseteq Done',
         mem'.phase \in {"payout_prepared", "payout_submitting"} => submits[s.nonce] <= 1
  PROVE  SoundRun
  <1>1. RunOK(s)' /\ NoClash(s)'
    BY TameRuns DEF Calm
  <1>2. RunOK(mem)'
    BY <1>1 DEF RunOK, Calm, Tame
  <1>3. NoClash(mem)'
    BY <1>1 DEF NoClash, Compatible
  <1> QED
    BY <1>2, <1>3 DEF SoundRun, Owned

-----------------------------------------------------------------------------
(* Steps that leave the disk and the requests alone.                       *)

Still ==
  /\ UNCHANGED disk
  /\ UNCHANGED <<history, submits, inflight, applied>>
  /\ Done \subseteq Done'
  /\ nextNonce' \in Nat /\ nextNonce <= nextNonce'

LEMMA StillStep ==
  ASSUME TypeOK, SafeInv, Still
  PROVE  /\ Calm /\ DiskFits' /\ Loadable' = Loadable
         /\ NeverEmpty <=> NeverEmpty'
         /\ cur' = cur /\ bak' = bak /\ durable' = durable
  <1>1. Loadable' = Loadable /\ (NeverEmpty <=> NeverEmpty')
    BY SameDisk DEF Still
  <1>2. Live' = Live
    BY DEF Still, Live
  <1>3. Loadable \subseteq Held
    BY DEF Held
  <1> QED
    BY <1>1, <1>2, <1>3, SameDiskFits DEF Still, Calm, Tame, SafeInv, disk, files

LEMMA UnchangedIsStill ==
  ASSUME TypeOK, UNCHANGED <<disk, history, status, nextNonce, net, applied>>
  PROVE  Still
  BY DEF Still, Done, net, TypeOK

(* Nothing is archived: a blocked run stays final.                         *)
LEMMA FinalKept ==
  ASSUME FinalInv, history' = history,
         pc \in {"down", "idle", "load"} /\ (\E h \in history : h.result = "blocked") =>
           /\ pc' \in {"down", "idle", "load"}
           /\ Loadable' \subseteq Loadable
           /\ NeverEmpty => NeverEmpty'
  PROVE  FinalInv'
  BY DEF FinalInv

(* The process leaves its run without archiving it.                        *)
LEMMA SafeLeave ==
  ASSUME TypeOK, SafeInv, Calm, DiskFits', history' = history, pc' \in {"down", "idle"}
  PROVE  SafeInv' /\ Sound
  <1>1. SoundRun
    BY DEF SoundRun, Active
  <1>2. HeldInv' /\ CountInv' /\ LiveInv' /\ OwnerInv'
    BY <1>1, CalmStep
  <1>3. SaveInv' /\ SubmitInv' /\ AwaitInv' /\ EndInv'
    BY DEF SaveInv, SubmitInv, AwaitInv, EndInv
  <1>4. FinalInv'
    <2>1. pc \in {"down", "idle", "load"} => Loadable' \subseteq Loadable
      BY DEF Calm, Tame, Held, Active
    <2> QED
      BY <2>1, FinalKept DEF Calm, Tame, SafeInv
  <1> QED
    BY <1>1, <1>2, <1>3, <1>4 DEF SafeInv, Sound

LEMMA ReturnLeaves == ASSUME NEW r, Return(r) PROVE pc' \in {"down", "idle"}
  BY DEF Return, Leave

LEMMA SafeReturn ==
  ASSUME TypeOK, SafeInv, Still, NEW r, Return(r)
  PROVE  SafeInv' /\ Sound
  BY StillStep, ReturnLeaves, SafeLeave DEF Still

(* It goes on with a sound run.                                            *)
LEMMA SafeGo ==
  ASSUME TypeOK, SafeInv, Still, SoundRun, FinalInv', SaveInv',
         \/ pc' \in {"save", "preflight", "observe", "complete"}
         \/ pc' = "archive" /\ mem'.phase = "completed"
  PROVE  SafeInv' /\ Sound
  <1>1. HeldInv' /\ CountInv' /\ LiveInv' /\ OwnerInv' /\ DiskFits'
    BY StillStep, CalmStep
  <1>2. SubmitInv' /\ AwaitInv' /\ EndInv'
    BY DEF SubmitInv, AwaitInv, EndInv
  <1> QED
    BY <1>1, <1>2, StillStep DEF SafeInv, Sound

(* It keeps its run and its place.                                         *)
LEMMA SafeStay ==
  ASSUME TypeOK, SafeInv, Still, UNCHANGED <<pc, mem, left, reply>>
  PROVE  SafeInv' /\ Sound
  <1>1. Calm /\ DiskFits' /\ Loadable' = Loadable /\ (NeverEmpty <=> NeverEmpty')
        /\ cur' = cur /\ bak' = bak /\ durable' = durable
    BY StillStep
  <1>2. Active' => mem' \in Held
    BY DEF Active, Held
  <1>3. SoundRun
    BY <1>1, <1>2, SoundKept
  <1>4. HeldInv' /\ CountInv' /\ LiveInv' /\ OwnerInv'
    BY <1>1, <1>3, CalmStep
  <1>5. SaveInv' /\ SubmitInv'
    BY <1>1 DEF SafeInv, SaveInv, SubmitInv, OnDisk, Still
  <1>6. AwaitInv'
    BY DEF SafeInv, AwaitInv, Spent, Still
  <1>7. EndInv'
    BY <1>1 DEF SafeInv, EndInv, OnDisk, Still
  <1>8. FinalInv'
    BY <1>1, FinalKept DEF SafeInv, Still
  <1> QED
    BY <1>1, <1>3, <1>4, <1>5, <1>6, <1>7, <1>8 DEF SafeInv, Sound

LEMMA SafeStart ==
  ASSUME TypeOK, SafeInv, Boot \/ Tick
  PROVE  SafeInv' /\ Sound
  <1>1. Still /\ history' = history /\ pc \in {"down", "idle"} /\ pc' = "load"
    BY UnchangedIsStill DEF Boot, Tick, chain, funds, net
  <1>2. Calm /\ DiskFits' /\ Loadable' = Loadable /\ (NeverEmpty <=> NeverEmpty')
    BY <1>1, StillStep
  <1>3. SoundRun
    BY <1>1 DEF SoundRun, Active
  <1>4. HeldInv' /\ CountInv' /\ LiveInv' /\ OwnerInv'
    BY <1>2, <1>3, CalmStep
  <1>5. SaveInv' /\ SubmitInv' /\ AwaitInv' /\ EndInv'
    BY <1>1 DEF SaveInv, SubmitInv, AwaitInv, EndInv
  <1>6. FinalInv'
    BY <1>1, <1>2, FinalKept DEF SafeInv
  <1> QED
    BY <1>2, <1>3, <1>4, <1>5, <1>6 DEF SafeInv, Sound

-----------------------------------------------------------------------------
(* loadCurrent and recoverState                                            *)

LEMMA LoadedIsLoadable ==
  ASSUME TypeOK, DiskFits, LoadsPrimary(cur, bak) \/ LoadsBackup(cur, bak)
  PROVE  /\ Loaded \in Loadable
         /\ ~LoadsBackup(cur, bak) => Loaded = cur /\ Valid(cur)
  <1>1. <<cur, bak>> \in durable
    BY DEF DiskFits
  <1> QED
    BY <1>1, LoadableIs DEF Loaded, LoadsPrimary, LoadsBackup, CanLoad

LEMMA SafeLoad ==
  ASSUME TypeOK, SafeInv, LoadNothing \/ LoadError
  PROVE  SafeInv' /\ Sound
  <1>1. Still /\ history' = history /\ pc = "load" /\ <<cur, bak>> \in durable
    BY UnchangedIsStill
    DEF LoadNothing, LoadError, chain, funds, net, SafeInv, DiskFits
  <1>2. CASE \E r : Return(r)
    BY <1>1, <1>2, SafeReturn
  <1>3. CASE LoadsNothing(cur, bak) /\ Go("list", NoRun, 0)
    <2>1. pc' = "list" /\ ~NeverEmpty
      BY <1>1, <1>3 DEF Go, NeverEmpty
    <2>2. Calm /\ DiskFits' /\ cur' = cur /\ bak' = bak
      BY <1>1, StillStep
    <2>3. SoundRun
      BY <2>1 DEF SoundRun, Active
    <2>4. HeldInv' /\ CountInv' /\ LiveInv' /\ OwnerInv'
      BY <2>2, <2>3, CalmStep
    <2>5. SaveInv' /\ SubmitInv' /\ AwaitInv' /\ EndInv'
      BY <1>3, <2>1, <2>2 DEF SaveInv, SubmitInv, AwaitInv, EndInv
    <2>6. FinalInv'
      BY <1>1, <2>1 DEF SafeInv, FinalInv
    <2> QED
      BY <2>2, <2>3, <2>4, <2>5, <2>6 DEF SafeInv, Sound
  <1> QED
    BY <1>2, <1>3 DEF LoadNothing, LoadError

LEMMA SafeRecover ==
  ASSUME TypeOK, ShapeInv, SafeInv, RecoverState
  PROVE  SafeInv' /\ Sound
  <1> DEFINE s == Loaded
  <1>1. Still /\ history' = history /\ pc = "load" /\ <<cur, bak>> \in durable
    BY UnchangedIsStill DEF RecoverState, chain, funds, net, SafeInv, DiskFits
  <1>2. s \in Loadable /\ s \in Held /\ (~LoadsBackup(cur, bak) => s = cur /\ Valid(cur))
    BY LoadedIsLoadable DEF RecoverState, SafeInv, Held
  <1>3. s \in RunState /\ RunOK(s) /\ NoClash(s)
    BY <1>2, HeldRuns DEF SafeInv, HeldInv
  <1>4. Calm
    BY <1>1, StillStep
  <1>5. (\E h \in history : h.result = "blocked") => s.phase = "blocked"
    BY <1>2 DEF SafeInv, FinalInv
  <1> HIDE DEF s
  <1>6. ASSUME NEW p \in {"preflight", "observe", "complete", "archive"}, Go(p, s, 0),
               s.phase # "blocked", p = "archive" => s.phase = "completed"
        PROVE  SafeInv' /\ Sound
    <2>1. pc' = p /\ mem' = s
      BY <1>6 DEF Go
    <2>2. SoundRun
      BY <1>2, <1>4, <2>1, SoundKept
    <2>3. FinalInv'
      BY <1>1, <1>5, <1>6 DEF FinalInv
    <2>4. SaveInv'
      BY <2>1 DEF SaveInv
    <2> QED
      BY <1>1, <1>6, <2>1, <2>2, <2>3, <2>4, SafeGo
  <1>7. ASSUME s.phase = "payout_prepared", ~LoadsBackup(cur, bak),
               Save([s EXCEPT !.phase = "payout_submitting"])
        PROVE  SafeInv' /\ Sound
    <2>1. pc' = "save" /\ left' = 1 /\ mem' = [s EXCEPT !.phase = "payout_submitting"]
      BY <1>7 DEF Save, Go
    <2>2. /\ mem'.nonce = s.nonce /\ mem'.batch = s.batch /\ mem'.reason = s.reason
          /\ mem'.phase = "payout_submitting"
      BY <1>3, <2>1 DEF RunState
    <2>3. submits[s.nonce] = 0 /\ s.reason # "rejected"
      BY <1>1, <1>2, <1>3, <1>7 DEF SafeInv, DiskFits, RunOK
    <2>4. SoundRun
      BY <1>2, <1>4, <2>2, <2>3, SoundSame
    <2>5. SaveInv'
      <3>1. cur' = cur /\ submits' = submits
        BY <1>1 DEF Still, disk, files
      <3> QED
        BY <1>2, <1>7, <2>1, <2>2, <2>3, <3>1 DEF SaveInv, Same
    <2>6. FinalInv'
      BY <1>1, <1>5, <1>7 DEF FinalInv
    <2> QED
      BY <1>1, <2>1, <2>4, <2>5, <2>6, SafeGo
  <1>8. ASSUME NEW r, Return(r)
        PROVE  SafeInv' /\ Sound
    BY <1>1, <1>8, SafeReturn
  <1>9. CASE s.phase = "completed" /\ Go("archive", s, 0)
    BY <1>6, <1>9
  <1>10. CASE Resume(s, LoadsBackup(cur, bak))
    <2>1. CASE /\ s.phase = "prepared"
               /\ Go(IF PayoutTotal[s.batch] = 0 THEN "complete" ELSE "preflight", s, 0)
      BY <1>6, <2>1
    <2> QED
      BY <1>6, <1>7, <1>8, <1>10, <2>1 DEF Resume, RecoverUncertain, RecoverConfirmed
  <1> QED
    BY <1>8, <1>9, <1>10 DEF RecoverState, s

-----------------------------------------------------------------------------
(* runNew and runPositive                                                  *)

LEMMA NewRunFields ==
  ASSUME NEW B
  PROVE  /\ NewRun(B).batch = B /\ NewRun(B).phase = "prepared" /\ NewRun(B).nonce = 0
         /\ NewRun(B).reason = "none"
  BY DEF NewRun

(* The store was found empty, so every live request is done in the table   *)
(* and the pending records are nobody's.                                   *)
LEMMA SafeListPending ==
  ASSUME TypeOK, SafeInv, ListPending
  PROVE  SafeInv' /\ Sound
  <1>1. Still /\ history' = history /\ pc = "list" /\ status' = status
        /\ <<cur, bak>> \in durable
    BY UnchangedIsStill DEF ListPending, chain, funds, net, SafeInv, DiskFits
  <1>2. pc' = "save" /\ left' = 1 /\ mem' = NewRun(Pending)
    BY DEF ListPending, Save, Go
  <1>3. ~NeverEmpty
    BY <1>1 DEF SafeInv, EndInv, NeverEmpty
  <1>4. /\ mem'.batch = Pending /\ mem'.phase = "prepared" /\ mem'.nonce = 0
        /\ mem'.reason = "none"
    BY <1>2, NewRunFields
  <1>5. RunOK(mem)'
    BY <1>1, <1>4 DEF RunOK, Still, TypeOK
  <1>6. NoClash(mem)'
    <2>1. Live' = Live
      BY <1>1 DEF Still, Live
    <2>2. ASSUME NEW q \in Live
          PROVE  q.nonce # 0 /\ Pending \cap q.batch = {}
      <3>1. q.batch \subseteq Done
        BY <1>3 DEF SafeInv, OwnerInv, Owned
      <3>2. q.nonce # 0
        BY LiveRequests DEF Request
      <3> QED
        BY <3>1, <3>2 DEF Done, Pending
    <2>3. \A q \in Live' : Compatible(mem', q)
      BY <1>4, <2>1, <2>2 DEF Compatible
    <2>4. \A h \in history' : h.result = "rejected" => h.nonce # 0
      BY <1>1 DEF SafeInv, CountInv
    <2> QED
      BY <1>4, <2>3, <2>4 DEF NoClash, Compatible
  <1>7. SoundRun
    BY <1>3, <1>5, <1>6 DEF SoundRun, Owned
  <1>8. FinalInv'
    BY <1>1 DEF SafeInv, FinalInv
  <1>9. SaveInv'
    BY <1>2, <1>4 DEF SaveInv
  <1> QED
    BY <1>1, <1>2, <1>7, <1>8, <1>9, SafeGo

(* The journal gets a nonce that no request, run or archive ever had.      *)
LEMMA SafeExecute ==
  ASSUME TypeOK, ShapeInv, SafeInv, pc = "preflight", NEW total, Still,
         nextNonce <= MaxNonce, nextNonce' = nextNonce + 1,
         Save([mem EXCEPT !.phase = "payout_prepared", !.nonce = nextNonce,
                          !.before = total, !.attempts = 1])
  PROVE  SafeInv' /\ Sound
  <1>1. mem \in RunState /\ mem.phase = "prepared" /\ mem.nonce = 0 /\ mem \in Held
        /\ history' = history
    BY DEF TypeOK, ShapeInv, Fits, Runs, RunShape, Held, Active, Still
  <1>2. pc' = "save" /\ left' = 1
        /\ mem' = [mem EXCEPT !.phase = "payout_prepared", !.nonce = nextNonce,
                              !.before = total, !.attempts = 1]
    BY DEF Save, Go
  <1>3. /\ mem'.batch = mem.batch /\ mem'.phase = "payout_prepared"
        /\ mem'.nonce = nextNonce /\ mem'.reason = mem.reason
    BY <1>1, <1>2 DEF RunState
  <1>4. RunOK(mem) /\ NoClash(mem) /\ mem.reason # "rejected"
    BY <1>1 DEF SafeInv, HeldInv, RunOK
  <1>5. nextNonce \in 1..MaxNonce /\ submits[nextNonce] = 0 /\ submits' = submits
    BY DEF SafeInv, CountInv, TypeOK, Still
  <1>6. RunOK(mem)'
    BY <1>3, <1>4, <1>5 DEF RunOK
  <1>7. NoClash(mem)'
    <2>1. Live' = Live
      BY DEF Still, Live
    <2>2. ASSUME NEW q \in Live
          PROVE  q.nonce # nextNonce /\ mem.batch \cap q.batch = {}
      <3>1. q.nonce # 0
        BY LiveRequests DEF Request
      <3>2. q.nonce # nextNonce
        BY <1>5 DEF SafeInv, CountInv
      <3>3. mem.batch \cap q.batch = {}
        BY <1>1, <1>4, <3>1 DEF NoClash, Compatible
      <3> QED
        BY <3>2, <3>3
    <2>3. ASSUME NEW h \in history'
          PROVE  h.nonce # nextNonce
      <3>1. h.nonce < nextNonce
        BY <1>1 DEF SafeInv, CountInv
      <3> QED
        BY <1>5, <3>1
    <2>4. \A q \in Live' : Compatible(mem', q)
      BY <1>3, <2>1, <2>2 DEF Compatible
    <2> QED
      BY <1>3, <1>4, <2>3, <2>4 DEF NoClash, Compatible
  <1>8. \A n \in 1..MaxNonce : ~Owned(n)
    BY <1>1 DEF Owned
  <1>9. SoundRun
    BY <1>6, <1>7, <1>8 DEF SoundRun
  <1>10. FinalInv'
    BY <1>1 DEF SafeInv, FinalInv
  <1>11. SaveInv'
    BY <1>2, <1>3, <1>5 DEF SaveInv
  <1> QED
    BY <1>2, <1>9, <1>10, <1>11, SafeGo

LEMMA SafePreflight ==
  ASSUME TypeOK, ShapeInv, SafeInv, PreflightError \/ PreflightRead
  PROVE  SafeInv' /\ Sound
  <1>1. /\ UNCHANGED disk
        /\ UNCHANGED <<history, submits, inflight, applied, status>>
        /\ pc = "preflight"
    BY DEF PreflightError, PreflightRead, chain, net, funds
  <1>2. nextNonce' = nextNonce \/ nextNonce' = nextNonce + 1 => Still
    BY <1>1 DEF Still, Done, TypeOK
  <1>3. CASE nextNonce' = nextNonce /\ \E r : Return(r)
    BY <1>2, <1>3, SafeReturn
  <1>4. CASE nextNonce' = nextNonce /\ UNCHANGED <<pc, mem, left, reply>>
    BY <1>2, <1>4, SafeStay
  <1>5. ASSUME NEW total, nextNonce <= MaxNonce, nextNonce' = nextNonce + 1,
               Save([mem EXCEPT !.phase = "payout_prepared", !.nonce = nextNonce,
                                !.before = total, !.attempts = 1])
        PROVE  SafeInv' /\ Sound
    BY <1>1, <1>2, <1>5, SafeExecute
  <1>6. CASE PreflightError
    BY <1>3, <1>4, <1>6 DEF PreflightError
  <1>7. CASE PreflightRead
    <2>1. \/ nextNonce' = nextNonce /\ \E r : Return(r)
          \/ nextNonce' = nextNonce /\ UNCHANGED <<pc, mem, left, reply>>
          \/ \E total : ExecutePayout(total)
      BY <1>7 DEF PreflightRead
    <2> QED
      BY <1>3, <1>4, <1>5, <2>1 DEF ExecutePayout
  <1> QED
    BY <1>6, <1>7

-----------------------------------------------------------------------------
(* saveActivePhase / saveState                                             *)

LEMMA SafeSave ==
  ASSUME TypeOK, SafeInv, MaxDamage <= 1, SaveState
  PROVE  SafeInv' /\ Sound
  <1> PICK r \in SaveResults(cur, bak, durable, mem) :
        /\ Store(r)
        /\ IF r.result = "err"
           THEN Return(IF mem.phase \in {"payout_replaying", "blocked"}
                       THEN "fatal" ELSE "err")
           ELSE IF left > 1 THEN Go("save", mem, left - 1) ELSE AfterSave
    BY DEF SaveState
  <1>1. /\ pc = "save" /\ mem \in Held /\ damage' = damage /\ submits' = submits
        /\ history' = history /\ left \in 1..2
    BY DEF SaveState, Held, Active, chain, net, SafeInv, SaveInv, TypeOK
  <1>2. DiskFits /\ SaveInv /\ FinalInv /\ mem \in RunState /\ Valid(mem)
        /\ RunOK(mem) /\ NoClash(mem)
    BY <1>1, RunIsValid DEF SafeInv, HeldInv, TypeOK
  <1>3. DiskFits'
    BY <1>1, <1>2, SaveFits DEF SaveInv
  <1>4. Loadable' \subseteq Held /\ (NeverEmpty => NeverEmpty')
    BY <1>1, <1>2, SaveLoadable DEF Held
  <1>5. Calm
    <2>1. Live' = Live /\ Done' = Done /\ nextNonce' = nextNonce /\ nextNonce \in Nat
      BY DEF SaveState, chain, net, funds, Live, Done, TypeOK
    <2> QED
      BY <1>1, <1>4, <2>1 DEF Calm, Tame
  <1>6. CASE r.result = "err"
    BY <1>1, <1>3, <1>5, <1>6, ReturnLeaves, SafeLeave
  <1>7. CASE r.result = "ok"
    <2>1. /\ durable' = {<<cur', bak'>>} /\ cur' = mem
          /\ cur # Missing => Loadable' \subseteq {f \in {mem, cur} : Valid(f)}
      BY <1>1, <1>2, <1>7, SaveSynced
    <2>2. FinalInv'
      BY <1>1, <1>2 DEF FinalInv
    <2>3. ASSUME SoundRun, SaveInv', SubmitInv', AwaitInv', EndInv'
          PROVE  SafeInv' /\ Sound
      BY <1>3, <1>5, <2>2, <2>3, CalmStep DEF SafeInv, Sound
    <2>4. ASSUME mem' = mem
          PROVE  SoundRun
      BY <1>1, <1>5, <2>4, SoundKept
    <2>5. ASSUME mem.phase \in {"payout_replaying", "blocked"}, left = 1
          PROVE  Loadable' \subseteq {mem}
      <3>1. cur \in {mem, Invalid} /\ cur # Missing
        BY <1>1, <1>2, <2>5 DEF SaveInv, OnDisk, Valid
      <3> QED
        BY <2>1, <3>1 DEF Valid
    <2>6. CASE left > 1
      <3>1. pc' = "save" /\ mem' = mem /\ left' = left - 1
        BY <1>7, <2>6 DEF Go
      <3>2. OnDisk'
        BY <2>1, <3>1 DEF OnDisk
      <3>3. SaveInv'
        BY <1>1, <1>2, <2>6, <3>1, <3>2 DEF SaveInv
      <3>4. SubmitInv' /\ AwaitInv' /\ EndInv'
        BY <3>1 DEF SubmitInv, AwaitInv, EndInv
      <3> QED
        BY <2>3, <2>4, <3>1, <3>3, <3>4
    <2>7. CASE left = 1
      <3>1. AfterSave
        BY <1>7, <2>7
      <3>2. CASE /\ mem.phase \in {"prepared", "payout_confirmed"}
                 /\ \E p \in {"complete", "preflight"} : Go(p, mem, 0)
        <4>1. pc' \in {"complete", "preflight"} /\ mem' = mem
          BY <3>2 DEF Go
        <4>2. SaveInv' /\ SubmitInv' /\ AwaitInv' /\ EndInv'
          BY <4>1 DEF SaveInv, SubmitInv, AwaitInv, EndInv
        <4> QED
          BY <2>3, <2>4, <4>1, <4>2
      <3>3. CASE /\ mem.phase = "payout_prepared"
                 /\ Save([mem EXCEPT !.phase = "payout_submitting"])
        <4>1. pc' = "save" /\ left' = 1 /\ mem' = [mem EXCEPT !.phase = "payout_submitting"]
          BY <3>3 DEF Save, Go
        <4>2. /\ mem'.nonce = mem.nonce /\ mem'.batch = mem.batch
              /\ mem'.reason = mem.reason /\ mem'.phase = "payout_submitting"
          BY <1>2, <4>1 DEF RunState
        <4>3. submits[mem.nonce] = 0 /\ mem.reason # "rejected"
          BY <1>1, <1>2, <3>3 DEF SaveInv, RunOK
        <4>4. SoundRun
          BY <1>1, <1>5, <4>2, <4>3, SoundSame
        <4>5. SaveInv'
          BY <1>1, <1>2, <2>1, <3>3, <4>1, <4>2, <4>3 DEF SaveInv, Same
        <4>6. SubmitInv' /\ AwaitInv' /\ EndInv'
          BY <4>1 DEF SubmitInv, AwaitInv, EndInv
        <4> QED
          BY <2>3, <4>4, <4>5, <4>6
      <3>4. CASE /\ mem.phase \in {"payout_submitting", "payout_replaying"}
                 /\ Go("submit", mem, 0)
        <4>1. pc' = "submit" /\ mem' = mem
          BY <3>4 DEF Go
        <4>2. OnDisk'
          BY <2>1, <4>1 DEF OnDisk
        <4>3. ASSUME mem.phase = "payout_submitting"
              PROVE  /\ submits[mem.nonce] = 0
                     /\ \A s \in Loadable' : /\ Same(s, mem)
                                             /\ s.phase \in {"payout_prepared", "payout_submitting"}
          <5>1. cur = Invalid \/ (Valid(cur) /\ Same(cur, mem) /\ cur.phase = "payout_prepared")
            BY <1>1, <1>2, <4>3 DEF SaveInv
          <5>2. Loadable' \subseteq {f \in {mem, cur} : Valid(f)}
            BY <2>1, <5>1 DEF Valid
          <5> QED
            BY <1>1, <1>2, <4>3, <5>1, <5>2 DEF SaveInv, Same, Valid
        <4>4. SubmitInv'
          BY <1>1, <1>2, <2>5, <2>7, <3>4, <4>1, <4>2, <4>3 DEF SubmitInv, SaveInv, Same
        <4>5. SaveInv' /\ AwaitInv' /\ EndInv'
          BY <4>1 DEF SaveInv, AwaitInv, EndInv
        <4> QED
          BY <2>3, <2>4, <4>1, <4>4, <4>5
      <3>5. CASE mem.phase \in {"completed", "blocked"} /\ Go("archive", mem, 0)
        <4>1. pc' = "archive" /\ mem' = mem
          BY <3>5 DEF Go
        <4>2. EndInv'
          BY <2>1, <2>5, <2>7, <4>1 DEF EndInv, OnDisk
        <4>3. SaveInv' /\ SubmitInv' /\ AwaitInv'
          BY <4>1 DEF SaveInv, SubmitInv, AwaitInv
        <4> QED
          BY <2>3, <2>4, <4>1, <4>2, <4>3
      <3> QED
        BY <3>1, <3>2, <3>3, <3>4, <3>5 DEF AfterSave
    <2> QED
      BY <1>1, <2>6, <2>7
  <1> QED
    BY <1>6, <1>7 DEF SaveResults, Outcome, Synced

-----------------------------------------------------------------------------
(* submitPayoutAttempt and observeUncertainPayout                          *)

(* The one step that adds a live request.  Whatever a restart can load is  *)
(* the same payout, so the request clashes with nothing.                   *)
LEMMA SafeSubmit ==
  ASSUME TypeOK, ShapeInv, SafeInv, Submit
  PROVE  SafeInv'
  <1> PICK n, B : n = mem.nonce /\ B = mem.batch
    OBVIOUS
  <1> DEFINE q0 == [nonce |-> n, batch |-> B]
  <1>1. /\ pc = "submit" /\ pc' = "await" /\ mem' = mem /\ reply' = "none"
        /\ submits' = [submits EXCEPT ![n] = submits[n] + 1]
        /\ inflight' = inflight \cup {[nonce |-> n, batch |-> B, try |-> submits[n] + 1]}
        /\ UNCHANGED disk /\ UNCHANGED <<history, status, nextNonce, applied>>
    BY DEF Submit, Go, funds
  <1>2. mem \in RunState /\ mem \in Held /\ RunOK(mem) /\ NoClash(mem)
        /\ mem.phase \in {"payout_submitting", "payout_replaying"} /\ mem.reason # "rejected"
    BY <1>1 DEF TypeOK, ShapeInv, Fits, Held, Active, SafeInv, HeldInv, RunOK
  <1>3. n \in 1..MaxNonce /\ submits[n] \in Nat /\ n < nextNonce
    <2>1. n # 0
      BY <1>2 DEF ShapeInv, Runs, RunShape
    <2>2. n \in 1..MaxNonce /\ n < nextNonce
      BY <1>2, <2>1 DEF RunState, RunOK
    <2> QED
      BY <2>2 DEF TypeOK
  <1>4. /\ OnDisk /\ submits[n] <= 1
        /\ mem.phase = "payout_submitting" => submits[n] = 0
        /\ \A s \in Loadable :
             /\ Same(s, mem)
             /\ s.phase \in {"payout_prepared", "payout_submitting"} => submits[n] = 0
             /\ s.phase # "blocked"
    BY <1>1, <1>2 DEF SafeInv, SubmitInv, Same
  <1>5. \A s \in Held :
          /\ Same(s, mem) /\ s.reason # "rejected"
          /\ s.phase \in {"payout_prepared", "payout_submitting"} => submits[n] = 0
    BY <1>2, <1>4 DEF Held, Same, SafeInv, HeldInv, RunOK
  <1>6. Live' = Live \cup {q0}
    <2>1. RequestOf([nonce |-> n, batch |-> B, try |-> submits[n] + 1]) = q0
      BY DEF RequestOf
    <2> QED
      BY <1>1, <2>1 DEF Live
  <1>7. /\ Loadable' = Loadable /\ (NeverEmpty <=> NeverEmpty')
        /\ cur' = cur /\ bak' = bak /\ durable' = durable
        /\ Held' = Held /\ Done' = Done
    <2>1. Loadable' = Loadable /\ (NeverEmpty <=> NeverEmpty')
      BY <1>1, SameDisk
    <2>2. Active /\ Active'
      BY <1>1 DEF Active
    <2> QED
      BY <1>1, <2>1, <2>2 DEF disk, files, Held, Done
  <1>8. submits'[n] = submits[n] + 1 /\ \A m \in 1..MaxNonce : m # n => submits'[m] = submits[m]
    BY <1>1, <1>3 DEF TypeOK
  <1>9. HeldInv'
    <2> SUFFICES ASSUME NEW s \in Held PROVE RunOK(s)' /\ NoClash(s)'
      BY <1>7 DEF HeldInv
    <2>1. RunOK(s) /\ NoClash(s) /\ Same(s, mem) /\ s.reason # "rejected"
      BY <1>5 DEF SafeInv, HeldInv
    <2>2. RunOK(s)'
      BY <1>1, <1>3, <1>5, <1>7, <1>8, <2>1 DEF RunOK, Same
    <2>3. Compatible(s, q0)
      BY <2>1 DEF Compatible, Same
    <2>4. NoClash(s)'
      BY <1>1, <1>6, <2>1, <2>3 DEF NoClash, Compatible
    <2> QED
      BY <2>2, <2>4
  <1>10. CountInv'
    <2>1. \A m \in 1..MaxNonce : m >= nextNonce' => submits'[m] = 0
      BY <1>1, <1>3, <1>8 DEF SafeInv, CountInv, TypeOK
    <2>2. ASSUME NEW q \in Live' PROVE submits'[q.nonce] > 0
      <3>1. CASE q = q0
        BY <1>3, <1>8, <3>1
      <3>2. CASE q \in Live
        <4>1. q.nonce \in 1..MaxNonce /\ submits[q.nonce] > 0
          BY <3>2, LiveRequests DEF Request, SafeInv, CountInv
        <4> QED
          BY <1>3, <1>8, <4>1
      <3> QED
        BY <1>6, <3>1, <3>2
    <2>3. NoThirdSubmit'
      BY <1>3, <1>4, <1>8 DEF SafeInv, CountInv, NoThirdSubmit
    <2> QED
      BY <1>1, <2>1, <2>2, <2>3 DEF SafeInv, CountInv
  <1>11. LiveInv'
    <2>1. \A q \in Live : Compatible(mem, q)
      BY <1>2 DEF NoClash
    <2>2. \A q \in Live : Compatible(q0, q) /\ Compatible(q, q0)
      BY <2>1 DEF Compatible
    <2>3. \A p, q \in Live' : Compatible(p, q)
      BY <1>6, <2>2 DEF SafeInv, LiveInv, Compatible
    <2>4. \A h \in history : h.result = "rejected" => h.nonce # n
      BY <1>2 DEF NoClash
    <2>5. RejectedIsUnpaid'
      BY <1>1, <1>6, <2>4 DEF SafeInv, LiveInv, RejectedIsUnpaid
    <2> QED
      BY <2>3, <2>5 DEF LiveInv, Compatible
  <1>12. DiskFits'
    <2>1. durable = {<<cur, bak>>} /\ cur \in {mem, Invalid}
      BY <1>4 DEF OnDisk
    <2>2. ~(Valid(cur) /\ cur.phase = "payout_prepared")
      BY <1>2, <2>1 DEF Valid
    <2> QED
      BY <1>1, <1>7, <2>1, <2>2 DEF SafeInv, DiskFits, PowerMayFail, disk
  <1>13. OwnerInv'
    <2>1. NeverEmpty'
      BY <1>2, <1>4, <1>7, RunIsValid DEF OnDisk, NeverEmpty, LoadsNothing
    <2>2. Owned(n)'
      BY <1>5, <1>7, <2>1 DEF Owned, Same
    <2>3. ASSUME NEW m \in 1..MaxNonce, Owned(m) PROVE m = n
      BY <1>2, <2>3 DEF Owned
    <2>4. ASSUME NEW m \in 1..MaxNonce, submits'[m] > 0
          PROVE  Accounted(m)' \/ Owned(m)'
      BY <1>1, <1>8, <2>2, <2>3, <2>4 DEF SafeInv, OwnerInv, Accounted
    <2>5. ASSUME NEW q \in Live'
          PROVE  q.batch \subseteq Done' \/ Owned(q.nonce)'
      <3>1. CASE q = q0
        BY <2>2, <3>1
      <3>2. CASE q \in Live
        <4>1. q.nonce \in 1..MaxNonce
          BY <3>2, LiveRequests DEF Request
        <4> QED
          BY <1>7, <2>2, <2>3, <3>2, <4>1 DEF SafeInv, OwnerInv
      <3> QED
        BY <1>6, <3>1, <3>2
    <2> QED
      BY <2>4, <2>5 DEF OwnerInv
  <1>14. SaveInv' /\ SubmitInv' /\ EndInv' /\ FinalInv'
    BY <1>1 DEF SaveInv, SubmitInv, EndInv, FinalInv, SafeInv
  <1>15. AwaitInv'
    <2> SUFFICES ASSUME mem.phase = "payout_submitting"
                 PROVE  /\ submits'[n] = 1
                        /\ \A c \in inflight' : c.nonce = n => c.try = 1
                        /\ ~Spent(n)'
      BY <1>1 DEF AwaitInv, Spent
    <2>1. submits[n] = 0
      BY <1>4
    <2>2. ASSUME NEW q \in Live PROVE q.nonce # n
      BY <2>1 DEF SafeInv, CountInv
    <2>3. ASSUME NEW c \in inflight PROVE c.nonce # n
      <3>1. RequestOf(c) \in Live /\ RequestOf(c).nonce = c.nonce
        BY DEF Live, RequestOf
      <3> QED
        BY <2>2, <3>1
    <2>4. ~Spent(n)'
      BY <1>1, <2>2 DEF Spent, Live
    <2> QED
      BY <1>1, <1>8, <2>1, <2>3, <2>4
  <1> QED
    BY <1>9, <1>10, <1>11, <1>12, <1>13, <1>14, <1>15 DEF SafeInv

(* A verdict that is not a rejection goes on with the same payout.         *)
LEMMA SafeVerdict ==
  ASSUME TypeOK, ShapeInv, SafeInv, Still, pc \in {"await", "observe"},
         \/ Confirm
         \/ Block("uncertain")
         \/ mem.phase \in {"payout_prepared", "payout_submitting"} /\ Replay
  PROVE  SafeInv' /\ Sound
  <1>1. mem \in RunState /\ mem \in Held /\ RunOK(mem) /\ mem.phase # "blocked"
        /\ history' = history /\ submits' = submits
    BY DEF TypeOK, ShapeInv, Fits, Held, Active, SafeInv, HeldInv, Still
  <1>2. \/ mem' = [mem EXCEPT !.phase = "payout_confirmed", !.reason = "none"] /\ left' = 1
        \/ mem' = [mem EXCEPT !.phase = "blocked", !.reason = "uncertain"] /\ left' = 2
        \/ /\ mem' = [mem EXCEPT !.phase = "payout_replaying", !.attempts = 2, !.reason = "none"]
           /\ left' = 2 /\ mem.phase \in {"payout_prepared", "payout_submitting"}
    BY DEF Confirm, Block, Replay, Save, SaveTwice, Go
  <1>3. /\ mem'.nonce = mem.nonce /\ mem'.batch = mem.batch
        /\ mem'.reason \in {"none", "uncertain"}
        /\ \/ mem'.phase = "payout_confirmed" /\ left' = 1
           \/ mem'.phase = "blocked" /\ left' = 2
           \/ mem'.phase = "payout_replaying" /\ left' = 2 /\ submits[mem.nonce] <= 1
    BY <1>1, <1>2 DEF RunState, RunOK
  <1>4. pc' = "save"
    BY DEF Confirm, Block, Replay, Save, SaveTwice, Go
  <1>5. mem.reason # "rejected" /\ Calm
    BY <1>1, StillStep DEF RunOK
  <1>6. SoundRun
    BY <1>1, <1>3, <1>5, SoundSame
  <1>7. SaveInv'
    BY <1>1, <1>3 DEF SaveInv
  <1>8. FinalInv'
    BY <1>1 DEF SafeInv, FinalInv
  <1> QED
    BY <1>4, <1>6, <1>7, <1>8, SafeGo

(* A rejected first submission is dead: its only copy was answered.        *)
LEMMA SafeRejected ==
  ASSUME TypeOK, ShapeInv, SafeInv, SubmitRejected
  PROVE  SafeInv' /\ Sound
  <1>1. Still /\ history' = history /\ submits' = submits /\ Live' = Live
    BY UnchangedIsStill DEF SubmitRejected, chain, net, funds, Live
  <1>2. /\ pc = "await" /\ reply = "rejected" /\ mem.phase = "payout_submitting"
        /\ mem \in RunState /\ mem \in Held /\ RunOK(mem) /\ NoClash(mem)
    BY DEF SubmitRejected, TypeOK, ShapeInv, Fits, Held, Active, SafeInv, HeldInv
  <1>3. pc' = "save" /\ left' = 2
        /\ mem' = [mem EXCEPT !.phase = "blocked", !.reason = "rejected"]
    BY DEF SubmitRejected, Block, SaveTwice, Go
  <1>4. /\ mem'.nonce = mem.nonce /\ mem'.batch = mem.batch
        /\ mem'.reason = "rejected" /\ mem'.phase = "blocked"
    BY <1>2, <1>3 DEF RunState
  <1>5. ASSUME NEW q \in Live PROVE q.nonce # mem.nonce
    <2>1. CASE q \in applied
      BY <1>2, <2>1 DEF SafeInv, AwaitInv, Spent
    <2>2. ASSUME NEW c \in inflight, q = RequestOf(c) PROVE q.nonce # mem.nonce
      BY <1>2, <2>2 DEF SafeInv, AwaitInv, RequestOf
    <2> QED
      BY <2>1, <2>2 DEF Live
  <1>6. Calm
    BY <1>1, StillStep
  <1>7. RunOK(mem)' /\ NoClash(mem)'
    <2>1. RunOK(mem)'
      BY <1>2, <1>4, <1>6 DEF RunOK, Calm, Tame, TypeOK, RunState
    <2>2. \A q \in Live' : Compatible(mem', q)
      BY <1>1, <1>2, <1>4 DEF NoClash, Compatible
    <2> QED
      BY <1>1, <1>4, <1>5, <2>1, <2>2 DEF NoClash, Compatible
  <1>8. SoundRun
    BY <1>2, <1>4, <1>7 DEF SoundRun, Owned
  <1>9. SaveInv'
    BY <1>3, <1>4 DEF SaveInv
  <1>10. FinalInv'
    BY <1>1, <1>2 DEF SafeInv, FinalInv
  <1> QED
    BY <1>1, <1>3, <1>8, <1>9, <1>10, SafeGo

LEMMA SafeAwait ==
  ASSUME TypeOK, ShapeInv, SafeInv, SubmitAccepted \/ SubmitUncertain
  PROVE  SafeInv' /\ Sound
  <1>1. Still /\ pc = "await" /\ history' = history
    BY UnchangedIsStill DEF SubmitAccepted, SubmitUncertain, chain, net, funds
  <1>2. CASE SubmitAccepted
    BY <1>1, <1>2, SafeVerdict DEF SubmitAccepted
  <1>3. CASE SubmitUncertain
    <2>1. pc' = "observe" /\ mem' = mem /\ mem \in Held
      BY <1>1, <1>3 DEF SubmitUncertain, Go, Held, Active
    <2>2. SoundRun
      BY <1>1, <2>1, StillStep, SoundKept
    <2>3. SaveInv' /\ FinalInv'
      BY <1>1, <2>1 DEF SaveInv, SafeInv, FinalInv
    <2> QED
      BY <1>1, <2>1, <2>2, <2>3, SafeGo
  <1> QED
    BY <1>2, <1>3

LEMMA SafeObserve ==
  ASSUME TypeOK, ShapeInv, SafeInv, ObserveError \/ ObserveRead
  PROVE  SafeInv' /\ Sound
  <1>1. Still /\ pc = "observe"
    BY UnchangedIsStill DEF ObserveError, ObserveRead, chain, net, funds
  <1>2. PICK o : Observed(o)
    BY DEF ObserveError, ObserveRead
  <1>3. CASE Confirm \/ Block("uncertain") \/ (ReplayAllowed(o) /\ Replay)
    BY <1>1, <1>3, SafeVerdict DEF ReplayAllowed
  <1>4. CASE UNCHANGED <<pc, trigger, mem, left, pre, reply>>
    BY <1>1, <1>4, SafeStay
  <1> QED
    BY <1>2, <1>3, <1>4 DEF Observed

-----------------------------------------------------------------------------
(* completeDatabase and the end of a run                                   *)

LEMMA MarkDoneGrows ==
  ASSUME TypeOK, NEW B \in SUBSET Records, status' = MarkDone(B)
  PROVE  Done' = Done \cup B
  BY DEF MarkDone, Done, TypeOK

LEMMA SafeComplete ==
  ASSUME TypeOK, ShapeInv, SafeInv, CompleteDatabase \/ CompleteError
  PROVE  SafeInv' /\ Sound
  <1>1. /\ pc = "complete" /\ mem \in RunState /\ mem \in Held /\ RunOK(mem)
        /\ mem.phase # "blocked" /\ mem.batch \in SUBSET Records /\ history' = history
    BY DEF CompleteDatabase, CompleteError, TypeOK, ShapeInv, Fits, Held, Active, SafeInv,
           HeldInv, RunState
  <1>2. status' = status \/ status' = MarkDone(mem.batch)
    BY DEF CompleteDatabase, CompleteError
  <1>3. Done \subseteq Done'
    <2>1. CASE status' = status
      BY <2>1 DEF Done
    <2>2. CASE status' = MarkDone(mem.batch)
      BY <1>1, <2>2, MarkDoneGrows
    <2> QED
      BY <1>2, <2>1, <2>2
  <1>4. Still
    <2>1. /\ UNCHANGED disk /\ UNCHANGED <<history, submits, inflight, applied>>
          /\ nextNonce' = nextNonce
      BY DEF CompleteDatabase, CompleteError, chain, net, funds
    <2> QED
      BY <1>3, <2>1 DEF Still, TypeOK
  <1>5. CASE CompleteError
    BY <1>4, <1>5, SafeReturn DEF CompleteError
  <1>6. CASE CompleteDatabase
    <2>1. pc' = "save" /\ left' = 1 /\ mem' = [mem EXCEPT !.phase = "completed"]
          /\ status' = MarkDone(mem.batch)
      BY <1>6 DEF CompleteDatabase, Save, Go
    <2>2. /\ mem'.nonce = mem.nonce /\ mem'.batch = mem.batch
          /\ mem'.reason = mem.reason /\ mem'.phase = "completed"
      BY <1>1, <2>1 DEF RunState
    <2>3. mem.batch \subseteq Done'
      BY <1>1, <2>1, MarkDoneGrows
    <2>4. mem.reason # "rejected" /\ Calm
      BY <1>1, <1>4, StillStep DEF RunOK
    <2>5. SoundRun
      BY <1>1, <2>2, <2>3, <2>4, SoundSame
    <2>6. SaveInv' /\ FinalInv'
      BY <1>1, <2>1, <2>2 DEF SaveInv, SafeInv, FinalInv
    <2> QED
      BY <1>4, <2>1, <2>5, <2>6, SafeGo
  <1> QED
    BY <1>5, <1>6

(* Archiving a true verdict is calm.                                       *)
LEMMA ArchiveCalm ==
  ASSUME TypeOK, SafeInv, NEW h, TrueVerdict(h), history' = history \cup {h},
         UNCHANGED <<disk, status, nextNonce, net, applied>>
  PROVE  /\ Calm /\ DiskFits' /\ Loadable' = Loadable
         /\ NeverEmpty <=> NeverEmpty'
         /\ cur' = cur /\ bak' = bak /\ durable' = durable
  <1>1. Loadable' = Loadable /\ (NeverEmpty <=> NeverEmpty') /\ Loadable \subseteq Held
    BY SameDisk DEF Held
  <1>2. Live' = Live /\ Done' = Done /\ submits' = submits /\ nextNonce \in Nat
    BY DEF Live, Done, net, TypeOK
  <1>3. DiskFits' /\ cur' = cur /\ bak' = bak /\ durable' = durable
    BY <1>2, SameDiskFits DEF SafeInv, disk, files
  <1> QED
    BY <1>1, <1>2, <1>3 DEF Calm, Tame

LEMMA SafeListInvalid ==
  ASSUME TypeOK, SafeInv, ListInvalid
  PROVE  SafeInv' /\ Sound
  <1> DEFINE h == Archived(NewRun(Pending), "failed_validation")
  <1>1. /\ pc = "list" /\ UNCHANGED <<disk, status, nextNonce, net, applied>>
        /\ pc' \in {"down", "idle"}
    BY ReturnLeaves DEF ListInvalid, chain, net, funds
  <1>2. h.nonce = 0 /\ h.result = "failed_validation"
    BY NewRunFields DEF Archived
  <1> HIDE DEF h
  <1>3. CASE history' = history
    BY <1>1, <1>3, UnchangedIsStill, SafeReturn DEF ListInvalid
  <1>4. CASE history' = history \cup {h}
    <2>1. TrueVerdict(h)
      BY <1>2 DEF TrueVerdict, TypeOK
    <2>2. Calm /\ DiskFits'
      BY <1>1, <1>4, <2>1, ArchiveCalm
    <2>3. SoundRun
      BY <1>1 DEF SoundRun, Active
    <2>4. HeldInv' /\ CountInv' /\ LiveInv' /\ OwnerInv'
      BY <2>2, <2>3, CalmStep
    <2>5. SaveInv' /\ SubmitInv' /\ AwaitInv' /\ EndInv'
      BY <1>1 DEF SaveInv, SubmitInv, AwaitInv, EndInv
    <2>6. FinalInv'
      BY <1>1, <1>2, <1>4 DEF SafeInv, FinalInv
    <2> QED
      BY <2>2, <2>3, <2>4, <2>5, <2>6 DEF SafeInv, Sound
  <1> QED
    BY <1>3, <1>4 DEF ListInvalid, h

LEMMA SafeArchive ==
  ASSUME TypeOK, ShapeInv, SafeInv, Archive \/ ArchiveError
  PROVE  SafeInv' /\ Sound
  <1> DEFINE h == Archived(mem, RunResult(mem))
  <1>1. /\ pc = "archive" /\ UNCHANGED <<disk, status, nextNonce, net, applied>>
        /\ mem \in RunState /\ mem \in Held /\ RunOK(mem) /\ NoClash(mem)
        /\ mem.phase \in {"completed", "blocked"} /\ RunShape(mem)
    BY DEF Archive, ArchiveError, chain, net, funds, TypeOK, ShapeInv, Fits, Held, Active,
           SafeInv, HeldInv, Runs
  <1>2. \/ pc' \in {"down", "idle"} /\ history' \in {history, history \cup {h}}
        \/ /\ pc' = "clear" /\ mem' = mem /\ RunResult(mem) # "blocked"
           /\ history' = history \cup {h}
    BY ReturnLeaves DEF Archive, ArchiveError, Go
  <1>4. h.nonce = mem.nonce /\ h.result = RunResult(mem)
    BY DEF Archived
  <1>5. mem.phase = "blocked" => OnDisk /\ Loadable \subseteq {mem} /\ Held = {mem}
    BY <1>1 DEF SafeInv, EndInv, Held
  <1>6. TrueVerdict(h)
    <2>1. mem.nonce \in Nat /\ mem.nonce < nextNonce
      BY <1>1 DEF RunState, RunOK
    <2>2. ASSUME h.result = "rejected"
          PROVE  /\ mem.reason = "rejected" /\ mem.nonce # 0 /\ Held = {mem}
                 /\ \A q \in Live : q.nonce # mem.nonce
      <3>1. mem.reason = "rejected" /\ mem.phase = "blocked"
        BY <1>1, <1>4, <2>2 DEF RunResult
      <3> QED
        BY <1>1, <1>5, <3>1 DEF RunShape, NoClash
    <2> HIDE DEF h
    <2> QED
      BY <1>4, <2>1, <2>2 DEF TrueVerdict
  <1> HIDE DEF h
  <1>7. CASE history' = history /\ pc' \in {"down", "idle"}
    BY <1>1, <1>7, UnchangedIsStill, StillStep, SafeLeave
  <1>8. CASE history' = history \cup {h}
    <2>1. /\ Calm /\ DiskFits' /\ Loadable' = Loadable
          /\ NeverEmpty <=> NeverEmpty'
          /\ cur' = cur /\ bak' = bak /\ durable' = durable
      BY <1>1, <1>6, <1>8, ArchiveCalm
    <2>2. Active' => mem' \in Held
      BY <1>1, <1>2 DEF Active
    <2>3. SoundRun
      BY <2>1, <2>2, SoundKept
    <2>4. HeldInv' /\ CountInv' /\ LiveInv' /\ OwnerInv'
      BY <2>1, <2>3, CalmStep
    <2>5. SaveInv' /\ SubmitInv' /\ AwaitInv'
      BY <1>2 DEF SaveInv, SubmitInv, AwaitInv
    <2>6. EndInv'
      <3>1. CASE pc' \in {"down", "idle"}
        BY <3>1 DEF EndInv
      <3>2. CASE pc' = "clear" /\ mem' = mem
        <4>1. Archived(mem, RunResult(mem))' = h
          BY <3>2 DEF Archived, RunResult, h
        <4> QED
          BY <1>5, <1>8, <2>1, <3>2, <4>1 DEF EndInv, OnDisk
      <3> QED
        BY <1>2, <3>1, <3>2
    <2>7. FinalInv'
      <3> SUFFICES ASSUME \E g \in history' : g.result = "blocked"
                   PROVE  /\ pc' \in {"down", "idle", "load"}
                          /\ NeverEmpty'
                          /\ \A s \in Loadable' : s.phase = "blocked"
        BY DEF FinalInv
      <3>1. ~ \E g \in history : g.result = "blocked"
        BY <1>1 DEF SafeInv, FinalInv
      <3>2. RunResult(mem) = "blocked"
        BY <1>4, <1>8, <3>1
      <3>3. mem.phase = "blocked"
        BY <1>1, <3>2 DEF RunResult
      <3>4. NeverEmpty
        BY <1>1, <1>5, <3>3, RunIsValid DEF OnDisk, NeverEmpty, LoadsNothing
      <3> QED
        BY <1>2, <1>5, <2>1, <3>2, <3>3, <3>4
    <2> QED
      BY <2>1, <2>3, <2>4, <2>5, <2>6, <2>7 DEF SafeInv, Sound
  <1> QED
    BY <1>2, <1>7, <1>8

(* Clearing the store forgets nothing: its run is archived with a verdict, *)
(* its records are done or its request is dead.                            *)
LEMMA SafeClear ==
  ASSUME TypeOK, ShapeInv, SafeInv, ClearState
  PROVE  SafeInv'
  <1>1. /\ pc = "clear" /\ pc' \in {"down", "idle"} /\ mem \in Held
        /\ RunOK(mem) /\ NoClash(mem)
        /\ mem.phase = "completed" \/ (mem.phase # "completed" /\ mem.reason = "rejected")
        /\ UNCHANGED <<history, status, nextNonce, net, applied>>
    BY ReturnLeaves DEF ClearState, chain, net, funds, Held, Active, SafeInv, HeldInv,
                        ShapeInv, Fits
  <1>2. PICK r \in ClearResults(cur, bak, durable) :
          Store(r) /\ damage' = IF r.result = "ok" THEN 0 ELSE damage
    BY DEF ClearState
  <1>3. submits' = submits /\ Live' = Live /\ Done' = Done /\ nextNonce \in Nat
    BY <1>1 DEF net, Live, Done, TypeOK
  <1>4. Loadable' \subseteq Loadable /\ DiskFits'
    BY <1>2, <1>3, ClearDisk DEF SafeInv
  <1>5. Tame
    BY <1>1, <1>3, <1>4 DEF Tame, Held
  <1>6. SoundRun
    BY <1>1 DEF SoundRun, Active
  <1>7. HeldInv' /\ CountInv' /\ LiveInv'
    BY <1>5, <1>6, TameStep
  <1>8. OwnerInv'
    <2>1. RunResult(mem) \in {"completed", "rejected"}
      BY <1>1 DEF RunResult
    <2>2. Accounted(mem.nonce)
      BY <1>1, <2>1 DEF SafeInv, EndInv, Archived, Accounted
    <2>3. ASSUME NEW n \in 1..MaxNonce, Owned(n) PROVE n = mem.nonce
      BY <1>1, <2>3 DEF Owned
    <2>4. ASSUME NEW n \in 1..MaxNonce, submits'[n] > 0 PROVE Accounted(n)'
      BY <1>1, <1>3, <2>2, <2>3, <2>4 DEF SafeInv, OwnerInv, Accounted
    <2>5. ASSUME NEW q \in Live PROVE q.batch \subseteq Done
      <3>1. CASE q.nonce = mem.nonce
        BY <1>1, <3>1 DEF NoClash, Compatible, RunOK
      <3>2. CASE q.nonce # mem.nonce
        <4>1. q.nonce \in 1..MaxNonce
          BY LiveRequests DEF Request
        <4> QED
          BY <2>3, <3>2, <4>1 DEF SafeInv, OwnerInv
      <3> QED
        BY <3>1, <3>2
    <2> QED
      BY <1>3, <2>4, <2>5 DEF OwnerInv
  <1>9. SaveInv' /\ SubmitInv' /\ AwaitInv' /\ EndInv'
    BY <1>1 DEF SaveInv, SubmitInv, AwaitInv, EndInv
  <1>10. FinalInv'
    BY <1>1 DEF SafeInv, FinalInv
  <1> QED
    BY <1>4, <1>7, <1>8, <1>9, <1>10 DEF SafeInv

-----------------------------------------------------------------------------
(* The world around the process                                            *)

LEMMA SafeCrash ==
  ASSUME TypeOK, SafeInv, Crash
  PROVE  SafeInv' /\ Sound
  <1>1. Still /\ history' = history /\ pc' = "down"
    BY UnchangedIsStill DEF Crash, Leave, chain, net, funds
  <1> QED
    BY <1>1, StillStep, SafeLeave

LEMMA SafePowerLoss ==
  ASSUME TypeOK, SafeInv, PowerLoss
  PROVE  SafeInv' /\ Sound
  <1>1. /\ pc' = "down" /\ UNCHANGED <<history, status, nextNonce, net, applied>>
    BY DEF PowerLoss, Leave, chain, net, funds
  <1>2. Loadable' \subseteq Loadable /\ (NeverEmpty => NeverEmpty') /\ DiskFits'
    BY PowerLossDisk DEF SafeInv
  <1>3. submits' = submits /\ Live' = Live /\ Done' = Done /\ nextNonce \in Nat
    BY <1>1 DEF net, Live, Done, TypeOK
  <1>4. Calm
    BY <1>1, <1>2, <1>3 DEF Calm, Tame, Held
  <1> QED
    BY <1>1, <1>2, <1>4, SafeLeave

LEMMA SafeCorrupt ==
  ASSUME TypeOK, SafeInv, Corrupt
  PROVE  SafeInv' /\ Sound
  <1>1. /\ UNCHANGED <<history, status, nextNonce, net, applied>>
        /\ UNCHANGED <<pc, mem, left, reply>> /\ ~LoadsNothing(cur, bak)
    BY DEF Corrupt, proc, chain, net, funds, Valid, LoadsNothing
  <1>2. /\ Loadable' \subseteq Loadable /\ NeverEmpty' /\ DiskFits'
        /\ durable' = {<<cur', bak'>>} /\ cur' \in {cur, Invalid}
    BY CorruptDisk DEF SafeInv
  <1>3. submits' = submits /\ Live' = Live /\ Done' = Done /\ nextNonce \in Nat
    BY <1>1 DEF net, Live, Done, TypeOK
  <1>4. Calm
    BY <1>1, <1>2, <1>3 DEF Calm, Tame, Held
  <1>5. Active' => mem' \in Held
    BY <1>1 DEF Active, Held
  <1>6. HeldInv' /\ CountInv' /\ LiveInv' /\ OwnerInv'
    BY <1>4, <1>5, SoundKept, CalmStep
  <1>7. OnDisk => OnDisk'
    BY <1>1, <1>2 DEF OnDisk
  <1>8. SaveInv'
    BY <1>1, <1>2, <1>3, <1>7 DEF SafeInv, SaveInv
  <1>9. SubmitInv'
    BY <1>1, <1>2, <1>3, <1>7 DEF SafeInv, SubmitInv
  <1>10. AwaitInv'
    BY <1>1, <1>3 DEF SafeInv, AwaitInv, Spent, net
  <1>11. EndInv'
    BY <1>1, <1>2, <1>7 DEF SafeInv, EndInv, Archived, RunResult
  <1>12. FinalInv'
    BY <1>1, <1>2, FinalKept DEF SafeInv
  <1> QED
    BY <1>2, <1>4, <1>5, <1>6, <1>8, <1>9, <1>10, <1>11, <1>12, SoundKept DEF SafeInv, Sound

(* A request is executed, refused or lost: fewer are live.                 *)
LEMMA SafeNetwork ==
  ASSUME TypeOK, SafeInv, Live' \subseteq Live, AwaitInv',
         UNCHANGED <<disk, history, status, nextNonce, submits, pc, mem, left>>
  PROVE  SafeInv' /\ Sound
  <1>1. /\ Loadable' = Loadable /\ (NeverEmpty <=> NeverEmpty') /\ Loadable \subseteq Held
        /\ cur' = cur /\ bak' = bak /\ durable' = durable /\ DiskFits'
    BY SameDisk, SameDiskFits DEF Held, disk, files, SafeInv
  <1>2. Done' = Done /\ nextNonce \in Nat
    BY DEF Done, TypeOK
  <1>3. Calm
    BY <1>1, <1>2 DEF Calm, Tame
  <1>4. Active' => mem' \in Held
    BY DEF Active, Held
  <1>5. HeldInv' /\ CountInv' /\ LiveInv' /\ OwnerInv'
    BY <1>3, <1>4, SoundKept, CalmStep
  <1>6. SaveInv' /\ SubmitInv'
    BY <1>1 DEF SafeInv, SaveInv, SubmitInv, OnDisk
  <1>7. EndInv'
    BY <1>1 DEF SafeInv, EndInv, OnDisk, Archived, RunResult
  <1>8. FinalInv'
    BY <1>1, FinalKept DEF SafeInv
  <1> QED
    BY <1>1, <1>3, <1>4, <1>5, <1>6, <1>7, <1>8, SoundKept DEF SafeInv, Sound

(* There is one copy of a first submission that is still waited for.       *)
LEMMA OneCopy ==
  ASSUME TypeOK, SafeInv, pc = "await", mem.phase = "payout_submitting",
         NEW c \in inflight, NEW d \in inflight,
         c.nonce = mem.nonce, d.nonce = mem.nonce
  PROVE  c = d /\ reply = "none" /\ c.try = submits[c.nonce] /\ ~Spent(mem.nonce)
  <1>1. c \in Copy /\ d \in Copy
    BY DEF TypeOK
  <1>2. RequestOf(c) \in Live /\ RequestOf(d) \in Live
    BY DEF Live
  <1>3. c.batch = d.batch
    BY <1>2 DEF SafeInv, LiveInv, Compatible, RequestOf
  <1>4. c.try = 1 /\ d.try = 1 /\ reply = "none" /\ submits[mem.nonce] = 1
    BY DEF SafeInv, AwaitInv
  <1>5. c = d
    BY <1>1, <1>3, <1>4 DEF Copy
  <1> QED
    BY <1>4, <1>5 DEF SafeInv, AwaitInv

LEMMA LiveShrinks ==
  ASSUME NEW c \in inflight, inflight' = inflight \ {c},
         applied' = applied \/ applied' = applied \cup {RequestOf(c)}
  PROVE  Live' \subseteq Live
  BY DEF Live

LEMMA SafeApplies ==
  ASSUME TypeOK, SafeInv, ExchangeApplies
  PROVE  SafeInv' /\ Sound
  <1>1. PICK c \in inflight : /\ inflight' = inflight \ {c}
                              /\ applied' = applied \cup {RequestOf(c)}
                              /\ Answer(c, "accepted")
    BY DEF ExchangeApplies
  <1>2. UNCHANGED <<disk, history, status, nextNonce, submits, pc, mem, left>>
    BY DEF ExchangeApplies
  <1>3. Live' \subseteq Live
    BY <1>1, LiveShrinks
  <1>4. AwaitInv'
    <2> SUFFICES ASSUME pc = "await", mem.phase = "payout_submitting"
                 PROVE  /\ \A d \in inflight' : d.nonce = mem.nonce => d.try = 1 /\ reply' = "none"
                        /\ Spent(mem.nonce)' => reply' = "accepted"
      BY <1>2 DEF SafeInv, AwaitInv, Spent
    <2>1. CASE c.nonce = mem.nonce
      <3>1. reply' = "accepted"
        BY <1>1, <2>1, OneCopy DEF Answer
      <3>2. \A d \in inflight' : d.nonce # mem.nonce
        BY <1>1, <2>1, OneCopy
      <3> QED
        BY <3>1, <3>2
    <2>2. CASE c.nonce # mem.nonce
      <3>1. reply' = reply
        BY <1>1, <2>2 DEF Answer
      <3>2. Spent(mem.nonce)' => Spent(mem.nonce)
        BY <1>1, <1>2, <2>2 DEF Spent, RequestOf
      <3> QED
        BY <1>1, <3>1, <3>2 DEF SafeInv, AwaitInv
    <2> QED
      BY <2>1, <2>2
  <1> QED
    BY <1>2, <1>3, <1>4, SafeNetwork

LEMMA SafeRefuses ==
  ASSUME TypeOK, SafeInv, ExchangeRefuses \/ LoseRequest
  PROVE  SafeInv' /\ Sound
  <1>1. PICK c \in inflight : /\ inflight' = inflight \ {c}
                              /\ reply' # reply => c.nonce = mem.nonce
    BY DEF ExchangeRefuses, LoseRequest, Answer, proc
  <1>2. UNCHANGED <<disk, history, status, nextNonce, submits, applied, pc, mem, left>>
    BY DEF ExchangeRefuses, LoseRequest, funds, proc
  <1>3. Live' \subseteq Live
    BY <1>1, <1>2, LiveShrinks
  <1>4. AwaitInv'
    <2> SUFFICES ASSUME pc = "await", mem.phase = "payout_submitting"
                 PROVE  /\ \A d \in inflight' : d.nonce = mem.nonce => d.try = 1 /\ reply' = "none"
                        /\ Spent(mem.nonce) => reply' = "accepted"
      BY <1>2 DEF SafeInv, AwaitInv, Spent
    <2>1. CASE c.nonce = mem.nonce
      BY <1>1, <2>1, OneCopy
    <2>2. CASE c.nonce # mem.nonce
      BY <1>1, <2>2 DEF SafeInv, AwaitInv
    <2> QED
      BY <2>1, <2>2
  <1> QED
    BY <1>2, <1>3, <1>4, SafeNetwork

LEMMA SafeWorld ==
  ASSUME TypeOK, SafeInv, World
  PROVE  SafeInv' /\ Sound
  <1>1. CASE InsertRecord
    <2>1. Done \subseteq Done'
      BY <1>1 DEF InsertRecord, Done, TypeOK
    <2>2. Still /\ UNCHANGED <<pc, mem, left, reply>>
      BY <1>1, <2>1 DEF InsertRecord, Still, chain, net, funds, proc, TypeOK
    <2> QED
      BY <2>2, SafeStay
  <1>2. CASE Deposit
    BY <1>2, UnchangedIsStill, SafeStay DEF Deposit, proc
  <1> QED
    BY <1>1, <1>2, SafeCrash, SafePowerLoss, SafeCorrupt, SafeApplies, SafeRefuses DEF World

-----------------------------------------------------------------------------
LEMMA InitSafe == Init => SafeInv
  <1> SUFFICES ASSUME Init PROVE SafeInv
    OBVIOUS
  <1>1. /\ durable = {<<Missing, Missing>>} /\ cur = Missing /\ bak = Missing
        /\ history = {} /\ applied = {} /\ inflight = {} /\ pc = "down"
        /\ submits = [n \in 1..MaxNonce |-> 0]
    BY DEF Init
  <1>2. Live = {} /\ Loadable = {} /\ Held = {}
    BY <1>1, LoadableIs DEF Live, CanLoad, Valid, Held, Active
  <1>3. HeldInv /\ LiveInv /\ OwnerInv
    BY <1>1, <1>2 DEF HeldInv, LiveInv, RejectedIsUnpaid, OwnerInv
  <1>4. CountInv
    BY <1>1, <1>2 DEF CountInv, NoThirdSubmit
  <1>5. DiskFits
    BY <1>1 DEF DiskFits, Valid
  <1>6. SaveInv /\ SubmitInv /\ AwaitInv /\ EndInv /\ FinalInv
    BY <1>1 DEF SaveInv, SubmitInv, AwaitInv, EndInv, FinalInv
  <1> QED
    BY <1>3, <1>4, <1>5, <1>6 DEF SafeInv

LEMMA StepIsSound ==
  ASSUME MaxDamage <= 1, TypeOK, ShapeInv, SafeInv, [Next]_vars
  PROVE  SafeInv' /\ (Sound \/ Submit \/ ClearState)
  <1>1. CASE UNCHANGED vars
    BY <1>1, UnchangedIsStill, SafeStay DEF vars, chain, funds, proc
  <1>2. CASE ListError \/ ListNoData
    BY <1>2, UnchangedIsStill, SafeReturn DEF ListError, ListNoData, chain, funds
  <1>3. CASE Process
    BY <1>2, <1>3, SafeLoad, SafeRecover, SafeListInvalid, SafeListPending, SafeSave,
       SafePreflight, SafeSubmit, SafeRejected, SafeAwait, SafeObserve, SafeComplete,
       SafeArchive, SafeClear
    DEF Process
  <1> QED
    BY <1>1, <1>3, SafeStart, SafeWorld DEF Next

LEMMA SafeStep ==
  ASSUME MaxDamage <= 1
  PROVE  TypeOK /\ ShapeInv /\ SafeInv /\ [Next]_vars => SafeInv'
  BY StepIsSound

LEMMA SafeAlways == ASSUME MaxDamage <= 1 PROVE Spec => [](TypeOK /\ SafeInv)
  BY InitSafe, SafeStep, ShapeCorrect, PTL DEF Spec

(* Two executed requests share no record: no funding record is ever paid   *)
(* twice, through any sequence of crashes, restarts, power losses, lost or *)
(* late requests, and one damaged snapshot.                                *)
THEOREM NeverPaidTwice == ASSUME MaxDamage <= 1 PROVE Spec => []NoDoublePay
  <1>1. TypeOK /\ SafeInv => NoDoublePay
    <2> SUFFICES ASSUME TypeOK, SafeInv, NEW p \in applied, NEW q \in applied, p # q
                 PROVE  p.batch \cap q.batch = {}
      BY DEF NoDoublePay
    <2>1. p \in Request /\ q \in Request /\ Compatible(p, q)
      BY DEF TypeOK, SafeInv, LiveInv, Live
    <2> QED
      BY <2>1 DEF Compatible, Request
  <1> QED
    BY <1>1, SafeAlways, PTL

(* No signed request leaves the process a third time.                      *)
THEOREM NeverSentThrice == ASSUME MaxDamage <= 1 PROVE Spec => []NoThirdSubmit
  <1>1. SafeInv => NoThirdSubmit
    BY DEF SafeInv, CountInv
  <1> QED
    BY <1>1, SafeAlways, PTL

(* An empty store leaves no live request without its records done and no   *)
(* submitted nonce without a verdict in the archive.                       *)
THEOREM NeverForgotten == ASSUME MaxDamage <= 1 PROVE Spec => []NothingForgotten
  <1>1. SafeInv => NothingForgotten
    <2> SUFFICES ASSUME SafeInv, LoadsNothing(cur, bak)
                 PROVE  /\ \A q \in Live : q.batch \subseteq Done
                        /\ \A n \in 1..MaxNonce : submits[n] > 0 => Accounted(n)
      BY DEF NothingForgotten, Accounted
    <2>1. ~NeverEmpty
      BY DEF SafeInv, DiskFits, NeverEmpty
    <2> QED
      BY <2>1 DEF SafeInv, OwnerInv, Owned
  <1> QED
    BY <1>1, SafeAlways, PTL

(* A run archived as rejected never moved money and never will.            *)
THEOREM RejectionIsTrue == ASSUME MaxDamage <= 1 PROVE Spec => []RejectedIsUnpaid
  <1>1. SafeInv => RejectedIsUnpaid
    BY DEF SafeInv, LiveInv
  <1> QED
    BY <1>1, SafeAlways, PTL

(* Once a run is archived as blocked nothing is submitted any more.        *)
THEOREM BlockedForGood == ASSUME MaxDamage <= 1 PROVE Spec => BlockedIsFinal
  <1>1. SafeInv /\ [Next]_vars =>
          [(\E h \in history : h.result = "blocked") => UNCHANGED submits]_vars
    <2> SUFFICES ASSUME SafeInv, Next, \E h \in history : h.result = "blocked"
                 PROVE  submits' = submits
      BY DEF vars, chain, net
    <2>1. pc # "submit"
      BY DEF SafeInv, FinalInv
    <2>2. ~Submit
      BY <2>1 DEF Submit
    <2> QED
      BY <2>2
      DEF Next, Process, World, Boot, Tick, LoadNothing, LoadError, RecoverState, ListError,
          ListNoData, ListInvalid, ListPending, SaveState, PreflightError, PreflightRead,
          SubmitAccepted, SubmitRejected, SubmitUncertain, ObserveError, ObserveRead,
          CompleteDatabase, CompleteError, Archive, ArchiveError, ClearState, Crash, PowerLoss,
          Corrupt, InsertRecord, Deposit, ExchangeApplies, ExchangeRefuses, LoseRequest,
          chain, net
  <1> QED
    BY <1>1, SafeAlways, PTL DEF Spec, BlockedIsFinal

-----------------------------------------------------------------------------
(* A confirmed payout was executed, when the balance index is truthful:    *)
(* the baseline is fresh and no later read is older than an earlier one.   *)

(* Which steps change what.                                                *)
LEMMA StepChanges ==
  ASSUME [Next]_vars
  PROVE  /\ UNCHANGED disk \/ SaveState \/ ClearState \/ Corrupt \/ PowerLoss
         /\ \/ UNCHANGED <<applied, ledger, seen>>
            \/ PreflightRead \/ ObserveRead \/ Deposit \/ ExchangeApplies
         /\ UNCHANGED status \/ CompleteDatabase \/ CompleteError \/ InsertRecord
         /\ UNCHANGED inflight \/ Submit \/ ExchangeApplies \/ ExchangeRefuses \/ LoseRequest
  BY DEF Next, Process, World, Boot, Tick, LoadNothing, LoadError, RecoverState, ListError,
         ListNoData, ListInvalid, ListPending, SaveState, PreflightError, PreflightRead, Submit,
         SubmitAccepted, SubmitRejected, SubmitUncertain, ObserveError, ObserveRead,
         CompleteDatabase, CompleteError, Archive, ArchiveError, ClearState, Crash, PowerLoss,
         Corrupt, InsertRecord, Deposit, ExchangeApplies, ExchangeRefuses, LoseRequest,
         vars, chain, net, funds

LEMMA SpentGrows == ASSUME [Next]_vars, NEW n, Spent(n) PROVE Spent(n)'
  <1>1. applied \subseteq applied'
    BY StepChanges
    DEF PreflightRead, ObserveRead, Deposit, ExchangeApplies, funds
  <1> QED
    BY <1>1 DEF Spent

LEMMA OwnedKept ==
  ASSUME Sound, NEW n \in 1..MaxNonce, Owned(n)
  PROVE  Owned(n)'
  BY DEF Sound, Owned, Tame, Calm, SoundRun, Held

(* Whatever a step may leave on disk was there before or was in memory.    *)
LEMMA StepFiles ==
  ASSUME TypeOK, DiskFits, [Next]_vars, NEW p \in durable'
  PROVE  {p[1], p[2]} \subseteq
           {Missing, Invalid, mem} \cup UNION {{q[1], q[2]} : q \in durable}
  <1> DEFINE S == {Missing, Invalid, mem} \cup UNION {{q[1], q[2]} : q \in durable}
  <1>1. <<cur, bak>> \in durable /\ durable \subseteq File \X File
    BY DEF DiskFits, TypeOK
  <1>2. cur \in S /\ bak \in S /\ mem \in S /\ Missing \in S /\ Invalid \in S
    <2>1. <<cur, bak>>[1] = cur /\ <<cur, bak>>[2] = bak
      OBVIOUS
    <2> QED
      BY <1>1, <2>1
  <1>3. durable \in SUBSET (S \X S)
    <2> SUFFICES ASSUME NEW q \in durable PROVE q \in S \X S
      OBVIOUS
    <2>1. q = <<q[1], q[2]>>
      BY <1>1
    <2>2. q[1] \in S /\ q[2] \in S
      OBVIOUS
    <2> HIDE DEF S
    <2> QED
      BY <2>1, <2>2
  <1> HIDE DEF S
  <1>4. durable' \subseteq S \X S
    <2>1. CASE UNCHANGED disk
      BY <1>3, <2>1 DEF disk, files
    <2>2. CASE SaveState
      <3>1. PICK r \in SaveResults(cur, bak, durable, mem) : Store(r)
        BY <2>2 DEF SaveState
      <3>2. r.cur \in S /\ r.bak \in S /\ r.durable \subseteq S \X S
        BY <1>2, <1>3, SaveFiles
      <3> QED
        BY <3>1, <3>2 DEF Store
    <2>3. CASE ClearState
      <3>1. PICK r \in ClearResults(cur, bak, durable) : Store(r)
        BY <2>3 DEF ClearState
      <3>2. r.cur \in S /\ r.bak \in S /\ r.durable \subseteq S \X S
        BY <1>2, <1>3, ClearFiles
      <3> QED
        BY <3>1, <3>2 DEF Store
    <2>4. CASE Corrupt
      BY <1>2, <2>4 DEF Corrupt
    <2>5. CASE PowerLoss
      BY <1>3, <2>5 DEF PowerLoss
    <2> QED
      BY <2>1, <2>2, <2>3, <2>4, <2>5, StepChanges
  <1> QED
    BY <1>4 DEF S

(* How a step goes on with run s.                                          *)
Continues(s) ==
  /\ mem'.nonce = s.nonce /\ mem'.batch = s.batch /\ mem'.before = s.before
  /\ s.phase = "blocked" => mem'.phase = "blocked"
  /\ mem'.phase \in {"payout_confirmed", "completed"} /\ mem'.nonce # 0 =>
       \/ s.phase \in {"payout_confirmed", "completed"}
       \/ SubmitAccepted
       \/ ObserveRead /\ mem'.phase = "payout_confirmed"

LEMMA SameContinues == ASSUME mem' = mem PROVE Continues(mem)
  BY DEF Continues

(* The run of a running process is the one it had, the one it loaded, a    *)
(* new one, or one that was given its first journal.                       *)
LEMMA RunGoesOn ==
  ASSUME TypeOK, ShapeInv, SafeInv, [Next]_vars, Active'
  PROVE  \/ Active /\ Continues(mem)
         \/ pc = "load" /\ Loaded \in Loadable /\ Continues(Loaded)
         \/ ListPending
         \/ /\ PreflightRead /\ mem' \in RunState /\ mem'.phase = "payout_prepared"
            /\ mem'.batch = mem.batch /\ mem'.before = ledger[seen'] /\ pc = "preflight"
  <1>1. \A r : ~Return(r)
    BY ReturnLeaves DEF Active
  <1>2. mem \in RunState
    BY DEF TypeOK
  <1>3. ASSUME pc' = pc, mem' = mem
        PROVE  Active /\ Continues(mem)
    BY <1>3, SameContinues DEF Active
  <1>4. CASE UNCHANGED vars \/ World
    <2>1. ~Crash /\ ~PowerLoss
      BY DEF Crash, PowerLoss, Leave, Active
    <2>2. pc' = pc /\ mem' = mem
      BY <1>4, <2>1 DEF vars, proc, World, Corrupt, InsertRecord, Deposit, ExchangeApplies,
                        ExchangeRefuses, LoseRequest
    <2> QED
      BY <1>3, <2>2
  <1>5. CASE Boot \/ Tick
    BY <1>5 DEF Boot, Tick, Active
  <1>6. CASE LoadNothing \/ LoadError \/ ListError \/ ListNoData \/ ListInvalid \/ CompleteError
             \/ ArchiveError \/ ClearState
    BY <1>1, <1>6 DEF LoadNothing, LoadError, ListError, ListNoData, ListInvalid, CompleteError,
                      ArchiveError, ClearState, Go, Active
  <1>7. CASE RecoverState
    <2>1. Loaded \in Loadable /\ pc = "load"
      BY <1>7, LoadedIsLoadable DEF RecoverState, SafeInv
    <2>2. Loaded \in RunState
      BY <2>1, HeldRuns DEF Held
    <2>3. \/ mem' = Loaded
          \/ /\ mem' = [Loaded EXCEPT !.phase = "payout_submitting"]
             /\ Loaded.phase = "payout_prepared"
      BY <1>1, <1>7 DEF RecoverState, Resume, RecoverUncertain, RecoverConfirmed, Save, Go
    <2>4. Continues(Loaded)
      BY <2>2, <2>3 DEF Continues, RunState
    <2> QED
      BY <2>1, <2>4
  <1>8. CASE SaveState
    <2>1. Active
      BY <1>8 DEF SaveState, Active
    <2>2. \/ mem' = mem
          \/ /\ mem' = [mem EXCEPT !.phase = "payout_submitting"]
             /\ mem.phase = "payout_prepared"
      BY <1>1, <1>8 DEF SaveState, AfterSave, Save, Go
    <2>3. Continues(mem)
      BY <1>2, <2>2 DEF Continues, RunState
    <2> QED
      BY <2>1, <2>3
  <1>9. CASE PreflightError
    BY <1>1, <1>3, <1>9 DEF PreflightError
  <1>10. CASE PreflightRead
    <2>1. PICK i \in BaselineReads :
            /\ seen' = i
            /\ ExecutePayout(ledger[i]) \/ (pc' = pc /\ mem' = mem)
      BY <1>1, <1>10 DEF PreflightRead
    <2>2. CASE pc' = pc /\ mem' = mem
      BY <1>3, <2>2
    <2>3. CASE ExecutePayout(ledger[i])
      <3>1. mem' = [mem EXCEPT !.phase = "payout_prepared", !.nonce = nextNonce,
                               !.before = ledger[i], !.attempts = 1]
        BY <1>1, <2>3 DEF ExecutePayout, Save, Go
      <3>2. mem'.phase = "payout_prepared" /\ mem'.batch = mem.batch /\ mem'.before = ledger[seen']
        BY <1>2, <2>1, <3>1 DEF RunState
      <3>3. mem' \in RunState
        BY ShapeStep DEF TypeOK
      <3> QED
        BY <1>10, <3>2, <3>3 DEF PreflightRead
    <2> QED
      BY <2>1, <2>2, <2>3
  <1>11. ASSUME pc \in {"await", "observe"}, mem.phase # "blocked",
                \/ Block("uncertain") \/ Block("rejected") \/ Replay
                \/ Confirm /\ (SubmitAccepted \/ ObserveRead)
         PROVE  Active /\ Continues(mem)
    <2>1. \/ mem' = [mem EXCEPT !.phase = "blocked", !.reason = "uncertain"]
          \/ mem' = [mem EXCEPT !.phase = "blocked", !.reason = "rejected"]
          \/ mem' = [mem EXCEPT !.phase = "payout_replaying", !.attempts = 2, !.reason = "none"]
          \/ /\ mem' = [mem EXCEPT !.phase = "payout_confirmed", !.reason = "none"]
             /\ SubmitAccepted \/ ObserveRead
      BY <1>11 DEF Block, Replay, Confirm, Save, SaveTwice, Go
    <2>2. /\ mem'.nonce = mem.nonce /\ mem'.batch = mem.batch /\ mem'.before = mem.before
          /\ \/ mem'.phase \in {"blocked", "payout_replaying"}
             \/ mem'.phase = "payout_confirmed" /\ (SubmitAccepted \/ ObserveRead)
      BY <1>2, <2>1 DEF RunState
    <2> QED
      BY <1>11, <2>2 DEF Continues, Active
  <1>12. CASE Submit \/ SubmitUncertain
    BY <1>12, SameContinues DEF Submit, SubmitUncertain, Go, Active
  <1>13. CASE SubmitAccepted \/ SubmitRejected
    BY <1>11, <1>13 DEF SubmitAccepted, SubmitRejected, ShapeInv, Fits
  <1>14. CASE ObserveError
    <2>1. ~(0 >= Confirmations)
      OBVIOUS
    <2>2. PICK o : o.stable = 0 /\ Observed(o)
      BY <1>14 DEF ObserveError, TypeOK
    <2>3. Block("uncertain") \/ Replay \/ (pc' = pc /\ mem' = mem)
      BY <2>1, <2>2 DEF Observed
    <2> QED
      BY <1>3, <1>11, <1>14, <2>3 DEF ObserveError, ShapeInv, Fits
  <1>15. CASE ObserveRead
    <2>1. Block("uncertain") \/ Replay \/ Confirm \/ (pc' = pc /\ mem' = mem)
      BY <1>15 DEF ObserveRead, Observed
    <2> QED
      BY <1>3, <1>11, <1>15, <2>1 DEF ObserveRead, ShapeInv, Fits
  <1>16. CASE CompleteDatabase
    <2>1. mem' = [mem EXCEPT !.phase = "completed"] /\ Active
          /\ mem.phase \in {"prepared", "payout_confirmed"} /\ (mem.phase = "prepared" => mem.nonce = 0)
      BY <1>16 DEF CompleteDatabase, Save, Go, Active, ShapeInv, Fits, Runs, RunShape
    <2>2. /\ mem'.nonce = mem.nonce /\ mem'.batch = mem.batch /\ mem'.before = mem.before
      BY <1>2, <2>1 DEF RunState
    <2> QED
      BY <2>1, <2>2 DEF Continues
  <1>17. CASE Archive
    BY <1>1, <1>17, SameContinues DEF Archive, Go, Active
  <1> QED
    BY <1>4, <1>5, <1>6, <1>7, <1>8, <1>9, <1>10, <1>12, <1>13, <1>14, <1>15, <1>16, <1>17
    DEF Next, Process

LEMMA PaidFiles ==
  ASSUME TypeOK, DiskFits, PaidInv, [Next]_vars, NEW p \in durable'
  PROVE  Settled(p[1])' /\ Settled(p[2])'
  <1>1. ASSUME NEW f \in {p[1], p[2]} PROVE Settled(f)
    BY StepFiles DEF PaidInv, Settled, Valid
  <1>2. ASSUME NEW f, Settled(f) PROVE Settled(f)'
    BY <1>2, SpentGrows DEF Settled
  <1> QED
    BY <1>1, <1>2

(* A balance that confirms a payout is below the one before it.            *)
LEMMA EvidenceIsLower ==
  ASSUME NEW s \in RunState, NEW total \in Nat, PayoutTotal[s.batch] > 0,
         Evidence(total, s) # "none"
  PROVE  total < s.before
  <1>1. s.before \in Nat /\ PayoutTotal[s.batch] \in Nat
    BY DEF RunState
  <1> QED
    BY <1>1 DEF Evidence

LEMMA ObservedIsPaid ==
  ASSUME TypeOK, ShapeInv, PaidInv, ~RegressingReads, ObserveRead,
         mem'.phase = "payout_confirmed"
  PROVE  Spent(mem.nonce)
  <1>1. /\ mem \in RunState /\ mem \in Held /\ RunShape(mem)
        /\ mem.phase \in {"payout_prepared", "payout_submitting", "payout_replaying"}
    BY DEF ObserveRead, TypeOK, ShapeInv, Fits, Runs, Held, Active
  <1>2. mem.nonce # 0 /\ PayoutTotal[mem.batch] > 0
    BY <1>1 DEF RunShape, ValidProgress, ValidJournal
  <1> DEFINE Told(i, o) ==
        Observed(o) /\ o.stable = IF Evidence(ledger[i], mem) = "none" THEN 0
                                  ELSE IF Evidence(ledger[i], mem) = obs.evidence
                                       THEN obs.stable + 1 ELSE 1
  <1>0. PICK i \in seen..Len(ledger) : \E o : Told(i, o)
    BY DEF ObserveRead, ObservationReads
  <1>3. PICK o : Told(i, o)
    BY <1>0
  <1>4. o.stable >= Confirmations
    <2> SUFFICES ASSUME ~(o.stable >= Confirmations) PROVE FALSE
      OBVIOUS
    <2>1. mem' = mem \/ Replay \/ Block("uncertain")
      BY <1>3 DEF Observed
    <2> QED
      BY <1>1, <2>1 DEF Replay, Block, SaveTwice, Go, RunState
  <1>5. Evidence(ledger[i], mem) # "none"
    BY <1>3, <1>4
  <1>6. ledger[i] \in Nat
    BY <1>3 DEF TypeOK
  <1>7. ledger[i] < mem.before /\ mem.before \in Nat
    BY <1>1, <1>2, <1>5, <1>6, EvidenceIsLower DEF RunState
  <1> QED
    BY <1>1, <1>2, <1>3, <1>6, <1>7 DEF PaidInv

(* No balance falls below the one before a payout that was not executed.   *)
LEMMA LedgerKept ==
  ASSUME ~StaleBaseline, ~RegressingReads, TypeOK, PaidInv, [Next]_vars,
         NEW s \in Held, s.nonce # 0, ~Spent(s.nonce)'
  PROVE  \A i \in seen'..Len(ledger') : ledger'[i] >= s.before
  <1>1. \A i \in seen..Len(ledger) : ledger[i] >= s.before
    BY SpentGrows DEF PaidInv
  <1>2. ledger \in Seq(Nat) /\ seen \in 1..Len(ledger) /\ Len(ledger) \in Nat /\ s.before \in Nat
    <2>1. s \in RunState
      BY HeldRuns
    <2>2. s.before \in Nat
      BY <2>1 DEF RunState
    <2> QED
      BY <2>2 DEF TypeOK
  <1>3. CASE UNCHANGED <<applied, ledger, seen>>
    BY <1>1, <1>3
  <1>4. CASE PreflightRead \/ ObserveRead
    <2>1. CASE PreflightRead
      <3>1. PICK i \in BaselineReads : seen' = i
        BY <2>1 DEF PreflightRead
      <3>2. ledger' = ledger /\ seen' \in seen..Len(ledger)
        BY <1>2, <2>1, <3>1 DEF PreflightRead, BaselineReads, funds
      <3> QED
        BY <1>1, <1>2, <3>2
    <2>2. CASE ObserveRead
      <3>1. PICK i \in ObservationReads : seen' = i
        BY <2>2 DEF ObserveRead
      <3>2. ledger' = ledger /\ seen' \in seen..Len(ledger)
        BY <1>2, <2>2, <3>1 DEF ObserveRead, ObservationReads, funds
      <3> QED
        BY <1>1, <1>2, <3>2
    <2> QED
      BY <1>4, <2>1, <2>2
  <1>5. CASE Deposit
    <2>1. PICK d \in Deposits : ledger' = Append(ledger, Total + d)
      BY <1>5 DEF Deposit
    <2>2. seen' = seen /\ d \in Nat
      BY <1>5 DEF Deposit
    <2>3. Total \in Nat /\ Total >= s.before
      BY <1>1, <1>2 DEF Total
    <2>4. Len(ledger') = Len(ledger) + 1 /\ ledger'[Len(ledger) + 1] = Total + d
          /\ \A i \in 1..Len(ledger) : ledger'[i] = ledger[i]
      BY <1>2, <2>1, <2>2, <2>3
    <2>5. ASSUME NEW i \in seen'..Len(ledger') PROVE ledger'[i] >= s.before
      <3>1. CASE i = Len(ledger) + 1
        BY <1>2, <2>2, <2>3, <2>4, <3>1
      <3>2. CASE i # Len(ledger) + 1
        <4>1. i \in seen..Len(ledger) /\ i \in 1..Len(ledger)
          BY <1>2, <2>2, <2>4, <3>2
        <4> QED
          BY <1>1, <2>4, <4>1
      <3> QED
        BY <3>1, <3>2
    <2> QED
      BY <2>5
  <1>6. CASE ExchangeApplies
    <2>1. PICK c \in inflight : ~Spent(c.nonce) /\ applied' = applied \cup {RequestOf(c)}
      BY <1>6 DEF ExchangeApplies
    <2>2. RequestOf(c) \in Live /\ RequestOf(c).nonce = c.nonce
      BY DEF Live, RequestOf
    <2>3. Spent(c.nonce)'
      BY <2>1, <2>2 DEF Spent
    <2>4. s.nonce = c.nonce
      BY <2>1, <2>2 DEF PaidInv, Owned
    <2> QED
      BY <2>3, <2>4
  <1> QED
    BY <1>3, <1>4, <1>5, <1>6, StepChanges

(* The request that Submit sends is the only payout to go on with.         *)
LEMMA SubmitOwns ==
  ASSUME TypeOK, ShapeInv, SafeInv, Submit
  PROVE  /\ Live' = Live \cup {[nonce |-> mem.nonce, batch |-> mem.batch]}
         /\ Held' = Held /\ mem' = mem /\ mem \in Held /\ Owned(mem.nonce)'
         /\ mem.nonce \in 1..MaxNonce /\ mem.phase # "blocked" /\ mem.nonce # 0
         /\ UNCHANGED <<status, applied, ledger, seen>>
         /\ \A n : Owned(n) => Owned(n)'
  <1> PICK n, B : n = mem.nonce /\ B = mem.batch
    OBVIOUS
  <1>1. /\ pc = "submit" /\ pc' = "await" /\ mem' = mem /\ reply' = "none" /\ UNCHANGED disk
        /\ inflight' = inflight \cup {[nonce |-> n, batch |-> B, try |-> submits[n] + 1]}
        /\ UNCHANGED <<status, applied, ledger, seen>>
    BY DEF Submit, Go, funds
  <1>2. mem \in RunState /\ mem \in Held /\ mem.phase \in {"payout_submitting", "payout_replaying"}
    BY <1>1 DEF TypeOK, ShapeInv, Fits, Held, Active
  <1>3. n # 0 /\ n \in 1..MaxNonce
    <2>1. n # 0
      BY <1>2 DEF ShapeInv, Runs, RunShape
    <2> QED
      BY <1>2, <2>1 DEF RunState
  <1>4. OnDisk /\ \A s \in Loadable : Same(s, mem)
    BY <1>1, <1>2 DEF SafeInv, SubmitInv, Same
  <1>5. Live' = Live \cup {[nonce |-> n, batch |-> B]}
    <2>1. RequestOf([nonce |-> n, batch |-> B, try |-> submits[n] + 1]) = [nonce |-> n, batch |-> B]
      BY DEF RequestOf
    <2> QED
      BY <1>1, <2>1 DEF Live
  <1>6. Loadable' = Loadable /\ (NeverEmpty <=> NeverEmpty') /\ Held' = Held
    BY <1>1, SameDisk DEF Held, Active
  <1>7. NeverEmpty
    BY <1>2, <1>4, RunIsValid DEF OnDisk, NeverEmpty, LoadsNothing
  <1>8. \A s \in Held : s.nonce = n
    BY <1>4 DEF Held, Same
  <1> QED
    BY <1>1, <1>2, <1>3, <1>5, <1>6, <1>7, <1>8 DEF Owned

LEMMA PaidLive ==
  ASSUME MaxDamage <= 1, TypeOK, ShapeInv, SafeInv, PaidInv, [Next]_vars, NEW q \in Live'
  PROVE  Spent(q.nonce)' \/ Owned(q.nonce)'
  <1>1. ASSUME q \in Live PROVE Spent(q.nonce) \/ (Owned(q.nonce) /\ q.nonce \in 1..MaxNonce)
    BY <1>1, LiveRequests DEF PaidInv, Request
  <1>2. CASE Sound
    <2>1. q \in Live
      BY <1>2 DEF Sound, Calm, Tame
    <2> QED
      BY <1>1, <1>2, <2>1, SpentGrows, OwnedKept
  <1>3. CASE Submit
    BY <1>1, <1>3, SubmitOwns, SpentGrows
  <1>4. CASE ClearState
    <2>1. /\ pc = "clear" /\ mem \in Held /\ NoClash(mem) /\ Settled(mem) /\ mem \in RunState
          /\ mem.phase = "completed" \/ mem.reason = "rejected"
      BY <1>4 DEF ClearState, ShapeInv, Fits, Held, Active, SafeInv, HeldInv, PaidInv, TypeOK
    <2>2. q \in Live
      BY <1>4 DEF ClearState, Live, chain, net, funds
    <2>3. ASSUME Owned(q.nonce), q.nonce \in 1..MaxNonce PROVE Spent(q.nonce)
      <3>1. mem.nonce = q.nonce /\ mem.nonce # 0
        BY <2>1, <2>3 DEF Owned
      <3> QED
        BY <2>1, <2>2, <3>1, RunIsValid DEF NoClash, Settled
    <2> QED
      BY <1>1, <2>2, <2>3, SpentGrows
  <1> QED
    BY <1>2, <1>3, <1>4, StepIsSound

LEMMA PaidReply ==
  ASSUME TypeOK, PaidInv, [Next]_vars, pc' = "await", reply' = "accepted"
  PROVE  Spent(mem.nonce)'
  <1> PICK n : n = mem.nonce
    OBVIOUS
  <1>1. CASE pc' = pc /\ mem' = mem /\ reply' = reply
    <2>1. Spent(n)
      BY <1>1 DEF PaidInv
    <2> QED
      BY <1>1, <2>1, SpentGrows
  <1>2. CASE ExchangeApplies
    <2>1. pc' = pc /\ mem' = mem
      BY <1>2 DEF ExchangeApplies
    <2>2. PICK c \in inflight : applied' = applied \cup {RequestOf(c)} /\ Answer(c, "accepted")
      BY <1>2 DEF ExchangeApplies
    <2>3. CASE reply' = reply
      BY <1>1, <2>1, <2>3
    <2>4. CASE c.nonce = n
      <3>1. RequestOf(c).nonce = n /\ RequestOf(c) \in applied'
        BY <2>2, <2>4 DEF RequestOf
      <3> QED
        BY <2>1, <3>1 DEF Spent
    <2> QED
      BY <2>2, <2>3, <2>4 DEF Answer
  <1>3. CASE ExchangeRefuses
    <2>1. pc' = pc /\ mem' = mem
      BY <1>3 DEF ExchangeRefuses
    <2>2. PICK c \in inflight : Answer(c, "rejected") \/ (Spent(c.nonce) /\ Answer(c, "accepted"))
      BY <1>3 DEF ExchangeRefuses
    <2>3. CASE reply' = reply
      BY <1>1, <2>1, <2>3
    <2>4. CASE c.nonce = n /\ Spent(c.nonce)
      BY <2>1, <2>4, SpentGrows
    <2> QED
      BY <2>2, <2>3, <2>4 DEF Answer
  <1>4. \A r : ~Return(r)
    BY ReturnLeaves
  <1>5. \A p, s, k : ~Go(p, s, k)
    BY DEF Go
  <1>6. ~Leave("down", "crashed")
    BY DEF Leave
  <1>7. CASE UNCHANGED vars
    BY <1>1, <1>7 DEF vars, proc
  <1>8. CASE Boot \/ Tick
    BY <1>8 DEF Boot, Tick
  <1>9. CASE World
    BY <1>1, <1>2, <1>3, <1>6, <1>9 DEF World, Crash, PowerLoss, Corrupt, InsertRecord, Deposit,
                                        LoseRequest, proc
  <1>10. \A s : ~Save(s) /\ ~SaveTwice(s)
    BY <1>5 DEF Save, SaveTwice
  <1>11. ~Confirm /\ ~Replay /\ \A r : ~Block(r)
    BY <1>10 DEF Confirm, Replay, Block
  <1>12. ~LoadNothing /\ ~LoadError /\ ~ListError /\ ~ListNoData /\ ~ListInvalid /\ ~ListPending
    BY <1>4, <1>5, <1>10 DEF LoadNothing, LoadError, ListError, ListNoData, ListInvalid, ListPending
  <1>13. ~RecoverState
    BY <1>4, <1>5, <1>10 DEF RecoverState, Resume, RecoverUncertain, RecoverConfirmed
  <1>14. ~SaveState
    BY <1>4, <1>5, <1>10 DEF SaveState, AfterSave
  <1>15. ~Submit /\ ~SubmitAccepted /\ ~SubmitRejected /\ ~SubmitUncertain
    BY <1>5, <1>11 DEF Submit, SubmitAccepted, SubmitRejected, SubmitUncertain
  <1>16. CASE ObserveError \/ ObserveRead
    <2>1. PICK o : Observed(o)
      BY <1>16 DEF ObserveError, ObserveRead
    <2>2. pc' = pc /\ mem' = mem /\ reply' = reply
      BY <1>11, <2>1 DEF Observed
    <2> QED
      BY <1>1, <2>2
  <1>17. CASE PreflightError
    BY <1>1, <1>4, <1>17 DEF PreflightError
  <1>18. CASE PreflightRead
    <2>1. \A t : ~ExecutePayout(t)
      BY <1>4, <1>10 DEF ExecutePayout
    <2>2. pc' = pc /\ mem' = mem /\ reply' = reply
      BY <1>4, <1>18, <2>1 DEF PreflightRead
    <2> QED
      BY <1>1, <2>2
  <1>19. ~CompleteDatabase /\ ~CompleteError /\ ~Archive /\ ~ArchiveError /\ ~ClearState
    BY <1>4, <1>5, <1>10 DEF CompleteDatabase, CompleteError, Archive, ArchiveError, ClearState
  <1> QED
    BY <1>7, <1>8, <1>9, <1>12, <1>13, <1>14, <1>15, <1>16, <1>17, <1>18, <1>19 DEF Next, Process

LEMMA PaidRun ==
  ASSUME ~RegressingReads, TypeOK, ShapeInv, SafeInv, PaidInv, [Next]_vars
  PROVE  Settled(mem)'
  <1>1. mem \in RunState
    BY DEF TypeOK
  <1>2. CASE ~Active'
    <2>1. mem' = NoRun
      BY <1>2, ShapeStep DEF ShapeInv, Fits, Active
    <2> QED
      BY <2>1 DEF Settled, NoRun, NewRun
  <1>3. CASE Active'
    <2> PICK n : n = mem.nonce
      OBVIOUS
    <2>1. CASE Active /\ Continues(mem)
      <3> SUFFICES ASSUME mem'.phase \in {"payout_confirmed", "completed"}, n # 0
                   PROVE  Spent(n)'
        BY <2>1 DEF Settled, Continues
      <3>1. CASE mem.phase \in {"payout_confirmed", "completed"}
        BY <1>1, <3>1, RunIsValid, SpentGrows DEF PaidInv, Settled
      <3>2. CASE SubmitAccepted
        BY <3>2, SpentGrows DEF SubmitAccepted, PaidInv
      <3>3. CASE ObserveRead /\ mem'.phase = "payout_confirmed"
        BY <3>3, ObservedIsPaid, SpentGrows
      <3> QED
        BY <2>1, <3>1, <3>2, <3>3 DEF Continues
    <2>2. CASE pc = "load" /\ Loaded \in Loadable /\ Continues(Loaded)
      <3> PICK s : s = Loaded
        OBVIOUS
      <3>1. Valid(s) /\ Settled(s)
        BY <2>2, LoadableIs DEF CanLoad, PaidInv
      <3>2. s.phase \in {"payout_confirmed", "completed"} /\ s.nonce # 0 => Spent(s.nonce)'
        BY <3>1, SpentGrows DEF Settled
      <3> QED
        BY <2>2, <3>2 DEF Settled, Continues, SubmitAccepted, ObserveRead
    <2>3. CASE ListPending
      BY <2>3 DEF ListPending, Save, Go, Settled, NewRun
    <2>4. CASE mem'.phase = "payout_prepared"
      BY <2>4 DEF Settled
    <2> QED
      BY <1>3, <2>1, <2>2, <2>3, <2>4, RunGoesOn
  <1> QED
    BY <1>2, <1>3

LEMMA PaidLedger ==
  ASSUME MaxDamage <= 1, ~StaleBaseline, ~RegressingReads,
         TypeOK, ShapeInv, SafeInv, PaidInv, [Next]_vars,
         NEW s \in Held', s.nonce # 0, ~Spent(s.nonce)'
  PROVE  \A i \in seen'..Len(ledger') : ledger'[i] >= s.before
  <1>1. CASE s \in Held
    BY <1>1, LedgerKept
  <1>2. CASE s \notin Held
    <2>1. Loadable' \subseteq Held
      <3>1. CASE Sound
        BY <3>1 DEF Sound, Calm, Tame
      <3>2. CASE Submit
        BY <3>2, SubmitOwns DEF Held
      <3>3. CASE ClearState
        BY <3>3, ClearDisk DEF ClearState, SafeInv, chain, net, Held
      <3> QED
        BY <3>1, <3>2, <3>3, StepIsSound
    <2>2. Active' /\ s = mem'
      BY <1>2, <2>1 DEF Held
    <2>3. CASE Active /\ Continues(mem)
      <3>1. mem \in Held /\ mem.nonce = s.nonce /\ mem.before = s.before
        BY <2>2, <2>3 DEF Held, Continues
      <3> PICK t \in Held : t = mem
        BY <3>1
      <3> QED
        BY <3>1, LedgerKept
    <2>4. CASE Loaded \in Loadable /\ Continues(Loaded)
      <3>1. Loaded \in Held /\ Loaded.nonce = s.nonce /\ Loaded.before = s.before
        BY <2>2, <2>4 DEF Held, Continues
      <3> PICK t \in Held : t = Loaded
        BY <3>1
      <3> QED
        BY <3>1, LedgerKept
    <2>5. CASE ListPending
      BY <2>2, <2>5 DEF ListPending, Save, Go, NewRun
    <2>6. CASE PreflightRead /\ mem'.before = ledger[seen']
      <3>1. ledger' = ledger /\ seen' = Len(ledger) /\ ledger[Len(ledger)] \in Nat
            /\ Len(ledger) \in Nat
        BY <2>6 DEF PreflightRead, BaselineReads, funds, TypeOK
      <3> QED
        BY <2>2, <2>6, <3>1
    <2> QED
      BY <2>2, <2>3, <2>4, <2>5, <2>6, RunGoesOn
  <1> QED
    BY <1>1, <1>2

LEMMA PaidStep ==
  ASSUME MaxDamage <= 1, ~StaleBaseline, ~RegressingReads
  PROVE  TypeOK /\ ShapeInv /\ SafeInv /\ PaidInv /\ [Next]_vars => PaidInv'
  <1> SUFFICES ASSUME TypeOK, ShapeInv, SafeInv, PaidInv, [Next]_vars PROVE PaidInv'
    OBVIOUS
  <1>1. DiskFits
    BY DEF SafeInv
  <1>2. \A p \in durable' : Settled(p[1])' /\ Settled(p[2])'
    BY <1>1, PaidFiles
  <1>3. \A q \in Live' : Spent(q.nonce)' \/ Owned(q.nonce)'
    BY PaidLive
  <1>4. \A s \in Held' : s.nonce # 0 /\ ~Spent(s.nonce)' =>
          \A i \in seen'..Len(ledger') : ledger'[i] >= s.before
    BY PaidLedger
  <1> QED
    BY <1>2, <1>3, <1>4, PaidRun, PaidReply DEF PaidInv

LEMMA PaidAlways ==
  ASSUME MaxDamage <= 1, ~StaleBaseline, ~RegressingReads
  PROVE  Spec => [](TypeOK /\ ShapeInv /\ SafeInv /\ PaidInv)
  <1>1. Init => PaidInv
    <2> SUFFICES ASSUME Init PROVE PaidInv
      OBVIOUS
    <2>1. /\ durable = {<<Missing, Missing>>} /\ mem = NoRun /\ pc = "down"
          /\ applied = {} /\ inflight = {}
      BY DEF Init
    <2>2. Live = {} /\ Loadable = {} /\ Held = {}
      BY <2>1, LoadableIs DEF Live, CanLoad, Valid, Held, Active
    <2>3. Settled(mem) /\ Settled(Missing)
      BY <2>1 DEF Settled, Valid, NoRun, NewRun
    <2> QED
      BY <2>1, <2>2, <2>3 DEF PaidInv
  <1> QED
    BY <1>1, PaidStep, ShapeCorrect, SafeAlways, PTL DEF Spec

(* A confirmed payout was executed: with a truthful balance index, neither *)
(* an answer of the exchange nor two matching balances confirm a payout    *)
(* that did not happen.                                                    *)
THEOREM ConfirmationIsTrue ==
  ASSUME MaxDamage <= 1, ~StaleBaseline, ~RegressingReads
  PROVE  Spec => []ConfirmedIsPaid
  <1>1. TypeOK /\ SafeInv /\ PaidInv => ConfirmedIsPaid
    <2> SUFFICES ASSUME TypeOK, SafeInv, PaidInv, NEW s \in Runs,
                        s.phase \in {"payout_confirmed", "completed"}, s.nonce # 0
                 PROVE  Spent(s.nonce)
      BY DEF ConfirmedIsPaid
    <2>1. CASE s \in Snapshots
      <3>1. <<cur, bak>> \in durable
        BY DEF SafeInv, DiskFits
      <3>2. Settled(cur) /\ Settled(bak)
        BY <3>1 DEF PaidInv
      <3> QED
        BY <2>1, <3>2 DEF Snapshots, Settled
    <2>2. CASE s = mem
      BY <2>2, RunIsValid DEF PaidInv, Settled, TypeOK
    <2> QED
      BY <2>1, <2>2 DEF Runs
  <1> QED
    BY <1>1, PaidAlways, PTL

-----------------------------------------------------------------------------
(* The unfinished snapshots are all about one batch of records.            *)

LEMMA StillHeld ==
  ASSUME MaxDamage <= 1, TypeOK, ShapeInv, SafeInv, [Next]_vars
  PROVE  Loadable' \subseteq Held /\ Done \subseteq Done'
  <1>1. CASE Sound
    BY <1>1 DEF Sound, Calm, Tame
  <1>2. CASE Submit
    BY <1>2, SubmitOwns DEF Held, Done
  <1>3. CASE ClearState
    BY <1>3, ClearDisk DEF ClearState, SafeInv, chain, net, Held, Done
  <1> QED
    BY <1>1, <1>2, <1>3, StepIsSound

LEMMA StillClaimed ==
  ASSUME Done \subseteq Done', NEW f, Claimed(f)'
  PROVE  Claimed(f)
  BY DEF Claimed

(* What a save leaves visible: nothing new, or the run that was saved.     *)
LEMMA SaveVisible ==
  ASSUME TypeOK, DiskFits, damage' = damage,
         NEW r \in SaveResults(cur, bak, durable, mem), Store(r)
  PROVE  \/ Loaded' = mem
         \/ Loaded' = Loaded /\ Loadable' \subseteq Loadable
  <1>1. \/ r = Outcome(cur, bak, "err", durable)
        \/ Valid(cur) /\ r = Outcome(Missing, cur, "err", Rotated(durable, cur))
        \/ r.cur = mem
    BY DEF SaveResults, SaveRotates, SaveInstalls, Outcome, Synced
  <1>2. <<cur, bak>> \in durable /\ Valid(mem)
    BY RunIsValid DEF DiskFits, TypeOK
  <1>3. (PowerMayFail <=> PowerMayFail') /\ (Losable <=> Losable')
    BY DEF PowerMayFail, Losable
  <1>4. CASE r.cur = mem
    BY <1>2, <1>4 DEF Store, Loaded, LoadsPrimary
  <1>5. CASE r = Outcome(cur, bak, "err", durable)
    <2>1. cur' = cur /\ bak' = bak /\ durable' \subseteq durable
      BY <1>2, <1>5 DEF Store, Outcome
    <2>2. Loadable' \subseteq Loadable
      BY <1>3, <2>1, LoadableIs, LoadableNext DEF CanLoad
    <2> QED
      BY <2>1, <2>2 DEF Loaded
  <1>6. CASE Valid(cur) /\ r = Outcome(Missing, cur, "err", Rotated(durable, cur))
    <2>1. cur' = Missing /\ bak' = cur /\ durable' \subseteq durable \cup {<<Missing, cur>>}
      BY <1>6 DEF Store, Outcome, Rotated
    <2>2. cur \in Loadable
      BY <1>2, <1>6, LoadableIs DEF CanLoad
    <2>3. ASSUME NEW f \in Loadable' PROVE f \in Loadable
      <3>1. PICK p \in durable' : Valid(f) /\ (f = p[1] \/ (f = p[2] /\ (~Valid(p[1]) \/ Losable)))
        BY <1>3, <2>3, LoadableNext DEF CanLoad
      <3>2. CASE p \in durable
        BY <3>1, <3>2, LoadableIs DEF CanLoad
      <3>3. CASE p = <<Missing, cur>>
        BY <2>2, <3>1, <3>3 DEF Valid
      <3> QED
        BY <2>1, <3>2, <3>3
    <2>4. Loaded' = cur /\ Loaded = cur
      BY <1>6, <2>1 DEF Loaded, LoadsPrimary, Valid
    <2> QED
      BY <2>3, <2>4
  <1> QED
    BY <1>1, <1>4, <1>5, <1>6

(* The pairs a power loss may leave after a clear.                         *)
LEMMA ClearedPairs ==
  ASSUME TypeOK, DiskFits, NEW r \in ClearResults(cur, bak, durable), Store(r), NEW p \in durable'
  PROVE  \E q \in durable : p[1] \in {q[1], Missing} /\ p[2] \in {q[2], Missing}
  <1>1. <<cur, bak>> \in durable
    BY DEF DiskFits
  <1>2. r.cur \in {cur, Missing} /\ r.bak \in {bak, Missing}
    BY DEF ClearResults, Outcome, Synced
  <1>3. CASE p = <<r.cur, r.bak>>
    BY <1>1, <1>2, <1>3
  <1>4. CASE p \in NoPrimary(NoBackup(durable))
    <2>1. \A d \in NoBackup(durable) :
            \E q \in durable : d[1] = q[1] /\ d[2] \in {q[2], Missing}
      BY DEF NoBackup
    <2>2. p \in NoBackup(durable) \/ \E d \in NoBackup(durable) : p = <<Missing, d[2]>>
      BY <1>4 DEF NoPrimary
    <2> QED
      BY <2>1, <2>2
  <1>5. durable' \subseteq {<<r.cur, r.bak>>} \cup r.durable
    BY DEF Store
  <1>6. r.durable \subseteq {<<r.cur, r.bak>>} \cup NoPrimary(NoBackup(durable))
    BY DEF ClearResults, Outcome, Synced, NoPrimary, NoBackup
  <1> QED
    BY <1>3, <1>4, <1>5, <1>6

LEMMA ClaimPairs ==
  ASSUME MaxDamage <= 1, TypeOK, ShapeInv, SafeInv, ClaimInv, [Next]_vars,
         NEW p \in durable', Valid(p[1]), Claimed(p[2])'
  PROVE  p[2].batch = p[1].batch
  <1>1. Claimed(p[2]) /\ DiskFits /\ <<cur, bak>> \in durable
    BY StillHeld, StillClaimed DEF SafeInv, DiskFits
  <1>2. CASE p \in durable
    BY <1>1, <1>2 DEF ClaimInv
  <1>3. CASE SaveState
    <2>1. Active
      BY <1>3 DEF SaveState, Active
    <2>2. PICK r \in SaveResults(cur, bak, durable, mem) : Store(r)
      BY <1>3 DEF SaveState
    <2>3. CASE Valid(cur) /\ p = <<mem, cur>>
      <3>1. cur \in Loadable
        BY <1>1, <2>3, LoadableIs DEF CanLoad
      <3> QED
        BY <1>1, <2>1, <2>3, <3>1 DEF ClaimInv
    <2>4. ASSUME NEW q \in durable, p = <<mem, q[2]>>,
                 PowerMayFail \/ (q = <<cur, bak>> /\ ~Valid(cur))
          PROVE  p[2].batch = p[1].batch
      <3>1. ~Valid(q[1]) \/ Losable
        BY <2>4 DEF Losable
      <3>2. q[2] \in Loadable
        BY <1>1, <2>4, <3>1, LoadableIs DEF CanLoad, Claimed
      <3> QED
        BY <1>1, <2>1, <2>4, <3>2 DEF ClaimInv
    <2>5. CASE p = <<Missing, cur>>
      BY <2>5 DEF Valid
    <2> QED
      BY <1>1, <1>2, <2>2, <2>3, <2>4, <2>5, SavedPairs
  <1>4. CASE ClearState
    <2>1. PICK r \in ClearResults(cur, bak, durable) : Store(r)
      BY <1>4 DEF ClearState
    <2>2. PICK q \in durable : p[1] \in {q[1], Missing} /\ p[2] \in {q[2], Missing}
      BY <1>1, <2>1, ClearedPairs
    <2> QED
      BY <1>1, <2>2 DEF ClaimInv, Claimed, Valid
  <1>5. CASE Corrupt
    BY <1>1, <1>5 DEF Corrupt, Claimed, Valid
  <1>6. UNCHANGED disk \/ PowerLoss => p \in durable
    BY DEF disk, files, PowerLoss
  <1> QED
    BY <1>2, <1>3, <1>4, <1>5, <1>6, StepChanges

LEMMA ClaimRun ==
  ASSUME MaxDamage <= 1, TypeOK, ShapeInv, SafeInv, ClaimInv, [Next]_vars, Active',
         NEW f \in Loadable', Claimed(f)'
  PROVE  f.batch = mem'.batch
  <1>1. f \in Held /\ Claimed(f)
    BY StillHeld, StillClaimed
  <1>2. CASE Active /\ mem'.batch = mem.batch
    BY <1>1, <1>2 DEF Held, ClaimInv
  <1>3. CASE pc = "load" /\ Continues(Loaded)
    BY <1>1, <1>3 DEF Held, Active, ClaimInv, Continues
  <1>4. CASE ListPending
    <2>1. LoadsNothing(cur, bak) /\ ~Active
      BY <1>4 DEF ListPending, SafeInv, EndInv, Active
    <2>2. ~Valid(Loaded)
      BY <2>1 DEF LoadsNothing, Loaded, Valid
    <2> QED
      BY <1>1, <2>1, <2>2 DEF Held, ClaimInv
  <1> QED
    BY <1>2, <1>3, <1>4, RunGoesOn DEF Continues, Active

LEMMA ClaimLoaded ==
  ASSUME MaxDamage <= 1, TypeOK, ShapeInv, SafeInv, ClaimInv, [Next]_vars,
         NEW f \in Loadable', Claimed(f)'
  PROVE  Valid(Loaded)' /\ f.batch = Loaded'.batch
  <1>1. f \in Held /\ Claimed(f) /\ DiskFits /\ mem \in RunState /\ Valid(mem)
    BY StillHeld, StillClaimed, RunIsValid DEF SafeInv, TypeOK
  <1>2. CASE UNCHANGED disk
    <2>1. f \in Loadable /\ Loaded' = Loaded
      BY <1>2, SameDisk DEF disk, files, Loaded
    <2> QED
      BY <1>1, <2>1 DEF ClaimInv
  <1>3. CASE SaveState
    <2>1. Active /\ damage' = damage
      BY <1>3 DEF SaveState, Active
    <2>2. PICK r \in SaveResults(cur, bak, durable, mem) : Store(r)
      BY <1>3 DEF SaveState
    <2>3. CASE Loaded' = mem
      BY <1>1, <2>1, <2>3 DEF ClaimInv, Held
    <2>4. CASE Loaded' = Loaded /\ Loadable' \subseteq Loadable
      BY <1>1, <2>4 DEF ClaimInv
    <2> QED
      BY <1>1, <2>1, <2>2, <2>3, <2>4, SaveVisible
  <1>4. CASE ClearState
    <2>1. pc = "clear" /\ mem \in Held /\ Active /\ f \in Loadable
      BY <1>1, <1>4, ClearDisk DEF ClearState, Held, Active, chain, net
    <2>2. RunOK(mem) /\ (mem.phase = "completed" \/ mem.reason = "rejected")
      BY <2>1 DEF SafeInv, HeldInv, ShapeInv, Fits
    <2>3. CASE mem.phase = "completed"
      BY <1>1, <2>1, <2>2, <2>3 DEF RunOK, ClaimInv, Claimed
    <2>4. CASE mem.phase = "blocked"
      BY <1>1, <2>1, <2>4 DEF SafeInv, EndInv, Claimed
    <2> QED
      BY <2>2, <2>3, <2>4 DEF RunOK
  <1>5. \E p \in durable' : Valid(f) /\ f \in {p[1], p[2]}
    BY LoadableNext DEF CanLoad
  <1>6. CASE Corrupt
    <2>1. durable' = {<<cur', bak'>>} /\ (cur' = Invalid \/ bak' = Invalid)
      BY <1>6 DEF Corrupt
    <2> QED
      BY <1>5, <2>1 DEF Loaded, LoadsPrimary, Valid
  <1>7. CASE PowerLoss
    <2>1. PICK p \in durable : cur' = p[1] /\ bak' = p[2] /\ durable' = {p}
      BY <1>7 DEF PowerLoss
    <2> QED
      BY <1>1, <1>5, <2>1 DEF Loaded, LoadsPrimary, ClaimInv
  <1> QED
    BY <1>2, <1>3, <1>4, <1>6, <1>7, StepChanges

LEMMA ClaimStep ==
  ASSUME MaxDamage <= 1
  PROVE  TypeOK /\ ShapeInv /\ SafeInv /\ ClaimInv /\ [Next]_vars => ClaimInv'
  <1> SUFFICES ASSUME TypeOK, ShapeInv, SafeInv, ClaimInv, [Next]_vars PROVE ClaimInv'
    OBVIOUS
  <1>1. \A f \in Loadable' : Claimed(f)' => Valid(Loaded)' /\ f.batch = Loaded'.batch
    BY ClaimLoaded
  <1>2. Active' => \A f \in Loadable' : Claimed(f)' => f.batch = mem'.batch
    BY ClaimRun
  <1>3. \A p \in durable' : Valid(p[1]) /\ Claimed(p[2])' => p[2].batch = p[1].batch
    BY ClaimPairs
  <1> QED
    BY <1>1, <1>2, <1>3 DEF ClaimInv, Valid

-----------------------------------------------------------------------------
(* A batch is marked done as a whole, and only when it was paid or owes    *)
(* nothing.                                                                *)

LEMMA HeldShape ==
  ASSUME TypeOK, ShapeInv, NEW s \in Held
  PROVE  s \in RunState /\ RunShape(s)
  <1>1. s \in RunState /\ Valid(s)
    BY HeldRuns, RunIsValid
  <1>2. CASE s = mem
    BY <1>1, <1>2 DEF ShapeInv, Runs
  <1>3. CASE s \in Loadable
    <2>1. PICK p \in durable : s \in {p[1], p[2]}
      BY <1>3, LoadableIs DEF CanLoad
    <2>2. p[1] \in ShapedFile /\ p[2] \in ShapedFile
      BY DEF ShapeInv
    <2> QED
      BY <1>1, <2>1, <2>2 DEF ShapedFile
  <1> QED
    BY <1>2, <1>3 DEF Held

LEMMA NeverSpentZero == ASSUME TypeOK PROVE ~Spent(0)
  BY DEF TypeOK, Request, Spent

(* The batch that completeDatabase marks was paid, or owes nothing.        *)
LEMMA CompletesPaid ==
  ASSUME TypeOK, ShapeInv, PaidInv, pc = "complete"
  PROVE  /\ mem \in Held /\ mem \in RunState /\ mem.phase # "blocked"
         /\ PayoutTotal[mem.batch] > 0 => Spent(mem.nonce)
         /\ mem.nonce # 0 => Spent(mem.nonce)
  <1>1. /\ mem \in Held /\ mem \in RunState /\ RunShape(mem)
        /\ mem.phase = "payout_confirmed" \/ (mem.phase = "prepared" /\ PayoutTotal[mem.batch] = 0)
    BY DEF TypeOK, ShapeInv, Fits, Runs, Held, Active
  <1>2. CASE mem.phase = "payout_confirmed"
    BY <1>1, <1>2, RunIsValid DEF PaidInv, Settled, RunShape
  <1>3. CASE mem.phase = "prepared" /\ PayoutTotal[mem.batch] = 0
    BY <1>1, <1>3 DEF RunShape
  <1> QED
    BY <1>1, <1>2, <1>3

(* Marking a batch that is pending, or one that is done already.           *)
LEMMA Marks ==
  ASSUME TypeOK, NEW B \in SUBSET Records, status' = MarkDone(B)
  PROVE  /\ Done' = Done \cup B /\ Pending' = Pending \ B
         /\ B \subseteq Done => status' = status
  BY DEF TypeOK, MarkDone, Done, Pending

LEMMA StatusSteps ==
  ASSUME TypeOK, [Next]_vars
  PROVE  \/ Pending \subseteq Pending' /\ Done \subseteq Done'
         \/ /\ CompleteDatabase \/ CompleteError
            /\ status' = MarkDone(mem.batch)
  <1>1. CASE UNCHANGED status
    BY <1>1 DEF Pending, Done
  <1>2. CASE InsertRecord
    BY <1>2 DEF InsertRecord, Pending, Done, TypeOK
  <1> QED
    BY <1>1, <1>2, StepChanges DEF CompleteDatabase, CompleteError

LEMMA WholeKept ==
  ASSUME [Next]_vars, Pending \subseteq Pending', Done \subseteq Done', NEW s, WholeBatch(s)
  PROVE  WholeBatch(s)'
  BY SpentGrows DEF WholeBatch

LEMMA WholeRequests ==
  ASSUME MaxDamage <= 1, TypeOK, ShapeInv, SafeInv, PaidInv, WholeInv, [Next]_vars,
         NEW q \in Live'
  PROVE  PayoutTotal[q.batch] > 0 /\ (Spent(q.nonce)' \/ q.batch \subseteq Pending')
  <1>1. CASE Submit
    <2>1. /\ q \in Live \/ q = [nonce |-> mem.nonce, batch |-> mem.batch]
          /\ mem \in Held /\ mem.phase # "blocked" /\ mem.nonce # 0 /\ status' = status
      BY <1>1, SubmitOwns
    <2>2. PayoutTotal[mem.batch] > 0 /\ WholeBatch(mem)
      BY <2>1, HeldShape DEF RunShape, ValidProgress, ValidJournal, WholeInv
    <2>3. Pending' = Pending
      BY <2>1 DEF Pending
    <2> QED
      BY <2>1, <2>2, <2>3, SpentGrows DEF WholeInv, WholeBatch
  <1>2. CASE q \in Live
    <2>1. PayoutTotal[q.batch] > 0 /\ (Spent(q.nonce) \/ q.batch \subseteq Pending)
      BY <1>2 DEF WholeInv
    <2>2. CASE Spent(q.nonce) \/ Pending \subseteq Pending'
      BY <2>1, <2>2, SpentGrows
    <2>3. CASE ~Spent(q.nonce) /\ pc = "complete"
      <3>1. Owned(q.nonce) /\ mem \in Held /\ q.nonce \in 1..MaxNonce
        BY <1>2, <2>3, CompletesPaid, LiveRequests DEF PaidInv, Request
      <3>2. mem.nonce = q.nonce /\ mem.nonce # 0
        BY <3>1 DEF Owned
      <3> QED
        BY <2>3, <3>2, CompletesPaid
    <2> QED
      BY <2>1, <2>2, <2>3, StatusSteps DEF CompleteDatabase, CompleteError
  <1>3. Sound \/ ClearState => q \in Live
    BY DEF Sound, Calm, Tame, ClearState, Live, chain, net, funds
  <1> QED
    BY <1>1, <1>2, <1>3, StepIsSound

(* The run a step goes on with is about a whole batch, when it marks none. *)
LEMMA WholeRun ==
  ASSUME TypeOK, ShapeInv, SafeInv, WholeInv, [Next]_vars, Active',
         Pending \subseteq Pending', Done \subseteq Done', mem'.phase # "blocked"
  PROVE  WholeBatch(mem)'
  <1>1. ASSUME NEW t \in Held, Continues(t) PROVE WholeBatch(mem)'
    <2>1. WholeBatch(t)'
      BY <1>1, WholeKept DEF Continues, WholeInv
    <2> QED
      BY <1>1, <2>1 DEF WholeBatch, Continues
  <1>2. CASE Active /\ Continues(mem)
    <2> PICK t \in Held : t = mem
      BY <1>2 DEF Held
    <2> QED
      BY <1>1, <1>2
  <1>3. CASE Loaded \in Loadable /\ Continues(Loaded)
    <2> PICK t \in Held : t = Loaded
      BY <1>3 DEF Held
    <2> QED
      BY <1>1, <1>3
  <1>4. CASE ListPending
    <2>1. mem' = NewRun(Pending)
      BY <1>4 DEF ListPending, Save, Go
    <2> QED
      BY <2>1 DEF WholeBatch, NewRun
  <1>5. CASE pc = "preflight" /\ mem'.batch = mem.batch
    <2>1. /\ mem \in Held /\ mem.phase = "prepared" /\ PayoutTotal[mem.batch] > 0
          /\ mem.nonce = 0
      BY <1>5 DEF Held, Active, ShapeInv, Fits, Runs, RunShape
    <2>2. mem.batch \subseteq Pending
      BY <2>1, NeverSpentZero DEF WholeInv, WholeBatch
    <2> QED
      BY <1>5, <2>2 DEF WholeBatch
  <1> QED
    BY <1>2, <1>3, <1>4, <1>5, RunGoesOn

LEMMA WholeRuns ==
  ASSUME MaxDamage <= 1, TypeOK, ShapeInv, SafeInv, PaidInv, ClaimInv, WholeInv, [Next]_vars,
         NEW s \in Held', s.phase # "blocked"
  PROVE  WholeBatch(s)'
  <1>1. CASE Pending \subseteq Pending' /\ Done \subseteq Done'
    <2>1. CASE s \in Held
      BY <1>1, <2>1, WholeKept DEF WholeInv
    <2>2. CASE Active' /\ s = mem'
      BY <1>1, <2>2, WholeRun
    <2> QED
      BY <2>1, <2>2, StillHeld DEF Held
  <1>2. CASE (CompleteDatabase \/ CompleteError) /\ status' = MarkDone(mem.batch)
    <2> PICK n, B : n = mem.nonce /\ B = mem.batch
      OBVIOUS
    <2>1. pc = "complete" /\ UNCHANGED disk /\ applied' = applied
      BY <1>2 DEF CompleteDatabase, CompleteError, chain, funds
    <2>2. /\ mem \in Held /\ mem \in RunState /\ mem.phase # "blocked" /\ B \in SUBSET Records
          /\ PayoutTotal[B] > 0 => Spent(n)
      BY <2>1, CompletesPaid DEF RunState
    <2>3. Done' = Done \cup B /\ Pending' = Pending \ B /\ (B \subseteq Done => status' = status)
      BY <1>2, <2>2, Marks
    <2>4. CASE B \subseteq Done
      BY <1>1, <2>3, <2>4 DEF Pending, Done
    <2>5. CASE ~(B \subseteq Done) /\ s \in Held
      <3>1. WholeBatch(s)
        BY <2>5 DEF WholeInv
      <3>2. CASE s.batch \subseteq Done /\ (PayoutTotal[s.batch] > 0 => Spent(s.nonce))
        BY <2>3, <3>2, SpentGrows DEF WholeBatch
      <3>3. CASE s.batch \subseteq Pending /\ s.batch \subseteq Done
        <4>1. s.batch = {}
          BY <3>3 DEF Pending, Done
        <4> QED
          BY <4>1 DEF WholeBatch
      <3>4. CASE s.batch \subseteq Pending /\ ~(s.batch \subseteq Done)
        <4>1. s \in RunState /\ Valid(s)
          BY <2>5, HeldRuns, RunIsValid
        <4>2. s.batch = B
          BY <2>1, <2>5, <3>4, <4>1 DEF Held, ClaimInv, Claimed, Active
        <4>3. ASSUME PayoutTotal[B] > 0 PROVE Spent(s.nonce)
          <5>1. PICK q \in applied : q.nonce = n
            BY <2>2, <4>3 DEF Spent
          <5>2. q \in Live /\ q.batch = B
            BY <2>2, <5>1 DEF Live, SafeInv, HeldInv, NoClash, Compatible
          <5>3. Owned(n)
            BY <2>5, <5>1, <5>2 DEF SafeInv, OwnerInv
          <5> QED
            BY <2>2, <2>5, <4>3, <5>3 DEF Owned
        <4>4. s.batch \subseteq Done' /\ (PayoutTotal[s.batch] > 0 => Spent(s.nonce)')
          BY <2>3, <4>2, <4>3, SpentGrows
        <4> QED
          BY <4>4 DEF WholeBatch
      <3> QED
        BY <3>1, <3>2, <3>3, <3>4 DEF WholeBatch
    <2>6. CASE Active' /\ s = mem'
      <3>1. mem'.nonce = n /\ mem'.batch = B
        BY <1>2, <2>2, <2>6, ReturnLeaves
        DEF CompleteDatabase, CompleteError, Save, Go, Active, RunState
      <3> QED
        BY <2>2, <2>3, <2>6, <3>1, SpentGrows DEF WholeBatch
    <2> QED
      BY <2>4, <2>5, <2>6, StillHeld DEF Held
  <1> QED
    BY <1>1, <1>2, StatusSteps

LEMMA WholeAlways ==
  ASSUME MaxDamage <= 1, ~StaleBaseline, ~RegressingReads
  PROVE  Spec => [](TypeOK /\ ShapeInv /\ SafeInv /\ PaidInv /\ ClaimInv /\ WholeInv)
  <1>1. Init => ClaimInv /\ WholeInv
    <2> SUFFICES ASSUME Init PROVE ClaimInv /\ WholeInv
      OBVIOUS
    <2>1. durable = {<<Missing, Missing>>} /\ pc = "down" /\ applied = {} /\ inflight = {}
      BY DEF Init
    <2>2. Live = {} /\ Loadable = {} /\ Held = {} /\ ~Active
      BY <2>1, LoadableIs DEF Live, CanLoad, Valid, Held, Active
    <2> QED
      BY <2>1, <2>2 DEF ClaimInv, WholeInv, Valid
  <1>2. TypeOK /\ ShapeInv /\ SafeInv /\ PaidInv /\ ClaimInv /\ WholeInv /\ [Next]_vars => WholeInv'
    <2> SUFFICES ASSUME TypeOK, ShapeInv, SafeInv, PaidInv, ClaimInv, WholeInv, [Next]_vars
                 PROVE  WholeInv'
      OBVIOUS
    <2>1. \A q \in Live' : PayoutTotal[q.batch] > 0 /\ (Spent(q.nonce)' \/ q.batch \subseteq Pending')
      BY WholeRequests
    <2>2. \A s \in Held' : s.phase # "blocked" => WholeBatch(s)'
      BY WholeRuns
    <2> QED
      BY <2>1, <2>2 DEF WholeInv
  <1> QED
    BY <1>1, <1>2, ClaimStep, PaidAlways, PTL DEF Spec

-----------------------------------------------------------------------------
(* The protocol implements the ledger.                                     *)

(* An execution pays a pending batch that was never paid before.           *)
LEMMA AppliesPays ==
  ASSUME TypeOK, SafeInv, WholeInv, ExchangeApplies
  PROVE  \E B \in SUBSET Records : Ledger!Pay(B)
  <1>1. PICK c \in inflight : ~Spent(c.nonce) /\ applied' = applied \cup {RequestOf(c)}
    BY DEF ExchangeApplies
  <1>2. status' = status
    BY DEF ExchangeApplies
  <1>3. /\ RequestOf(c) \in Live /\ RequestOf(c).nonce = c.nonce /\ RequestOf(c).batch = c.batch
        /\ c.batch \in SUBSET Records
    BY DEF Live, RequestOf, TypeOK, Copy
  <1>4. PayoutTotal[c.batch] > 0 /\ c.batch \subseteq Pending
    BY <1>1, <1>3 DEF WholeInv
  <1>5. ASSUME NEW p \in applied PROVE c.batch \cap p.batch = {}
    <2>1. p \in Live /\ p.nonce # c.nonce
      BY <1>1 DEF Live, Spent
    <2> QED
      BY <1>3, <2>1 DEF SafeInv, LiveInv, Compatible
  <1>6. {q.batch : q \in applied'} = {q.batch : q \in applied} \cup {c.batch}
    BY <1>1, <1>3
  <1>7. Ledger!Pay(c.batch)
    BY <1>2, <1>4, <1>5, <1>6 DEF Ledger!Pay, Ledger!Pending, Pending
  <1> QED
    BY <1>3, <1>7

(* A batch is marked that was paid or owes nothing, or nothing changes.    *)
LEMMA CompletesSettles ==
  ASSUME TypeOK, ShapeInv, SafeInv, PaidInv, WholeInv, applied' = applied, pc = "complete",
         status' = MarkDone(mem.batch)
  PROVE  status' = status \/ \E B \in SUBSET Records : Ledger!Settle(B)
  <1> PICK n, B : n = mem.nonce /\ B = mem.batch
    OBVIOUS
  <1>1. /\ mem \in Held /\ mem.phase # "blocked" /\ B \in SUBSET Records
        /\ PayoutTotal[B] > 0 => Spent(n)
    BY CompletesPaid DEF RunState
  <1>2. CASE B \subseteq Done
    BY <1>1, <1>2, Marks
  <1>3. CASE B \subseteq Pending
    <2>1. B \in {q.batch : q \in applied} \/ PayoutTotal[B] = 0
      <3>1. CASE PayoutTotal[B] > 0
        <4>1. PICK q \in applied : q.nonce = n
          BY <1>1, <3>1 DEF Spent
        <4>2. q.batch = B
          BY <1>1, <4>1 DEF Live, SafeInv, HeldInv, NoClash, Compatible
        <4> QED
          BY <4>2
      <3>2. CASE ~(PayoutTotal[B] > 0)
        <4>1. PayoutTotal[B] \in Nat
          BY <1>1
        <4> QED
          BY <3>2, <4>1
      <3> QED
        BY <3>1, <3>2
    <2>2. Ledger!Settle(B)
      BY <1>3, <2>1 DEF Ledger!Settle, Ledger!Pending, Pending, MarkDone
    <2> QED
      BY <1>1, <2>2
  <1> QED
    BY <1>1, <1>2, <1>3 DEF WholeInv, WholeBatch

LEMMA LedgerStep ==
  ASSUME TypeOK, ShapeInv, SafeInv, PaidInv, WholeInv, [Next]_vars
  PROVE  [Ledger!LedgerNext]_(Ledger!ledgerVars)
  <1>1. CASE UNCHANGED <<status, applied>>
    BY <1>1 DEF Ledger!ledgerVars
  <1>2. CASE InsertRecord
    <2>1. PICK r \in Records : status[r] = "absent" /\ status' = [status EXCEPT ![r] = "pending"]
      BY <1>2 DEF InsertRecord
    <2>2. applied' = applied
      BY <1>2 DEF InsertRecord, chain, funds
    <2>3. Ledger!Accrue(r)
      BY <2>1, <2>2 DEF Ledger!Accrue
    <2> QED
      BY <2>3 DEF Ledger!LedgerNext
  <1>3. CASE CompleteDatabase \/ CompleteError
    <2>1. pc = "complete" /\ applied' = applied /\ status' \in {status, MarkDone(mem.batch)}
      BY <1>3 DEF CompleteDatabase, CompleteError, chain, funds
    <2> QED
      BY <1>1, <2>1, CompletesSettles DEF Ledger!LedgerNext
  <1>4. CASE ExchangeApplies
    BY <1>4, AppliesPays DEF Ledger!LedgerNext
  <1>5. ASSUME ~ExchangeApplies PROVE applied' = applied
    BY <1>5, StepChanges DEF PreflightRead, ObserveRead, Deposit, funds
  <1> QED
    BY <1>1, <1>2, <1>3, <1>4, <1>5, StepChanges

(* The payout protocol implements the ledger: every execution by the       *)
(* exchange pays a whole batch of pending records that was never paid, and *)
(* the table marks done only whole batches that were paid or owe nothing.  *)
THEOREM PayoutImplementsLedger ==
  ASSUME MaxDamage <= 1, ~StaleBaseline, ~RegressingReads
  PROVE  Spec => ImplementsLedger
  <1>1. Init => Ledger!LedgerInit
    BY DEF Init, Ledger!LedgerInit
  <1>2. TypeOK /\ ShapeInv /\ SafeInv /\ PaidInv /\ WholeInv /\ [Next]_vars
          => [Ledger!LedgerNext]_(Ledger!ledgerVars)
    BY LedgerStep
  <1> QED
    BY <1>1, <1>2, WholeAlways, PTL DEF Spec, ImplementsLedger, Ledger!LedgerSpec
=============================================================================
