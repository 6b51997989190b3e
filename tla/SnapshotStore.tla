--------------------------- MODULE SnapshotStore ---------------------------
(***************************************************************************)
(* The two rotating snapshot files of internal/state/store.go, as pure     *)
(* operators over a pair (cur, bak) of file contents: current.json and     *)
(* current.json.bak.  A file is Missing, Invalid (unreadable, wrong        *)
(* schema, wrong checksum, wrong permissions: loadSnapshot answers         *)
(* exists=true with an error) or the run state it holds.                   *)
(*                                                                         *)
(* An operation that writes is given as the SET of its possible results:   *)
(* every step of it may fail, and the process may also die after any step. *)
(* A crash inside Save or Clear leaves the pair that some failing result   *)
(* leaves, so the composing module needs no finer steps.  Only the         *)
(* directory sync at the end of both makes the renames and removals        *)
(* durable: until one succeeds, a power loss may undo any of them, each    *)
(* for itself.  D is the set of pairs the disk may hold after a power loss.*)
(***************************************************************************)

CONSTANTS
  Missing,   \* os.ErrNotExist
  Invalid    \* the file exists and loadSnapshot returns an error

ASSUME FilesAssumption == Missing # Invalid

(* loadSnapshot: the file exists and its envelope decodes.                 *)
Valid(f) == f \notin {Missing, Invalid}

(* LoadWithMetadata: the primary wins; the backup is used only when the    *)
(* primary is missing or invalid; two missing files are an empty store;    *)
(* anything else is an error.                                              *)
LoadsPrimary(c, b) == Valid(c)
LoadsBackup(c, b)  == ~Valid(c) /\ Valid(b)
LoadsNothing(c, b) == c = Missing /\ b = Missing
LoadFails(c, b)    == ~Valid(c) /\ ~Valid(b) /\ ~LoadsNothing(c, b)

(* What an operation leaves: both files, its result, and the pairs a power *)
(* loss may bring back, of which syncDir leaves one.                       *)
Outcome(c, b, result, D) ==
  [cur |-> c, bak |-> b, result |-> result, durable |-> D]

(* Mutant: the operation ends before the directory is synced.              *)
SyncSkipped(c, b, D) == Outcome(c, b, "ok", D)

Synced(c, b, D) == Outcome(c, b, "ok", {<<c, b>>})

(* One rename or removal that may be durable or not.                       *)
Rotated(D, c)   == D \cup {<<Missing, c>>}
Installed(D, s) == D \cup {<<s, p[2]>> : p \in D}
NoBackup(D)     == D \cup {<<p[1], Missing>> : p \in D}
NoPrimary(D)    == D \cup {<<Missing, p[2]>> : p \in D}

(* Save: write a temp file, rotate a valid primary over the backup, refuse *)
(* to replace an invalid primary that no valid backup protects, install    *)
(* the temp file, sync the directory.                                      *)
SaveRotates(c, b)  == Valid(c)
SaveInstalls(c, b) == c = Missing \/ (c = Invalid /\ Valid(b))

SaveResults(c, b, D, s) ==
  {Outcome(c, b, "err", D)}
    \cup (IF SaveRotates(c, b)
          THEN {Outcome(Missing, c, "err", Rotated(D, c)),
                Outcome(s, c, "err", Installed(Rotated(D, c), s)),
                Synced(s, c, Installed(Rotated(D, c), s))}
          ELSE {})
    \cup (IF SaveInstalls(c, b)
          THEN {Outcome(s, b, "err", Installed(D, s)), Synced(s, b, Installed(D, s))}
          ELSE {})

(* Clear: remove the backup, then the primary, then sync the directory.    *)
ClearResults(c, b, D) ==
  {Outcome(c, b, "err", D), Outcome(c, Missing, "err", NoBackup(D)),
   Outcome(Missing, Missing, "err", NoPrimary(NoBackup(D))),
   Synced(Missing, Missing, NoPrimary(NoBackup(D)))}
=============================================================================
