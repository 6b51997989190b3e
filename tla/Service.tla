------------------------------ MODULE Service -------------------------------
(***************************************************************************)
(* The processes started on one data directory: the funding service        *)
(* (app.New, App.Run, App.Close) and the consolidate-only command          *)
(* (ConsolidateFunds).  The lock file lets one of them work at a time; the *)
(* one that works signs requests with nonces taken from the clock          *)
(* (internal/state/lock_unix.go, internal/hyperliquid/signing/nonce.go,    *)
(* PrepareClaim and PrepareSpotSend in exchange/client.go).  What the      *)
(* tasks sign, and when, is left open.                                     *)
(***************************************************************************)
EXTENDS Integers, Sequences

CONSTANTS
  Processes,    \* processes an operator or a supervisor starts
  Commands,     \* those among them started with -consolidate-only
  Builders,     \* accounts with rewards
  Settlement,   \* the account that sends the payouts
  Amounts,      \* amounts of a spot send
  NoProcess,    \* the holder of a free lock
  MaxClock,     \* bound: milliseconds of the clock
  MaxSent       \* bound: requests signed

ASSUME ServiceAssumption ==
  /\ Commands \subseteq Processes /\ NoProcess \notin Processes
  /\ Settlement \notin Builders
  /\ Amounts \subseteq Nat \ {0}
  /\ MaxClock \in Nat \ {0} /\ MaxSent \in Nat

Clocks == 1..MaxClock   \* UnixMilli

VARIABLES
  pc,       \* where every process stands
  lock,     \* the process that holds the lock
  last,     \* last nonce of the generator of every process, 0 when new
  sent,     \* every request signed so far, in order
  behind    \* did a generator start at or below an earlier nonce?

vars == <<pc, lock, last, sent, behind>>

Init ==
  /\ pc = [p \in Processes |-> "off"] /\ lock = NoProcess
  /\ last = [p \in Processes |-> 0] /\ sent = <<>> /\ behind = FALSE

-----------------------------------------------------------------------------
(* Starting and ending                                                     *)

(* Mutant: the process goes on although the lock is held.                  *)
AcquireAnyway(p) ==
  /\ pc[p] = "off"
  /\ pc' = [pc EXCEPT ![p] = "running"] /\ lock' = p
  /\ UNCHANGED <<last, sent, behind>>

AcquireProcessLock(p) ==
  /\ pc[p] = "off" /\ lock = NoProcess
  /\ pc' = [pc EXCEPT ![p] = "running"] /\ lock' = p
  /\ UNCHANGED <<last, sent, behind>>

(* A process starts, up to its new nonce generator.  A start that fails    *)
(* before the lock, or finds it held, leaves nothing behind.               *)
New(p) == p \notin Commands /\ AcquireProcessLock(p)
ConsolidateFunds(p) == p \in Commands /\ AcquireProcessLock(p)

(* App.Close, the clean-up of a failed start, the end of the command; or   *)
(* the process dies and the kernel drops its lock.  The generator is gone. *)
Leave(p) ==
  /\ pc[p] = "running"
  /\ pc' = [pc EXCEPT ![p] = "off"] /\ lock' = NoProcess
  /\ last' = [last EXCEPT ![p] = 0]
  /\ UNCHANGED <<sent, behind>>

-----------------------------------------------------------------------------
(* Signing                                                                 *)

(* buildSigners, buildBuilderSigners                                       *)
Signers(p) == IF p \in Commands THEN Builders ELSE Builders \cup {Settlement}

(* What the tasks submit for an account: claims for a builder, sends for   *)
(* all.                                                                    *)
Actions(signer) ==
  [kind : {"spotSend"}, amount : Amounts]
    \cup (IF signer \in Builders THEN [kind : {"claimRewards"}, amount : {0}] ELSE {})

(* NonceGenerator.Next, with the clock at that moment: it goes on, or is   *)
(* set back or forward.                                                    *)
NextNonce(p, clock) == IF clock <= last[p] THEN last[p] + 1 ELSE clock

Nonces == {sent[i].nonce : i \in 1..Len(sent)}

(* PrepareClaim, PrepareSpotSend: the nonce is part of what is signed.     *)
Prepare(p, clock, signer, action) ==
  /\ pc[p] = "running" /\ Len(sent) < MaxSent
  /\ LET nonce == NextNonce(p, clock) IN
       /\ last' = [last EXCEPT ![p] = nonce]
       /\ sent' = Append(sent, [signer |-> signer, nonce |-> nonce, action |-> action])
  /\ behind' = (behind \/ (last[p] = 0 /\ \E n \in Nonces : clock <= n))
  /\ UNCHANGED <<pc, lock>>

Next ==
  \E p \in Processes :
       \/ New(p) \/ ConsolidateFunds(p) \/ Leave(p)
       \/ \E clock \in Clocks, signer \in Signers(p) :
            \E action \in Actions(signer) : Prepare(p, clock, signer, action)

Spec == Init /\ [][Next]_vars

-----------------------------------------------------------------------------
(* Every request carries a higher nonce than every request signed before   *)
(* it, by this process or by one that held the lock earlier, although      *)
(* several are signed in one millisecond and the clock is set back while a *)
(* process works.  What the code leaves to the host: the clock is beyond   *)
(* the earlier nonces when a new generator is first used (Next,            *)
(* AcquireProcessLock).                                                    *)
NoncesGrow ==
  ~behind => \A i, j \in 1..Len(sent) : i < j => sent[i].nonce < sent[j].nonce
=============================================================================
