--------------------------- MODULE ServiceProofs ----------------------------
(***************************************************************************)
(* The nonces of one data directory grow, for any number of processes,     *)
(* requests and clock changes, in the processes alone and composed with    *)
(* the network and the exchange; the composition keeps the contract the    *)
(* tasks are written against, and the sum of all accounts.                 *)
(***************************************************************************)
EXTENDS Submission, FiniteSetTheorems, TLAPS

-----------------------------------------------------------------------------
(* The inductive invariant.                                                *)

Typed ==
  /\ pc \in [Processes -> {"off", "running"}]
  /\ last \in [Processes -> Nat]
  /\ sent \in Seq([signer : Builders \cup {Settlement}, nonce : Nat,
                   action : UNION {Actions(a) : a \in Builders \cup {Settlement}}])
  /\ behind \in BOOLEAN

(* One process works at a time, and only its generator is in use.          *)
Exclusive ==
  /\ \A p \in Processes : pc[p] = "running" => lock = p
  /\ \A p \in Processes : last[p] # 0 => pc[p] = "running"

(* A generator in use is not below any nonce handed out before.            *)
Ahead ==
  ~behind => \A p \in Processes : last[p] # 0 =>
                \A i \in 1..Len(sent) : sent[i].nonce <= last[p]

IInv == Typed /\ Exclusive /\ Ahead /\ NoncesGrow

LEMMA InitIInv == Init => IInv
<1> SUFFICES ASSUME Init PROVE IInv
  OBVIOUS
<1>1. behind \in BOOLEAN
  BY DEF Init
<1>2. pc \in [Processes -> {"off", "running"}] /\ last \in [Processes -> Nat] /\ sent = <<>>
      /\ \A p \in Processes : pc[p] = "off" /\ last[p] = 0
  BY DEF Init
<1>3. Typed
  BY <1>1, <1>2 DEF Typed
<1>4. Exclusive /\ Ahead /\ NoncesGrow
  BY <1>2 DEF Exclusive, Ahead, NoncesGrow
<1> QED
  BY <1>3, <1>4 DEF IInv

(* The nonce handed out is new to the process that signs.                  *)
LEMMA NextNonceGrows ==
  ASSUME IInv, NEW p \in Processes, NEW clock \in Clocks
  PROVE  /\ NextNonce(p, clock) \in Nat \ {0}
         /\ NextNonce(p, clock) > last[p] /\ NextNonce(p, clock) >= clock
BY ServiceAssumption DEF IInv, Typed, NextNonce, Clocks

LEMMA PrepareStep ==
  ASSUME IInv, NEW p \in Processes, NEW clock \in Clocks, NEW signer \in Signers(p),
         NEW action \in Actions(signer), Prepare(p, clock, signer, action)
  PROVE  IInv'
<1> DEFINE n == NextNonce(p, clock)
           req == [signer |-> signer, nonce |-> n, action |-> action]
<1>1. n \in Nat \ {0} /\ n > last[p] /\ n >= clock /\ clock \in Nat
  BY NextNonceGrows, ServiceAssumption DEF Clocks
<1>2. signer \in Builders \cup {Settlement}
  BY DEF Signers
<1>3. sent' = Append(sent, req) /\ last' = [last EXCEPT ![p] = n]
      /\ UNCHANGED <<pc, lock>> /\ pc[p] = "running"
  BY DEF Prepare
<1> DEFINE T == [signer : Builders \cup {Settlement}, nonce : Nat,
                 action : UNION {Actions(a) : a \in Builders \cup {Settlement}}]
<1>4. sent \in Seq(T) /\ req \in T
  BY <1>1, <1>2 DEF IInv, Typed
<1> HIDE DEF n, T
<1>5. Len(sent) \in Nat /\ Len(sent') = Len(sent) + 1
      /\ sent'[Len(sent) + 1] = req
      /\ \A i \in 1..Len(sent) : sent'[i] = sent[i] /\ sent[i] \in T
  BY <1>3, <1>4
<1>6. behind' \in BOOLEAN
  BY DEF Prepare, IInv, Typed
<1>7. Typed'
  <2>1. sent' \in Seq(T)
    BY <1>3, <1>4
  <2>2. pc' \in [Processes -> {"off", "running"}] /\ last' \in [Processes -> Nat]
    BY <1>1, <1>3 DEF IInv, Typed
  <2> QED
    BY <1>6, <2>1, <2>2 DEF Typed, T, Actions
<1>8. Exclusive'
  BY <1>3 DEF IInv, Typed, Exclusive
<1>9. ASSUME ~ behind' PROVE ~ behind /\ \A i \in 1..Len(sent) : sent[i].nonce < n
  <2>1. ~ behind /\ (last[p] = 0 => \A k \in Nonces : ~(clock <= k))
    BY <1>9 DEF Prepare
  <2>2. \A i \in 1..Len(sent) : sent[i].nonce \in Nat /\ sent[i].nonce \in Nonces
    BY <1>5 DEF T, Nonces
  <2>3. CASE last[p] = 0
    BY <1>1, <2>1, <2>2, <2>3
  <2>4. CASE last[p] # 0
    <3>1. \A i \in 1..Len(sent) : sent[i].nonce <= last[p]
      BY <2>1, <2>4 DEF IInv, Ahead
    <3>2. last[p] \in Nat
      BY DEF IInv, Typed
    <3> QED
      BY <1>1, <2>1, <2>2, <3>1, <3>2
  <2> QED
    BY <2>3, <2>4
<1>10. Ahead'
  <2> SUFFICES ASSUME ~ behind', NEW q \in Processes, last'[q] # 0,
                      NEW i \in 1..Len(sent')
               PROVE  sent'[i].nonce <= last'[q]
    BY DEF Ahead
  <2>1. q = p
    BY <1>3, <1>8 DEF Exclusive
  <2>2. last'[q] = n
    BY <1>3, <2>1 DEF IInv, Typed
  <2>3. CASE i = Len(sent) + 1
    BY <1>1, <1>5, <2>2, <2>3
  <2>4. CASE i \in 1..Len(sent)
    <3>1. sent[i].nonce < n /\ sent'[i] = sent[i] /\ sent[i].nonce \in Nat
      BY <1>5, <1>9, <2>4 DEF T
    <3> QED
      BY <1>1, <2>2, <3>1
  <2> QED
    BY <1>5, <2>3, <2>4
<1>11. NoncesGrow'
  <2> SUFFICES ASSUME ~ behind', NEW i \in 1..Len(sent'), NEW j \in 1..Len(sent'), i < j
               PROVE  sent'[i].nonce < sent'[j].nonce
    BY DEF NoncesGrow
  <2>1. i \in 1..Len(sent) /\ sent'[i] = sent[i]
    BY <1>5
  <2>2. CASE j = Len(sent) + 1
    BY <1>5, <1>9, <2>1, <2>2
  <2>3. CASE j \in 1..Len(sent)
    BY <1>5, <1>9, <2>1, <2>3 DEF IInv, NoncesGrow
  <2> QED
    BY <1>5, <2>2, <2>3
<1> QED
  BY <1>7, <1>8, <1>10, <1>11 DEF IInv

LEMMA NextIInv == IInv /\ [Next]_vars => IInv'
<1> SUFFICES ASSUME IInv, [Next]_vars PROVE IInv'
  OBVIOUS
<1>1. CASE UNCHANGED vars
  BY <1>1 DEF vars, IInv, Typed, Exclusive, Ahead, NoncesGrow
<1>2. ASSUME NEW p \in Processes, AcquireProcessLock(p) PROVE IInv'
  BY <1>2, ServiceAssumption
  DEF AcquireProcessLock, IInv, Typed, Exclusive, Ahead, NoncesGrow
<1>3. ASSUME NEW p \in Processes, Leave(p) PROVE IInv'
  BY <1>3, ServiceAssumption DEF Leave, IInv, Typed, Exclusive, Ahead, NoncesGrow
<1>4. ASSUME NEW p \in Processes, NEW clock \in Clocks, NEW signer \in Signers(p),
             NEW action \in Actions(signer), Prepare(p, clock, signer, action)
      PROVE  IInv'
  BY <1>4, PrepareStep
<1> QED
  BY <1>1, <1>2, <1>3, <1>4 DEF Next, New, ConsolidateFunds

-----------------------------------------------------------------------------
(* Nonces grow in every behaviour of the processes (NonceGenerator.Next    *)
(* under AcquireProcessLock).                                              *)
THEOREM NoncesAlwaysGrow == Spec => []NoncesGrow
<1>1. IInv => NoncesGrow
  BY DEF IInv
<1> QED
  BY <1>1, InitIInv, NextIInv, PTL DEF Spec

(* A step of the composed system is a step of the processes or leaves them *)
(* alone.                                                                  *)
LEMMA SubmissionStep == [SubmissionNext]_all => [Next]_vars
<1>1. ASSUME NEW p \in Processes, Process(p) PROVE [Next]_vars
  <2>1. CASE New(p) \/ ConsolidateFunds(p)
    BY <2>1 DEF Next
  <2>2. ASSUME NEW clock \in Clocks, NEW signer \in Signers(p), NEW action \in Actions(signer),
               Submit(p, clock, signer, action)
        PROVE  Next
    BY <2>2 DEF Submit, Next
  <2>3. ASSUME NEW i, Resubmit(p, i) PROVE UNCHANGED vars
    BY <2>3 DEF Resubmit
  <2>4. ASSUME NEW v, Receive(p, v) PROVE UNCHANGED vars
    BY <2>4 DEF Receive
  <2>5. CASE Stop(p)
    BY <2>5 DEF Stop, Next
  <2> QED
    BY <1>1, <2>1, <2>2, <2>3, <2>4, <2>5 DEF Process
<1>2. ASSUME NEW i, Deliver(i) PROVE UNCHANGED vars
  BY <1>2 DEF Deliver
<1>3. UNCHANGED all => UNCHANGED vars
  BY DEF all
<1> QED
  BY <1>1, <1>2, <1>3 DEF SubmissionNext

(* Nor does anything the network and the exchange do change that           *)
(* (Submit).                                                               *)
THEOREM SubmittedNoncesGrow == SubmissionSpec => []NoncesGrow
<1>1. SubmissionSpec => Spec
  BY SubmissionStep, PTL DEF SubmissionSpec, SubmissionInit, Spec
<1> QED
  BY <1>1, NoncesAlwaysGrow, PTL

-----------------------------------------------------------------------------
(* The contract.  An exchange keeps one answer for a signer and a nonce,   *)
(* the one of the request it carried out if there is such a request, and   *)
(* an answer that has reached a process is true of the request it waits    *)
(* for: a refusal only of a request that was not repeated.                 *)

Responses == [code : Nat, whole : BOOLEAN, status : {"ok", "err", "unknown"}]

True(r, a) ==
  Posted(a) => /\ a.status = "ok" => r \in executed
               /\ a.status = "err" /\ r \notin repeated => r \notin executed

Kept == \A e \in executed : Key(e) \in DOMAIN outcomes /\ outcomes[Key(e)].body = e

Answered ==
  \A k \in DOMAIN outcomes :
    /\ Key(outcomes[k].body) = k /\ outcomes[k].answer \in Responses
    /\ True(outcomes[k].body, outcomes[k].answer)

Waits(p) ==
  /\ wait[p] <= Len(sent) /\ (wait[p] = 0 => arrived[p] = {})
  /\ \A a \in arrived[p] : Key(sent[wait[p]]) \in DOMAIN outcomes /\ True(sent[wait[p]], a)

Called ==
  /\ wait \in [Processes -> Nat] /\ arrived \in [Processes -> SUBSET Responses]
  /\ \A p \in Processes : Waits(p)

ContractInv == IInv /\ Kept /\ Answered /\ Called

LEMMA InitContractInv == SubmissionInit => ContractInv /\ C!Init
<1> SUFFICES ASSUME SubmissionInit PROVE ContractInv /\ C!Init
  OBVIOUS
<1>1. IInv /\ sent = <<>> /\ outcomes = <<>> /\ executed = {} /\ verdicts = {}
      /\ wait = [p \in Processes |-> 0] /\ arrived = [p \in Processes |-> {}]
  BY InitIInv DEF SubmissionInit, Init, ExchangeInit
<1>2. Refused = {}
  BY <1>1 DEF Refused, Range
<1> QED
  BY <1>1, <1>2 DEF ContractInv, Kept, Answered, Called, Waits, C!Init

(* A new nonce gets its answer, the other answers stay, and what the       *)
(* exchange answers is true of what it did.                                *)
LEMMA FirstIsTrue ==
  ASSUME ContractInv, NEW r, NEW mode \in {"none"} \cup Failures,
         Key(r) \notin DOMAIN outcomes, HandleFirst(r, mode)
  PROVE  /\ DOMAIN outcomes' = DOMAIN outcomes \cup {Key(r)}
         /\ outcomes'[Key(r)] = [body |-> r, answer |-> NewAnswer(r, mode)]
         /\ \A k \in DOMAIN outcomes : outcomes'[k] = outcomes[k]
         /\ executed' = executed \/ executed' = executed \cup {r}
         /\ NewAnswer(r, mode) \in Responses
         /\ \E a : a = NewAnswer(r, mode) /\ True(r, a)'
<1>1. r \notin executed
  BY DEF ContractInv, Kept
<1>2. /\ DOMAIN outcomes' = DOMAIN outcomes \cup {Key(r)}
      /\ outcomes'[Key(r)] = [body |-> r, answer |-> NewAnswer(r, mode)]
      /\ \A k \in DOMAIN outcomes : outcomes'[k] = outcomes[k]
  BY DEF HandleFirst
<1>3. /\ ShouldApply(mode) /\ Applicable(r) => executed' = executed \cup {r}
      /\ ~(ShouldApply(mode) /\ Applicable(r)) => executed' = executed
  BY DEF HandleFirst, Apply, accounts
<1>4. mode \in FailureMode
  BY ExchangeAssumption DEF FailureMode
<1>5. PICK a : a = NewAnswer(r, mode)
  OBVIOUS
<1>6. a \in Responses /\ True(r, a)'
  <2>0. \A n \in Nat, t \in {"ok", "err", "unknown"} :
          Answer(n, t) \in Responses /\ Answer(n, t).status = t
    BY DEF Answer, Responses
  <2>1. CASE ShouldApply(mode) /\ ~Applicable(r)
    <3>1. a = Answer(200, "err")
      BY <1>5, <2>1 DEF NewAnswer
    <3> QED
      BY <1>1, <1>3, <2>1, <3>1 DEF Answer, Responses, True
  <2>2. CASE ShouldApply(mode) /\ Applicable(r)
    <3>1. a \in {Answer(200, "ok"), Answer(200, "unknown"), Answer(503, "unknown")}
      BY <1>4, <1>5, <2>2 DEF NewAnswer, ShouldApply, FailureMode
    <3>2. a \in Responses /\ a.status # "err"
      BY <2>0, <3>1
    <3> QED
      BY <1>3, <2>2, <3>2 DEF True
  <2>3. CASE ~ShouldApply(mode)
    <3>1. a \in {Answer(200, "err"), Answer(200, "unknown"), Answer(503, "unknown")}
      BY <1>4, <1>5, <2>3 DEF NewAnswer, ShouldApply, FailureMode
    <3>2. a \in Responses /\ a.status # "ok"
      BY <2>0, <3>1
    <3> QED
      BY <1>1, <1>3, <2>3, <3>2 DEF True
  <2> QED
    BY <2>1, <2>2, <2>3
<1> QED
  BY <1>2, <1>3, <1>5, <1>6

(* Carried out, refused or repeated, a request stays so.                   *)
Monotone ==
  /\ executed \subseteq executed' /\ DOMAIN outcomes \subseteq DOMAIN outcomes'
  /\ \A e \in executed' \ executed : Key(e) \notin DOMAIN outcomes
  /\ repeated \subseteq repeated'
  /\ \E n : Len(sent') >= n /\ n = Len(sent) /\ \A i \in 1..n : sent'[i] = sent[i]

LEMMA TruthStays ==
  ASSUME Monotone, NEW r, NEW a, Key(r) \in DOMAIN outcomes, True(r, a)
  PROVE  Key(r) \in DOMAIN outcomes' /\ True(r, a)'
BY DEF Monotone, True

LEMMA RefusedStays ==
  ASSUME IInv, IInv', Monotone
  PROVE  Refused \subseteq Refused' /\ executed' \cap Refused' = {}
<1>1. PICK n : Len(sent') >= n /\ n = Len(sent) /\ \A i \in 1..n : sent'[i] = sent[i]
  BY DEF Monotone
<1>2. Len(sent) \in Nat /\ Len(sent') \in Nat /\ DOMAIN sent = 1..Len(sent)
      /\ DOMAIN sent' = 1..Len(sent')
  BY DEF IInv, Typed
<1>3. Range(sent) \subseteq Range(sent')
  <2> SUFFICES ASSUME NEW i \in 1..Len(sent) PROVE sent[i] \in Range(sent')
    BY <1>2 DEF Range
  <2>1. i \in 1..Len(sent') /\ sent'[i] = sent[i]
    BY <1>1, <1>2
  <2> QED
    BY <1>2, <2>1 DEF Range
<1>4. ASSUME NEW r \in Refused PROVE r \in Refused'
  <2>1. r \in Range(sent') /\ Key(r) \in DOMAIN outcomes' /\ r \notin executed'
    BY <1>3 DEF Refused, Monotone
  <2> QED
    BY <2>1 DEF Refused
<1>5. executed' \cap Refused' = {}
  BY DEF Refused
<1> QED
  BY <1>4, <1>5

(* One request is carried out for a signer and a nonce.                    *)
LEMMA OnePerKey ==
  ASSUME Kept
  PROVE  \A r, s \in executed : r.signer = s.signer /\ r.nonce = s.nonce => r = s
BY DEF Kept, Key

LEMMA SettleStep ==
  ASSUME ContractInv, ContractInv', Monotone, UNCHANGED verdicts
  PROVE  C!Settle
<1>1. Refused \subseteq Refused' /\ executed' \cap Refused' = {}
  BY RefusedStays DEF ContractInv
<1>2. (\A r, s \in executed : r.signer = s.signer /\ r.nonce = s.nonce => r = s)'
  <2>1. Kept'
    BY DEF ContractInv
  <2> QED
    BY <2>1, OnePerKey DEF Kept, Key
<1> QED
  BY <1>1, <1>2 DEF C!Settle, Monotone

-----------------------------------------------------------------------------
(* The steps of a process                                                  *)

(* A process waits for a request, or stops waiting.                        *)
LEMMA CallKeeps ==
  ASSUME ContractInv, IInv', Monotone, UNCHANGED <<executed, outcomes>>, NEW p \in Processes,
         NEW i \in 0..Len(sent'), wait' = [wait EXCEPT ![p] = i],
         arrived' = [arrived EXCEPT ![p] = {}]
  PROVE  ContractInv'
<1>1. Kept' /\ Answered'
  BY DEF ContractInv, Kept, Answered, True, Monotone
<1>2. wait \in [Processes -> Nat] /\ arrived \in [Processes -> SUBSET Responses]
  BY DEF ContractInv, Called
<1>3. i \in Nat /\ wait' \in [Processes -> Nat] /\ arrived' \in [Processes -> SUBSET Responses]
  BY <1>2 DEF IInv, Typed
<1>4. PICK n : Len(sent') >= n /\ n = Len(sent) /\ \A j \in 1..n : sent'[j] = sent[j]
  BY DEF Monotone
<1>5. Len(sent) \in Nat /\ Len(sent') \in Nat
  BY DEF ContractInv, IInv, Typed
<1>6. ASSUME NEW q \in Processes PROVE Waits(q)'
  <2>1. CASE q = p
    <3>1. wait'[q] = i /\ arrived'[q] = {}
      BY <1>2, <2>1
    <3> QED
      BY <1>5, <3>1 DEF Waits
  <2>2. CASE q # p
    <3>1. wait'[q] = wait[q] /\ arrived'[q] = arrived[q] /\ wait[q] \in Nat
      BY <1>2, <2>2
    <3>2. wait[q] <= Len(sent) /\ (wait[q] = 0 => arrived[q] = {})
          /\ \A a \in arrived[q] :
               Key(sent[wait[q]]) \in DOMAIN outcomes /\ True(sent[wait[q]], a)
      BY DEF ContractInv, Called, Waits
    <3>3. wait[q] # 0 => sent'[wait[q]] = sent[wait[q]]
      BY <1>4, <1>5, <3>1, <3>2
    <3>4. wait'[q] <= Len(sent')
      BY <1>4, <1>5, <3>1, <3>2
    <3> QED
      BY <3>1, <3>2, <3>3, <3>4 DEF True, Waits, Monotone
  <2> QED
    BY <2>1, <2>2
<1> QED
  BY <1>1, <1>3, <1>6 DEF ContractInv, Called

LEMMA NothingSettled ==
  ASSUME IInv, UNCHANGED <<sent, outcomes, executed>>, repeated \subseteq repeated'
  PROVE  Monotone /\ Refused' = Refused
<1>1. Len(sent) \in Nat
  BY DEF IInv, Typed
<1>2. Monotone
  BY <1>1 DEF Monotone
<1>3. Refused' = Refused
  BY DEF Refused
<1> QED
  BY <1>2, <1>3

(* The contract's variables do not change.                                 *)
LEMMA Stutters ==
  ASSUME ContractInv, UNCHANGED <<sent, outcomes, executed, verdicts>>
  PROVE  UNCHANGED C!vars
BY DEF Refused, C!vars

LEMMA SubmitStep ==
  ASSUME ContractInv, IInv', NEW p \in Processes, NEW clock \in Clocks, NEW signer \in Signers(p),
         NEW action \in Actions(signer), Submit(p, clock, signer, action)
  PROVE  ContractInv' /\ C!Next
<1>1. /\ wait[p] = 0 /\ wait' = [wait EXCEPT ![p] = Len(sent')] /\ arrived' = arrived
      /\ UNCHANGED <<executed, outcomes, verdicts>> /\ repeated \subseteq repeated'
      /\ \E r : sent' = Append(sent, r)
  BY DEF Submit, Prepare, exchange, accounts
<1>2. PICK T, r : sent \in Seq(T) /\ sent' = Append(sent, r)
  BY <1>1 DEF ContractInv, IInv, Typed
<1>3. Len(sent) \in Nat /\ Len(sent') = Len(sent) + 1 /\ \A i \in 1..Len(sent) : sent'[i] = sent[i]
  BY <1>2
<1>4. Monotone
  BY <1>1, <1>3 DEF Monotone
<1>5. arrived' = [arrived EXCEPT ![p] = {}]
  BY <1>1 DEF ContractInv, Called, Waits
<1>6. PICK n \in 0..Len(sent') : n = Len(sent')
  BY <1>3
<1>7. ContractInv'
  BY <1>1, <1>4, <1>5, <1>6, CallKeeps
<1> QED
  BY <1>1, <1>4, <1>7, SettleStep DEF C!Next

(* A definite verdict repeats an answer that is true; the responses of     *)
(* others give none.                                                       *)
LEMMA ReceiveStep ==
  ASSUME ContractInv, IInv', NEW p \in Processes, NEW a \in arrived[p] \cup Foreign,
         Receive(p, Verdict(a))
  PROVE  ContractInv' /\ [C!Next]_(C!vars)
<1>1. /\ wait[p] # 0 /\ wait' = [wait EXCEPT ![p] = 0] /\ arrived' = [arrived EXCEPT ![p] = {}]
      /\ UNCHANGED <<sent, executed, outcomes, repeated>>
      /\ verdicts' = IF Verdict(a) = "unknown" THEN verdicts
                     ELSE verdicts \cup {[request |-> sent[wait[p]], answer |-> Verdict(a),
                                          first |-> sent[wait[p]] \notin repeated]}
  BY DEF Receive, vars, exchange, accounts
<1>2. Monotone /\ Refused' = Refused
  BY <1>1, NothingSettled DEF ContractInv
<1>3. 0 \in 0..Len(sent')
  BY <1>1 DEF ContractInv, IInv, Typed
<1>4. ContractInv'
  BY <1>1, <1>2, <1>3, CallKeeps
<1>5. CASE Verdict(a) = "unknown"
  BY <1>1, <1>4, <1>5, Stutters
<1>6. CASE Verdict(a) # "unknown"
  <2>1. Posted(a) /\ a.status \in {"ok", "err"}
    BY <1>6 DEF Verdict
  <2>2. a \notin Foreign
    <3> SUFFICES ASSUME a \in Foreign PROVE FALSE
      OBVIOUS
    <3>1. a.code # 200 \/ a.whole = FALSE \/ a.status \in {"unparsable", "unknown"}
      <4>1. CASE a \in [code : {0}, whole : {FALSE}, status : {"none"}]
        BY <4>1
      <4>2. CASE a \in [code : {503}, whole : BOOLEAN, status : {"ok", "err", "unknown"}]
        BY <4>2
      <4>3. CASE a \in [code : {200}, whole : {FALSE}, status : {"ok", "err"}]
        BY <4>3
      <4>4. CASE a \in [code : {200}, whole : {TRUE}, status : {"unparsable", "unknown"}]
        BY <4>4
      <4> QED
        BY <4>1, <4>2, <4>3, <4>4 DEF Foreign
    <3>2. a.whole # FALSE
      BY <2>1 DEF Posted
    <3>3. a.code = 200
      BY <2>1 DEF Posted
    <3> QED
      BY <2>1, <3>1, <3>2, <3>3
  <2>3. PICK r : r = sent[wait[p]]
    OBVIOUS
  <2>4. Key(r) \in DOMAIN outcomes /\ True(r, a)
    BY <2>2, <2>3 DEF ContractInv, Called, Waits
  <2>5. r \in Range(sent)
    <3>1. wait[p] \in Nat /\ wait[p] <= Len(sent) /\ Len(sent) \in Nat /\ DOMAIN sent = 1..Len(sent)
      BY DEF ContractInv, Called, Waits, IInv, Typed
    <3>2. wait[p] \in DOMAIN sent
      BY <1>1, <3>1
    <3> QED
      BY <2>3, <3>2 DEF Range
  <2>6. CASE a.status = "ok"
    <3>1. Verdict(a) = "accepted" /\ r \in executed
      BY <2>1, <2>4, <2>6 DEF Verdict, True
    <3> QED
      BY <1>1, <1>2, <1>4, <2>3, <3>1 DEF C!Next, C!Tell
  <2>7. CASE a.status = "err"
    <3>1. Verdict(a) = "rejected" /\ (r \notin repeated => r \in Refused)
      BY <2>1, <2>4, <2>5, <2>7 DEF Verdict, True, Refused
    <3>2. PICK v : v = [request |-> r, answer |-> "rejected", first |-> r \notin repeated]
      OBVIOUS
    <3>3. v.answer = "rejected" /\ v.request = r
      BY <3>2
    <3>4. v.first => r \notin repeated
      BY <3>2
    <3>5. verdicts' = verdicts \cup {v}
      BY <1>1, <1>6, <2>3, <3>1, <3>2
    <3>6. C!Tell
      BY <1>1, <1>2, <3>1, <3>3, <3>4, <3>5 DEF C!Tell
    <3> QED
      BY <1>4, <3>6 DEF C!Next
  <2> QED
    BY <2>1, <2>6, <2>7
<1> QED
  BY <1>5, <1>6

LEMMA ProcessStep ==
  ASSUME ContractInv, IInv', NEW p \in Processes, Process(p)
  PROVE  ContractInv' /\ [C!Next]_(C!vars)
<1>1. CASE (New(p) \/ ConsolidateFunds(p)) /\ UNCHANGED <<exchange, calls, verdicts>>
  <2>1. UNCHANGED <<sent, executed, outcomes, verdicts, wait, arrived, repeated>>
    BY <1>1 DEF New, ConsolidateFunds, AcquireProcessLock, exchange, accounts, calls
  <2>2. ContractInv'
    BY <2>1 DEF ContractInv, Kept, Answered, True, Called, Waits
  <2> QED
    BY <2>1, <2>2, Stutters
<1>2. ASSUME NEW clock \in Clocks, NEW signer \in Signers(p), NEW action \in Actions(signer),
             Submit(p, clock, signer, action)
      PROVE  ContractInv' /\ C!Next
  BY <1>2, SubmitStep
<1>3. ASSUME NEW i \in 1..Len(sent), Resubmit(p, i) PROVE ContractInv' /\ [C!Next]_(C!vars)
  <2>1. /\ wait[p] = 0 /\ wait' = [wait EXCEPT ![p] = i] /\ arrived' = arrived
        /\ UNCHANGED <<sent, executed, outcomes, verdicts>> /\ repeated \subseteq repeated'
    BY <1>3 DEF Resubmit, vars, exchange, accounts
  <2>2. arrived' = [arrived EXCEPT ![p] = {}]
    BY <2>1 DEF ContractInv, Called, Waits
  <2>3. i \in 0..Len(sent') /\ Monotone
    BY <1>3, <2>1, NothingSettled DEF ContractInv
  <2>4. ContractInv'
    BY <2>1, <2>2, <2>3, CallKeeps
  <2> QED
    BY <2>1, <2>4, Stutters
<1>4. ASSUME NEW a \in arrived[p] \cup Foreign, Receive(p, Verdict(a))
      PROVE  ContractInv' /\ [C!Next]_(C!vars)
  BY <1>4, ReceiveStep
<1>5. CASE Stop(p)
  <2>1. /\ wait' = [wait EXCEPT ![p] = 0] /\ arrived' = [arrived EXCEPT ![p] = {}]
        /\ UNCHANGED <<sent, executed, outcomes, verdicts, repeated>>
    BY <1>5 DEF Stop, Leave, exchange, accounts
  <2>2. 0 \in 0..Len(sent') /\ Monotone
    BY <2>1, NothingSettled DEF ContractInv, IInv, Typed
  <2>3. ContractInv'
    BY <2>1, <2>2, CallKeeps
  <2> QED
    BY <2>1, <2>3, Stutters
<1> QED
  BY <1>1, <1>2, <1>3, <1>4, <1>5 DEF Process

-----------------------------------------------------------------------------
(* The network and the exchange                                            *)

LEMMA DeliverStep ==
  ASSUME ContractInv, IInv', NEW i \in 1..Len(sent), Deliver(i)
  PROVE  ContractInv' /\ [C!Next]_(C!vars)
<1>1. PICK mode, a :
        /\ mode \in Modes(sent[i]) /\ a \in Answers(sent[i], mode)
        /\ HandleExchange(sent[i], mode)
        /\ \/ UNCHANGED arrived
           \/ \E p \in Processes : wait[p] = i /\ arrived' = [arrived EXCEPT ![p] = @ \cup {a}]
  <2>1. \A mode : Answers(sent[i], mode) # {}
    BY DEF Answers
  <2> QED
    BY <2>1 DEF Deliver
<1>2. PICK r : r = sent[i] /\ a \in Answers(r, mode) /\ (Known(r) => r \in repeated)
  BY <1>1 DEF Deliver
<1>3. UNCHANGED <<sent, wait, verdicts, repeated>> /\ Len(sent) \in Nat
  BY DEF Deliver, vars, ContractInv, IInv, Typed
<1>4. /\ Monotone /\ Kept' /\ Answered' /\ a \in Responses
      /\ Key(r) \in DOMAIN outcomes' /\ True(r, a)'
  <2>1. CASE Key(r) \in DOMAIN outcomes
    <3>1. /\ UNCHANGED <<outcomes, executed>>
          /\ a = PriorAnswer(r) \/ (Known(r) /\ a = Answer(200, "err"))
      BY <1>1, <1>2, <2>1 DEF HandleExchange, Answers, ExchangeAnswer, exchange, accounts
    <3>2. Monotone
      BY <1>3, <3>1, NothingSettled DEF ContractInv
    <3>3. Kept' /\ Answered'
      BY <1>3, <3>1 DEF ContractInv, Kept, Answered, True
    <3>4. a \in Responses /\ True(r, a)
      <4>1. CASE a = PriorAnswer(r) /\ outcomes[Key(r)].body = r
        BY <2>1, <3>1, <4>1 DEF PriorAnswer, ContractInv, Answered
      <4>2. CASE Known(r) /\ a = Answer(200, "err")
        BY <1>2, <4>2 DEF Answer, Responses, True
      <4>3. CASE a = PriorAnswer(r) /\ outcomes[Key(r)].body # r
        <5>1. r \notin executed
          BY <4>3 DEF ContractInv, Kept
        <5>2. a = Answer(200, "err")
          BY <4>3 DEF PriorAnswer
        <5> QED
          BY <5>1, <5>2 DEF Answer, Responses, True
      <4> QED
        BY <3>1, <4>1, <4>2, <4>3
    <3> QED
      BY <1>3, <2>1, <3>1, <3>2, <3>3, <3>4 DEF True
  <2>2. CASE Key(r) \notin DOMAIN outcomes
    <3>1. HandleFirst(r, mode) /\ mode \in {"none"} \cup Failures /\ a = NewAnswer(r, mode)
      BY <1>1, <1>2, <2>2 DEF HandleExchange, Answers, Known, ExchangeAnswer, Modes
    <3>2. /\ DOMAIN outcomes' = DOMAIN outcomes \cup {Key(r)}
          /\ outcomes'[Key(r)] = [body |-> r, answer |-> a]
          /\ \A k \in DOMAIN outcomes : outcomes'[k] = outcomes[k]
          /\ executed' = executed \/ executed' = executed \cup {r}
          /\ a \in Responses /\ True(r, a)'
      <4>1. /\ DOMAIN outcomes' = DOMAIN outcomes \cup {Key(r)}
            /\ outcomes'[Key(r)] = [body |-> r, answer |-> NewAnswer(r, mode)]
            /\ \A k \in DOMAIN outcomes : outcomes'[k] = outcomes[k]
            /\ executed' = executed \/ executed' = executed \cup {r}
            /\ NewAnswer(r, mode) \in Responses
            /\ \E b : b = NewAnswer(r, mode) /\ True(r, b)'
        BY <2>2, <3>1, FirstIsTrue
      <4> QED
        BY <3>1, <4>1
    <3>3. Monotone
      BY <1>3, <2>2, <3>2 DEF Monotone
    <3>4. Kept'
      BY <2>2, <3>2 DEF ContractInv, Kept
    <3>5. Answered'
      <4> SUFFICES ASSUME NEW k \in DOMAIN outcomes'
                   PROVE  /\ Key(outcomes'[k].body) = k /\ outcomes'[k].answer \in Responses
                          /\ \E b, c : b = outcomes'[k].body /\ c = outcomes'[k].answer /\ True(b, c)'
        BY DEF Answered
      <4>1. CASE k = Key(r)
        BY <3>2, <4>1
      <4>2. CASE k \in DOMAIN outcomes
        <5>1. PICK b, c : b = outcomes[k].body /\ c = outcomes[k].answer
          OBVIOUS
        <5>2. Key(b) = k /\ c \in Responses /\ True(b, c)
          BY <4>2, <5>1 DEF ContractInv, Answered
        <5>3. True(b, c)'
          BY <3>3, <4>2, <5>2, TruthStays
        <5> QED
          BY <3>2, <4>2, <5>1, <5>2, <5>3
      <4> QED
        BY <3>2, <4>1, <4>2
    <3> QED
      BY <3>2, <3>3, <3>4, <3>5
  <2> QED
    BY <2>1, <2>2
<1>5. wait \in [Processes -> Nat] /\ arrived \in [Processes -> SUBSET Responses]
  BY DEF ContractInv, Called
<1>6. /\ arrived' \in [Processes -> SUBSET Responses]
      /\ \A q \in Processes :
           \/ arrived'[q] = arrived[q]
           \/ wait[q] = i /\ arrived'[q] = arrived[q] \cup {a}
  <2>1. CASE UNCHANGED arrived
    BY <1>5, <2>1
  <2>2. ASSUME NEW p \in Processes, wait[p] = i, arrived' = [arrived EXCEPT ![p] = @ \cup {a}]
        PROVE  /\ arrived' \in [Processes -> SUBSET Responses]
               /\ \A q \in Processes :
                    \/ arrived'[q] = arrived[q]
                    \/ wait[q] = i /\ arrived'[q] = arrived[q] \cup {a}
    <3>1. PICK A : A = arrived[p] \cup {a}
      OBVIOUS
    <3>2. A \in SUBSET Responses /\ arrived' = [arrived EXCEPT ![p] = A]
      BY <1>4, <1>5, <2>2, <3>1
    <3>3. arrived'[p] = A /\ \A q \in Processes \ {p} : arrived'[q] = arrived[q]
      BY <1>5, <3>2
    <3> QED
      BY <1>5, <2>2, <3>1, <3>2, <3>3
  <2> QED
    BY <1>1, <1>2, <2>1, <2>2
<1>7. ASSUME NEW q \in Processes PROVE Waits(q)'
  <2>1. Waits(q)
    BY DEF ContractInv, Called
  <2>2. PICK s : s = sent[wait[q]] /\ (wait[q] = i => s = r)
    BY <1>2
  <2>3. \A x \in arrived[q] : Key(s) \in DOMAIN outcomes' /\ True(s, x)'
    <3> SUFFICES ASSUME NEW x \in arrived[q] PROVE Key(s) \in DOMAIN outcomes' /\ True(s, x)'
      OBVIOUS
    <3>1. Key(s) \in DOMAIN outcomes /\ True(s, x)
      BY <2>1, <2>2 DEF Waits
    <3> QED
      BY <1>4, <3>1, TruthStays
  <2>4. \A x \in arrived'[q] : Key(s) \in DOMAIN outcomes' /\ True(s, x)'
    BY <1>4, <1>6, <2>2, <2>3
  <2>5. wait[q] = 0 => arrived'[q] = {}
    BY <1>6, <2>1 DEF Waits
  <2>6. sent'[wait'[q]] = s
    BY <1>3, <2>2
  <2> QED
    BY <1>3, <2>1, <2>4, <2>5, <2>6 DEF Waits
<1>8. Called'
  BY <1>3, <1>5, <1>6, <1>7 DEF Called
<1>9. ContractInv'
  BY <1>4, <1>8 DEF ContractInv
<1> QED
  BY <1>3, <1>4, <1>9, SettleStep DEF C!Next

-----------------------------------------------------------------------------
LEMMA NextContractInv == ContractInv /\ [SubmissionNext]_all => ContractInv' /\ [C!Next]_(C!vars)
<1> SUFFICES ASSUME ContractInv, [SubmissionNext]_all PROVE ContractInv' /\ [C!Next]_(C!vars)
  OBVIOUS
<1>1. IInv'
  BY SubmissionStep, NextIInv DEF ContractInv
<1>2. CASE UNCHANGED all
  <2>1. UNCHANGED <<sent, executed, outcomes, verdicts, wait, arrived, repeated>>
    BY <1>2 DEF all, vars, exchange, accounts, calls
  <2>2. ContractInv'
    BY <1>1, <2>1 DEF ContractInv, Kept, Answered, True, Called, Waits
  <2> QED
    BY <2>1, <2>2, Stutters
<1> QED
  BY <1>1, <1>2, ProcessStep, DeliverStep DEF SubmissionNext

(* The client, the network and the exchange keep the contract the tasks    *)
(* are written against: a request told to be accepted was carried out, one *)
(* told to be rejected at its only submission never is, and at most one    *)
(* request is carried out for a signer and a nonce, whatever is lost,      *)
(* late, repeated, refused as a duplicate or answered by a proxy (Submit,  *)
(* post, handleExchange).                                                  *)
THEOREM ContractIsKept == SubmissionSpec => ImplementsContract
BY InitContractInv, NextContractInv, PTL DEF SubmissionSpec, ImplementsContract, C!Spec

-----------------------------------------------------------------------------
(* Sums over finite sets.                                                  *)

(* The element that a fold takes next.                                     *)
Pick(s) == CHOOSE x \in s : TRUE

LEMMA PickIn == ASSUME NEW s, s # {} PROVE Pick(s) \in s
BY DEF Pick

(* What SumFunctionOnSet computes on the way: the sum of every subset.     *)
IsSum(it, f, S) ==
  it = [s \in SUBSET S |-> IF s = {} THEN 0 ELSE f[Pick(s)] + it[s \ {Pick(s)}]]

(* Induction over numbers and over finite sets, as the least element of    *)
(* the set of counterexamples.                                             *)
LEMMA LeastNatural ==
  ASSUME NEW T \in SUBSET Nat, T # {} PROVE \E n \in T : \A m \in T : ~(m < n)
<1>1. PICK x \in T : \A y \in T : ~(<<y, x>> \in OpToRel(<, Nat))
  BY NatLessThanWellFounded, WFMin
<1> QED
  BY <1>1 DEF OpToRel

LEMMA LeastSubset ==
  ASSUME NEW S, IsFiniteSet(S), NEW B \in SUBSET (SUBSET S), B # {}
  PROVE  \E t \in B : \A u \in SUBSET t : u # t => u \notin B
<1>1. B \subseteq FiniteSubsetsOf(S)
  BY FS_FiniteSubsetsOfFinite
<1>2. PICK x \in B : \A y \in B : ~(<<y, x>> \in StrictSubsetOrdering(S))
  BY <1>1, FS_StrictSubsetOrderingWellFounded, WFMin
<1> QED
  BY <1>2 DEF StrictSubsetOrdering

(* The recursion of the fold has a solution, by the size of the subsets.   *)
LEMMA SumExists ==
  ASSUME NEW S, IsFiniteSet(S), NEW f PROVE \E it : IsSum(it, f, S)
<1> DEFINE Small(n) == {s \in SUBSET S : Cardinality(s) <= n}
           Sums(it, n) == it = [s \in Small(n) |->
                                  IF s = {} THEN 0 ELSE f[Pick(s)] + it[s \ {Pick(s)}]]
           Bad == {n \in Nat : ~ \E it : Sums(it, n)}
<1>1. \A s \in SUBSET S : IsFiniteSet(s) /\ Cardinality(s) \in Nat /\ Cardinality(s) <= Cardinality(S)
  BY FS_Subset, FS_CardinalityType
<1>2. \A n \in Nat : \A s \in Small(n) : s # {} => n > 0 /\ s \ {Pick(s)} \in Small(n-1)
  <2> SUFFICES ASSUME NEW n \in Nat, NEW s \in Small(n), s # {}
               PROVE  n > 0 /\ s \ {Pick(s)} \in Small(n-1)
    OBVIOUS
  <2>1. Pick(s) \in s /\ IsFiniteSet(s)
    BY <1>1, PickIn
  <2>2. Cardinality(s \ {Pick(s)}) = Cardinality(s) - 1 /\ Cardinality(s \ {Pick(s)}) \in Nat
    BY <1>1, <2>1, FS_RemoveElement, FS_CardinalityType
  <2> QED
    BY <1>1, <2>2
<1>3. Bad = {}
  <2> SUFFICES ASSUME Bad # {} PROVE FALSE
    OBVIOUS
  <2>1. PICK n \in Bad : \A m \in Bad : ~(m < n)
    BY LeastNatural
  <2>2. CASE n = 0
    <3>1. ASSUME NEW s \in Small(0), s # {} PROVE FALSE
      <4>1. 0 > 0
        BY <1>2, <3>1, Zenon
      <4> QED
        BY <4>1
    <3> DEFINE it == [s \in Small(0) |-> 0]
    <3>2. Sums(it, 0)
      BY <3>1
    <3> QED
      BY <2>1, <2>2, <3>2
  <2>3. CASE n # 0
    <3>1. n \in Nat /\ n-1 \in Nat /\ n-1 < n
      BY <2>3
    <3>2. PICK g : Sums(g, n-1)
      BY <2>1, <3>1
    <3> DEFINE it == [s \in Small(n) |-> IF s = {} THEN 0 ELSE f[Pick(s)] + g[s \ {Pick(s)}]]
    <3>3. ASSUME NEW s \in Small(n-1) PROVE it[s] = g[s]
      <4>1. s \in Small(n)
        BY <1>1, <3>1
      <4>2. g[s] = IF s = {} THEN 0 ELSE f[Pick(s)] + g[s \ {Pick(s)}]
        BY <3>2
      <4> QED
        BY <4>1, <4>2
    <3>4. ASSUME NEW s \in Small(n)
          PROVE  it[s] = IF s = {} THEN 0 ELSE f[Pick(s)] + it[s \ {Pick(s)}]
      <4>1. s # {} => it[s \ {Pick(s)}] = g[s \ {Pick(s)}]
        BY <1>2, <3>1, <3>3
      <4> QED
        BY <4>1
    <3>5. Sums(it, n)
      <4> HIDE DEF Small
      <4> QED BY <3>4
    <3> QED
      BY <2>1, <3>5
  <2> QED
    BY <2>2, <2>3
<1>4. Cardinality(S) \in Nat
  BY FS_CardinalityType
<1>5. PICK it : Sums(it, Cardinality(S))
  BY <1>3, <1>4
<1>6. Small(Cardinality(S)) = SUBSET S
  BY <1>1
<1> QED
  BY <1>5, <1>6 DEF IsSum

LEMMA SumIs ==
  ASSUME NEW S, IsFiniteSet(S), NEW f
  PROVE  \E it : IsSum(it, f, S) /\ SumFunctionOnSet(f, S) = it[S]
<1> DEFINE it == CHOOSE it : IsSum(it, f, S)
<1>1. IsSum(it, f, S)
  BY SumExists
<1>2. SumFunctionOnSet(f, S) = it[S]
  BY DEF SumFunctionOnSet, FoldFunctionOnSet, MapThenFoldSet, IsSum, Pick
<1> QED
  BY <1>1, <1>2

LEMMA SumEquation ==
  ASSUME NEW S, NEW f, NEW it, IsSum(it, f, S)
  PROVE  \A s \in SUBSET S : it[s] = IF s = {} THEN 0 ELSE f[Pick(s)] + it[s \ {Pick(s)}]
BY DEF IsSum

(* The sum of integers is one, and any element can be taken out of it.     *)
LEMMA SumTakesOut ==
  ASSUME NEW S, IsFiniteSet(S), NEW f \in [S -> Int], NEW it, IsSum(it, f, S)
  PROVE  \A t \in SUBSET S : /\ it[t] \in Int
                             /\ \A x \in t : it[t] = f[x] + it[t \ {x}]
<1> DEFINE Good(t) == it[t] \in Int /\ \A x \in t : it[t] = f[x] + it[t \ {x}]
           B == {t \in SUBSET S : ~Good(t)}
<1>1. \A s \in SUBSET S : it[s] = IF s = {} THEN 0 ELSE f[Pick(s)] + it[s \ {Pick(s)}]
  BY SumEquation
<1>2. B = {}
  <2> SUFFICES ASSUME B # {} PROVE FALSE
    OBVIOUS
  <2>0. B \in SUBSET (SUBSET S)
    OBVIOUS
  <2>1. PICK t \in B : \A u \in SUBSET t : u # t => u \notin B
    <3> HIDE DEF B
    <3> QED
      BY <2>0, LeastSubset
  <2>2. \A u \in SUBSET t : u # t => Good(u)
    BY <2>1
  <2>3. t \in SUBSET S /\ ~Good(t)
    OBVIOUS
  <2>4. t # {}
    <3> SUFFICES ASSUME t = {} PROVE FALSE
      OBVIOUS
    <3>1. it[t] = 0
      BY <1>1, <2>3
    <3> QED
      BY <2>3, <3>1
  <2> DEFINE c == Pick(t)
  <2>5. c \in t /\ c \in S /\ it[t] = f[c] + it[t \ {c}] /\ Good(t \ {c})
    BY <1>1, <2>2, <2>3, <2>4, PickIn
  <2> HIDE DEF c
  <2>6. it[t] \in Int
    BY <2>5
  <2>7. ASSUME NEW x \in t, x # c PROVE it[t] = f[x] + it[t \ {x}]
    <3>1. it[t \ {c}] = f[x] + it[(t \ {c}) \ {x}]
      BY <2>5, <2>7
    <3>2. Good(t \ {x}) /\ c \in t \ {x}
      BY <2>2, <2>5, <2>7
    <3>3. it[t \ {x}] = f[c] + it[(t \ {x}) \ {c}]
      BY <3>2
    <3>4. (t \ {c}) \ {x} = (t \ {x}) \ {c}
      OBVIOUS
    <3>5. it[(t \ {c}) \ {x}] \in Int
      BY <2>2, <2>5
    <3>6. f[x] \in Int /\ f[c] \in Int
      BY <2>3, <2>5
    <3>7. it[t] = f[c] + it[t \ {c}]
      BY <2>5
    <3>8. PICK p \in Int, q \in Int, s \in Int :
            p = f[x] /\ q = f[c] /\ s = it[(t \ {c}) \ {x}]
      BY <3>5, <3>6
    <3>9. it[t] = q + (p + s) /\ f[x] + it[t \ {x}] = p + (q + s)
      BY <3>1, <3>3, <3>4, <3>7, <3>8, Zenon
    <3> QED
      BY <3>9
  <2> QED
    BY <2>3, <2>5, <2>6, <2>7
<1> QED
  BY <1>2

(* The sums of functions that agree are equal.                             *)
LEMMA SumAgrees ==
  ASSUME NEW S, IsFiniteSet(S), NEW f, NEW g, NEW i, NEW j, IsSum(i, f, S), IsSum(j, g, S),
         NEW t \in SUBSET S, \A x \in t : f[x] = g[x]
  PROVE  i[t] = j[t]
<1> DEFINE B == {u \in SUBSET t : i[u] # j[u]}
<1>0. \A s \in SUBSET S : i[s] = IF s = {} THEN 0 ELSE f[Pick(s)] + i[s \ {Pick(s)}]
  BY SumEquation
<1>1. \A s \in SUBSET S : j[s] = IF s = {} THEN 0 ELSE g[Pick(s)] + j[s \ {Pick(s)}]
  BY SumEquation
<1>2. B = {}
  <2> SUFFICES ASSUME B # {} PROVE FALSE
    OBVIOUS
  <2>0. B \in SUBSET (SUBSET S)
    OBVIOUS
  <2>1. PICK u \in B : \A v \in SUBSET u : v # u => v \notin B
    <3> HIDE DEF B
    <3> QED
      BY <2>0, LeastSubset
  <2>2. u # {}
    BY <1>0, <1>1
  <2>3. Pick(u) \in u
    BY <2>2, PickIn
  <2>4. i[u \ {Pick(u)}] = j[u \ {Pick(u)}]
    BY <2>1, <2>3
  <2> QED
    BY <1>0, <1>1, <2>2, <2>3, <2>4
<1> QED
  BY <1>2

(* What one account gives to another leaves the sum.                       *)
LEMMA TransferKeepsSum ==
  ASSUME NEW S, IsFiniteSet(S), NEW f \in [S -> Int], NEW g \in [S -> Int],
         NEW x \in S, NEW y \in S, f[x] + f[y] = g[x] + g[y],
         \A z \in S \ {x, y} : f[z] = g[z], x = y => f[x] = g[x]
  PROVE  SumFunctionOnSet(f, S) = SumFunctionOnSet(g, S)
<1>1. PICK i : IsSum(i, f, S) /\ SumFunctionOnSet(f, S) = i[S]
  BY SumIs
<1>2. PICK j : IsSum(j, g, S) /\ SumFunctionOnSet(g, S) = j[S]
  BY SumIs
<1>0. \A t \in SUBSET S : i[t] \in Int /\ \A z \in t : i[t] = f[z] + i[t \ {z}]
  BY <1>1, SumTakesOut
<1>3. \A t \in SUBSET S : j[t] \in Int /\ \A z \in t : j[t] = g[z] + j[t \ {z}]
  BY <1>2, SumTakesOut
<1>4. CASE x = y
  <2>1. \A z \in S : f[z] = g[z]
    BY <1>4
  <2> QED
    BY <1>1, <1>2, <2>1, SumAgrees
<1>5. CASE x # y
  <2> DEFINE T == (S \ {x}) \ {y}
  <2>1. i[S] = f[x] + i[S \ {x}] /\ i[S \ {x}] = f[y] + i[T] /\ i[T] \in Int
    BY <1>0, <1>5
  <2>2. j[S] = g[x] + j[S \ {x}] /\ j[S \ {x}] = g[y] + j[T] /\ j[T] \in Int
    BY <1>3, <1>5
  <2>3. i[T] = j[T]
    BY <1>1, <1>2, SumAgrees
  <2>4. f[x] \in Int /\ f[y] \in Int /\ g[x] \in Int /\ g[y] \in Int
    OBVIOUS
  <2> HIDE DEF T
  <2> QED
    BY <1>1, <1>2, <2>1, <2>2, <2>3, <2>4
<1> QED
  BY <1>4, <1>5

-----------------------------------------------------------------------------
(* Money.  Claims move a reward into the balance of its account, sends     *)
(* move what is not on hold to another account.                            *)

MoneyInv ==
  /\ Typed
  /\ balances \in [Accounts -> Nat] /\ claimRewards \in [Accounts -> Nat]
  /\ MoneyIsKept

Wealth == [a \in Accounts |-> balances[a] + claimRewards[a]]

LEMMA AppliedKeepsMoney ==
  ASSUME MoneyInv, NEW r \in [signer : Builders \cup {Settlement}, nonce : Nat,
                              action : UNION {Actions(a) : a \in Builders \cup {Settlement}}],
         Applicable(r), Apply(r)
  PROVE  /\ balances' \in [Accounts -> Nat] /\ claimRewards' \in [Accounts -> Nat]
         /\ MoneyIsKept'
<1> USE ExchangeAssumption DEF MoneyInv
<1> DEFINE x == r.signer
           y == Destination[r.signer]
           n == r.action.amount
<1>1. x \in Accounts /\ y \in Accounts
  BY SubmissionAssumption
<1>2. n \in Nat
  <2>1. PICK a \in Builders \cup {Settlement} : r.action \in Actions(a)
    OBVIOUS
  <2>2. CASE r.action \in [kind : {"spotSend"}, amount : Amounts]
    <3>1. r.action.amount \in Amounts
      BY <2>2
    <3> QED
      BY <3>1, ServiceAssumption
  <2>3. CASE r.action \in [kind : {"claimRewards"}, amount : {0}]
    BY <2>3
  <2> QED
    BY <2>1, <2>2, <2>3 DEF Actions
<1>3. CASE r.action.kind = "claimRewards"
  <2>1. Claim(r)
    BY <1>3 DEF Apply
  <2>2. /\ balances' \in [Accounts -> Nat] /\ claimRewards' \in [Accounts -> Nat]
        /\ \A a \in Accounts : balances'[a] >= balances[a]
        /\ \A a \in Accounts : balances'[a] + claimRewards'[a] = balances[a] + claimRewards[a]
    BY <1>1, <2>1 DEF Claim
  <2>3. Wealth' = Wealth
    BY <2>2 DEF Wealth
  <2>4. \A a \in Accounts : balances'[a] >= Hold[a]
    BY <2>2 DEF MoneyIsKept
  <2> QED
    BY <2>2, <2>3, <2>4 DEF MoneyIsKept, Wealth
<1>4. CASE r.action.kind # "claimRewards"
  <2>1. applySpotSend(r) /\ balances[x] - Hold[x] >= n
    BY <1>4 DEF Apply, Applicable
  <2> HIDE DEF x, y, n
  <2>2. /\ claimRewards' = claimRewards
        /\ balances' = [balances EXCEPT ![x] = @ - n, ![y] = @ + n]
    BY <2>1 DEF applySpotSend, x, y, n
  <2>3. balances \in [Accounts -> Nat] /\ Hold[x] \in Nat /\ balances[x] >= n
    BY <1>1, <1>2, <2>1
  <2>4. /\ balances' \in [Accounts -> Nat]
        /\ x = y => balances' = balances
        /\ x # y => balances'[x] = balances[x] - n /\ balances'[y] = balances[y] + n
        /\ \A a \in Accounts \ {x, y} : balances'[a] = balances[a]
    BY <1>1, <1>2, <2>2, <2>3
  <2>5. Wealth \in [Accounts -> Int] /\ Wealth' \in [Accounts -> Int]
    BY <2>2, <2>4 DEF Wealth
  <2>6. Wealth'[x] + Wealth'[y] = Wealth[x] + Wealth[y] /\ (x = y => Wealth'[x] = Wealth[x])
    BY <1>1, <1>2, <2>2, <2>3, <2>4 DEF Wealth
  <2>7. ASSUME NEW a \in Accounts \ {x, y} PROVE Wealth'[a] = Wealth[a]
    <3>1. balances'[a] = balances[a] /\ claimRewards'[a] = claimRewards[a] /\ a \in Accounts
      BY <2>2, <2>4
    <3> QED
      BY <3>1 DEF Wealth
  <2>8. SumFunctionOnSet(Wealth', Accounts) = SumFunctionOnSet(Wealth, Accounts)
    <3>1. PICK f, g : f = Wealth' /\ g = Wealth
      OBVIOUS
    <3>2. f \in [Accounts -> Int] /\ g \in [Accounts -> Int] /\ f[x] + f[y] = g[x] + g[y]
          /\ (\A z \in Accounts \ {x, y} : f[z] = g[z]) /\ (x = y => f[x] = g[x])
      BY <2>5, <2>6, <2>7, <3>1
    <3>3. IsFiniteSet(Accounts)
      OBVIOUS
    <3>4. SumFunctionOnSet(f, Accounts) = SumFunctionOnSet(g, Accounts)
      BY ONLY <1>1, <3>2, <3>3, TransferKeepsSum
    <3> QED
      BY <3>1, <3>4
  <2>9. ASSUME NEW a \in Accounts PROVE balances'[a] >= Hold[a]
    <3>1. Hold[a] \in Nat /\ balances[a] \in Nat /\ balances[a] >= Hold[a]
      BY DEF MoneyIsKept
    <3>2. CASE a \notin {x, y} \/ x = y
      BY <2>4, <3>1, <3>2
    <3>3. CASE a = x /\ x # y
      BY <1>2, <2>1, <2>4, <3>1, <3>3
    <3>4. CASE a = y /\ x # y
      BY <1>2, <2>4, <3>1, <3>4
    <3> QED
      BY <3>2, <3>3, <3>4
  <2> QED
    BY <2>2, <2>4, <2>8, <2>9 DEF MoneyIsKept, Wealth
<1> QED
  BY <1>3, <1>4

LEMMA MoneyStep == MoneyInv /\ IInv /\ [SubmissionNext]_all => MoneyInv'
<1> SUFFICES ASSUME MoneyInv, IInv, [SubmissionNext]_all PROVE MoneyInv'
  OBVIOUS
<1>1. Typed'
  BY SubmissionStep, NextIInv DEF IInv
<1>2. CASE UNCHANGED <<balances, claimRewards>>
  BY <1>1, <1>2 DEF MoneyInv, MoneyIsKept
<1>3. ASSUME NEW i \in 1..Len(sent), Deliver(i) PROVE MoneyInv'
  <2>1. PICK mode : HandleExchange(sent[i], mode)
    BY <1>3 DEF Deliver
  <2>2. \/ UNCHANGED <<balances, claimRewards>>
        \/ Applicable(sent[i]) /\ Apply(sent[i])
    BY <2>1 DEF HandleExchange, HandleFirst, exchange, accounts
  <2> DEFINE T == [signer : Builders \cup {Settlement}, nonce : Nat,
                   action : UNION {Actions(a) : a \in Builders \cup {Settlement}}]
  <2>3. sent[i] \in T
    <3>1. sent \in Seq(T)
      BY DEF MoneyInv, Typed
    <3> HIDE DEF T
    <3> QED
      BY <1>3, <3>1
  <2> QED
    BY <1>1, <1>2, <2>2, <2>3, AppliedKeepsMoney DEF MoneyInv
<1>4. ASSUME NEW p \in Processes, Process(p) PROVE UNCHANGED <<balances, claimRewards>>
  BY <1>4 DEF Process, Submit, Resubmit, Receive, Stop, exchange, accounts
<1>5. CASE UNCHANGED all
  BY <1>2, <1>5 DEF all, exchange, accounts
<1> QED
  BY <1>2, <1>3, <1>4, <1>5 DEF SubmissionNext

(* Money is moved, never made or lost, and what is on hold stays, for any  *)
(* number of accounts, however often a claim or a send is repeated (apply, *)
(* applySpotSend).                                                         *)
THEOREM MoneyIsAlwaysKept == SubmissionSpec => []MoneyIsKept
<1>1. SubmissionInit => MoneyInv
  BY InitIInv, ExchangeAssumption
  DEF SubmissionInit, ExchangeInit, MoneyInv, MoneyIsKept, IInv
<1>2. SubmissionSpec => []IInv
  <2>1. SubmissionSpec => Spec
    BY SubmissionStep, PTL DEF SubmissionSpec, SubmissionInit, Spec
  <2> QED
    BY <2>1, InitIInv, NextIInv, PTL DEF Spec
<1>3. MoneyInv => MoneyIsKept
  BY DEF MoneyInv
<1> QED
  BY <1>1, <1>2, <1>3, MoneyStep, PTL DEF SubmissionSpec
=============================================================================
