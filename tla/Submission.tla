----------------------------- MODULE Submission -----------------------------
(***************************************************************************)
(* Signed requests on their way: a working process submits them, fresh or  *)
(* repeated byte for byte, over a network that loses and delays requests   *)
(* and answers and through proxies that answer by themselves, to an        *)
(* exchange, and classifies what comes back (exchange/client.go Submit,    *)
(* hyperliquid/client/client.go post).  The exchange carries requests out  *)
(* as the development exchange does; a copy of a request it knows it       *)
(* answers as that one does, with the answer it kept, or as the production *)
(* exchange does, with an error about the nonce.  A process waits for one  *)
(* answer at a time: the calls that the code makes for several builders    *)
(* side by side share nothing but the nonces, and an unknown verdict,      *)
(* which may come at once, lets the next request overtake.                 *)
(***************************************************************************)
EXTENDS Service, DevExchange, SequencesExt

(* Whoever signs has an account.                                           *)
ASSUME SubmissionAssumption == Builders \cup {Settlement} \subseteq Accounts

VARIABLES
  wait,      \* index of the request every process waits for, 0 for none
  arrived,   \* responses on their way to every process
  repeated,  \* requests submitted more than once
  verdicts   \* definite verdicts given, see ExchangeContract

calls == <<wait, arrived, repeated>>
all == <<vars, exchange, calls, verdicts>>

SubmissionInit ==
  /\ Init /\ ExchangeInit
  /\ wait = [p \in Processes |-> 0] /\ arrived = [p \in Processes |-> {}]
  /\ repeated = {} /\ verdicts = {}

-----------------------------------------------------------------------------
(* The client                                                              *)

(* Mutant: the status code does not matter.                                *)
PostedAnyStatus(a) == a.code # 0 /\ a.whole

(* post returns a body without an error.                                   *)
Posted(a) == a.code = 200 /\ a.whole

(* Submit: only such a body with a known status counts.                    *)
Verdict(a) ==
  IF Posted(a) /\ a.status = "ok" THEN "accepted"
  ELSE IF Posted(a) /\ a.status = "err" THEN "rejected" ELSE "unknown"

Submit(p, clock, signer, action) ==
  /\ wait[p] = 0
  /\ Prepare(p, clock, signer, action)
  /\ wait' = [wait EXCEPT ![p] = Len(sent')]
  /\ repeated' = repeated \cup (Range(sent) \cap {Last(sent')})
  /\ UNCHANGED <<exchange, arrived, verdicts>>

(* A prepared payout is sent again as it was signed, by the process that   *)
(* signed it or by a later one.  Claims and sweeps are never repeated: a   *)
(* sweep that is tried again is signed anew.                               *)
Resubmit(p, i) ==
  /\ pc[p] = "running" /\ wait[p] = 0
  /\ sent[i].signer = Settlement /\ Settlement \in Signers(p)
  /\ wait' = [wait EXCEPT ![p] = i] /\ repeated' = repeated \cup {sent[i]}
  /\ UNCHANGED <<vars, exchange, arrived, verdicts>>

(* Responses that are not the exchange's: no connection or a timeout, the  *)
(* page of a proxy, a body that breaks off or does not parse.  Not among   *)
(* them is a proxy that answers for the exchange with its status code and  *)
(* a verdict in its format: nothing tells that apart from the exchange.    *)
Foreign ==
  [code : {0}, whole : {FALSE}, status : {"none"}]
    \cup [code : {503}, whole : BOOLEAN, status : {"ok", "err", "unknown"}]
    \cup [code : {200}, whole : {FALSE}, status : {"ok", "err"}]
    \cup [code : {200}, whole : {TRUE}, status : {"unparsable", "unknown"}]

Receive(p, verdict) ==
  /\ wait[p] # 0
  /\ wait' = [wait EXCEPT ![p] = 0] /\ arrived' = [arrived EXCEPT ![p] = {}]
  /\ verdicts' = IF verdict = "unknown" THEN verdicts
                 ELSE verdicts \cup {[request |-> sent[wait[p]], answer |-> verdict,
                                      first |-> sent[wait[p]] \notin repeated]}
  /\ UNCHANGED <<vars, exchange, repeated>>

(* The process ends with a request perhaps still on its way.               *)
Stop(p) ==
  /\ Leave(p)
  /\ wait' = [wait EXCEPT ![p] = 0] /\ arrived' = [arrived EXCEPT ![p] = {}]
  /\ UNCHANGED <<exchange, repeated, verdicts>>

-----------------------------------------------------------------------------
(* The exchange has had this request before.                               *)
Known(r) == Key(r) \in DOMAIN outcomes /\ outcomes[Key(r)].body = r

(* The answer of the development exchange or, to a copy of a request it    *)
(* knows, "duplicate nonce" of the production exchange.                    *)
Answers(r, mode) ==
  {ExchangeAnswer(r, mode)} \cup (IF Known(r) THEN {Answer(200, "err")} ELSE {})

(* The network delivers a request that was sent, at once or late, and      *)
(* copies of it only if it was submitted again; an answer reaches the      *)
(* process that waits for it, or nobody.                                   *)
Deliver(i) ==
  /\ Known(sent[i]) => sent[i] \in repeated
  /\ \E mode \in Modes(sent[i]) :
       /\ HandleExchange(sent[i], mode)
       /\ \/ UNCHANGED arrived
          \/ \E p \in Processes, a \in Answers(sent[i], mode) :
               wait[p] = i /\ arrived' = [arrived EXCEPT ![p] = @ \cup {a}]
  /\ UNCHANGED <<vars, wait, repeated, verdicts>>

Process(p) ==
  \/ (New(p) \/ ConsolidateFunds(p)) /\ UNCHANGED <<exchange, calls, verdicts>>
  \/ \E clock \in Clocks, signer \in Signers(p) :
       \E action \in Actions(signer) : Submit(p, clock, signer, action)
  \/ \E i \in 1..Len(sent) : Resubmit(p, i)
  \/ \E verdict \in {Verdict(a) : a \in arrived[p] \cup Foreign} : Receive(p, verdict)
  \/ Stop(p)

SubmissionNext ==
  \/ \E p \in Processes : Process(p)
  \/ \E i \in 1..Len(sent) : Deliver(i)

SubmissionSpec == SubmissionInit /\ [][SubmissionNext]_all

-----------------------------------------------------------------------------
(* Requests whose nonce was settled without them.                          *)
Refused == {r \in Range(sent) : Key(r) \in DOMAIN outcomes /\ r \notin executed}

(* The client and the exchange keep the contract the tasks are written     *)
(* against: whatever was lost, late, repeated or answered by a proxy, a    *)
(* request told to be accepted was carried out, one told to be rejected at *)
(* its only submission never is, and a nonce executes once (Submit, post,  *)
(* handleExchange).                                                        *)
C == INSTANCE ExchangeContract WITH refused <- Refused
ImplementsContract == C!Spec

(* Money is moved, never made or lost, and what is on hold stays:          *)
(* repeated claims and sends change nothing (apply, applySpotSend).        *)
MoneyIsKept ==
  /\ SumFunctionOnSet([a \in Accounts |-> balances[a] + claimRewards[a]], Accounts)
       = SumFunctionOnSet([a \in Accounts |-> OpeningBalance[a] + OpeningReward[a]], Accounts)
  /\ \A a \in Accounts : balances[a] >= Hold[a]
=============================================================================
