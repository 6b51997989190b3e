---------------------------- MODULE DevExchange -----------------------------
(***************************************************************************)
(* The /exchange endpoint of the development exchange                      *)
(* (internal/dev/hyperliquidmock/server.go): the accounts, and the answer  *)
(* kept for every signer and nonce.  Requests are the well-signed ones the *)
(* client makes, so the answers to malformed ones are left out, as is the  *)
(* /info endpoint: its queued snapshots script a lag that the models of    *)
(* the tasks have in full.                                                 *)
(***************************************************************************)
EXTENDS Integers, FiniteSets

CONSTANTS
  Accounts,        \* every account
  OpeningBalance,  \* SetSpotBalanceWithHold: total of every account
  Hold,            \* SetSpotBalanceWithHold: the part on hold
  OpeningReward,   \* SetClaimReward
  Destination,     \* where the sends of an account go
  Failures         \* bound: the failures that are injected

FailureMode == {"none", "rejected", "ambiguous", "ambiguous_applied", "http_error",
                "http_error_applied"}

ASSUME ExchangeAssumption ==
  /\ IsFiniteSet(Accounts)
  /\ OpeningBalance \in [Accounts -> Nat] /\ OpeningReward \in [Accounts -> Nat]
  /\ Hold \in [Accounts -> Nat] /\ \A a \in Accounts : Hold[a] <= OpeningBalance[a]
  /\ Destination \in [Accounts -> Accounts] /\ Failures \subseteq FailureMode

VARIABLES
  balances,      \* total of every account
  claimRewards,  \* reward of every account
  requestsUsed,  \* rate limit counter of every account
  outcomes,      \* body and answer kept for a signer and a nonce
  executed       \* bodies carried out

accounts == <<balances, claimRewards, requestsUsed, executed>>
exchange == <<accounts, outcomes>>

ExchangeInit ==
  /\ balances = OpeningBalance /\ claimRewards = OpeningReward
  /\ requestsUsed = [a \in Accounts |-> 0] /\ outcomes = <<>> /\ executed = {}

Key(r) == <<r.signer, r.nonce>>

(* An HTTP response: status code (0: none arrived), is its body whole, and *)
(* what the body says.                                                     *)
Answer(code, status) == [code |-> code, whole |-> TRUE, status |-> status]

-----------------------------------------------------------------------------
(* apply                                                                   *)

Applicable(r) ==
  IF r.action.kind = "claimRewards" THEN claimRewards[r.signer] > 1
  ELSE balances[r.signer] - Hold[r.signer] >= r.action.amount

(* Mutant: a claim leaves the reward to be claimed again.                  *)
ClaimKeepsReward(r) ==
  /\ balances' = [balances EXCEPT ![r.signer] = @ + claimRewards[r.signer]]
  /\ UNCHANGED claimRewards

Claim(r) ==
  /\ balances' = [balances EXCEPT ![r.signer] = @ + claimRewards[r.signer]]
  /\ claimRewards' = [claimRewards EXCEPT ![r.signer] = 0]

applySpotSend(r) ==
  /\ balances' = [balances EXCEPT ![r.signer] = @ - r.action.amount,
                                  ![Destination[r.signer]] = @ + r.action.amount]
  /\ UNCHANGED claimRewards

Apply(r) ==
  /\ IF r.action.kind = "claimRewards" THEN Claim(r) ELSE applySpotSend(r)
  /\ requestsUsed' = [requestsUsed EXCEPT ![r.signer] = @ + 1]
  /\ executed' = executed \cup {r}

-----------------------------------------------------------------------------
(* handleExchange                                                          *)

ShouldApply(mode) == mode \notin {"rejected", "ambiguous", "http_error"}

(* The answer to a request of a new nonce.                                 *)
NewAnswer(r, mode) ==
  IF ShouldApply(mode) /\ ~Applicable(r) THEN Answer(200, "err")
  ELSE CASE mode = "rejected"                            -> Answer(200, "err")
         [] mode \in {"ambiguous", "ambiguous_applied"}  -> Answer(200, "unknown")
         [] mode \in {"http_error", "http_error_applied"} -> Answer(503, "unknown")
         [] OTHER                                        -> Answer(200, "ok")

(* The answer to a repeated nonce: the one kept, or an error for another   *)
(* body.                                                                   *)
PriorAnswer(r) ==
  IF outcomes[Key(r)].body = r THEN outcomes[Key(r)].answer ELSE Answer(200, "err")

HandleFirst(r, mode) ==
  /\ IF ShouldApply(mode) /\ Applicable(r) THEN Apply(r) ELSE UNCHANGED accounts
  /\ outcomes' = [k \in DOMAIN outcomes \cup {Key(r)} |->
                    IF k = Key(r) THEN [body |-> r, answer |-> NewAnswer(r, mode)] ELSE outcomes[k]]

(* FailNextExchange: the failure the next request of a new nonce meets.    *)
Modes(r) == IF Key(r) \in DOMAIN outcomes THEN {"none"} ELSE {"none"} \cup Failures

ExchangeAnswer(r, mode) ==
  IF Key(r) \in DOMAIN outcomes THEN PriorAnswer(r) ELSE NewAnswer(r, mode)

HandleExchange(r, mode) ==
  IF Key(r) \in DOMAIN outcomes THEN UNCHANGED exchange ELSE HandleFirst(r, mode)
=============================================================================
