-------------------------- MODULE ExchangeContract --------------------------
(***************************************************************************)
(* What the funding code relies on when it submits a signed request: the   *)
(* exchange settles a request once, carried out or refused for good, and   *)
(* at most one request is carried out for a signer and a nonce.  A request *)
(* told to be accepted was carried out.  One told to be rejected will      *)
(* never be, if it was submitted only once; the rejection of a repeated    *)
(* one, such as "duplicate nonce", says nothing of its other copies        *)
(* (docs/architecture.md:147).  An unknown verdict says nothing and is not *)
(* recorded.                                                               *)
(***************************************************************************)
VARIABLES
  executed,   \* requests carried out
  refused,    \* requests that will never be carried out
  verdicts    \* definite verdicts given to the caller: the request, whether
              \* it was submitted for the first and only time, and the answer

vars == <<executed, refused, verdicts>>

Init == executed = {} /\ refused = {} /\ verdicts = {}

Settle ==
  /\ executed \subseteq executed' /\ refused \subseteq refused'
  /\ executed' \cap refused' = {}
  /\ \A r, s \in executed' : r.signer = s.signer /\ r.nonce = s.nonce => r = s
  /\ UNCHANGED verdicts

Tell ==
  /\ verdicts \subseteq verdicts'
  /\ \A v \in verdicts' \ verdicts :
       /\ v.answer = "accepted" => v.request \in executed
       /\ v.answer = "rejected" /\ v.first => v.request \in refused
  /\ UNCHANGED <<executed, refused>>

Next == Settle \/ Tell

Spec == Init /\ [][Next]_vars
=============================================================================
