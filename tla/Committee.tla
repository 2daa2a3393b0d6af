------------------------------ MODULE Committee ------------------------------
(***************************************************************************)
(* The committee funding-request workflow (committee_evaluator.cpp):       *)
(* committee_worker_create_request, committee_worker_cancel_request and    *)
(* committee_vote_request, with the request counter and the committee fund *)
(* of dynamic_global_property_object, the creators' liquid balances and   *)
(* the CHAIN_HARDFORK_9 gate on the request fee.  Each action is one       *)
(* transaction: it happens only if every FC_ASSERT of the evaluator holds. *)
(***************************************************************************)
EXTENDS Naturals, FiniteSets, Functions, TLC

CONSTANTS
  Accounts,      \* creators and voters
  Urls,          \* request urls
  Percents,      \* vote_percent values
  Fee,           \* median_props.committee_create_request_fee
  PerTime,       \* COMMITTEE_REQUEST_PER_TIME, in model time units
  InitBalance,   \* every account's starting liquid balance
  MaxRequests    \* bound on dgp.committee_requests

ASSUME Fee \in Nat /\ PerTime \in Nat /\ InitBalance \in Nat /\ MaxRequests \in Nat

VARIABLES
  requests,            \* committee_request_index: request_id -> request
  votes,               \* committee_vote_index: a set of vote records
  committee_requests,  \* dgp.committee_requests, the last id handed out
  committee_fund,      \* dgp.committee_fund
  balance,             \* account_object::balance
  hf9,                 \* has_hardfork(CHAIN_HARDFORK_9)
  now                  \* head_block_time()

vars == <<requests, votes, committee_requests, committee_fund, balance, hf9, now>>

(* the committee's own objects and dgp fields before any request *)
InitRequests ==
  /\ requests = <<>>
  /\ votes = {}
  /\ committee_requests = 0
  /\ committee_fund = 0
  /\ now = 0

Init ==
  /\ InitRequests
  /\ balance = [a \in Accounts |-> InitBalance]
  /\ hf9 = FALSE

-----------------------------------------------------------------------------
RequestsOf(c) == {id \in DOMAIN requests : requests[id].creator = c}

(* the duplicate-url lookup on by_creator_url: any request, whatever status *)
UrlTaken(c, url) == \E id \in RequestsOf(c) : requests[id].url = url

(* the cooldown scan over by_creator: a request started less than          *)
(* COMMITTEE_REQUEST_PER_TIME ago blocks a new one                         *)
InCooldown(c) == \E id \in RequestsOf(c) : PerTime > now - requests[id].start_time

(* The same checks without the HF9 balance check. *)
CreateRequestAllowedNoFunds(c, url) ==
  /\ ~UrlTaken(c, url)
  /\ ~InCooldown(c)

(* Every FC_ASSERT of committee_worker_create_request_evaluator::do_apply. *)
CreateRequestAllowed(c, url) ==
  /\ hf9 => balance[c] >= Fee
  /\ ~UrlTaken(c, url)
  /\ ~InCooldown(c)

(* A fee charge that debits the creator but never credits the fund. *)
ChargeFeeNoFund(c) ==
  IF hf9 THEN /\ balance' = [balance EXCEPT ![c] = @ - Fee]
              /\ UNCHANGED committee_fund
  ELSE UNCHANGED <<balance, committee_fund>>

(* after CHAIN_HARDFORK_9 the fee moves from the creator to the fund *)
ChargeFee(c) ==
  IF hf9 THEN /\ balance' = [balance EXCEPT ![c] = @ - Fee]
              /\ committee_fund' = committee_fund + Fee
  ELSE UNCHANGED <<balance, committee_fund>>

(* committee_worker_create_request_evaluator::do_apply *)
CreateRequest(c, url) ==
  LET id == committee_requests + 1
  IN /\ committee_requests < MaxRequests
     /\ CreateRequestAllowed(c, url)
     /\ requests' = requests @@ (id :> [creator |-> c, url |-> url,
                                          start_time |-> now, status |-> 0,
                                          votes_count |-> 0])
     /\ committee_requests' = id
     /\ ChargeFee(c)
     /\ UNCHANGED <<votes, hf9, now>>

(* committee_worker_cancel_request_evaluator::do_apply *)
CancelRequest(c, id) ==
  /\ id \in DOMAIN requests
  /\ requests[id].creator = c
  /\ requests[id].status = 0
  /\ requests' = [requests EXCEPT ![id].status = 1]
  /\ UNCHANGED <<votes, committee_requests, committee_fund, balance, hf9, now>>

(* A vote path that never finds the voter's earlier vote. *)
VoteOfSkipLookup(id, v) == {}

(* the scan of committee_vote_index for the voter's vote on the request *)
VoteOf(id, v) == {x \in votes : x.request_id = id /\ x.voter = v}

(* committee_vote_request_evaluator::do_apply: update the voter's vote in  *)
(* place if the percent differs, or create it and count it                 *)
VoteRequest(v, id, pct) ==
  /\ id \in DOMAIN requests
  /\ requests[id].status = 0
  /\ LET mine == VoteOf(id, v) IN
     IF mine # {}
     THEN /\ \A x \in mine : x.vote_percent # pct
          /\ votes' = (votes \ mine) \cup {[x EXCEPT !.vote_percent = pct] : x \in mine}
          /\ UNCHANGED requests
     ELSE /\ votes' = votes \cup {[request_id |-> id, voter |-> v, vote_percent |-> pct]}
          /\ requests' = [requests EXCEPT ![id].votes_count = @ + 1]
  /\ UNCHANGED <<committee_requests, committee_fund, balance, hf9, now>>

(* The chain reaches CHAIN_HARDFORK_9; it stays applied. *)
Hardfork9 ==
  /\ ~hf9
  /\ hf9' = TRUE
  /\ UNCHANGED <<requests, votes, committee_requests, committee_fund, balance, now>>

(* A new block: head_block_time advances. *)
Tick ==
  /\ now' = now + 1
  /\ UNCHANGED <<requests, votes, committee_requests, committee_fund, balance, hf9>>

Next ==
  \/ \E c \in Accounts, url \in Urls : CreateRequest(c, url)
  \/ \E c \in Accounts, id \in DOMAIN requests : CancelRequest(c, id)
  \/ \E v \in Accounts, id \in DOMAIN requests, pct \in Percents : VoteRequest(v, id, pct)
  \/ Hardfork9
  \/ Tick

Spec == Init /\ [][Next]_vars

-----------------------------------------------------------------------------
Request == [creator : Accounts, url : Urls, start_time : Nat,
            status : {0, 1}, votes_count : Nat]

(* Type invariant; balances never go negative, which rests on the HF9 fee  *)
(* check of committee_worker_create_request.                               *)
RequestsTypeOK ==
  /\ DOMAIN requests \subseteq 1..MaxRequests /\ \A id \in DOMAIN requests : requests[id] \in Request
  /\ votes \subseteq [request_id : DOMAIN requests, voter : Accounts, vote_percent : Percents]
  /\ committee_requests \in 0..MaxRequests
  /\ committee_fund \in Nat
  /\ now \in Nat

TypeOK ==
  /\ RequestsTypeOK
  /\ balance \in [Accounts -> Nat]
  /\ hf9 \in BOOLEAN

(* One vote per voter and request, and votes_count counts exactly those    *)
(* votes, across fresh votes, re-votes with a new percent and cancels.     *)
VotesCounted ==
  \A id \in DOMAIN requests :
    /\ requests[id].votes_count = Cardinality({x \in votes : x.request_id = id})
    /\ \A x, y \in votes : x.request_id = id /\ y.request_id = id /\ x.voter = y.voter => x = y

=============================================================================
