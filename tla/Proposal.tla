------------------------------ MODULE Proposal ------------------------------
(***************************************************************************)
(* The multi-signature proposal subsystem of the chain's state machine:    *)
(* proposal_create, proposal_update and proposal_delete evaluators         *)
(* (libraries/chain/proposal_evaluator.cpp), the bounded authority retry   *)
(* loop assert_irrelevant_proposal_authority, and the nested execution of  *)
(* an approved proposal through the same operation dispatch, bounded by   *)
(* the per-evaluator depth_ counters.                                       *)
(*                                                                         *)
(* An evaluator is a pure operator Apply(db, op, ctx) that returns          *)
(* [ok |-> BOOLEAN, db |-> ...]: a failed operation (an FC_ASSERT that      *)
(* throws) returns ok = FALSE, and its caller discards every change made   *)
(* since its own undo session, exactly as chainbase rolls back.  ctx       *)
(* carries head_block_time, is_producing() and the two depth_ counters;    *)
(* safe_int_increment restores them on every exit, so threading them       *)
(* through the call is the same as the process-lifetime counter.           *)
(***************************************************************************)
EXTENDS Naturals, FiniteSets, Sequences, Functions, TLC

CONSTANTS
  Accounts,    \* account names; every one of them exists
  Props,       \* proposal identities: one per (author, title) pair
  Author,      \* Author[p]: the author part of proposal identity p
  Marks,       \* effects of the leaf operations a proposal may carry
  MaxDepth,    \* CHAIN_MAX_PROPOSAL_DEPTH
  Lifetime,    \* CHAIN_MAX_PROPOSAL_LIFETIME_SEC, in model time units
  NoReview,    \* an absent optional review_period_time
  Operations(_) \* the operations a transaction may carry at a given head block time

ASSUME /\ Author \in [Props -> Accounts]
       /\ MaxDepth \in Nat /\ Lifetime \in Nat \ {0}

VARIABLES
  db,          \* the object store: proposals, required-approval edges, leaf effects
  now          \* head_block_time()

vars == <<db, now>>

-----------------------------------------------------------------------------
(* Authorities: every account has one key per tier, with weight threshold 1 *)

Tiers == {"active", "master", "regular"}
Keys == Accounts \X Tiers              \* <<a, t>> is the key of a's t authority
Kinds == Tiers \cup {"key"}            \* the four available-approval sets

NoApprovals == [k \in Kinds |-> {}]
NoSeed == [t \in Tiers |-> {}]

(* Operations a proposal can carry. A create carries its own packed body. *)
CreateOp(p, body, e, r) ==
  [type |-> "create", prop |-> p, body |-> body, exp |-> e, review |-> r]
UpdateOp(p, add, rem) == [type |-> "update", prop |-> p, add |-> add, rem |-> rem]
DeleteOp(p, who) == [type |-> "delete", prop |-> p, requester |-> who]
LeafOp(m, a, t) == [type |-> "leaf", mark |-> m, acct |-> a, tier |-> t]

(* operation_get_required_authorities: the accounts whose authority of each *)
(* tier an operation needs, and the raw key authorities ("other").         *)
RequiredOf(op) ==
  CASE op.type = "create" ->
         [active |-> {Author[op.prop]}, master |-> {}, regular |-> {}, other |-> {}]
    [] op.type = "update" ->
         [active  |-> op.add.active \cup op.rem.active,
          master  |-> op.add.master \cup op.rem.master,
          regular |-> op.add.regular \cup op.rem.regular,
          other   |-> op.add.key \cup op.rem.key]
    [] op.type = "delete" ->
         [active |-> {op.requester}, master |-> {}, regular |-> {}, other |-> {}]
    [] op.type = "leaf" ->
         [t \in Tiers |-> IF t = op.tier THEN {op.acct} ELSE {}] @@ [other |-> {}]

RequiredOfBody(body) ==
  [t \in Tiers \cup {"other"} |-> UNION {RequiredOf(op)[t] : op \in Range(body)}]

(* remove_existing(first, second): first minus second *)
RemoveExisting(first, second) == first \ second

Ok(d) == [ok |-> TRUE, db |-> d]
Fail(d) == [ok |-> FALSE, db |-> d]

RequiredTotal(pr) == pr.req.active \cup pr.req.master \cup pr.req.regular

(* A removal that leaves the proposal's required_approval_objects behind. *)
RemoveProposalKeepEdges(d, p) ==
  IF p \notin DOMAIN d.props
  THEN [d EXCEPT !.fault = TRUE]
  ELSE [d EXCEPT !.props = Restrict(@, DOMAIN @ \ {p})]

(* database::remove(proposal_object): the proposal and its edges.  Removing *)
(* a proposal that is no longer there is the use of a dangling reference.  *)
RemoveProposal(d, p) ==
  IF p \notin DOMAIN d.props
  THEN [d EXCEPT !.fault = TRUE]
  ELSE [d EXCEPT !.props = Restrict(@, DOMAIN @ \ {p}),
                 !.edges = {e \in @ : e[2] # p}]

-----------------------------------------------------------------------------
(* proposal_object::verify_authority(db, active, master, regular): one     *)
(* verdict, the first failure found: a missing tier (with the accounts      *)
(* missing and the keys used so far), then an unused key, then an unused   *)
(* account approval.  An account is covered by an approval at or above its *)
(* required tier, or else by one of its keys at or above that tier.  extra *)
(* holds the approvals the retry loop seeds.                               *)
Above(t) == CASE t = "regular" -> Tiers
              [] t = "active"  -> {"active", "master"}
              [] t = "master"  -> {"master"}

VerifyAuthority(pr, extra) ==
  LET K == pr.avail.key
      Appr == UNION {{<<a, t>> : a \in pr.avail[t] \cup extra[t]} : t \in Tiers}
      Covered(a, t) == \E u \in Above(t) : <<a, u>> \in Appr
      \* the key that check_authority picks for a: its own tier first, then higher
      KeyFor(a, t) ==
        LET ks == {<<a, u>> : u \in Above(t)} \cap K
        IN IF ks = {} THEN {} ELSE {CHOOSE k \in ks : \A k2 \in ks : k2[2] \in Above(k[2])}
      MissingIn(t) == {a \in pr.req[t] : ~Covered(a, t) /\ KeyFor(a, t) = {}}
      UsedKeys(ts) ==
        UNION {KeyFor(a, t) : <<a, t>> \in UNION {{<<b, u>> : b \in {c \in pr.req[u] : ~Covered(c, u)}} : u \in ts}}
      UsedAppr == {<<a, u>> \in Appr : \E t \in Tiers : a \in pr.req[t] /\ u \in Above(t)}
      Missing(t, ts) ==
        [kind |-> "missing", tier |-> t, accounts |-> MissingIn(t), used |-> UsedKeys(ts)]
      ts == IF pr.req.regular # {} THEN <<"regular">> ELSE <<"active", "master">>
      missing == {i \in 1..Len(ts) : MissingIn(ts[i]) # {}}
      all == {ts[i] : i \in 1..Len(ts)}
  IN IF missing # {}
     THEN LET i == CHOOSE j \in missing : \A j2 \in missing : j <= j2
          IN Missing(ts[i], {ts[j] : j \in 1..i})
     ELSE IF K \ UsedKeys(all) # {}
     THEN [kind |-> "irrelevant_sig", keys |-> K \ UsedKeys(all)]
     ELSE IF Appr \ UsedAppr # {}
     THEN [kind |-> "irrelevant_approval", accounts |-> {x[1] : x \in Appr \ UsedAppr}]
     ELSE [kind |-> "ok"]

(* proposal_object::is_authorized_to_execute *)
IsAuthorizedToExecute(pr) == VerifyAuthority(pr, NoSeed).kind = "ok"

(* assert_irrelevant_proposal_authority: at most three verify passes; a     *)
(* missing tier is seeded once, a second miss of it rethrows; an unused key *)
(* or approval rethrows only when this operation introduced it.  TRUE means *)
(* the function returned, FALSE that it threw.                             *)
RECURSIVE IrrelevanceLoop(_, _, _, _, _)
IrrelevanceLoop(i, pr, op, seed, used) ==
  IF i = 3 THEN TRUE
  ELSE LET v == VerifyAuthority(pr, seed) IN
       CASE v.kind = "ok" -> TRUE
         [] v.kind = "missing" ->
              /\ seed[v.tier] = {}
              /\ IrrelevanceLoop(i + 1, pr, op, [seed EXCEPT ![v.tier] = v.accounts],
                                 used \cup v.used)
         [] v.kind = "irrelevant_sig" ->
              \A s \in v.keys : ~(s \in op.add.key /\ s \notin used)
         [] v.kind = "irrelevant_approval" ->
              \A a \in v.accounts :
                a \notin op.add.active \cup op.add.master \cup op.add.regular

AssertIrrelevantProposalAuthority(pr, op) == IrrelevanceLoop(0, pr, op, NoSeed, {})

-----------------------------------------------------------------------------
(* safe_int_increment and the is_producing() depth check at the top of     *)
(* each proposal evaluator's do_apply.                                      *)
Enter(ctx, ev) == [ctx EXCEPT ![ev] = @ + 1]
DepthAllowed(ctx, ev) == ctx.producing => ctx[ev] <= MaxDepth

RECURSIVE Apply(_, _, _), ApplySeq(_, _, _), PushProposal(_, _, _)

(* apply each operation in order, first failure aborts *)
ApplySeq(d, ops, ctx) ==
  IF ops = <<>> THEN Ok(d)
  ELSE LET r == Apply(d, Head(ops), ctx)
       IN IF r.ok THEN ApplySeq(r.db, Tail(ops), ctx) ELSE Fail(d)

(* database::push_proposal: apply the unpacked operations in an undo       *)
(* session, then remove the proposal; any failure undoes the session.      *)
PushProposal(d, p, ctx) ==
  LET r == ApplySeq(d, d.props[p].body, ctx)
  IN IF r.ok THEN Ok(RemoveProposal(r.db, p)) ELSE Fail(d)

(* Faulty variants of the two helpers below, each a plausible slip in the   *)
(* code, used to confirm that the properties detect them.                  *)
RequiredApprovalEdgesDropRegular(p, total, regular) == {<<a, p>> : a \in total}

(* required_total += required_regular, then one required_approval_object  *)
(* per account of required_total                                           *)
RequiredApprovalEdges(p, total, regular) == {<<a, p>> : a \in total \cup regular}

(* the review-period freeze: no approval of any kind may be added once the *)
(* review period has begun                                                 *)
ReviewFreezeAllows(pr, op, t) ==
  pr.review # NoReview /\ t >= pr.review => \A k \in Kinds : op.add[k] = {}

(* proposal_create_evaluator::do_apply *)
ProposalCreate(d, op, ctx0) ==
  LET ctx   == Enter(ctx0, "create")
      p     == op.prop
      req   == RequiredOfBody(op.body)
      reqActive == RemoveExisting(req.active, req.master)
      total == req.master \cup reqActive
      pr    == [body |-> op.body, exp |-> op.exp, review |-> op.review,
                req |-> [active |-> reqActive, master |-> req.master,
                         regular |-> req.regular],
                avail |-> NoApprovals]
  IN IF /\ DepthAllowed(ctx, "create")
        /\ p \notin DOMAIN d.props
        /\ op.exp > ctx.now
        /\ op.exp <= ctx.now + Lifetime
        /\ op.review = NoReview \/ op.review > ctx.now
        /\ op.review = NoReview \/ op.review < op.exp
        /\ req.other = {}
        /\ (req.regular = {}) # (total = {})
        /\ total \cup req.regular # {}
        \* validate_transaction: a dry run of the body, undone afterwards
        /\ ApplySeq(d, op.body, ctx).ok
     THEN Ok([d EXCEPT !.props = @ @@ (p :> pr),
                       !.edges = @ \cup RequiredApprovalEdges(p, total, req.regular)])
     ELSE Fail(d)

(* proposal_update_evaluator::do_apply *)
ProposalUpdate(d, op, ctx0) ==
  LET ctx    == Enter(ctx0, "update")
      p      == op.prop
      pr     == d.props[p]
      frozen == pr.review # NoReview /\ ctx.now >= pr.review
      pr1    == [pr EXCEPT !.avail = [k \in Kinds |-> RemoveExisting(@[k] \cup op.add[k], op.rem[k])]]
      d1     == [d EXCEPT !.props[p] = pr1]
  IN IF ~ /\ DepthAllowed(ctx, "update")
          /\ p \in DOMAIN d.props
          /\ ReviewFreezeAllows(pr, op, ctx.now)
          /\ \A k \in Kinds : op.rem[k] \subseteq pr.avail[k]
          /\ \A k \in Kinds : op.add[k] \cap pr.avail[k] = {}
     THEN Fail(d)
     ELSE IF pr.review # NoReview
     THEN IF frozen /\ \A k \in Kinds : pr1.avail[k] = {}
          THEN Ok(RemoveProposal(d1, p))
          ELSE Ok(d1)
     ELSE IF ~AssertIrrelevantProposalAuthority(pr1, op) THEN Fail(d)
     ELSE IF IsAuthorizedToExecute(pr1)
          THEN LET r == PushProposal(d1, p, ctx)
               IN IF r.ok THEN r ELSE Ok(d1)   \* failure is logged, not rethrown
          ELSE Ok(d1)

(* proposal_delete_evaluator::do_apply *)
ProposalDelete(d, op) ==
  IF /\ op.prop \in DOMAIN d.props
     /\ \/ Author[op.prop] = op.requester
        \/ op.requester \in RequiredTotal(d.props[op.prop])
  THEN Ok(RemoveProposal(d, op.prop))
  ELSE Fail(d)

(* Any other evaluator, abstracted to a one-shot effect that fails when    *)
(* repeated (an object that may be created only once).                     *)
LeafEvaluate(d, op) ==
  IF op.mark \in d.marks THEN Fail(d) ELSE Ok([d EXCEPT !.marks = @ \cup {op.mark}])

(* The evaluator registry: one evaluator per operation type. *)
Apply(d, op, ctx) ==
  CASE op.type = "create" -> ProposalCreate(d, op, ctx)
    [] op.type = "update" -> ProposalUpdate(d, op, ctx)
    [] op.type = "delete" -> ProposalDelete(d, op)
    [] op.type = "leaf"   -> LeafEvaluate(d, op)

(* database::clear_expired_proposals at the end of a block: in expiration   *)
(* order, execute an expired proposal if it is authorized (errors logged), *)
(* and remove it if it is still there.                                     *)
RECURSIVE ClearExpiredProposals(_, _)
ClearExpiredProposals(d, ctx) ==
  LET expired == {p \in DOMAIN d.props : d.props[p].exp <= ctx.now}
  IN IF expired = {} THEN d
     ELSE LET p == CHOOSE q \in expired :
                     \A q2 \in expired : d.props[q].exp <= d.props[q2].exp
              r == IF IsAuthorizedToExecute(d.props[p]) THEN PushProposal(d, p, ctx)
                   ELSE Fail(d)
          IN ClearExpiredProposals(IF r.ok THEN r.db ELSE RemoveProposal(d, p), ctx)

-----------------------------------------------------------------------------
Ctx(t, producing) == [now |-> t, producing |-> producing, create |-> 0, update |-> 0]

EmptyDb == [props |-> <<>>, edges |-> {}, marks |-> {}, fault |-> FALSE]

(* One transaction of one operation: kept if it succeeds, dropped if not. *)
ApplyTransaction(op, producing) ==
  LET r == Apply(db, op, Ctx(now, producing))
  IN /\ r.ok
     /\ db' = r.db
     /\ UNCHANGED now

(* A new block: time advances, then expired proposals are cleared. *)
NewBlock(producing) ==
  /\ now' = now + 1
  /\ db' = ClearExpiredProposals(db, Ctx(now + 1, producing))

Init ==
  /\ db = EmptyDb
  /\ now = 0

Next ==
  \/ \E op \in Operations(now), producing \in BOOLEAN : ApplyTransaction(op, producing)
  \/ \E producing \in BOOLEAN : NewBlock(producing)

Spec == Init /\ [][Next]_vars

-----------------------------------------------------------------------------
Approvals == [active : SUBSET Accounts, master : SUBSET Accounts,
              regular : SUBSET Accounts, key : SUBSET Keys]

(* Type invariant; required_approval_objects refer only to stored          *)
(* proposals (database::remove of a proposal takes its edges with it).     *)
TypeOK ==
  /\ DOMAIN db.props \subseteq Props
  /\ \A p \in DOMAIN db.props :
       /\ db.props[p].avail \in Approvals
       /\ db.props[p].req \in [Tiers -> SUBSET Accounts]
       /\ db.props[p].exp \in Nat
  /\ db.edges \subseteq Accounts \X DOMAIN db.props
  /\ db.marks \subseteq Marks
  /\ db.fault \in BOOLEAN
  /\ now \in Nat

(* The proposal index: the required sets are normalised as proposal_create *)
(* leaves them (master absorbs active; regular only, or active/master only) *)
(* and the required_approval_object edges are exactly the required accounts *)
(* of the proposals still stored, through creation, nested execution,      *)
(* deletion, review-period garbage collection and expiry.                  *)
ProposalIndexConsistent ==
  /\ \A p \in DOMAIN db.props :
       LET r == db.props[p].req IN
       /\ r.active \cap r.master = {}
       /\ (r.regular = {}) # (r.active \cup r.master = {})
  /\ db.edges = {<<a, p>> \in Accounts \X DOMAIN db.props : a \in RequiredTotal(db.props[p])}

(* Approvals stay relevant (assert_irrelevant_proposal_authority): on a     *)
(* proposal without a review period every stored account approval is of a *)
(* required account at or above its required tier, and every key approval *)
(* is a key that can satisfy a required account.                           *)
RelevantKeys(r) ==
  {<<a, t>> : a \in r.regular, t \in Tiers} \cup
  {<<a, t>> : a \in r.active, t \in {"active", "master"}} \cup
  {<<a, "master">> : a \in r.master}

AvailableApprovalsRelevant ==
  \A p \in DOMAIN db.props :
    LET pr == db.props[p] IN
    pr.review = NoReview =>
      /\ \A u \in Tiers : \A a \in pr.avail[u] : \E t \in Tiers : a \in pr.req[t] /\ u \in Above(t)
      /\ pr.avail.key \subseteq RelevantKeys(pr.req)

(* An executed proposal is removed once (spec.md: executing a satisfied    *)
(* proposal removes it from the index): when push_proposal has applied the *)
(* proposal's operations and removes it, the proposal is still in the     *)
(* index.  db.fault records a remove of a proposal the executed operations *)
(* had already removed, through another proposal they approved.           *)
ExecutedProposalRemovedOnce == ~db.fault

=============================================================================
