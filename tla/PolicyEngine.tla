---------------------------- MODULE PolicyEngine ----------------------------
(***************************************************************************)
(* EC_POLICY_V1 as pure operators: the finance calculator, the rule engine *)
(* (src/src/policy), the builder of the final output (src/src/output) and  *)
(* the deterministic half of the verifier (src/src/verification).          *)
(*                                                                         *)
(* A database row is a record.  Amounts are integers in thousandths of a   *)
(* BRL, timestamps are positive integers and NoDate stands for NULL.       *)
(* Sellers are integers so that sorted() has an order to follow.           *)
(***************************************************************************)
EXTENDS Integers, Sequences, FiniteSets, FiniteSetsExt, SequencesExt

CONSTANTS
    EntityLimit,    \* affected items, payments and sellers an output may list (5)
    EvidenceLimit,  \* evidence IDs an output may list (10)
    PartyLimit      \* responsible sellers a decision may name (3)

ASSUME LimitsAssumption ==
    EntityLimit \in Nat /\ EvidenceLimit \in Nat \ {0, 1} /\ PartyLimit \in Nat \ {0}

NoDate == 0
NoMatch == "POLICY_NO_MATCH"
-----------------------------------------------------------------------------
\* Finance

\* ROUND_HALF_UP to the cent: ties go away from zero.
Money(v) ==
    IF v >= 0 THEN ((v + 5) \div 10) * 10 ELSE -(((5 - v) \div 10) * 10)

Distance(a, b) == IF a >= b THEN a - b ELSE b - a

PaymentTolerance == 100

\* The sum of a column over the rows
ColumnSum(column, rows) == MapThenSumSet(LAMBDA r : r[column], rows)

Financials(items, payments) ==
    LET item    == Money(ColumnSum("price", items))
        freight == Money(ColumnSum("freight", items))
        paid    == Money(ColumnSum("value", payments))
    IN  [item_total |-> item, freight_total |-> freight, payment_total |-> paid,
         row_count |-> Cardinality(payments),
         matches |-> Distance(paid, item + freight) <= PaymentTolerance]

\* What the engine is given: the order, its items and their financials.
Context(order, items, fin) == [order |-> order, items |-> items, fin |-> fin]
-----------------------------------------------------------------------------
\* Facts read off a context

DeliveredAfter(order) ==
    order.customer # NoDate /\ order.customer > order.estimated

DeliveredWithin(order) ==
    order.customer # NoDate /\ order.customer <= order.estimated

\* Mutant of LateItems: a handover on the limit counts as late.
LateOrPunctualItems(order, items) ==
    IF order.carrier = NoDate THEN {} ELSE {r \in items : order.carrier >= r.limit}

LateItems(order, items) ==
    IF order.carrier = NoDate THEN {} ELSE {r \in items : order.carrier > r.limit}
-----------------------------------------------------------------------------
\* The rules

Rules == [
    canceled_order_paid |->
        [party |-> "platform", basis |-> "payment_total", action |-> "issue_full_refund"],
    unavailable_order_paid |->
        [party |-> "platform", basis |-> "payment_total", action |-> "issue_full_refund"],
    late_delivery_seller |->
        [party |-> "seller", basis |-> "freight_total", action |-> "refund_freight"],
    late_delivery_logistics |->
        [party |-> "logistics_provider", basis |-> "freight_total", action |-> "refund_freight"],
    valid_split_payment |->
        [party |-> "none", basis |-> "zero", action |-> "explain_valid_split_payment"],
    unsupported_late_claim |->
        [party |-> "none", basis |-> "zero", action |-> "reject_late_refund"]]

Issues == DOMAIN Rules

\* Mutant of Precedence: a split payment is looked for before a late delivery.
SplitFirst == <<"canceled_order_paid", "unavailable_order_paid", "valid_split_payment",
                "late_delivery_seller", "late_delivery_logistics", "unsupported_late_claim">>

\* The order in which classify tries the rules.
Precedence == <<"canceled_order_paid", "unavailable_order_paid",
                "late_delivery_seller", "late_delivery_logistics",
                "valid_split_payment", "unsupported_late_claim">>

\* The condition under which classify returns issue, once it gets to it.
Applies(issue, ctx) ==
    \/ /\ issue = "canceled_order_paid"
       /\ ctx.order.status = "canceled" /\ ctx.fin.payment_total > 0
    \/ /\ issue = "unavailable_order_paid"
       /\ ctx.order.status = "unavailable" /\ ctx.fin.payment_total > 0
    \/ /\ issue = "late_delivery_seller"
       /\ DeliveredAfter(ctx.order) /\ LateItems(ctx.order, ctx.items) # {}
    \/ /\ issue = "late_delivery_logistics"
       /\ DeliveredAfter(ctx.order) /\ LateItems(ctx.order, ctx.items) = {}
    \/ /\ issue = "valid_split_payment"
       /\ ctx.fin.row_count >= 2 /\ ctx.fin.matches
    \/ /\ issue = "unsupported_late_claim"
       /\ DeliveredWithin(ctx.order) /\ ctx.fin.matches

Classify(ctx) ==
    LET hits == {k \in DOMAIN Precedence : Applies(Precedence[k], ctx)}
    IN  IF hits = {} THEN NoMatch ELSE Precedence[Min(hits)]

\* sorted(S)[:n], as the set of its members.
Smallest(S, n) == {x \in S : Cardinality({y \in S : y < x}) < n}

ResponsibleParties(issue, ctx) ==
    IF Rules[issue].party = "none" THEN {}
    ELSE IF Rules[issue].party = "seller"
         THEN {<<"seller", s>> :
                 s \in Smallest({r.seller : r \in LateItems(ctx.order, ctx.items)}, PartyLimit)}
         ELSE {<<Rules[issue].party, 0>>}

\* Mutant of BasisAmount: a full refund adds the freight, paid already.
BasisAmountTwice(issue, fin) ==
    IF Rules[issue].basis = "payment_total" THEN Money(fin.payment_total + fin.freight_total)
    ELSE IF Rules[issue].basis = "freight_total" THEN Money(fin.freight_total)
    ELSE 0

\* The amount a rule refunds out of the financials fin.
BasisAmount(issue, fin) ==
    IF Rules[issue].basis = "payment_total" THEN Money(fin.payment_total)
    ELSE IF Rules[issue].basis = "freight_total" THEN Money(fin.freight_total)
    ELSE 0

\* Mutant of Evaluate: a contradiction by the model does not lower the confidence.
EvaluateConfident(ctx, repair_count, noncritical_missing, warnings) ==
    LET issue  == Classify(ctx)
        refund == BasisAmount(issue, ctx.fin)
    IN  [issue      |-> issue,
         status     |-> IF refund > 0 THEN "action_required" ELSE "no_action",
         parties    |-> ResponsibleParties(issue, ctx),
         refund     |-> refund,
         action     |-> Rules[issue].action,
         confidence |-> IF repair_count > 0 THEN 90 ELSE IF noncritical_missing THEN 95 ELSE 98]

\* PolicyEngine.evaluate; the caller has excluded NoMatch, which raises.
\* The root cause is in bijection with the issue and is not kept apart.
Evaluate(ctx, repair_count, noncritical_missing, warnings) ==
    LET issue  == Classify(ctx)
        refund == BasisAmount(issue, ctx.fin)
    IN  [issue      |-> issue,
         status     |-> IF refund > 0 THEN "action_required" ELSE "no_action",
         parties    |-> ResponsibleParties(issue, ctx),
         refund     |-> refund,
         action     |-> Rules[issue].action,
         confidence |-> IF repair_count > 0 \/ warnings THEN 90
                        ELSE IF noncritical_missing THEN 95 ELSE 98]
-----------------------------------------------------------------------------
\* The final output.  A board has the order and items of the order report, the
\* payments and financials of the payment report.

Tagged(kind, ids) == {<<kind, id>> : id \in ids}

\* Mutant of PrioritizeEvidence: the policy's own ID takes no room.
PrioritizeOverfull(issue, item_ids, payment_ids, seller_ids) ==
    LET room     == EvidenceLimit - 1
        items    == Smallest(item_ids, room)
        payments == Smallest(payment_ids, room - Cardinality(items))
        sellers  == Smallest(seller_ids, room - Cardinality(items) - Cardinality(payments))
    IN  {<<"order", 0>>, <<"policy", issue>>}
        \cup Tagged("item", items) \cup Tagged("payment", payments)
        \cup Tagged("seller", sellers)

\* The first EvidenceLimit candidates, as a set: the order, the policy, then
\* what room there is for items, for payments and for sellers.
PrioritizeEvidence(issue, item_ids, payment_ids, seller_ids) ==
    LET room     == EvidenceLimit - 2
        items    == Smallest(item_ids, room)
        payments == Smallest(payment_ids, room - Cardinality(items))
        sellers  == Smallest(seller_ids, room - Cardinality(items) - Cardinality(payments))
    IN  {<<"order", 0>>, <<"policy", issue>>}
        \cup Tagged("item", items) \cup Tagged("payment", payments)
        \cup Tagged("seller", sellers)

BuildFinalOutput(board, decision) ==
    LET item_ids    == Smallest({r.id : r \in board.items}, EntityLimit)
        payment_ids == Smallest({r.seq : r \in board.payments}, EntityLimit)
        blamed      == {p[2] : p \in {q \in decision.parties : q[1] = "seller"}}
    IN  [issue |-> decision.issue, status |-> decision.status,
         confidence |-> decision.confidence, refund |-> decision.refund,
         action |-> decision.action, parties |-> decision.parties,
         item_ids |-> item_ids, payment_ids |-> payment_ids,
         seller_ids |-> Smallest({r.seller : r \in board.items}, EntityLimit),
         evidence |-> PrioritizeEvidence(decision.issue, item_ids, payment_ids, blamed),
         item_total |-> board.fin.item_total, freight_total |-> board.fin.freight_total,
         payment_total |-> board.fin.payment_total]

\* The cross-field conditions of FinalCaseOutput and FinancialResolution.  The
\* length and uniqueness conditions hold of every output the builder makes.
SchemaValid(out) ==
    /\ out.status = "action_required" => out.refund > 0
    /\ out.status = "no_action" => out.refund = 0
    /\ out.refund >= 0
    /\ out.item_total >= 0 /\ out.freight_total >= 0 /\ out.payment_total >= 0
-----------------------------------------------------------------------------
\* Deterministic verification

\* No compared field of the two decisions differs; confidence is not compared.
PolicyAgrees(proposed, expected) ==
    /\ proposed.issue = expected.issue
    /\ proposed.status = expected.status
    /\ proposed.parties = expected.parties
    /\ proposed.action = expected.action

TotalsAgree(actual, expected) ==
    /\ Money(actual.item_total) = Money(expected.item_total)
    /\ Money(actual.freight_total) = Money(expected.freight_total)
    /\ Money(actual.payment_total) = Money(expected.payment_total)

\* The refund that validate_financials expects, by a table of its own.
ExpectedRefund(issue, fin) ==
    IF issue \in {"canceled_order_paid", "unavailable_order_paid"} THEN fin.payment_total
    ELSE IF issue \in {"late_delivery_seller", "late_delivery_logistics"} THEN fin.freight_total
    ELSE 0

\* Mutant of RefundAgrees: every refund is checked against the payments.
RefundAgreesPaid(decision, expected) ==
    Money(decision.refund) = Money(expected.payment_total)

RefundAgrees(decision, expected) ==
    Money(decision.refund) = Money(ExpectedRefund(decision.issue, expected))

\* items and payments are the rows the reference check reads.
ReferencesValid(out, items, payments) ==
    /\ out.item_ids \subseteq {r.id : r \in items}
    /\ out.seller_ids \subseteq {r.seller : r \in items}
    /\ out.payment_ids \subseteq {r.seq : r \in payments}

\* parse_evidence_id: a policy ID names one of the root causes.  The other kinds are
\* well-formed, and the order they name is that of the case.
EvidenceValid(out) == \A e \in out.evidence : e[1] = "policy" => e[2] \in Issues

\* The repair target of the first error, or Passed.  checks holds the verdicts
\* in the order in which the verifier appends their errors.
Passed == "passed"

FirstTarget(checks) ==
    LET failed == {k \in DOMAIN checks : ~checks[k][1]}
    IN  IF failed = {} THEN Passed ELSE checks[Min(failed)][2]

\* expected is the verifier's own decision on ctx, the rows it read itself.
Verify(board, decision, expected, ctx, items, payments) ==
    LET candidate == BuildFinalOutput(board, decision)
        built     == SchemaValid(candidate)
    IN  FirstTarget(<<
            <<PolicyAgrees(decision, expected), "policy_agent">>,
            <<TotalsAgree(board.fin, ctx.fin), "payment_agent">>,
            <<RefundAgrees(decision, ctx.fin), "policy_agent">>,
            <<built, "policy_agent">>,
            <<built => ReferencesValid(candidate, items, payments), "order_seller_agent">>,
            <<built => EvidenceValid(candidate), "policy_agent">>>>)
=============================================================================
