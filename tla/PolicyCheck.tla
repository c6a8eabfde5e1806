----------------------------- MODULE PolicyCheck -----------------------------
(***************************************************************************)
(* The policy pipeline on one consistent reading of an order: the engine   *)
(* decides, the builder makes the output, the verifier judges it.  Where   *)
(* CaseWorkflow looks at the order of the steps, this module looks at the  *)
(* data, over many orders and with limits small enough to be reached.      *)
(***************************************************************************)
EXTENDS PolicyEngine

CONSTANTS
    Orders,     \* order rows
    ItemSets,   \* sets of item rows
    PaymentSets \* sets of payment rows

\* An order has an estimate and perhaps a carrier and a customer date; rows are finitely
\* many, with keys that have an order and amounts in cents (models.py:25-58), none of
\* them negative, which of its totals the output requires too (final_output.py:49-52).
ASSUME OrdersAssumption ==
    \A o \in Orders : o.estimated \in Nat \ {NoDate} /\ o.carrier \in Nat /\ o.customer \in Nat

IsAmount(amount) == amount \in Nat /\ amount % 10 = 0

ASSUME RowsAssumption ==
    /\ \A rows \in ItemSets :
           /\ IsFiniteSet(rows)
           /\ \A r \in rows : /\ r.id \in Nat /\ r.seller \in Nat /\ r.limit \in Nat
                              /\ IsAmount(r.price) /\ IsAmount(r.freight)
    /\ \A rows \in PaymentSets :
           IsFiniteSet(rows) /\ \A r \in rows : r.seq \in Nat /\ IsAmount(r.value)

VARIABLES order, items, payments, stage, decision, output

vars == <<order, items, payments, stage, decision, output>>

Fin == Financials(items, payments)
Ctx == Context(order, items, Fin)
Board == [order |-> order, items |-> items, payments |-> payments, fin |-> Fin]
Nothing == [issue |-> NoMatch]

Init ==
    /\ order \in Orders /\ items \in ItemSets /\ payments \in PaymentSets
    /\ stage = "read" /\ decision = Nothing /\ output = Nothing

Decide(repair_count, noncritical_missing, warnings) ==
    /\ stage = "read" /\ Classify(Ctx) # NoMatch
    /\ decision' = Evaluate(Ctx, repair_count, noncritical_missing, warnings)
    /\ stage' = "decided"
    /\ UNCHANGED <<order, items, payments, output>>

\* PolicyNoMatchError
Refuse ==
    /\ stage = "read" /\ Classify(Ctx) = NoMatch
    /\ stage' = "refused"
    /\ UNCHANGED <<order, items, payments, decision, output>>

Build ==
    /\ stage = "decided"
    /\ output' = BuildFinalOutput(Board, decision)
    /\ stage' = "built"
    /\ UNCHANGED <<order, items, payments, decision>>

Done == stage \in {"built", "refused"} /\ UNCHANGED vars

Next ==
    \/ \E repair_count \in 0..1, missing, warnings \in BOOLEAN :
           Decide(repair_count, missing, warnings)
    \/ Refuse \/ Build \/ Done

Spec == Init /\ [][Next]_vars
-----------------------------------------------------------------------------
\* On one reading of the rows the verifier accepts what the engine decided and
\* the builder built, whatever was truncated on the way (repair count, missing
\* review and warnings included): a mismatch always means different readings.
SelfVerifies ==
    stage \in {"decided", "built"} =>
        Verify(Board, decision, Evaluate(Ctx, 0, FALSE, FALSE), Ctx, items, payments) = Passed

PaidSum == ColumnSum("value", payments)
OrderSum == MapThenSumSet(LAMBDA r : r.price + r.freight, items)
Cancelled == order.status \in {"canceled", "unavailable"} /\ PaidSum > 0
Reconciles == Distance(PaidSum, OrderSum) <= 100

\* architecture.md, chapter 12, from the rows: a paid order that was canceled or
\* is unavailable; else a late delivery, blamed on the sellers with a late
\* handover or else on the carrier; else a split payment or an unfounded claim,
\* both only if the payments reconcile within 0.10; and nothing in other cases.
ClassifiedAsDocumented ==
    LET late     == order.customer > order.estimated
        hand     == \E r \in items : order.carrier > r.limit
        rest     == ~Cancelled /\ ~late /\ Reconciles
        issue    == Classify(Ctx)
    IN  /\ (issue \in {"canceled_order_paid", "unavailable_order_paid"}) <=> Cancelled
        /\ issue = "late_delivery_seller" <=> ~Cancelled /\ late /\ hand
        /\ issue = "late_delivery_logistics" <=> ~Cancelled /\ late /\ ~hand
        /\ issue = "valid_split_payment" <=> rest /\ Cardinality(payments) > 1
        /\ issue = "unsupported_late_claim" <=>
               rest /\ Cardinality(payments) < 2 /\ order.customer # NoDate

\* Money moves only with somebody responsible for it, and when the payments
\* reconcile a refund is at most what the order costs plus the tolerance.
RefundJustified ==
    stage \in {"decided", "built"} =>
        /\ decision.refund > 0 => decision.parties # {}
        /\ Reconciles => decision.refund <= OrderSum + PaymentTolerance

\* The evidence of an output is about entities it lists or blames, keeps the
\* order and the policy whatever else is cut, and loses a seller it blames only
\* when the items and payments it lists have taken the room.
EvidenceGrounded ==
    stage = "built" =>
        LET of(kind) == {e[2] : e \in {f \in output.evidence : f[1] = kind}}
            blamed   == {p[2] : p \in {q \in output.parties : q[1] = "seller"}}
        IN  /\ Cardinality(output.evidence) <= EvidenceLimit
            /\ of("order") # {} /\ of("policy") = {output.issue}
            /\ of("item") \subseteq output.item_ids
            /\ of("payment") \subseteq output.payment_ids
            /\ of("seller") \subseteq blamed
            /\ blamed \subseteq of("seller") \/ Cardinality(output.evidence) = EvidenceLimit

\* A seller is blamed only for an item of its own handed over late; and when
\* the order has no more sellers than an output may list, the output lists the
\* blamed ones (builder.py:22, engine.py:63-66 truncate two different lists).
BlamedSellersLate ==
    stage = "built" =>
        \A p \in output.parties : p[1] = "seller" =>
            /\ \E r \in items : r.seller = p[2] /\ order.carrier > r.limit
            /\ Cardinality({r.seller : r \in items}) <= EntityLimit =>
                   p[2] \in output.seller_ids

\* architecture.md:1106 and :1129 give every late delivery the case_status
\* action_required, without a condition on the freight; here for a delivered order
\* with items.
LateIsActionRequired ==
    LET late == order.status = "delivered" /\ order.customer > order.estimated
    IN  stage \in {"decided", "built"} /\ items # {} /\ late =>
            decision.status = "action_required"
=============================================================================
