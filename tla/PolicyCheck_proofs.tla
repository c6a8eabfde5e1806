------------------------- MODULE PolicyCheck_proofs -------------------------
(***************************************************************************)
(* Theorems about PolicyCheck, for all orders, rows and limits.            *)
(***************************************************************************)
EXTENDS PolicyCheck, PolicyEngine_proofs

\* A column of amounts has an amount for its sum.
LEMMA ColumnValue ==
    ASSUME NEW S, IsFiniteSet(S), NEW column, \A r \in S : IsAmount(r[column])
    PROVE  IsAmount(ColumnSum(column, S))
<1> DEFINE g == [r \in S |-> r[column]]
<1>1. \A r \in S : r[column] \in Nat /\ r[column] % 10 = 0
  BY DEF IsAmount
<1>2. PICK f : AddsUp(g, S, f) /\ ColumnSum(column, S) = f[S]
  BY <1>1, ColumnAddsUp
<1>3. \A r \in S : g[r] \in Int /\ g[r] % 10 = 0 /\ g[r] >= 0
  BY <1>1
<1> HIDE DEF g
<1>4. f[S] \in Int /\ f[S] % 10 = 0 /\ f[S] >= 0
  BY <1>2, <1>3, SumOfCents
<1> QED BY <1>2, <1>4 DEF IsAmount

\* The cost of the items is their price and their freight.
LEMMA CostValue ==
    ASSUME NEW S, IsFiniteSet(S), \A r \in S : IsAmount(r.price) /\ IsAmount(r.freight)
    PROVE  MapThenSumSet(LAMBDA r : r.price + r.freight, S)
               = ColumnSum("price", S) + ColumnSum("freight", S)
<1> DEFINE g == [r \in S |-> r["price"]]
           h == [r \in S |-> r["freight"]]
           k == [r \in S |-> r.price + r.freight]
<1>1. \A r \in S : r.price \in Int /\ r.freight \in Int
  BY DEF IsAmount
<1>2. PICK f : AddsUp(g, S, f) /\ ColumnSum("price", S) = f[S]
  BY <1>1, ColumnAddsUp
<1>3. PICK e : AddsUp(h, S, e) /\ ColumnSum("freight", S) = e[S]
  BY <1>1, ColumnAddsUp
<1>4. PICK d : AddsUp(k, S, d) /\ MapThenSumSet(LAMBDA r : r.price + r.freight, S) = d[S]
  BY <1>1, CostAddsUp, Zenon
<1>5. AddsPointwise(g, h, k, S)
  BY <1>1 DEF AddsPointwise
<1> HIDE DEF g, h, k
<1>6. AddsUp(k, S, d)
  BY <1>4, Zenon
<1>7. d[S] = f[S] + e[S]
  BY <1>2, <1>3, <1>5, <1>6, SumOfSums
<1> QED BY <1>2, <1>3, <1>4, <1>7, Zenon
-----------------------------------------------------------------------------
(***************************************************************************)
(* The inductive invariant: the rows are rows of the constants; a decision *)
(* is the engine's on the context they give; an output is what the builder *)
(* makes of the decision and the board they give.                          *)
(***************************************************************************)
Stages ==
    /\ order \in Orders /\ items \in ItemSets /\ payments \in PaymentSets
    /\ stage \in {"read", "decided", "built", "refused"}

EngineDecided ==
    stage \in {"decided", "built"} =>
        /\ Classify(Ctx) # NoMatch
        /\ \E repair_count \in 0..1, missing, warnings \in BOOLEAN :
               decision = Evaluate(Ctx, repair_count, missing, warnings)

BuilderBuilt == stage = "built" => output = BuildFinalOutput(Board, decision)

IInv == Stages /\ EngineDecided /\ BuilderBuilt

\* Each step keeps the invariant.
LEMMA IInvStep == IInv /\ [Next]_vars => IInv'
<1> SUFFICES ASSUME IInv, [Next]_vars PROVE IInv'
  OBVIOUS
<1>1. ASSUME NEW repair_count \in 0..1, NEW missing \in BOOLEAN, NEW warnings \in BOOLEAN,
             Decide(repair_count, missing, warnings)
      PROVE  IInv'
  <2>1. /\ UNCHANGED <<order, items, payments, output>> /\ stage' = "decided"
        /\ Classify(Ctx) # NoMatch
        /\ decision' = Evaluate(Ctx, repair_count, missing, warnings)
    BY <1>1 DEF Decide
  <2>2. Ctx' = Ctx
    BY <2>1 DEF Ctx, Fin
  <2> QED BY <2>1, <2>2 DEF IInv, Stages, EngineDecided, BuilderBuilt
<1>2. CASE Refuse
  BY <1>2 DEF Refuse, IInv, Stages, EngineDecided, BuilderBuilt
<1>3. CASE Build
  <2>1. /\ UNCHANGED <<order, items, payments, decision>>
        /\ stage = "decided" /\ stage' = "built"
        /\ output' = BuildFinalOutput(Board, decision)
    BY <1>3 DEF Build
  <2>2. Ctx' = Ctx /\ Board' = Board
    BY <2>1 DEF Ctx, Fin, Board
  <2> QED BY <2>1, <2>2 DEF IInv, Stages, EngineDecided, BuilderBuilt
<1>4. CASE UNCHANGED vars
  <2>1. UNCHANGED <<order, items, payments, stage, decision, output>>
    BY <1>4 DEF vars
  <2>2. Ctx' = Ctx /\ Board' = Board
    BY <2>1 DEF Ctx, Fin, Board
  <2> QED BY <2>1, <2>2 DEF IInv, Stages, EngineDecided, BuilderBuilt
<1> QED BY <1>1, <1>2, <1>3, <1>4 DEF Next, Done

\* The invariant holds in every reachable state.
LEMMA Invariance == Spec => []IInv
<1>1. Init => IInv
  BY DEF Init, IInv, Stages, EngineDecided, BuilderBuilt
<1> QED BY <1>1, IInvStep, PTL DEF Spec

\* The keys of the rows are finitely many numbers.
LEMMA RowKeys ==
    ASSUME IInv
    PROVE  /\ {r.id : r \in items} \subseteq Int /\ IsFiniteSet({r.id : r \in items})
           /\ {r.seller : r \in items} \subseteq Int /\ IsFiniteSet({r.seller : r \in items})
           /\ {r.seq : r \in payments} \subseteq Int /\ IsFiniteSet({r.seq : r \in payments})
           /\ IsFiniteSet(LateItems(order, items)) /\ LateItems(order, items) \subseteq items
<1> USE RowsAssumption DEF IInv, Stages
<1>1. IsFiniteSet(items) /\ IsFiniteSet(payments)
  OBVIOUS
<1>2. /\ \A r \in items : r.id \in Nat /\ r.seller \in Nat
      /\ \A r \in payments : r.seq \in Nat
  OBVIOUS
<1>3. /\ IsFiniteSet({r.id : r \in items}) /\ IsFiniteSet({r.seller : r \in items})
      /\ IsFiniteSet({r.seq : r \in payments})
  <2>1. /\ [r \in items |-> r.id] \in Surjection(items, {r.id : r \in items})
        /\ [r \in items |-> r.seller] \in Surjection(items, {r.seller : r \in items})
        /\ [r \in payments |-> r.seq] \in Surjection(payments, {r.seq : r \in payments})
    BY DEF Surjection
  <2> QED BY <1>1, <2>1, FS_Surjection
<1>4. IsFiniteSet(LateItems(order, items)) /\ LateItems(order, items) \subseteq items
  BY <1>1, FS_Subset, FS_EmptySet DEF LateItems
<1> QED BY <1>2, <1>3, <1>4

\* Whom the engine holds responsible as a seller handed over late, and is of the first.
LEMMA BlamedValue ==
    ASSUME IInv, NEW issue, NEW p \in ResponsibleParties(issue, Ctx), p[1] = "seller"
    PROVE  p[2] \in Smallest({r.seller : r \in LateItems(order, items)}, PartyLimit)
<1> DEFINE late == Smallest({r.seller : r \in LateItems(order, items)}, PartyLimit)
<1>1. ResponsibleParties(issue, Ctx) =
          IF Rules[issue].party = "none" THEN {}
          ELSE IF Rules[issue].party = "seller" THEN {<<"seller", s>> : s \in late}
          ELSE {<<Rules[issue].party, 0>>}
  BY DEF ResponsibleParties, Ctx, Context
<1> HIDE DEF late
<1> DEFINE party == Rules[issue].party
<1>2. /\ party # "none"
      /\ party = "seller" => p \in {<<"seller", s>> : s \in late}
      /\ party # "seller" => p = <<party, 0>>
  <2> HIDE DEF party
  <2> QED BY <1>1 DEF party
<1> HIDE DEF party
<1>3. p \in {<<"seller", s>> : s \in late}
  BY <1>2
<1> QED BY <1>3 DEF late

\* The sellers that an output blames, and what it lists.
LEMMA OutputValue ==
    ASSUME IInv, stage = "built"
    PROVE  /\ output.issue = decision.issue /\ output.parties = decision.parties
           /\ output.item_ids = Smallest({r.id : r \in items}, EntityLimit)
           /\ output.payment_ids = Smallest({r.seq : r \in payments}, EntityLimit)
           /\ output.seller_ids = Smallest({r.seller : r \in items}, EntityLimit)
           /\ output.evidence =
                  PrioritizeEvidence(output.issue, output.item_ids, output.payment_ids,
                      {p[2] : p \in {q \in output.parties : q[1] = "seller"}})
           /\ \A p \in output.parties : p[1] = "seller" =>
                  p[2] \in Smallest({r.seller : r \in LateItems(order, items)}, PartyLimit)
<1>1. output = BuildFinalOutput(Board, decision)
  BY DEF IInv, BuilderBuilt
<1>2. PICK issue : decision.parties = ResponsibleParties(issue, Ctx)
  BY DEF IInv, EngineDecided, Evaluate
<1>3. output.parties = decision.parties
  BY <1>1 DEF BuildFinalOutput
<1>4. \A p \in output.parties : p[1] = "seller" =>
          p[2] \in Smallest({r.seller : r \in LateItems(order, items)}, PartyLimit)
  BY <1>2, <1>3, BlamedValue
<1> QED BY <1>1, <1>4 DEF BuildFinalOutput, Board

\* Evidence is about what the output lists or blames, and is cut where there is no
\* room, for every number of items, payments and sellers (builder.py:20-60).
THEOREM EvidenceHolds == Spec => []EvidenceGrounded
<1>1. IInv => EvidenceGrounded
  <2> SUFFICES ASSUME IInv, stage = "built"
               PROVE  EvidenceGrounded
    BY DEF EvidenceGrounded
  <2> DEFINE blamed == {p[2] : p \in {q \in output.parties : q[1] = "seller"}}
             late == {r.seller : r \in LateItems(order, items)}
  <2>1. /\ late \subseteq {r.seller : r \in items} /\ late \subseteq Int /\ IsFiniteSet(late)
    BY RowKeys, FS_Subset
  <2>2. blamed \subseteq Smallest(late, PartyLimit)
    BY OutputValue
  <2>3. blamed \subseteq Int /\ IsFiniteSet(blamed)
    <3> HIDE DEF blamed, late
    <3> QED BY <2>1, <2>2, SmallestKeeps, LimitsAssumption, FS_Subset
  <2>4. /\ output.item_ids \subseteq Int /\ IsFiniteSet(output.item_ids)
        /\ output.payment_ids \subseteq Int /\ IsFiniteSet(output.payment_ids)
    BY OutputValue, RowKeys, SmallestKeeps, LimitsAssumption
  <2>5. output.evidence =
            PrioritizeEvidence(output.issue, output.item_ids, output.payment_ids, blamed)
    BY OutputValue
  <2>6. Grounded(output.issue, output.item_ids, output.payment_ids, blamed, output.evidence)
    <3> HIDE DEF blamed
    <3> QED BY <2>3, <2>4, <2>5, EvidenceValue
  <2> QED BY <2>6 DEF Grounded, EvidenceGrounded, IdsOf
<1> QED BY <1>1, Invariance, PTL

\* Only a late handover blames a seller, whom the output then lists if it can list all
\* sellers of the order (engine.py:58-70, builder.py:20-24).
THEOREM BlameHolds == Spec => []BlamedSellersLate
<1>1. IInv => BlamedSellersLate
  <2> SUFFICES ASSUME IInv, stage = "built", NEW p \in output.parties, p[1] = "seller"
               PROVE  /\ \E r \in items : r.seller = p[2] /\ order.carrier > r.limit
                      /\ Cardinality({r.seller : r \in items}) <= EntityLimit =>
                             p[2] \in output.seller_ids
    BY DEF BlamedSellersLate
  <2> DEFINE late == {r.seller : r \in LateItems(order, items)}
             sellers == {r.seller : r \in items}
  <2>1. late \subseteq sellers /\ late \subseteq Int /\ IsFiniteSet(late)
    BY RowKeys, FS_Subset
  <2>2. p[2] \in late
    <3>1. p[2] \in Smallest(late, PartyLimit)
      BY OutputValue
    <3> HIDE DEF late
    <3> QED BY <2>1, <3>1, SmallestKeeps, LimitsAssumption
  <2>3. \E r \in items : r.seller = p[2] /\ order.carrier > r.limit
    BY <2>2 DEF LateItems
  <2>4. Cardinality(sellers) <= EntityLimit => p[2] \in output.seller_ids
    <3>1. sellers \subseteq Int /\ IsFiniteSet(sellers)
          /\ output.seller_ids = Smallest(sellers, EntityLimit)
      BY RowKeys, OutputValue
    <3> HIDE DEF late, sellers
    <3>2. Cardinality(sellers) <= EntityLimit => Smallest(sellers, EntityLimit) = sellers
      BY <3>1, SmallestKeeps, LimitsAssumption
    <3> QED BY <2>1, <2>2, <3>1, <3>2
  <2> QED BY <2>3, <2>4
<1> QED BY <1>1, Invariance, PTL
-----------------------------------------------------------------------------
\* An amount has no fraction of a cent to round.
LEMMA MoneyValue ==
    /\ \A v : IsAmount(v) => Money(v) = v
    /\ Money(0) = 0
BY DEF IsAmount, Money

\* What the financials of the rows are.
LEMMA Totals ==
    ASSUME IInv
    PROVE  /\ IsAmount(Fin.item_total) /\ IsAmount(Fin.freight_total) /\ IsAmount(Fin.payment_total)
           /\ Fin.payment_total = PaidSum
           /\ OrderSum = Fin.item_total + Fin.freight_total
           /\ Fin.row_count = Cardinality(payments) /\ Cardinality(payments) \in Nat
           /\ Fin.matches <=> Reconciles
<1> DEFINE item == ColumnSum("price", items)
           freight == ColumnSum("freight", items)
<1>1. /\ IsFiniteSet(items) /\ IsFiniteSet(payments)
      /\ \A r \in items : IsAmount(r.price) /\ IsAmount(r.freight)
      /\ \A r \in payments : IsAmount(r.value)
  BY RowsAssumption DEF IInv, Stages
<1>2. IsAmount(item) /\ IsAmount(freight)
  BY <1>1, ColumnValue
<1>3. IsAmount(PaidSum)
  BY <1>1, ColumnValue DEF PaidSum
<1>4. OrderSum = item + freight
  BY <1>1, CostValue, Zenon DEF OrderSum
<1>5. Fin = [item_total |-> Money(item), freight_total |-> Money(freight),
             payment_total |-> Money(PaidSum), row_count |-> Cardinality(payments),
             matches |-> Distance(Money(PaidSum), Money(item) + Money(freight)) <= PaymentTolerance]
  BY DEF Fin, Financials, PaidSum
<1> HIDE DEF item, freight
<1>6. Money(item) = item /\ Money(freight) = freight /\ Money(PaidSum) = PaidSum
  BY <1>2, <1>3, MoneyValue
<1>7. Cardinality(payments) \in Nat
  BY <1>1, FS_CardinalityType
<1>8. Fin.matches <=> Reconciles
  BY <1>4, <1>5, <1>6 DEF Reconciles, PaymentTolerance
<1> QED BY <1>2, <1>3, <1>4, <1>5, <1>6, <1>7, <1>8

Late == order.customer > order.estimated
HandedLate == \E r \in items : order.carrier > r.limit

\* What each rule asks of the rows.
LEMMA RuleFacts ==
    ASSUME IInv
    PROVE  /\ Applies("canceled_order_paid", Ctx) <=> order.status = "canceled" /\ PaidSum > 0
           /\ Applies("unavailable_order_paid", Ctx) <=> order.status = "unavailable" /\ PaidSum > 0
           /\ Applies("late_delivery_seller", Ctx) <=> Late /\ HandedLate
           /\ Applies("late_delivery_logistics", Ctx) <=> Late /\ ~HandedLate
           /\ Applies("valid_split_payment", Ctx) <=> Cardinality(payments) > 1 /\ Reconciles
           /\ Applies("unsupported_late_claim", Ctx) <=>
                  order.customer # NoDate /\ ~Late /\ Reconciles
<1>1. /\ order.estimated \in Nat \ {NoDate} /\ order.carrier \in Nat /\ order.customer \in Nat
      /\ \A r \in items : r.limit \in Nat
  BY OrdersAssumption, RowsAssumption DEF IInv, Stages
<1>2. Ctx.order = order /\ Ctx.items = items /\ Ctx.fin = Fin
  BY DEF Ctx, Context
<1>3. DeliveredAfter(order) <=> Late
  BY <1>1 DEF DeliveredAfter, Late, NoDate
<1>4. DeliveredWithin(order) <=> order.customer # NoDate /\ ~Late
  BY <1>1 DEF DeliveredWithin, Late
<1>5. LateItems(order, items) # {} <=> HandedLate
  BY <1>1 DEF LateItems, HandedLate, NoDate
<1>6. /\ Fin.payment_total = PaidSum /\ Fin.row_count = Cardinality(payments)
      /\ Cardinality(payments) \in Nat
      /\ Fin.matches <=> Reconciles
  BY Totals
<1>7. Applies("canceled_order_paid", Ctx) <=> order.status = "canceled" /\ PaidSum > 0
  BY <1>2, <1>6 DEF Applies
<1>8. Applies("unavailable_order_paid", Ctx) <=> order.status = "unavailable" /\ PaidSum > 0
  BY <1>2, <1>6 DEF Applies
<1>9. Applies("late_delivery_seller", Ctx) <=> Late /\ HandedLate
  BY <1>2, <1>3, <1>5 DEF Applies
<1>10. Applies("late_delivery_logistics", Ctx) <=> Late /\ ~HandedLate
  BY <1>2, <1>3, <1>5 DEF Applies
<1>11. Applies("valid_split_payment", Ctx) <=> Cardinality(payments) > 1 /\ Reconciles
  BY <1>2, <1>6 DEF Applies
<1>12. Applies("unsupported_late_claim", Ctx) <=> order.customer # NoDate /\ ~Late /\ Reconciles
  BY <1>2, <1>4, <1>6 DEF Applies
<1> QED BY <1>7, <1>8, <1>9, <1>10, <1>11, <1>12

\* The engine decides an order as the architecture's chapter 12 says, whatever its rows
\* hold and however they add up (engine.py:40-104, calculator.py:20-43).
THEOREM ClassifiedHolds == Spec => []ClassifiedAsDocumented
<1>1. IInv => ClassifiedAsDocumented
  <2> SUFFICES ASSUME IInv
               PROVE  ClassifiedAsDocumented
    OBVIOUS
  <2> DEFINE issue == Classify(Ctx)
             several == Cardinality(payments) > 1
             rest == ~Cancelled /\ ~Late /\ Reconciles
             dated == order.customer # NoDate
             a1 == Applies("canceled_order_paid", Ctx)
             a2 == Applies("unavailable_order_paid", Ctx)
  <2>1. (a1 \/ a2) <=> Cancelled
    BY RuleFacts DEF Cancelled
  <2>2. issue = IF a1 THEN "canceled_order_paid"
                ELSE IF a2 THEN "unavailable_order_paid"
                ELSE IF Late /\ HandedLate THEN "late_delivery_seller"
                ELSE IF Late /\ ~HandedLate THEN "late_delivery_logistics"
                ELSE IF several /\ Reconciles THEN "valid_split_payment"
                ELSE IF dated /\ ~Late /\ Reconciles THEN "unsupported_late_claim"
                ELSE NoMatch
    <3>1. issue = IF a1 THEN "canceled_order_paid"
                  ELSE IF a2 THEN "unavailable_order_paid"
                  ELSE IF Applies("late_delivery_seller", Ctx) THEN "late_delivery_seller"
                  ELSE IF Applies("late_delivery_logistics", Ctx) THEN "late_delivery_logistics"
                  ELSE IF Applies("valid_split_payment", Ctx) THEN "valid_split_payment"
                  ELSE IF Applies("unsupported_late_claim", Ctx) THEN "unsupported_late_claim"
                  ELSE NoMatch
      BY ClassifyValue
    <3> HIDE DEF issue, a1, a2
    <3> QED BY <3>1, RuleFacts
  <2>3. several <=> ~(Cardinality(payments) < 2)
    BY Totals
  <2> HIDE DEF issue, a1, a2, several, dated
  <2>4. /\ (issue \in {"canceled_order_paid", "unavailable_order_paid"}) <=> Cancelled
        /\ issue = "late_delivery_seller" <=> ~Cancelled /\ Late /\ HandedLate
        /\ issue = "late_delivery_logistics" <=> ~Cancelled /\ Late /\ ~HandedLate
        /\ issue = "valid_split_payment" <=> rest /\ several
        /\ issue = "unsupported_late_claim" <=> rest /\ ~several /\ dated
    BY <2>1, <2>2 DEF NoMatch
  <2> QED BY <2>3, <2>4 DEF ClassifiedAsDocumented, Late, HandedLate, issue, several, dated
<1> QED BY <1>1, Invariance, PTL
-----------------------------------------------------------------------------
\* What the decision of the engine holds.
LEMMA DecisionValue ==
    ASSUME IInv, stage \in {"decided", "built"}
    PROVE  /\ decision.issue = Classify(Ctx) /\ decision.issue # NoMatch
           /\ decision.refund = BasisAmount(decision.issue, Fin)
           /\ decision.status = IF decision.refund > 0 THEN "action_required" ELSE "no_action"
           /\ decision.parties = ResponsibleParties(decision.issue, Ctx)
           /\ decision.action = Rules[decision.issue].action
<1>1. Classify(Ctx) # NoMatch
  BY DEF IInv, EngineDecided
<1>2. PICK repair_count \in 0..1, missing \in BOOLEAN, warnings \in BOOLEAN :
          decision = Evaluate(Ctx, repair_count, missing, warnings)
  BY DEF IInv, EngineDecided
<1>3. Ctx.fin = Fin
  BY DEF Ctx, Context
<1>4. /\ decision.issue = Classify(Ctx)
      /\ decision.refund = BasisAmount(Classify(Ctx), Ctx.fin)
      /\ decision.parties = ResponsibleParties(Classify(Ctx), Ctx)
      /\ decision.action = Rules[Classify(Ctx)].action
  BY <1>2 DEF Evaluate
<1>5. decision.status = IF decision.refund > 0 THEN "action_required" ELSE "no_action"
  BY <1>2 DEF Evaluate
<1> QED BY <1>1, <1>3, <1>4, <1>5

\* The refund of each issue, which rounding does not change.
LEMMA RefundValue ==
    ASSUME IInv, stage \in {"decided", "built"}
    PROVE  /\ decision.issue \in {"canceled_order_paid", "unavailable_order_paid"} =>
                  decision.refund = Fin.payment_total
           /\ decision.issue \in {"late_delivery_seller", "late_delivery_logistics"} =>
                  decision.refund = Fin.freight_total
           /\ decision.issue \in {"valid_split_payment", "unsupported_late_claim"} =>
                  decision.refund = 0
           /\ IsAmount(decision.refund)
<1>1. decision.issue \in {"canceled_order_paid", "unavailable_order_paid",
          "late_delivery_seller", "late_delivery_logistics", "valid_split_payment",
          "unsupported_late_claim"}
  BY DecisionValue, IssueFound
<1>2. decision.refund = BasisAmount(decision.issue, Fin)
  BY DecisionValue
<1>3. Money(Fin.payment_total) = Fin.payment_total /\ Money(Fin.freight_total) = Fin.freight_total
  BY Totals, MoneyValue
<1>4. /\ IsAmount(Fin.payment_total) /\ IsAmount(Fin.freight_total)
      /\ IsAmount(0)
  BY Totals DEF IsAmount
<1>5. CASE decision.issue \in {"canceled_order_paid", "unavailable_order_paid"}
  <2>1. Rules[decision.issue].basis = "payment_total"
    BY <1>5 DEF Rules
  <2> QED BY <1>2, <1>3, <1>4, <1>5, <2>1 DEF BasisAmount
<1>6. CASE decision.issue \in {"late_delivery_seller", "late_delivery_logistics"}
  <2>1. Rules[decision.issue].basis = "freight_total"
    BY <1>6 DEF Rules
  <2> QED BY <1>2, <1>3, <1>4, <1>6, <2>1 DEF BasisAmount
<1>7. CASE decision.issue \in {"valid_split_payment", "unsupported_late_claim"}
  <2>1. Rules[decision.issue].basis = "zero"
    BY <1>7 DEF Rules
  <2> QED BY <1>2, <1>4, <1>7, <2>1 DEF BasisAmount
<1> QED BY <1>1, <1>5, <1>6, <1>7

\* Somebody is responsible for each issue that refunds.
LEMMA PartyFound ==
    ASSUME IInv, stage \in {"decided", "built"},
           decision.issue \notin {"valid_split_payment", "unsupported_late_claim"}
    PROVE  decision.parties # {}
<1>1. decision.issue \in {"canceled_order_paid", "unavailable_order_paid",
          "late_delivery_seller", "late_delivery_logistics"}
  BY DecisionValue, IssueFound
<1>2. decision.parties = ResponsibleParties(decision.issue, Ctx)
  BY DecisionValue
<1> DEFINE late == {r.seller : r \in LateItems(order, items)}
           blamed == Smallest(late, PartyLimit)
<1>3. ResponsibleParties(decision.issue, Ctx) =
          IF Rules[decision.issue].party = "none" THEN {}
          ELSE IF Rules[decision.issue].party = "seller" THEN {<<"seller", s>> : s \in blamed}
          ELSE {<<Rules[decision.issue].party, 0>>}
  BY DEF ResponsibleParties, Ctx, Context
<1>4. CASE decision.issue = "late_delivery_seller"
  <2>1. Rules[decision.issue].party = "seller"
    BY <1>4 DEF Rules
  <2>2. Applies("late_delivery_seller", Ctx)
    BY <1>4, DecisionValue, IssueFound
  <2>3. LateItems(order, items) # {}
    BY <2>2 DEF Applies, Ctx, Context
  <2>4. late # {} /\ late \subseteq Int /\ IsFiniteSet(late)
    BY <2>3, RowKeys, FS_Subset
  <2>5. blamed # {}
    <3> HIDE DEF late
    <3>1. Cardinality(blamed) = PartyLimit \/ blamed = late
      BY <2>4, SmallestKeeps, LimitsAssumption
    <3> HIDE DEF blamed
    <3> QED BY <2>4, <3>1, LimitsAssumption, FS_EmptySet
  <2> HIDE DEF blamed
  <2>6. decision.parties = {<<"seller", s>> : s \in blamed}
    BY <1>2, <1>3, <2>1
  <2>7. PICK s \in blamed : TRUE
    BY <2>5
  <2>8. <<"seller", s>> \in decision.parties
    BY <2>6
  <2> QED BY <2>8
<1>5. CASE decision.issue # "late_delivery_seller"
  <2>1. Rules[decision.issue].party \in {"platform", "logistics_provider"}
    BY <1>1, <1>5 DEF Rules
  <2> HIDE DEF blamed
  <2> QED BY <1>2, <1>3, <2>1
<1> QED BY <1>4, <1>5

\* No refund without somebody responsible, and none beyond what a reconciling order
\* costs, however many rows it has (engine.py:107-118, 40-104).
THEOREM RefundHolds == Spec => []RefundJustified
<1>1. IInv => RefundJustified
  <2> SUFFICES ASSUME IInv, stage \in {"decided", "built"}
               PROVE  /\ decision.refund > 0 => decision.parties # {}
                      /\ Reconciles => decision.refund <= OrderSum + PaymentTolerance
    BY DEF RefundJustified
  <2>1. decision.refund > 0 => decision.parties # {}
    BY RefundValue, PartyFound
  <2>2. ASSUME Reconciles
        PROVE  decision.refund <= OrderSum + PaymentTolerance
    <3>1. /\ Fin.item_total \in Nat /\ Fin.freight_total \in Nat /\ Fin.payment_total \in Nat
          /\ OrderSum = Fin.item_total + Fin.freight_total
      BY Totals DEF IsAmount
    <3>2. Fin.payment_total <= OrderSum + 100
      BY <2>2, <3>1, Totals DEF Reconciles, Distance
    <3>3. decision.refund \in {0, Fin.payment_total, Fin.freight_total}
      BY RefundValue, DecisionValue, IssueFound
    <3> QED BY <3>1, <3>2, <3>3 DEF PaymentTolerance
  <2> QED BY <2>1, <2>2
<1> QED BY <1>1, Invariance, PTL
-----------------------------------------------------------------------------
\* The output the builder makes of the decision meets the conditions of its schema.
LEMMA BuiltIsValid ==
    ASSUME IInv, stage \in {"decided", "built"}
    PROVE  SchemaValid(BuildFinalOutput(Board, decision))
<1> DEFINE candidate == BuildFinalOutput(Board, decision)
<1>1. /\ candidate.status = decision.status /\ candidate.refund = decision.refund
      /\ candidate.item_total = Fin.item_total /\ candidate.freight_total = Fin.freight_total
      /\ candidate.payment_total = Fin.payment_total
  BY DEF BuildFinalOutput, Board
<1>2. /\ decision.refund \in Nat /\ Fin.item_total \in Nat /\ Fin.freight_total \in Nat
      /\ Fin.payment_total \in Nat
  BY RefundValue, Totals DEF IsAmount
<1>3. decision.status = IF decision.refund > 0 THEN "action_required" ELSE "no_action"
  BY DecisionValue
<1> HIDE DEF candidate
<1>4. SchemaValid(candidate)
  BY <1>1, <1>2, <1>3 DEF SchemaValid
<1> QED BY <1>4 DEF candidate

\* It lists nothing that the rows do not hold.
LEMMA BuiltIsReferenced ==
    ASSUME IInv
    PROVE  ReferencesValid(BuildFinalOutput(Board, decision), items, payments)
<1> DEFINE candidate == BuildFinalOutput(Board, decision)
           ids == {r.id : r \in items}
           sellers == {r.seller : r \in items}
           seqs == {r.seq : r \in payments}
<1>1. /\ candidate.item_ids = Smallest(ids, EntityLimit)
      /\ candidate.seller_ids = Smallest(sellers, EntityLimit)
      /\ candidate.payment_ids = Smallest(seqs, EntityLimit)
  BY DEF BuildFinalOutput, Board
<1> HIDE DEF candidate
<1>2. ReferencesValid(candidate, items, payments)
  BY <1>1 DEF ReferencesValid, Smallest
<1> QED BY <1>2 DEF candidate

\* The verifier agrees with engine and builder on one reading of the rows, however many
\* they are and whatever is cut off (verifier.py:34-103): a mismatch means two readings.
THEOREM VerifierAgrees == Spec => []SelfVerifies
<1>1. IInv => SelfVerifies
  <2> DEFINE expected == Evaluate(Ctx, 0, FALSE, FALSE)
             candidate == BuildFinalOutput(Board, decision)
  <2> SUFFICES ASSUME IInv, stage \in {"decided", "built"}
               PROVE  Verify(Board, decision, expected, Ctx, items, payments) = Passed
    BY DEF SelfVerifies
  <2>1. PolicyAgrees(decision, expected)
    <3>1. PICK repair_count \in 0..1, missing \in BOOLEAN, warnings \in BOOLEAN :
              decision = Evaluate(Ctx, repair_count, missing, warnings)
      BY DEF IInv, EngineDecided
    <3> QED BY <3>1 DEF Evaluate, PolicyAgrees
  <2>2. TotalsAgree(Board.fin, Ctx.fin)
    BY DEF TotalsAgree, Board, Ctx, Context
  <2>3. RefundAgrees(decision, Ctx.fin)
    <3>1. decision.issue \in Issues
      BY DecisionValue, IssueFound DEF Issues, Rules
    <3>2. Money(ExpectedRefund(decision.issue, Fin)) = decision.refund
      BY <3>1, DecisionValue, ExpectedRefundIsBasis
    <3>3. Money(decision.refund) = decision.refund
      BY RefundValue, MoneyValue
    <3> QED BY <3>2, <3>3 DEF RefundAgrees, Ctx, Context
  <2>4. SchemaValid(candidate)
    BY BuiltIsValid
  <2>5. ReferencesValid(candidate, items, payments)
    BY BuiltIsReferenced
  <2>6. decision.issue \in Issues
    BY DecisionValue, IssueFound DEF Issues, Rules
  <2> HIDE DEF expected, candidate
  <2>7. candidate = BuildFinalOutput(Board, decision)
    BY DEF candidate
  <2> QED BY <2>1, <2>2, <2>3, <2>4, <2>5, <2>6, <2>7, VerifyValue
<1> QED BY <1>1, Invariance, PTL
=============================================================================
