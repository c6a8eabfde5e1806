------------------------------ MODULE MCStudies ------------------------------
(* Instances of Studies for TLC.                                           *)
EXTENDS Studies

Order(carrier, customer) ==
    [status |-> "delivered", estimated |-> 5, carrier |-> carrier, customer |-> customer]
Item(id, seller) == [id |-> id, seller |-> seller, limit |-> 2, price |-> 1000, freight |-> 200]
Rows(order, items) == [order |-> order, items |-> items,
                       payments |-> {[seq |-> 1, value |-> 1200]}, reviews |-> 0]

LateSeller == Rows(Order(3, 6), {Item(1, 1)})
LateCarrier == Rows(Order(2, 6), {Item(1, 1)})
OtherSeller == Rows(Order(3, 6), {Item(1, 2)})
Gone == Rows(NoOrder, {})

\* The second case only ever differs in what the import does to the first.
MCDatabases == {<<rows, LateCarrier>> : rows \in {LateSeller, LateCarrier, OtherSeller, Gone}}
MCSelections == {<<1>>, <<1, 2>>}
MCSymmetry == Permutations(Runs)
MCPredictions == {[a \in Agents |-> "late_delivery_seller"]}
=============================================================================
