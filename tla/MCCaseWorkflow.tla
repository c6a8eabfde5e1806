--------------------------- MODULE MCCaseWorkflow ---------------------------
(* Instances of CaseWorkflow for TLC: seven contents of the tables for     *)
(* the order of one case.                                                  *)
EXTENDS CaseWorkflow

Ordered(status, carrier, customer) ==
    [status |-> status, estimated |-> 5, carrier |-> carrier, customer |-> customer]
Item(id, seller, freight) ==
    [id |-> id, seller |-> seller, limit |-> 2, price |-> 1000, freight |-> freight]
Paid(seq, value) == [seq |-> seq, value |-> value]
Rows(order, items, payments, reviewed) ==
    [order |-> order, items |-> items, payments |-> payments, reviewed |-> reviewed]

\* Late, and the seller handed over late.
LateSeller == Rows(Ordered("delivered", 3, 6), {Item(1, 1, 200)}, {Paid(1, 1200)}, TRUE)
\* The same order after a second item of another seller was added.
LateSellers == Rows(Ordered("delivered", 3, 6), {Item(1, 1, 200), Item(2, 2, 200)},
                    {Paid(1, 2400)}, TRUE)
\* Late by the carrier alone, with a free freight.
LateCarrier == Rows(Ordered("delivered", 2, 6), {Item(1, 1, 0)}, {Paid(1, 1000)}, FALSE)
\* In time, paid in two rows.
Split == Rows(Ordered("delivered", 2, 5), {Item(1, 1, 200)},
              {Paid(1, 1000), Paid(2, 200)}, TRUE)
\* Canceled after a payment.
Canceled == Rows(Ordered("canceled", NoDate, NoDate), {Item(1, 1, 200)}, {Paid(1, 1200)}, FALSE)
\* In time but the payment does not reconcile: no rule applies.
Unmatched == Rows(Ordered("delivered", 2, 5), {Item(1, 1, 200)}, {Paid(1, 900)}, TRUE)
\* The order is gone.
Gone == Rows(NoOrder, {}, {}, FALSE)

\* Enough for every repair target and every refusal.
FourDatabases == {LateSellers, Canceled, Unmatched, Gone}

AllDatabases == {LateSeller, LateSellers, LateCarrier, Split, Canceled, Unmatched, Gone}
=============================================================================
