---------------------------- MODULE MCPolicyCheck ----------------------------
(* Orders around every boundary of the rules: delivered one day before, on *)
(* and after the estimate, handed over on and after the limit, payments    *)
(* off by exactly the tolerance and by a cent more.                        *)
EXTENDS PolicyCheck

MCOrders ==
    [status : {"canceled", "unavailable", "delivered"}, estimated : {5},
     carrier : {NoDate, 2, 3}, customer : {NoDate, 5, 6}]

Item(id, seller, limit, price, freight) ==
    [id |-> id, seller |-> seller, limit |-> limit, price |-> price, freight |-> freight]
Paid(seq, value) == [seq |-> seq, value |-> value]

ItemPool == {Item(1, 3, 2, 1000, 200), Item(2, 1, 3, 500, 0),
             Item(3, 2, 2, 300, 100), Item(4, 1, 2, 0, 0)}
MCItemSets == SUBSET ItemPool
MCPaymentSets ==
    SUBSET {Paid(1, 1000), Paid(2, 200), Paid(3, 900)}
    \cup {{Paid(1, 1300)}, {Paid(1, 1310)}, {Paid(1, 400), Paid(2, 110)}}
=============================================================================
