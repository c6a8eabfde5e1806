----------------------------- MODULE MCPilotRun -----------------------------
(* An instance of PilotRun for TLC.                                        *)
EXTENDS PilotRun

MCDistribution == <<<<"canceled_order_paid", 2>>, <<"late_delivery_seller", 1>>,
                    <<"late_delivery_logistics", 1>>>>

Rows(status, carrier, freight) ==
    [order |-> [status |-> status, estimated |-> 5, carrier |-> carrier, customer |-> 6],
     items |-> {[id |-> 1, seller |-> 1, limit |-> 2, price |-> 1000, freight |-> freight]},
     payments |-> {[seq |-> 1, value |-> 1000 + freight]}, reviews |-> 0]
Gone == [order |-> NoOrder, items |-> {}, payments |-> {}, reviews |-> 0]

\* Three canceled orders, two of them delivered late too, and a late delivery of each kind.
Data == <<Rows("canceled", 2, 200), Rows("canceled", 3, 200), Rows("delivered", 3, 200),
          Rows("delivered", 2, 200), Rows("canceled", 3, 0)>>
\* The late deliveries trade places; or one is gone and the other has no freight to refund.
MCTables == {Data, [Data EXCEPT ![3] = Data[4], ![4] = Data[3]],
             [Data EXCEPT ![3] = Gone, ![4] = Rows("delivered", 2, 0)]}

Trials(right, wrong) ==
    [a \in {"canceled_order_paid", "late_delivery_seller"} |->
        IF a = "late_delivery_seller" THEN right ELSE wrong]
Unmoved == [with_message |-> Trials(1, 1), without_message |-> Trials(1, 1)]
Moved == [with_message |-> Trials(2, 0), without_message |-> Trials(1, 1)]

\* All trials alike, or some messages move a recipient to a late delivery.
MCBehaviours == {[p \in DirectedPairs |-> Unmoved],
                 [p \in DirectedPairs |-> IF p[2] = "delivery_agent" THEN Moved ELSE Unmoved]}
=============================================================================
