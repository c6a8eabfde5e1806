--------------------------- MODULE StudyProtocol ---------------------------
(***************************************************************************)
(* What all research studies share (src/experiments/pvoc_v0/core): the     *)
(* three private views of an order and the queries they are built from,    *)
(* the messages agents may send each other, the label, and the measures.   *)
(*                                                                         *)
(* A reading is the sequence of the answers to the queries.  A view stands *)
(* for its fingerprint: equal views have equal SHA-256 sums, and different *)
(* ones different sums.  Of a model's decision only the action is kept.    *)
(***************************************************************************)
EXTENDS PolicyEngine

CONSTANT NoOrder  \* the answer of a query for an order that is not there

Agents == {"order_seller_agent", "payment_agent", "delivery_agent"}

\* A pair is a sender and a recipient.
DirectedPairs == {p \in Agents \X Agents : p[1] # p[2]}

\* PrivateObservationBuilder.build, then get_policy_context; each a transaction.
ObservationQueries == <<"order", "items", "sellers", "payments", "order", "items", "reviews">>
ContextQueries == <<"order", "items", "payments">>

\* Both, for one case.
CaseQueries == <<"order", "items", "sellers", "payments", "order", "items", "reviews",
                 "order", "items", "payments">>

\* What the tables say of an order whose rows are given.
Answer(rows, query) ==
    IF query = "sellers" THEN {r.seller : r \in rows.items} ELSE rows[query]

-----------------------------------------------------------------------------
\* Private views

\* Mutant of View: the delivery agent is not told of the handover to the carrier.
ViewUndated(agent, o) ==
    IF agent = "order_seller_agent" THEN [status |-> o[1].status, items |-> o[2], sellers |-> o[3]]
    ELSE IF agent = "payment_agent" THEN [payments |-> o[4]]
    ELSE [estimated |-> o[5].estimated, customer |-> o[5].customer, reviews |-> o[7],
          limits |-> {[id |-> r.id, seller |-> r.seller, limit |-> r.limit] : r \in o[6]}]

\* What the reading o of the seven queries shows to an agent: no delivery dates for the
\* first, payments only for the second, neither status nor prices for the third.
View(agent, o) ==
    IF agent = "order_seller_agent" THEN [status |-> o[1].status, items |-> o[2], sellers |-> o[3]]
    ELSE IF agent = "payment_agent" THEN [payments |-> o[4]]
    ELSE [estimated |-> o[5].estimated, carrier |-> o[5].carrier, customer |-> o[5].customer,
          reviews |-> o[7],
          limits |-> {[id |-> r.id, seller |-> r.seller, limit |-> r.limit] : r \in o[6]}]

\* The IDs a message cites: all that its sender has seen.
EvidenceIds(agent, o) ==
    IF agent = "order_seller_agent"
    THEN {<<"order", 0>>} \cup Tagged("item", {r.id : r \in o[2]}) \cup Tagged("seller", o[3])
    ELSE IF agent = "payment_agent" THEN Tagged("payment", {r.seq : r \in o[4]})
    ELSE {<<"order", 0>>} \cup Tagged("item", {r.id : r \in o[6]})

\* The label: what the engine says of the reading c of the context, or NoMatch.
Oracle(c) == Classify(Context(c[1], c[2], Financials(c[2], c[3])))

\* build_candidate_message and the record of the pair, for a sender and a recipient
\* that have seen o, with the sender's prediction.
CandidateMessage(sender, recipient, o, predicted) ==
    [sender |-> sender, recipient |-> recipient, content |-> predicted,
     evidence_ids |-> EvidenceIds(sender, o)]

PairRecord(case, message, o, oracle) ==
    [case |-> case, message |-> message, oracle |-> oracle,
     fingerprint |-> View(message.recipient, o)]

\* The records of a case: one for every directed pair.
CaseRecords(case, o, oracle, predicted) ==
    {PairRecord(case, CandidateMessage(p[1], p[2], o, predicted[p[1]]), o, oracle) :
        p \in DirectedPairs}

PairOf(record) == <<record.message.sender, record.message.recipient>>
-----------------------------------------------------------------------------
\* Measures.  An outcome of a condition is how many of its trials gave which action.

Utility(action, oracle) == IF action = oracle THEN 1 ELSE 0

\* The sum of the utilities of the trials of a condition, N times their mean.
TotalUtility(counts, oracle) ==
    MapThenSumSet(LAMBDA a : counts[a] * Utility(a, oracle), DOMAIN counts)

\* utility_effect_label of the difference of two means over equally many trials.
EffectLabel(with_message, without_message) ==
    IF with_message > without_message THEN "POSITIVE"
    ELSE IF with_message = without_message THEN "ZERO" ELSE "NEGATIVE"
=============================================================================
