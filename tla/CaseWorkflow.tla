---------------------------- MODULE CaseWorkflow ----------------------------
(***************************************************************************)
(* One case in the compiled LangGraph workflow (src/src/graph.py) with its *)
(* agents.  A superstep runs the nodes of running to completion; the next  *)
(* one runs the nodes their edges trigger.  The edge from the three        *)
(* specialists to merge_evidence_board is a barrier that remembers who has *)
(* arrived and forgets them when it opens.                                 *)
(*                                                                         *)
(* Each repository query is a transaction of its own, so between two of    *)
(* them the importer may replace the rows of the case's order.  Whatever a *)
(* node raises ends the invocation and discards the graph's state.         *)
(***************************************************************************)
EXTENDS PolicyEngine

CONSTANTS
    Databases,   \* what the tables may hold about the order of the case
    NoOrder,     \* the value of a database's order when there is no such row
    MaxImports   \* bound: imports during the case

ASSUME DatabaseAssumption ==
    /\ Databases # {}
    /\ \A d \in Databases : DOMAIN d = {"order", "items", "payments", "reviewed"}

ASSUME ImportAssumption == MaxImports \in Nat

\* No total is negative, which the output's schema requires (final_output.py:49-52).
ASSUME TotalsAssumption ==
    \A d \in Databases : /\ ColumnSum("price", d.items) \in Nat
                         /\ ColumnSum("freight", d.items) \in Nat
                         /\ ColumnSum("value", d.payments) \in Nat

\* Python's None: equal to no report, board, decision or output.
None == [none |-> TRUE]

VARIABLES
    db,              \* the committed rows of the order
    imports,         \* imports so far
    running,         \* nodes of the current superstep still running
    barrier,         \* specialists that arrived since the barrier last opened
    outcome,         \* of graph.ainvoke: "running", "returned" or "raised"
    rows,            \* what each reading node has read in its current run
    order_seller_report, payment_report, delivery_report,
    evidence_board, policy_decision, verification_result, repair_count,
    final_output,
    output_file,     \* the file EC_nnn.json
    case_failed      \* a case_failed event is in the trace

reports == <<order_seller_report, payment_report, delivery_report>>
channels == <<reports, evidence_board, policy_decision, verification_result,
              repair_count, final_output>>
graph == <<running, barrier, outcome>>
database == <<db, imports>>
vars == <<database, graph, rows, channels, output_file, case_failed>>

Specialists == {"order_seller_agent", "payment_agent", "delivery_agent"}
Readers == Specialists \cup {"verifier_agent"}
Nodes == Readers \cup {"validate_case", "coordinator_triage", "merge_evidence_board",
                       "policy_agent", "repair_router", "build_output", "write_output",
                       "case_failed"}

\* The queries each reading node makes, in order.
Queries == [
    order_seller_agent |-> <<"order", "items", "sellers">>,
    payment_agent      |-> <<"payments", "aggregates", "items", "payments">>,
    delivery_agent     |-> <<"order", "items", "reviewed">>,
    verifier_agent     |-> <<"order", "items", "payments", "items", "payments">>]

\* What the database answers to a query.
Answer(query) ==
    IF query = "aggregates" THEN Financials(db.items, db.payments)
    ELSE IF query = "sellers" THEN {r.seller : r \in db.items}
    ELSE db[query]
-----------------------------------------------------------------------------
Init ==
    /\ db \in Databases /\ imports = 0
    /\ running = {"validate_case"} /\ barrier = {} /\ outcome = "running"
    /\ rows = [n \in Readers |-> <<>>]
    /\ order_seller_report = None /\ payment_report = None /\ delivery_report = None
    /\ evidence_board = None /\ policy_decision = None /\ verification_result = None
    /\ repair_count = 0 /\ final_output = None
    /\ output_file = None /\ case_failed = FALSE

\* Mutant of Finish: each specialist has an edge of its own to the merge.
FinishUnjoined(n, targets) ==
    LET next == targets \cup (IF n \in Specialists THEN {"merge_evidence_board"} ELSE {})
    IN  /\ n \in running
        /\ running' = (running \ {n}) \cup next
        /\ outcome' = IF running' = {} THEN "returned" ELSE "running"
        /\ UNCHANGED barrier

\* Node n ends and its edges trigger targets.  When it is the last of the
\* superstep the next one starts, or the graph returns if nothing is triggered;
\* before that there are no targets, for the specialists are the only nodes that
\* run side by side and they have no edge but the barrier.
Finish(n, targets) ==
    LET arrived == barrier \cup ({n} \cap Specialists)
        opens   == arrived = Specialists
        next    == targets \cup (IF opens THEN {"merge_evidence_board"} ELSE {})
    IN  /\ n \in running
        /\ IF running = {n}
           THEN /\ running' = next
                /\ barrier' = IF opens THEN {} ELSE arrived
                /\ outcome' = IF next = {} THEN "returned" ELSE "running"
           ELSE /\ running' = running \ {n}
                /\ barrier' = arrived
                /\ UNCHANGED outcome

\* Node n raises: ainvoke cancels the others and raises.
Abort(n) ==
    /\ n \in running
    /\ outcome' = "raised" /\ running' = {}
    /\ UNCHANGED <<barrier, database, rows, channels, output_file, case_failed>>

HasRead(n) == Len(rows[n]) = Len(Queries[n])
Forget(n) == rows' = [rows EXCEPT ![n] = <<>>]

\* The PolicyContext the verifier has read, and the one on the board.
VerifierContext ==
    LET r == rows["verifier_agent"]
    IN  Context(r[1], r[2], Financials(r[2], r[3]))
BoardContext(board) == Context(board.order, board.items, board.fin)

\* A channel that node n needs is still None.
Incomplete(n) ==
    \/ /\ n = "merge_evidence_board"
       /\ None \in {order_seller_report, payment_report, delivery_report}
    \/ n = "policy_agent" /\ evidence_board = None
    \/ n \in {"verifier_agent", "build_output"} /\ None \in {evidence_board, policy_decision}
    \/ n = "write_output" /\ final_output = None
-----------------------------------------------------------------------------
ValidateCase ==
    /\ Finish("validate_case", {"coordinator_triage"})
    /\ UNCHANGED <<database, rows, channels, output_file, case_failed>>

\* The plan always has one task per specialist, with or without the model.
CoordinatorTriage ==
    /\ Finish("coordinator_triage", Specialists)
    /\ UNCHANGED <<database, rows, channels, output_file, case_failed>>

\* A node issues its next query.  A missing order raises, and so do financial
\* aggregates that disagree with the rows and a context no rule matches: these
\* are disjuncts of Raise, and guards here.
Unreadable(n) ==
    /\ Len(rows[n]) > 0
    /\ \/ n # "payment_agent" /\ rows[n][1] = NoOrder
       \/ /\ n = "payment_agent" /\ HasRead(n)
          /\ rows[n][2] # Financials(rows[n][3], rows[n][4])
       \/ /\ n = "verifier_agent" /\ Len(rows[n]) >= 3
          /\ Classify(VerifierContext) = NoMatch

Query(n) ==
    /\ n \in running /\ ~HasRead(n) /\ ~Unreadable(n)
    /\ rows' = [rows EXCEPT ![n] = Append(@, Answer(Queries[n][Len(@) + 1]))]
    /\ UNCHANGED <<database, graph, channels, output_file, case_failed>>

\* order_seller, payment, delivery: the agent has read its rows; the narrative
\* the model writes about them, or its absence, changes nothing below.
OrderSeller ==
    /\ HasRead("order_seller_agent") /\ ~Unreadable("order_seller_agent")
    /\ Finish("order_seller_agent", {})
    /\ order_seller_report' = [order |-> rows["order_seller_agent"][1],
                               items |-> rows["order_seller_agent"][2]]
    /\ Forget("order_seller_agent")
    /\ UNCHANGED <<database, payment_report, delivery_report, evidence_board,
                   policy_decision, verification_result, repair_count, final_output,
                   output_file, case_failed>>

Payment ==
    /\ HasRead("payment_agent") /\ ~Unreadable("payment_agent")
    /\ Finish("payment_agent", {})
    /\ payment_report' = [payments |-> rows["payment_agent"][1],
                          fin |-> Financials(rows["payment_agent"][3],
                                             rows["payment_agent"][4])]
    /\ Forget("payment_agent")
    /\ UNCHANGED <<database, order_seller_report, delivery_report, evidence_board,
                   policy_decision, verification_result, repair_count, final_output,
                   output_file, case_failed>>

Delivery ==
    /\ HasRead("delivery_agent") /\ ~Unreadable("delivery_agent")
    /\ Finish("delivery_agent", {})
    /\ delivery_report' = [review_missing |-> ~rows["delivery_agent"][3]]
    /\ Forget("delivery_agent")
    /\ UNCHANGED <<database, order_seller_report, payment_report, evidence_board,
                   policy_decision, verification_result, repair_count, final_output,
                   output_file, case_failed>>

MergeEvidenceBoard ==
    /\ Finish("merge_evidence_board", {"policy_agent"})
    /\ ~Incomplete("merge_evidence_board")
    /\ evidence_board' = [order |-> order_seller_report.order,
                          items |-> order_seller_report.items,
                          payments |-> payment_report.payments,
                          fin |-> payment_report.fin,
                          review_missing |-> delivery_report.review_missing,
                          conflict |-> FALSE]
    /\ UNCHANGED <<database, rows, reports, policy_decision, verification_result,
                   repair_count, final_output, output_file, case_failed>>

\* Mutant of Policy: a second evaluation forgets that it is a repair.
PolicyUncounted(differs) ==
    /\ ~Incomplete("policy_agent") /\ Classify(BoardContext(evidence_board)) # NoMatch
    /\ Finish("policy_agent", {"verifier_agent"})
    /\ policy_decision' = Evaluate(BoardContext(evidence_board), 0,
                                   evidence_board.review_missing, differs)
    /\ evidence_board' = [evidence_board EXCEPT !.conflict = @ \/ differs]
    /\ UNCHANGED <<database, rows, reports, verification_result, repair_count,
                   final_output, output_file, case_failed>>

\* differs: the model answered and its proposal is not the engine's.  A model
\* that failed counts as one that agreed.
Policy(differs) ==
    /\ ~Incomplete("policy_agent") /\ Classify(BoardContext(evidence_board)) # NoMatch
    /\ Finish("policy_agent", {"verifier_agent"})
    /\ policy_decision' = Evaluate(BoardContext(evidence_board), repair_count,
                                   evidence_board.review_missing, differs)
    /\ evidence_board' = [evidence_board EXCEPT !.conflict = @ \/ differs]
    /\ UNCHANGED <<database, rows, reports, verification_result, repair_count,
                   final_output, output_file, case_failed>>

\* Mutants of RouteVerification: one repair too many, and the output built after
\* a repair whatever its verdict.
RouteTwice(result) ==
    IF result = Passed THEN "build_output"
    ELSE IF repair_count < 2 THEN "repair_router" ELSE "case_failed"
RouteHopeful(result) ==
    IF result = Passed \/ repair_count = 1 THEN "build_output" ELSE "repair_router"

RouteVerification(result) ==
    IF result = Passed THEN "build_output"
    ELSE IF repair_count < 1 THEN "repair_router"
    ELSE "case_failed"

\* The verifier's decision on the rows it read, then its verdict on the board.
\* (The quantifiers over singletons name values that TLC then computes once.)
Verifier ==
    /\ "verifier_agent" \in running
    /\ HasRead("verifier_agent") /\ ~Unreadable("verifier_agent")
    /\ \E ctx \in {VerifierContext} :
       \E expected \in {Evaluate(ctx, repair_count, evidence_board.review_missing,
                                 evidence_board.conflict)} :
       \E result \in {Verify(evidence_board, policy_decision, expected, ctx,
                             rows["verifier_agent"][4], rows["verifier_agent"][5])} :
           /\ verification_result' = [target |-> result, context |-> ctx]
           /\ Finish("verifier_agent", {RouteVerification(result)})
    /\ Forget("verifier_agent")
    /\ UNCHANGED <<database, reports, evidence_board, policy_decision, repair_count,
                   final_output, output_file, case_failed>>

\* Mutant of RepairRouter: the repair is not counted.
RepairUncounted ==
    /\ Finish("repair_router", {verification_result.target})
    /\ UNCHANGED <<database, rows, channels, output_file, case_failed>>

RepairRouter ==
    /\ Finish("repair_router", {verification_result.target})
    /\ repair_count' = repair_count + 1
    /\ UNCHANGED <<database, rows, reports, evidence_board, policy_decision,
                   verification_result, final_output, output_file, case_failed>>

BuildOutput ==
    /\ Finish("build_output", {"write_output"})
    /\ final_output' = BuildFinalOutput(evidence_board, policy_decision)
    /\ UNCHANGED <<database, rows, reports, evidence_board, policy_decision,
                   verification_result, repair_count, output_file, case_failed>>

\* The rename puts the file in place, then the node emits its event and returns.
ReplaceFile ==
    /\ "write_output" \in running /\ output_file = None
    /\ output_file' = final_output
    /\ UNCHANGED <<database, graph, rows, channels, case_failed>>

WriteOutput ==
    /\ output_file # None
    /\ Finish("write_output", {})
    /\ UNCHANGED <<database, rows, channels, output_file, case_failed>>

\* Mutants of CaseFailed: no event; an edge to the output instead of the end.
CaseDropped ==
    /\ Finish("case_failed", {})
    /\ UNCHANGED <<database, rows, channels, output_file, case_failed>>
CaseFailedBuilds ==
    /\ Finish("case_failed", {"build_output"})
    /\ case_failed' = TRUE
    /\ UNCHANGED <<database, rows, channels, output_file>>

CaseFailed ==
    /\ Finish("case_failed", {})
    /\ case_failed' = TRUE
    /\ UNCHANGED <<database, rows, channels, output_file>>

\* What a node raises by its own logic, and what its environment (the database,
\* the disk of the trace and of the outputs) may make it raise at any point.
Rejects(n) ==
    \/ Incomplete(n)
    \/ n \in Readers /\ Unreadable(n)
    \/ /\ n = "policy_agent" /\ evidence_board # None
       /\ Classify(BoardContext(evidence_board)) = NoMatch

Reject == \E n \in running : Rejects(n) /\ Abort(n)
Break == \E n \in running : Abort(n)

\* scripts/import_olist_csv.py reloads every table in one transaction.
Import ==
    /\ outcome = "running" /\ imports < MaxImports
    /\ imports' = imports + 1
    /\ db' \in Databases \ {db}
    /\ UNCHANGED <<graph, rows, channels, output_file, case_failed>>

\* ainvoke has returned or raised: nothing is left to do.
Ended == outcome # "running" /\ UNCHANGED vars

Step ==
    \/ ValidateCase \/ CoordinatorTriage
    \/ \E n \in Readers : Query(n)
    \/ OrderSeller \/ Payment \/ Delivery
    \/ MergeEvidenceBoard \/ (\E differs \in BOOLEAN : Policy(differs)) \/ Verifier
    \/ RepairRouter \/ BuildOutput \/ ReplaceFile \/ WriteOutput \/ CaseFailed
    \/ Reject

Next == Step \/ Break \/ Import \/ Ended

Spec == Init /\ [][Next]_vars

\* The event loop runs every ready task and every call a node awaits is bounded
\* by a timeout, so a case that can make a step makes one.
FairSpec == Spec /\ WF_vars(Step)
-----------------------------------------------------------------------------
\* Every variable holds a value of its kind; a node that is not a specialist runs
\* alone, and with an empty barrier.
TypeOK ==
    /\ db \in Databases /\ imports \in 0..MaxImports
    /\ running \subseteq Nodes
    /\ barrier \subseteq Specialists /\ barrier # Specialists
    /\ barrier # {} => running \subseteq Specialists \ barrier
    /\ outcome \in {"running", "returned", "raised"}
    /\ outcome = "running" <=> running # {}
    /\ running \subseteq Specialists \/ \E n \in Nodes : running = {n}
    /\ DOMAIN rows = Readers
    /\ repair_count \in 0..1
    /\ case_failed \in BOOLEAN

\* The edges alone keep a node from running before its inputs are there: none of
\* the RuntimeErrors with which merge, policy, verifier, build_output and
\* write_output refuse an empty channel (graph.py:94,142,160,198,204) is ever
\* raised, whatever order the specialists finish in and wherever a repair goes.
NeverIncomplete == \A n \in running : ~Incomplete(n)

\* What the verifier certifies about an output out against the rows ctx it read.
Certifies(ctx, out) ==
    /\ out.issue = Classify(ctx)
    /\ out.parties = ResponsibleParties(out.issue, ctx)
    /\ Money(out.refund) = BasisAmount(out.issue, ctx.fin)
    /\ TotalsAgree(out, ctx.fin)

\* A file is written only for a case that passed verification, and it states the
\* issue, the parties, the refund and the totals that the policy gives for the
\* rows which the verifier itself read, although the board it was built from was
\* read earlier, by three agents, query by query, with imports in between.
OutputVerified ==
    output_file # None =>
        /\ verification_result.target = Passed
        /\ Certifies(verification_result.context, output_file)

\* While no import intervenes, the four agents read the same rows and the
\* verifier finds nothing to repair: a case is repaired or fails only because
\* the database changed under it.
StableNeverRepaired == imports = 0 => repair_count = 0 /\ ~case_failed

\* A confidence above 0.90 is only published when the model never contradicted
\* the engine and nothing was repaired, even if the contradiction came before a
\* repair and the second proposal agreed (engine.py:45, policy_agent.py:71-78).
ConfidenceHonest ==
    output_file # None /\ output_file.confidence > 90 =>
        repair_count = 0 /\ ~evidence_board.conflict

\* A case never has both a case_failed event and an output, and an invocation
\* that returns with neither has repaired a specialist: the barrier still waits
\* for the two that did not run again.
SilentOnlyAfterRepair ==
    /\ case_failed => output_file = None
    /\ outcome = "returned" /\ output_file = None /\ ~case_failed =>
           repair_count = 1 /\ \E n \in Specialists : barrier = {n}

\* The decision under verification is what the engine gives for the board and the
\* repair count of now, with a warning if any policy run so far disagreed with the
\* model: neither a repair nor a forgotten conflict leaves an older one in place.
DecisionCurrent ==
    "verifier_agent" \in running =>
        policy_decision = Evaluate(BoardContext(evidence_board), repair_count,
                                   evidence_board.review_missing, evidence_board.conflict)

\* Every invocation of the graph ends: repairs cannot go on for ever.
CaseEnds == <>(outcome # "running")

\* The callers of the graph see what CasePromise promises of it: in particular the
\* file is there before the invocation returns, at most one of file and case_failed
\* event is produced, and nothing comes after the end.
Promise == INSTANCE CasePromise
    WITH case <- [outcome |-> outcome, file |-> output_file # None, reported |-> case_failed]
KeepsPromise == Promise!Spec

\* architecture.md, 5.8: a case that still fails is marked as failed in the
\* trace.  So an invocation that returns has written the file or said so.
FailureTraced == outcome = "returned" => output_file # None \/ case_failed
=============================================================================
