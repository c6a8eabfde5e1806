------------------------ MODULE CaseWorkflow_proofs ------------------------
(***************************************************************************)
(* Theorems about CaseWorkflow, for all contents of the database, all      *)
(* limits and any number of imports.                                       *)
(***************************************************************************)
EXTENDS CaseWorkflow, PolicyEngine_proofs, SequenceTheorems

\* The sets of nodes that the other lemmas tell apart are what their names say.
LEMMA NodeFacts ==
    /\ Specialists \subseteq Readers /\ Readers \subseteq Nodes
    /\ DOMAIN Queries = Readers
BY DEF Specialists, Readers, Nodes, Queries
-----------------------------------------------------------------------------
\* Type correctness needs the route of a repair: the router runs only before
\* the first repair, and its target is one of the verifier's Targets.
Routed ==
    "repair_router" \in running =>
        repair_count = 0 /\ verification_result.target \in Targets

TypeInv == TypeOK /\ Routed
-----------------------------------------------------------------------------
\* The part of TypeOK that is about the graph, and the rest of it.
GraphOK ==
    /\ running \subseteq Nodes
    /\ barrier \subseteq Specialists /\ barrier # Specialists
    /\ barrier # {} => running \subseteq Specialists \ barrier
    /\ outcome \in {"running", "returned", "raised"}
    /\ outcome = "running" <=> running # {}
    /\ running \subseteq Specialists \/ \E n \in Nodes : running = {n}

DataOK ==
    /\ db \in Databases /\ imports \in 0..MaxImports
    /\ DOMAIN rows = Readers
    /\ repair_count \in 0..1
    /\ case_failed \in BOOLEAN

\* TypeOK speaks of the graph's scheduling and, separately, of its data.
LEMMA TypeParts == TypeOK <=> GraphOK /\ DataOK
BY DEF TypeOK, GraphOK, DataOK

\* A specialist ends: it has no edge but the barrier.
LEMMA SpecialistEnds ==
    ASSUME GraphOK, NEW n \in Specialists, Finish(n, {})
    PROVE  /\ running \subseteq Specialists
           /\ \/ running' = {"merge_evidence_board"} /\ barrier \cup {n} = Specialists
              \/ running' = running \ {n}
           /\ barrier' \subseteq barrier \cup {n}
           /\ GraphOK'
<1>1. n \in running /\ outcome = "running" /\ running \subseteq Specialists
  BY DEF GraphOK, Finish
<1>2. {n} \cap Specialists = {n}
  OBVIOUS
<1>3. CASE running = {n} /\ barrier \cup {n} = Specialists
  BY <1>1, <1>2, <1>3, NodeFacts DEF Finish, GraphOK, Nodes, Specialists
<1>4. CASE running = {n} /\ barrier \cup {n} # Specialists
  BY <1>1, <1>2, <1>4, NodeFacts DEF Finish, GraphOK
<1>5. CASE running # {n}
  <2>1. PICK m \in running \ {n} : TRUE
    BY <1>1, <1>5
  <2>2. m \notin barrier /\ n \notin barrier
    BY <1>1, <2>1 DEF GraphOK
  <2>3. running' = running \ {n} /\ barrier' = barrier \cup {n} /\ outcome' = outcome
    BY <1>1, <1>2, <1>5 DEF Finish
  <2> QED BY <1>1, <2>1, <2>2, <2>3 DEF GraphOK
<1> QED BY <1>3, <1>4, <1>5

\* Any other node ends: it was alone and its targets run next.
LEMMA OtherEnds ==
    ASSUME GraphOK, NEW n \in Nodes \ Specialists, NEW targets, Finish(n, targets),
           targets \in {{}, Specialists} \/ \E t \in Nodes : targets = {t}
    PROVE  /\ running = {n} /\ running' = targets /\ barrier' = {}
           /\ GraphOK'
<1>1. running = {n} /\ barrier = {}
  BY DEF GraphOK, Finish
<1>2. barrier \cup ({n} \cap Specialists) = barrier
  OBVIOUS
<1>3. running' = targets /\ barrier' = barrier
      /\ outcome' = IF targets = {} THEN "returned" ELSE "running"
  BY <1>1, <1>2 DEF Finish, GraphOK
<1> QED BY <1>1, <1>3, NodeFacts DEF GraphOK

\* Every target an edge can name is a node.
LEMMA NodeKinds ==
    /\ {"order_seller_agent", "payment_agent", "delivery_agent"} = Specialists
    /\ {"validate_case", "coordinator_triage", "merge_evidence_board", "policy_agent",
        "verifier_agent", "repair_router", "build_output", "write_output",
        "case_failed"} = Nodes \ Specialists
    /\ Targets \subseteq Nodes
BY DEF Nodes, Readers, Specialists, Targets

\* A case starts with the types of TypeInv (state.py:34-49).
LEMMA TypeInit == Init => TypeInv
<1> SUFFICES ASSUME Init PROVE TypeInv
  OBVIOUS
<1>1. GraphOK
  <2>1. {} # Specialists
    BY NodeKinds
  <2>2. "validate_case" \in Nodes
    BY DEF Nodes
  <2>3. /\ running = {"validate_case"} /\ barrier = {} /\ outcome = "running"
    BY DEF Init
  <2> QED BY <2>1, <2>2, <2>3 DEF GraphOK
<1>2. DataOK
  <2>1. DOMAIN rows = Readers
    BY DEF Init
  <2>2. imports \in 0..MaxImports /\ repair_count \in 0..1
    BY ImportAssumption DEF Init
  <2>3. db \in Databases /\ case_failed \in BOOLEAN
    BY Zenon DEF Init
  <2> QED BY <2>1, <2>2, <2>3 DEF DataOK
<1>3. Routed
  BY DEF Init, Routed
<1> QED BY <1>1, <1>2, <1>3, TypeParts DEF TypeInv

\* TypeInv after a step that ends or replaces no node.
LEMMA GraphUnchanged ==
    ASSUME TypeInv, UNCHANGED <<graph, repair_count, verification_result>>, DataOK'
    PROVE  TypeInv'
BY TypeParts DEF TypeInv, TypeOK, GraphOK, DataOK, Routed, graph

\* Each step of a node, of its failure or of an import keeps the types.
LEMMA TypeStep == TypeInv /\ [Next]_vars => TypeInv'
<1> SUFFICES ASSUME TypeInv, [Next]_vars PROVE TypeInv'
  OBVIOUS
<1>0. GraphOK /\ DataOK /\ Routed
  BY TypeParts DEF TypeInv
<1>a. GraphOK' /\ DataOK' /\ Routed' => TypeInv'
  BY DEF TypeInv, TypeOK, GraphOK, DataOK
<1> USE DEF database, channels, reports
<1>1. CASE ValidateCase
  <2>1. GraphOK' /\ running' = {"coordinator_triage"}
    BY <1>1, <1>0, OtherEnds, NodeKinds DEF ValidateCase
  <2> QED BY <1>1, <1>0, <1>a, <2>1 DEF ValidateCase, DataOK, Routed
<1>2. CASE CoordinatorTriage
  <2>1. GraphOK' /\ running' = Specialists
    BY <1>2, <1>0, OtherEnds, NodeKinds DEF CoordinatorTriage
  <2> QED BY <1>2, <1>0, <1>a, <2>1, NodeKinds DEF CoordinatorTriage, DataOK, Routed
<1>3. ASSUME NEW n \in Readers, Query(n) PROVE TypeInv'
  BY <1>3, <1>0, GraphUnchanged DEF Query, DataOK
<1>4. ASSUME OrderSeller \/ Payment \/ Delivery PROVE TypeInv'
  <2>1. PICK n \in Specialists : Finish(n, {})
    BY <1>4, NodeKinds DEF OrderSeller, Payment, Delivery
  <2>2. GraphOK' /\ "repair_router" \notin running'
    BY <2>1, <1>0, SpecialistEnds, NodeKinds
  <2> QED BY <1>4, <1>0, <1>a, <2>2
          DEF OrderSeller, Payment, Delivery, Forget, DataOK, Routed
<1>5. CASE MergeEvidenceBoard
  <2>1. GraphOK' /\ running' = {"policy_agent"}
    BY <1>5, <1>0, OtherEnds, NodeKinds DEF MergeEvidenceBoard
  <2> QED BY <1>5, <1>0, <1>a, <2>1 DEF MergeEvidenceBoard, DataOK, Routed
<1>6. ASSUME NEW differs \in BOOLEAN, Policy(differs) PROVE TypeInv'
  <2>1. GraphOK' /\ running' = {"verifier_agent"}
    BY <1>6, <1>0, OtherEnds, NodeKinds DEF Policy
  <2> QED BY <1>6, <1>0, <1>a, <2>1 DEF Policy, DataOK, Routed
<1>7. CASE Verifier
  <2>1. PICK result \in Targets \cup {Passed} :
          /\ verification_result'.target = result
          /\ Finish("verifier_agent", {RouteVerification(result)})
    BY <1>7, VerifyValue DEF Verifier
  <2>2. RouteVerification(result) \in Nodes
        /\ (RouteVerification(result) = "repair_router"
              => result \in Targets /\ ~(repair_count >= 1))
    BY <1>0, NodeKinds DEF RouteVerification, DataOK
  <2>3. GraphOK' /\ running' = {RouteVerification(result)}
    BY <2>1, <2>2, <1>0, OtherEnds, NodeKinds
  <2> QED BY <1>7, <1>0, <1>a, <2>1, <2>2, <2>3 DEF Verifier, Forget, DataOK, Routed
<1>8. CASE RepairRouter
  <2>1. "repair_router" \in running /\ verification_result.target \in Targets
        /\ repair_count = 0
    BY <1>8, <1>0 DEF RepairRouter, Finish, Routed
  <2>2. GraphOK' /\ running' = {verification_result.target}
    BY <1>8, <2>1, <1>0, OtherEnds, NodeKinds DEF RepairRouter
  <2> QED BY <1>8, <1>0, <1>a, <2>1, <2>2 DEF RepairRouter, DataOK, Routed, Targets
<1>9. CASE BuildOutput
  <2>1. GraphOK' /\ running' = {"write_output"}
    BY <1>9, <1>0, OtherEnds, NodeKinds DEF BuildOutput
  <2> QED BY <1>9, <1>0, <1>a, <2>1 DEF BuildOutput, DataOK, Routed
<1>10. CASE ReplaceFile
  BY <1>10, <1>0, GraphUnchanged DEF ReplaceFile, DataOK
<1>11. CASE WriteOutput
  <2>1. GraphOK' /\ running' = {}
    BY <1>11, <1>0, OtherEnds, NodeKinds DEF WriteOutput
  <2> QED BY <1>11, <1>0, <1>a, <2>1 DEF WriteOutput, DataOK, Routed
<1>12. CASE CaseFailed
  <2>1. GraphOK' /\ running' = {}
    BY <1>12, <1>0, OtherEnds, NodeKinds DEF CaseFailed
  <2> QED BY <1>12, <1>0, <1>a, <2>1 DEF CaseFailed, DataOK, Routed
<1>13. ASSUME NEW n \in running, Abort(n) PROVE TypeInv'
  BY <1>13, <1>0, <1>a DEF Abort, GraphOK, DataOK, Routed
<1>14. CASE Import
  BY <1>14, <1>0, GraphUnchanged, ImportAssumption DEF Import, DataOK
<1>15. CASE UNCHANGED vars
  BY <1>15, <1>0, GraphUnchanged DEF vars, DataOK
<1> QED
  BY <1>1, <1>2, <1>3, <1>4, <1>5, <1>6, <1>7, <1>8, <1>9, <1>10, <1>11, <1>12,
     <1>13, <1>14, <1>15 DEF Next, Step, Reject, Break, Ended

\* The types of CaseWorkflow, the shape of a superstep included.
THEOREM TypeCorrect == Spec => []TypeOK
<1>1. Init => TypeInv
  BY TypeInit
<1>2. TypeInv /\ [Next]_vars => TypeInv'
  BY TypeStep
<1>3. TypeInv => TypeOK
  BY DEF TypeInv
<1> QED BY <1>1, <1>2, <1>3, PTL DEF Spec
-----------------------------------------------------------------------------
(***************************************************************************)
(* The inductive invariant.  Its parts follow the board from the reports   *)
(* to the file: who has arrived at the barrier has reported; a node runs   *)
(* with its inputs there; a conflict stands on the board only before the   *)
(* decision it lowered; the decision under verification is the current     *)
(* one; what passed is what gets built; and what was built is the file.    *)
(***************************************************************************)
Report(n) ==
    IF n = "order_seller_agent" THEN order_seller_report
    ELSE IF n = "payment_agent" THEN payment_report ELSE delivery_report

Reported ==
    /\ \A n \in barrier : Report(n) # None
    /\ "merge_evidence_board" \in running => \A n \in Specialists : Report(n) # None

BoardShape ==
    /\ DOMAIN evidence_board = {"order", "items", "payments", "fin",
                                "review_missing", "conflict"}
    /\ evidence_board = [f \in DOMAIN evidence_board |-> evidence_board[f]]
    /\ evidence_board.conflict \in BOOLEAN

Boarded ==
    /\ {"policy_agent", "verifier_agent", "repair_router", "build_output",
        "write_output"} \cap running # {} => evidence_board # None
    /\ evidence_board # None => BoardShape

Unconflicted ==
    "policy_agent" \in running /\ repair_count = 0 => ~evidence_board.conflict

\* The nodes from a decision to its output.
Deciding == {"verifier_agent", "build_output", "write_output"} \cap running # {}

Decided ==
    /\ Deciding \/ "repair_router" \in running \/ output_file # None => policy_decision # None
    /\ Deciding \/ output_file # None =>
           policy_decision = Evaluate(BoardContext(evidence_board), repair_count,
                                      evidence_board.review_missing, evidence_board.conflict)

\* The verdict was Passed, on this board and this decision.
Accepted ==
    LET ctx == verification_result.context
    IN  /\ verification_result.target = Passed
        /\ policy_decision.issue \in Issues /\ policy_decision.issue = Classify(ctx)
        /\ policy_decision.parties = ResponsibleParties(policy_decision.issue, ctx)
        /\ TotalsAgree(evidence_board.fin, ctx.fin)
        /\ RefundAgrees(policy_decision, ctx.fin)

Judged ==
    {"build_output", "write_output"} \cap running # {} \/ output_file # None => Accepted

Built ==
    /\ "write_output" \in running =>
           final_output = BuildFinalOutput(evidence_board, policy_decision)
    /\ output_file # None =>
           /\ output_file = BuildFinalOutput(evidence_board, policy_decision)
           /\ running \subseteq {"write_output"}

IInv == TypeInv /\ Reported /\ Boarded /\ Unconflicted /\ Decided /\ Judged /\ Built

\* Records made by the graph are not None.
LEMMA NotNone ==
    /\ \A board, decision : BuildFinalOutput(board, decision) # None
    /\ \A ctx, rc, missing, warnings : Evaluate(ctx, rc, missing, warnings) # None
BY DEF BuildFinalOutput, Evaluate, None

\* What the builder copies.
LEMMA OutputFields ==
    ASSUME NEW board, NEW decision, NEW out, out = BuildFinalOutput(board, decision)
    PROVE  /\ out.issue = decision.issue /\ out.parties = decision.parties
           /\ out.refund = decision.refund /\ out.confidence = decision.confidence
           /\ out.item_total = board.fin.item_total
           /\ out.freight_total = board.fin.freight_total
           /\ out.payment_total = board.fin.payment_total
BY DEF BuildFinalOutput

\* A decision of confidence above 0.90 was made without repair and warnings.
LEMMA ConfidenceValue ==
    ASSUME NEW ctx, NEW rc, NEW missing, NEW warnings,
           Evaluate(ctx, rc, missing, warnings).confidence > 90
    PROVE  ~(rc > 0) /\ ~warnings
BY DEF Evaluate

\* The inductive invariant gives the four safety properties.
LEMMA IInvImplies ==
    IInv => NeverIncomplete /\ OutputVerified /\ ConfidenceHonest /\ DecisionCurrent
<1> SUFFICES ASSUME IInv
             PROVE  NeverIncomplete /\ OutputVerified /\ ConfidenceHonest /\ DecisionCurrent
  OBVIOUS
<1>1. NeverIncomplete
  <2> SUFFICES ASSUME NEW n \in running PROVE ~Incomplete(n)
    BY DEF NeverIncomplete
  <2>1. CASE n = "merge_evidence_board"
    BY <2>1 DEF IInv, Reported, Report, Incomplete, Specialists
  <2>2. CASE n = "policy_agent"
    BY <2>2 DEF IInv, Boarded, Incomplete
  <2>3. CASE n \in {"verifier_agent", "build_output"}
    BY <2>3 DEF IInv, Boarded, Decided, Deciding, Incomplete
  <2>4. CASE n = "write_output"
    BY <2>4, NotNone DEF IInv, Built, Incomplete
  <2> QED BY <2>1, <2>2, <2>3, <2>4 DEF Incomplete
<1>2. OutputVerified
  <2> SUFFICES ASSUME output_file # None
               PROVE  /\ verification_result.target = Passed
                      /\ Certifies(verification_result.context, output_file)
    BY DEF OutputVerified
  <2>1. Accepted /\ output_file = BuildFinalOutput(evidence_board, policy_decision)
    BY DEF IInv, Judged, Built
  <2>2. RefundAgrees(policy_decision, verification_result.context.fin)
        /\ policy_decision.issue \in Issues
    BY <2>1 DEF Accepted
  <2>3. Money(policy_decision.refund) =
            BasisAmount(policy_decision.issue, verification_result.context.fin)
    BY <2>2, ExpectedRefundIsBasis DEF RefundAgrees
  <2> QED BY <2>1, <2>3, OutputFields DEF Accepted, Certifies, TotalsAgree
<1>3. ConfidenceHonest
  <2> SUFFICES ASSUME output_file # None, output_file.confidence > 90
               PROVE  repair_count = 0 /\ ~evidence_board.conflict
    BY DEF ConfidenceHonest
  <2>1. policy_decision = Evaluate(BoardContext(evidence_board), repair_count,
                                   evidence_board.review_missing, evidence_board.conflict)
    BY DEF IInv, Decided
  <2>2. policy_decision.confidence > 90
    BY OutputFields DEF IInv, Built
  <2>3. ~(repair_count > 0) /\ ~evidence_board.conflict
    BY <2>1, <2>2, ConfidenceValue
  <2> QED BY <2>3 DEF IInv, TypeInv, TypeOK
<1>4. DecisionCurrent
  BY DEF IInv, Decided, Deciding, DecisionCurrent
<1> QED BY <1>1, <1>2, <1>3, <1>4

\* A case starts with every channel empty, so nothing is claimed yet.
LEMMA IInvInit == Init => IInv
<1> SUFFICES ASSUME Init PROVE IInv
  OBVIOUS
<1>1. TypeInv
  BY TypeInit
<1>2. Reported /\ Boarded /\ Unconflicted /\ Decided /\ Judged /\ Built
  BY DEF Init, Reported, Boarded, Unconflicted, Decided, Deciding, Judged, Built
<1> QED BY <1>1, <1>2 DEF IInv

\* A step that changes neither the graph's nodes nor its channels, nor the file.
LEMMA NothingDecided ==
    ASSUME IInv, TypeInv', UNCHANGED <<running, barrier, channels, output_file>>
    PROVE  IInv'
BY DEF IInv, Reported, Report, Boarded, BoardShape, Unconflicted, Decided, Deciding,
       BoardContext, Judged, Accepted, Built, channels, reports

\* A step after which no node runs that Boarded to Judged are about.
LEMMA NothingRuns ==
    ASSUME IInv, TypeInv', Reported', output_file = None,
           running' \cap {"policy_agent", "verifier_agent", "repair_router",
                          "build_output", "write_output"} = {},
           UNCHANGED <<evidence_board, output_file>>
    PROVE  IInv'
<1>1. (Boarded /\ Unconflicted /\ Decided /\ Judged /\ Built)'
  BY DEF IInv, Boarded, BoardShape, Unconflicted, Decided, Deciding, Judged, Built
<1> QED BY <1>1 DEF IInv

\* The file is there only while write_output runs or when nothing does.
LEMMA NoFileYet ==
    ASSUME IInv, running # {}, running # {"write_output"} PROVE output_file = None
BY DEF IInv, Built

\* Each step of a node, of its failure or of an import keeps IInv.
LEMMA IInvStep == IInv /\ [Next]_vars => IInv'
<1> SUFFICES ASSUME IInv, [Next]_vars PROVE IInv'
  OBVIOUS
<1>0. TypeInv /\ GraphOK /\ TypeInv'
  BY TypeParts, TypeStep DEF IInv, TypeInv
<1> USE DEF database, channels, reports
<1>1. CASE ValidateCase
  <2>1. running = {"validate_case"} /\ running' = {"coordinator_triage"} /\ barrier' = {}
    BY <1>1, <1>0, OtherEnds, NodeKinds DEF ValidateCase
  <2> QED BY <1>0, <1>1, <2>1, NothingRuns, NoFileYet DEF ValidateCase, Reported
<1>2. CASE CoordinatorTriage
  <2>1. running = {"coordinator_triage"} /\ running' = Specialists /\ barrier' = {}
    BY <1>2, <1>0, OtherEnds, NodeKinds DEF CoordinatorTriage
  <2> QED BY <1>0, <1>2, <2>1, NodeKinds, NothingRuns, NoFileYet
          DEF CoordinatorTriage, Reported
<1>3. ASSUME NEW n \in Readers, Query(n) PROVE IInv'
  BY <1>0, <1>3, NothingDecided DEF Query, graph
<1>4. ASSUME OrderSeller \/ Payment \/ Delivery PROVE IInv'
  <2>1. PICK n \in Specialists :
          /\ Finish(n, {})
          /\ Report(n)' # None
          /\ \A m \in Specialists \ {n} : UNCHANGED Report(m)
    BY <1>4, NodeKinds DEF OrderSeller, Payment, Delivery, Report, None
  <2>2. /\ n \in running /\ running \subseteq Specialists
        /\ \/ running' = {"merge_evidence_board"} /\ barrier \cup {n} = Specialists
           \/ running' = running \ {n}
        /\ barrier' \subseteq barrier \cup {n}
    BY <1>0, <2>1, SpecialistEnds DEF Finish
  <2>3. \A m \in barrier \cup {n} : Report(m)' # None
    BY <1>0, <2>1 DEF IInv, Reported, GraphOK
  <2>4. Reported'
    BY <2>2, <2>3, NodeKinds DEF Reported
  <2> QED BY <1>0, <1>4, <2>2, <2>4, NodeKinds, NothingRuns, NoFileYet
          DEF OrderSeller, Payment, Delivery
<1>5. CASE MergeEvidenceBoard
  <2>1. /\ running = {"merge_evidence_board"} /\ running' = {"policy_agent"}
        /\ barrier' = {}
    BY <1>5, <1>0, OtherEnds, NodeKinds DEF MergeEvidenceBoard
  <2>2. output_file = None /\ output_file' = None
    BY <1>5, <2>1, NoFileYet DEF MergeEvidenceBoard
  <2>3. evidence_board' # None /\ BoardShape' /\ evidence_board'.conflict = FALSE
    BY <1>5 DEF MergeEvidenceBoard, BoardShape, None
  <2> QED BY <1>0, <2>1, <2>2, <2>3
          DEF IInv, Reported, Boarded, Unconflicted, Decided, Deciding, Judged, Built
<1>6. ASSUME NEW differs \in BOOLEAN, Policy(differs) PROVE IInv'
  <2>1. /\ running = {"policy_agent"} /\ running' = {"verifier_agent"} /\ barrier' = {}
    BY <1>6, <1>0, OtherEnds, NodeKinds DEF Policy
  <2>2. output_file = None /\ output_file' = None
    BY <1>6, <2>1, NoFileYet DEF Policy
  <2>3. evidence_board # None /\ BoardShape
    BY <2>1 DEF IInv, Boarded
  <2>4. /\ evidence_board' # None /\ BoardShape'
        /\ BoardContext(evidence_board)' = BoardContext(evidence_board)
        /\ evidence_board'.review_missing = evidence_board.review_missing
        /\ evidence_board'.conflict = (evidence_board.conflict \/ differs)
    BY <1>6, <2>3 DEF Policy, BoardShape, BoardContext, None
  <2>5. /\ policy_decision' # None
        /\ policy_decision' = Evaluate(BoardContext(evidence_board), repair_count,
                                       evidence_board.review_missing, differs)
        /\ repair_count' = repair_count
    BY <1>6, NotNone DEF Policy
  <2>6. repair_count > 0 \/ evidence_board'.conflict = differs
    BY <1>0, <2>1, <2>3, <2>4 DEF IInv, Unconflicted, TypeInv, TypeOK, BoardShape
  <2>7. policy_decision' = Evaluate(BoardContext(evidence_board)', repair_count',
                                    evidence_board'.review_missing, evidence_board'.conflict)
    BY <2>4, <2>5, <2>6 DEF Evaluate
  <2> QED BY <1>0, <2>1, <2>2, <2>4, <2>5, <2>7
          DEF IInv, Reported, Boarded, Unconflicted, Decided, Deciding, Judged, Built
<1>7. CASE Verifier
  <2> DEFINE read == rows["verifier_agent"]
             expected == Evaluate(VerifierContext, repair_count,
                                  evidence_board.review_missing, evidence_board.conflict)
             result == Verify(evidence_board, policy_decision, expected, VerifierContext,
                              read[4], read[5])
  <2>1. /\ verification_result' = [target |-> result, context |-> VerifierContext]
        /\ Finish("verifier_agent", {RouteVerification(result)})
        /\ UNCHANGED <<reports, evidence_board, policy_decision, repair_count,
                       final_output, output_file>>
    BY <1>7 DEF Verifier
  <2>2. RouteVerification(result) \in {"build_output", "repair_router", "case_failed"}
        /\ (RouteVerification(result) = "build_output" => result = Passed)
    BY DEF RouteVerification
  <2> DEFINE route == RouteVerification(result)
  <2>3. result = Passed => /\ PolicyAgrees(policy_decision, expected)
                           /\ TotalsAgree(evidence_board.fin, VerifierContext.fin)
                           /\ RefundAgrees(policy_decision, VerifierContext.fin)
                           /\ policy_decision.issue \in Issues
    BY VerifyValue
  <2>4. result = Passed => Accepted'
    BY <2>1, <2>3 DEF Accepted, PolicyAgrees, Evaluate
  <2> HIDE DEF result
  <2>5. running = {"verifier_agent"} /\ running' = {route} /\ barrier' = {}
    BY <2>1, <2>2, <1>0, OtherEnds, NodeKinds
  <2>6. output_file = None /\ output_file' = None
    BY <2>1, <2>5, NoFileYet
  <2>7. BoardContext(evidence_board)' = BoardContext(evidence_board)
    BY <2>1 DEF BoardContext
  <2>8. policy_decision # None /\ evidence_board # None /\ BoardShape /\ BoardShape'
    BY <2>1, <2>5 DEF IInv, Decided, Deciding, Boarded, BoardShape
  <2>9. Reported' /\ Boarded' /\ Unconflicted' /\ Built'
    BY <2>1, <2>2, <2>5, <2>6, <2>8 DEF Reported, Boarded, Unconflicted, Built
  <2>10. Decided'
    BY <2>1, <2>5, <2>7, <2>8 DEF IInv, Decided, Deciding
  <2>11. Judged'
    BY <2>2, <2>4, <2>5, <2>6 DEF Judged
  <2> QED BY <1>0, <2>9, <2>10, <2>11 DEF IInv
<1>8. CASE RepairRouter
  <2>1. "repair_router" \in running /\ verification_result.target \in Targets
        /\ repair_count = 0
    BY <1>0, <1>8 DEF RepairRouter, Finish, TypeInv, Routed
  <2>2. /\ running = {"repair_router"} /\ running' = {verification_result.target}
        /\ barrier' = {}
    BY <1>8, <2>1, <1>0, OtherEnds, NodeKinds DEF RepairRouter
  <2>3. output_file = None /\ output_file' = None /\ repair_count' = 1
    BY <1>8, <2>1, <2>2, NoFileYet DEF RepairRouter
  <2>4. evidence_board # None /\ evidence_board' # None /\ BoardShape'
    BY <1>8, <2>1 DEF RepairRouter, IInv, Boarded, BoardShape
  <2> QED BY <1>0, <2>1, <2>2, <2>3, <2>4
          DEF IInv, Reported, Boarded, Unconflicted, Decided, Deciding, Judged, Built, Targets
<1>9. CASE BuildOutput
  <2>1. running = {"build_output"} /\ running' = {"write_output"} /\ barrier' = {}
    BY <1>9, <1>0, OtherEnds, NodeKinds DEF BuildOutput
  <2>2. output_file = None /\ output_file' = None
    BY <1>9, <2>1, NoFileYet DEF BuildOutput
  <2>3. /\ final_output' = BuildFinalOutput(evidence_board, policy_decision)
        /\ UNCHANGED <<evidence_board, policy_decision, verification_result, repair_count>>
    BY <1>9 DEF BuildOutput
  <2>4. Reported' /\ Boarded' /\ Unconflicted' /\ Built'
    BY <2>1, <2>2, <2>3
       DEF IInv, Reported, Boarded, BoardShape, Unconflicted, Built
  <2>5. Decided' /\ Judged'
    BY <2>1, <2>2, <2>3
       DEF IInv, Decided, Deciding, BoardContext, Judged, Accepted
  <2> QED BY <1>0, <2>4, <2>5 DEF IInv
<1>10. CASE ReplaceFile
  <2>1. running = {"write_output"}
    BY <1>0, <1>10 DEF ReplaceFile, GraphOK, Specialists
  <2>2. /\ final_output = BuildFinalOutput(evidence_board, policy_decision)
        /\ output_file' = final_output
        /\ UNCHANGED <<graph, channels>>
    BY <1>10 DEF ReplaceFile, IInv, Built
  <2>3. (Reported /\ Boarded /\ Unconflicted /\ Built)'
    BY <2>1, <2>2 DEF IInv, Reported, Report, Boarded, BoardShape, Unconflicted, Built, graph
  <2>4. (Decided /\ Judged)'
    BY <2>1, <2>2
       DEF IInv, Decided, Deciding, BoardContext, Judged, Accepted, graph
  <2> QED BY <1>0, <2>3, <2>4 DEF IInv
<1>11. CASE WriteOutput
  <2>1. running = {"write_output"} /\ running' = {} /\ barrier' = {}
    BY <1>11, <1>0, OtherEnds, NodeKinds DEF WriteOutput
  <2>2. UNCHANGED <<channels, output_file>>
    BY <1>11 DEF WriteOutput
  <2>3. (Reported /\ Boarded /\ Unconflicted /\ Built)'
    BY <2>1, <2>2 DEF IInv, Reported, Boarded, BoardShape, Unconflicted, Built
  <2>4. (Decided /\ Judged)'
    BY <2>1, <2>2 DEF IInv, Decided, Deciding, BoardContext, Judged, Accepted
  <2> QED BY <1>0, <2>3, <2>4 DEF IInv
<1>12. CASE CaseFailed
  <2>1. running = {"case_failed"} /\ running' = {} /\ barrier' = {}
    BY <1>12, <1>0, OtherEnds, NodeKinds DEF CaseFailed
  <2> QED BY <1>0, <1>12, <2>1, NothingRuns, NoFileYet DEF CaseFailed, Reported
<1>13. ASSUME NEW n \in running, Abort(n) PROVE IInv'
  <2>1. running' = {} /\ UNCHANGED <<barrier, channels, output_file>>
    BY <1>13 DEF Abort
  <2>2. (Reported /\ Boarded /\ Unconflicted /\ Built)'
    BY <2>1 DEF IInv, Reported, Report, Boarded, BoardShape, Unconflicted, Built
  <2>3. (Decided /\ Judged)'
    BY <2>1 DEF IInv, Decided, Deciding, BoardContext, Judged, Accepted
  <2> QED BY <1>0, <2>2, <2>3 DEF IInv
<1>14. CASE Import
  BY <1>0, <1>14, NothingDecided DEF Import, graph
<1>15. CASE UNCHANGED vars
  BY <1>0, <1>15, NothingDecided DEF vars, graph
<1> QED
  BY <1>1, <1>2, <1>3, <1>4, <1>5, <1>6, <1>7, <1>8, <1>9, <1>10, <1>11, <1>12,
     <1>13, <1>14, <1>15 DEF Next, Step, Reject, Break, Ended

\* The invariant holds in every reachable state.
LEMMA Invariance == Spec => []IInv
BY IInvInit, IInvStep, PTL DEF Spec

\* No node of the graph ever raises for want of an input (graph.py:94-204).
THEOREM InputsComplete == Spec => []NeverIncomplete
BY Invariance, IInvImplies, PTL

\* A file was verified, and agrees with the rows the verifier read, whatever is
\* imported in between (graph.py:165-208, verifier_agent.py:40-144).
THEOREM FileVerified == Spec => []OutputVerified
BY Invariance, IInvImplies, PTL

\* A confidence above 0.90 means no contradiction and no repair (engine.py:45).
THEOREM HonestConfidence == Spec => []ConfidenceHonest
BY Invariance, IInvImplies, PTL

\* The verifier always sees the decision of the board of now (graph.py:140-163).
THEOREM CurrentDecision == Spec => []DecisionCurrent
BY Invariance, IInvImplies, PTL
-----------------------------------------------------------------------------
(***************************************************************************)
(* How an invocation ends.  In the first pass the specialists that run and *)
(* those that wait at the barrier are all three; a repair runs one of them *)
(* before an empty barrier, which that one cannot open.                    *)
(***************************************************************************)
Failed == case_failed => running = {} /\ output_file = None

FirstPass ==
    {"validate_case", "coordinator_triage"} \cap running # {} => repair_count = 0

SpecialistsRun ==
    running # {} /\ running \subseteq Specialists =>
        \/ repair_count = 0 /\ running \cup barrier = Specialists
        \/ repair_count = 1 /\ barrier = {} /\ \E n \in Specialists : running = {n}

\* What an invocation has to show for itself when it returns
Returned ==
    outcome = "returned" =>
        \/ output_file # None
        \/ case_failed
        \/ repair_count = 1 /\ \E n \in Specialists : barrier = {n}

EndInv == Failed /\ FirstPass /\ SpecialistsRun /\ Returned

\* A node other than a specialist hands over to one node, itself no specialist.
LEMMA HandsOver ==
    ASSUME GraphOK, EndInv, NEW n \in Nodes \ Specialists,
           NEW t \in Nodes \ (Specialists \cup {"validate_case", "coordinator_triage"}),
           Finish(n, {t}), UNCHANGED <<output_file, case_failed>>
    PROVE  EndInv'
<1>1. running = {n} /\ running' = {t} /\ GraphOK'
  BY OtherEnds
<1>2. outcome' = "running" /\ ~case_failed
  BY <1>1 DEF GraphOK, EndInv, Failed
<1> QED BY <1>1, <1>2 DEF EndInv, Failed, FirstPass, SpecialistsRun, Returned

\* Each step keeps track of how the invocation can end.
LEMMA EndStep ==
    ASSUME IInv, IInv', EndInv, [Next]_vars
    PROVE  EndInv'
<1>0. GraphOK /\ GraphOK' /\ repair_count \in 0..1
  BY DEF IInv, TypeInv, TypeOK, GraphOK
<1> USE DEF database, channels, reports
<1>1. CASE ValidateCase
  <2>1. /\ running = {"validate_case"} /\ running' = {"coordinator_triage"}
        /\ UNCHANGED <<repair_count, output_file, case_failed>>
    BY <1>1, <1>0, OtherEnds, NodeKinds DEF ValidateCase
  <2>2. outcome' = "running" /\ ~case_failed /\ repair_count = 0
    BY <1>0, <2>1 DEF GraphOK, EndInv, Failed, FirstPass
  <2> QED BY <2>1, <2>2, NodeKinds DEF EndInv, Failed, FirstPass, SpecialistsRun, Returned
<1>2. CASE CoordinatorTriage
  <2>1. /\ running = {"coordinator_triage"} /\ running' = Specialists /\ barrier' = {}
        /\ UNCHANGED <<repair_count, output_file, case_failed>>
    BY <1>2, <1>0, OtherEnds, NodeKinds DEF CoordinatorTriage
  <2>2. outcome' = "running" /\ ~case_failed /\ repair_count = 0
    BY <1>0, <2>1, NodeKinds DEF GraphOK, EndInv, Failed, FirstPass
  <2> QED BY <2>1, <2>2, NodeKinds DEF EndInv, Failed, FirstPass, SpecialistsRun, Returned
<1>3. CASE OrderSeller \/ Payment \/ Delivery
  <2>1. PICK n \in Specialists : Finish(n, {})
    BY <1>3, NodeKinds DEF OrderSeller, Payment, Delivery
  <2>2. UNCHANGED <<repair_count, output_file, case_failed>>
    BY <1>3 DEF OrderSeller, Payment, Delivery
  <2>3. /\ n \in running /\ running \subseteq Specialists
        /\ ~case_failed /\ ~case_failed'
    BY <1>0, <2>1, <2>2, SpecialistEnds DEF Finish, EndInv, Failed
  <2>4. Failed' /\ FirstPass'
    <3>1. running' \subseteq Specialists \cup {"merge_evidence_board"}
      BY <1>0, <2>1, <2>3, SpecialistEnds
    <3> QED BY <2>3, <3>1, NodeKinds DEF Failed, FirstPass
  <2>5. CASE repair_count = 0 /\ running \cup barrier = Specialists
    <3>1. CASE running = {n}
      <4>1. running' = {"merge_evidence_board"} /\ outcome' = "running"
        BY <1>0, <2>1, <2>5, <3>1 DEF Finish, GraphOK
      <4> QED BY <2>4, <4>1, NodeKinds DEF EndInv, SpecialistsRun, Returned
    <3>2. CASE running # {n}
      <4>1. running' = running \ {n} /\ barrier' = barrier \cup {n} /\ outcome' = outcome
        BY <2>1, <2>3, <3>2 DEF Finish
      <4>2. running' # {} /\ running' \cup barrier' = Specialists /\ outcome = "running"
        BY <1>0, <2>3, <2>5, <3>2, <4>1 DEF GraphOK
      <4> QED BY <2>2, <2>4, <2>5, <4>1, <4>2 DEF EndInv, SpecialistsRun, Returned
    <3> QED BY <3>1, <3>2
  <2>6. CASE repair_count = 1 /\ barrier = {} /\ running = {n}
    <3>1. barrier \cup ({n} \cap Specialists) = {n} /\ {n} # Specialists
      BY <2>6, NodeKinds
    <3>2. running' = {} /\ barrier' = {n}
      BY <2>1, <2>6, <3>1 DEF Finish
    <3> QED BY <2>2, <2>4, <2>6, <3>2 DEF EndInv, SpecialistsRun, Returned
  <2> QED BY <2>3, <2>5, <2>6 DEF EndInv, SpecialistsRun
<1>4. CASE MergeEvidenceBoard \/ BuildOutput
  BY <1>0, <1>4, HandsOver, NodeKinds DEF MergeEvidenceBoard, BuildOutput
<1>5. ASSUME NEW differs \in BOOLEAN, Policy(differs) PROVE EndInv'
  BY <1>0, <1>5, HandsOver, NodeKinds DEF Policy
<1>6. CASE Verifier
  <2>1. PICK result : Finish("verifier_agent", {RouteVerification(result)})
    BY <1>6 DEF Verifier
  <2>2. RouteVerification(result) \in {"build_output", "repair_router", "case_failed"}
    BY DEF RouteVerification
  <2>3. UNCHANGED <<output_file, case_failed>>
    BY <1>6 DEF Verifier
  <2> QED BY <1>0, <2>1, <2>2, <2>3, HandsOver, NodeKinds
<1>7. CASE RepairRouter
  <2>1. /\ verification_result.target \in Targets /\ repair_count = 0
        /\ Finish("repair_router", {verification_result.target})
        /\ repair_count' = repair_count + 1 /\ UNCHANGED <<output_file, case_failed>>
    BY <1>7 DEF RepairRouter, Finish, IInv, TypeInv, Routed
  <2>2. /\ running = {"repair_router"} /\ running' = {verification_result.target}
        /\ barrier' = {}
    BY <1>0, <2>1, OtherEnds, NodeKinds
  <2>3. outcome' = "running" /\ ~case_failed /\ repair_count' = 1
    BY <1>0, <2>1, <2>2 DEF GraphOK, EndInv, Failed
  <2>4. SpecialistsRun'
    BY <2>2, <2>3, NodeKinds DEF SpecialistsRun
  <2>5. FirstPass'
    BY <2>1, <2>2 DEF FirstPass, Targets
  <2> QED BY <2>1, <2>2, <2>3, <2>4, <2>5 DEF EndInv, Failed, Returned
<1>8. CASE ReplaceFile
  <2>1. /\ "write_output" \in running /\ output_file' = final_output
        /\ UNCHANGED <<running, barrier, outcome, repair_count, case_failed>>
    BY <1>8 DEF ReplaceFile, graph
  <2>2. outcome = "running" /\ ~case_failed
    BY <1>0, <2>1 DEF GraphOK, EndInv, Failed
  <2> QED BY <2>1, <2>2, NodeKinds DEF EndInv, Failed, FirstPass, SpecialistsRun, Returned
<1>9. CASE WriteOutput \/ CaseFailed
  <2>1. running # {} /\ running' = {}
    BY <1>0, <1>9, OtherEnds, NodeKinds DEF WriteOutput, CaseFailed
  <2>2. ~case_failed
    BY <2>1 DEF EndInv, Failed
  <2>3. \/ output_file' # None /\ case_failed' = case_failed
        \/ output_file' = None /\ case_failed'
    <3>1. CASE WriteOutput
      BY <3>1 DEF WriteOutput
    <3>2. CASE CaseFailed
      <4>1. running = {"case_failed"}
        BY <1>0, <3>2, OtherEnds, NodeKinds DEF CaseFailed
      <4> QED BY <3>2, <4>1, NoFileYet DEF CaseFailed
    <3> QED BY <1>9, <3>1, <3>2
  <2> QED BY <2>1, <2>2, <2>3 DEF EndInv, Failed, FirstPass, SpecialistsRun, Returned
<1>10. ASSUME NEW n \in running, Abort(n) PROVE EndInv'
  <2>1. ~case_failed
    BY DEF EndInv, Failed
  <2> QED BY <1>10, <2>1 DEF Abort, EndInv, Failed, FirstPass, SpecialistsRun, Returned
<1>11. CASE (\E n \in Readers : Query(n)) \/ Import \/ UNCHANGED vars
  <2>1. UNCHANGED <<running, barrier, outcome, repair_count, output_file, case_failed>>
    BY <1>11 DEF Query, Import, vars, graph
  <2> QED BY <2>1 DEF EndInv, Failed, FirstPass, SpecialistsRun, Returned
<1> QED
  BY <1>1, <1>2, <1>3, <1>4, <1>5, <1>6, <1>7, <1>8, <1>9, <1>10, <1>11
     DEF Next, Step, Reject, Break, Ended

\* An invocation that ends without a file and without a case_failed event has repaired
\* a specialist, which stands alone at the barrier (graph.py:221-250).
THEOREM SilentExplained == Spec => []SilentOnlyAfterRepair
<1>1. Init => EndInv
  BY NodeKinds DEF Init, EndInv, Failed, FirstPass, SpecialistsRun, Returned
<1>2. IInv /\ IInv' /\ EndInv /\ [Next]_vars => EndInv'
  BY EndStep
<1>3. EndInv => SilentOnlyAfterRepair
  BY DEF EndInv, Failed, Returned, SilentOnlyAfterRepair
<1> QED BY <1>1, <1>2, <1>3, Invariance, PTL DEF Spec
-----------------------------------------------------------------------------
(***************************************************************************)
(* What happens while nothing is imported: every agent reads the rows that *)
(* the database holds now, so that the verifier has the board's context    *)
(* and can only agree with the decision that was made of it.               *)
(***************************************************************************)
Asked == {"order", "items", "sellers", "payments", "aggregates", "reviewed"}
Answers == {Answer(query) : query \in Asked}

RowsCurrent ==
    \A n \in Readers :
        /\ rows[n] \in Seq(Answers) /\ Len(rows[n]) <= Len(Queries[n])
        /\ \A k \in 1..Len(rows[n]) : rows[n][k] = Answer(Queries[n][k])

ReportsCurrent ==
    /\ order_seller_report # None =>
           order_seller_report.order = db.order /\ order_seller_report.items = db.items
    /\ payment_report # None =>
           /\ payment_report.payments = db.payments
           /\ payment_report.fin = Financials(db.items, db.payments)

BoardCurrent ==
    evidence_board # None =>
        /\ evidence_board.order = db.order /\ evidence_board.items = db.items
        /\ evidence_board.payments = db.payments
        /\ evidence_board.fin = Financials(db.items, db.payments)

Unrepaired ==
    repair_count = 0 /\ ~case_failed /\ {"repair_router", "case_failed"} \cap running = {}

Stable == imports = 0 => RowsCurrent /\ ReportsCurrent /\ BoardCurrent /\ Unrepaired

\* What each agent asks for.
LEMMA QueriesAsked ==
    /\ \A n \in Readers : Len(Queries[n]) \in 3..5
    /\ \A n \in Readers : \A k \in 1..Len(Queries[n]) : Queries[n][k] \in Asked
    /\ Queries["order_seller_agent"] = <<"order", "items", "sellers">>
    /\ Queries["payment_agent"] = <<"payments", "aggregates", "items", "payments">>
    /\ Queries["delivery_agent"] = <<"order", "items", "reviewed">>
    /\ Queries["verifier_agent"] = <<"order", "items", "payments", "items", "payments">>
<1>1. /\ Queries["order_seller_agent"] = <<"order", "items", "sellers">>
      /\ Queries["payment_agent"] = <<"payments", "aggregates", "items", "payments">>
      /\ Queries["delivery_agent"] = <<"order", "items", "reviewed">>
      /\ Queries["verifier_agent"] = <<"order", "items", "payments", "items", "payments">>
  BY DEF Queries
<1>2. Readers = {"order_seller_agent", "payment_agent", "delivery_agent", "verifier_agent"}
  BY DEF Readers, Specialists
<1>3. /\ Len(Queries["order_seller_agent"]) = 3 /\ Len(Queries["payment_agent"]) = 4
      /\ Len(Queries["delivery_agent"]) = 3 /\ Len(Queries["verifier_agent"]) = 5
  BY <1>1
<1>4. ASSUME NEW n \in Readers, NEW k \in 1..Len(Queries[n])
      PROVE  Queries[n][k] \in Asked
  <2>1. CASE n = "order_seller_agent"
    <3>0. Len(Queries[n]) = 3
      BY <1>3, <2>1
    <3>1. k \in {1, 2, 3}
      BY <3>0
    <3> QED BY <1>1, <2>1, <3>1 DEF Asked
  <2>2. CASE n = "payment_agent"
    <3>0. Len(Queries[n]) = 4
      BY <1>3, <2>2
    <3>1. k \in {1, 2, 3, 4}
      BY <3>0
    <3> QED BY <1>1, <2>2, <3>1 DEF Asked
  <2>3. CASE n = "delivery_agent"
    <3>0. Len(Queries[n]) = 3
      BY <1>3, <2>3
    <3>1. k \in {1, 2, 3}
      BY <3>0
    <3> QED BY <1>1, <2>3, <3>1 DEF Asked
  <2>4. CASE n = "verifier_agent"
    <3>0. Len(Queries[n]) = 5
      BY <1>3, <2>4
    <3>1. k \in {1, 2, 3, 4, 5}
      BY <3>0
    <3> QED BY <1>1, <2>4, <3>1 DEF Asked
  <2> QED BY <1>2, <2>1, <2>2, <2>3, <2>4
<1>5. \A n \in Readers : Len(Queries[n]) \in 3..5
  BY <1>2, <1>3
<1> QED BY <1>1, <1>4, <1>5

\* Rounding is idempotent and makes no amount negative.
LEMMA MoneyOfNat ==
    ASSUME NEW v \in Nat PROVE Money(v) \in Nat /\ Money(Money(v)) = Money(v)
<1> DEFINE w == (v + 5) \div 10
<1>1. w \in Nat /\ Money(v) = w * 10
  BY DEF Money
<1> HIDE DEF w
<1>2. Money(w * 10) = w * 10
  BY <1>1 DEF Money
<1> QED BY <1>1, <1>2

\* A verifier that reads the rows of the board agrees with the engine's decision on it.
LEMMA OneReadingPasses ==
    ASSUME NEW board, NEW ctx, NEW items, NEW payments, NEW rc, NEW missing, NEW warnings,
           board.items = items, board.payments = payments,
           board.fin = Financials(items, payments), ctx.fin = board.fin,
           Classify(ctx) # NoMatch,
           ColumnSum("price", items) \in Nat, ColumnSum("freight", items) \in Nat,
           ColumnSum("value", payments) \in Nat
    PROVE  LET decision == Evaluate(ctx, rc, missing, warnings)
           IN  Verify(board, decision, decision, ctx, items, payments) = Passed
<1> DEFINE decision == Evaluate(ctx, rc, missing, warnings)
           out == BuildFinalOutput(board, decision)
           fin == board.fin
<1>1. /\ fin.item_total = Money(ColumnSum("price", items))
      /\ fin.freight_total = Money(ColumnSum("freight", items))
      /\ fin.payment_total = Money(ColumnSum("value", payments))
  BY DEF Financials
<1>2. /\ fin.item_total \in Nat /\ fin.freight_total \in Nat /\ fin.payment_total \in Nat
      /\ Money(fin.freight_total) = fin.freight_total
      /\ Money(fin.payment_total) = fin.payment_total
  BY <1>1, MoneyOfNat
<1>3. /\ decision.refund = BasisAmount(decision.issue, fin)
      /\ decision.status = IF decision.refund > 0 THEN "action_required" ELSE "no_action"
  BY DEF Evaluate
<1>4. decision.refund \in {0, fin.freight_total, fin.payment_total}
  <2> HIDE DEF decision, fin
  <2> QED BY <1>2, <1>3 DEF BasisAmount
<1>5. decision.refund \in Nat /\ Money(decision.refund) = decision.refund
  <2>1. Money(0) = 0
    BY DEF Money
  <2> HIDE DEF decision, fin
  <2> QED BY <1>2, <1>4, <2>1
<1>6. PolicyAgrees(decision, decision)
  BY DEF PolicyAgrees
<1>7. TotalsAgree(board.fin, ctx.fin)
  BY DEF TotalsAgree
<1>8. decision.issue \in Issues
  <2>1. decision.issue = Classify(ctx)
    BY DEF Evaluate
  <2> QED BY <2>1, IssueFound DEF Issues, Rules
<1>9. RefundAgrees(decision, ctx.fin)
  <2> HIDE DEF decision
  <2> QED BY <1>3, <1>5, <1>8, ExpectedRefundIsBasis DEF RefundAgrees
<1>10. SchemaValid(out)
  <2>1. /\ out.status = decision.status /\ out.refund = decision.refund
        /\ out.item_total = fin.item_total /\ out.freight_total = fin.freight_total
        /\ out.payment_total = fin.payment_total
    BY DEF BuildFinalOutput
  <2> HIDE DEF decision, out, fin
  <2> QED BY <1>2, <1>3, <1>5, <2>1 DEF SchemaValid
<1>11. ReferencesValid(out, items, payments)
  <2>1. /\ out.item_ids = Smallest({r.id : r \in items}, EntityLimit)
        /\ out.seller_ids = Smallest({r.seller : r \in items}, EntityLimit)
        /\ out.payment_ids = Smallest({r.seq : r \in payments}, EntityLimit)
    BY DEF BuildFinalOutput
  <2> HIDE DEF decision, out
  <2> QED BY <2>1 DEF ReferencesValid, Smallest
<1> HIDE DEF decision, fin
<1>12. Verify(board, decision, decision, ctx, items, payments) = Passed
  BY <1>6, <1>7, <1>8, <1>9, <1>10, <1>11, VerifyValue
<1> QED BY <1>12 DEF decision

\* While nothing was imported the verifier passes the board.
LEMMA VerifierPasses ==
    ASSUME IInv, Stable, imports = 0, Verifier
    PROVE  Finish("verifier_agent", {"build_output"})
<1>1. /\ rows["verifier_agent"][1] = db.order /\ rows["verifier_agent"][2] = db.items
      /\ rows["verifier_agent"][3] = db.payments /\ rows["verifier_agent"][4] = db.items
      /\ rows["verifier_agent"][5] = db.payments
  <2>1. "verifier_agent" \in Readers /\ Len(rows["verifier_agent"]) = 5
    BY QueriesAsked DEF Verifier, HasRead, Readers
  <2>2. \A k \in 1..5 : rows["verifier_agent"][k] = Answer(Queries["verifier_agent"][k])
    BY <2>1 DEF Stable, RowsCurrent
  <2> QED BY <2>2, QueriesAsked DEF Answer
<1>2. /\ evidence_board # None
      /\ evidence_board.order = db.order /\ evidence_board.items = db.items
      /\ evidence_board.payments = db.payments
      /\ evidence_board.fin = Financials(db.items, db.payments)
  BY DEF Verifier, IInv, Boarded, Stable, BoardCurrent
<1>3. VerifierContext = BoardContext(evidence_board)
  BY <1>1, <1>2 DEF VerifierContext, BoardContext, Context
<1>4. policy_decision = Evaluate(BoardContext(evidence_board), repair_count,
                                 evidence_board.review_missing, evidence_board.conflict)
  BY DEF Verifier, IInv, Decided, Deciding
<1>5. BoardContext(evidence_board).fin = evidence_board.fin
  BY DEF BoardContext, Context
<1>6. /\ ColumnSum("price", db.items) \in Nat /\ ColumnSum("freight", db.items) \in Nat
      /\ ColumnSum("value", db.payments) \in Nat
  BY TotalsAssumption DEF IInv, TypeInv, TypeOK
<1>7. Verify(evidence_board, policy_decision, policy_decision, BoardContext(evidence_board),
             db.items, db.payments) = Passed
  <2>1. Classify(VerifierContext) # NoMatch
    <3>1. Len(rows["verifier_agent"]) = 5
      BY QueriesAsked DEF Verifier, HasRead, Readers
    <3> QED BY <3>1 DEF Verifier, Unreadable
  <2> QED BY <1>2, <1>3, <1>4, <1>5, <1>6, <2>1, OneReadingPasses
<1>8. PICK result :
          /\ result = Verify(evidence_board, policy_decision,
                             Evaluate(VerifierContext, repair_count,
                                      evidence_board.review_missing, evidence_board.conflict),
                             VerifierContext,
                             rows["verifier_agent"][4], rows["verifier_agent"][5])
          /\ Finish("verifier_agent", {RouteVerification(result)})
  BY DEF Verifier
<1>9. result = Passed
  BY <1>1, <1>3, <1>4, <1>7, <1>8
<1> QED BY <1>8, <1>9 DEF RouteVerification

\* The next answer of the database joins those a reader has.
LEMMA QueryKeepsRows ==
    ASSUME TypeOK, RowsCurrent, NEW n \in Readers, Query(n)
    PROVE  RowsCurrent'
<1>1. /\ Len(rows[n]) < Len(Queries[n]) /\ Len(Queries[n]) \in Nat /\ Len(rows[n]) \in Nat
      /\ rows' = [rows EXCEPT ![n] = Append(@, Answer(Queries[n][Len(rows[n]) + 1]))]
      /\ db' = db /\ DOMAIN rows = Readers
  <2>1. Len(rows[n]) # Len(Queries[n])
    BY DEF Query, HasRead
  <2>2. rows[n] \in Seq(Answers) /\ Len(rows[n]) <= Len(Queries[n])
    BY DEF RowsCurrent
  <2>3. Len(Queries[n]) \in Nat /\ Len(rows[n]) \in Nat
    BY <2>2, QueriesAsked
  <2> QED BY <2>1, <2>2, <2>3 DEF Query, TypeOK, database
<1>2. Answers' = Answers /\ \A q : Answer(q)' = Answer(q)
  BY <1>1 DEF Answers, Answer
<1> DEFINE next == Len(rows[n]) + 1
           answer == Answer(Queries[n][next])
<1>3. answer \in Answers
  <2>1. next \in 1..Len(Queries[n])
    BY <1>1
  <2> QED BY <2>1, QueriesAsked DEF Answers
<1> HIDE DEF answer
<1>4. rows[n] \in Seq(Answers) /\ \A k \in 1..Len(rows[n]) : rows[n][k] = Answer(Queries[n][k])
  BY DEF RowsCurrent
<1>5. /\ Append(rows[n], answer) \in Seq(Answers)
      /\ Len(Append(rows[n], answer)) = next
      /\ \A k \in 1..Len(rows[n]) : Append(rows[n], answer)[k] = rows[n][k]
      /\ Append(rows[n], answer)[next] = answer
  BY <1>3, <1>4, AppendProperties
<1>6. ASSUME NEW k \in 1..next
      PROVE  Append(rows[n], answer)[k] = Answer(Queries[n][k])
  <2>1. CASE k = next
    BY <1>5, <2>1 DEF answer
  <2>2. CASE k # next
    <3>1. k \in 1..Len(rows[n])
      BY <1>1, <2>2
    <3> QED BY <1>4, <1>5, <3>1
  <2> QED BY <2>1, <2>2
<1>7. rows' = [rows EXCEPT ![n] = Append(rows[n], answer)]
  BY <1>1 DEF answer
<1>8. ASSUME NEW m \in Readers
      PROVE  /\ rows'[m] \in Seq(Answers) /\ Len(rows'[m]) <= Len(Queries[m])
             /\ \A k \in 1..Len(rows'[m]) : rows'[m][k] = Answer(Queries[m][k])
  <2>1. CASE m = n
    <3>1. rows'[m] = Append(rows[n], answer)
      BY <1>1, <1>7, <2>1
    <3> QED BY <1>1, <1>5, <1>6, <2>1, <3>1
  <2>2. CASE m # n
    BY <1>1, <1>7, <2>2 DEF RowsCurrent
  <2> QED BY <2>1, <2>2
<1> QED BY <1>2, <1>8 DEF RowsCurrent

\* A reader that ends has its rows still to read.
LEMMA ForgetKeepsRows ==
    ASSUME TypeOK, RowsCurrent, NEW n \in Readers, Forget(n), UNCHANGED db
    PROVE  RowsCurrent'
<1>1. Answers' = Answers /\ \A q : Answer(q)' = Answer(q)
  BY DEF Answers, Answer
<1>2. ASSUME NEW m \in Readers
      PROVE  /\ rows'[m] \in Seq(Answers) /\ Len(rows'[m]) <= Len(Queries[m])
             /\ \A k \in 1..Len(rows'[m]) : rows'[m][k] = Answer(Queries[m][k])
  <2>1. CASE m = n
    <3>1. rows'[m] = <<>>
      BY <2>1 DEF Forget, TypeOK
    <3> QED BY <3>1, QueriesAsked
  <2>2. CASE m # n
    BY <2>2 DEF Forget, TypeOK, RowsCurrent
  <2> QED BY <2>1, <2>2
<1> QED BY <1>1, <1>2 DEF RowsCurrent

\* No step but an import makes an agent's rows, a report or the board differ from the
\* database, and so none leads to a repair.
LEMMA StableStep ==
    ASSUME IInv, IInv', Stable, [Next]_vars
    PROVE  Stable'
<1> SUFFICES ASSUME imports' = 0
             PROVE  (RowsCurrent /\ ReportsCurrent /\ BoardCurrent /\ Unrepaired)'
  BY DEF Stable
<1>0. GraphOK /\ TypeOK /\ imports \in Nat
  BY TypeParts, ImportAssumption DEF IInv, TypeInv, TypeOK
<1> USE DEF database, channels, reports
<1>1. ASSUME Import PROVE FALSE
  BY <1>0, <1>1 DEF Import
<1>2. UNCHANGED database
  BY <1>1 DEF Next, Step, Reject, Break, Ended, vars, Abort, ValidateCase, CoordinatorTriage,
         Query, OrderSeller, Payment, Delivery, MergeEvidenceBoard, Policy, Verifier,
         RepairRouter, BuildOutput, ReplaceFile, WriteOutput, CaseFailed
<1>3. imports = 0 /\ db' = db /\ RowsCurrent /\ ReportsCurrent /\ BoardCurrent /\ Unrepaired
  BY <1>2 DEF Stable
<1>4. UNCHANGED rows => RowsCurrent'
  <2>1. Answers' = Answers /\ \A q : Answer(q)' = Answer(q)
    BY <1>3 DEF Answers, Answer
  <2> QED BY <1>3, <2>1 DEF RowsCurrent
<1>5. UNCHANGED reports => ReportsCurrent'
  BY <1>3 DEF ReportsCurrent
<1>6. UNCHANGED evidence_board => BoardCurrent'
  BY <1>3 DEF BoardCurrent
<1>7. ASSUME UNCHANGED <<repair_count, case_failed>>,
             running' \cap {"repair_router", "case_failed"} = {}
      PROVE  Unrepaired'
  BY <1>3, <1>7 DEF Unrepaired
<1>8. CASE ValidateCase \/ CoordinatorTriage \/ BuildOutput \/ WriteOutput
  <2>1. running' \in {{"coordinator_triage"}, Specialists, {"write_output"}, {}}
    BY <1>0, <1>8, OtherEnds, NodeKinds
       DEF ValidateCase, CoordinatorTriage, BuildOutput, WriteOutput
  <2>2. UNCHANGED <<rows, reports, evidence_board, repair_count, case_failed>>
    BY <1>8 DEF ValidateCase, CoordinatorTriage, BuildOutput, WriteOutput
  <2> QED BY <1>4, <1>5, <1>6, <1>7, <2>1, <2>2, NodeKinds
<1>9. ASSUME NEW n \in Readers, Query(n)
      PROVE  (RowsCurrent /\ ReportsCurrent /\ BoardCurrent /\ Unrepaired)'
  BY <1>0, <1>3, <1>5, <1>6, <1>9, QueryKeepsRows DEF Query, graph, Unrepaired
<1>10. CASE OrderSeller \/ Payment \/ Delivery
  <2>1. PICK n \in Specialists : Finish(n, {}) /\ Forget(n)
    BY <1>10, NodeKinds DEF OrderSeller, Payment, Delivery
  <2>2. RowsCurrent'
    BY <1>0, <1>3, <2>1, ForgetKeepsRows, NodeFacts
  <2>3. BoardCurrent' /\ Unrepaired'
    <3>1. /\ UNCHANGED <<evidence_board, repair_count, case_failed>>
          /\ running' \subseteq running \cup {"merge_evidence_board"}
      BY <1>0, <1>10, <2>1, SpecialistEnds DEF OrderSeller, Payment, Delivery
    <3> QED BY <1>3, <1>6, <3>1 DEF Unrepaired
  <2>4. ReportsCurrent'
    <3>1. CASE OrderSeller
      <4>1. rows["order_seller_agent"][1] = db.order /\ rows["order_seller_agent"][2] = db.items
        <5>1. "order_seller_agent" \in Readers /\ Len(rows["order_seller_agent"]) = 3
          BY <3>1, QueriesAsked DEF OrderSeller, HasRead, Readers, Specialists
        <5>2. \A k \in 1..3 : rows["order_seller_agent"][k] =
                                  Answer(Queries["order_seller_agent"][k])
          BY <1>3, <5>1 DEF RowsCurrent
        <5> QED BY <5>2, QueriesAsked DEF Answer
      <4> QED BY <1>3, <3>1, <4>1 DEF OrderSeller, ReportsCurrent
    <3>2. CASE Payment
      <4>1. /\ rows["payment_agent"][1] = db.payments /\ rows["payment_agent"][3] = db.items
            /\ rows["payment_agent"][4] = db.payments
        <5>1. "payment_agent" \in Readers /\ Len(rows["payment_agent"]) = 4
          BY <3>2, QueriesAsked DEF Payment, HasRead, Readers, Specialists
        <5>2. \A k \in 1..4 : rows["payment_agent"][k] = Answer(Queries["payment_agent"][k])
          BY <1>3, <5>1 DEF RowsCurrent
        <5> QED BY <5>2, QueriesAsked DEF Answer
      <4> QED BY <1>3, <3>2, <4>1 DEF Payment, ReportsCurrent
    <3>3. CASE Delivery
      BY <1>3, <3>3 DEF Delivery, ReportsCurrent
    <3> QED BY <1>10, <3>1, <3>2, <3>3
  <2> QED BY <2>2, <2>3, <2>4
<1>11. CASE MergeEvidenceBoard
  <2>1. /\ running' = {"policy_agent"}
        /\ UNCHANGED <<rows, reports, repair_count, case_failed>>
    BY <1>0, <1>11, OtherEnds, NodeKinds DEF MergeEvidenceBoard
  <2>2. /\ order_seller_report # None /\ payment_report # None
        /\ evidence_board'.order = order_seller_report.order
        /\ evidence_board'.items = order_seller_report.items
        /\ evidence_board'.payments = payment_report.payments
        /\ evidence_board'.fin = payment_report.fin
    BY <1>11 DEF MergeEvidenceBoard, Incomplete
  <2>3. BoardCurrent'
    BY <1>3, <2>2 DEF ReportsCurrent, BoardCurrent
  <2> QED BY <1>4, <1>5, <1>7, <2>1, <2>3
<1>12. ASSUME NEW differs \in BOOLEAN, Policy(differs)
       PROVE  (RowsCurrent /\ ReportsCurrent /\ BoardCurrent /\ Unrepaired)'
  <2>1. /\ running' = {"verifier_agent"}
        /\ UNCHANGED <<rows, reports, repair_count, case_failed>>
    BY <1>0, <1>12, OtherEnds, NodeKinds DEF Policy
  <2>2. evidence_board # None /\ BoardShape
    BY <1>12 DEF Policy, Incomplete, IInv, Boarded
  <2>3. /\ evidence_board'.order = evidence_board.order
        /\ evidence_board'.items = evidence_board.items
        /\ evidence_board'.payments = evidence_board.payments
        /\ evidence_board'.fin = evidence_board.fin
    BY <1>12, <2>2 DEF Policy, BoardShape
  <2>4. BoardCurrent'
    BY <1>3, <2>2, <2>3 DEF BoardCurrent
  <2> QED BY <1>4, <1>5, <1>7, <2>1, <2>4
<1>13. CASE Verifier
  <2>1. Finish("verifier_agent", {"build_output"})
    BY <1>3, <1>13, VerifierPasses
  <2>2. running' = {"build_output"}
    BY <1>0, <2>1, OtherEnds, NodeKinds
  <2>3. Forget("verifier_agent") /\ UNCHANGED <<reports, evidence_board, repair_count, case_failed>>
    BY <1>13 DEF Verifier
  <2>4. RowsCurrent'
    BY <1>0, <1>3, <2>3, ForgetKeepsRows DEF Readers
  <2> QED BY <1>5, <1>6, <1>7, <2>2, <2>3, <2>4
<1>14. ASSUME RepairRouter \/ CaseFailed PROVE FALSE
  BY <1>3, <1>14 DEF RepairRouter, CaseFailed, Finish, Unrepaired
<1>15. CASE ReplaceFile \/ UNCHANGED vars
  <2>1. UNCHANGED <<running, rows, reports, evidence_board, repair_count, case_failed>>
    BY <1>15 DEF ReplaceFile, vars, graph
  <2> QED BY <1>3, <1>4, <1>5, <1>6, <2>1 DEF Unrepaired
<1>16. ASSUME NEW n \in running, Abort(n)
       PROVE  (RowsCurrent /\ ReportsCurrent /\ BoardCurrent /\ Unrepaired)'
  BY <1>4, <1>5, <1>6, <1>7, <1>16 DEF Abort
<1> QED
  BY <1>1, <1>8, <1>9, <1>10, <1>11, <1>12, <1>13, <1>14, <1>15, <1>16
     DEF Next, Step, Reject, Break, Ended

\* A case is repaired or fails only because the database changed under it, whatever the
\* database holds and in whatever order the agents read it (graph.py:165-219).
THEOREM NeverRepairedWhenStable == Spec => []StableNeverRepaired
<1>1. Init => Stable
  <2> SUFFICES ASSUME Init PROVE RowsCurrent /\ ReportsCurrent /\ BoardCurrent /\ Unrepaired
    BY DEF Stable
  <2>1. RowsCurrent
    <3> SUFFICES ASSUME NEW n \in Readers
                 PROVE  /\ rows[n] \in Seq(Answers) /\ Len(rows[n]) <= Len(Queries[n])
                        /\ \A k \in 1..Len(rows[n]) : rows[n][k] = Answer(Queries[n][k])
      BY DEF RowsCurrent
    <3>1. rows[n] = <<>>
      BY DEF Init
    <3> QED BY <3>1, QueriesAsked
  <2>2. ReportsCurrent /\ BoardCurrent /\ Unrepaired
    BY DEF Init, ReportsCurrent, BoardCurrent, Unrepaired
  <2> QED BY <2>1, <2>2
<1>2. IInv /\ IInv' /\ Stable /\ [Next]_vars => Stable'
  BY StableStep
<1>3. Stable => StableNeverRepaired
  BY DEF Stable, Unrepaired, StableNeverRepaired
<1> QED BY <1>1, <1>2, <1>3, Invariance, PTL DEF Spec
-----------------------------------------------------------------------------
\* The state of CasePromise as CaseWorkflow computes it.
CaseNow == [outcome |-> outcome, file |-> output_file # None, reported |-> case_failed]

\* What the callers of the graph may see of a step of a running case.
Seen ==
    /\ outcome = "running"
    /\ \/ UNCHANGED <<output_file, case_failed>> /\ outcome' \in {"running", "returned", "raised"}
       \/ output_file = None /\ output_file' # None /\ UNCHANGED <<outcome, case_failed>>
       \/ output_file = None /\ output_file' = None /\ outcome' = "returned" /\ case_failed' = TRUE

\* Each of these is a step of CasePromise or none at all.
LEMMA SeenIsPromised == ASSUME Seen PROVE [Promise!Next]_CaseNow
<1> DEFINE s == CaseNow
<1>1. s.outcome = "running"
  BY DEF Seen, CaseNow
<1>2. s.file = (output_file # None)
  BY DEF CaseNow
<1>3. ASSUME \/ CaseNow' \in Promise!Returned(s)
             \/ CaseNow' \in Promise!Raised(s)
             \/ CaseNow' \in Promise!Written(s)
             \/ CaseNow' \in Promise!Reported(s)
      PROVE  Promise!Next
  <2>1. CaseNow' \in Promise!Successors(s)
    <3> HIDE DEF s
    <3> QED BY <1>1, <1>3 DEF Promise!Successors
  <2> QED BY <2>1 DEF Promise!Next, CaseNow
<1>4. CASE UNCHANGED <<output_file, case_failed>> /\ outcome' = "running"
  BY <1>4 DEF Seen, CaseNow
<1>5. CASE UNCHANGED <<output_file, case_failed>> /\ outcome' = "returned"
  <2>1. CaseNow' \in Promise!Returned(s)
    BY <1>5 DEF CaseNow, Promise!Returned, Promise!State
  <2> QED BY <1>3, <2>1
<1>6. CASE UNCHANGED <<output_file, case_failed>> /\ outcome' = "raised"
  <2>1. CaseNow' \in Promise!Raised(s)
    BY <1>6 DEF CaseNow, Promise!Raised, Promise!State
  <2> QED BY <1>3, <2>1
<1>7. CASE output_file = None /\ output_file' # None /\ UNCHANGED <<outcome, case_failed>>
  <2>0. s.file = FALSE /\ (output_file' # None) = TRUE
    BY <1>2, <1>7
  <2>1. CaseNow' = Promise!State(s.outcome, TRUE, s.reported)
    BY <2>0, <1>7 DEF CaseNow, Promise!State
  <2>2. CaseNow' \in Promise!Written(s)
    BY <2>0, <2>1 DEF Promise!Written
  <2> QED BY <1>3, <2>2
<1>8. CASE output_file = None /\ output_file' = None /\ outcome' = "returned" /\ case_failed' = TRUE
  <2>0. s.file = FALSE /\ (output_file' # None) = (output_file # None)
    BY <1>2, <1>8
  <2>1. CaseNow' = Promise!State("returned", s.file, TRUE)
    BY <2>0, <1>8 DEF CaseNow, Promise!State
  <2>2. CaseNow' \in Promise!Reported(s)
    BY <2>0, <2>1 DEF Promise!Reported
  <2> QED BY <1>3, <2>2
<1> QED BY <1>4, <1>5, <1>6, <1>7, <1>8 DEF Seen

\* A node ends while the graph runs, which may return then and does not raise.
LEMMA FinishSeen ==
    ASSUME GraphOK, NEW n, NEW targets, Finish(n, targets),
           UNCHANGED <<output_file, case_failed>>
    PROVE  Seen
BY DEF GraphOK, Finish, Seen

\* Each step of a case is seen as one of these, or not at all.
LEMMA StepSeen ==
    ASSUME IInv, IInv', [Next]_vars
    PROVE  Seen \/ UNCHANGED <<outcome, output_file, case_failed>>
<1>0. GraphOK
  BY TypeParts DEF IInv, TypeInv
<1>1. CASE ValidateCase \/ CoordinatorTriage \/ RepairRouter \/ WriteOutput
  BY <1>0, <1>1, FinishSeen DEF ValidateCase, CoordinatorTriage, RepairRouter, WriteOutput
<1>2. CASE OrderSeller \/ Payment \/ Delivery
  BY <1>0, <1>2, FinishSeen DEF OrderSeller, Payment, Delivery
<1>3. CASE MergeEvidenceBoard \/ BuildOutput \/ \E differs \in BOOLEAN : Policy(differs)
  BY <1>0, <1>3, FinishSeen DEF MergeEvidenceBoard, BuildOutput, Policy
<1>4. CASE Verifier
  <2>1. UNCHANGED <<output_file, case_failed>>
        /\ \E target : Finish("verifier_agent", {RouteVerification(target)})
    BY <1>4 DEF Verifier
  <2> QED BY <1>0, <2>1, FinishSeen
<1>5. CASE ReplaceFile
  <2>1. output_file = None /\ output_file' = final_output /\ UNCHANGED <<outcome, case_failed>>
        /\ "write_output" \in running
    BY <1>5 DEF ReplaceFile, graph
  <2>2. output_file' # None
    BY <2>1, NotNone DEF IInv, Built
  <2> QED BY <1>0, <2>1, <2>2 DEF Seen, GraphOK
<1>6. CASE CaseFailed
  <2>1. running = {"case_failed"} /\ running' = {}
    BY <1>0, <1>6, OtherEnds, NodeKinds DEF CaseFailed
  <2>2. output_file = None /\ output_file' = None /\ case_failed' = TRUE
    BY <1>6, <2>1, NoFileYet DEF CaseFailed
  <2>3. outcome = "running" /\ outcome' = "returned"
    BY <1>0, <1>6, <2>1 DEF CaseFailed, Finish, GraphOK
  <2> QED BY <2>2, <2>3 DEF Seen
<1>7. ASSUME NEW n \in running, Abort(n)
      PROVE  Seen
  BY <1>0, <1>7 DEF Abort, Seen, GraphOK
<1>8. CASE (\E n \in Readers : Query(n)) \/ Import \/ UNCHANGED vars
  BY <1>8 DEF Query, Import, vars, graph
<1> QED
  BY <1>1, <1>2, <1>3, <1>4, <1>5, <1>6, <1>7, <1>8 DEF Next, Step, Reject, Break, Ended

\* The compiled graph does to its callers what CasePromise says, for all databases,
\* limits and imports (graph.py:221-250, as batch_runner.py and api/main.py use it).
THEOREM Implements == Spec => KeepsPromise
<1>1. Init => Promise!Init
  BY DEF Init, Promise!Init, Promise!Running, Promise!State
<1>2. IInv /\ IInv' /\ [Next]_vars => [Promise!Next]_CaseNow
  BY StepSeen, SeenIsPromised DEF CaseNow
<1> QED BY <1>1, <1>2, Invariance, PTL DEF Spec, KeepsPromise, Promise!Spec, CaseNow
=============================================================================
