---------------------------- MODULE CasePromise ----------------------------
(***************************************************************************)
(* What graph.ainvoke promises to its callers about one case: it returns   *)
(* or raises; the file is written at most once and before it returns; a    *)
(* case_failed event is emitted only by a case that returns without a      *)
(* file.  It does not promise that a case without a file is reported.      *)
(***************************************************************************)
VARIABLE case \* outcome: "running", "returned" or "raised"; file and reported

State(outcome, file, reported) == [outcome |-> outcome, file |-> file, reported |-> reported]

Running     == State("running", FALSE, FALSE)
Written(s)  == IF s.file THEN {} ELSE {State(s.outcome, TRUE, s.reported)}
Returned(s) == {State("returned", s.file, s.reported)}
Reported(s) == IF s.file THEN {} ELSE {State("returned", s.file, TRUE)}
Raised(s)   == {State("raised", s.file, s.reported)}

\* The states one step of the invocation may lead to.
Successors(s) ==
    IF s.outcome = "running" THEN Written(s) \cup Returned(s) \cup Reported(s) \cup Raised(s)
    ELSE {}

Init == case = Running
Next == case' \in Successors(case)
Spec == Init /\ [][Next]_case
=============================================================================
