----------------------------- MODULE BatchRunner -----------------------------
(***************************************************************************)
(* src/src/batch_runner.py: one run of the command over its input cases.   *)
(* The cases run as tasks behind a semaphore; what the graph does with a   *)
(* case is what CasePromise allows.  An exception that leaves run_case     *)
(* leaves asyncio.gather too, and the other tasks are cancelled when the   *)
(* event loop ends, a little later.                                        *)
(***************************************************************************)
EXTENDS Integers, FiniteSets

CONSTANTS
    Cases,
    Limit,     \* max_concurrent_cases
    Undefined  \* no report yet

ASSUME BatchAssumption == IsFiniteSet(Cases) /\ Cases # {} /\ Limit \in Nat \ {0}

VARIABLES
    options,  \* the flags overwrite and validate_only
    stray,    \* the output directory holds a JSON file of no input case
    file,     \* EC_nnn.json: "none", "old" (of an earlier run) or "new"
    trace,    \* the <<event, case>> of the trace file
    pc,       \* what run_batch does next
    job,      \* what the task of each case does next, or its result
    graph,    \* the graph's invocation for each case
    report,   \* the counts of run_completed
    metadata, \* the counts in the metadata file, if this run wrote it
    exit      \* "none", "0", "1" or "raised"

directory == <<options, stray, file>>
cases == <<job, graph>>
results == <<report, metadata, exit>>
vars == <<directory, trace, pc, cases, results>>

Graph(c) == INSTANCE CasePromise WITH case <- graph[c]

Done == {"succeeded", "failed"}
Active == {c \in Cases : job[c] \in {"invoked", "completing", "failing"}}
-----------------------------------------------------------------------------
Init ==
    /\ options \in [overwrite : BOOLEAN, validate_only : BOOLEAN]
    /\ stray \in BOOLEAN /\ file \in [Cases -> {"none", "old"}]
    /\ trace = {<<"case_completed", c>> : c \in {d \in Cases : file[d] = "old"}}
    /\ pc = "preflight" /\ exit = "none" /\ report = Undefined /\ metadata = Undefined
    /\ job = [c \in Cases |-> "waiting"]
    /\ graph = [c \in Cases |-> [outcome |-> "running", file |-> FALSE, reported |-> FALSE]]

\* run_batch raises, or exits.
End(status) ==
    /\ pc' = "ended" /\ exit' = status
    /\ UNCHANGED <<directory, trace, cases, report, metadata>>

\* Inputs, model configuration and database are there.
Preflight ==
    /\ pc = "preflight"
    /\ IF options.validate_only THEN End("0")
       ELSE /\ pc' = "prepare"
            /\ UNCHANGED <<directory, trace, cases, results>>

Existing == {c \in Cases : file[c] # "none"}

\* Mutant of PrepareOutputs: the files of the earlier run stay to be overwritten.
PrepareNothing ==
    /\ pc = "prepare"
    /\ IF stray \/ (Existing # {} /\ ~options.overwrite) THEN End("raised")
       ELSE /\ pc' = "reset"
            /\ UNCHANGED <<directory, trace, cases, results>>

\* prepare_outputs: two refusals, then one unlink after the other.
PrepareOutputs ==
    /\ pc = "prepare"
    /\ IF stray \/ (Existing # {} /\ ~options.overwrite) THEN End("raised")
       ELSE /\ \/ Existing = {} /\ pc' = "reset" /\ UNCHANGED file
               \/ /\ \E c \in Existing : file' = [file EXCEPT ![c] = "none"]
                  /\ UNCHANGED pc
            /\ UNCHANGED <<options, stray, trace, cases, results>>

\* trace.reset, run_started and the second preflight.
ResetTrace ==
    /\ pc = "reset"
    /\ trace' = {} /\ pc' = "cases"
    /\ UNCHANGED <<directory, cases, results>>

\* Mutant of StartCase: no semaphore.
StartUnlimited(c) ==
    /\ pc \in {"cases", "raising"} /\ job[c] = "waiting"
    /\ job' = [job EXCEPT ![c] = "invoked"]
    /\ UNCHANGED <<directory, trace, pc, graph, results>>

\* run_case: a free slot, and case_started.
StartCase(c) ==
    /\ pc \in {"cases", "raising"} /\ job[c] = "waiting" /\ Cardinality(Active) < Limit
    /\ job' = [job EXCEPT ![c] = "invoked"]
    /\ UNCHANGED <<directory, trace, pc, graph, results>>

GraphStep(c) ==
    /\ pc \in {"cases", "raising"} /\ job[c] = "invoked"
    /\ \E next \in Graph(c)!Successors(graph[c]) :
           /\ graph' = [graph EXCEPT ![c] = next]
           /\ file' = [file EXCEPT ![c] = IF next.file THEN "new" ELSE @]
           /\ trace' = IF next.reported THEN trace \cup {<<"case_failed", c>>} ELSE trace
    /\ UNCHANGED <<options, stray, pc, job, results>>

\* Mutants of Return: a missing output path is not looked at; a failed case is run
\* again.
ReturnWithoutErrors(c) ==
    /\ pc \in {"cases", "raising"} /\ job[c] = "invoked" /\ graph[c].outcome # "running"
    /\ job' = [job EXCEPT ![c] =
           IF graph[c].outcome = "raised" THEN "failing"
           ELSE IF graph[c].reported THEN "failed" ELSE "completing"]
    /\ UNCHANGED <<directory, trace, pc, graph, results>>
ReturnAgain(c) ==
    /\ pc \in {"cases", "raising"} /\ job[c] = "invoked" /\ graph[c].outcome # "running"
    /\ job' = [job EXCEPT ![c] =
           IF graph[c].outcome = "raised" THEN "failing"
           ELSE IF graph[c].file THEN "completing" ELSE "waiting"]
    /\ graph' = [graph EXCEPT ![c] =
           IF job'[c] = "waiting" THEN [@ EXCEPT !.outcome = "running", !.reported = FALSE] ELSE @]
    /\ UNCHANGED <<directory, trace, pc, results>>

\* A case succeeded if it has an output path and no errors.
Return(c) ==
    /\ pc \in {"cases", "raising"} /\ job[c] = "invoked" /\ graph[c].outcome # "running"
    /\ job' = [job EXCEPT ![c] =
           IF graph[c].outcome = "raised" THEN "failing"
           ELSE IF graph[c].file /\ ~graph[c].reported THEN "completing"
           ELSE "failed"]
    /\ UNCHANGED <<directory, trace, pc, graph, results>>

\* The event of the case, and its result.
Emit(c) ==
    /\ pc \in {"cases", "raising"}
    /\ \/ /\ job[c] = "completing"
          /\ trace' = trace \cup {<<"case_completed", c>>}
          /\ job' = [job EXCEPT ![c] = "succeeded"]
       \/ /\ job[c] = "failing"
          /\ trace' = trace \cup {<<"case_failed", c>>}
          /\ job' = [job EXCEPT ![c] = "failed"]
    /\ UNCHANGED <<directory, pc, graph, results>>

\* The trace cannot be written.  In the try block that makes the case a failed one;
\* before it and in the handler the exception leaves gather.
EmitFails(c) ==
    /\ pc \in {"cases", "raising"}
    /\ \/ /\ job[c] = "completing"
          /\ job' = [job EXCEPT ![c] = "failing"] /\ UNCHANGED pc
       \/ /\ job[c] = "failing" \/ (job[c] = "waiting" /\ Cardinality(Active) < Limit)
          /\ job' = [job EXCEPT ![c] = "raised"] /\ pc' = "raising"
    /\ UNCHANGED <<directory, trace, graph, results>>

\* asyncio.run cancels what is left.
Cancel == pc = "raising" /\ End("raised")

Succeeded == Cardinality({c \in Cases : job[c] = "succeeded"})

\* failed_ids: the cases that failed and, if the files are not one per case, an
\* entry for that.
FailedIds ==
    {c \in Cases : job[c] = "failed"} \cup
    (IF stray \/ Existing # Cases THEN {"OUTPUT_SET_MISMATCH"} ELSE {})

\* gather has returned: run_completed.
Report ==
    /\ pc = "cases" /\ \A c \in Cases : job[c] \in Done
    /\ report' = [processed |-> Cardinality(Cases), succeeded |-> Succeeded,
                  failed |-> Cardinality(FailedIds)]
    /\ pc' = "metadata"
    /\ UNCHANGED <<directory, trace, cases, metadata, exit>>

WriteMetadata ==
    /\ pc = "metadata"
    /\ metadata' = report /\ pc' = "exit"
    /\ UNCHANGED <<directory, trace, cases, report, exit>>

\* Mutant of Exit: the directory decides.
ExitByFiles ==
    /\ pc = "exit"
    /\ End(IF Existing = Cases THEN "0" ELSE "1")

Exit ==
    /\ pc = "exit"
    /\ End(IF FailedIds = {} /\ Succeeded = Cardinality(Cases) THEN "0" ELSE "1")

\* Anything else that raises: database, disk, trace.
Break ==
    /\ pc \notin {"raising", "ended"}
    /\ pc = "cases" => \A c \in Cases : job[c] \in Done
    /\ End("raised")

Ended == pc = "ended" /\ UNCHANGED vars

CaseStep(c) == StartCase(c) \/ GraphStep(c) \/ Return(c) \/ Emit(c)

Step ==
    \/ Preflight \/ PrepareOutputs \/ ResetTrace
    \/ \E c \in Cases : CaseStep(c)
    \/ Cancel \/ Report \/ WriteMetadata \/ Exit

Next == Step \/ (\E c \in Cases : EmitFails(c)) \/ Break \/ Ended

Spec == Init /\ [][Next]_vars

\* The event loop runs every ready task, and a case ends (CaseWorkflow).
FairSpec == Spec /\ WF_vars(Step)
-----------------------------------------------------------------------------
Events == {"case_completed", "case_failed"}

\* The kinds of the variables; the semaphore admits no more than Limit cases.
TypeOK ==
    /\ file \in [Cases -> {"none", "old", "new"}]
    /\ trace \subseteq Events \X Cases
    /\ pc \in {"preflight", "prepare", "reset", "cases", "raising", "metadata", "exit", "ended"}
    /\ job \in [Cases -> {"waiting", "invoked", "completing", "failing", "succeeded",
                          "failed", "raised"}]
    /\ Cardinality(Active) <= Limit
    /\ exit \in {"none", "0", "1", "raised"}
    /\ metadata # Undefined => metadata = report

\* A file left by an earlier run is never among the outputs of this one, whichever
\* of its cases fail before they write.
NoStaleOutput ==
    pc \in {"reset", "cases", "raising", "metadata", "exit"} => \A c \in Cases : file[c] # "old"

Completed == {c \in Cases : <<"case_completed", c>> \in trace}
Failed == {c \in Cases : <<"case_failed", c>> \in trace}

\* The trace says of every case what became of it.  case_completed is emitted only for
\* a case with its file, and never for one that was or will be reported as failed by
\* the handler or by the graph; and when the run is reported, a case has one of the
\* two events unless its graph returned without saying anything (CaseWorkflow,
\* FailureTraced).
TraceHonest ==
    /\ pc \in {"cases", "raising", "metadata", "exit"} =>
           \A c \in Completed : file[c] = "new" /\ c \notin Failed /\ job[c] = "succeeded"
    /\ report # Undefined =>
           \A c \in Cases \ (Completed \cup Failed) :
               graph[c].outcome = "returned" /\ ~graph[c].file

\* Exit status 0 of a full run: every case has a new file and its case_completed
\* and metadata without failures are there; and the number of successes in the
\* metadata is that of the events.
ExitHonest ==
    /\ exit = "0" /\ ~options.validate_only =>
           /\ \A c \in Cases : file[c] = "new"
           /\ Completed = Cases /\ ~stray
           /\ metadata.succeeded = metadata.processed /\ metadata.failed = 0
    /\ metadata # Undefined => metadata.succeeded = Cardinality(Completed)

\* The run ends.
BatchEnds == <>(exit # "none")
=============================================================================
