------------------------------ MODULE DeskRuns ------------------------------
(***************************************************************************)
(* The investigations of the dispute desk (src/src/api/main.py): a row of  *)
(* the database for each, and a task in the server's memory that works on  *)
(* it and writes the result into the row.  The graph does what CasePromise *)
(* allows, under a timeout.  A server that is killed forgets its tasks; a  *)
(* new one does not look for them.                                         *)
(***************************************************************************)
EXTENDS Integers, FiniteSets

CONSTANTS
    Runs,
    MaxKills  \* bound: how often the server is killed

ASSUME KillsAssumption == MaxKills \in Nat

VARIABLES
    server,  \* "up", "stopping" or "down"
    row,     \* investigation_runs: status, final_output, error_message, timeline
    task,    \* what execute does next for the run; or how it came to an end
    graph,   \* the invocation of the graph for the run
    trace,   \* the events of the run's trace file
    kills

vars == <<server, row, task, graph, trace, kills>>

Graph(r) == INSTANCE CasePromise WITH case <- graph[r]

Live == {"posted", "scheduled", "invoked", "completing", "failing"}
Lives(r) == task[r] \in Live
-----------------------------------------------------------------------------
Row(status, output, error, timeline) ==
    [status |-> status, output |-> output, error |-> error, timeline |-> timeline]
NoRow == Row("none", FALSE, FALSE, {})

Init ==
    /\ server = "down" /\ kills = 0
    /\ row = [r \in Runs |-> NoRow] /\ trace = [r \in Runs |-> {}]
    /\ task = [r \in Runs |-> "none"]
    /\ graph = [r \in Runs |-> [outcome |-> "running", file |-> FALSE, reported |-> FALSE]]

Go(r, place) == task' = [task EXCEPT ![r] = place]

\* Mutant of Initialize: a new server fails the runs that have no output.
InitializeRecovering ==
    /\ server = "down" /\ server' = "up"
    /\ row' = [r \in Runs |->
           IF row[r].status # "none" /\ ~row[r].output THEN Row("failed", FALSE, TRUE, trace[r])
           ELSE row[r]]
    /\ UNCHANGED <<task, graph, trace, kills>>

\* A server starts: the tables are there; the rows in them are left as they are.
Initialize ==
    /\ server = "down" /\ server' = "up"
    /\ UNCHANGED <<row, task, graph, trace, kills>>

\* POST runs: the row is committed; the answer to the commit may be lost.
Post(r) ==
    /\ server = "up" /\ task[r] = "none"
    /\ row' = [row EXCEPT ![r] = Row("running", FALSE, FALSE, {})]
    /\ Go(r, "posted") \/ Go(r, "raised")
    /\ UNCHANGED <<server, graph, trace, kills>>

\* ... and then a task is created for it.
Schedule(r) ==
    /\ task[r] = "posted" /\ Go(r, "scheduled")
    /\ UNCHANGED <<server, row, graph, trace, kills>>

\* execute reads the case, checks the configuration and starts a trace.
Prepare(r) ==
    /\ task[r] = "scheduled" /\ Go(r, "invoked")
    /\ trace' = [trace EXCEPT ![r] = {"run_started"}]
    /\ UNCHANGED <<server, row, graph, kills>>

GraphStep(r) ==
    /\ task[r] = "invoked"
    /\ \E next \in Graph(r)!Successors(graph[r]) :
           /\ graph' = [graph EXCEPT ![r] = next]
           /\ trace' = [trace EXCEPT ![r] = IF next.reported THEN @ \cup {"case_failed"} ELSE @]
    /\ UNCHANGED <<server, row, task, kills>>

\* Mutant of Timeout: the graph goes on.
TimeoutIgnored(r) ==
    /\ task[r] = "invoked" /\ graph[r].outcome = "running"
    /\ UNCHANGED vars

\* wait_for cancels the graph after 180 s.
Timeout(r) ==
    /\ task[r] = "invoked" /\ graph[r].outcome = "running"
    /\ graph' = [graph EXCEPT ![r].outcome = "raised"]
    /\ Go(r, "failing")
    /\ UNCHANGED <<server, row, trace, kills>>

\* The graph is back: what it raised, or run_completed.
Return(r) ==
    /\ task[r] = "invoked" /\ graph[r].outcome # "running"
    /\ IF graph[r].outcome = "raised" THEN Go(r, "failing") /\ UNCHANGED trace
       ELSE Go(r, "completing") /\ trace' = [trace EXCEPT ![r] = @ \cup {"run_completed"}]
    /\ UNCHANGED <<server, row, graph, kills>>

\* Anything in the try block may raise.
Break(r) ==
    /\ task[r] \in {"scheduled", "invoked"}
    /\ task[r] = "invoked" => graph[r].outcome = "returned"
    /\ Go(r, "failing")
    /\ UNCHANGED <<server, row, graph, trace, kills>>

\* Mutant of Result: a case is good that has not failed.
ResultUnlessReported(r) ==
    IF task[r] = "completing"
    THEN Row(IF graph[r].reported THEN "failed" ELSE "completed",
             graph[r].file, graph[r].reported, trace[r])
    ELSE Row("failed", FALSE, TRUE, trace[r])

\* What complete writes: the state of the graph, or what was raised.
Result(r) ==
    IF task[r] = "completing"
    THEN Row(IF graph[r].file /\ ~graph[r].reported THEN "completed" ELSE "failed",
             graph[r].file, graph[r].reported, trace[r])
    ELSE Row("failed", FALSE, TRUE, trace[r])

\* complete, the only one of a success, the last one of a failure.
Complete(r) ==
    /\ task[r] \in {"completing", "failing"}
    /\ row' = [row EXCEPT ![r] = Result(r)] /\ Go(r, "ended")
    /\ UNCHANGED <<server, graph, trace, kills>>

\* Mutant of CompleteRaises: what it raises is swallowed.
CompleteGivesUp(r) ==
    /\ task[r] \in {"completing", "failing"}
    /\ row' = [row EXCEPT ![r] = Result(r)] \/ UNCHANGED row
    /\ Go(r, "ended")
    /\ UNCHANGED <<server, graph, trace, kills>>

\* It raises, before the row is changed or after: in the try block that is one more
\* failure to be written, in the handler it is the end of the task.
CompleteRaises(r) ==
    /\ task[r] \in {"completing", "failing"}
    /\ row' = [row EXCEPT ![r] = Result(r)] \/ UNCHANGED row
    /\ Go(r, IF task[r] = "completing" THEN "failing" ELSE "raised")
    /\ UNCHANGED <<server, graph, trace, kills>>

\* No more requests; then lifespan waits for the tasks.
Shutdown ==
    /\ server = "up" /\ server' = "stopping"
    /\ UNCHANGED <<row, task, graph, trace, kills>>

Stop ==
    /\ server = "stopping" /\ server' = "down"
    /\ \A r \in Runs : ~Lives(r)
    /\ UNCHANGED <<row, task, graph, trace, kills>>

Kill ==
    /\ server # "down" /\ server' = "down"
    /\ kills < MaxKills /\ kills' = kills + 1
    /\ task' = [r \in Runs |-> IF Lives(r) THEN "lost" ELSE task[r]]
    /\ UNCHANGED <<row, graph, trace>>

\* Nothing but a new server to come, or every run was made.
Rest == (\A r \in Runs : ~Lives(r)) /\ UNCHANGED vars

Execute(r) ==
    Schedule(r) \/ Prepare(r) \/ Timeout(r) \/ Return(r) \/ Break(r) \/ Complete(r) \/ CompleteRaises(r)

Next ==
    \/ \E r \in Runs : Post(r) \/ Execute(r) \/ GraphStep(r)
    \/ Initialize \/ Shutdown \/ Stop \/ Kill \/ Rest

Spec == Init /\ [][Next]_vars

\* The event loop runs the tasks, and the database answers or raises.  Of the graph
\* nothing is assumed: the timeout is there for it.
FairSpec == Spec /\ (\A r \in Runs : WF_vars(Execute(r))) /\ WF_vars(Stop)
-----------------------------------------------------------------------------
\* A row says completed only with an output whose file is there, and a timeline that
\* ends with run_completed and no failure of the case in it.  It says failed without
\* an output, and with an error message unless the graph returned without saying
\* anything (CaseWorkflow, FailureTraced).
RowHonest ==
    \A r \in Runs :
        /\ row[r].status = "completed" =>
               /\ row[r].output /\ graph[r].file /\ ~row[r].error
               /\ row[r].timeline = {"run_started", "run_completed"}
        /\ row[r].status = "failed" =>
               /\ ~row[r].output
               /\ row[r].error \/ (graph[r].outcome = "returned" /\ ~graph[r].file)

\* A row says running for ever only if the server was killed, or the database did not
\* take the result: never after a task that came to its end, nor after a shutdown,
\* which leaves no task behind.
RunningAccounted ==
    \A r \in Runs :
        /\ row[r].status = "running" => Lives(r) \/ task[r] \in {"raised", "lost"}
        /\ Lives(r) => server # "down"

\* A row leaves running for good.  Only the task that wrote completed without learning
\* of it can still write failed over it; no other task, request or server touches it.
SettledKept ==
    [][\A r \in Runs : row[r].status \in {"completed", "failed"} =>
           \/ row'[r] = row[r]
           \/ task[r] = "failing" /\ row'[r].status = "failed"]_vars

\* A shutdown waits for the tasks but not for ever: each ends by its timeout, whatever
\* the graph does.
ShutdownEnds == server = "stopping" ~> server = "down"
=============================================================================
