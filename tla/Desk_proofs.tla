----------------------------- MODULE Desk_proofs -----------------------------
(***************************************************************************)
(* Theorems about the dispute desk: its cases (DeskCases), for any         *)
(* requests and any capacity; its investigations and the decisions made    *)
(* from its pages (DeskPage), for any runs and any number of kills.        *)
(***************************************************************************)
EXTENDS DeskCases, DeskPage, TLAPS
-----------------------------------------------------------------------------
(***************************************************************************)
(* The cases                                                               *)
(***************************************************************************)

\* With the numbers 1..n taken, whoever has read a number has read one up to n + 1,
\* and at most one transaction has inserted a row, under n + 1.
Numbered(n) ==
    /\ DOMAIN cases = 1..n
    /\ \A q \in Requests :
           /\ at[q] \in {"numbered", "inserted"} => number[q] \in 1..(n + 1)
           /\ at[q] = "inserted" =>
                  number[q] = n + 1 /\ \A p \in Requests : at[p] = "inserted" => p = q

CasesInv == CasesTypeOK /\ \E n \in 0..Capacity : Numbered(n)

\* The number that is read is the one after the last.
LEMMA NextIsFree ==
    ASSUME NEW n \in Nat, DOMAIN cases = 1..n
    PROVE  NextNumber = n + 1
<1>1. DOMAIN cases \cup {0} = 0..n
  OBVIOUS
<1>2. n \in 0..n /\ \A x \in 0..n : n >= x
  OBVIOUS
<1>3. ASSUME NEW m \in 0..n, \A x \in 0..n : m >= x PROVE m = n
  BY <1>2, <1>3
<1>4. Max(0..n) = n
  BY <1>2, <1>3 DEF Max
<1> QED BY <1>1, <1>4 DEF NextNumber

LEMMA CasesInvInit == CasesInit => CasesInv
<1> SUFFICES ASSUME CasesInit PROVE CasesInv
  OBVIOUS
<1>1. DOMAIN cases = 1..0 /\ 0 \in 0..Capacity
  BY CapacityAssumption DEF CasesInit
<1>2. Numbered(0)
  BY <1>1 DEF CasesInit, Numbered
<1>3. CasesTypeOK
  BY <1>1, CapacityAssumption DEF CasesInit, CasesTypeOK, Places
<1> QED BY <1>1, <1>2, <1>3 DEF CasesInv

\* One step of each kind keeps the invariant.
LEMMA CasesInvStep == CasesInv /\ [CasesNext]_caseVars => CasesInv'
<1> SUFFICES ASSUME CasesInv, [CasesNext]_caseVars PROVE CasesInv'
  OBVIOUS
<1> USE CapacityAssumption
<1>1. PICK n \in 0..Capacity : Numbered(n)
  BY DEF CasesInv
<1>2. CasesTypeOK
  BY DEF CasesInv
<1>3. ASSUME NEW q \in Requests, ReadNumber(q) PROVE CasesInv'
  <2>1. NextNumber = n + 1
    BY <1>1, NextIsFree DEF Numbered
  <2>2. CASE n + 1 > Capacity
    <3>1. at' = [at EXCEPT ![q] = "refused"] /\ UNCHANGED <<cases, number>>
      BY <1>3, <2>1, <2>2 DEF ReadNumber, Move
    <3> QED BY <1>1, <1>2, <3>1 DEF CasesInv, CasesTypeOK, Numbered, Places
  <2>3. CASE ~(n + 1 > Capacity)
    <3>1. at' = [at EXCEPT ![q] = "numbered"] /\ number' = [number EXCEPT ![q] = n + 1]
          /\ cases' = cases /\ at[q] = "new"
      BY <1>3, <2>1, <2>3 DEF ReadNumber, Move
    <3>2. CasesTypeOK'
      BY <1>2, <2>3, <3>1 DEF CasesTypeOK, Places
    <3>3. Numbered(n)'
      BY <1>1, <1>2, <3>1 DEF CasesTypeOK, Numbered
    <3> QED BY <3>2, <3>3 DEF CasesInv
  <2> QED BY <2>2, <2>3
<1>4. ASSUME NEW q \in Requests, Insert(q) PROVE CasesInv'
  <2>1. at[q] = "numbered" /\ UNCHANGED <<cases, number>>
        /\ \/ at' = [at EXCEPT ![q] = "refused"]
           \/ number[q] \notin DOMAIN cases /\ at' = [at EXCEPT ![q] = "inserted"]
        /\ \A p \in Requests : at[p] = "inserted" => number[p] # number[q]
    BY <1>4 DEF Insert, Move
  <2>2. CasesTypeOK'
    BY <1>2, <2>1 DEF CasesTypeOK, Places
  <2>3. number[q] \notin DOMAIN cases =>
            number[q] = n + 1 /\ \A p \in Requests : at[p] # "inserted"
    BY <1>1, <2>1 DEF Numbered
  <2>4. CASE at' = [at EXCEPT ![q] = "refused"]
    BY <1>1, <1>2, <2>1, <2>2, <2>4 DEF CasesTypeOK, Numbered, CasesInv
  <2>5. CASE number[q] \notin DOMAIN cases /\ at' = [at EXCEPT ![q] = "inserted"]
    BY <1>1, <1>2, <2>1, <2>2, <2>3, <2>5 DEF CasesTypeOK, Numbered, CasesInv
  <2> QED BY <2>1, <2>4, <2>5
<1>5. ASSUME NEW q \in Requests, Commit(q) PROVE CasesInv'
  <2>1. number[q] = n + 1 /\ n + 1 \in 0..Capacity
        /\ \A p \in Requests : at[p] = "inserted" => p = q
    BY <1>1, <1>2, <1>5 DEF Commit, Numbered, CasesTypeOK
  <2>2. DOMAIN cases' = 1..(n + 1)
    BY <1>1, <1>5, <2>1 DEF Commit, Numbered
  <2>3. Numbered(n + 1)'
    BY <1>1, <1>2, <1>5, <2>1, <2>2 DEF Commit, Move, Numbered, CasesTypeOK
  <2>4. CasesTypeOK'
    BY <1>1, <1>2, <1>5, <2>1, <2>2 DEF Commit, Move, CasesTypeOK, Places, Numbered
  <2> QED BY <2>1, <2>3, <2>4 DEF CasesInv
<1>6. ASSUME NEW q \in Requests, Refuse(q) PROVE CasesInv'
  BY <1>1, <1>2, <1>6 DEF Refuse, Move, CasesInv, CasesTypeOK, Numbered, Places
<1>7. ASSUME NEW k \in DOMAIN cases, NEW decision \in {"approved", "rejected"},
             Decide(k, decision)
      PROVE  CasesInv'
  <2>1. DOMAIN cases' = DOMAIN cases /\ \A j \in DOMAIN cases : cases'[j].by = cases[j].by
    BY <1>2, <1>7 DEF Decide, CasesTypeOK
  <2>2. CasesTypeOK'
    BY <1>2, <1>7, <2>1 DEF Decide, CasesTypeOK
  <2> QED BY <1>1, <1>2, <1>7, <2>1, <2>2 DEF Decide, CasesInv, Numbered
<1>8. CASE UNCHANGED caseVars
  BY <1>8 DEF caseVars, CasesInv, CasesTypeOK, Numbered
<1> QED BY <1>3, <1>4, <1>5, <1>6, <1>7, <1>8 DEF CasesNext, Done

LEMMA CasesInvariance == CasesSpec => []CasesInv
BY CasesInvInit, CasesInvStep, PTL DEF CasesSpec

\* Case numbers are 1..n at all times (main.py:194-198).
THEOREM NumbersContiguous == CasesSpec => []Contiguous
<1>1. CasesInv => Contiguous
  BY DEF CasesInv, Contiguous, Numbered
<1> QED BY <1>1, CasesInvariance, PTL

\* No transaction overwrites a committed case (main.py:189-199, 234-239).
THEOREM CasesStay == CasesSpec => NeverReplaced
<1> DEFINE Kept ==
      \A n \in DOMAIN cases :
          /\ n \in DOMAIN cases' /\ cases'[n].by = cases[n].by
          /\ cases[n].decision # "pending" => cases'[n].decision # "pending"
<1>1. CasesInv /\ [CasesNext]_caseVars => [Kept]_caseVars
  <2> SUFFICES ASSUME CasesInv, CasesNext PROVE Kept
    OBVIOUS
  <2>1. ASSUME NEW q \in Requests, Commit(q) PROVE Kept
    <3>1. number[q] \notin DOMAIN cases
      BY <2>1 DEF CasesInv, Numbered, Commit
    <3> QED BY <2>1, <3>1 DEF Commit
  <2>2. ASSUME NEW k \in DOMAIN cases, NEW decision \in {"approved", "rejected"},
               Decide(k, decision)
        PROVE  Kept
    BY <2>2 DEF Decide, CasesInv, CasesTypeOK
  <2>3. ASSUME UNCHANGED cases PROVE Kept
    BY <2>3
  <2> QED BY <2>1, <2>2, <2>3 DEF CasesNext, ReadNumber, Insert, Refuse, Done, caseVars
<1> QED BY <1>1, CasesInvariance, PTL DEF CasesSpec, NeverReplaced
-----------------------------------------------------------------------------
(***************************************************************************)
(* The investigations and the pages                                        *)
(***************************************************************************)

GraphStates == [outcome : {"running", "returned", "raised"}, file : BOOLEAN, reported : BOOLEAN]
Events == {"run_started", "case_failed", "run_completed"}

\* A case that was reported as failed has returned, without a file.
Promised(s) == s.reported => s.outcome = "returned" /\ ~s.file

Kinds ==
    /\ server \in {"up", "stopping", "down"}
    /\ row \in [Runs -> [status : {"none", "running", "completed", "failed"}, output : BOOLEAN,
                         error : BOOLEAN, timeline : SUBSET Events]]
    /\ task \in [Runs -> Live \cup {"none", "ended", "raised", "lost"}]
    /\ graph \in [Runs -> GraphStates] /\ \A r \in Runs : Promised(graph[r])
    /\ trace \in [Runs -> SUBSET Events]

\* The graph has written the file of the case, and the trace says that the run is over.
Grounded(r) ==
    /\ graph[r].outcome = "returned" /\ graph[r].file /\ ~graph[r].reported
    /\ "run_completed" \in trace[r]

\* What the trace holds while execute is in its try block.
Traced(r) ==
    {"run_started"} \cup (IF graph[r].reported THEN {"case_failed"} ELSE {})
                    \cup (IF task[r] = "completing" THEN {"run_completed"} ELSE {})

\* The task is where the row, the graph and the trace of its run say it is.
InPlace(r) ==
    /\ task[r] = "none" <=> row[r].status = "none"
    /\ task[r] \in {"none", "posted", "scheduled"} =>
           graph[r].outcome = "running" /\ ~graph[r].file
    /\ task[r] \in {"posted", "scheduled", "invoked", "completing"} => row[r].status = "running"
    /\ task[r] = "completing" => graph[r].outcome = "returned"
    /\ task[r] \in {"invoked", "completing"} => trace[r] = Traced(r)
    /\ task[r] = "ended" => row[r].status # "running"
    /\ Lives(r) => server # "down"

\* What a row says stays true of the graph and the trace.
Backed(r) ==
    /\ row[r].output => row[r].status = "completed"
    /\ row[r].status = "completed" =>
           /\ row[r].output /\ ~row[r].error /\ Grounded(r)
           /\ row[r].timeline = {"run_started", "run_completed"}
    /\ row[r].status = "failed" =>
           row[r].error \/ (graph[r].outcome = "returned" /\ ~graph[r].file)

IInv == Kinds /\ \A r \in Runs : InPlace(r) /\ Backed(r)
-----------------------------------------------------------------------------
\* One step of the graph: it was running; a file stays, and a report comes last.
LEMMA GraphMoves ==
    ASSUME NEW r \in Runs, NEW s \in GraphStates, Promised(s),
           NEW next \in Graph(r)!Successors(s)
    PROVE  /\ next \in GraphStates /\ Promised(next)
           /\ s.outcome = "running" /\ ~s.reported
<1>1. s.outcome = "running" /\ ~s.reported
  BY DEF GraphStates, Promised, Graph!Successors
<1>2. \/ next = Graph(r)!State("running", TRUE, s.reported) /\ ~s.file
      \/ next = Graph(r)!State("returned", s.file, s.reported)
      \/ next = Graph(r)!State("returned", s.file, TRUE) /\ ~s.file
      \/ next = Graph(r)!State("raised", s.file, s.reported)
  BY <1>1 DEF Graph!Successors, Graph!Written, Graph!Returned, Graph!Reported, Graph!Raised
<1>3. PICK outcome \in {"running", "returned", "raised"}, f \in BOOLEAN, reported \in BOOLEAN :
          /\ next = [outcome |-> outcome, file |-> f, reported |-> reported]
          /\ reported => outcome = "returned" /\ ~f
  BY <1>1, <1>2 DEF Graph!State, GraphStates
<1> QED BY <1>1, <1>3 DEF GraphStates, Promised

LEMMA InitInv == Init => IInv
<1> SUFFICES ASSUME Init PROVE IInv
  OBVIOUS
<1>1. Kinds
  BY DEF Init, Kinds, NoRow, Row, Events, GraphStates, Promised
<1>2. \A r \in Runs : InPlace(r) /\ Backed(r)
  BY DEF Init, InPlace, Backed, NoRow, Row, Lives, Live
<1> QED BY <1>1, <1>2 DEF IInv

\* A step of one run leaves the others as they are.
Apart(r) ==
    /\ server' = server
    /\ \A s \in Runs \ {r} :
           row'[s] = row[s] /\ task'[s] = task[s] /\ graph'[s] = graph[s] /\ trace'[s] = trace[s]

LEMMA RunStepInv ==
    ASSUME IInv, NEW r \in Runs, Apart(r), Kinds', InPlace(r)', Backed(r)'
    PROVE  IInv'
<1>1. ASSUME NEW s \in Runs \ {r} PROVE InPlace(s)' /\ Backed(s)'
  BY <1>1 DEF IInv, Apart, InPlace, Backed, Grounded, Traced, Lives
<1> QED BY <1>1 DEF IInv
-----------------------------------------------------------------------------
LEMMA PostInv == ASSUME IInv, NEW r \in Runs, Post(r) PROVE IInv'
<1>1. /\ server = "up" /\ task[r] = "none" /\ UNCHANGED <<server, graph, trace>>
      /\ row' = [row EXCEPT ![r] = Row("running", FALSE, FALSE, {})]
      /\ \E place \in {"posted", "raised"} : task' = [task EXCEPT ![r] = place]
  BY DEF Post, Go
<1>2. Kinds'
  BY <1>1 DEF IInv, Kinds, Row, Live, Promised
<1>3. InPlace(r)' /\ Backed(r)'
  BY <1>1 DEF IInv, Kinds, Row, InPlace, Backed, Lives, Live
<1> QED BY <1>1, <1>2, <1>3, RunStepInv DEF IInv, Kinds, Apart

LEMMA ScheduleInv == ASSUME IInv, NEW r \in Runs, Schedule(r) PROVE IInv'
<1>1. /\ task[r] = "posted" /\ task' = [task EXCEPT ![r] = "scheduled"]
      /\ UNCHANGED <<server, row, graph, trace>>
  BY DEF Schedule, Go
<1>2. Kinds'
  BY <1>1 DEF IInv, Kinds, Live, Promised
<1>3. InPlace(r)' /\ Backed(r)'
  BY <1>1 DEF IInv, Kinds, InPlace, Backed, Lives, Live
<1> QED BY <1>1, <1>2, <1>3, RunStepInv DEF IInv, Kinds, Apart

LEMMA PrepareInv == ASSUME IInv, NEW r \in Runs, Prepare(r) PROVE IInv'
<1>1. /\ task[r] = "scheduled" /\ task' = [task EXCEPT ![r] = "invoked"]
      /\ trace' = [trace EXCEPT ![r] = {"run_started"}]
      /\ UNCHANGED <<server, row, graph>>
  BY DEF Prepare, Go
<1>2. Kinds'
  BY <1>1 DEF IInv, Kinds, Live, Promised, Events
<1>3. ~graph[r].reported
  BY <1>1 DEF IInv, Kinds, InPlace, Promised
<1>4. InPlace(r)' /\ Backed(r)'
  BY <1>1, <1>3 DEF IInv, Kinds, InPlace, Backed, Traced, Lives, Live
<1> QED BY <1>1, <1>2, <1>4, RunStepInv DEF IInv, Kinds, Apart

LEMMA GraphStepInv == ASSUME IInv, NEW r \in Runs, GraphStep(r) PROVE IInv'
<1>1. PICK next \in Graph(r)!Successors(graph[r]) :
        /\ graph' = [graph EXCEPT ![r] = next]
        /\ trace' = [trace EXCEPT ![r] =
                        IF next.reported THEN trace[r] \cup {"case_failed"} ELSE trace[r]]
  BY DEF GraphStep
<1>2. task[r] = "invoked" /\ UNCHANGED <<server, row, task>>
  BY DEF GraphStep
<1>3. graph[r] \in GraphStates /\ Promised(graph[r])
  BY DEF IInv, Kinds
<1>4. /\ next \in GraphStates /\ Promised(next)
      /\ graph[r].outcome = "running" /\ ~graph[r].reported
  BY <1>1, <1>3, GraphMoves
<1>5. Kinds'
  BY <1>1, <1>2, <1>4 DEF IInv, Kinds, Events, Promised
<1>6. trace[r] = {"run_started"} /\ row[r].status = "running"
  BY <1>2, <1>4 DEF IInv, InPlace, Traced
<1>7. graph'[r] = next /\ trace'[r] = IF next.reported THEN {"run_started", "case_failed"}
                                                     ELSE {"run_started"}
  BY <1>1, <1>6 DEF IInv, Kinds
<1>8. InPlace(r)' /\ Backed(r)'
  BY <1>2, <1>6, <1>7 DEF IInv, InPlace, Backed, Traced, Lives, Live
<1> QED BY <1>1, <1>2, <1>5, <1>8, RunStepInv DEF IInv, Kinds, Apart

LEMMA TimeoutInv == ASSUME IInv, NEW r \in Runs, Timeout(r) PROVE IInv'
<1>1. /\ task[r] = "invoked" /\ graph[r].outcome = "running"
      /\ graph' = [graph EXCEPT ![r].outcome = "raised"]
      /\ task' = [task EXCEPT ![r] = "failing"]
      /\ UNCHANGED <<server, row, trace>>
  BY DEF Timeout, Go
<1>2. Kinds'
  BY <1>1 DEF IInv, Kinds, Live, Promised, GraphStates
<1>3. InPlace(r)' /\ Backed(r)'
  BY <1>1 DEF IInv, Kinds, InPlace, Backed, Lives, Live
<1> QED BY <1>1, <1>2, <1>3, RunStepInv DEF IInv, Kinds, Apart

LEMMA ReturnInv == ASSUME IInv, NEW r \in Runs, Return(r) PROVE IInv'
<1>1. /\ task[r] = "invoked" /\ graph[r].outcome # "running"
      /\ UNCHANGED <<server, row, graph>>
      /\ \/ task' = [task EXCEPT ![r] = "failing"] /\ trace' = trace
         \/ /\ graph[r].outcome # "raised"
            /\ task' = [task EXCEPT ![r] = "completing"]
            /\ trace' = [trace EXCEPT ![r] = trace[r] \cup {"run_completed"}]
  BY DEF Return, Go
<1>2. Kinds'
  BY <1>1 DEF IInv, Kinds, Live, Promised, Events
<1>3. graph[r].outcome \in {"running", "returned", "raised"}
  BY DEF IInv, Kinds, GraphStates
<1>4. InPlace(r)' /\ Backed(r)'
  BY <1>1, <1>3 DEF IInv, Kinds, InPlace, Backed, Traced, Lives, Live
<1> QED BY <1>1, <1>2, <1>4, RunStepInv DEF IInv, Kinds, Apart

LEMMA BreakInv == ASSUME IInv, NEW r \in Runs, Break(r) PROVE IInv'
<1>1. /\ task[r] \in {"scheduled", "invoked"} /\ task' = [task EXCEPT ![r] = "failing"]
      /\ UNCHANGED <<server, row, graph, trace>>
  BY DEF Break, Go
<1>2. Kinds'
  BY <1>1 DEF IInv, Kinds, Live, Promised
<1>3. InPlace(r)' /\ Backed(r)'
  BY <1>1 DEF IInv, Kinds, InPlace, Backed, Lives, Live
<1> QED BY <1>1, <1>2, <1>3, RunStepInv DEF IInv, Kinds, Apart
-----------------------------------------------------------------------------
\* What complete writes is backed, whether the graph returned or raised.
LEMMA ResultBacked ==
    ASSUME IInv, NEW r \in Runs, task[r] \in {"completing", "failing"},
           UNCHANGED <<graph, trace>>, row' = [row EXCEPT ![r] = Result(r)]
    PROVE  Backed(r)' /\ row'[r].status \in {"completed", "failed"}
           /\ row' \in [Runs -> [status : {"none", "running", "completed", "failed"},
                                  output : BOOLEAN, error : BOOLEAN, timeline : SUBSET Events]]
<1>1. row'[r] = Result(r)
  BY DEF IInv, Kinds
<1>2. graph[r] \in GraphStates /\ Promised(graph[r]) /\ trace[r] \in SUBSET Events
  BY DEF IInv, Kinds
<1>3. CASE task[r] = "completing"
  <2>1. Result(r) = Row(IF graph[r].file /\ ~graph[r].reported THEN "completed" ELSE "failed",
                        graph[r].file, graph[r].reported, trace[r])
    BY <1>3 DEF Result
  <2>2. graph[r].outcome = "returned" /\ trace[r] = Traced(r)
    BY <1>3 DEF IInv, InPlace
  <2>3. CASE graph[r].file
    <3>1. Result(r) = Row("completed", TRUE, FALSE, {"run_started", "run_completed"})
      BY <1>2, <1>3, <2>1, <2>2, <2>3 DEF Promised, Traced, GraphStates
    <3>2. Grounded(r)
      BY <1>2, <1>3, <2>2, <2>3 DEF Grounded, Promised, GraphStates, Traced
    <3>3. Grounded(r)'
      BY <3>2 DEF Grounded
    <3>4. {"run_started", "run_completed"} \in SUBSET Events
      BY DEF Events
    <3> QED BY <1>1, <3>1, <3>3, <3>4 DEF Row, Backed, IInv, Kinds
  <2>4. CASE ~graph[r].file
    <3>1. Result(r) = Row("failed", FALSE, graph[r].reported, trace[r])
      BY <1>2, <2>1, <2>4 DEF GraphStates
    <3> QED BY <1>1, <1>2, <2>2, <2>4, <3>1 DEF Row, Backed, IInv, Kinds, GraphStates
  <2> QED BY <2>3, <2>4
<1>4. CASE task[r] = "failing"
  <2>1. Result(r) = Row("failed", FALSE, TRUE, trace[r])
    BY <1>4 DEF Result
  <2> QED BY <1>1, <1>2, <2>1 DEF Row, Backed, IInv, Kinds
<1> QED BY <1>3, <1>4

LEMMA CompleteInv == ASSUME IInv, NEW r \in Runs, Complete(r) PROVE IInv'
<1>1. /\ task[r] \in {"completing", "failing"} /\ task' = [task EXCEPT ![r] = "ended"]
      /\ row' = [row EXCEPT ![r] = Result(r)] /\ UNCHANGED <<server, graph, trace>>
  BY DEF Complete, Go
<1>2. /\ Backed(r)' /\ row'[r].status \in {"completed", "failed"}
      /\ row' \in [Runs -> [status : {"none", "running", "completed", "failed"},
                            output : BOOLEAN, error : BOOLEAN, timeline : SUBSET Events]]
  BY <1>1, ResultBacked
<1>3. Kinds'
  BY <1>1, <1>2 DEF IInv, Kinds, Promised
<1>4. task'[r] = "ended"
  BY <1>1 DEF IInv, Kinds
<1>5. InPlace(r)'
  BY <1>2, <1>4 DEF InPlace, Lives, Live
<1> QED BY <1>1, <1>2, <1>3, <1>5, RunStepInv DEF IInv, Kinds, Apart

LEMMA CompleteRaisesInv == ASSUME IInv, NEW r \in Runs, CompleteRaises(r) PROVE IInv'
<1>1. /\ task[r] \in {"completing", "failing"}
      /\ task' = [task EXCEPT ![r] = IF task[r] = "completing" THEN "failing" ELSE "raised"]
      /\ UNCHANGED <<server, graph, trace>>
      /\ row' = [row EXCEPT ![r] = Result(r)] \/ row' = row
  BY DEF CompleteRaises, Go
<1>2. /\ Backed(r)' /\ row'[r].status # "none"
      /\ row' \in [Runs -> [status : {"none", "running", "completed", "failed"},
                            output : BOOLEAN, error : BOOLEAN, timeline : SUBSET Events]]
  <2>1. CASE row' = [row EXCEPT ![r] = Result(r)]
    BY <1>1, <2>1, ResultBacked
  <2>2. CASE row' = row
    BY <1>1, <2>2 DEF IInv, Kinds, InPlace, Backed, Grounded
  <2> QED BY <1>1, <2>1, <2>2
<1>3. Kinds'
  BY <1>1, <1>2 DEF IInv, Kinds, Promised, Live
<1>4. task'[r] \in {"failing", "raised"}
  BY <1>1 DEF IInv, Kinds
<1>5. InPlace(r)'
  BY <1>1, <1>2, <1>4 DEF IInv, InPlace, Lives, Live
<1> QED BY <1>1, <1>2, <1>3, <1>5, RunStepInv DEF IInv, Kinds, Apart

\* What starts, stops and kills the server touches no row.
LEMMA ServerInv ==
    ASSUME IInv, Initialize \/ Shutdown \/ Stop \/ Kill
    PROVE  IInv'
<1>1. UNCHANGED <<row, graph, trace>>
  BY DEF Initialize, Shutdown, Stop, Kill
<1>2. server' \in {"up", "stopping", "down"}
  BY DEF Initialize, Shutdown, Stop, Kill
<1>3. \/ task' = task /\ (server' = "down" => \A r \in Runs : ~Lives(r))
      \/ task' = [r \in Runs |-> IF Lives(r) THEN "lost" ELSE task[r]]
  BY DEF Initialize, Shutdown, Stop, Kill
<1>4. Kinds'
  BY <1>1, <1>2, <1>3 DEF IInv, Kinds, Promised, Lives, Live
<1>5. ASSUME NEW r \in Runs PROVE InPlace(r)' /\ Backed(r)'
  <2>1. Backed(r)'
    BY <1>1 DEF IInv, Backed, Grounded
  <2>2. CASE task' = task /\ (server' = "down" => \A s \in Runs : ~Lives(s))
    BY <1>1, <2>1, <2>2 DEF IInv, InPlace, Traced, Lives
  <2>3. CASE task' = [s \in Runs |-> IF Lives(s) THEN "lost" ELSE task[s]]
    <3>1. CASE Lives(r)
      BY <1>1, <2>1, <2>3, <3>1 DEF IInv, InPlace, Lives, Live
    <3>2. CASE ~Lives(r)
      <4>1. task'[r] = task[r]
        BY <2>3, <3>2
      <4> QED BY <1>1, <2>1, <3>2, <4>1 DEF IInv, InPlace, Traced, Lives, Live
    <3> QED BY <3>1, <3>2
  <2> QED BY <1>3, <2>2, <2>3
<1> QED BY <1>4, <1>5 DEF IInv

LEMMA NextInv == IInv /\ [Next]_vars => IInv'
<1> SUFFICES ASSUME IInv, [Next]_vars PROVE IInv'
  OBVIOUS
<1>1. ASSUME NEW r \in Runs, Post(r) PROVE IInv' BY <1>1, PostInv
<1>2. ASSUME NEW r \in Runs, Execute(r) PROVE IInv'
  BY <1>2, ScheduleInv, PrepareInv, TimeoutInv, ReturnInv, BreakInv, CompleteInv,
     CompleteRaisesInv DEF Execute
<1>3. ASSUME NEW r \in Runs, GraphStep(r) PROVE IInv' BY <1>3, GraphStepInv
<1>4. CASE Initialize \/ Shutdown \/ Stop \/ Kill BY <1>4, ServerInv
<1>5. CASE UNCHANGED vars
  BY <1>5 DEF vars, IInv, Kinds, Promised, InPlace, Backed, Grounded, Traced, Lives
<1> QED BY <1>1, <1>2, <1>3, <1>4, <1>5 DEF Next, Rest
-----------------------------------------------------------------------------
\* What a page may show, and what was decided from it.
Shown ==
    /\ posted \in Seq(Runs)
    /\ \A a \in screens : a.run \in Runs /\ (a.output => Grounded(a.run))
    /\ decided \subseteq Runs /\ \A r \in decided : Grounded(r)

\* A run that is grounded stays so: its graph has returned, and only a task that is yet
\* to be prepared starts a trace.
LEMMA GroundedStays ==
    ASSUME IInv, [Next]_vars, NEW r \in Runs, Grounded(r)
    PROVE  Grounded(r)'
<1>1. graph[r].outcome = "returned" /\ task[r] # "scheduled"
  BY DEF IInv, InPlace, Grounded
<1>2. ASSUME NEW s \in Runs, GraphStep(s) PROVE Grounded(r)'
  <2>1. graph[s].outcome = "running"
    <3>1. PICK next \in Graph(s)!Successors(graph[s]) : TRUE
      BY <1>2 DEF GraphStep
    <3>2. graph[s] \in GraphStates /\ Promised(graph[s])
      BY DEF IInv, Kinds
    <3> QED BY <3>1, <3>2, GraphMoves
  <2> QED BY <1>1, <1>2, <2>1 DEF GraphStep, Grounded, IInv, Kinds
<1>3. ASSUME NEW s \in Runs, Timeout(s) PROVE Grounded(r)'
  BY <1>1, <1>3 DEF Timeout, Grounded, IInv, Kinds
<1>4. ASSUME NEW s \in Runs, Prepare(s) PROVE Grounded(r)'
  BY <1>1, <1>4 DEF Prepare, Grounded, IInv, Kinds
<1>5. ASSUME NEW s \in Runs, Return(s) PROVE Grounded(r)'
  BY <1>5 DEF Return, Grounded, IInv, Kinds
<1>6. ASSUME UNCHANGED <<graph, trace>> PROVE Grounded(r)'
  BY <1>6 DEF Grounded
<1> QED
  BY <1>2, <1>3, <1>4, <1>5, <1>6
     DEF Next, Post, Execute, Schedule, Break, Complete, CompleteRaises, Initialize, Shutdown,
         Stop, Kill, Rest, vars

LEMMA PageMoves == PageNext => [Next]_vars
BY DEF PageNext, Next, Start, Look, DecideFrom

LEMMA PageInv == IInv /\ Shown /\ [PageNext]_<<vars, page>> => IInv' /\ Shown'
<1> SUFFICES ASSUME IInv, Shown, [PageNext]_<<vars, page>> PROVE IInv' /\ Shown'
  OBVIOUS
<1>1. [Next]_vars
  BY PageMoves
<1>2. IInv'
  BY <1>1, NextInv
<1>3. \A r \in Runs : Grounded(r) => Grounded(r)'
  BY <1>1, GroundedStays
<1>4. ASSUME NEW r \in Runs, Start(r) PROVE Shown'
  BY <1>3, <1>4 DEF Start, Shown
<1>5. CASE Look
  <2> DEFINE r == posted[Len(posted)]
  <2>1. r \in Runs
    BY <1>5 DEF Look, Shown
  <2>2. row[r].output => Grounded(r)
    BY <2>1 DEF IInv, Backed
  <2>3. screens' = screens \cup {[run |-> r, output |-> row[r].output]}
    BY <1>5 DEF Look
  <2> HIDE DEF r
  <2> QED BY <1>2, <1>3, <1>5, <2>1, <2>2, <2>3 DEF Look, Shown
<1>6. ASSUME NEW a \in screens, DecideFrom(a) PROVE Shown'
  BY <1>3, <1>6 DEF DecideFrom, Offers, Shown
<1>7. CASE UNCHANGED page
  BY <1>2, <1>3, <1>7 DEF page, Shown
<1> QED BY <1>2, <1>4, <1>5, <1>6, <1>7 DEF PageNext

LEMMA Invariance == PageSpec => [](IInv /\ Shown)
<1>1. PageInit => IInv /\ Shown
  BY InitInv DEF PageInit, Shown
<1> QED BY <1>1, PageInv, PTL DEF PageSpec
-----------------------------------------------------------------------------
\* A row says completed or failed only for what the graph and the trace did.
THEOREM RowsHonest == PageSpec => []RowHonest
<1>1. IInv => RowHonest
  BY DEF IInv, Kinds, Backed, Grounded, RowHonest
<1> QED BY <1>1, Invariance, PTL

\* A row that says running has a task, or one that was killed or could not write.
THEOREM RunningHasTask == PageSpec => []RunningAccounted
<1>1. IInv => RunningAccounted
  BY DEF IInv, Kinds, InPlace, RunningAccounted, Lives
<1> QED BY <1>1, Invariance, PTL

\* Whoever decides was shown the output of a verified run.
THEOREM DecisionsGrounded == PageSpec => []DecisionGrounded
<1>1. Shown => DecisionGrounded
  BY DEF Shown, Grounded, DecisionGrounded
<1> QED BY <1>1, Invariance, PTL

\* A settled row is rewritten only by its own failing task.
THEOREM SettledRowsStay == PageSpec => SettledKept
<1> DEFINE Kept ==
      \A r \in Runs : row[r].status \in {"completed", "failed"} =>
          \/ row'[r] = row[r]
          \/ task[r] = "failing" /\ row'[r].status = "failed"
<1>1. IInv /\ [Next]_vars => [Kept]_vars
  <2> SUFFICES ASSUME IInv, Next PROVE Kept
    OBVIOUS
  <2>1. ASSUME NEW r \in Runs, Post(r) PROVE Kept
    BY <2>1 DEF Post, IInv, Kinds, InPlace
  <2>2. ASSUME NEW r \in Runs, Complete(r) \/ CompleteRaises(r) PROVE Kept
    <3>1. /\ task[r] \in {"completing", "failing"}
          /\ row' = [row EXCEPT ![r] = Result(r)] \/ row' = row
      BY <2>2 DEF Complete, CompleteRaises
    <3>2. task[r] = "completing" => row[r].status = "running"
      BY DEF IInv, InPlace
    <3>3. task[r] = "failing" => Result(r).status = "failed"
      BY DEF Result, Row
    <3> QED BY <3>1, <3>2, <3>3 DEF IInv, Kinds
  <2>3. ASSUME UNCHANGED row PROVE Kept
    BY <2>3
  <2> QED
    BY <2>1, <2>2, <2>3
       DEF Next, Execute, Schedule, Prepare, Timeout, Return, Break, GraphStep, Initialize,
           Shutdown, Stop, Kill, Rest, vars
<1>2. [PageNext]_<<vars, page>> => [Next]_vars
  BY PageMoves
<1> QED BY <1>1, <1>2, Invariance, PTL DEF PageSpec, SettledKept
=============================================================================
