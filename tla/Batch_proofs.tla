---------------------------- MODULE Batch_proofs ----------------------------
(***************************************************************************)
(* Theorems about the two semaphores of a batch: that of the cases         *)
(* (BatchRunner), for any cases and any limit, and that of the model calls *)
(* they make (ModelClient), for any calls, slots and attempts.             *)
(***************************************************************************)
EXTENDS BatchRunner, ModelClient, FiniteSetTheorems, TLAPS
-----------------------------------------------------------------------------
(***************************************************************************)
(* The model calls                                                         *)
(***************************************************************************)

\* The kinds of the variables, without the count of the slots.
ClientKinds ==
    /\ place \in [Calls -> {"ready", "sent", "backoff"} \cup Ends]
    /\ part \in [Calls -> {"first", "second"}]
    /\ attempt \in [Calls -> 0..Attempts]
    /\ failure \in [Calls -> {"none", "invalid", "empty", "transient", "permanent"}]
    /\ free \in Nat

\* A call that may still send a request has attempts left, so the attempts it has
\* made when it gives up are all it has.
AttemptsLeft == \A c \in Calls : place[c] \in {"ready", "backoff"} => attempt[c] < Attempts

ClientInv == ClientKinds /\ free + Cardinality(Holders) = Slots /\ AttemptsLeft /\ FailsForCause

\* The semaphore counts: a slot is taken by the call that sends, and given back by the
\* call whose request is over.
LEMMA HolderAdded ==
    ASSUME IsFiniteSet(Holders), NEW c \in Calls \ Studies, Holders' = Holders \cup {c},
           c \notin Holders
    PROVE  IsFiniteSet(Holders') /\ Cardinality(Holders') = Cardinality(Holders) + 1
BY FS_AddElement

LEMMA HolderRemoved ==
    ASSUME IsFiniteSet(Holders), NEW c \in Holders, Holders' = Holders \ {c}
    PROVE  IsFiniteSet(Holders') /\ Cardinality(Holders') = Cardinality(Holders) - 1
BY FS_RemoveElement

LEMMA HoldersFinite == IsFiniteSet(Holders) /\ Cardinality(Holders) \in Nat
<1>1. IsFiniteSet(Holders)
  BY FS_Subset, ClientAssumption DEF Holders
<1> QED BY <1>1, FS_CardinalityType

LEMMA ClientInitInv == ClientInit => ClientInv
<1> SUFFICES ASSUME ClientInit PROVE ClientInv
  OBVIOUS
<1>1. Holders = {}
  BY DEF ClientInit, Holders
<1>2. Cardinality(Holders) = 0
  BY <1>1, FS_EmptySet
<1> QED BY <1>2, ClientAssumption DEF ClientInit, ClientInv, ClientKinds, AttemptsLeft, FailsForCause, Ends

\* What one step does to the semaphore: it leaves it alone, or takes or returns the slot
\* of one call.
LEMMA SlotKept ==
    ASSUME ClientInv, Holders' = Holders, free' = free
    PROVE  free' \in Nat /\ free' + Cardinality(Holders') = Slots
BY DEF ClientInv, ClientKinds

LEMMA SlotSpent ==
    ASSUME ClientInv, NEW c \in Calls, place[c] # "sent", place' = [place EXCEPT ![c] = "sent"],
           c \in Studies \/ free > 0,
           free' = IF c \in Studies THEN free ELSE free - 1
    PROVE  free' \in Nat /\ free' + Cardinality(Holders') = Slots
<1>1. CASE c \in Studies
  <2>1. Holders' = Holders
    BY <1>1 DEF Holders, ClientInv, ClientKinds
  <2> QED BY <1>1, <2>1, SlotKept
<1>2. CASE c \notin Studies
  <2>1. Holders' = Holders \cup {c} /\ c \notin Holders
    BY <1>2 DEF Holders, ClientInv, ClientKinds
  <2>2. Cardinality(Holders') = Cardinality(Holders) + 1
    BY <1>2, <2>1, HoldersFinite, HolderAdded
  <2> QED BY <1>2, <2>2, HoldersFinite DEF ClientInv, ClientKinds
<1> QED BY <1>1, <1>2

LEMMA SlotReturned ==
    ASSUME ClientInv, NEW c \in Calls, NEW where, place[c] = "sent", where # "sent",
           place' = [place EXCEPT ![c] = where], Release(c)
    PROVE  free' \in Nat /\ free' + Cardinality(Holders') = Slots
<1>1. CASE c \in Studies
  <2>1. Holders' = Holders
    BY <1>1 DEF Holders, ClientInv, ClientKinds
  <2> QED BY <1>1, <2>1, SlotKept DEF Release
<1>2. CASE c \notin Studies
  <2>1. Holders' = Holders \ {c} /\ c \in Holders
    BY <1>2 DEF Holders, ClientInv, ClientKinds
  <2>2. Cardinality(Holders') = Cardinality(Holders) - 1
    BY <2>1, HoldersFinite, HolderRemoved
  <2> QED BY <1>2, <2>2, HoldersFinite, ClientAssumption DEF ClientInv, ClientKinds, Release
<1> QED BY <1>1, <1>2

\* A call that does not send and did not, keeps the slots as they are.
LEMMA SlotUntouched ==
    ASSUME ClientInv, NEW c \in Calls, NEW where, place[c] # "sent", where # "sent",
           place' = [place EXCEPT ![c] = where], free' = free
    PROVE  free' \in Nat /\ free' + Cardinality(Holders') = Slots
<1>1. Holders' = Holders
  BY DEF Holders, ClientInv, ClientKinds
<1> QED BY <1>1, SlotKept

\* Where an attempt that is over leads: to the next one, or with all of them made to
\* the error.
Leads(c, where) ==
    /\ Go(c, where)
    /\ \/ where = "backoff" /\ attempt[c] < Attempts
       \/ where = "request_error" /\ ~(attempt[c] < Attempts)

LEMMA AgainLeads ==
    ASSUME NEW c \in Calls, Again(c, "request_error")
    PROVE  \E where \in {"backoff", "request_error"} : Leads(c, where)
BY DEF Again, Leads

LEMMA CallStepInv ==
    ASSUME ClientInv, NEW c \in Calls, CallStep(c) \/ CancelCall(c)
    PROVE  ClientInv'
<1> USE ClientAssumption
<1>1. CASE Send(c)
  <2>1. free' \in Nat /\ free' + Cardinality(Holders') = Slots
    BY <1>1, SlotSpent DEF Send, Go
  <2> QED
    BY <1>1, <2>1 DEF Send, Go, ClientInv, ClientKinds, AttemptsLeft, FailsForCause, Ends
<1>2. CASE Accept(c)
  <2>1. free' \in Nat /\ free' + Cardinality(Holders') = Slots
    BY <1>2, SlotReturned DEF Accept, Go
  <2> QED
    BY <1>2, <2>1 DEF Accept, Go, ClientInv, ClientKinds, AttemptsLeft, FailsForCause, Ends
<1>3. CASE Refuse(c)
  <2>1. CASE c \in Studies
    <3>1. PICK where \in {"backoff", "request_error"} : Leads(c, where)
      BY <1>3, <2>1, AgainLeads DEF Refuse
    <3>2. free' \in Nat /\ free' + Cardinality(Holders') = Slots
      BY <1>3, <3>1, SlotReturned DEF Refuse, Go, Leads
    <3> QED
      BY <1>3, <2>1, <3>1, <3>2
      DEF Refuse, Fails, Go, Leads, ClientInv, ClientKinds, AttemptsLeft, FailsForCause, Ends
  <2>2. CASE c \notin Studies /\ part[c] = "first"
    <3>1. free' \in Nat /\ free' + Cardinality(Holders') = Slots
      BY <1>3, <2>2, SlotReturned DEF Refuse, Go, Leads
    <3> QED
      BY <1>3, <2>2, <3>1
      DEF Refuse, Fails, Go, Leads, ClientInv, ClientKinds, AttemptsLeft, FailsForCause, Ends
  <2>3. CASE c \notin Studies /\ part[c] # "first"
    <3>1. free' \in Nat /\ free' + Cardinality(Holders') = Slots
      BY <1>3, <2>3, SlotReturned DEF Refuse, Go, Leads
    <3>2. part[c] = "second"
      BY <2>3 DEF ClientInv, ClientKinds
    <3> QED
      BY <1>3, <2>3, <3>1, <3>2
      DEF Refuse, Fails, Go, Leads, ClientInv, ClientKinds, AttemptsLeft, FailsForCause, Ends
  <2> QED BY <2>1, <2>2, <2>3
<1>4. CASE Empty(c)
  <2>1. CASE c \in Studies
    <3>1. PICK where \in {"backoff", "request_error"} : Leads(c, where)
      BY <1>4, <2>1, AgainLeads DEF Empty
    <3>2. free' \in Nat /\ free' + Cardinality(Holders') = Slots
      BY <1>4, <3>1, SlotReturned DEF Empty, Go, Leads
    <3> QED
      BY <1>4, <2>1, <3>1, <3>2
      DEF Empty, Fails, Go, Leads, ClientInv, ClientKinds, AttemptsLeft, FailsForCause, Ends
  <2>2. CASE c \notin Studies
    <3>1. free' \in Nat /\ free' + Cardinality(Holders') = Slots
      BY <1>4, <2>2, SlotReturned DEF Empty, Go, Leads
    <3> QED
      BY <1>4, <2>2, <3>1
      DEF Empty, Fails, Go, Leads, ClientInv, ClientKinds, AttemptsLeft, FailsForCause, Ends
  <2> QED BY <2>1, <2>2
<1>5. CASE Lose(c)
  <2>1. PICK where \in {"backoff", "request_error"} : Leads(c, where)
    BY <1>5, AgainLeads DEF Lose
  <2>2. free' \in Nat /\ free' + Cardinality(Holders') = Slots
    BY <1>5, <2>1, SlotReturned DEF Lose, Go, Leads
  <2> QED
    BY <1>5, <2>1, <2>2
    DEF Lose, Fails, Go, Leads, ClientInv, ClientKinds, AttemptsLeft, FailsForCause, Ends
<1>6. CASE Abort(c)
  <2>1. free' \in Nat /\ free' + Cardinality(Holders') = Slots
    BY <1>6, SlotReturned DEF Abort, Go
  <2> QED
    BY <1>6, <2>1 DEF Abort, Fails, Go, Leads, ClientInv, ClientKinds, AttemptsLeft, FailsForCause, Ends
<1>7. CASE Wake(c)
  <2>1. free' \in Nat /\ free' + Cardinality(Holders') = Slots
    BY <1>7, SlotUntouched DEF Wake, Go
  <2> QED
    BY <1>7, <2>1 DEF Wake, Go, ClientInv, ClientKinds, AttemptsLeft, FailsForCause, Ends
<1>8. CASE CancelCall(c)
  <2>1. free' \in Nat /\ free' + Cardinality(Holders') = Slots
    BY <1>8, SlotReturned, SlotUntouched DEF CancelCall, Go
  <2> QED
    BY <1>8, <2>1 DEF CancelCall, Go, ClientInv, ClientKinds, AttemptsLeft, FailsForCause, Ends
<1> QED BY <1>1, <1>2, <1>3, <1>4, <1>5, <1>6, <1>7, <1>8 DEF CallStep

LEMMA ClientNextInv == ClientInv /\ [ClientNext]_clientVars => ClientInv'
<1> SUFFICES ASSUME ClientInv, [ClientNext]_clientVars PROVE ClientInv'
  OBVIOUS
<1>1. CASE UNCHANGED clientVars
  BY <1>1 DEF clientVars, ClientInv, ClientKinds, Holders, AttemptsLeft, FailsForCause
<1> QED BY <1>1, CallStepInv DEF ClientNext, AllEnded

LEMMA ClientInvariance == ClientSpec => []ClientInv
BY ClientInitInv, ClientNextInv, PTL DEF ClientSpec
-----------------------------------------------------------------------------
\* Slots are free or held by a request that was sent, through retries, repairs, failures
\* and cancellations (openrouter_client.py:133-190).
THEOREM SlotsAccounted == ClientSpec => []ClientTypeOK
<1>1. ClientInv => ClientTypeOK
  <2> SUFFICES ASSUME ClientInv PROVE ClientTypeOK
    OBVIOUS
  <2>1. free \in 0..Slots
    BY HoldersFinite, ClientAssumption DEF ClientInv, ClientKinds
  <2> QED BY <2>1 DEF ClientInv, ClientKinds, ClientTypeOK
<1> QED BY <1>1, ClientInvariance, PTL

\* No call of either client gives up before its attempts and its repair are used
\* (openrouter_client.py:98-190, experiments/pvoc_v0/core/llm.py).
THEOREM GivesUpForCause == ClientSpec => []FailsForCause
<1>1. ClientInv => FailsForCause
  BY DEF ClientInv
<1> QED BY <1>1, ClientInvariance, PTL
-----------------------------------------------------------------------------
(***************************************************************************)
(* The batch                                                               *)
(***************************************************************************)

GraphStates == [outcome : {"running", "returned", "raised"}, file : BOOLEAN, reported : BOOLEAN]

\* A case that was reported as failed has returned, without a file.
Promised(s) == s.reported => s.outcome = "returned" /\ ~s.file

\* The kinds of the variables, without the count of the slots.
Kinds ==
    /\ file \in [Cases -> {"none", "old", "new"}]
    /\ trace \subseteq Events \X Cases
    /\ pc \in {"preflight", "prepare", "reset", "cases", "raising", "metadata", "exit", "ended"}
    /\ job \in [Cases -> {"waiting", "invoked", "completing", "failing", "succeeded",
                          "failed", "raised"}]
    /\ exit \in {"none", "0", "1", "raised"}
    /\ graph \in [Cases -> GraphStates] /\ \A c \in Cases : Promised(graph[c])

\* From when the trace is reset until the results are known, and for ever if they were.
Running == pc \in {"cases", "raising", "metadata", "exit"} \/ report # Undefined

\* What the trace, the file and the graph of a case have to do with its task.
CaseGood(c) ==
    /\ file[c] = IF graph[c].file THEN "new" ELSE "none"
    /\ c \in Completed <=> job[c] = "succeeded"
    /\ job[c] \in {"waiting", "completing", "succeeded"} => c \notin Failed
    /\ job[c] \in {"completing", "succeeded"} => graph[c].file
    /\ job[c] = "waiting" => graph[c].outcome = "running" /\ ~graph[c].file
    /\ job[c] = "invoked" => (graph[c].reported <=> c \in Failed)
    /\ job[c] = "failed" => c \in Failed \/ (graph[c].outcome = "returned" /\ ~graph[c].file)

\* Before the cases run, nothing of them has happened; then nothing is reported until
\* all are done; what is reported stays so.
Phases ==
    /\ pc \in {"preflight", "prepare", "reset"} =>
           \A c \in Cases : /\ job[c] = "waiting"
                            /\ graph[c].outcome = "running" /\ ~graph[c].file
    /\ pc = "reset" => Existing = {}
    /\ pc \in {"preflight", "prepare", "reset", "cases", "raising"} =>
           report = Undefined /\ metadata = Undefined
    /\ pc \in {"metadata", "exit"} \/ report # Undefined =>
           /\ \A c \in Cases : job[c] \in Done
           /\ report = [processed |-> Cardinality(Cases), succeeded |-> Succeeded,
                        failed |-> Cardinality(FailedIds)]
    /\ pc = "metadata" => metadata = Undefined
    /\ pc = "exit" => metadata = report
    /\ metadata # Undefined => metadata = report
    /\ pc # "ended" => exit = "none"

\* What exit status 0 of a full run says.
AllOut ==
    /\ \A c \in Cases : file[c] = "new"
    /\ Completed = Cases /\ ~stray
    /\ metadata.succeeded = metadata.processed /\ metadata.failed = 0

IInv ==
    /\ Kinds /\ Cardinality(Active) <= Limit /\ Phases
    /\ Running => \A c \in Cases : CaseGood(c)
    /\ exit = "0" /\ ~options.validate_only => AllOut
-----------------------------------------------------------------------------
\* One step of the graph: it was running; a file stays, and a report comes last.
LEMMA GraphMoves ==
    ASSUME NEW c \in Cases, NEW s \in GraphStates, Promised(s),
           NEW next \in Graph(c)!Successors(s)
    PROVE  /\ next \in GraphStates /\ Promised(next)
           /\ s.outcome = "running" /\ ~s.reported
           /\ s.file => next.file
<1>1. s.outcome = "running" /\ ~s.reported
  BY DEF GraphStates, Promised, Graph!Successors
<1>2. \/ next = Graph(c)!State("running", TRUE, s.reported) /\ ~s.file
      \/ next = Graph(c)!State("returned", s.file, s.reported)
      \/ next = Graph(c)!State("returned", s.file, TRUE) /\ ~s.file
      \/ next = Graph(c)!State("raised", s.file, s.reported)
  BY <1>1 DEF Graph!Successors, Graph!Written, Graph!Returned, Graph!Reported, Graph!Raised
<1>3. PICK outcome \in {"running", "returned", "raised"}, f \in BOOLEAN, reported \in BOOLEAN :
          /\ next = [outcome |-> outcome, file |-> f, reported |-> reported]
          /\ reported => outcome = "returned" /\ ~f
          /\ s.file => f
  BY <1>1, <1>2 DEF Graph!State, GraphStates
<1> QED BY <1>1, <1>3 DEF GraphStates, Promised

\* The slots: a set of active cases that does not grow needs no more of them.
LEMMA SlotsKept ==
    ASSUME Cardinality(Active) <= Limit, Active' \subseteq Active
    PROVE  Cardinality(Active') <= Limit
<1>1. IsFiniteSet(Active)
  BY FS_Subset, BatchAssumption DEF Active
<1>2. IsFiniteSet(Active') /\ Cardinality(Active') <= Cardinality(Active)
  BY <1>1, FS_Subset
<1> QED BY <1>1, <1>2, FS_CardinalityType, BatchAssumption

LEMMA SlotTaken ==
    ASSUME Cardinality(Active) < Limit, NEW c, Active' \subseteq Active \cup {c}
    PROVE  Cardinality(Active') <= Limit
<1>1. IsFiniteSet(Active)
  BY FS_Subset, BatchAssumption DEF Active
<1>2. IsFiniteSet(Active \cup {c}) /\ Cardinality(Active \cup {c}) <= Cardinality(Active) + 1
  BY <1>1, FS_AddElement, FS_CardinalityType
<1>3. IsFiniteSet(Active') /\ Cardinality(Active') <= Cardinality(Active \cup {c})
  BY <1>2, FS_Subset
<1> QED BY <1>1, <1>2, <1>3, FS_CardinalityType, BatchAssumption

LEMMA InitInv == Init => IInv
<1> SUFFICES ASSUME Init PROVE IInv
  OBVIOUS
<1>1. Active = {}
  BY DEF Init, Active
<1>2. Cardinality(Active) <= Limit
  BY <1>1, FS_EmptySet, BatchAssumption
<1>3. Kinds
  BY DEF Init, Kinds, Events, GraphStates, Promised
<1>4. Phases
  BY DEF Init, Phases
<1>5. ~Running /\ exit # "0"
  BY DEF Init, Running
<1> QED BY <1>2, <1>3, <1>4, <1>5 DEF IInv
-----------------------------------------------------------------------------
\* A step of one case leaves what is known of the others as it is.
Apart(c) ==
    \A d \in Cases \ {c} :
        /\ job'[d] = job[d] /\ graph'[d] = graph[d] /\ file'[d] = file[d]
        /\ d \in Completed' <=> d \in Completed
        /\ d \in Failed' <=> d \in Failed

LEMMA CaseStepInv ==
    ASSUME IInv, NEW c \in Cases, pc \in {"cases", "raising"}, pc' \in {"cases", "raising"},
           UNCHANGED <<options, stray, results>>,
           Kinds', Cardinality(Active') <= Limit, Apart(c), CaseGood(c)'
    PROVE  IInv'
<1>1. report = Undefined /\ metadata = Undefined /\ exit = "none"
  BY DEF IInv, Phases
<1>2. report' = Undefined /\ metadata' = Undefined /\ exit' = "none"
  BY <1>1 DEF results
<1>3. Phases'
  BY <1>2 DEF Phases
<1>4. \A d \in Cases : CaseGood(d)
  BY DEF IInv, Running
<1>5. ASSUME NEW d \in Cases \ {c} PROVE CaseGood(d)'
  BY <1>4 DEF Apart, CaseGood
<1> QED BY <1>2, <1>3, <1>5 DEF IInv

LEMMA EndInv ==
    ASSUME IInv, NEW status \in {"0", "1", "raised"}, End(status),
           status = "0" /\ ~options.validate_only => AllOut
    PROVE  IInv'
<1>1. UNCHANGED <<directory, trace, job, graph, report, metadata>>
      /\ pc' = "ended" /\ exit' = status
  BY DEF End, cases
<1>2. Active' = Active /\ Succeeded' = Succeeded /\ Completed' = Completed /\ Failed' = Failed
      /\ FailedIds' = FailedIds
  BY <1>1 DEF directory, Active, Succeeded, Completed, Failed, FailedIds, Existing
<1>3. Phases'
  BY <1>1, <1>2 DEF IInv, Phases
<1>4. Kinds'
  BY <1>1 DEF IInv, Kinds, Promised, directory
<1>5. Running' => Running
  BY <1>1 DEF Running
<1>6. Running' => \A c \in Cases : CaseGood(c)'
  BY <1>1, <1>2, <1>5 DEF IInv, CaseGood, directory
<1>7. ASSUME exit' = "0", ~options'.validate_only PROVE AllOut'
  <2>1. AllOut
    BY <1>1, <1>7 DEF directory
  <2> QED BY <1>1, <1>2, <2>1 DEF AllOut, directory
<1>8. Cardinality(Active') <= Limit
  BY <1>2 DEF IInv
<1> QED BY <1>3, <1>4, <1>6, <1>7, <1>8 DEF IInv

LEMMA PreflightInv == ASSUME IInv, Preflight PROVE IInv'
<1>1. CASE options.validate_only
  <2>1. End("0") BY <1>1 DEF Preflight
  <2> QED BY <1>1, <2>1, EndInv
<1>2. CASE ~options.validate_only
  <2>1. pc = "preflight" /\ pc' = "prepare" /\ UNCHANGED <<directory, trace, cases, results>>
    BY <1>2 DEF Preflight
  <2>2. Active' = Active
    BY <2>1 DEF Active, cases
  <2>3. exit = "none" /\ report = Undefined /\ metadata = Undefined
    BY <2>1 DEF IInv, Phases
  <2>4. Kinds'
    BY <2>1 DEF IInv, Kinds, Promised, directory, cases, results
  <2>5. Phases'
    BY <2>1, <2>3 DEF IInv, Phases, cases, results
  <2> QED BY <2>1, <2>2, <2>3, <2>4, <2>5 DEF IInv, Running, results
<1> QED BY <1>1, <1>2

LEMMA PrepareOutputsInv == ASSUME IInv, PrepareOutputs PROVE IInv'
<1>1. CASE stray \/ (Existing # {} /\ ~options.overwrite)
  <2>1. End("raised") BY <1>1 DEF PrepareOutputs
  <2> QED BY <2>1, EndInv
<1>2. CASE ~(stray \/ (Existing # {} /\ ~options.overwrite))
  <2>1. pc = "prepare" /\ UNCHANGED <<options, stray, trace, cases, results>>
    BY <1>2 DEF PrepareOutputs
  <2>2. \/ Existing = {} /\ pc' = "reset" /\ file' = file
        \/ pc' = "prepare" /\ \E c \in Existing : file' = [file EXCEPT ![c] = "none"]
    BY <1>2, <2>1 DEF PrepareOutputs
  <2>3. Active' = Active
    BY <2>1 DEF Active, cases
  <2>4. exit = "none" /\ report = Undefined /\ metadata = Undefined
    BY <2>1 DEF IInv, Phases
  <2>5. Kinds'
    BY <2>1, <2>2 DEF IInv, Kinds, Promised, cases, results
  <2>6. pc' = "reset" => Existing' = {}
    BY <2>2 DEF Existing
  <2>7. pc' \in {"prepare", "reset"}
    BY <2>2
  <2>8. Phases'
    BY <2>1, <2>4, <2>6, <2>7 DEF IInv, Phases, cases, results
  <2> QED BY <2>1, <2>3, <2>4, <2>5, <2>7, <2>8 DEF IInv, Running, results
<1> QED BY <1>1, <1>2

LEMMA ResetTraceInv == ASSUME IInv, ResetTrace PROVE IInv'
<1>1. pc = "reset" /\ pc' = "cases" /\ trace' = {} /\ UNCHANGED <<directory, cases, results>>
  BY DEF ResetTrace
<1>2. Active' = Active
  BY <1>1 DEF Active, cases
<1>3. exit = "none" /\ report = Undefined /\ metadata = Undefined
  BY <1>1 DEF IInv, Phases
<1>4. Kinds'
  BY <1>1 DEF IInv, Kinds, Promised, directory, cases, results
<1>5. Phases'
  BY <1>1, <1>3 DEF IInv, Phases, cases, results
<1>6. Completed' = {} /\ Failed' = {}
  BY <1>1 DEF Completed, Failed
<1>7. ASSUME NEW c \in Cases PROVE CaseGood(c)'
  <2>1. job[c] = "waiting" /\ graph[c].outcome = "running" /\ ~graph[c].file /\ file[c] = "none"
    BY <1>1 DEF IInv, Phases, Existing
  <2> QED BY <1>1, <1>6, <2>1 DEF CaseGood, directory, cases
<1> QED BY <1>1, <1>2, <1>3, <1>4, <1>5, <1>7 DEF IInv, results
-----------------------------------------------------------------------------
LEMMA StartCaseInv == ASSUME IInv, NEW c \in Cases, StartCase(c) PROVE IInv'
<1>1. /\ pc \in {"cases", "raising"} /\ job[c] = "waiting" /\ Cardinality(Active) < Limit
      /\ job' = [job EXCEPT ![c] = "invoked"]
      /\ UNCHANGED <<options, stray, file, trace, pc, graph, results>>
  BY DEF StartCase, directory
<1>2. Kinds'
  BY <1>1 DEF IInv, Kinds, Promised, results
<1>3. Cardinality(Active') <= Limit
  <2>1. Active' \subseteq Active \cup {c}
    BY <1>1 DEF IInv, Kinds, Active
  <2> QED BY <1>1, <2>1, SlotTaken
<1>4. Apart(c)
  BY <1>1 DEF IInv, Kinds, Apart, Completed, Failed
<1>5. CaseGood(c)
  BY <1>1 DEF IInv, Running
<1>6. ~graph[c].reported
  BY <1>1, <1>5 DEF IInv, Kinds, Promised, CaseGood
<1>7. CaseGood(c)'
  BY <1>1, <1>5, <1>6 DEF IInv, Kinds, CaseGood, Completed, Failed
<1> QED BY <1>1, <1>2, <1>3, <1>4, <1>7, CaseStepInv

LEMMA GraphStepInv == ASSUME IInv, NEW c \in Cases, GraphStep(c) PROVE IInv'
<1>1. PICK next \in Graph(c)!Successors(graph[c]) :
        /\ graph' = [graph EXCEPT ![c] = next]
        /\ file' = [file EXCEPT ![c] = IF next.file THEN "new" ELSE file[c]]
        /\ trace' = IF next.reported THEN trace \cup {<<"case_failed", c>>} ELSE trace
  BY DEF GraphStep
<1>2. pc \in {"cases", "raising"} /\ job[c] = "invoked" /\ UNCHANGED <<options, stray, pc, job, results>>
  BY DEF GraphStep
<1>3. graph[c] \in GraphStates /\ Promised(graph[c])
  BY DEF IInv, Kinds
<1>4. /\ next \in GraphStates /\ Promised(next)
      /\ graph[c].outcome = "running" /\ ~graph[c].reported
      /\ graph[c].file => next.file
  BY <1>1, <1>3, GraphMoves
<1>5. Kinds'
  <2>1. file' \in [Cases -> {"none", "old", "new"}]
    BY <1>1 DEF IInv, Kinds
  <2>2. trace' \subseteq Events \X Cases
    BY <1>1 DEF IInv, Kinds, Events
  <2>3. graph' \in [Cases -> GraphStates] /\ \A d \in Cases : Promised(graph'[d])
    BY <1>1, <1>4 DEF IInv, Kinds
  <2> QED BY <1>2, <2>1, <2>2, <2>3 DEF IInv, Kinds, Promised, results
<1>6. Active' = Active
  BY <1>2 DEF Active
<1>7. Apart(c)
  BY <1>1, <1>2 DEF IInv, Kinds, Apart, Completed, Failed
<1>8. CaseGood(c)
  BY <1>2 DEF IInv, Running
<1>9. CaseGood(c)'
  <2>1. file'[c] = IF next.file THEN "new" ELSE "none"
    BY <1>1, <1>4, <1>8 DEF IInv, Kinds, CaseGood
  <2>2. c \notin Completed' /\ (next.reported <=> c \in Failed')
    BY <1>1, <1>2, <1>4, <1>8 DEF CaseGood, Completed, Failed
  <2>3. graph'[c] = next
    BY <1>1 DEF IInv, Kinds
  <2> QED BY <1>2, <2>1, <2>2, <2>3 DEF CaseGood
<1> QED BY <1>2, <1>5, <1>6, <1>7, <1>9, CaseStepInv DEF IInv

LEMMA ReturnInv == ASSUME IInv, NEW c \in Cases, Return(c) PROVE IInv'
<1>1. /\ pc \in {"cases", "raising"} /\ job[c] = "invoked" /\ graph[c].outcome # "running"
      /\ job' = [job EXCEPT ![c] =
             IF graph[c].outcome = "raised" THEN "failing"
             ELSE IF graph[c].file /\ ~graph[c].reported THEN "completing" ELSE "failed"]
      /\ UNCHANGED <<options, stray, file, trace, pc, graph, results>>
  BY DEF Return, directory
<1>2. Kinds'
  BY <1>1 DEF IInv, Kinds, Promised, results
<1>3. Cardinality(Active') <= Limit
  <2>1. Active' \subseteq Active
    BY <1>1 DEF IInv, Kinds, Active
  <2> QED BY <2>1, SlotsKept DEF IInv
<1>4. Apart(c)
  BY <1>1 DEF IInv, Kinds, Apart, Completed, Failed
<1>5. CaseGood(c)
  BY <1>1 DEF IInv, Running
<1>6. CaseGood(c)'
  <2>1. graph[c] \in GraphStates /\ Promised(graph[c])
    BY DEF IInv, Kinds
  <2>2. Completed' = Completed /\ Failed' = Failed
    BY <1>1 DEF Completed, Failed
  <2>3. job'[c] = IF graph[c].outcome = "raised" THEN "failing"
             ELSE IF graph[c].file /\ ~graph[c].reported THEN "completing" ELSE "failed"
    BY <1>1 DEF IInv, Kinds
  <2>4. CASE graph[c].reported
    BY <1>1, <1>5, <2>1, <2>2, <2>3, <2>4 DEF CaseGood, GraphStates, Promised
  <2>5. CASE ~graph[c].reported
    BY <1>1, <1>5, <2>1, <2>2, <2>3, <2>5 DEF CaseGood, GraphStates
  <2> QED BY <2>4, <2>5
<1> QED BY <1>1, <1>2, <1>3, <1>4, <1>6, CaseStepInv

LEMMA EmitInv == ASSUME IInv, NEW c \in Cases, Emit(c) PROVE IInv'
<1>1. pc \in {"cases", "raising"} /\ UNCHANGED <<options, stray, file, pc, graph, results>>
  BY DEF Emit, directory
<1>2. \/ /\ job[c] = "completing"
         /\ trace' = trace \cup {<<"case_completed", c>>}
         /\ job' = [job EXCEPT ![c] = "succeeded"]
      \/ /\ job[c] = "failing"
         /\ trace' = trace \cup {<<"case_failed", c>>}
         /\ job' = [job EXCEPT ![c] = "failed"]
  BY DEF Emit
<1>3. Kinds'
  BY <1>1, <1>2 DEF IInv, Kinds, Promised, Events, results
<1>4. Cardinality(Active') <= Limit
  <2>1. Active' \subseteq Active
    BY <1>2 DEF IInv, Kinds, Active
  <2> QED BY <2>1, SlotsKept DEF IInv
<1>5. Apart(c)
  BY <1>1, <1>2 DEF IInv, Kinds, Apart, Completed, Failed
<1>6. CaseGood(c)
  BY <1>1 DEF IInv, Running
<1>7. CaseGood(c)'
  <2>1. CASE job[c] = "completing"
    BY <1>1, <1>2, <1>6, <2>1 DEF IInv, Kinds, CaseGood, Completed, Failed
  <2>2. CASE job[c] = "failing"
    BY <1>1, <1>2, <1>6, <2>2 DEF IInv, Kinds, CaseGood, Completed, Failed
  <2> QED BY <1>2, <2>1, <2>2
<1> QED BY <1>1, <1>3, <1>4, <1>5, <1>7, CaseStepInv

LEMMA EmitFailsInv == ASSUME IInv, NEW c \in Cases, EmitFails(c) PROVE IInv'
<1>1. pc \in {"cases", "raising"} /\ UNCHANGED <<options, stray, file, trace, graph, results>>
  BY DEF EmitFails, directory
<1>2. \/ job[c] = "completing" /\ job' = [job EXCEPT ![c] = "failing"] /\ pc' = pc
      \/ job[c] \in {"failing", "waiting"} /\ job' = [job EXCEPT ![c] = "raised"] /\ pc' = "raising"
  BY DEF EmitFails
<1>3. Kinds'
  BY <1>1, <1>2 DEF IInv, Kinds, Promised, results
<1>4. Cardinality(Active') <= Limit
  <2>1. Active' \subseteq Active
    BY <1>2 DEF IInv, Kinds, Active
  <2> QED BY <2>1, SlotsKept DEF IInv
<1>5. Apart(c)
  BY <1>1, <1>2 DEF IInv, Kinds, Apart, Completed, Failed
<1>6. CaseGood(c)
  BY <1>1 DEF IInv, Running
<1>7. CaseGood(c)'
  BY <1>1, <1>2, <1>6 DEF IInv, Kinds, CaseGood, Completed, Failed
<1> QED BY <1>1, <1>2, <1>3, <1>4, <1>5, <1>7, CaseStepInv
-----------------------------------------------------------------------------
LEMMA ReportInv == ASSUME IInv, Report PROVE IInv'
<1>1. /\ pc = "cases" /\ pc' = "metadata" /\ \A c \in Cases : job[c] \in Done
      /\ report' = [processed |-> Cardinality(Cases), succeeded |-> Succeeded,
                    failed |-> Cardinality(FailedIds)]
      /\ UNCHANGED <<options, stray, file, trace, job, graph, metadata, exit>>
  BY DEF Report, directory, cases
<1>2. Active' = Active /\ Succeeded' = Succeeded /\ Completed' = Completed /\ Failed' = Failed
      /\ FailedIds' = FailedIds
  BY <1>1 DEF Active, Succeeded, Completed, Failed, FailedIds, Existing
<1>3. metadata = Undefined /\ exit = "none"
  BY <1>1 DEF IInv, Phases
<1>4. Kinds'
  BY <1>1 DEF IInv, Kinds, Promised
<1>5. Phases'
  BY <1>1, <1>2, <1>3 DEF Phases
<1>6. \A c \in Cases : CaseGood(c)'
  BY <1>1, <1>2 DEF IInv, Running, CaseGood
<1> QED BY <1>1, <1>2, <1>3, <1>4, <1>5, <1>6 DEF IInv

LEMMA WriteMetadataInv == ASSUME IInv, WriteMetadata PROVE IInv'
<1>1. /\ pc = "metadata" /\ pc' = "exit" /\ metadata' = report
      /\ UNCHANGED <<options, stray, file, trace, job, graph, report, exit>>
  BY DEF WriteMetadata, directory, cases
<1>2. Active' = Active /\ Succeeded' = Succeeded /\ Completed' = Completed /\ Failed' = Failed
      /\ FailedIds' = FailedIds
  BY <1>1 DEF Active, Succeeded, Completed, Failed, FailedIds, Existing
<1>3. exit = "none"
  BY <1>1 DEF IInv, Phases
<1>4. Kinds'
  BY <1>1 DEF IInv, Kinds, Promised
<1>5. Phases'
  BY <1>1, <1>2, <1>3 DEF IInv, Phases
<1>6. \A c \in Cases : CaseGood(c)'
  BY <1>1, <1>2 DEF IInv, Running, CaseGood
<1> QED BY <1>1, <1>2, <1>3, <1>4, <1>5, <1>6 DEF IInv

\* With no failed ids and all cases done, every case succeeded.
LEMMA ExitInv == ASSUME IInv, Exit PROVE IInv'
<1>1. CASE FailedIds = {} /\ Succeeded = Cardinality(Cases)
  <2>1. pc = "exit" /\ End("0")
    BY <1>1 DEF Exit
  <2>2. \A c \in Cases : CaseGood(c) /\ job[c] = "succeeded"
    BY <1>1, <2>1 DEF IInv, Phases, Running, FailedIds, Done
  <2>3. metadata = [processed |-> Cardinality(Cases), succeeded |-> Succeeded, failed |-> 0]
    BY <1>1, <2>1, FS_EmptySet DEF IInv, Phases
  <2>4. Completed = Cases /\ \A c \in Cases : file[c] = "new"
    BY <2>2 DEF CaseGood, Completed
  <2>5. ~stray
    BY <1>1 DEF FailedIds
  <2>6. AllOut
    BY <1>1, <2>3, <2>4, <2>5 DEF AllOut
  <2> QED BY <2>1, <2>6, EndInv
<1>2. CASE ~(FailedIds = {} /\ Succeeded = Cardinality(Cases))
  <2>1. End("1")
    BY <1>2 DEF Exit
  <2> QED BY <2>1, EndInv
<1> QED BY <1>1, <1>2

LEMMA StutterInv == ASSUME IInv, UNCHANGED vars PROVE IInv'
<1>1. UNCHANGED <<options, stray, file, trace, pc, job, graph, report, metadata, exit>>
  BY DEF vars, directory, cases, results
<1>2. Active' = Active /\ Succeeded' = Succeeded /\ Completed' = Completed /\ Failed' = Failed
      /\ FailedIds' = FailedIds /\ Existing' = Existing
  BY <1>1 DEF Active, Succeeded, Completed, Failed, FailedIds, Existing
<1>3. Kinds' /\ Phases'
  BY <1>1, <1>2 DEF IInv, Kinds, Promised, Phases
<1>4. Running' => \A c \in Cases : CaseGood(c)'
  BY <1>1, <1>2 DEF IInv, Running, CaseGood
<1>5. AllOut => AllOut'
  BY <1>1, <1>2 DEF AllOut
<1> QED BY <1>1, <1>2, <1>3, <1>4, <1>5 DEF IInv

LEMMA NextInv == IInv /\ [Next]_vars => IInv'
<1> SUFFICES ASSUME IInv, [Next]_vars PROVE IInv'
  OBVIOUS
<1>1. CASE Preflight BY <1>1, PreflightInv
<1>2. CASE PrepareOutputs BY <1>2, PrepareOutputsInv
<1>3. CASE ResetTrace BY <1>3, ResetTraceInv
<1>4. ASSUME NEW c \in Cases, CaseStep(c) PROVE IInv'
  BY <1>4, StartCaseInv, GraphStepInv, ReturnInv, EmitInv DEF CaseStep
<1>5. ASSUME NEW c \in Cases, EmitFails(c) PROVE IInv'
  BY <1>5, EmitFailsInv
<1>6. CASE Cancel BY <1>6, EndInv DEF Cancel
<1>7. CASE Report BY <1>7, ReportInv
<1>8. CASE WriteMetadata BY <1>8, WriteMetadataInv
<1>9. CASE Exit BY <1>9, ExitInv
<1>10. CASE Break BY <1>10, EndInv DEF Break
<1>11. CASE UNCHANGED vars BY <1>11, StutterInv
<1> QED
  BY <1>1, <1>2, <1>3, <1>4, <1>5, <1>6, <1>7, <1>8, <1>9, <1>10, <1>11 DEF Next, Step, Ended

LEMMA Invariance == Spec => []IInv
<1> QED BY InitInv, NextInv, PTL DEF Spec
-----------------------------------------------------------------------------
\* The variables keep their kinds, and the semaphore of run_batch never lets more
\* than Limit cases in, however many there are.
THEOREM SlotsBounded == Spec => []TypeOK
<1>1. IInv => TypeOK
  BY DEF IInv, Kinds, Phases, TypeOK
<1> QED BY <1>1, Invariance, PTL

\* No file of an earlier run is left once prepare_outputs is through.
THEOREM FreshOutputs == Spec => []NoStaleOutput
<1>1. IInv => NoStaleOutput
  <2> SUFFICES ASSUME IInv, NEW c \in Cases,
                      pc \in {"reset", "cases", "raising", "metadata", "exit"}
               PROVE  file[c] # "old"
    BY DEF NoStaleOutput
  <2>1. CASE pc = "reset" BY <2>1 DEF IInv, Phases, Existing
  <2>2. CASE pc # "reset" BY <2>2 DEF IInv, Running, CaseGood
  <2> QED BY <2>1, <2>2
<1> QED BY <1>1, Invariance, PTL

\* The events of the trace agree with the files and with the results of run_case.
THEOREM TraceAgrees == Spec => []TraceHonest
<1>1. IInv => TraceHonest
  <2> SUFFICES ASSUME IInv PROVE TraceHonest
    OBVIOUS
  <2>1. ASSUME pc \in {"cases", "raising", "metadata", "exit"}, NEW c \in Completed
        PROVE  file[c] = "new" /\ c \notin Failed /\ job[c] = "succeeded"
    <3>1. c \in Cases /\ CaseGood(c)
      BY <2>1 DEF IInv, Running, Completed
    <3> QED BY <2>1, <3>1 DEF CaseGood
  <2>2. ASSUME report # Undefined, NEW c \in Cases \ (Completed \cup Failed)
        PROVE  graph[c].outcome = "returned" /\ ~graph[c].file
    <3>1. CaseGood(c) /\ job[c] \in Done
      BY <2>2 DEF IInv, Running, Phases
    <3> QED BY <2>2, <3>1 DEF CaseGood, Done
  <2> QED BY <2>1, <2>2 DEF TraceHonest
<1> QED BY <1>1, Invariance, PTL

\* Exit status 0 and the metadata say what the files and the trace say.
THEOREM ExitAgrees == Spec => []ExitHonest
<1>1. IInv => ExitHonest
  <2> SUFFICES ASSUME IInv PROVE ExitHonest
    OBVIOUS
  <2>1. ASSUME metadata # Undefined PROVE metadata.succeeded = Cardinality(Completed)
    <3>1. report # Undefined /\ metadata = report
      BY <2>1 DEF IInv, Phases
    <3>2. metadata.succeeded = Succeeded
      BY <3>1 DEF IInv, Phases
    <3>3. Completed = {c \in Cases : job[c] = "succeeded"}
      BY <3>1 DEF IInv, Running, CaseGood, Completed
    <3> QED BY <3>2, <3>3 DEF Succeeded
  <2>2. exit = "0" /\ ~options.validate_only => AllOut
    BY DEF IInv
  <2> QED BY <2>1, <2>2 DEF ExitHonest, AllOut
<1> QED BY <1>1, Invariance, PTL
=============================================================================
