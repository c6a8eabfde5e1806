------------------------------- MODULE Studies -------------------------------
(***************************************************************************)
(* The smoke study and the stability study of                              *)
(* src/experiments/pvoc_v0/studies, side by side with the Olist import.    *)
(*                                                                         *)
(* A smoke run reads the rows of its cases query by query, runs every pair *)
(* of agents, and writes its records and then its manifest.  A stability   *)
(* run takes the messages of the newest result about the first case alone  *)
(* and repeats them on rows that it reads itself.  A run that fails or is  *)
(* killed leaves its files as they are.                                    *)
(***************************************************************************)
EXTENDS StudyProtocol

CONSTANTS
    Runs,        \* smoke runs
    Selections,  \* the sequences of cases a smoke run may be started for
    First,       \* EC_001
    Databases,   \* what the tables may hold: the rows of each case's order
    Predictions, \* what the three senders may predict
    None,        \* no frozen result
    MaxImports, MaxStudies  \* bounds: imports, stability runs

\* A run is for one case or for all of them, each once (smoke.py:46).
ASSUME StudiesAssumption ==
    /\ None \notin Runs /\ None \notin Nat
    /\ \A d \in Databases : First \in DOMAIN d
    /\ \A s \in Selections :
           /\ s \in Seq(Range(s)) /\ s # <<>> /\ IsInjective(s)
           /\ \A d \in Databases : Range(s) \subseteq DOMAIN d
    /\ MaxImports \in Nat /\ MaxStudies \in Nat

IsOrder(o) == o = [status |-> o.status, estimated |-> o.estimated,
                   carrier |-> o.carrier, customer |-> o.customer]

ASSUME RowsAssumption ==
    \A d \in Databases : \A c \in DOMAIN d : d[c].order # NoOrder => IsOrder(d[c].order)

VARIABLES
    db,       \* the rows now
    imports,  \* imports so far
    smoke,    \* the smoke runs
    finished, \* those whose manifest is whole, by the time it was last written
    study,    \* the stability run in progress
    studies,  \* stability runs so far
    mixed     \* history: runs that read a case while the database was loaded again

vars == <<db, imports, smoke, finished, study, studies, mixed>>

\* written counts what is on disk: part of the records, all of them, part of the
\* manifest, all of it.
NotStarted == [pc |-> "new", cases |-> <<>>, at |-> 0, reading |-> <<>>,
               records |-> {}, written |-> 0]
NoStudy == [pc |-> "idle", known |-> 0, listed |-> {}, candidates |-> {},
            source |-> None, reading |-> <<>>]

Init ==
    /\ db \in Databases /\ imports = 0
    /\ smoke = [r \in Runs |-> NotStarted] /\ finished = <<>>
    /\ study = NoStudy /\ studies = 0 /\ mixed = {}
-----------------------------------------------------------------------------
\* The smoke study

Launch(r, selection) ==
    /\ smoke[r].pc = "new"
    /\ smoke' = [smoke EXCEPT ![r].pc = "read", ![r].cases = selection, ![r].at = 1]
    /\ UNCHANGED <<db, imports, finished, study, studies, mixed>>

\* The next query about the current case; get_order raises when the order is gone.
Ask(r) ==
    LET s == smoke[r]
    IN  /\ s.pc = "read" /\ Len(s.reading) < Len(CaseQueries)
        /\ LET answer == Answer(db[s.cases[s.at]], CaseQueries[Len(s.reading) + 1])
           IN  /\ answer # NoOrder
               /\ smoke' = [smoke EXCEPT ![r].reading = Append(s.reading, answer)]
        /\ UNCHANGED <<db, imports, finished, study, studies, mixed>>

\* The senders decide and all pairs are run; an order no rule applies to raises.
RunPairs(r, predicted) ==
    LET s == smoke[r]
        o == SubSeq(s.reading, 1, Len(ObservationQueries))
        c == SubSeq(s.reading, Len(ObservationQueries) + 1, Len(CaseQueries))
    IN  /\ s.pc = "read" /\ Len(s.reading) = Len(CaseQueries)
        /\ Oracle(c) # NoMatch
        /\ smoke' = [smoke EXCEPT
               ![r].records = s.records \cup CaseRecords(s.cases[s.at], o, Oracle(c), predicted),
               ![r].reading = <<>>,
               ![r].at = s.at + 1,
               ![r].pc = IF s.at = Len(s.cases) THEN "write" ELSE "read"]
        /\ UNCHANGED <<db, imports, finished, study, studies, mixed>>

\* write_results: the records, then the manifest, each in new files.
Write(r) ==
    /\ smoke[r].pc = "write"
    /\ LET w == smoke[r].written + 1
       IN  /\ smoke' = [smoke EXCEPT ![r].written = w, ![r].pc = IF w = 4 THEN "over" ELSE "write"]
           /\ finished' = IF w = 4 THEN Append(finished, r) ELSE finished
    /\ UNCHANGED <<db, imports, study, studies, mixed>>

\* An exception, in particular one of those above, or the end of the process.
SmokeFails(r) ==
    /\ smoke[r].pc \in {"read", "write"}
    /\ smoke' = [smoke EXCEPT ![r] = [NotStarted EXCEPT !.pc = "over", !.written = smoke[r].written]]
    /\ UNCHANGED <<db, imports, finished, study, studies, mixed>>
-----------------------------------------------------------------------------
\* The stability study

\* results_dir.glob finds the manifests there are, whole or not.
Begin ==
    /\ study.pc = "idle" /\ studies < MaxStudies
    /\ study' = [NoStudy EXCEPT !.pc = "list", !.known = Len(finished),
                                !.listed = {r \in Runs : smoke[r].written >= 3}]
    /\ studies' = studies + 1
    /\ UNCHANGED <<db, imports, smoke, finished, mixed>>

\* One that is not whole does not parse, and the study ends.
ReadManifest(r) ==
    /\ study.pc = "list" /\ r \in study.listed
    /\ smoke[r].written = 4
    /\ study' = [study EXCEPT
           !.listed = @ \ {r},
           !.candidates = IF smoke[r].cases = <<First>> /\ Cardinality(smoke[r].records)
                                                           = Cardinality(DirectedPairs)
                          THEN @ \cup {r} ELSE @]
    /\ UNCHANGED <<db, imports, smoke, finished, studies, mixed>>

\* Mutant of Newest: the order of the directory decides.
AnyOf(candidates, r) == r \in candidates

\* The last of the candidates when sorted by the time of the manifest.
Newest(candidates, r) ==
    \E k \in DOMAIN finished :
        /\ finished[k] = r /\ r \in candidates
        /\ \A j \in DOMAIN finished : finished[j] \in candidates => j <= k

LoadFrozen(r) ==
    /\ study.pc = "list" /\ study.listed = {} /\ Newest(study.candidates, r)
    /\ {PairOf(x) : x \in smoke[r].records} = DirectedPairs
    /\ Cardinality(smoke[r].records) = Cardinality(DirectedPairs)
    /\ \A x \in smoke[r].records : x.case = First
    /\ study' = [study EXCEPT !.pc = "read", !.candidates = {}, !.source = r]
    /\ UNCHANGED <<db, imports, smoke, finished, studies, mixed>>

\* The next query about the first case
AskAgain ==
    /\ study.pc = "read" /\ Len(study.reading) < Len(ObservationQueries)
    /\ LET answer == Answer(db[First], ObservationQueries[Len(study.reading) + 1])
       IN  /\ answer # NoOrder
           /\ study' = [study EXCEPT !.reading = Append(@, answer)]
    /\ UNCHANGED <<db, imports, smoke, finished, studies, mixed>>

Frozen == smoke[study.source].records

\* Mutant of SameViews: only what one of the recipients sees is compared.
SameDeliveries ==
    \A x \in Frozen : x.message.recipient = "delivery_agent" =>
        View(x.message.recipient, study.reading) = x.fingerprint

\* Each recipient sees what it saw when the message was frozen.
SameViews == \A x \in Frozen : View(x.message.recipient, study.reading) = x.fingerprint

\* After this check the trials run on the copies of the views and of the messages.
Compare ==
    /\ study.pc = "read" /\ Len(study.reading) = Len(ObservationQueries)
    /\ SameViews
    /\ study' = [study EXCEPT !.pc = "trials"]
    /\ UNCHANGED <<db, imports, smoke, finished, studies, mixed>>

\* The artifacts are written, and read by no code; or the study fails anywhere.
StudyEnds ==
    /\ study.pc # "idle"
    /\ study' = NoStudy
    /\ UNCHANGED <<db, imports, smoke, finished, studies, mixed>>
-----------------------------------------------------------------------------
\* The import replaces all tables in one transaction.
Import(d) ==
    /\ imports < MaxImports /\ d # db
    /\ db' = d /\ imports' = imports + 1
    /\ mixed' = mixed \cup {r \in Runs : smoke[r].reading # <<>>}
    /\ UNCHANGED <<smoke, finished, study, studies>>

Next ==
    \/ \E r \in Runs :
           \/ \E selection \in Selections : Launch(r, selection)
           \/ Ask(r) \/ (\E predicted \in Predictions : RunPairs(r, predicted))
           \/ Write(r) \/ SmokeFails(r) \/ ReadManifest(r) \/ LoadFrozen(r)
    \/ Begin \/ AskAgain \/ Compare \/ StudyEnds
    \/ \E d \in Databases : Import(d)

Spec == Init /\ [][Next]_vars
-----------------------------------------------------------------------------
\* The results and the study as StudyPromise has them: nobody sees a result before it
\* is whole, nobody sees it change, and the study picks an acceptable one, although it
\* lists, reads and sorts the manifests while smoke runs are writing theirs.
Results == [k \in DOMAIN finished |->
    [cases |-> smoke[finished[k]].cases, records |-> smoke[finished[k]].records]]

Promise == INSTANCE StudyPromise WITH
    Pairs <- DirectedPairs, Nothing <- None, results <- Results,
    known <- IF study.pc = "idle" THEN None ELSE study.known,
    source <- IF study.source = None THEN None
              ELSE CHOOSE k \in DOMAIN finished : finished[k] = study.source
KeepsPromise == Promise!Spec

\* Every message that is repeated cites what its sender would cite on the rows that
\* the stability run itself read, whatever was loaded since the message was frozen:
\* comparing what the recipients see is enough, each agent being one.
MessagesGrounded ==
    study.pc = "trials" =>
        \A x \in Frozen :
            x.message.evidence_ids = EvidenceIds(x.message.sender, study.reading)

\* The rows that the views made from o show, taken together.
Shown(o) == <<[o[5] EXCEPT !.status = o[1].status], o[2], o[4]>>

\* The frozen label is the one the engine gives for what the agents now see, which no
\* code checks again, unless an import fell into the smoke run's own reading of the
\* case: the views leave nothing out that the label depends on.
LabelsFit ==
    study.pc = "trials" =>
        \/ study.source \in mixed
        \/ \A x \in Frozen : x.oracle = Oracle(Shown(study.reading))
=============================================================================
