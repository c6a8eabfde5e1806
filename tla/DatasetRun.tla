----------------------------- MODULE DatasetRun -----------------------------
(***************************************************************************)
(* One run directory of the research dataset                               *)
(* (src/experiments/pvoc_v0/studies/dataset_v1*.py): a process creates it, *)
(* appends the records of one pair of agents after the other, may stop,    *)
(* fail or be killed at any step, and is resumed from the directory.       *)
(*                                                                         *)
(* A raw file is the set of its records.  A record carries the attempt     *)
(* that wrote it, which no code reads: it tells records of different       *)
(* processes apart that may otherwise be equal.  Renames and appends by a  *)
(* live process are atomic; an append that is cut off leaves some of its   *)
(* lines and possibly half of the next one.                                *)
(*                                                                         *)
(* The database is what the policy engine says of each input case; it is   *)
(* read in many transactions, and may be loaded again between any two.     *)
(***************************************************************************)
EXTENDS Integers, FiniteSets, Sequences

CONSTANTS
    NumInputs, Cases,     \* input cases; those selected for this run
    NumPairs, NumTrials,  \* directed pairs; trials of a pair
    Contents,      \* what a pair's message and observation hash to
    Distribution,  \* the number of input cases expected for each label
    Databases,     \* what the engine says of the inputs, for each state of the database
    Unset,         \* an absent oracle mapping, dataset, summary or observation
    Budgets,       \* values of stop_after_cases, 0 for none
    Tears,         \* BOOLEAN: a cut-off append may leave half a line
    MaxResumes, MaxChanges  \* bounds: resumes, changes of the database

Inputs == 1..NumInputs
Labels == DOMAIN Distribution

ASSUME RunAssumption ==
    /\ NumInputs \in Nat /\ Cases \subseteq Inputs /\ Cases # {}
    /\ NumPairs \in Nat \ {0} /\ NumTrials \in Nat \ {0}
    /\ Databases \subseteq [Inputs -> Labels]
    /\ Unset \notin [Inputs -> Labels] /\ Unset \notin Contents
    /\ Budgets \subseteq Nat /\ Tears \in BOOLEAN
    /\ MaxResumes \in Nat /\ MaxChanges \in Nat

VARIABLES
    oracles,    \* the database now: what the policy engine says of its rows
    changes,    \* changes of the database so far
    manifest,   \* manifest.json; the process's own copy is always equal to it
    messages, trials, summaries,  \* the raw files
    torn,       \* one of them ends in half a line
    dataset, summary,             \* dataset.jsonl and summary.json
    pc,         \* what the process does next; "idle" when there is none
    labels,     \* oracle_actions: the labels read so far, in the order of the inputs
    found,      \* completed cases found on resume
    broken,     \* incomplete cases found on resume
    fresh,      \* cases completed by this process
    current,    \* the case being run
    budget,     \* cases left until the requested stop, 0 if none was requested
    pair,       \* the last pair of it whose message was appended
    candidate,  \* content of that message
    since,      \* history: for each label read, the number of changes when its reading began
    began,      \* history: the same for the label or the observations read now
    seen        \* history: what the engine says of the observations of the current case,
                \* the changes when they and their label were read

disk == <<manifest, messages, trials, summaries, torn, dataset, summary>>
raw == <<messages, trials, summaries, torn>>
published == <<dataset, summary>>
history == <<since, began, seen>>
memory == <<labels, found, broken, fresh, current, pair, candidate, budget, history>>
world == <<oracles, changes>>
vars == <<world, disk, pc, memory>>

Pairs == 1..NumPairs
TrialKeys == 1..NumTrials

Of(file, c) == {r \in file : r.case = c}
OfPair(file, c, p) == {r \in file : r.case = c /\ r.pair = p}

\* validate_pair_records, with the fields of the message that concern its trials
PairValid(m, ts) ==
    /\ {t.trial : t \in ts} = TrialKeys
    /\ \A t, u \in ts : t.trial = u.trial => t = u
    /\ \A t \in ts : t.content = m.content /\ t.oracle = m.oracle

\* validate_case_records: one message per pair, each with its trials, no others.
CaseValid(c, oracle, ms, ts) ==
    \A p \in Pairs : \E m \in OfPair(ms, c, p) :
        /\ OfPair(ms, c, p) = {m}
        /\ m.oracle = oracle
        /\ PairValid(m, OfPair(ts, c, p))

\* A case that has its summary and records that pass validation.
Complete(c) ==
    /\ c \in summaries /\ manifest.oracles # Unset
    /\ CaseValid(c, manifest.oracles[c], messages, trials)

\* build_dataset_sample for every message.
Samples == {[message |-> m, trials |-> OfPair(trials, m.case, m.pair)] : m \in messages}

\* validate_oracle_distribution
ExpectedDistribution(f) ==
    \A label \in Labels : Cardinality({n \in Inputs : f[n] = label}) = Distribution[label]

\* A label, or the observations of a case, take several transactions; a reading that the
\* database changed under sees some of the old rows and some of the new.
Reading == pc = "case" \/ (pc = "validate" /\ Len(labels) < NumInputs)
Midway == began < changes
Read(n) == IF Midway THEN Labels ELSE {oracles[n]}

Pending == Cases \ (found \cup fresh)
-----------------------------------------------------------------------------
\* create_run_directory has run; a directory without a manifest is never resumed.
Init ==
    /\ oracles \in Databases /\ changes = 0
    /\ manifest = [status |-> "RUNNING", oracles |-> Unset, resumes |-> 0,
                   failure |-> "none", case_count |-> 0]
    /\ messages = {} /\ trials = {} /\ summaries = {} /\ torn = FALSE
    /\ dataset = Unset /\ summary = Unset
    /\ pc = "validate" /\ found = {} /\ broken = {} /\ fresh = {}
    /\ current = 0 /\ pair = 0 /\ candidate = Unset /\ budget \in Budgets
    /\ labels = << >> /\ since = << >> /\ began = 0 /\ seen = Unset

\* The process is gone, and its memory with it.
Gone ==
    /\ pc' = "idle"
    /\ found' = {} /\ broken' = {} /\ fresh' = {}
    /\ current' = 0 /\ pair' = 0 /\ candidate' = Unset /\ budget' = 0
    /\ labels' = << >> /\ since' = << >> /\ began' = changes /\ seen' = Unset

\* update_manifest, in one rename.
Update(changed) == manifest' = [f \in DOMAIN manifest |->
    IF f \in DOMAIN changed THEN changed[f] ELSE manifest[f]]

\* The process ends with manifest.status = status.
Exit(status, failure) ==
    /\ Update([status |-> status, failure |-> failure])
    /\ Gone
    /\ UNCHANGED <<world, raw, published>>

\* Mutants of Resume: a COMPLETE run is resumed too; a run whose process was killed
\* (and so is still RUNNING) is not.
ResumeComplete ==
    /\ pc = "idle" /\ manifest.status # "INVALID"
    /\ manifest.resumes < MaxResumes
    /\ Update([resumes |-> manifest.resumes + 1])
    /\ pc' = "validate" /\ budget' = 0
    /\ UNCHANGED <<world, raw, published, labels, found, broken, fresh, current, pair, candidate,
                   history>>
ResumeInterrupted ==
    /\ pc = "idle" /\ manifest.status = "INTERRUPTED"
    /\ manifest.resumes < MaxResumes
    /\ Update([resumes |-> manifest.resumes + 1])
    /\ pc' = "validate" /\ budget' = 0
    /\ UNCHANGED <<world, raw, published, labels, found, broken, fresh, current, pair, candidate,
                   history>>

\* load_manifest refuses a run that is COMPLETE or INVALID; record_resume.
Resume ==
    /\ pc = "idle" /\ manifest.status \notin {"COMPLETE", "INVALID"}
    /\ manifest.resumes < MaxResumes
    /\ Update([resumes |-> manifest.resumes + 1])
    /\ pc' = "validate"
    /\ budget' \in IF manifest.resumes + 1 < MaxResumes THEN Budgets ELSE {0}
    /\ UNCHANGED <<world, raw, published, labels, found, broken, fresh, current, pair, candidate,
                   history>>

\* compute_all_oracles: the engine evaluates the rows of the next input.
ReadOracle(label) ==
    /\ pc = "validate" /\ Len(labels) < NumInputs
    /\ label \in Read(Len(labels) + 1)
    /\ labels' = Append(labels, label)
    /\ since' = Append(since, began) /\ began' = changes
    /\ UNCHANGED <<world, disk, pc, found, broken, fresh, current, pair, candidate, budget, seen>>

OraclesAccepted ==
    /\ ExpectedDistribution(labels)
    /\ manifest.oracles = Unset \/ manifest.oracles = labels

\* Mutant of Validate: on resume the mapping in the manifest is trusted.
ValidateTrusting ==
    /\ pc = "validate" /\ Len(labels) = NumInputs
    /\ OraclesAccepted \/ manifest.oracles # Unset
    /\ labels' = IF manifest.oracles # Unset THEN manifest.oracles ELSE labels
    /\ Update([oracles |-> labels', status |-> "RUNNING", failure |-> "none"])
    /\ pc' = "inspect"
    /\ UNCHANGED <<world, raw, published, found, broken, fresh, current, pair, candidate, budget,
                   history>>

\* All labels are read: their distribution, and the mapping in the manifest, are checked.
Validate ==
    /\ pc = "validate" /\ Len(labels) = NumInputs /\ OraclesAccepted
    /\ Update([oracles |-> labels, status |-> "RUNNING", failure |-> "none"])
    /\ pc' = "inspect"
    /\ UNCHANGED <<world, raw, published, memory>>

RefuseOracles ==
    /\ pc = "validate" /\ Len(labels) = NumInputs /\ ~OraclesAccepted
    /\ Exit("INVALID", "validation")

\* Mutant of Inspect: a case is incomplete only if it has messages.
InspectMessages ==
    /\ pc = "inspect" /\ ~torn
    /\ found' = {c \in Cases : Complete(c)}
    /\ broken' = {c \in Cases \ found' : Of(messages, c) # {}}
    /\ pc' = IF broken' = {} THEN "clean_summaries" ELSE "clean_messages"
    /\ UNCHANGED <<world, disk, labels, fresh, current, pair, candidate, budget, history>>

\* inspect_and_clean_resume_state reads the raw files; half a line does not parse
\* (a pydantic or JSON error, not a DatasetV1ValidationError).
Inspect ==
    /\ pc = "inspect" /\ ~torn
    /\ found' = {c \in Cases : Complete(c)}
    /\ broken' = {c \in Cases \ found' : Of(messages, c) \cup Of(trials, c) # {}}
    /\ pc' = IF broken' = {} THEN "clean_summaries" ELSE "clean_messages"
    /\ UNCHANGED <<world, disk, labels, fresh, current, pair, candidate, budget, history>>

Unparsable == pc = "inspect" /\ torn /\ Exit("INTERRUPTED", "execution")

CleanMessages ==
    /\ pc = "clean_messages"
    /\ messages' = {m \in messages : m.case \notin broken}
    /\ pc' = "clean_trials"
    /\ UNCHANGED <<world, manifest, trials, summaries, torn, published, memory>>

CleanTrials ==
    /\ pc = "clean_trials"
    /\ trials' = {t \in trials : t.case \notin broken}
    /\ pc' = "clean_summaries"
    /\ UNCHANGED <<world, manifest, messages, summaries, torn, published, memory>>

\* Mutant of CleanSummaries: a run with no case left is taken to have its dataset.
CleanSummariesDone ==
    /\ pc = "clean_summaries"
    /\ summaries' = summaries \cap found
    /\ pc' = IF Pending = {} THEN "complete" ELSE "case"
    /\ UNCHANGED <<world, manifest, messages, trials, torn, published, memory>>

CleanSummaries ==
    /\ pc = "clean_summaries"
    /\ summaries' = summaries \cap found
    /\ pc' = IF Pending = {} THEN "finalize" ELSE "case"
    /\ UNCHANGED <<world, manifest, messages, trials, torn, published, memory>>

\* build_case_state has read the observations of the first pending case (StudyProtocol
\* has the queries), of which the engine would say label; run_case starts with the
\* senders' decisions.
StartCase(label) ==
    /\ pc = "case"
    /\ current' \in Pending /\ \A c \in Pending : current' <= c
    /\ label \in Read(current')
    /\ seen' = [label |-> label, since |-> since[current'], from |-> began, to |-> changes]
    /\ pair' = 0 /\ pc' = "message" /\ began' = changes
    /\ UNCHANGED <<world, disk, labels, found, broken, fresh, candidate, budget, since>>

\* The trials of a pair have been run when its message is appended.
AppendMessage(content) ==
    /\ pc = "message"
    /\ messages' = messages \cup {[case |-> current, pair |-> pair + 1, content |-> content,
                                   oracle |-> labels[current],
                                   attempt |-> manifest.resumes, seen |-> seen]}
    /\ pair' = pair + 1 /\ candidate' = content
    /\ pc' = "trials"
    /\ UNCHANGED <<world, manifest, trials, summaries, torn, published, labels, found, broken,
                   fresh, current, budget, history>>

\* The first k trial records of the pair whose message was appended last.
TrialLines(k) ==
    {[case |-> current, pair |-> pair, trial |-> t, content |-> candidate,
      oracle |-> labels[current], attempt |-> manifest.resumes] : t \in 1..k}

AppendTrials ==
    /\ pc = "trials"
    /\ trials' = trials \cup TrialLines(NumTrials)
    /\ pc' = IF pair = NumPairs THEN "summary" ELSE "message"
    /\ UNCHANGED <<world, manifest, messages, summaries, torn, published, memory>>

\* The case is done; the process goes on, stops as requested or finalizes.
AppendSummary ==
    /\ pc = "summary"
    /\ summaries' = summaries \cup {current}
    /\ fresh' = fresh \cup {current}
    /\ pc' = IF budget = 1 THEN "stop" ELSE IF Pending = {current} THEN "finalize" ELSE "case"
    /\ budget' = IF budget > 1 THEN budget - 1 ELSE budget
    /\ UNCHANGED <<world, manifest, messages, trials, torn, published, labels, found, broken,
                   current, pair, candidate, history>>

ControlledStop ==
    /\ pc = "stop"
    /\ Update([status |-> "INTERRUPTED", failure |-> "ControlledStop",
               case_count |-> Cardinality(found) + Cardinality(fresh)])
    /\ Gone
    /\ UNCHANGED <<world, raw, published>>

\* finalize_run: the checks on the raw files, then three writes.
Final ==
    /\ Cardinality(messages) = Cardinality(Cases) * NumPairs
    /\ Cardinality(trials) = Cardinality(Cases) * NumPairs * NumTrials
    /\ \A c \in Cases : CaseValid(c, manifest.oracles[c], messages, trials)

WriteDataset ==
    /\ pc = "finalize"
    /\ IF Final
       THEN /\ dataset' = Samples
            /\ pc' = "write_summary"
            /\ UNCHANGED <<world, manifest, raw, summary, memory>>
       ELSE Exit("INVALID", "validation")

WriteSummary ==
    /\ pc = "write_summary"
    /\ summary' = Samples
    /\ pc' = "complete"
    /\ UNCHANGED <<world, manifest, raw, dataset, memory>>

WriteComplete ==
    /\ pc = "complete"
    /\ Update([status |-> "COMPLETE", failure |-> "none", case_count |-> Cardinality(Cases)])
    /\ Gone
    /\ UNCHANGED <<world, raw, published>>

\* What a step that does not finish leaves of its append.
CutOff ==
    /\ \E k \in 0..NumTrials :
           /\ pc = "trials" \/ k = 0
           /\ trials' = trials \cup (IF k = 0 THEN {} ELSE TrialLines(k))
           /\ torn' \in BOOLEAN /\ (torn => torn')
           /\ torn' => torn \/ (Tears /\ k < NumTrials /\ pc \in {"message", "trials", "summary"})
    /\ UNCHANGED <<messages, summaries>>

\* Any Exception while the process runs (database, model service, disk).
Fail ==
    /\ pc # "idle" /\ manifest.resumes < MaxResumes
    /\ CutOff
    /\ Update([status |-> "INTERRUPTED", failure |-> "execution"])
    /\ Gone
    /\ UNCHANGED <<world, published>>

\* The process is killed, or interrupted from the keyboard.
Crash ==
    /\ pc # "idle" /\ manifest.resumes < MaxResumes
    /\ CutOff
    /\ Gone
    /\ UNCHANGED <<world, manifest, published>>

\* The database is loaded again, with other rows; what the process reads just now, it
\* has begun to read or not.
Change ==
    /\ changes < MaxChanges
    /\ oracles' \in Databases \ {oracles}
    /\ changes' = changes + 1
    /\ began' \in (IF Reading THEN {began} ELSE {}) \cup (IF Midway THEN {} ELSE {changes'})
    /\ UNCHANGED <<disk, pc, labels, found, broken, fresh, current, pair, candidate, budget,
                   since, seen>>

\* Nothing happens to a directory until somebody resumes it.
Rest == pc = "idle" /\ UNCHANGED vars

Step ==
    \/ Resume \/ (\E label \in Labels : ReadOracle(label)) \/ Validate \/ RefuseOracles
    \/ Inspect \/ Unparsable
    \/ CleanMessages \/ CleanTrials \/ CleanSummaries
    \/ (\E label \in Labels : StartCase(label))
    \/ (\E content \in Contents : AppendMessage(content)) \/ AppendTrials
    \/ AppendSummary \/ ControlledStop
    \/ WriteDataset \/ WriteSummary \/ WriteComplete

Next == Step \/ Fail \/ Crash \/ Change \/ Rest

Spec == Init /\ [][Next]_vars

\* A running process makes its next step, for every call it awaits has a
\* timeout; and a run that stopped is resumed, as its manifest asks for.
FairSpec == Spec /\ WF_vars(Step)
-----------------------------------------------------------------------------
\* The raw files never mix two attempts at a case: what a process that was cut off
\* left of a case is gone before the next attempt at it appends anything, even if
\* the cleaning was itself cut off between two files.
CaseFromOneAttempt ==
    \A c \in Cases : \A r, s \in Of(messages, c) \cup Of(trials, c) : r.attempt = s.attempt

\* What a manifest says is so, however often cleaning and publishing were cut off and
\* repeated.  COMPLETE stands for a dataset and a summary of exactly the raw records
\* there are, for all cases, which nothing changes any more.  INVALID, which forbids
\* resumption for ever, is only the work of a database with other oracles, never of
\* crashes, failures and stops.  A controlled stop counts the completed cases of all
\* processes so far.
ManifestHonest ==
    /\ manifest.status = "COMPLETE" =>
           /\ \A c \in Cases : Complete(c)
           /\ dataset = Samples /\ summary = Samples
           /\ ~torn /\ pc = "idle"
    /\ manifest.status = "INVALID" => changes > 0 \/ ~ExpectedDistribution(oracles)
    /\ manifest.failure = "ControlledStop" =>
           manifest.case_count = Cardinality({c \in Cases : Complete(c)})

\* The label of a message and what the engine says of the rows its agents saw are two
\* readings of one order, minutes apart.  They differ only if the database was loaded
\* between the beginning of the first and the end of the second, in one process.  And
\* no later process goes on with such a message, or completes the run, unless the
\* database was loaded again or was loaded while the agents' rows were read: it reads
\* the label anew and finds it changed.
LabelFits ==
    \A m \in messages : m.seen.label # m.oracle =>
        /\ m.seen.since < m.seen.to
        /\ /\ m.attempt # manifest.resumes
           /\ pc \notin {"idle", "validate"} \/ manifest.status = "COMPLETE"
           => m.seen.from < m.seen.to \/ m.seen.to < changes

\* A run that is resumed whenever it stopped ends COMPLETE, or INVALID because of the
\* database, or with a line that was cut off in the middle.
RunSettles == <>(manifest.status \in {"COMPLETE", "INVALID"} \/ torn)

\* The run as its readers see it.
Committed == [c \in Cases |->
    IF Complete(c) THEN Of(messages, c) \cup Of(trials, c) ELSE {}]
Published ==
    IF manifest.status # "COMPLETE" THEN Unset
    ELSE UNION {{x.message} \cup x.trials : x \in dataset}

\* The directory does what DatasetPromise promises of it, through all crashes.
Promise == INSTANCE DatasetPromise
    WITH Nothing <- Unset, status <- manifest.status,
         committed <- Committed, published <- Published
KeepsPromise == Promise!Spec

\* IMPLEMENTATION_LOG.md:65: --resume removes incomplete cases before it runs them
\* again from a clean boundary.  So a resume can read what a cut-off process left.
ResumeReadable == pc = "inspect" => ~torn
=============================================================================
