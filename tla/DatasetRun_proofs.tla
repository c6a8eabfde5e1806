-------------------------- MODULE DatasetRun_proofs --------------------------
(***************************************************************************)
(* Theorems about DatasetRun, for any cases, pairs, trials and oracles, any *)
(* number of resumes and changes, whether appends tear or not.             *)
(*                                                                         *)
(* The inductive invariant is the conjunction of what is Stored in the raw *)
(* files, what is Known of the manifest and the oracles, how the labels and *)
(* observations that were read relate to the database (Labelled), what the *)
(* process Found on resume, how far its Work on the current case is, and   *)
(* what was Issued.                                                        *)
(***************************************************************************)
EXTENDS DatasetRun, FiniteSetTheorems, SequenceTheorems, TLAPS

Records(c) == Of(messages, c) \cup Of(trials, c)

\* The records of one pair pass validation.
PairDone(c, p) == \E m \in OfPair(messages, c, p) :
    /\ OfPair(messages, c, p) = {m}
    /\ m.oracle = manifest.oracles[c]
    /\ PairValid(m, OfPair(trials, c, p))

Valid(c) == \A p \in Pairs : PairDone(c, p)
FromOne(c) == \A r, s \in Records(c) : r.attempt = s.attempt

\* Only cases that pass validation have a summary.
Stored ==
    /\ \A m \in messages : m.case \in Cases /\ m.pair \in Pairs
    /\ \A t \in trials : t.case \in Cases /\ t.pair \in Pairs /\ t.trial \in TrialKeys
    /\ summaries \subseteq Cases /\ \A c \in summaries : Valid(c)
    /\ \A c \in Cases : FromOne(c)
    /\ manifest.oracles = Unset => messages = {} /\ trials = {} /\ summaries = {}

Cleaning == {"clean_messages", "clean_trials"}
Working == {"message", "trials", "summary"}
Finishing == {"finalize", "write_summary", "complete"}
Between == {"clean_summaries", "case", "stop"} \cup Finishing
Inspected == Cleaning \cup Working \cup Between

Known ==
    /\ oracles \in Databases /\ changes \in Nat
    /\ DOMAIN manifest = {"status", "oracles", "resumes", "failure", "case_count"}
    /\ manifest.status \in {"RUNNING", "INTERRUPTED", "COMPLETE", "INVALID"}
    /\ manifest.oracles \in [Inputs -> Labels] \cup {Unset}
    /\ pc \in Inspected \cup {"idle", "validate", "inspect"}
    /\ manifest.oracles # Unset => changes > 0 \/ manifest.oracles = oracles
    /\ pc \in Inspected \cup {"inspect"} =>
           /\ manifest.oracles # Unset /\ manifest.status = "RUNNING" /\ manifest.failure = "none"
           /\ labels = manifest.oracles

\* Observations o of input n, of which the label was read in the same process: they
\* contradict it only if the database changed meanwhile, and they are those of the
\* database now if it has not changed since they were read.
Sound(o, label, n) ==
    /\ o.from \in Nat /\ o.to \in Nat /\ o.from <= o.to /\ o.to <= changes
    /\ o.label # label => o.since < o.to
    /\ o.from = changes => o.label = oracles[n]

\* Nobody goes on with observations that were read in one state of the database, which
\* is its state now, and that contradict their label.
Noticed(m) == m.seen.label # m.oracle => m.seen.from < m.seen.to \/ m.seen.to < changes
GoesOn == pc \notin {"idle", "validate"} \/ manifest.status = "COMPLETE"

\* A label that was read after the last change is that of the database now.
Readings ==
    /\ labels \in Seq(Labels) /\ since \in Seq(Nat)
    /\ Len(labels) = Len(since) /\ Len(labels) <= NumInputs
    /\ began \in Nat /\ began <= changes /\ (Midway => Reading)
    /\ \A n \in 1..Len(labels) :
           since[n] <= began /\ (since[n] = changes => labels[n] = oracles[n])
    /\ pc = "idle" => Len(labels) = 0
    /\ pc \in Inspected \cup {"inspect"} => Len(labels) = NumInputs

Labelled ==
    /\ Readings
    /\ \A m \in messages :
           /\ m.oracle = manifest.oracles[m.case]
           /\ Sound(m.seen, m.oracle, m.case)
           /\ m.attempt # manifest.resumes /\ GoesOn => Noticed(m)
           /\ pc = "validate" =>
                  m.seen.to <= began /\ \A n \in 1..Len(labels) : m.seen.to <= since[n]
    /\ pc \in Working => Sound(seen, labels[current], current)

\* A case without a summary has no records left, but for the case at work; while
\* cleaning, those that have are the broken ones.
Found ==
    /\ pc \in {"idle", "validate", "inspect", "clean_summaries"} \cup Cleaning => fresh = {}
    /\ pc \in Inspected =>
           ~torn /\ summaries = found \cup fresh /\ found \cap fresh = {}
    /\ pc \in Cleaning =>
           /\ broken \cap summaries = {}
           /\ \A c \in Cases \ summaries : c \in broken \/ Records(c) = {}
    /\ pc = "clean_trials" => \A c \in broken : Of(messages, c) = {}
    /\ pc \in Between => \A c \in Cases \ summaries : Records(c) = {}
    /\ pc \in Working => \A c \in Cases \ (summaries \cup {current}) : Records(c) = {}

\* The pairs of the current case that are done, the pair whose trials are to be
\* appended, and the pairs to come.
Work ==
    pc \in Working =>
        /\ current \in Cases \ summaries /\ pair \in 0..NumPairs
        /\ pc = "message" => pair < NumPairs
        /\ pc = "trials" => pair \in Pairs
        /\ pc = "summary" => pair = NumPairs
        /\ \A r \in Records(current) : r.attempt = manifest.resumes
        /\ \A p \in Pairs : p < pair \/ (p = pair /\ pc # "trials") => PairDone(current, p)
        /\ pc = "trials" =>
               \E m \in OfPair(messages, current, pair) :
                   /\ OfPair(messages, current, pair) = {m}
                   /\ m.oracle = manifest.oracles[current] /\ m.content = candidate
        /\ pc = "trials" => OfPair(trials, current, pair) = {}
        /\ \A p \in Pairs : p > pair =>
               OfPair(messages, current, p) = {} /\ OfPair(trials, current, p) = {}

\* What the process has published so far, and what the manifest says of it.
Issued ==
    /\ pc \in Finishing => summaries = Cases
    /\ pc \in {"write_summary", "complete"} => dataset = Samples
    /\ pc = "complete" => summary = Samples
    /\ manifest.status = "COMPLETE" =>
           /\ summaries = Cases /\ dataset = Samples /\ summary = Samples
           /\ ~torn /\ pc = "idle" /\ manifest.failure = "none" /\ manifest.oracles # Unset
    /\ manifest.status = "INVALID" => pc = "idle" /\ (changes > 0 \/ ~ExpectedDistribution(oracles))
    /\ manifest.failure = "ControlledStop" =>
           pc \in {"idle", "validate"} /\ manifest.case_count = Cardinality(summaries)

IInv == Stored /\ Known /\ Labelled /\ Found /\ Work /\ Issued
-----------------------------------------------------------------------------
\* What update_manifest does to the fields.
LEMMA Updated ==
    ASSUME NEW changed, Known, Update(changed)
    PROVE  /\ DOMAIN manifest' = {"status", "oracles", "resumes", "failure", "case_count"}
           /\ "status" \notin DOMAIN changed => manifest'.status = manifest.status
           /\ "status" \in DOMAIN changed => manifest'.status = changed.status
           /\ "oracles" \notin DOMAIN changed => manifest'.oracles = manifest.oracles
           /\ "oracles" \in DOMAIN changed => manifest'.oracles = changed.oracles
           /\ "resumes" \notin DOMAIN changed => manifest'.resumes = manifest.resumes
           /\ "failure" \notin DOMAIN changed => manifest'.failure = manifest.failure
           /\ "failure" \in DOMAIN changed => manifest'.failure = changed.failure
           /\ "case_count" \notin DOMAIN changed => manifest'.case_count = manifest.case_count
           /\ "case_count" \in DOMAIN changed => manifest'.case_count = changed.case_count
BY DEF Known, Update

LEMMA ValidIsCaseValid ==
    ASSUME NEW c
    PROVE  CaseValid(c, manifest.oracles[c], messages, trials) <=> Valid(c)
BY DEF CaseValid, Valid, PairDone

\* Validation reads nothing but the records of the pair and its oracle.
LEMMA PairKept ==
    ASSUME NEW c, NEW p, manifest'.oracles = manifest.oracles,
           OfPair(messages, c, p)' = OfPair(messages, c, p),
           OfPair(trials, c, p)' = OfPair(trials, c, p)
    PROVE  PairDone(c, p)' <=> PairDone(c, p)
BY DEF PairDone

LEMMA CaseKept ==
    ASSUME NEW c, manifest'.oracles = manifest.oracles,
           Of(messages, c)' = Of(messages, c), Of(trials, c)' = Of(trials, c)
    PROVE  /\ Valid(c)' <=> Valid(c)
           /\ Records(c)' = Records(c)
           /\ FromOne(c)' <=> FromOne(c)
<1>1. ASSUME NEW p
      PROVE  /\ OfPair(messages, c, p)' = OfPair(messages, c, p)
             /\ OfPair(trials, c, p)' = OfPair(trials, c, p)
  <2>1. \A file : OfPair(file, c, p) = {r \in Of(file, c) : r.pair = p}
    BY DEF Of, OfPair
  <2>2. /\ OfPair(messages, c, p)' = {r \in Of(messages, c)' : r.pair = p}
        /\ OfPair(trials, c, p)' = {r \in Of(trials, c)' : r.pair = p}
    BY DEF Of, OfPair
  <2> QED BY <2>1, <2>2
<1>2. \A p \in Pairs : PairDone(c, p)' <=> PairDone(c, p)
  BY <1>1, PairKept
<1>3. Pairs' = Pairs
  BY DEF Pairs
<1> QED BY <1>2, <1>3 DEF Valid, Records, FromOne

\* Where the raw files and the oracles stay, all of this does.
LEMMA RawKept ==
    ASSUME UNCHANGED <<messages, trials>>, manifest'.oracles = manifest.oracles
    PROVE  /\ \A c : Valid(c)' <=> Valid(c)
           /\ \A c : Records(c)' = Records(c)
           /\ \A c : FromOne(c)' <=> FromOne(c)
           /\ \A c, p : PairDone(c, p)' <=> PairDone(c, p)
           /\ Samples' = Samples
<1>1. \A c : Of(messages, c)' = Of(messages, c) /\ Of(trials, c)' = Of(trials, c)
  BY DEF Of
<1>2. \A c, p : /\ OfPair(messages, c, p)' = OfPair(messages, c, p)
               /\ OfPair(trials, c, p)' = OfPair(trials, c, p)
  BY DEF OfPair
<1>3. Samples' = Samples
  BY DEF Samples, OfPair
<1> QED BY <1>1, <1>2, <1>3, PairKept, CaseKept

LEMMA StoredKept ==
    ASSUME Stored, UNCHANGED <<messages, trials, summaries>>, manifest'.oracles = manifest.oracles
    PROVE  Stored'
BY RawKept DEF Stored, Pairs, TrialKeys
-----------------------------------------------------------------------------
LEMMA CasesFinite == IsFiniteSet(Cases)
<1>1. IsFiniteSet(Inputs)
  BY FS_Interval, RunAssumption DEF Inputs
<1> QED BY <1>1, FS_Subset, RunAssumption

\* A step of a running process that reads nothing.
LEMMA LabelledInner ==
    ASSUME IInv, pc \in (Inspected \cup {"inspect"}) \ {"case"}, pc' \in Inspected,
           pc' \in Working => pc \in Working,
           UNCHANGED <<oracles, changes, labels, since, began, seen, current>>,
           manifest'.oracles = manifest.oracles, manifest'.resumes = manifest.resumes,
           messages' \subseteq messages
    PROVE  Labelled'
<1>1. /\ pc \notin {"idle", "validate", "case"} /\ pc' \notin {"idle", "validate"}
      /\ GoesOn
  BY DEF Inspected, Cleaning, Between, Finishing, Working, GoesOn
<1>2. ~Midway /\ ~Midway'
  BY <1>1 DEF IInv, Labelled, Readings, Midway, Reading
<1>3. Readings'
  BY <1>1, <1>2 DEF IInv, Labelled, Readings
<1>4. ASSUME NEW m \in messages'
      PROVE  /\ m.oracle = manifest'.oracles[m.case]
             /\ Sound(m.seen, m.oracle, m.case)'
             /\ m.attempt # manifest'.resumes => Noticed(m)'
  BY <1>1, <1>4 DEF IInv, Labelled, Sound, Noticed
<1>5. pc' \in Working => Sound(seen, labels[current], current)'
  BY DEF IInv, Labelled, Sound
<1> QED BY <1>1, <1>3, <1>4, <1>5 DEF Labelled, GoesOn

\* A process that is gone has read nothing.
LEMMA LabelledGone ==
    ASSUME IInv, Gone, UNCHANGED <<oracles, changes, messages>>, pc # "idle",
           manifest'.oracles = manifest.oracles, manifest'.resumes = manifest.resumes,
           manifest'.status = "COMPLETE" => pc = "complete"
    PROVE  Labelled'
<1>1. /\ pc' = "idle" /\ labels' = << >> /\ since' = << >> /\ began' = changes'
  BY DEF Gone
<1>2. changes' \in Nat
  BY DEF IInv, Known
<1>3. Readings'
  BY <1>1, <1>2, RunAssumption
     DEF Readings, Midway, Reading, Inspected, Cleaning, Between, Finishing, Working
<1>4. ASSUME NEW m \in messages'
      PROVE  /\ m.oracle = manifest'.oracles[m.case]
             /\ Sound(m.seen, m.oracle, m.case)'
             /\ m.attempt # manifest'.resumes /\ GoesOn' => Noticed(m)'
  BY <1>1, <1>4 DEF IInv, Labelled, Sound, Noticed, GoesOn
<1> QED BY <1>1, <1>3, <1>4 DEF Labelled, Working

\* All labels are read.
LEMMA AllRead ==
    ASSUME IInv, Len(labels) = NumInputs
    PROVE  /\ labels \in [Inputs -> Labels] /\ 1..Len(labels) = Inputs
           /\ changes = 0 => labels = oracles
<1>1. labels \in Seq(Labels) /\ since \in Seq(Nat) /\ Len(since) = NumInputs
  BY DEF IInv, Labelled, Readings
<1>2. labels \in [Inputs -> Labels] /\ 1..Len(labels) = Inputs
  BY <1>1 DEF Inputs
<1>3. ASSUME changes = 0 PROVE labels = oracles
  <2>1. \A n \in Inputs : since[n] \in Nat /\ since[n] <= began /\ began = 0
    BY <1>1, <1>3 DEF IInv, Labelled, Readings, Inputs
  <2>2. \A n \in Inputs : labels[n] = oracles[n]
    BY <1>2, <1>3, <2>1 DEF IInv, Labelled, Readings
  <2>3. oracles \in [Inputs -> Labels]
    BY RunAssumption DEF IInv, Known
  <2> QED BY <1>2, <2>2, <2>3
<1> QED BY <1>2, <1>3
-----------------------------------------------------------------------------
LEMMA InitInv == Init => IInv
<1> SUFFICES ASSUME Init PROVE IInv
  OBVIOUS
<1>1. Stored
  BY DEF Init, Stored, FromOne, Records, Of
<1>2. Known
  BY RunAssumption DEF Init, Known, Inspected, Cleaning, Between, Finishing, Working
<1>5. Labelled
  BY RunAssumption DEF Init, Labelled, Readings, Midway, Reading,
                       Inspected, Cleaning, Between, Finishing, Working
<1>3. Found /\ Work
  BY DEF Init, Found, Work, Inspected, Cleaning, Between, Finishing, Working
<1>4. Issued
  BY DEF Init, Issued, Finishing
<1> QED BY <1>1, <1>2, <1>3, <1>4, <1>5 DEF IInv

\* A process that is gone knows nothing; what it leaves is on the disk.
LEMMA GoneInv == ASSUME Stored', Known', Labelled', Issued', Gone PROVE IInv'
BY DEF Gone, IInv, Found, Work, Inspected, Cleaning, Between, Finishing, Working

LEMMA ExitInv ==
    ASSUME IInv, NEW status \in {"INTERRUPTED", "INVALID"}, NEW failure \in {"validation", "execution"},
           Exit(status, failure), pc # "idle",
           status = "INVALID" => changes > 0 \/ ~ExpectedDistribution(oracles)
    PROVE  IInv'
<1>1. Gone /\ UNCHANGED <<oracles, changes, messages, trials, summaries, torn, dataset, summary>>
  BY DEF Exit, world, raw, published
<1>2. /\ DOMAIN manifest' = DOMAIN manifest /\ manifest'.oracles = manifest.oracles
      /\ manifest'.status = status /\ manifest'.failure = failure
      /\ manifest'.resumes = manifest.resumes
  BY Updated DEF Exit, IInv, Known
<1>3. Stored'
  BY <1>1, <1>2, StoredKept DEF IInv
<1>4. pc' = "idle"
  BY <1>1 DEF Gone
<1>5. Known'
  BY <1>1, <1>2, <1>4 DEF IInv, Known, Inspected, Cleaning, Between, Finishing, Working
<1>6. Issued'
  BY <1>1, <1>2, <1>4 DEF Issued, Finishing, ExpectedDistribution
<1>7. Labelled'
  BY <1>1, <1>2, LabelledGone
<1> QED BY <1>1, <1>3, <1>5, <1>6, <1>7, GoneInv

LEMMA ResumeInv == ASSUME IInv, Resume PROVE IInv'
<1>1. /\ pc = "idle" /\ pc' = "validate" /\ manifest.status \notin {"COMPLETE", "INVALID"}
      /\ UNCHANGED <<oracles, changes, messages, trials, summaries, torn, dataset, summary, fresh,
                     labels, since, began>>
  BY DEF Resume, world, raw, published, history
<1>2. /\ DOMAIN manifest' = DOMAIN manifest /\ manifest'.oracles = manifest.oracles
      /\ manifest'.status = manifest.status /\ manifest'.failure = manifest.failure
      /\ manifest'.case_count = manifest.case_count
  BY Updated DEF Resume, IInv, Known
<1>3. Stored'
  BY <1>1, <1>2, StoredKept DEF IInv
<1>4. Known'
  BY <1>1, <1>2 DEF IInv, Known, Inspected, Cleaning, Between, Finishing, Working
<1>5. Found' /\ Work'
  BY <1>1 DEF IInv, Found, Work, Inspected, Cleaning, Between, Finishing, Working
<1>6. Issued'
  BY <1>1, <1>2 DEF IInv, Issued, Finishing, ExpectedDistribution
<1>7. Readings' /\ Len(labels') = 0 /\ began' = changes'
  BY <1>1 DEF IInv, Known, Labelled, Readings, Midway, Reading,
              Inspected, Cleaning, Between, Finishing, Working
<1>8. ASSUME NEW m \in messages'
      PROVE  /\ m.oracle = manifest'.oracles[m.case]
             /\ Sound(m.seen, m.oracle, m.case)'
             /\ m.seen.to <= began'
  BY <1>1, <1>2, <1>7, <1>8 DEF IInv, Labelled, Sound
<1>9. ~GoesOn' /\ pc' \notin Working
  BY <1>1, <1>2 DEF GoesOn, Working
<1>10. Labelled'
  BY <1>7, <1>8, <1>9 DEF Labelled
<1> QED BY <1>3, <1>4, <1>5, <1>6, <1>10 DEF IInv

LEMMA ReadOracleInv == ASSUME IInv, NEW label \in Labels, ReadOracle(label) PROVE IInv'
<1>1. /\ pc = "validate" /\ pc' = "validate" /\ Len(labels) < NumInputs
      /\ label \in Read(Len(labels) + 1)
      /\ labels' = Append(labels, label) /\ since' = Append(since, began) /\ began' = changes
      /\ UNCHANGED <<oracles, changes, manifest, messages, trials, summaries, torn, dataset, summary,
                     found, broken, fresh, current, pair, candidate, seen>>
  BY DEF ReadOracle, world, disk
<1>2. Stored'
  BY <1>1, StoredKept DEF IInv
<1>3. Known'
  BY <1>1 DEF IInv, Known, Inspected, Cleaning, Between, Finishing, Working
<1>4. Found' /\ Work' /\ Issued'
  BY <1>1 DEF IInv, Found, Work, Issued, Inspected, Cleaning, Between, Finishing, Working,
              ExpectedDistribution
<1>5. /\ labels \in Seq(Labels) /\ since \in Seq(Nat) /\ Len(labels) = Len(since)
      /\ began \in Nat /\ began <= changes /\ changes \in Nat /\ Len(labels) \in Nat
      /\ \A n \in 1..Len(labels) :
             since[n] <= began /\ (since[n] = changes => labels[n] = oracles[n])
  BY DEF IInv, Known, Labelled, Readings
<1>6. /\ labels' \in Seq(Labels) /\ since' \in Seq(Nat)
      /\ Len(labels') = Len(labels) + 1 /\ Len(since') = Len(labels) + 1
      /\ labels'[Len(labels) + 1] = label /\ since'[Len(labels) + 1] = began
      /\ \A n \in 1..Len(labels) : labels'[n] = labels[n] /\ since'[n] = since[n]
  BY <1>1, <1>5
<1>7. \A n \in 1..Len(labels') : n \in 1..Len(labels) \/ n = Len(labels) + 1
  BY <1>5, <1>6
<1>8. began = changes => label = oracles[Len(labels) + 1]
  BY <1>1, <1>5 DEF Read, Midway
<1>9. ASSUME NEW n \in 1..Len(labels')
      PROVE  since'[n] <= began' /\ (since'[n] = changes' => labels'[n] = oracles'[n])
  <2>1. CASE n \in 1..Len(labels)
    <3>1. since[n] \in Nat
      BY <1>5, <2>1
    <3> QED BY <1>1, <1>5, <1>6, <2>1, <3>1
  <2>2. CASE n = Len(labels) + 1
    BY <1>1, <1>5, <1>6, <1>8, <2>2
  <2> QED BY <1>7, <2>1, <2>2
<1>10. Readings'
  <2>1. Len(labels') <= NumInputs
    BY <1>1, <1>5, <1>6, RunAssumption
  <2>2. ~Midway' /\ began' \in Nat /\ began' <= changes'
    BY <1>1, <1>5 DEF Midway
  <2>3. pc' # "idle" /\ pc' \notin Inspected \cup {"inspect"}
    BY <1>1 DEF Inspected, Cleaning, Between, Finishing, Working
  <2> QED BY <1>6, <1>9, <2>1, <2>2, <2>3 DEF Readings
<1>11. ASSUME NEW m \in messages'
       PROVE  /\ m.oracle = manifest'.oracles[m.case]
              /\ Sound(m.seen, m.oracle, m.case)'
              /\ m.attempt # manifest'.resumes /\ GoesOn' => Noticed(m)'
              /\ m.seen.to <= began' /\ \A n \in 1..Len(labels') : m.seen.to <= since'[n]
  <2>1. /\ m.oracle = manifest.oracles[m.case] /\ Sound(m.seen, m.oracle, m.case)
        /\ m.attempt # manifest.resumes /\ GoesOn => Noticed(m)
        /\ m.seen.to <= began /\ \A n \in 1..Len(labels) : m.seen.to <= since[n]
    BY <1>1, <1>11 DEF IInv, Labelled
  <2>2. m.oracle = manifest'.oracles[m.case] /\ Sound(m.seen, m.oracle, m.case)'
    BY <1>1, <2>1 DEF Sound
  <2>3. m.attempt # manifest'.resumes /\ GoesOn' => Noticed(m)'
    BY <1>1, <2>1 DEF GoesOn, Noticed
  <2>4. m.seen.to <= began' /\ \A n \in 1..Len(labels') : m.seen.to <= since'[n]
    BY <1>1, <1>5, <1>6, <1>7, <2>1 DEF Sound
  <2> QED BY <2>2, <2>3, <2>4
<1>12. Labelled'
  BY <1>1, <1>10, <1>11 DEF Labelled, Working
<1> QED BY <1>2, <1>3, <1>4, <1>12 DEF IInv

LEMMA ValidateInv == ASSUME IInv, Validate PROVE IInv'
<1>1. /\ pc = "validate" /\ pc' = "inspect" /\ Len(labels) = NumInputs
      /\ manifest.oracles = Unset \/ manifest.oracles = labels
      /\ UNCHANGED <<oracles, changes, messages, trials, summaries, torn, dataset, summary, fresh,
                     labels, since, began>>
  BY DEF Validate, OraclesAccepted, world, raw, published, memory, history
<1>2. /\ DOMAIN manifest' = DOMAIN manifest /\ manifest'.oracles = labels
      /\ manifest'.status = "RUNNING" /\ manifest'.failure = "none"
  BY Updated DEF Validate, IInv, Known
<1>3. labels \in [Inputs -> Labels] /\ 1..Len(labels) = Inputs /\ (changes = 0 => labels = oracles)
  BY <1>1, AllRead
<1>4. manifest.oracles = Unset => messages = {} /\ trials = {} /\ summaries = {}
  BY DEF IInv, Stored
<1>5. Stored'
  <2>1. CASE manifest.oracles = labels
    BY <1>1, <1>2, <2>1, StoredKept DEF IInv
  <2>2. CASE manifest.oracles = Unset
    BY <1>1, <1>4, <2>2 DEF Stored, FromOne, Records, Of
  <2> QED BY <1>1, <2>1, <2>2
<1>6. Known'
  <2>1. changes \in Nat
    BY DEF IInv, Known
  <2>2. labels # Unset /\ (changes > 0 \/ labels = oracles)
    BY <1>3, <2>1, RunAssumption
  <2> QED BY <1>1, <1>2, <1>3, <2>2
          DEF IInv, Known, Inspected, Cleaning, Between, Finishing, Working
<1>7. Found' /\ Work'
  BY <1>1 DEF IInv, Found, Work, Inspected, Cleaning, Between, Finishing, Working
<1>8. Issued'
  BY <1>1, <1>2 DEF IInv, Issued, Finishing
<1>9. Readings'
  <2>1. ~Reading /\ ~Midway /\ ~Midway'
    BY <1>1, RunAssumption DEF IInv, Labelled, Readings, Reading, Midway
  <2> QED BY <1>1, <2>1 DEF IInv, Labelled, Readings
\* What this process has read would show that a message does not fit.
<1>10. ASSUME NEW m \in messages
       PROVE  /\ m.oracle = manifest'.oracles[m.case] /\ Sound(m.seen, m.oracle, m.case)
              /\ Noticed(m)
  <2>1. /\ manifest.oracles = labels /\ m.case \in 1..Len(labels)
    BY <1>1, <1>3, <1>4, RunAssumption DEF IInv, Stored
  <2>2. /\ m.oracle = labels[m.case] /\ Sound(m.seen, m.oracle, m.case)
        /\ m.seen.to <= since[m.case]
    BY <1>1, <2>1 DEF IInv, Labelled
  <2>3. /\ since[m.case] \in Nat /\ since[m.case] <= began /\ began <= changes
        /\ began \in Nat /\ changes \in Nat
        /\ since[m.case] = changes => labels[m.case] = oracles[m.case]
    BY <2>1 DEF IInv, Known, Labelled, Readings
  <2>4. Noticed(m)
    <3> SUFFICES ASSUME m.seen.from >= m.seen.to, m.seen.to >= changes
                 PROVE  m.seen.label = m.oracle
      BY <2>2, <2>3 DEF Noticed, Sound
    <3>1. m.seen.from = changes /\ since[m.case] = changes
      BY <2>2, <2>3 DEF Sound
    <3> QED BY <2>2, <2>3, <3>1 DEF Sound
  <2> QED BY <1>2, <2>1, <2>2, <2>4
<1>11. Labelled'
  <2>1. messages' = messages /\ pc' # "validate" /\ pc' \notin Working
    BY <1>1 DEF Working
  <2>2. \A m \in messages : (Sound(m.seen, m.oracle, m.case)' <=> Sound(m.seen, m.oracle, m.case))
                            /\ (Noticed(m)' <=> Noticed(m))
    BY <1>1 DEF Sound, Noticed
  <2> QED BY <1>9, <1>10, <2>1, <2>2 DEF Labelled
<1> QED BY <1>5, <1>6, <1>7, <1>8, <1>11 DEF IInv

LEMMA RefuseOraclesInv == ASSUME IInv, RefuseOracles PROVE IInv'
<1>1. /\ pc # "idle" /\ Len(labels) = NumInputs
      /\ \/ ~ExpectedDistribution(labels)
         \/ manifest.oracles # Unset /\ manifest.oracles # labels
  BY DEF RefuseOracles, OraclesAccepted
<1>2. changes \in Nat /\ (manifest.oracles # Unset => changes > 0 \/ manifest.oracles = oracles)
  BY DEF IInv, Known
<1>3. changes > 0 \/ ~ExpectedDistribution(oracles)
  BY <1>1, <1>2, AllRead
<1> QED BY <1>1, <1>3, ExitInv DEF RefuseOracles

LEMMA UnparsableInv == ASSUME IInv, Unparsable PROVE IInv'
BY ExitInv DEF Unparsable

\* A step of a running process that writes nothing to the disk.
LEMMA InnerInv ==
    ASSUME IInv, UNCHANGED <<world, manifest, raw, labels>>, pc \in Inspected \cup {"inspect"},
           pc' \in Inspected, Labelled', Found', Work', Issued'
    PROVE  IInv'
<1>1. UNCHANGED <<oracles, changes, manifest, messages, trials, summaries>>
  BY DEF world, raw
<1>2. Stored'
  BY <1>1, StoredKept DEF IInv
<1>3. Known'
  BY <1>1 DEF IInv, Known
<1> QED BY <1>2, <1>3 DEF IInv

LEMMA InspectInv == ASSUME IInv, Inspect PROVE IInv'
<1>1. /\ pc = "inspect" /\ ~torn
      /\ found' = {c \in Cases : Complete(c)}
      /\ broken' = {c \in Cases \ found' : Records(c) # {}}
      /\ pc' = IF broken' = {} THEN "clean_summaries" ELSE "clean_messages"
      /\ UNCHANGED <<oracles, changes, manifest, messages, trials, summaries, torn, dataset, summary,
                     fresh, labels, since, began, seen, current>>
  BY DEF Inspect, Records, world, disk, history
<1>2. found' = summaries
  BY <1>1, ValidIsCaseValid DEF Complete, IInv, Stored, Known
<1>3. fresh' = {} /\ manifest.status = "RUNNING" /\ manifest.failure = "none"
  BY <1>1 DEF IInv, Found, Known
<1>4. \A c : Records(c)' = Records(c)
  BY <1>1, RawKept
<1>5. Found'
  BY <1>1, <1>2, <1>3, <1>4 DEF Found, Inspected, Cleaning, Between, Finishing, Working
<1>6. Work' /\ Issued'
  BY <1>1, <1>3 DEF Work, Issued, Finishing, Working
<1>7. Labelled'
  BY <1>1, LabelledInner DEF Inspected, Cleaning, Between, Working
<1> QED BY <1>1, <1>5, <1>6, <1>7, InnerInv DEF world, raw, Inspected, Cleaning, Between
-----------------------------------------------------------------------------
\* The cleaning: a case with a summary keeps its records, a broken one loses them.
LEMMA FilteredStored ==
    ASSUME IInv, pc \in Cleaning, UNCHANGED <<manifest, summaries>>,
           messages' \subseteq messages, trials' \subseteq trials,
           \A c \in Cases \ broken : Of(messages, c)' = Of(messages, c)
                                    /\ Of(trials, c)' = Of(trials, c)
    PROVE  /\ Stored'
           /\ \A c \in Cases \ broken : Records(c)' = Records(c)
<1>1. broken \cap summaries = {}
  BY DEF IInv, Found
<1>2. \A c \in Cases \ broken : (Valid(c)' <=> Valid(c)) /\ Records(c)' = Records(c)
  BY CaseKept
<1>3. \A c \in summaries : Valid(c)'
  BY <1>1, <1>2 DEF IInv, Stored
<1>4. \A c \in Cases : Records(c)' \subseteq Records(c)
  BY DEF Records, Of
<1>5. \A c \in Cases : FromOne(c)'
  BY <1>4 DEF FromOne, IInv, Stored
<1>6. manifest.oracles # Unset
  BY DEF IInv, Known, Inspected
<1> QED BY <1>2, <1>3, <1>5, <1>6 DEF IInv, Stored, Pairs, TrialKeys

LEMMA CleanMessagesInv == ASSUME IInv, CleanMessages PROVE IInv'
<1>1. /\ pc = "clean_messages" /\ pc' = "clean_trials"
      /\ messages' = {m \in messages : m.case \notin broken}
      /\ UNCHANGED <<oracles, changes, manifest, trials, summaries, torn, dataset, summary,
                     found, broken, fresh, labels, since, began, seen, current>>
  BY DEF CleanMessages, world, published, memory, history
<1>2. \A c \in Cases \ broken : Of(messages, c)' = Of(messages, c) /\ Of(trials, c)' = Of(trials, c)
  BY <1>1 DEF Of
<1>3. Stored' /\ \A c \in Cases \ broken : Records(c)' = Records(c)
  BY <1>1, <1>2, FilteredStored DEF Cleaning
<1>4. \A c \in broken : Of(messages, c)' = {}
  BY <1>1 DEF Of
<1>5. Known'
  BY <1>1 DEF IInv, Known, Inspected, Cleaning
<1>6. Found'
  BY <1>1, <1>3, <1>4 DEF IInv, Found, Inspected, Cleaning, Between, Finishing, Working
<1>7. Work' /\ Issued'
  BY <1>1 DEF IInv, Work, Known, Issued, Inspected, Cleaning, Finishing, Working
<1>8. Labelled'
  BY <1>1, LabelledInner DEF Inspected, Cleaning, Between, Working
<1> QED BY <1>3, <1>5, <1>6, <1>7, <1>8 DEF IInv

LEMMA CleanTrialsInv == ASSUME IInv, CleanTrials PROVE IInv'
<1>1. /\ pc = "clean_trials" /\ pc' = "clean_summaries"
      /\ trials' = {t \in trials : t.case \notin broken}
      /\ UNCHANGED <<oracles, changes, manifest, messages, summaries, torn, dataset, summary,
                     found, broken, fresh, labels, since, began, seen, current>>
  BY DEF CleanTrials, world, published, memory, history
<1>2. \A c \in Cases \ broken : Of(messages, c)' = Of(messages, c) /\ Of(trials, c)' = Of(trials, c)
  BY <1>1 DEF Of
<1>3. Stored' /\ \A c \in Cases \ broken : Records(c)' = Records(c)
  BY <1>1, <1>2, FilteredStored DEF Cleaning
<1>4. \A c \in broken : Records(c)' = {}
  <2>1. \A c \in broken : Of(messages, c) = {}
    BY <1>1 DEF IInv, Found
  <2>2. \A c \in broken : Of(messages, c)' = {} /\ Of(trials, c)' = {}
    BY <1>1, <2>1 DEF Of
  <2> QED BY <2>2 DEF Records
<1>5. Known'
  BY <1>1 DEF IInv, Known, Inspected, Cleaning, Between
<1>6. Found'
  BY <1>1, <1>3, <1>4 DEF IInv, Found, Inspected, Cleaning, Between, Finishing, Working
<1>7. Work' /\ Issued'
  BY <1>1 DEF IInv, Work, Known, Issued, Inspected, Cleaning, Finishing, Working
<1>8. Labelled'
  BY <1>1, LabelledInner DEF Inspected, Cleaning, Between, Working
<1> QED BY <1>3, <1>5, <1>6, <1>7, <1>8 DEF IInv

\* Every summary was found, so none is cleaned away.
LEMMA CleanSummariesInv == ASSUME IInv, CleanSummaries PROVE IInv'
<1>1. /\ pc = "clean_summaries" /\ summaries' = summaries \cap found
      /\ pc' = IF Pending = {} THEN "finalize" ELSE "case"
      /\ UNCHANGED <<oracles, changes, manifest, messages, trials, torn, dataset, summary,
                     found, broken, fresh, labels, since, began, seen, current>>
  BY DEF CleanSummaries, world, published, memory, history
<1>2. summaries' = summaries /\ fresh = {}
  BY <1>1 DEF IInv, Found, Inspected, Between
<1>3. pc' = "finalize" => summaries = Cases
  BY <1>1, <1>2 DEF Pending, IInv, Stored, Found, Inspected, Between
<1>4. UNCHANGED <<world, manifest, raw, labels>>
  BY <1>1, <1>2 DEF world, raw
<1>5. \A c : Records(c)' = Records(c)
  BY <1>1, RawKept
<1>6. Found'
  BY <1>1, <1>2, <1>5 DEF IInv, Found, Inspected, Cleaning, Between, Finishing, Working
<1>7. Work' /\ Issued'
  BY <1>1, <1>2, <1>3 DEF IInv, Work, Known, Issued, Inspected, Between, Finishing, Working
<1>8. Labelled'
  BY <1>1, LabelledInner DEF Inspected, Between, Finishing, Working
<1> QED BY <1>1, <1>4, <1>6, <1>7, <1>8, InnerInv DEF Inspected, Between, Finishing

LEMMA StartCaseInv == ASSUME IInv, NEW label \in Labels, StartCase(label) PROVE IInv'
<1>1. /\ pc = "case" /\ pc' = "message" /\ current' \in Pending /\ pair' = 0
      /\ label \in Read(current')
      /\ seen' = [label |-> label, since |-> since[current'], from |-> began, to |-> changes]
      /\ began' = changes
      /\ UNCHANGED <<oracles, changes, manifest, messages, trials, summaries, torn, dataset, summary,
                     found, broken, fresh, labels, since>>
  BY DEF StartCase, world, disk
<1>3. current' \in Cases \ summaries
  BY <1>1 DEF Pending, IInv, Found, Inspected, Between
<1>4. \A c : Records(c)' = Records(c)
  BY <1>1, RawKept
<1>5. PICK c \in Cases \ summaries : c = current'
  BY <1>3
<1>6. \A d \in Cases \ summaries : Records(d)' = {}
  BY <1>1, <1>4 DEF IInv, Found, Between
<1>7. \A p : OfPair(messages', c, p) = {} /\ OfPair(trials', c, p) = {}
  BY <1>5, <1>6 DEF Records, Of, OfPair
<1>8. Found'
  BY <1>1, <1>6 DEF IInv, Found, Inspected, Cleaning, Between, Finishing, Working
<1>9. Records(current)' = {} /\ \A p : OfPair(messages, current, p)' = {} /\ OfPair(trials, current, p)' = {}
  BY <1>3, <1>5, <1>6, <1>7 DEF Records, Of, OfPair
<1>10. Work'
  BY <1>1, <1>3, <1>9, RunAssumption DEF Work, Working, Pairs
<1>11. Issued'
  BY <1>1 DEF IInv, Known, Issued, Inspected, Between, Finishing
<1>12. /\ c \in 1..Len(labels) /\ since \in Seq(Nat) /\ Len(since) = Len(labels)
       /\ Len(labels) = NumInputs
  BY <1>1, <1>5, RunAssumption
     DEF IInv, Labelled, Readings, Inputs, Inspected, Between
<1>13. /\ began \in Nat /\ changes \in Nat /\ began <= changes /\ since[c] \in Nat
       /\ since[c] <= began /\ (since[c] = changes => labels[c] = oracles[c])
  <2>1. since[c] \in Nat
    BY <1>12
  <2> QED BY <1>12, <2>1 DEF IInv, Known, Labelled, Readings
\* Observations that differ from the label were not read in the state it was read in.
<1>14. Sound(seen, labels[current], current)'
  <2>1. began = changes => label = oracles[c]
    BY <1>1, <1>5, <1>13 DEF Read, Midway
  <2>2. /\ seen'.label = label /\ seen'.since = since[c] /\ seen'.from = began /\ seen'.to = changes
        /\ labels'[current'] = labels[c] /\ oracles'[current'] = oracles[c] /\ changes' = changes
    BY <1>1, <1>5
  <2>3. label # labels[c] => since[c] < changes
    BY <1>13, <2>1
  <2> QED BY <1>1, <1>13, <2>1, <2>2, <2>3 DEF Sound
<1>15. Readings'
  <2>1. ~Midway' /\ began' \in Nat /\ began' <= changes'
    BY <1>1, <1>13 DEF Midway
  <2>2. \A n \in 1..Len(labels) : since[n] \in Nat /\ since[n] <= began
    <3>1. \A n \in 1..Len(labels) : since[n] \in Nat
      BY <1>12
    <3> QED BY <3>1 DEF IInv, Labelled, Readings
  <2>3. \A n \in 1..Len(labels) : since[n] <= began'
    BY <1>1, <1>13, <2>2
  <2> QED BY <1>1, <1>12, <2>1, <2>3 DEF IInv, Labelled, Readings
<1>16. ASSUME NEW m \in messages'
       PROVE  /\ m.oracle = manifest'.oracles[m.case]
              /\ Sound(m.seen, m.oracle, m.case)'
              /\ m.attempt # manifest'.resumes => Noticed(m)'
  BY <1>1, <1>16 DEF IInv, Labelled, Sound, Noticed, GoesOn
<1>17. Labelled'
  BY <1>1, <1>14, <1>15, <1>16 DEF Labelled
<1> QED BY <1>1, <1>8, <1>10, <1>11, <1>17, InnerInv DEF world, raw, Inspected, Between, Working
-----------------------------------------------------------------------------
\* The appends: only the records of the current case change, which has no summary.
LEMMA AppendedStored ==
    ASSUME IInv, pc \in Working, manifest'.oracles = manifest.oracles, summaries' = summaries,
           \A m \in messages' : m \in messages \/ (m.case = current /\ m.pair \in Pairs
                                                  /\ m.attempt = manifest.resumes),
           \A t \in trials' : t \in trials \/ (t.case = current /\ t.pair \in Pairs
                                             /\ t.trial \in TrialKeys
                                             /\ t.attempt = manifest.resumes),
           messages \subseteq messages', trials \subseteq trials'
    PROVE  /\ Stored'
           /\ \A c \in Cases \ {current} : Records(c)' = Records(c)
           /\ \A r \in messages' \cup trials' : r.case = current => r.attempt = manifest.resumes
<1>1. /\ current \in Cases \ summaries /\ manifest.oracles # Unset
      /\ \A r \in messages \cup trials : r.case = current => r.attempt = manifest.resumes
  BY DEF IInv, Work, Known, Inspected, Records, Of
<1>2. \A c \in Cases \ {current} : Of(messages, c)' = Of(messages, c) /\ Of(trials, c)' = Of(trials, c)
  BY DEF Of
<1>3. \A c \in Cases \ {current} :
          (Valid(c)' <=> Valid(c)) /\ Records(c)' = Records(c) /\ (FromOne(c)' <=> FromOne(c))
  BY <1>2, CaseKept
<1>4. \A r \in messages' \cup trials' : r.case = current => r.attempt = manifest.resumes
  BY <1>1
<1>5. ASSUME NEW c \in Cases, c = current PROVE FromOne(c)'
  BY <1>4, <1>5 DEF FromOne, Records, Of
<1>6. \A c \in Cases : FromOne(c)'
  BY <1>3, <1>5 DEF IInv, Stored
<1>7. \A c \in summaries : Valid(c)'
  BY <1>1, <1>3 DEF IInv, Stored
<1> QED BY <1>1, <1>3, <1>4, <1>6, <1>7 DEF IInv, Stored, Pairs, TrialKeys

LEMMA AppendMessageInv ==
    ASSUME IInv, NEW content \in Contents, AppendMessage(content)
    PROVE  IInv'
<1> DEFINE record == [case |-> current, pair |-> pair + 1, content |-> content,
                      oracle |-> labels[current],
                      attempt |-> manifest.resumes, seen |-> seen]
<1>1. /\ pc = "message" /\ pc' = "trials" /\ messages' = messages \cup {record}
      /\ pair' = pair + 1 /\ candidate' = content
      /\ UNCHANGED <<oracles, changes, manifest, trials, summaries, torn, dataset, summary,
                     found, broken, fresh, current, labels, since, began, seen>>
  BY DEF AppendMessage, world, published, history
<1>2. /\ current \in Cases \ summaries /\ pair \in 0..NumPairs /\ pair < NumPairs
      /\ labels = manifest.oracles
      /\ \A p \in Pairs : p <= pair => PairDone(current, p)
      /\ \A p \in Pairs : p > pair =>
            OfPair(messages, current, p) = {} /\ OfPair(trials, current, p) = {}
  BY <1>1, RunAssumption DEF IInv, Work, Known, Inspected, Working, Pairs
<1>3. pair + 1 \in Pairs
  BY <1>2, RunAssumption DEF Pairs
<1>4. /\ record.case = current /\ record.pair = pair + 1 /\ record.content = content /\ record.seen = seen
      /\ record.oracle = manifest.oracles[current] /\ record.attempt = manifest.resumes
  BY <1>2
<1> HIDE DEF record
<1>5. /\ Stored'
      /\ \A c \in Cases \ {current} : Records(c)' = Records(c)
      /\ \A r \in messages' \cup trials' : r.case = current => r.attempt = manifest.resumes
  BY <1>1, <1>3, <1>4, AppendedStored DEF Working
<1>6. Known'
  BY <1>1 DEF IInv, Known, Inspected, Working
<1>7. Found'
  BY <1>1, <1>5 DEF IInv, Found, Inspected, Cleaning, Between, Finishing, Working
<1>8. Work'
  <2>1. PICK c \in Cases : c = current
    BY <1>2
  <2>2. \A p \in Pairs : p # pair + 1 => OfPair(messages, c, p)' = OfPair(messages, c, p)
    BY <1>1, <1>4 DEF OfPair
  <2>3. \A p \in Pairs : OfPair(trials, c, p)' = OfPair(trials, c, p)
    BY <1>1 DEF OfPair
  <2>4. \A p \in Pairs : p < pair' => PairDone(c, p)'
    <3>1. \A p \in Pairs : p < pair' => p # pair + 1 /\ p <= pair
      BY <1>1, <1>2, RunAssumption DEF Pairs
    <3> QED BY <1>1, <1>2, <2>1, <2>2, <2>3, <3>1, PairKept
  <2>5. OfPair(messages', c, pair + 1) = {record}
    <3>1. OfPair(messages, c, pair + 1) = {}
      BY <1>2, <1>3, <2>1
    <3> QED BY <1>1, <1>4, <2>1, <3>1 DEF OfPair
  <2>6. OfPair(trials', c, pair + 1) = {}
    BY <1>1, <1>2, <1>3, <2>1
  <2>7. \A p \in Pairs : p > pair' => OfPair(messages, c, p)' = {} /\ OfPair(trials, c, p)' = {}
    <3>1. \A p \in Pairs : p > pair' => p # pair + 1 /\ p > pair
      BY <1>1, <1>2, RunAssumption DEF Pairs
    <3> QED BY <1>2, <2>1, <2>2, <2>3, <3>1
  <2>8. \A r \in Records(current)' : r.attempt = manifest.resumes
    BY <1>1, <1>5 DEF Records, Of
  <2>9. c = current'
    BY <1>1, <2>1
  <2>10. \A p \in Pairs : p < pair' => PairDone(current, p)'
    BY <2>4, <2>9 DEF PairDone
  <2>11. \A p \in Pairs : p > pair' =>
           OfPair(messages, current, p)' = {} /\ OfPair(trials, current, p)' = {}
    BY <2>7, <2>9
  <2>12. /\ OfPair(messages, current, pair)' = {record} /\ OfPair(trials, current, pair)' = {}
         /\ record.oracle = manifest'.oracles[current'] /\ record.content = candidate'
    BY <1>1, <1>4, <2>5, <2>6, <2>9
  <2>13. \E m \in OfPair(messages, current, pair)' :
            /\ OfPair(messages, current, pair)' = {m}
            /\ m.oracle = manifest'.oracles[current'] /\ m.content = candidate'
    BY <2>12
  <2>14. /\ current' \in Cases \ summaries' /\ pair' \in 0..NumPairs /\ pair' \in Pairs
         /\ pc' = "trials" /\ Pairs' = Pairs /\ manifest'.resumes = manifest.resumes
    BY <1>1, <1>2, <1>3 DEF Pairs
  <2> QED BY <2>8, <2>10, <2>11, <2>12, <2>13, <2>14 DEF Work
<1>9. Issued'
  BY <1>1 DEF IInv, Known, Issued, Inspected, Working, Finishing
<1>10. Readings'
  BY <1>1 DEF IInv, Labelled, Readings, Midway, Reading, Inspected, Working
<1>11. ASSUME NEW m \in messages'
       PROVE  /\ m.oracle = manifest'.oracles[m.case]
              /\ Sound(m.seen, m.oracle, m.case)'
              /\ m.attempt # manifest'.resumes => Noticed(m)'
  <2>1. CASE m \in messages
    BY <1>1, <2>1 DEF IInv, Labelled, Sound, Noticed, GoesOn
  <2>2. CASE m = record
    BY <1>1, <1>2, <1>4, <2>2 DEF IInv, Labelled, Sound, Working
  <2> QED BY <1>1, <1>11, <2>1, <2>2
<1>12. Labelled'
  <2>1. Sound(seen, labels[current], current)'
    BY <1>1 DEF IInv, Labelled, Sound, Working
  <2> QED BY <1>1, <1>10, <1>11, <2>1 DEF Labelled
<1> QED BY <1>5, <1>6, <1>7, <1>8, <1>9, <1>12 DEF IInv

\* The trial records of the pair whose message was appended last.
LEMMA TrialLinesShape ==
    ASSUME NEW k \in 0..NumTrials, NEW t \in TrialLines(k)
    PROVE  /\ t.case = current /\ t.pair = pair /\ t.trial \in TrialKeys
           /\ t.attempt = manifest.resumes
BY RunAssumption DEF TrialLines, TrialKeys

LEMMA AllTrialLinesValid ==
    ASSUME NEW m, m.content = candidate, m.oracle = labels[current]
    PROVE  PairValid(m, TrialLines(NumTrials))
<1> DEFINE Line(i) == [case |-> current, pair |-> pair, trial |-> i, content |-> candidate,
                       oracle |-> labels[current], attempt |-> manifest.resumes]
<1>1. TrialLines(NumTrials) = {Line(i) : i \in TrialKeys}
  BY DEF TrialLines, TrialKeys
<1>2. \A i \in TrialKeys :
          /\ Line(i).trial = i /\ Line(i).content = candidate
          /\ Line(i).oracle = labels[current]
  OBVIOUS
<1> HIDE DEF Line
<1>3. {t.trial : t \in TrialLines(NumTrials)} = TrialKeys
  BY <1>1, <1>2
<1>4. \A t, u \in TrialLines(NumTrials) : t.trial = u.trial => t = u
  BY <1>1, <1>2
<1>5. \A t \in TrialLines(NumTrials) : t.content = m.content /\ t.oracle = m.oracle
  BY <1>1, <1>2
<1> QED BY <1>3, <1>4, <1>5 DEF PairValid

LEMMA AppendTrialsInv == ASSUME IInv, AppendTrials PROVE IInv'
<1>1. /\ pc = "trials" /\ trials' = trials \cup TrialLines(NumTrials)
      /\ pc' = IF pair = NumPairs THEN "summary" ELSE "message"
      /\ UNCHANGED <<oracles, changes, manifest, messages, summaries, torn, dataset, summary,
                     found, broken, fresh, current, pair, labels, since, began, seen>>
  BY DEF AppendTrials, world, published, memory, history
<1>2. /\ current \in Cases \ summaries /\ pair \in Pairs /\ labels = manifest.oracles
      /\ \A p \in Pairs : p < pair => PairDone(current, p)
      /\ \A p \in Pairs : p > pair =>
            OfPair(messages, current, p) = {} /\ OfPair(trials, current, p) = {}
      /\ OfPair(trials, current, pair) = {}
  BY <1>1 DEF IInv, Work, Known, Inspected, Working
<1>3. PICK m \in OfPair(messages, current, pair) :
          /\ OfPair(messages, current, pair) = {m}
          /\ m.oracle = manifest.oracles[current] /\ m.content = candidate
  BY <1>1 DEF IInv, Work, Working
<1>4. \A t \in TrialLines(NumTrials) :
          /\ t.case = current /\ t.pair = pair /\ t.trial \in TrialKeys
          /\ t.attempt = manifest.resumes
  BY TrialLinesShape, RunAssumption
<1>5. /\ Stored'
      /\ \A c \in Cases \ {current} : Records(c)' = Records(c)
      /\ \A r \in messages' \cup trials' : r.case = current => r.attempt = manifest.resumes
  BY <1>1, <1>2, <1>4, AppendedStored DEF Working
<1>6. Known'
  BY <1>1 DEF IInv, Known, Inspected, Working
<1>7. Found'
  BY <1>1, <1>5 DEF IInv, Found, Inspected, Cleaning, Between, Finishing, Working
<1>8. Work'
  <2>1. PICK c \in Cases : c = current
    BY <1>2
  <2>2. \A p \in Pairs : OfPair(messages, c, p)' = OfPair(messages, c, p)
    BY <1>1 DEF OfPair
  <2>3. \A p \in Pairs : p # pair => OfPair(trials, c, p)' = OfPair(trials, c, p)
    BY <1>1, <1>4 DEF OfPair
  <2>4. \A p \in Pairs : p < pair => PairDone(c, p)'
    <3>1. \A p \in Pairs : p < pair => p # pair
      BY <1>2 DEF Pairs
    <3> QED BY <1>1, <1>2, <2>1, <2>2, <2>3, <3>1, PairKept
  <2>5. OfPair(trials', c, pair) = TrialLines(NumTrials)
    BY <1>1, <1>2, <1>4, <2>1 DEF OfPair
  <2>6. ASSUME NEW p \in Pairs, p = pair PROVE PairDone(c, p)'
    <3>1. PairValid(m, TrialLines(NumTrials))
      BY <1>2, <1>3, AllTrialLinesValid
    <3>2. OfPair(trials, c, p)' = TrialLines(NumTrials)
      BY <2>5, <2>6
    <3>3. /\ m \in OfPair(messages, c, p)' /\ OfPair(messages, c, p)' = {m}
          /\ m.oracle = manifest'.oracles[c]
      BY <1>1, <1>3, <2>1, <2>2, <2>6
    <3>4. PairValid(m, OfPair(trials, c, p)')
      BY <3>1, <3>2
    <3>5. PairValid(m, OfPair(trials, c, p))'
      BY <3>4 DEF PairValid, TrialKeys
    <3> QED BY <3>3, <3>5 DEF PairDone
  <2>7. \A p \in Pairs : p > pair => OfPair(messages, c, p)' = {} /\ OfPair(trials, c, p)' = {}
    <3>1. \A p \in Pairs : p > pair => p # pair
      BY <1>2 DEF Pairs
    <3> QED BY <1>2, <2>1, <2>2, <2>3, <3>1
  <2>8. c = current' /\ pair' = pair
    BY <1>1, <2>1
  <2>9. \A r \in Records(current)' : r.attempt = manifest'.resumes
    BY <1>1, <1>5 DEF Records, Of
  <2>10. \A p \in Pairs' : p < pair' \/ p = pair' => PairDone(current, p)'
    BY <2>4, <2>6, <2>8 DEF PairDone, Pairs
  <2>11. \A p \in Pairs' : p > pair' =>
           OfPair(messages, current, p)' = {} /\ OfPair(trials, current, p)' = {}
    BY <2>7, <2>8 DEF Pairs
  <2>12. /\ current' \in Cases \ summaries' /\ pair' \in 0..NumPairs
         /\ pc' # "trials" /\ (pc' = "message" => pair' < NumPairs)
         /\ (pc' = "summary" => pair' = NumPairs)
    BY <1>1, <1>2, RunAssumption DEF Pairs
  <2> QED BY <2>9, <2>10, <2>11, <2>12 DEF Work
<1>9. Issued'
  BY <1>1 DEF IInv, Known, Issued, Inspected, Working, Finishing
<1>10. Labelled'
  BY <1>1, LabelledInner DEF Inspected, Working
<1> QED BY <1>5, <1>6, <1>7, <1>8, <1>9, <1>10 DEF IInv

\* A summary is only appended for a case all of whose pairs are done.
LEMMA CurrentValid ==
    ASSUME IInv, pc = "summary"
    PROVE  Valid(current) /\ current \in Cases \ summaries
<1>1. /\ pair = NumPairs /\ current \in Cases \ summaries
      /\ \A p \in Pairs : p < pair \/ p = pair => PairDone(current, p)
  BY DEF IInv, Work, Working
<1>2. \A p \in Pairs : p < NumPairs \/ p = NumPairs
  BY RunAssumption DEF Pairs
<1> QED BY <1>1, <1>2 DEF Valid

LEMMA AppendSummaryInv == ASSUME IInv, AppendSummary PROVE IInv'
<1>1. /\ pc = "summary" /\ summaries' = summaries \cup {current} /\ fresh' = fresh \cup {current}
      /\ pc' = IF budget = 1 THEN "stop" ELSE IF Pending = {current} THEN "finalize" ELSE "case"
      /\ UNCHANGED <<oracles, changes, manifest, messages, trials, torn, dataset, summary,
                     found, broken, labels, since, began, seen, current>>
  BY DEF AppendSummary, world, published, history
<1>2. Valid(current) /\ current \in Cases \ summaries
  BY <1>1, CurrentValid
<1>3. PICK c \in Cases \ summaries : c = current
  BY <1>2
<1>4. /\ \A d : Valid(d)' <=> Valid(d)
      /\ \A d : Records(d)' = Records(d)
      /\ \A d : FromOne(d)' <=> FromOne(d)
  BY <1>1, RawKept
<1>5. Stored'
  BY <1>1, <1>2, <1>3, <1>4 DEF IInv, Stored, Known, Inspected, Working, Pairs, TrialKeys
<1>6. Known'
  BY <1>1 DEF IInv, Known, Inspected, Working, Between, Finishing
<1>7. Found'
  BY <1>1, <1>2, <1>4 DEF IInv, Found, Inspected, Cleaning, Between, Finishing, Working
<1>8. pc' = "finalize" => summaries' = Cases
  <2>1. summaries = found \cup fresh /\ summaries \subseteq Cases
    BY <1>1 DEF IInv, Found, Stored, Inspected, Working
  <2> QED BY <1>1, <1>2, <2>1 DEF Pending
<1>9. Work' /\ Issued'
  BY <1>1, <1>8 DEF IInv, Work, Known, Issued, Inspected, Working, Finishing
<1>10. Labelled'
  BY <1>1, LabelledInner DEF Inspected, Working, Between, Finishing
<1> QED BY <1>5, <1>6, <1>7, <1>9, <1>10 DEF IInv

\* The completed cases of all processes so far are those with a summary.
LEMMA ControlledStopInv == ASSUME IInv, ControlledStop PROVE IInv'
<1>1. /\ pc = "stop" /\ Gone
      /\ UNCHANGED <<oracles, changes, messages, trials, summaries, torn, dataset, summary>>
  BY DEF ControlledStop, world, raw, published
<1>2. /\ DOMAIN manifest' = DOMAIN manifest /\ manifest'.oracles = manifest.oracles
      /\ manifest'.status = "INTERRUPTED" /\ manifest'.failure = "ControlledStop"
      /\ manifest'.case_count = Cardinality(found) + Cardinality(fresh)
      /\ manifest'.resumes = manifest.resumes
  BY Updated DEF ControlledStop, IInv, Known
<1>3. Cardinality(found) + Cardinality(fresh) = Cardinality(summaries)
  <2>1. summaries = found \cup fresh /\ found \cap fresh = {} /\ summaries \subseteq Cases
    BY <1>1 DEF IInv, Found, Stored, Inspected, Between
  <2>2. IsFiniteSet(found) /\ IsFiniteSet(fresh)
    BY <2>1, FS_Subset, CasesFinite
  <2>3. /\ Cardinality(summaries) = Cardinality(found) + Cardinality(fresh) - Cardinality({})
        /\ Cardinality(found) \in Nat /\ Cardinality(fresh) \in Nat
    BY <2>1, <2>2, FS_Union, FS_CardinalityType
  <2> QED BY <2>3, FS_EmptySet
<1>4. Stored'
  BY <1>1, <1>2, StoredKept DEF IInv
<1>5. pc' = "idle"
  BY <1>1 DEF Gone
<1>6. Known'
  BY <1>1, <1>2, <1>5 DEF IInv, Known, Inspected, Cleaning, Between, Finishing, Working
<1>7. Issued'
  BY <1>1, <1>2, <1>3, <1>5 DEF Issued, Finishing
<1>8. Labelled'
  BY <1>1, <1>2, LabelledGone
<1> QED BY <1>1, <1>4, <1>6, <1>7, <1>8, GoneInv
-----------------------------------------------------------------------------
\* The counts that finalize_run checks follow from the validity of every case.
LEMMA MessagesCounted ==
    ASSUME Stored, summaries = Cases
    PROVE  Cardinality(messages) = Cardinality(Cases) * NumPairs
<1> DEFINE f == [k \in Cases \X Pairs |-> CHOOSE m \in messages : m.case = k[1] /\ m.pair = k[2]]
<1>1. \A c \in Cases, p \in Pairs :
          /\ \E m \in messages : m.case = c /\ m.pair = p
          /\ \A m, n \in messages : m.case = c /\ m.pair = p /\ n.case = c /\ n.pair = p => m = n
  <2>1. \A c \in Cases, p \in Pairs : \E m \in OfPair(messages, c, p) : OfPair(messages, c, p) = {m}
    BY DEF Stored, Valid, PairDone
  <2> QED BY <2>1 DEF OfPair
<1>2. \A k \in Cases \X Pairs : f[k] \in messages /\ f[k].case = k[1] /\ f[k].pair = k[2]
  BY <1>1
<1>3. f \in [Cases \X Pairs -> messages]
  BY <1>2
<1>4. ASSUME NEW k \in Cases \X Pairs, NEW l \in Cases \X Pairs, f[k] = f[l]
      PROVE  k = l
  <2>1. k[1] = l[1] /\ k[2] = l[2]
    BY <1>2, <1>4
  <2> QED BY <2>1
<1>5. ASSUME NEW m \in messages PROVE \E k \in Cases \X Pairs : f[k] = m
  <2>1. m.case \in Cases /\ m.pair \in Pairs
    BY DEF Stored
  <2>2. PICK k \in Cases \X Pairs : k = <<m.case, m.pair>>
    BY <2>1
  <2>3. f[k] \in messages /\ f[k].case = m.case /\ f[k].pair = m.pair
    BY <1>2, <2>2
  <2>4. f[k] = m
    BY <1>1, <2>1, <2>3
  <2> QED BY <2>4
<1> HIDE DEF f
<1>6. ExistsBijection(Cases \X Pairs, messages)
  BY <1>3, <1>4, <1>5 DEF ExistsBijection, Bijection, Injection, Surjection, IsInjective
<1>7. IsFiniteSet(Pairs) /\ Cardinality(Pairs) = NumPairs
  BY FS_Interval, RunAssumption DEF Pairs
<1>8. /\ IsFiniteSet(Cases \X Pairs)
      /\ Cardinality(Cases \X Pairs) = Cardinality(Cases) * NumPairs
  BY <1>7, FS_Product, CasesFinite, RunAssumption
<1> QED BY <1>6, <1>8, FS_Bijection

LEMMA TrialsCounted ==
    ASSUME Stored, summaries = Cases
    PROVE  Cardinality(trials) = Cardinality(Cases) * NumPairs * NumTrials
<1> DEFINE Keys == (Cases \X Pairs) \X TrialKeys
           f == [k \in Keys |-> CHOOSE t \in trials :
                    t.case = k[1][1] /\ t.pair = k[1][2] /\ t.trial = k[2]]
<1>1. \A c \in Cases, p \in Pairs, i \in TrialKeys :
          /\ \E t \in trials : t.case = c /\ t.pair = p /\ t.trial = i
          /\ \A t, u \in trials :
                 /\ t.case = c /\ t.pair = p /\ t.trial = i
                 /\ u.case = c /\ u.pair = p /\ u.trial = i
                 => t = u
  <2>1. ASSUME NEW c \in Cases, NEW p \in Pairs
        PROVE  /\ {t.trial : t \in OfPair(trials, c, p)} = TrialKeys
               /\ \A t, u \in OfPair(trials, c, p) : t.trial = u.trial => t = u
    BY DEF Stored, Valid, PairDone, PairValid
  <2> QED BY <2>1 DEF OfPair
<1>2. \A k \in Keys : f[k] \in trials /\ f[k].case = k[1][1] /\ f[k].pair = k[1][2] /\ f[k].trial = k[2]
  BY <1>1
<1>3. f \in [Keys -> trials]
  BY <1>2
<1>4. ASSUME NEW k \in Keys, NEW l \in Keys, f[k] = f[l]
      PROVE  k = l
  <2>1. k[1][1] = l[1][1] /\ k[1][2] = l[1][2] /\ k[2] = l[2]
    BY <1>2, <1>4
  <2>2. k[1] = l[1]
    BY <2>1
  <2> QED BY <2>1, <2>2
<1>5. ASSUME NEW t \in trials PROVE \E k \in Keys : f[k] = t
  <2>1. t.case \in Cases /\ t.pair \in Pairs /\ t.trial \in TrialKeys
    BY DEF Stored
  <2>2. PICK k \in Keys : k = <<<<t.case, t.pair>>, t.trial>>
    BY <2>1
  <2>3. f[k] \in trials /\ f[k].case = t.case /\ f[k].pair = t.pair /\ f[k].trial = t.trial
    BY <1>2, <2>2
  <2>4. f[k] = t
    BY <1>1, <2>1, <2>3
  <2> QED BY <2>4
<1> HIDE DEF f, Keys
<1>6. ExistsBijection(Keys, trials)
  BY <1>3, <1>4, <1>5 DEF ExistsBijection, Bijection, Injection, Surjection, IsInjective
<1>7. /\ IsFiniteSet(Pairs) /\ Cardinality(Pairs) = NumPairs
      /\ IsFiniteSet(TrialKeys) /\ Cardinality(TrialKeys) = NumTrials
  BY FS_Interval, RunAssumption DEF Pairs, TrialKeys
<1>8. /\ IsFiniteSet(Cases \X Pairs)
      /\ Cardinality(Cases \X Pairs) = Cardinality(Cases) * NumPairs
  BY <1>7, FS_Product, CasesFinite, RunAssumption
<1>9. /\ IsFiniteSet(Keys)
      /\ Cardinality(Keys) = Cardinality(Cases \X Pairs) * NumTrials
  BY <1>7, <1>8, FS_Product DEF Keys
<1> QED BY <1>6, <1>8, <1>9, FS_Bijection

LEMMA FinalHolds ==
    ASSUME Stored, summaries = Cases
    PROVE  Final
BY MessagesCounted, TrialsCounted, ValidIsCaseValid DEF Final, Stored

LEMMA WriteDatasetInv == ASSUME IInv, WriteDataset PROVE IInv'
<1>1. pc = "finalize" /\ Final
  BY FinalHolds DEF WriteDataset, IInv, Issued, Finishing
<1>2. /\ pc' = "write_summary" /\ dataset' = Samples
      /\ UNCHANGED <<world, oracles, changes, manifest, raw, messages, trials, summaries, torn, summary,
                     found, fresh, labels, since, began, seen, current>>
  BY <1>1 DEF WriteDataset, world, raw, memory, history
<1>3. (\A c : Records(c)' = Records(c)) /\ Samples' = Samples
  BY <1>2, RawKept
<1>4. Found'
  BY <1>1, <1>2, <1>3 DEF IInv, Found, Inspected, Cleaning, Between, Finishing, Working
<1>5. Work' /\ Issued'
  BY <1>1, <1>2, <1>3 DEF IInv, Work, Known, Issued, Inspected, Between, Finishing, Working
<1>6. Labelled'
  BY <1>1, <1>2, LabelledInner DEF Inspected, Between, Finishing, Working
<1> QED BY <1>1, <1>2, <1>4, <1>5, <1>6, InnerInv DEF Inspected, Between, Finishing

LEMMA WriteSummaryInv == ASSUME IInv, WriteSummary PROVE IInv'
<1>1. /\ pc = "write_summary" /\ pc' = "complete" /\ summary' = Samples
      /\ UNCHANGED <<world, oracles, changes, manifest, raw, messages, trials, summaries, torn, dataset,
                     found, fresh, labels, since, began, seen, current>>
  BY DEF WriteSummary, world, raw, memory, history
<1>2. (\A c : Records(c)' = Records(c)) /\ Samples' = Samples
  BY <1>1, RawKept
<1>3. Found'
  BY <1>1, <1>2 DEF IInv, Found, Inspected, Cleaning, Between, Finishing, Working
<1>4. Work' /\ Issued'
  BY <1>1, <1>2 DEF IInv, Work, Known, Issued, Inspected, Between, Finishing, Working
<1>5. Labelled'
  BY <1>1, <1>2, LabelledInner DEF Inspected, Between, Finishing, Working
<1> QED BY <1>1, <1>3, <1>4, <1>5, InnerInv DEF Inspected, Between, Finishing

LEMMA WriteCompleteInv == ASSUME IInv, WriteComplete PROVE IInv'
<1>1. /\ pc = "complete" /\ Gone
      /\ UNCHANGED <<oracles, changes, messages, trials, summaries, torn, dataset, summary>>
  BY DEF WriteComplete, world, raw, published
<1>2. /\ DOMAIN manifest' = DOMAIN manifest /\ manifest'.oracles = manifest.oracles
      /\ manifest'.status = "COMPLETE" /\ manifest'.failure = "none"
      /\ manifest'.resumes = manifest.resumes
  BY Updated DEF WriteComplete, IInv, Known
<1>3. /\ summaries = Cases /\ dataset = Samples /\ summary = Samples /\ ~torn
      /\ manifest.oracles # Unset
  BY <1>1 DEF IInv, Issued, Found, Known, Inspected, Between, Finishing
<1>4. Stored'
  BY <1>1, <1>2, StoredKept DEF IInv
<1>5. pc' = "idle" /\ Samples' = Samples
  BY <1>1, <1>2, RawKept DEF Gone
<1>6. Known'
  BY <1>1, <1>2, <1>5 DEF IInv, Known, Inspected, Cleaning, Between, Finishing, Working
<1>7. Issued'
  BY <1>1, <1>2, <1>3, <1>5 DEF Issued, Finishing
<1>8. Labelled'
  BY <1>1, <1>2, LabelledGone
<1> QED BY <1>1, <1>4, <1>6, <1>7, <1>8, GoneInv

\* What is left of an append that was cut off belongs to the case at work.
LEMMA CutOffStored ==
    ASSUME IInv, CutOff, manifest'.oracles = manifest.oracles
    PROVE  Stored' /\ \A c \in summaries : Records(c)' = Records(c)
<1>1. PICK k \in 0..NumTrials :
          (pc = "trials" \/ k = 0) /\ trials' = trials \cup (IF k = 0 THEN {} ELSE TrialLines(k))
  BY DEF CutOff
<1>2. UNCHANGED <<messages, summaries>>
  BY DEF CutOff
<1>3. CASE k = 0
  <2>1. trials' = trials
    BY <1>1, <1>3
  <2> QED BY <1>2, <2>1, StoredKept, RawKept DEF IInv
<1>4. CASE k # 0
  <2>1. pc = "trials" /\ trials' = trials \cup TrialLines(k)
    BY <1>1, <1>4
  <2>2. \A t \in TrialLines(k) :
            /\ t.case = current /\ t.pair = pair /\ t.trial \in TrialKeys
            /\ t.attempt = manifest.resumes
    BY TrialLinesShape
  <2>3. pair \in Pairs /\ current \notin summaries
    BY <2>1 DEF IInv, Work, Working
  <2>4. Stored' /\ \A c \in Cases \ {current} : Records(c)' = Records(c)
    BY <1>2, <2>1, <2>2, <2>3, AppendedStored DEF Working
  <2> QED BY <2>3, <2>4 DEF IInv, Stored
<1> QED BY <1>3, <1>4

LEMMA FailInv == ASSUME IInv, Fail PROVE IInv'
<1>1. /\ CutOff /\ Gone /\ pc # "idle" /\ pc' = "idle"
      /\ UNCHANGED <<oracles, changes, dataset, summary, messages>>
  BY DEF Fail, CutOff, Gone, world, published
<1>2. /\ DOMAIN manifest' = DOMAIN manifest /\ manifest'.oracles = manifest.oracles
      /\ manifest'.status = "INTERRUPTED" /\ manifest'.failure = "execution"
      /\ manifest'.resumes = manifest.resumes
  BY Updated DEF Fail, IInv, Known
<1>3. Stored'
  BY <1>1, <1>2, CutOffStored
<1>4. Known'
  BY <1>1, <1>2 DEF IInv, Known, Inspected, Cleaning, Between, Finishing, Working
<1>5. Issued'
  BY <1>1, <1>2 DEF Issued, Finishing
<1>6. Labelled'
  BY <1>1, <1>2, LabelledGone
<1> QED BY <1>1, <1>3, <1>4, <1>5, <1>6, GoneInv

LEMMA CrashInv == ASSUME IInv, Crash PROVE IInv'
<1>1. /\ CutOff /\ Gone /\ pc # "idle" /\ pc' = "idle"
      /\ UNCHANGED <<oracles, changes, manifest, dataset, summary, summaries, messages>>
  BY DEF Crash, CutOff, Gone, world, published
<1>2. Stored'
  BY <1>1, CutOffStored
<1>3. Known'
  BY <1>1 DEF IInv, Known, Inspected, Cleaning, Between, Finishing, Working
<1>4. Issued'
  BY <1>1 DEF IInv, Issued, Finishing
<1>5. Labelled'
  BY <1>1, LabelledGone DEF IInv, Issued
<1> QED BY <1>1, <1>2, <1>3, <1>4, <1>5, GoneInv

LEMMA ChangeInv == ASSUME IInv, Change PROVE IInv'
<1>1. /\ oracles' \in Databases /\ changes' = changes + 1 /\ changes \in Nat
      /\ began' \in (IF Reading THEN {began} ELSE {}) \cup (IF Midway THEN {} ELSE {changes'})
      /\ UNCHANGED <<manifest, messages, trials, summaries, torn, dataset, summary, pc, found,
                     broken, fresh, current, pair, candidate, labels, since, seen>>
  BY DEF Change, disk, IInv, Known
<1>2. Stored'
  BY <1>1, StoredKept DEF IInv
<1>3. Known'
  <2>1. changes' \in Nat /\ changes' > 0
    BY <1>1 DEF IInv, Known
  <2>2. DOMAIN manifest' = DOMAIN manifest
    BY <1>1
  <2> QED BY <1>1, <2>1, <2>2 DEF IInv, Known
<1>4. /\ \A c : Records(c)' = Records(c)
      /\ \A c, p : PairDone(c, p)' <=> PairDone(c, p)
      /\ Samples' = Samples
  BY <1>1, RawKept
<1>5. Found'
  BY <1>1, <1>4 DEF IInv, Found
<1>6. Work'
  <2>1. Records(current)' = Records(current)
    BY <1>1 DEF Records, Of
  <2>2. \A p : PairDone(current, p)' <=> PairDone(current, p)
    BY <1>1 DEF PairDone, OfPair, PairValid, TrialKeys
  <2>3. \A p : /\ OfPair(messages, current, p)' = OfPair(messages, current, p)
               /\ OfPair(trials, current, p)' = OfPair(trials, current, p)
    BY <1>1 DEF OfPair
  <2>4. /\ OfPair(messages, current, pair)' = OfPair(messages, current, pair)
        /\ OfPair(trials, current, pair)' = OfPair(trials, current, pair)
    BY <1>1 DEF OfPair
  <2> QED BY <1>1, <2>1, <2>2, <2>3, <2>4 DEF IInv, Work, Pairs
<1>7. Issued'
  BY <1>1, <1>4 DEF IInv, Known, Issued
<1>8. /\ began \in Nat /\ began <= changes /\ (Midway => Reading)
      /\ labels \in Seq(Labels) /\ since \in Seq(Nat) /\ Len(labels) = Len(since)
      /\ \A n \in 1..Len(labels) : since[n] <= began
  BY DEF IInv, Labelled, Readings
<1>9. began' \in Nat /\ began <= began' /\ began' <= changes' /\ (Midway' => Reading')
  <2>1. Reading' <=> Reading
    BY <1>1 DEF Reading
  <2>2. began' = began \/ began' = changes'
    BY <1>1
  <2> QED BY <1>1, <1>8, <2>1, <2>2 DEF Midway
<1>10. \A n \in 1..Len(labels) : since[n] \in Nat /\ since[n] <= began' /\ since[n] < changes'
  BY <1>1, <1>8, <1>9
<1>11. Readings'
  BY <1>1, <1>9, <1>10 DEF IInv, Labelled, Readings
<1>12. ASSUME NEW m \in messages'
       PROVE  /\ m.oracle = manifest'.oracles[m.case]
              /\ Sound(m.seen, m.oracle, m.case)'
              /\ m.attempt # manifest'.resumes /\ GoesOn' => Noticed(m)'
              /\ pc' = "validate" => m.seen.to <= began'
                    /\ \A n \in 1..Len(labels') : m.seen.to <= since'[n]
  <2>1. /\ m.oracle = manifest.oracles[m.case] /\ Sound(m.seen, m.oracle, m.case)
        /\ pc = "validate" =>
              m.seen.to <= began /\ \A n \in 1..Len(labels) : m.seen.to <= since[n]
    BY <1>1, <1>12 DEF IInv, Labelled
  <2>2. Sound(m.seen, m.oracle, m.case)' /\ Noticed(m)'
    BY <1>1, <2>1 DEF Sound, Noticed
  <2>3. pc' = "validate" => m.seen.to <= began'
    BY <1>1, <1>8, <1>9, <2>1 DEF Sound
  <2> QED BY <1>1, <2>1, <2>2, <2>3
<1>13. pc' \in Working => Sound(seen, labels[current], current)'
  BY <1>1 DEF IInv, Labelled, Sound
<1>14. Labelled'
  BY <1>11, <1>12, <1>13 DEF Labelled
<1> QED BY <1>2, <1>3, <1>5, <1>6, <1>7, <1>14 DEF IInv

LEMMA StutterInv == ASSUME IInv, UNCHANGED vars PROVE IInv'
<1>1. UNCHANGED <<oracles, changes, manifest, messages, trials, summaries, torn, dataset, summary,
                  pc, found, broken, fresh, current, pair, candidate, labels, since, began,
                  seen>>
  BY DEF vars, world, disk, memory, history
<1>2. Stored' /\ Known'
  BY <1>1, StoredKept DEF IInv, Known
<1>3. /\ \A c : Records(c)' = Records(c)
      /\ Samples' = Samples
  BY <1>1, RawKept
<1>4. Found' /\ Issued'
  BY <1>1, <1>3 DEF IInv, Found, Issued
<1>5. Work'
  BY <1>1 DEF IInv, Work, Records, Of, PairDone, OfPair, PairValid, TrialKeys, Pairs
<1>6. Labelled'
  BY <1>1 DEF IInv, Labelled, Readings, Midway, Reading, Sound, Noticed, GoesOn
<1> QED BY <1>2, <1>4, <1>5, <1>6 DEF IInv

LEMMA NextInv == IInv /\ [Next]_vars => IInv'
<1> SUFFICES ASSUME IInv, [Next]_vars PROVE IInv'
  OBVIOUS
<1>1. CASE Resume \/ Validate \/ RefuseOracles \/ Inspect \/ Unparsable
  BY <1>1, ResumeInv, ValidateInv, RefuseOraclesInv, InspectInv, UnparsableInv
<1>2. CASE CleanMessages \/ CleanTrials \/ CleanSummaries
  BY <1>2, CleanMessagesInv, CleanTrialsInv, CleanSummariesInv
<1>3. ASSUME NEW content \in Contents, AppendMessage(content) PROVE IInv'
  BY <1>3, AppendMessageInv
<1>4. CASE AppendTrials \/ AppendSummary \/ ControlledStop
  BY <1>4, AppendTrialsInv, AppendSummaryInv, ControlledStopInv
<1>5. CASE WriteDataset \/ WriteSummary \/ WriteComplete
  BY <1>5, WriteDatasetInv, WriteSummaryInv, WriteCompleteInv
<1>6. CASE Fail \/ Crash \/ Change
  BY <1>6, FailInv, CrashInv, ChangeInv
<1>7. CASE UNCHANGED vars
  BY <1>7, StutterInv
<1>8. ASSUME NEW label \in Labels, ReadOracle(label) \/ StartCase(label) PROVE IInv'
  BY <1>8, ReadOracleInv, StartCaseInv
<1> QED BY <1>1, <1>2, <1>3, <1>4, <1>5, <1>6, <1>7, <1>8 DEF Next, Step, Rest

LEMMA Invariance == Spec => []IInv
<1> QED BY InitInv, NextInv, PTL DEF Spec
-----------------------------------------------------------------------------
\* A case is complete if and only if it has a summary.
LEMMA CompleteHasSummary ==
    ASSUME Stored
    PROVE  \A c \in Cases : Complete(c) <=> c \in summaries
BY ValidIsCaseValid DEF Stored, Complete

\* However often the cleaning of a resumed run is cut off, no case is put together
\* from the records of two attempts.
THEOREM OneAttemptPerCase == Spec => []CaseFromOneAttempt
<1>1. IInv => CaseFromOneAttempt
  BY DEF IInv, Stored, FromOne, Records, CaseFromOneAttempt
<1> QED BY <1>1, Invariance, PTL

\* COMPLETE, INVALID and the count of a controlled stop are what they say.
THEOREM ManifestTells == Spec => []ManifestHonest
<1>1. IInv => ManifestHonest
  <2> SUFFICES ASSUME IInv PROVE ManifestHonest
    OBVIOUS
  <2>1. \A c \in Cases : Complete(c) <=> c \in summaries
    BY CompleteHasSummary DEF IInv
  <2>2. {c \in Cases : Complete(c)} = summaries
    BY <2>1 DEF IInv, Stored
  <2> QED BY <2>1, <2>2 DEF IInv, Issued, ManifestHonest
<1> QED BY <1>1, Invariance, PTL

\* A message whose label contradicts what its agents saw was written over a reload of
\* the database between the two readings, and a later process goes on with it only if
\* there was another reload, or one in the midst of the agents' reading.
THEOREM LabelsFit == Spec => []LabelFits
<1>1. IInv => LabelFits
  <2> SUFFICES ASSUME IInv, NEW m \in messages, m.seen.label # m.oracle
               PROVE  /\ m.seen.since < m.seen.to
                      /\ m.attempt # manifest.resumes /\ GoesOn =>
                             m.seen.from < m.seen.to \/ m.seen.to < changes
    BY DEF LabelFits, GoesOn
  <2> QED BY DEF IInv, Labelled, Sound, Noticed
<1> QED BY <1>1, Invariance, PTL
-----------------------------------------------------------------------------
\* The refinement.  What is committed are the records of the cases with a summary.
LEMMA CommittedShape ==
    ASSUME Stored
    PROVE  Committed = [c \in Cases |-> IF c \in summaries THEN Records(c) ELSE {}]
BY CompleteHasSummary DEF Committed, Records

LEMMA CommittedKept ==
    ASSUME IInv, IInv', summaries' = summaries, \A c \in summaries : Records(c)' = Records(c)
    PROVE  Committed' = Committed
<1>1. Committed = [c \in Cases |-> IF c \in summaries THEN Records(c) ELSE {}]
  BY CommittedShape DEF IInv
<1>2. Committed' = [c \in Cases |-> IF c \in summaries' THEN Records(c)' ELSE {}]
  <2>1. \A c \in Cases : Complete(c)' <=> c \in summaries'
    BY DEF IInv, Stored, Complete, Valid, PairDone, CaseValid
  <2> QED BY <2>1 DEF Committed, Records
<1> QED BY <1>1, <1>2

\* Nothing but a summary commits a case, and no step touches a committed one.
LEMMA CommittedStays ==
    ASSUME IInv, IInv', [Next]_vars, ~AppendSummary
    PROVE  Committed' = Committed
<1>1. ASSUME UNCHANGED <<messages, trials, summaries>> PROVE Committed' = Committed
  BY <1>1, CommittedKept DEF Records, Of
<1>2. CASE CleanMessages \/ CleanTrials
  <2>1. broken \cap summaries = {} /\ summaries' = summaries
    BY <1>2 DEF IInv, Found, Cleaning, CleanMessages, CleanTrials
  <2>2. /\ messages' = messages \/ messages' = {m \in messages : m.case \notin broken}
        /\ trials' = trials \/ trials' = {t \in trials : t.case \notin broken}
    BY <1>2 DEF CleanMessages, CleanTrials
  <2>3. \A c \in summaries : Records(c)' = Records(c)
    BY <2>1, <2>2 DEF Records, Of
  <2> QED BY <2>1, <2>3, CommittedKept
<1>3. CASE CleanSummaries
  <2>1. UNCHANGED <<messages, trials>> /\ summaries' = summaries \cap found
    BY <1>3 DEF CleanSummaries
  <2>2. summaries' = summaries
    BY <1>3, <2>1 DEF CleanSummaries, IInv, Found, Inspected, Between
  <2> QED BY <1>1, <2>1, <2>2
<1>4. ASSUME NEW content \in Contents, AppendMessage(content) PROVE Committed' = Committed
  <2>1. current \notin summaries /\ UNCHANGED <<trials, summaries>>
    BY <1>4 DEF AppendMessage, IInv, Work, Working
  <2>2. messages \subseteq messages' /\ \A m \in messages' : m \in messages \/ m.case = current
    BY <1>4 DEF AppendMessage
  <2>3. \A c \in summaries : Records(c)' = Records(c)
    BY <2>1, <2>2 DEF Records, Of
  <2> QED BY <2>1, <2>3, CommittedKept
<1>5. CASE AppendTrials
  <2>1. current \notin summaries /\ UNCHANGED <<messages, summaries>>
    BY <1>5 DEF AppendTrials, IInv, Work, Working
  <2>2. \A t \in TrialLines(NumTrials) : t.case = current
    BY TrialLinesShape, RunAssumption
  <2>3. \A c \in summaries : Records(c)' = Records(c)
    BY <1>5, <2>1, <2>2 DEF AppendTrials, Records, Of
  <2> QED BY <2>1, <2>3, CommittedKept
<1>6. CASE Fail \/ Crash
  <2>1. CutOff /\ manifest'.oracles = manifest.oracles
    BY <1>6, Updated DEF Fail, Crash, IInv
  <2>2. summaries' = summaries /\ \A c \in summaries : Records(c)' = Records(c)
    BY <2>1, CutOffStored DEF CutOff
  <2> QED BY <2>2, CommittedKept
<1>7. CASE Resume \/ Validate \/ Inspect \/ ControlledStop
  BY <1>1, <1>7 DEF Resume, Validate, Inspect, ControlledStop, raw, disk
<1>8. CASE RefuseOracles \/ Unparsable \/ WriteDataset \/ WriteSummary \/ WriteComplete
  BY <1>1, <1>8 DEF RefuseOracles, Unparsable, WriteDataset, WriteSummary, WriteComplete, Exit, raw
<1>9. CASE Change \/ UNCHANGED vars
  BY <1>1, <1>9 DEF Change, vars, disk
<1>10. ASSUME NEW label \in Labels, ReadOracle(label) \/ StartCase(label)
       PROVE  Committed' = Committed
  BY <1>1, <1>10 DEF ReadOracle, StartCase, disk
<1> QED BY <1>2, <1>3, <1>4, <1>5, <1>6, <1>7, <1>8, <1>9, <1>10 DEF Next, Step, Rest

\* A run stops and goes on, or is refused for good; COMPLETE is written once.
LEMMA StatusMoves ==
    ASSUME IInv, [Next]_vars, ~WriteComplete
    PROVE  \/ manifest'.status = manifest.status /\ (manifest.status = "COMPLETE" => dataset' = dataset)
           \/ /\ manifest.status \in {"RUNNING", "INTERRUPTED"}
              /\ manifest'.status \in {"RUNNING", "INTERRUPTED", "INVALID"}
<1>1. /\ pc # "idle" => manifest.status \in {"RUNNING", "INTERRUPTED"}
      /\ pc # "idle" => manifest.status # "COMPLETE"
  BY DEF IInv, Known, Issued
<1>2. CASE Resume
  BY <1>2, Updated DEF Resume, IInv, Known, published
<1>3. CASE Validate
  BY <1>1, <1>3, Updated DEF Validate, IInv
<1>4. CASE RefuseOracles \/ Unparsable
  BY <1>1, <1>4, Updated DEF RefuseOracles, Unparsable, Exit, IInv
<1>5. CASE Inspect \/ CleanMessages \/ CleanTrials \/ CleanSummaries \/ AppendTrials
           \/ AppendSummary \/ (\E content \in Contents : AppendMessage(content))
           \/ (\E label \in Labels : ReadOracle(label) \/ StartCase(label))
  BY <1>5 DEF Inspect, CleanMessages, CleanTrials, CleanSummaries, ReadOracle, StartCase, AppendTrials,
              AppendSummary, AppendMessage, disk, published
<1>6. CASE ControlledStop
  BY <1>1, <1>6, Updated DEF ControlledStop, IInv
<1>7. CASE WriteDataset \/ WriteSummary
  BY <1>1, <1>7, Updated DEF WriteDataset, WriteSummary, Exit, IInv
<1>8. CASE Fail
  BY <1>1, <1>8, Updated DEF Fail, IInv
<1>9. CASE Crash \/ Change \/ UNCHANGED vars
  BY <1>9 DEF Crash, Change, vars, disk, published
<1> QED BY <1>2, <1>3, <1>4, <1>5, <1>6, <1>7, <1>8, <1>9 DEF Next, Step, Rest

\* A completed run publishes all the records there are, each committed with its case.
LEMMA PublishedIsAll ==
    ASSUME Stored, summaries = Cases, manifest.oracles # Unset
    PROVE  UNION {{x.message} \cup x.trials : x \in Samples} = UNION {Committed[c] : c \in Cases}
<1>1. \A m \in messages : m.case \in Cases
  BY DEF Stored
<1>2. \A t \in trials : \E m \in messages : m.case = t.case /\ m.pair = t.pair
  <2> SUFFICES ASSUME NEW t \in trials
               PROVE  \E m \in messages : m.case = t.case /\ m.pair = t.pair
    OBVIOUS
  <2>1. t.case \in summaries /\ t.pair \in Pairs
    BY DEF Stored
  <2>2. PairDone(t.case, t.pair)
    BY <2>1 DEF Stored, Valid
  <2> QED BY <2>2 DEF PairDone, OfPair
<1>3. \A t \in trials : t.case \in Cases
  BY DEF Stored
<1>4. UNION {{x.message} \cup x.trials : x \in Samples} = messages \cup trials
  <2>1. \A x \in Samples : x.message \in messages /\ x.trials = OfPair(trials, x.message.case, x.message.pair)
    BY DEF Samples
  <2>2. ASSUME NEW m \in messages
        PROVE  \E x \in Samples : x.message = m /\ x.trials = OfPair(trials, m.case, m.pair)
    <3>1. [message |-> m, trials |-> OfPair(trials, m.case, m.pair)] \in Samples
      BY DEF Samples
    <3> QED BY <3>1
  <2>3. ASSUME NEW t \in trials PROVE \E x \in Samples : t \in x.trials
    <3>1. PICK m \in messages : m.case = t.case /\ m.pair = t.pair
      BY <1>2
    <3>2. PICK x \in Samples : x.message = m /\ x.trials = OfPair(trials, m.case, m.pair)
      BY <2>2
    <3>3. t \in x.trials
      BY <3>1, <3>2 DEF OfPair
    <3> QED BY <3>3
  <2>4. \A x \in Samples : {x.message} \cup x.trials \subseteq messages \cup trials
    BY <2>1 DEF OfPair
  <2>5. \A r \in messages \cup trials : \E x \in Samples : r \in {x.message} \cup x.trials
    BY <2>2, <2>3
  <2> QED BY <2>4, <2>5
<1>5. UNION {Committed[c] : c \in Cases} = messages \cup trials
  <2>1. \A c \in Cases : Committed[c] = Records(c)
    BY CommittedShape
  <2> QED BY <1>1, <1>3, <2>1 DEF Records, Of
<1> QED BY <1>4, <1>5

LEMMA StepPromised ==
    ASSUME IInv, IInv', [Next]_vars
    PROVE  [Promise!Next]_<<manifest.status, Committed, Published>>
<1>1. CASE AppendSummary
  <2>1. /\ pc = "summary" /\ summaries' = summaries \cup {current}
        /\ UNCHANGED <<manifest, messages, trials>>
    BY <1>1 DEF AppendSummary
  <2>2. Valid(current) /\ current \in Cases \ summaries /\ manifest.status = "RUNNING"
    BY <2>1, CurrentValid DEF IInv, Known, Inspected, Working
  <2>3. PICK c \in Cases \ summaries : c = current
    BY <2>2
  <2>4. Committed = [d \in Cases |-> IF d \in summaries THEN Records(d) ELSE {}]
    BY CommittedShape DEF IInv
  <2>5. Committed' = [d \in Cases |-> IF d \in summaries' THEN Records(d) ELSE {}]
    <3>1. \A d \in Cases : Complete(d)' <=> d \in summaries'
      BY DEF IInv, Stored, Complete, Valid, PairDone, CaseValid
    <3> QED BY <2>1, <3>1 DEF Committed, Records, Of
  <2>6. Committed[c] = {} /\ Committed' = [Committed EXCEPT ![c] = Committed'[c]]
        /\ Committed'[c] = Records(c)
    BY <2>1, <2>3, <2>4, <2>5
  <2>7. Records(c) # {}
    <3>1. 1 \in Pairs
      BY RunAssumption DEF Pairs
    <3>2. PairDone(c, 1)
      BY <2>2, <2>3, <3>1 DEF Valid
    <3> QED BY <3>2 DEF PairDone, OfPair, Records, Of
  <2>8. FromOne(c)
    BY DEF IInv, Stored
  <2>9. Published = Unset /\ Published' = Unset
    BY <2>1, <2>2 DEF Published
  <2> QED BY <2>1, <2>2, <2>3, <2>6, <2>7, <2>8, <2>9
          DEF Promise!Next, Promise!Commit, Promise!OneAttempt, FromOne
<1>2. CASE WriteComplete
  <2>1. /\ pc = "complete" /\ manifest'.status = "COMPLETE" /\ dataset' = dataset
        /\ UNCHANGED <<messages, trials, summaries>>
    BY <1>2, Updated DEF WriteComplete, IInv, raw, published
  <2>2. /\ summaries = Cases /\ dataset = Samples /\ manifest.oracles # Unset
        /\ manifest.status = "RUNNING"
    BY <2>1 DEF IInv, Issued, Known, Inspected, Between, Finishing
  <2>3. Committed' = Committed
    BY <1>2, <2>1, CommittedStays DEF AppendSummary, Next, Step
  <2>4. Published' = UNION {Committed[c] : c \in Cases}
    BY <2>1, <2>2, PublishedIsAll DEF Published, IInv
  <2>5. \A c \in Cases : Committed[c] # {}
    <3>1. \A c \in Cases : Committed[c] = Records(c)
      BY <2>2, CommittedShape DEF IInv
    <3>2. 1 \in Pairs
      BY RunAssumption DEF Pairs
    <3>3. \A c \in Cases : PairDone(c, 1)
      BY <2>2, <3>2 DEF IInv, Stored, Valid
    <3>4. \A c \in Cases : Records(c) # {}
      BY <3>3 DEF PairDone, OfPair, Records, Of
    <3> QED BY <3>1, <3>4
  <2> QED BY <2>1, <2>2, <2>3, <2>4, <2>5 DEF Promise!Next, Promise!Publish
<1>3. CASE ~AppendSummary /\ ~WriteComplete
  <2>1. Committed' = Committed
    BY <1>3, CommittedStays
  <2>2. CASE manifest'.status = manifest.status /\ (manifest.status = "COMPLETE" => dataset' = dataset)
    BY <2>1, <2>2 DEF Published
  <2>3. CASE /\ manifest.status \in {"RUNNING", "INTERRUPTED"}
             /\ manifest'.status \in {"RUNNING", "INTERRUPTED", "INVALID"}
    <3>1. Published' = Published
      BY <2>3 DEF Published
    <3> QED BY <2>1, <2>3, <3>1
            DEF Promise!Next, Promise!Interrupt, Promise!Continue, Promise!Invalidate
  <2> QED BY <1>3, <2>2, <2>3, StatusMoves
<1> QED BY <1>1, <1>2, <1>3

\* A run directory does what DatasetPromise says through all crashes, failures, stops
\* and resumes (dataset_v1_store.py, dataset_v1.py).
THEOREM Implements == Spec => KeepsPromise
<1>1. Init => Promise!Init
  <2> SUFFICES ASSUME Init PROVE Promise!Init
    OBVIOUS
  <2>1. Committed = [c \in Cases |-> {}]
    BY DEF Init, Committed, Complete
  <2> QED BY <2>1 DEF Init, Promise!Init, Published
<1>2. IInv /\ IInv' /\ [Next]_vars => [Promise!Next]_<<manifest.status, Committed, Published>>
  BY StepPromised
<1> QED BY <1>1, <1>2, Invariance, PTL DEF Spec, KeepsPromise, Promise!Spec, Promise!vars
=============================================================================
