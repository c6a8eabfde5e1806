------------------------------ MODULE PilotRun ------------------------------
(***************************************************************************)
(* The generator of the input files (src/scripts/generate_inputs.py), the  *)
(* loader (validate_inputs.py) and the stratified pilot of                 *)
(* src/experiments/pvoc_v0/studies, which expects the label of one case    *)
(* per rule.  Data files, database and input files change independently.   *)
(*                                                                         *)
(* An input file is the order it claims.  It carries the data it was       *)
(* generated from, which no code reads.  Of the seven queries behind the   *)
(* views, which Studies has one by one, nothing here depends.              *)
(***************************************************************************)
EXTENDS StudyProtocol, TLC

CONSTANTS
    Distribution, \* DISTRIBUTION: rules with the number of cases for each, in order
    Orders,       \* order IDs
    Tables,       \* what the data files may hold: the rows of each order
    Behaviours,   \* for each pair, how many trials of each condition gave which action
    Absent, Part, \* an input file that is not there, or not whole
    None,         \* no data, no summary
    MaxChanges    \* bound: changes of the data files

Labels == {"POSITIVE", "ZERO", "NEGATIVE"}

\* The number of the first case generated for the k-th rule of dist
FirstNumber(dist, k) == 1 + MapThenSumSet(LAMBDA j : dist[j][2], 1..(k - 1))

Total(dist) == FirstNumber(dist, Len(dist) + 1) - 1

RuleOf(dist, number) ==
    dist[Max({k \in DOMAIN dist : FirstNumber(dist, k) <= number})][1]

\* The first case of every rule, with the rule.
FirstOfEach(dist) ==
    [n \in {FirstNumber(dist, k) : k \in DOMAIN dist} |-> RuleOf(dist, n)]

DISTRIBUTION == <<
    <<"canceled_order_paid", 9>>, <<"unavailable_order_paid", 9>>,
    <<"late_delivery_seller", 8>>, <<"late_delivery_logistics", 8>>,
    <<"valid_split_payment", 8>>, <<"unsupported_late_claim", 8>>>>

EXPECTED_ORACLE_ACTIONS ==
    1 :> "canceled_order_paid" @@ 10 :> "unavailable_order_paid" @@
    19 :> "late_delivery_seller" @@ 27 :> "late_delivery_logistics" @@
    35 :> "valid_split_payment" @@ 43 :> "unsupported_late_claim"

\* The pre-registered table of the pilot is the one that belongs to the generator's
\* distribution; the model derives it from its own Distribution in the same way.
ASSUME PreRegistered == FirstOfEach(DISTRIBUTION) = EXPECTED_ORACLE_ACTIONS

Expected == FirstOfEach(Distribution)
PilotCases == DOMAIN Expected
Numbers == 1..Total(Distribution)

\* Every rule has its place in the distribution, once.
ASSUME DistributionAssumption ==
    /\ Distribution \in Seq(Issues \X (Nat \ {0}))
    /\ \A j, k \in DOMAIN Distribution : Distribution[j][1] = Distribution[k][1] => j = k

ASSUME PilotAssumption ==
    /\ \A t \in Tables : DOMAIN t = Orders
    /\ \A b \in Behaviours : DOMAIN b = DirectedPairs
    /\ MaxChanges \in Nat

VARIABLES
    csv,     \* the data files
    db,      \* the database
    changes, \* changes of the data files so far
    files,   \* the input file of each number: Absent, Part or [order, from]
    gen,     \* the generator
    pilot    \* the pilot

vars == <<csv, db, changes, files, gen, pilot>>

Existing == {n \in Numbers : files[n] # Absent}

NoGenerator == [pc |-> "idle", chosen |-> <<>>, data |-> None, at |-> 0]
NoPilot == [pc |-> "idle", listed |-> {}, files |-> <<>>, oracles |-> <<>>, reading |-> <<>>,
            matched |-> TRUE, summary |-> None]

Init ==
    /\ csv \in Tables /\ db = csv /\ changes = 0
    /\ files = [n \in Numbers |-> Absent]
    /\ gen = NoGenerator /\ pilot = NoPilot
-----------------------------------------------------------------------------
\* The generator

\* generate refuses to replace files without --overwrite.
Generate(overwrite) ==
    /\ gen.pc = "idle" /\ (Existing # {} => overwrite)
    /\ gen' = [NoGenerator EXCEPT !.pc = "unlink"]
    /\ UNCHANGED <<csv, db, changes, files, pilot>>

Unlink ==
    /\ gen.pc = "unlink" /\ Existing # {}
    /\ files' = [files EXCEPT ![Min(Existing)] = Absent]
    /\ UNCHANGED <<csv, db, changes, gen, pilot>>

RowsContext(rows) ==
    Context(rows.order, rows.items, Financials(rows.items, rows.payments))

\* Orders that are too large for the input contract are left out.
Loadable(rows) ==
    /\ rows.order # NoOrder
    /\ Cardinality(rows.items) <= EntityLimit /\ Cardinality(rows.payments) <= EntityLimit

\* A late delivery must also have matching payments and freight to refund.
Refundable(rule, ctx) ==
    rule \in {"late_delivery_seller", "late_delivery_logistics"} =>
        ctx.fin.matches /\ ctx.fin.freight_total > 0

\* Mutant of Pool: every order to which the rule applies, whatever applies before it.
PoolOverlapping(data, rule) ==
    {o \in Orders : /\ Loadable(data[o]) /\ Applies(rule, RowsContext(data[o]))
                    /\ Refundable(rule, RowsContext(data[o]))}

\* The orders that the engine puts under a rule
Pool(data, rule) ==
    {o \in Orders : /\ Loadable(data[o]) /\ Classify(RowsContext(data[o])) = rule
                    /\ Refundable(rule, RowsContext(data[o]))}

\* select_contexts prefers orders with certain features; here any choice will do.
Selections(data) ==
    {s \in [Numbers -> Orders] :
        /\ \A m, n \in Numbers : s[m] = s[n] => m = n
        /\ \A n \in Numbers : s[n] \in Pool(data, RuleOf(Distribution, n))}

\* Without enough orders for a rule it ends, with the old files gone.
Select ==
    /\ gen.pc = "unlink" /\ Existing = {}
    /\ IF Selections(csv) = {} THEN gen' = NoGenerator
       ELSE \E s \in Selections(csv) :
                gen' = [pc |-> "write", chosen |-> s, data |-> csv, at |-> 1]
    /\ UNCHANGED <<csv, db, changes, files, pilot>>

\* write_text, in two steps
WriteFile ==
    /\ gen.pc = "write"
    /\ IF files[gen.at] # Part
       THEN files' = [files EXCEPT ![gen.at] = Part] /\ UNCHANGED gen
       ELSE /\ files' = [files EXCEPT
                   ![gen.at] = [order |-> gen.chosen[gen.at], from |-> gen.data]]
            /\ gen' = IF gen.at = Total(Distribution) THEN NoGenerator
                      ELSE [gen EXCEPT !.at = @ + 1]
    /\ UNCHANGED <<csv, db, changes, pilot>>

GeneratorDies ==
    /\ gen.pc # "idle" /\ gen' = NoGenerator
    /\ UNCHANGED <<csv, db, changes, files, pilot>>
-----------------------------------------------------------------------------
\* The pilot

\* f with v for n
With(f, n, v) == [k \in DOMAIN f \cup {n} |-> IF k = n THEN v ELSE f[k]]

StartPilot ==
    /\ pilot.pc = "idle"
    /\ pilot' = [NoPilot EXCEPT !.pc = "load", !.listed = Existing]
    /\ UNCHANGED <<csv, db, changes, files, gen>>

\* A file that is gone or does not parse is an InputValidationError.
LoadFile ==
    /\ pilot.pc = "load" /\ pilot.listed # {}
    /\ LET n == Min(pilot.listed)
       IN  /\ files[n] \notin {Absent, Part}
           /\ pilot' = [pilot EXCEPT !.listed = @ \ {n}, !.files = With(@, n, files[n])]
    /\ UNCHANGED <<csv, db, changes, files, gen>>

\* Of the files loaded the pilot keeps its cases; without one of them it is PILOT_INVALID.
LoadPilotCases ==
    /\ pilot.pc = "load" /\ pilot.listed = {}
    /\ IF PilotCases \subseteq DOMAIN pilot.files
       THEN pilot' = [pilot EXCEPT !.pc = "read", !.files = [n \in PilotCases |-> @[n]]]
       ELSE pilot' = [NoPilot EXCEPT !.pc = "incomplete"]
    /\ UNCHANGED <<csv, db, changes, files, gen>>

Unread == PilotCases \ DOMAIN pilot.oracles
Current == Min(Unread)

\* The next query for the context of the current case
AskContext ==
    /\ pilot.pc = "read" /\ Unread # {} /\ Len(pilot.reading) < Len(ContextQueries)
    /\ LET claimed == pilot.files[Current]
           answer  == Answer(db[claimed.order], ContextQueries[Len(pilot.reading) + 1])
       IN  /\ answer # NoOrder
           /\ pilot' = [pilot EXCEPT !.reading = Append(@, answer),
                                     !.matched = @ /\ claimed.from = db]
    /\ UNCHANGED <<csv, db, changes, files, gen>>

\* The engine's label of it; without one it raises PolicyNoMatchError.
LabelCase ==
    /\ pilot.pc = "read" /\ Len(pilot.reading) = Len(ContextQueries)
    /\ Oracle(pilot.reading) # NoMatch
    /\ pilot' = [pilot EXCEPT !.oracles = With(@, Current, Oracle(pilot.reading)),
                              !.reading = <<>>]
    /\ UNCHANGED <<csv, db, changes, files, gen>>

\* Mutant of OraclesAccepted: every rule has a case, as all_six_oracle_classes_correct has it.
ClassesAccepted(oracles) == Range(oracles) = Range(Expected)

OraclesAccepted(oracles) == oracles = Expected

ValidateExpectedOracles ==
    /\ pilot.pc = "read" /\ Unread = {}
    /\ pilot' = [pilot EXCEPT !.pc = IF OraclesAccepted(pilot.oracles) THEN "trials" ELSE "invalid"]
    /\ UNCHANGED <<csv, db, changes, files, gen>>

\* What build_pilot_summary makes of the trials.  A pair is summarised by its label
\* and counted per case (under the expected rule), per rule, per edge and in all.
PairSummaries(oracles, outcome) ==
    {[case |-> n, oracle |-> oracles[n], edge |-> p,
      effect |-> EffectLabel(TotalUtility(outcome[n][p].with_message, oracles[n]),
                             TotalUtility(outcome[n][p].without_message, oracles[n]))] :
        n \in PilotCases, p \in DirectedPairs}

Tally(S) == [label \in Labels |-> Cardinality({x \in S : x.effect = label})]

Summary(pairs) ==
    [per_case |-> [n \in PilotCases |->
         [oracle |-> Expected[n], counts |-> Tally({x \in pairs : x.case = n})]],
     by_root_cause |-> [rule \in Range(Expected) |-> Tally({x \in pairs : x.oracle = rule})],
     by_edge |-> [p \in DirectedPairs |-> Tally({x \in pairs : x.edge = p})],
     overall |-> Tally(pairs)]

\* All trials, which by then cannot fail validation, and the files, which no code reads.
RunTrials(outcome) ==
    /\ pilot.pc = "trials"
    /\ pilot' = [pilot EXCEPT !.pc = "valid",
                              !.summary = Summary(PairSummaries(pilot.oracles, outcome))]
    /\ UNCHANGED <<csv, db, changes, files, gen>>

\* Any exception, in particular one of those above; or the pilot is over, which
\* validate_oracles_only is as soon as it knows the labels.
PilotEnds ==
    /\ pilot.pc # "idle" /\ pilot' = NoPilot
    /\ UNCHANGED <<csv, db, changes, files, gen>>
-----------------------------------------------------------------------------
\* Other data files are downloaded; the import replaces all tables by them.
NewData(data) ==
    /\ changes < MaxChanges /\ data # csv
    /\ csv' = data /\ changes' = changes + 1
    /\ UNCHANGED <<db, files, gen, pilot>>

Import ==
    /\ db # csv /\ db' = csv
    /\ UNCHANGED <<csv, changes, files, gen, pilot>>

Next ==
    \/ \E overwrite \in BOOLEAN : Generate(overwrite)
    \/ Unlink \/ Select \/ WriteFile \/ GeneratorDies
    \/ StartPilot \/ LoadFile \/ LoadPilotCases \/ AskContext \/ LabelCase
    \/ ValidateExpectedOracles \/ PilotEnds
    \/ \E outcome \in [PilotCases -> Behaviours] : RunTrials(outcome)
    \/ \E data \in Tables : NewData(data)
    \/ Import

Spec == Init /\ [][Next]_vars
-----------------------------------------------------------------------------
\* The pilot refuses the labels of its cases only if it read rows other than those
\* that the file of the case was generated from: a generator and a database that
\* follow the same data agree on the rule of every case, by number, even if files were
\* replaced while the pilot loaded them or a generator died half way.
PilotAccepts == pilot.pc = "invalid" => ~pilot.matched

\* The counts of several groups, added up
CountSum(label, tally) == MapThenSumSet(LAMBDA k : tally[k][label], DOMAIN tally)
SumOf(tally) == [label \in Labels |-> CountSum(label, tally)]

\* The counts of a summary agree however they are grouped, and those of a case with
\* those of its rule, although cases are labelled with the pre-registered rules and
\* rules are grouped by the labels read from the database.
SummaryAddsUp ==
    pilot.pc = "valid" =>
        LET s == pilot.summary
        IN  /\ \A n \in PilotCases : s.per_case[n].counts = s.by_root_cause[s.per_case[n].oracle]
            /\ s.overall = SumOf(s.by_root_cause)
            /\ s.overall = SumOf(s.by_edge)
            /\ s.overall = SumOf([n \in PilotCases |-> s.per_case[n].counts])
=============================================================================
