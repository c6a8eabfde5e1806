# A verification project for multiAgent_research

The repository resolves customer disputes about orders of the Olist dataset with
a graph of language-model agents around a deterministic policy engine, offers the
same workflow as a desk service, and studies the value of messages between the
agents with a resumable experiment (`experiments/pvoc_v0`). This directory holds
TLA+ models of it, the TLC configurations that check them on small instances, and
theorems that the TLAPS proof system checks.

Source paths below are relative to `src/`. `PROJECT.json` lists the components,
runs, mutants, findings, hazards and theorems, and maps every definition that
models code to its lines.

## Inventory

| Component | State it keeps | Operations | Hard behaviour | What makes it correct |
|---|---|---|---|---|
| Case workflow and agents (`src/graph.py`, `src/state.py`, `src/agents/*`) | channels of the graph: three reports, board, decision, verdict, repair count, output, errors | one node per agent, merge, routing, repair, build, write | three specialists in parallel behind a barrier; a repair that goes back into the graph; any node may raise | inputs are there when a node runs; only verified outputs are written; it ends; a failure is reported |
| Policy, finance, verification, builder (`src/policy`, `src/finance`, `src/verification`, `src/output/builder.py`, `config/policy_v1.yaml`) | none | totals, classification, decision, evidence, checks | overlapping rules, strict comparisons, tolerance, truncations | follows the documented policy; engine, builder and verifier agree |
| Repository and import (`src/database/repository.py`, `scripts/import_olist_csv.py`) | the tables | one transaction per query; a reload of everything in one transaction | a reload between two queries of one case | outputs never certify a mixture of two states |
| Output writer (`src/output/writer.py`) | `EC_nnn.json` | write beside, rename | a failure after the rename | a file is whole and verified |
| Batch runner (`src/batch_runner.py`) | output directory, trace, results | preflight, clear outputs, run cases under a semaphore, report | one case failing, the trace failing, cases that end silently | every case is counted once; exit 0 only with all files |
| Dispute desk (`src/api/main.py`) | rows of cases and runs, tasks in memory | create, run, complete, decide | timeouts, restarts, concurrent requests | a run row settles and says what happened |
| Model clients (`src/llm/openrouter_client.py`, `experiments/pvoc_v0/core/llm.py`) | a semaphore | request, retry, repair of an invalid answer | retries under a timeout and a slot | bounded attempts, slots come back |
| Research dataset (`experiments/pvoc_v0/studies/dataset_v1*.py`, `core/io.py`) | a run directory: manifest, three raw files, dataset, summary | create, append, stop, resume, clean, finalize | kills between any two writes, torn appends, a reload between any two readings | see `DatasetPromise` |
| Research protocol (`experiments/pvoc_v0/core/protocol.py`, `schemas.py`) | none | observations, messages, labels, utilities | three private views from seven queries, a label from three more | the views together show what a message cites and a label depends on |
| Smoke and stability studies (`studies/smoke.py`, `stability.py`) | a results directory: records and a manifest per smoke run | run the pairs, write two files; choose the newest result about the first case, compare views, repeat its messages | the newest result is chosen while runs write theirs; messages frozen from earlier rows are repeated on rows read now | only whole results are used; what is repeated still fits |
| Pilot study (`studies/pilot.py`, `pilot_analysis.py`) | none until it is over | load six cases, label them, compare with the pre-registered rules, run, summarise | input files, data files and database change independently; cases are counted by expected rule and by label | labels are refused only for a cause; the counts add up |
| Input generator and validator (`scripts/generate_inputs.py`, `validate_inputs.py`) | the 50 input files | remove, select by rule, write; load | dies between removal and the last file; runs while the pilot loads | the number of a file tells its rule |
| Frontend (`frontend/src/App.tsx`) | the answers on the pages | look, start a run, decide | answers overtake each other; nothing tells a page of a change | a decision is made on the output of a completed run |
| Trace, metadata, tools, other scripts | append-only events; none | I/O | | tools are queries of the agents; the rest is not modelled |

Interactions: the batch runner and the desk each invoke the graph for a case; the
graph's nodes call agents; agents call the repository (through tools) and the model
client; the verifier calls the policy engine, the builder and the repository again;
the import changes the tables under all of them. The dataset run reads the same
tables through the same policy engine (the oracle of a case), and the model client
of its own; a directory is handed from one process to the next. The generator reads the
data files that the import loads and writes the inputs that all of the research loads;
the smoke study leaves messages for the stability study in the results directory; the
pages of the frontend show what the desk answered and decide on it.

## Plan

Done in the first stage, most important behaviour first:

1. `PolicyEngine`, `PolicyCheck` - the deterministic core, checked against the
   documented policy; everything else uses it.
2. `CaseWorkflow` - one case in the graph; `CaseWorkflow_proofs` - its theorems.
3. `DatasetPromise`, `DatasetRun` - the crash-safe run directory and its refinement.
4. `CasePromise` - what the graph promises to its two callers; `CaseWorkflow` is
   shown, and proved, to implement it.
5. `BatchRunner`, `DeskRuns` - the two callers, over that promise; `DeskCases` - the
   transactions that create cases.
6. `ModelClient` - retries, timeout, semaphore and repair of both model clients.

Done in the second stage:

7. `StudyProtocol` - views, messages, labels and measures as pure operators;
   `StudyPromise`, `Studies` - the smoke and the stability study beside the import;
   `Studies_proofs` - its theorems.
8. `PilotRun` - generator, loader and pilot beside data files that change.
9. `DeskPage` - the pages over `DeskRuns` and the decision of their users.
10. In `DatasetRun`, the labels that are read one by one, and the observations that are
    read case by case, long after them (`LabelFits`).

Done in the third stage, the proofs:

11. `DatasetRun_proofs` - its invariants and the refinement of `DatasetPromise`.
12. `Batch_proofs` (the batch runner and the model clients), `Desk_proofs` (cases, runs and
    pages), `PolicyCheck_proofs` - all invariants their runs check; `SettledKept`.
13. In `CaseWorkflow_proofs`, `SilentOnlyAfterRepair` and `StableNeverRepaired`; in
    `Studies_proofs`, the refinement of `StudyPromise`.
14. `PilotRun_proofs` - both invariants of the pilot; `PolicyEngine_proofs` - the lemmas
    about finite sets, sums and the ladder of rules that it shares with `PolicyCheck_proofs`.

Left:

15. Two processes on one run directory, should the project ever say what they are
    supposed to do.

## Modules

### PolicyEngine

Pure operators, no state. Rows are records (`order`, items, payments); dates are
numbers with `NoDate` for NULL; amounts are thousandths of a real, so `Money` is
the code's rounding to cents, half up. `Financials` are the totals and the
tolerance; `Precedence` and `Applies` are the ladder of `classify`; `Evaluate` is the
decision with its parties, refund, status and confidence; `BuildFinalOutput`,
`PrioritizeEvidence` and `SchemaValid` are the builder and the limits of the output's
schema; `Verify` is the verdict of the six checks of the verifier, `Passed` or the
repair target of the first failed one. The refund is checked against a table of the
validator's own (`ExpectedRefund`), not the engine's (`BasisAmount`), so that the two could
diverge. Of the evidence (`EvidenceValid`) the model tells only whether a policy it names exists: the
other kinds are well-formed, and about the order of the case, by construction. The limits of the schema (5 entities of a
kind, 10 pieces of evidence, 3 parties) are constants.

### PolicyCheck

A three-step pipeline (decide, build or refuse) on one consistent reading of the
rows, over many orders: status, dates on both sides of each boundary, subsets of four
items by three sellers, payments that miss the total by exactly ten cents and by
more. Limits of 2, 6 and 2 make every truncation happen.

### CaseWorkflow

The graph's scheduling is explicit: `running` is what is left of the current
superstep, `barrier` the specialists that have arrived at the edge to the merge.
`Finish` ends a node; the last of a superstep starts what its edges trigger. An agent
that reads the database does so one query at a time (`Query`, `rows`), so `Import`
may come between any two. `Reject` is what a node raises by its own logic (an empty
channel, a missing order, no rule that applies), `Break` what its environment may
make it raise; both discard the graph's state, as `ainvoke` does. A model's answer is
only whether it contradicts the engine (`Policy(differs)`). The rename of the output
file and the return of the node are two steps.

`Abort` ends the invocation at once: the other specialists are cancelled at their
next await and change nothing that survives.

### CasePromise

All that a caller of the graph can see of a case: whether it still runs, returned or
raised, whether its file is there, whether it reported a failure. A case writes its
file at most once and before it returns; it reports a failure only if it has no file,
as it returns. It is *not* promised that a case without a file says so (see the
findings). `CaseWorkflow` has the refinement mapping (`KeepsPromise`); `BatchRunner`
and `DeskRuns` take their graph's steps from `Successors`, so that what they are shown
to do holds over the real graph.

### BatchRunner

`src/batch_runner.py` from the preflight to the exit status. The files are `none`,
`old` or `new`, so that it matters who wrote them; `trace` is the set of events of the
trace file, which starts with those of an earlier run. `job` is where the coroutine of
a case is; a slot of the semaphore is held by those that have left `waiting` and not
ended. A failing trace is `EmitFails`: inside the `try` block the case fails, in the
handler or before the block the exception leaves `gather` (`raising`), the others go
on until the loop ends and cancels them (`Cancel`). `Break` is any other exception.

### DeskCases

The transactions of `create_case`. `at` is where a request's transaction is; a row
that is inserted but not committed is invisible to `SELECT MAX` and makes another insert of
the same number wait, as PostgreSQL does under READ COMMITTED. `Refuse` is a missing
order or any roll-back; a commit whose answer is lost is `Commit` with a refused
request. `Decide` overwrites the decision, without a guard, as the code does. `Desk_proofs`
reasons about cases and runs in one module, so the next-state relation and the
specification have names of their own here (`CasesNext`, `CasesSpec`), as in `ModelClient`.

### DeskRuns

An investigation is a row of the database, a task in memory, a graph and a trace
file. The row is committed before the task exists (`Post`, `Schedule`). `Timeout` may
come at any step of the graph. The `UPDATE` of `complete` may raise before or after it took
effect (`CompleteRaises`): the first time the handler writes again, then the task ends
with the exception. `Kill` loses the tasks; `Initialize` starts a server and leaves
the rows as they are. How a task ended (`ended`, `raised`, `lost`) is a ghost that no
code reads.

The requests and the investigations of the desk are in two modules because they share
only the existence of a case, which nothing takes back (`NeverReplaced`).

### DeskPage

`DeskRuns` with its users. `posted` is the order of `started_at`, by which `case_detail`
lists the runs; `screens` holds every answer the server ever gave, because pages are
many, their answers overtake each other (`App.tsx`, the polling effect) and none is told of a
change. `DecideFrom` needs an answer with an output on some screen and nothing else: the
request names the case, not the run. `decided` is a history variable: the runs that were
on the screen.

### ModelClient

The calls of both clients. `place` is where a call is, `attempt` counts the attempts at
the request it is at, `part` tells the first request from the repair. The semaphore
(`free`) belongs to the workflow's client, one for all its calls, and is held from
`Send` to the answer of the attempt, not while the call waits for the next
(`with attempt` is outside of `async with self._semaphore`). The studies' client makes one
call at a time, has no semaphore, and repeats the request after an invalid or empty
answer, where the other one asks for a repair or fails. What an answer says is not
modelled; that a failed call leaves the agent with its deterministic report is in
`CaseWorkflow` (an agent's result does not depend on the narrative). The provider's
library has retries of its own, which to these clients are part of an attempt.

### DatasetPromise and DatasetRun

`DatasetPromise` is what the readers of a run directory may rely on: cases are
committed one at a time, for good, each by one attempt; a run may stop and go on; it
is published once, whole, as committed. `DatasetRun` is the code: the manifest, the
three raw files as sets of records, the dataset and its summary on one side; the
process with its program counter and its memory on the other. Every append, rename
and manifest update is a step; `Fail` (an exception, reported in the manifest) and
`Crash` (nothing reported) may come before each, and leave some lines of the append
that was due, possibly half of the next. `Change` reloads the database, which moves
the oracles. A record carries the `attempt` that wrote it, a ghost that no code
reads. `committed` and `published` of the promise are computed from the files
(`Committed`, `Published`).

A process reads the labels of all inputs when it starts, one after the other in transactions
of their own (`ReadOracle`; `labels` is `oracle_actions`), and the observations of a case
when its turn comes (`StartCase`). The database is what the engine says of each input, one of
`Databases`, and `Change` may come between any two readings, and in the midst of one. So the mapping
that `Validate` accepts may be mixed of several states of the database, none of which need have
it: the code compares only its distribution, and on a resume the mapping in the manifest. A
reading that the database changed under (`Midway`) may give any label, since it consists of several
queries. History variables tell when readings were made, as counts of changes: `began` when the
reading under way began, `since` the same for each label that was read, and `seen`, which a message
keeps, what the engine says of the rows its agents saw, since when its label was being read, and from
when to when the rows were. That the engine may refuse an order altogether is in `Fail`.

Inputs (the 50 case files) are fixed during a run, one process works on a directory
at a time, and renames and appends that returned are durable.

### StudyProtocol

Pure operators over a *reading*, the sequence of the answers to the seven queries of
`PrivateObservationBuilder.build` (the order and the items are asked for twice) or to
the three of `get_policy_context`. `View` is what each of the three agents is shown, and
stands for its fingerprint; `EvidenceIds` is what its messages cite; `Oracle` is the label, from
the engine of `PolicyEngine`; `CaseRecords` are the six records of a case. `TotalUtility` and
`EffectLabel` are the measures.

### StudyPromise and Studies

`StudyPromise` is what the studies rely on: results appear whole and never change, and a
study repeats the messages of one result about the first case alone, at least as recent
as any that existed when it began. `Studies` is the code of both studies with any number
of smoke runs. `Ask` and `AskAgain` are single queries, so `Import` may come between any
two; a record file and a manifest are written in two steps each (`written`), so a listing
(`Begin`) may find a manifest that is not whole, and `ReadManifest` then fails.
`LoadFrozen` takes the newest candidate, `Compare` is the comparison of fingerprints
(`SameViews`). `mixed` is a history variable: the smoke runs during whose reading an import
fell. `finished` orders results by the time of their manifests; the code reads it
from the file system.

### PilotRun

Three things that change independently: the data files (`NewData`), the database
(`Import`) and the input files (the generator: `Unlink` one by one, `Select`, `WriteFile`
in two steps, or it dies). An input file is the order it claims; the data it was generated from
are a ghost. `Pool` is the qualification of orders by rule; `Selections` is any choice of
distinct ones, of which the code takes a preferred one. The pilot lists the files,
loads them one by one, reads the context of its cases query by query, labels them,
compares with the pre-registered table and summarises. That the table of the source belongs
to the distribution of the source is an assumption that TLC evaluates
(`PreRegistered`); the instance is a smaller distribution with its own table.

## Runs

| Run | Instance | What it shows |
|---|---|---|
| `CaseImport` | four databases (late by two sellers, canceled, no rule, no order), 2 imports, fairness | the safety and the end of a case, and its promise to its callers, 496,000 states |
| `CaseSilent` | seven databases (also late by one seller, by the carrier with free freight, split payment), 1 import | **violated**: a repair of a specialist ends the graph silently |
| `PolicyPipeline` | 27 orders, 16 item sets, 11 payment sets | engine, builder, verifier and documentation agree |
| `PolicyLateFree` | the same | **violated**: a late delivery with free freight is `no_action` |
| `BatchRunner` | 3 cases, 2 slots, fairness | the safety and the end of a batch |
| `DeskCases` | 3 requests, capacity 2, fairness | case numbers under concurrent transactions |
| `DeskRuns` | `DeskPage` with 2 runs, 2 kills, fairness | what a run's row says, what a decision rests on, and that a shutdown ends |
| `ModelClient` | 2 calls of the workflow, 1 of a study, 1 slot, 2 attempts, fairness | slots come back, calls end, and fail for a cause |
| `DatasetCrash` | 2 cases, 2 pairs, 2 trials, 3 resumes, 3 databases, 2 reloads, torn appends, fairness | the safety of a run directory, which labels may not belong to the rows their agents saw, that it implements `DatasetPromise`, and that it settles; 754,000 states |
| `DatasetTorn` | 1 resume | **violated**: half a line is never cleaned |
| `Studies` | 2 smoke runs of one or two cases, 1 stability run, 4 databases, 1 import | the studies implement `StudyPromise`; what is repeated fits; 822,000 states |
| `PilotRun` | 3 rules for 4 cases, 5 orders, 3 tables, 1 change of data | labels are refused for a cause, counts add up; 798,000 states |

Bounds. Two imports let the board mix two states and the verifier see a third, and
let a case be repaired and then fail; one is enough for a repair. In
`CaseImport` every check of the verifier but those of the schema and of the evidence fails in
some state, and each of its three repair targets is taken; the schema's limits are reached in
`PolicyPipeline`.
No output that the builder makes fails the check of the evidence (`EvidenceBuilt` in
`PolicyEngine_proofs`). The databases differ in the outcome of the policy, in the entities
and in the totals. Two cases are needed for a completed and an incomplete one side by side,
two pairs and two trials for an append that is cut off within a case and within a pair,
three resumes for a cleaning that is itself cut off, a failing process after it and a last
one that completes. All messages and observations have one content, which is the harder
case: what two attempts leave may pass validation together, and only `attempt`, which the
code does not have, tells them apart.

Of the three databases one has the expected distribution; labels read partly from the second and
partly from the third have it too, although neither of the two has. Two reloads mix two databases
within the labels and change them again before the observations, or put the first database back:
the labels that a resume reads are then those of the manifest, and what was recorded in between is
not noticed.

Two smoke runs make one finish while the study lists, or leave half a manifest; one import
falls into the reading of a run, between runs, or into that of the study. The four rows of the
first case differ from each other in a label without other evidence (seller or carrier late),
in evidence without another label (another seller), or in being there at all. Runs are
interchangeable, so they are a symmetry set. The distribution of the pilot has two rules
between which the order of precedence decides (a canceled order that was delivered late), and the
two late rules whose orders trade places in the second table; in the third one order is gone
and one has no freight to refund, so the generator gives up with the old files removed.

Three cases on two slots make one wait; two requests compete for a number while a
third has the next, and the capacity ends between them; two runs at different places
of their life meet a kill each, and rows orphaned by the first are seen by a server that
is itself killed.

Deadlock is checked in every run but `Studies`, where the smoke runs, the studies and the
imports of the instance are used up in the end. A case or a batch that ended, a pipeline that
is done, requests that are answered and a directory or a server that nobody works on may
stutter (`Ended`, `AllEnded`, `Done`, `Rest`).

### Properties

Case: `NeverIncomplete` (no node runs on an empty channel), `OutputVerified` (a file
states what the policy gives for the rows that the verifier read, although it was
built from rows read earlier), `StableNeverRepaired` (without imports nothing is
repaired or fails), `ConfidenceHonest`, `DecisionCurrent` (nothing stale is verified
after a repair), `SilentOnlyAfterRepair` (the only way to end with neither output
nor report), `CaseEnds`, `KeepsPromise` (what the callers rely on).

Batch: `NoStaleOutput`, `TraceHonest` (completed only with a new file and never with
failed; a case missing in the trace is one whose graph was silent), `ExitHonest` (exit 0
means a new file and an event for every case, and the metadata count the events),
`BatchEnds`.

Desk: `Contiguous`, `NeverReplaced`, `RequestsEnd` (inserts of one number do not wait
for ever); `RowHonest`, `RunningAccounted` (a row is left running only by a kill or an
update that failed), `SettledKept` (a settled row is only ever written again by the
task that did not learn of its own commit), `ShutdownEnds`; `DecisionGrounded` (who decides
was shown the verified output of a run that completed, however old the screen).

Policy: `SelfVerifies` (the verifier accepts engine and builder on one reading),
`ClassifiedAsDocumented` (the documented policy, stated from the rows),
`RefundJustified`, `EvidenceGrounded`, `BlamedSellersLate`.

Model clients: `FailsForCause` (no call gives up before its attempts and its repair are
used), `CallsEnd`; the type invariant `ClientTypeOK` says that slots are free or held by a request.

Dataset: `CaseFromOneAttempt`, `ManifestHonest` (what COMPLETE, INVALID and the count of a
controlled stop say is so, however often cleaning and publishing were cut off), `LabelFits`
(the label of a record and what the engine says of the rows its agents saw differ only if the database
was reloaded between the beginning of the one reading and the end of the other, both by one process;
and no later process goes on with such a record, or completes the run, unless the database changed
again, or changed while the agents' rows were read), `RunSettles`, `KeepsPromise`.

Studies: `KeepsPromise` (of `StudyPromise`), `MessagesGrounded` (a repeated message cites what
its sender would cite on the rows read now; "Observation fingerprints enforce this invariant",
`experiments/pvoc_v0/README.md:26`, compares what the *recipients* see), `LabelsFit` (the
frozen label is that of those rows, which no code checks again, unless an import fell into
the smoke run's own reading).

Pilot: `PilotAccepts` (labels are refused only if rows other than those of the generator were
read), `SummaryAddsUp` (the counts by case, rule, edge and in all agree, although cases carry
the expected rule and rules are grouped by label).

Each has a mutant of the code that breaks it, defined before the operator it mutates.

### Fairness

`CaseWorkflow!FairSpec` assumes weak fairness of `Step`, all steps of the graph
together: the event loop runs every ready task, database calls and model calls have
timeouts, so a case that can make a step makes one. Nothing is assumed of imports,
failures or of one specialist against another. `DatasetRun!FairSpec` assumes the same
of a running process and also that a stopped run is resumed, which is what its
manifest asks its operator to do (`dataset_v1.py`, `_safe_failure`); failures and kills
are bounded by `MaxResumes`, after which the last process is left alone.

`BatchRunner!FairSpec`: the event loop runs the ready tasks, and a case ends
(`CaseEnds`). `DeskCases!CasesFairSpec` and `DeskPage!PageSpec`: PostgreSQL answers a statement
or fails it. The engine sets no statement timeout (`src/database/connection.py`), so a
connection that hangs for ever is outside of this assumption. `PageSpec` assumes
nothing of the graph, nor that anybody ever looks or decides; that a shutdown ends rests on the 180 s timeout.
`ModelClient!ClientFairSpec` rests on the timeout of an attempt (`asyncio.wait_for`) and on the
semaphore, which wakes its waiters in turn. `Studies` and `PilotRun` assume no fairness: their
processes may stop anywhere, and nothing resumes them.

## Findings

- **A repaired case may end silently** (`CaseSilent`). The edge from the three
  specialists to `merge_evidence_board` (`src/graph.py:240`) opens when all three have
  arrived since it last opened. When the verifier sends a repair to one specialist,
  the barrier waits for two that do not run again; the graph returns with no output,
  no errors and no `case_failed` event, against `architecture.md:517`. The file is
  still never wrong (`OutputVerified`), and this is the only way to end silently
  (`SilentOnlyAfterRepair`). It needs rows that change during the case
  (`StableNeverRepaired`).
- **Late with free freight** (`PolicyLateFree`). `case_status` follows the refund
  (`src/policy/engine.py:44`), while `architecture.md:1106` and `:1129` give every late
  delivery `action_required`.
- **A torn line blocks a run** (`DatasetTorn`). `read_jsonl` (`core/io.py:27`) raises
  on half a line before the cleaning that `IMPLEMENTATION_LOG.md:65` describes, and
  again at every later resume. `RunSettles` therefore excepts directories with a torn line.

## Proofs

Every safety and action property that a passing run checks, and each of the three
refinements, is a theorem. A run shows a property on its instance; a theorem, from the
assumptions of the module alone, for any number of cases, rows, calls, runs, imports and
crashes. Each module of proofs has one lemma per action for its inductive invariant (`IInv`;
`CasesInv` and `ClientInv` for the second component of a module), and the theorems follow it.

### CaseWorkflow_proofs

- `TypeCorrect`: `Spec => []TypeOK`. `TypeOK` is more than types: a superstep is one
  node or a set of specialists, and the barrier is never full. It needs `Routed`: the
  repair router runs only before the first repair, with a target that is a node. This
  follows from `VerifyValue`, a lemma on what a verdict can be.
- `Implements`: `Spec => KeepsPromise`, the refinement of `CasePromise`, from the same
  invariant: every step of the graph is one of the four changes a caller can see
  (`Seen`, `StepSeen`), or none; a file is really written because an output was built
  (`Built`), and the case that reports a failure has no file (`NoFileYet`).
- `InputsComplete`, `FileVerified`, `HonestConfidence`, `CurrentDecision`: four
  safety invariants, from one inductive invariant `IInv`.
- `SilentExplained`, from `EndInv`: before a repair the specialists at the barrier and
  those still running are all three, so that a superstep that ends opens it; after a repair
  one specialist runs alone (`SpecialistsRun`). `Returned` says what an invocation has to
  show for itself when it ends.
- `NeverRepairedWhenStable`, from `Stable`: while nothing was imported, what an agent has
  read so far is a prefix of what it would read now (`RowsCurrent`), and the reports
  and the board are made of the rows there are (`ReportsCurrent`, `BoardCurrent`). That the verifier then passes is a theorem
  about the policy, `OneReadingPasses`, which rests on `VerifyValue`, `ExpectedRefundIsBasis` (the
  validator's table of refunds is the engine's) and `EvidenceBuilt` of `PolicyEngine_proofs`: it compares what it reads with what the board says
  through six checks, and all hold when both are of one state of the rows.

The invariants are not inductive: what holds of the file holds because of what held
of the board, the decision and the verdict before. `IInv` follows the data through
the graph: `Reported` (who arrived at the barrier has reported), `Boarded` (who needs
the board has it), `Unconflicted` (before the first decision there is no conflict on
the board), `Decided` (the decision from the verifier on is the current one),
`Judged` (a build runs only after a passed verdict on this board), `Built` (the file
is the output built from them). `Next` splits into
steps that end a specialist (`SpecialistEnds`), steps that end another node
(`OtherEnds`) and steps that change neither (`GraphUnchanged`, `NothingDecided`).

### PolicyEngine_proofs and PolicyCheck_proofs

`PolicyEngine_proofs` has the lemmas about pure operators, on which the proofs of the
pipeline, of the case and of the pilot rest; `PolicyCheck_proofs` the theorems.

All five properties, for any rows and any limits of the schema. What the engine decides
(`EngineDecided`) and the builder builds (`BuilderBuilt`) are functions of the rows, so the
work is in the lemmas about them. `AddsUp` says what a sum over a finite set is, and the sums
of the model are such sums (`ColumnAddsUp`, `CostAddsUp`); the prover cannot instantiate the
library's induction theorems, so an induction is done on sets instead: a property
of the subsets of a finite set is the set of those that have it (`SubsetInduction`), and a
number without a property has a least one (`LeastNat`). From there, `SumOfCents` (no fraction of
a cent is lost), `SumOfSums` (prices and freight may be added before or after),
`SmallestKeeps` and `EvidenceValue` (what `sorted(...)[:n]` keeps, and that the evidence is cut only when
it is full), `ClassifyValue` and `RuleFacts` (the first rule that applies, and what it asks).
`ClassifiedHolds` and `RefundHolds` compare the ladder of the code with the documented
policy through them; `VerifierAgrees` goes through the checks of the verifier one by one.

### Batch_proofs

Of the model clients, `SlotsAccounted` and `GivesUpForCause`. A step leaves the slots alone, takes one with its call
or returns one with its call (`SlotUntouched`, `SlotTaken`, `SlotReturned`). `AttemptsLeft` is
the strengthening: a call that may still send has attempts left.

Of the batch runner, `SlotsBounded`, `FreshOutputs`, `TraceAgrees`, `ExitAgrees`. `CaseGood` ties the task of a case to
its events, its file and what `CasePromise` lets its graph do; `Phases` says what is and what is
not yet reported in each phase; `AllOut` what exit status 0 has behind it. `ExitAgrees` counts: with no
failed id among the results, the successes are all cases.

### Desk_proofs

`RowsHonest`, `RunningHasTask`, `SettledRowsStay` and `DecisionsGrounded`, of `PageSpec`, which is
`DeskRuns` with its users. `InPlace` says what graph and trace must be where a task is, also
when its result was committed without its knowing; `Backed` that what a row says stays true of
both. `Shown` says the same of every screen and decision; it is kept because what a run has
reached is never undone (`GroundedStays`), although its row may be rewritten.

Of the creation of cases, `NumbersContiguous` and `CasesStay`, for any set of requests
and any capacity. The invariant `Numbered(n)`: with 1..n committed, no request holds a
number above n + 1, and at most one uncommitted row exists, with number n + 1. So a
second insert of a number finds it committed or waits, and no commit leaves a hole.

### DatasetRun_proofs

`OneAttemptPerCase`, `ManifestTells`, `LabelsFit` and `Implements`, for any number of inputs, cases,
pairs, trials, databases, resumes and changes. `Stored` is what the disk always holds, whoever died: only
cases that pass validation have a summary, and the records of one case are of one attempt.
`Known` is what the process has in memory about the disk; `Labelled` how each label and
each message relate to the changes of the database: a label whose reading began after the last change is
the engine's (`Readings`), a misfit spans a change (`Sound`), and one that a later process goes on with
is followed by another (`Noticed`), because the later process began all its readings afterwards
(`since`) and its mapping equals the manifest's (`AllRead`). `Found` what its inspection
found, and what cleaning has done about it so far; `Work` the case it works on, pair by pair;
`Issued` what it has published. A crash forgets all but `Stored` and what the manifest says, and leaves
a part of the append that was due (`CutOffStored`), always of the case at work. The counts that
`finalize_run` compares follow from the validity of every case (`MessagesCounted`,
`TrialsCounted`). The refinement: a summary is the only thing that commits a case
(`CommittedStays`), the status moves as promised (`StatusMoves`), and what is published is
all there is (`PublishedIsAll`).

### Studies_proofs

`FrozenGrounded` and `FrozenLabels`, for any databases, imports,
predictions, selections of cases and numbers of runs. The stability study compares six
fingerprints, each of what one recipient sees, and neither the senders' views nor the label.
This is enough because every agent is the recipient of some record (`RecordsShow`): equal
fingerprints are equal views of all three, equal views mean equal evidence (`SameEvidence`), and
together they show whatever the label depends on (`SameShown`). The rest is an inductive
invariant `IInv`: the records of a run about the first case were made from a single reading of it
(`Recorded`), whose ten answers (`Readable`) come from one database unless the run is in
`mixed` (`Unmixed`); `StudyInv` says that the study's source is a run whose records are final.

`Implements` is the refinement of `StudyPromise`, from `Wholes`: `Made` (a run has the records of
exactly the cases it is through with, `Covers`), `Ordered` (each whole manifest has one place in
the order of their times) and `Listing` (while it lists, the study misses no usable result there was
when it began, however many runs finish or die meanwhile). `CoversWhole` counts the records through
a bijection with the cases and pairs; the last part of a manifest is the step that publishes
(`PublishStep`), and nothing that a smoke run does before is seen (`Unseen`).

### PilotRun_proofs

`AcceptsWhatMatches` and `SummaryCounts`, for any distribution, orders, data files, outcomes of
the trials and interleavings of generator, import and pilot. Both rest on what numbers mean.
A file's number tells its rule because the first numbers of the rules increase
(`FirstsIncrease`), so that the rule of a first number is the one counted from there
(`RuleOfFirst`), and each case of the pilot has a rule of its own (`ExpectedValue`).

The inductive invariant has one part for the disk and four for the pilot. `FilesWhole`: a file that is whole, whoever wrote it and however many generators
died since, is of an order the engine put under the rule of its number, in the data it
was generated from. `Loaded`: so is every file in the pilot's memory, although the disk may have moved on.
`Reads`: as long as the rows read are those data (`matched`), the answers so far are those of the claimed
order. `Labelled`: under the same condition every label so far is the expected one, and past the
check all are. `Summed`: a summary is one of the expected labels, for some outcome. That the label
of a whole reading is the rule of the number is `OracleOfReading`, which goes through the engine's
evaluation of the three answers; together with `ExpectedValue` it is why a refusal
(`ValidateInv`) has a cause.

The counts are sums over finite sets, taken through `AddsUp` again: members may be taken in any
order (`SumWithAny`), and disjoint parts add up to the count of their union (`PartsAddUp`,
`TallyOfParts`). `SummaryValue` then cuts the set of all pairs by case, by rule and by edge; that the
parts of the first two are the same needs labels that are different for different cases, which is what
validation against the pre-registered table is good for.

### Assumptions

They stand in the modules and TLC evaluates them in the runs: the kinds of the constants
(`LimitsAssumption`, `DatabaseAssumption`, `ImportAssumption`, `CapacityAssumption`,
`ClientAssumption`, `KillsAssumption`; there is room for a responsible party), and that input cases and calls
are finitely many (`BatchAssumption`, `RunAssumption`). About data:

- `OrdersAssumption` and `RowsAssumption` of `PolicyCheck`: dates and keys are ordered like
  numbers, rows are finitely many, amounts are whole cents, as the columns of the tables are
  (`src/database/models.py:25-58`), and not negative.
- `TotalsAssumption` of `CaseWorkflow`: no total is negative, which the output's schema
  demands (`src/schemas/final_output.py:49-52`). `ColumnValue` proves it of any finite set of
  rows without negative amounts.
- `StudiesAssumption`: a smoke run is for one case or for all, each once
  (`experiments/pvoc_v0/studies/smoke.py:46`), and every case has an entry in every database;
  `RowsAssumption` of `Studies`: an order has its fields.
- `DistributionAssumption` of `PilotRun`: every rule has one place in the distribution, with at
  least one case, as in `DISTRIBUTION` (`scripts/generate_inputs.py:18-25`); `PilotAssumption`: every
  table has an entry for every order, and every outcome one for every edge.

### Model-checked only

The liveness properties, which are out of the
prover's reach, as is `ENABLED`: `CaseEnds`, `BatchEnds`, `RequestsEnd`, `ShutdownEnds`, `CallsEnd` and
`RunSettles`. The three violations are counterexamples and not a matter of proof.

## Not modelled

- Two processes on one run directory. A manifest that says RUNNING is accepted and nothing
  locks the directory (`dataset_v1_store.py:94`), but neither the code nor its documents say what two
  processes should do; the model has one at a time, as the command's use supposes.
- The contents of trace and metadata, and the tools' trace events: append-only I/O. What
  depends on the presence of an event is in `CaseWorkflow`, `BatchRunner` and `DeskRuns`.
- Prompts and the texts that models write. An answer is whether it contradicts the engine
  (`CaseWorkflow`), or the action it chooses (`StudyProtocol`, `PilotRun`).
- The parsing of CSV and of input files, beyond whole or not whole.
- Means of tokens, latency and confidence, costs and `v_star` in the studies: arithmetic on
  measured values, without control flow that depends on them.
- The trials of the stability study and its artifacts, and the read-only validation of a
  completed dataset: nothing reads what they leave.
- The export and check scripts: sequential file checks without state.
- The desk's other read-only endpoints, and the lists, search, timer and layout of the pages.
