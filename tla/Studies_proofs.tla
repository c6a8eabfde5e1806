--------------------------- MODULE Studies_proofs ---------------------------
(***************************************************************************)
(* Theorems about Studies, for any tables, imports, runs and predictions:  *)
(* what the stability run repeats still fits the rows it has read, and the *)
(* studies implement StudyPromise.                                         *)
(***************************************************************************)
EXTENDS Studies, FiniteSetTheorems, TLAPS

Answers == UNION {{Answer(d[First], CaseQueries[k]) : k \in DOMAIN CaseQueries} : d \in Databases}

Queries == {"order", "items", "sellers", "payments", "reviews"}

\* Each query by its number.
LEMMA QueryFacts ==
    /\ ObservationQueries \in Seq(Queries) /\ Len(ObservationQueries) = 7
    /\ CaseQueries \in Seq(Queries) /\ Len(CaseQueries) = 10
    /\ CaseQueries[1] = "order" /\ CaseQueries[2] = "items" /\ CaseQueries[4] = "payments"
    /\ CaseQueries[5] = "order" /\ CaseQueries[8] = "order" /\ CaseQueries[9] = "items"
    /\ CaseQueries[10] = "payments"
    /\ \A k \in 1..7 : ObservationQueries[k] = CaseQueries[k]
<1>1. ObservationQueries \in Seq(Queries) /\ CaseQueries \in Seq(Queries)
  BY DEF ObservationQueries, CaseQueries, Queries
<1>2. Len(ObservationQueries) = 7 /\ Len(CaseQueries) = 10
  BY DEF ObservationQueries, CaseQueries
<1>3. \A k \in {1, 2, 3, 4, 5, 6, 7} : ObservationQueries[k] = CaseQueries[k]
  BY DEF ObservationQueries, CaseQueries
<1>4. /\ CaseQueries[1] = "order" /\ CaseQueries[2] = "items" /\ CaseQueries[4] = "payments"
      /\ CaseQueries[5] = "order" /\ CaseQueries[8] = "order" /\ CaseQueries[9] = "items"
      /\ CaseQueries[10] = "payments"
  BY DEF CaseQueries
<1>5. 1..7 = {1, 2, 3, 4, 5, 6, 7}
  OBVIOUS
<1> QED BY <1>1, <1>2, <1>3, <1>4, <1>5
-----------------------------------------------------------------------------
\* The three views show everything that a message cites and that a label depends on.
ViewsAgree(a, b) == \A agent \in Agents : View(agent, a) = View(agent, b)

LEMMA ViewFacts ==
    ASSUME NEW a, NEW b, ViewsAgree(a, b)
    PROVE  /\ a[1].status = b[1].status /\ a[2] = b[2] /\ a[3] = b[3] /\ a[4] = b[4]
           /\ a[5].estimated = b[5].estimated /\ a[5].carrier = b[5].carrier
           /\ a[5].customer = b[5].customer
           /\ {r.id : r \in a[6]} = {r.id : r \in b[6]}
<1>1. View("order_seller_agent", a) = View("order_seller_agent", b)
  BY DEF ViewsAgree, Agents
<1>2. View("payment_agent", a) = View("payment_agent", b)
  BY DEF ViewsAgree, Agents
<1>3. View("delivery_agent", a) = View("delivery_agent", b)
  BY DEF ViewsAgree, Agents
<1>4. a[1].status = b[1].status /\ a[2] = b[2] /\ a[3] = b[3]
  BY <1>1 DEF View
<1>5. a[4] = b[4]
  BY <1>2 DEF View
<1> DEFINE Limits(o) == {[id |-> r.id, seller |-> r.seller, limit |-> r.limit] : r \in o[6]}
<1>6. /\ a[5].estimated = b[5].estimated /\ a[5].carrier = b[5].carrier
      /\ a[5].customer = b[5].customer
      /\ Limits(a) = Limits(b)
  BY <1>3 DEF View
<1>7. ASSUME NEW o PROVE {r.id : r \in o[6]} = {l.id : l \in Limits(o)}
  <2>1. \A r \in o[6] : [id |-> r.id, seller |-> r.seller, limit |-> r.limit] \in Limits(o)
    OBVIOUS
  <2>2. \A l \in Limits(o) : \E r \in o[6] : l.id = r.id
    OBVIOUS
  <2>3. \A r \in o[6] : \E l \in Limits(o) : l.id = r.id
    BY <2>1
  <2> HIDE DEF Limits
  <2> QED BY <2>2, <2>3
<1>8. {r.id : r \in a[6]} = {r.id : r \in b[6]}
  BY <1>6, <1>7
<1> QED BY <1>4, <1>5, <1>6, <1>8

LEMMA SameEvidence ==
    ASSUME NEW a, NEW b, ViewsAgree(a, b), NEW agent \in Agents
    PROVE  EvidenceIds(agent, a) = EvidenceIds(agent, b)
<1>1. a[2] = b[2] /\ a[3] = b[3] /\ a[4] = b[4] /\ {r.id : r \in a[6]} = {r.id : r \in b[6]}
  BY ViewFacts
<1> QED BY <1>1 DEF EvidenceIds

LEMMA SameShown ==
    ASSUME NEW a, NEW b, ViewsAgree(a, b), IsOrder(a[5]), IsOrder(b[5])
    PROVE  Shown(a) = Shown(b)
<1>1. /\ a[1].status = b[1].status /\ a[2] = b[2] /\ a[4] = b[4]
      /\ a[5].estimated = b[5].estimated /\ a[5].carrier = b[5].carrier
      /\ a[5].customer = b[5].customer
  BY ViewFacts
<1>2. ASSUME NEW o, IsOrder(o[5])
      PROVE  [o[5] EXCEPT !.status = o[1].status]
             = [status |-> o[1].status, estimated |-> o[5].estimated,
                carrier |-> o[5].carrier, customer |-> o[5].customer]
  BY <1>2 DEF IsOrder
<1>3. [a[5] EXCEPT !.status = a[1].status] = [b[5] EXCEPT !.status = b[1].status]
  <2>1. [a[5] EXCEPT !.status = a[1].status]
        = [status |-> a[1].status, estimated |-> a[5].estimated,
           carrier |-> a[5].carrier, customer |-> a[5].customer]
    BY <1>2
  <2>2. [b[5] EXCEPT !.status = b[1].status]
        = [status |-> b[1].status, estimated |-> b[5].estimated,
           carrier |-> b[5].carrier, customer |-> b[5].customer]
    BY <1>2
  <2> QED BY <1>1, <2>1, <2>2
<1> QED BY <1>1, <1>3 DEF Shown

\* The fingerprints of the records of a case cover all three views.
LEMMA RecordsShow ==
    ASSUME NEW o, NEW l, NEW p, NEW reading,
           \A x \in CaseRecords(First, o, l, p) : View(x.message.recipient, reading) = x.fingerprint
    PROVE  ViewsAgree(reading, o)
<1> SUFFICES ASSUME NEW agent \in Agents PROVE View(agent, reading) = View(agent, o)
  BY DEF ViewsAgree
<1>1. PICK sender \in Agents : sender # agent
  BY DEF Agents
<1>2. <<sender, agent>> \in DirectedPairs
  BY <1>1 DEF DirectedPairs
<1> DEFINE x == PairRecord(First, CandidateMessage(sender, agent, o, p[sender]), o, l)
<1>3. x \in CaseRecords(First, o, l, p)
  BY <1>2 DEF CaseRecords
<1>4. x.message.recipient = agent /\ x.fingerprint = View(agent, o)
  BY DEF PairRecord, CandidateMessage
<1> QED BY <1>3, <1>4

\* What the records of a case say.
LEMMA RecordFacts ==
    ASSUME NEW o, NEW l, NEW p, NEW x \in CaseRecords(First, o, l, p)
    PROVE  /\ x.oracle = l /\ x.message.sender \in Agents
           /\ x.message.evidence_ids = EvidenceIds(x.message.sender, o)
<1>1. PICK q \in DirectedPairs :
          x = PairRecord(First, CandidateMessage(q[1], q[2], o, p[q[1]]), o, l)
  BY DEF CaseRecords
<1>2. q[1] \in Agents
  BY DEF DirectedPairs
<1> QED BY <1>1, <1>2 DEF PairRecord, CandidateMessage
-----------------------------------------------------------------------------
\* A smoke run and a stability run have the fields they started with.
IsSmoke(s) == s = [f \in {"pc", "cases", "at", "reading", "records", "written"} |-> s[f]]
IsStudy(s) == s = [f \in {"pc", "known", "listed", "candidates", "source", "reading"} |-> s[f]]

Shapes ==
    /\ db \in Databases
    /\ smoke = [r \in Runs |-> smoke[r]] /\ \A r \in Runs : IsSmoke(smoke[r])
    /\ IsStudy(study)

\* What has been read of the first case is there, and the order is an order.
Readable(reading) ==
    /\ reading \in Seq(Answers)
    /\ 5 \in DOMAIN reading => IsOrder(reading[5])

\* Without an import in between it is what the tables say.
Unmixed(reading) ==
    \A k \in DOMAIN reading :
        reading[k] = Answer(db[First], CaseQueries[k]) /\ reading[k] # NoOrder

\* The records of one reading of the first case, with a label that fits unless mixed.
Recorded(records, fits) ==
    \E o, l, p : /\ records = CaseRecords(First, o, l, p)
                 /\ IsOrder(o[5])
                 /\ fits => l = Oracle(Shown(o))

\* A smoke run of the first case alone, before and after its pairs.
RunGood(s, r) ==
    /\ s.pc = "new" => s = NotStarted
    /\ s.cases = <<First>> =>
           /\ s.pc = "read" =>
                  /\ s.at = 1 /\ s.records = {} /\ Readable(s.reading)
                  /\ Len(s.reading) <= 10
                  /\ r \notin mixed => Unmixed(s.reading)
           /\ s.pc \in {"write", "over"} => Recorded(s.records, r \notin mixed)
           /\ s.pc # "read" => s.reading = <<>>
           /\ s.written = 4 => s.pc = "over"
           /\ s.pc \in {"read", "write", "over"}

RunInv(r) == RunGood(smoke[r], r)

\* What the stability run lists and uses is about the first case alone and whole.
Candidate(r) == r \in Runs /\ smoke[r].cases = <<First>> /\ smoke[r].pc = "over"

StudyInv ==
    /\ study.pc \in {"idle", "list"} => study.reading = <<>>
    /\ \A r \in study.candidates : Candidate(r)
    /\ study.pc \in {"read", "trials"} =>
           Candidate(study.source) /\ Readable(study.reading)
    /\ study.pc = "trials" => Len(study.reading) = 7 /\ SameViews

IInv == Shapes /\ (\A r \in Runs : RunInv(r)) /\ StudyInv

LEMMA IInvFits == IInv => MessagesGrounded /\ LabelsFit
<1> SUFFICES ASSUME IInv, study.pc = "trials"
             PROVE  /\ \A x \in Frozen : x.message.evidence_ids
                                         = EvidenceIds(x.message.sender, study.reading)
                    /\ \/ study.source \in mixed
                       \/ \A x \in Frozen : x.oracle = Oracle(Shown(study.reading))
  BY DEF MessagesGrounded, LabelsFit
<1>1. /\ Candidate(study.source) /\ Readable(study.reading) /\ Len(study.reading) = 7
      /\ SameViews
  BY DEF IInv, StudyInv
<1>2. Recorded(Frozen, study.source \notin mixed)
  BY <1>1 DEF IInv, RunInv, RunGood, Candidate, Frozen
<1>3. PICK o, l, p : /\ Frozen = CaseRecords(First, o, l, p) /\ IsOrder(o[5])
                     /\ study.source \notin mixed => l = Oracle(Shown(o))
  BY <1>2 DEF Recorded
<1>4. \A x \in CaseRecords(First, o, l, p) :
          View(x.message.recipient, study.reading) = x.fingerprint
  BY <1>1, <1>3 DEF SameViews
<1>5. ViewsAgree(study.reading, o)
  BY <1>4, RecordsShow
<1>6. IsOrder(study.reading[5])
  <2>1. 5 \in DOMAIN study.reading
    BY <1>1 DEF Readable
  <2> QED BY <1>1, <2>1 DEF Readable
<1>7. Shown(study.reading) = Shown(o)
  BY <1>3, <1>5, <1>6, SameShown
<1>8. ASSUME NEW x \in Frozen
      PROVE  /\ x.oracle = l
             /\ x.message.evidence_ids = EvidenceIds(x.message.sender, study.reading)
  <2>1. /\ x.oracle = l /\ x.message.sender \in Agents
        /\ x.message.evidence_ids = EvidenceIds(x.message.sender, o)
    BY <1>3, <1>8, RecordFacts
  <2>2. EvidenceIds(x.message.sender, study.reading) = EvidenceIds(x.message.sender, o)
    BY <1>5, <2>1, SameEvidence
  <2> QED BY <2>1, <2>2
<1> QED BY <1>3, <1>7, <1>8
-----------------------------------------------------------------------------
\* A step of a smoke run that is not over leaves the stability run with what it uses.
LEMMA SmokeStep ==
    ASSUME IInv, NEW r \in Runs, smoke[r].pc # "over",
           NEW s, IsSmoke(s), smoke' = [smoke EXCEPT ![r] = s],
           RunGood(s, r), UNCHANGED <<db, study, mixed>>
    PROVE  IInv'
<1>1. smoke'[r] = s /\ \A q \in Runs \ {r} : smoke'[q] = smoke[q]
  BY DEF IInv, Shapes
<1>2. Shapes'
  BY <1>1 DEF IInv, Shapes, IsStudy, IsSmoke
<1>3. ASSUME NEW q \in Runs PROVE RunInv(q)'
  <2>1. RunGood(smoke'[q], q)
    BY <1>1, <1>3 DEF IInv, RunInv
  <2> QED BY <2>1 DEF RunInv, RunGood, Recorded, Unmixed
<1>4. \A q : Candidate(q) => q # r /\ smoke'[q] = smoke[q] /\ Candidate(q)'
  BY <1>1 DEF Candidate
<1>5. StudyInv'
  BY <1>4 DEF IInv, StudyInv, SameViews, Frozen
<1> QED BY <1>2, <1>3, <1>5 DEF IInv

\* A query about the first case gets one more answer.
LEMMA AskFirst ==
    ASSUME NEW reading, Readable(reading), Len(reading) < 10, db \in Databases,
           NEW answer, answer = Answer(db[First], CaseQueries[Len(reading) + 1]),
           answer # NoOrder
    PROVE  /\ Readable(Append(reading, answer))
           /\ Unmixed(reading) => Unmixed(Append(reading, answer))
<1> DEFINE new == Append(reading, answer)
<1>1. reading \in Seq(Answers) /\ Len(reading) \in Nat
  BY DEF Readable
<1>2. answer \in Answers
  BY <1>1, QueryFacts DEF Answers
<1>3. /\ new \in Seq(Answers) /\ Len(new) = Len(reading) + 1
      /\ \A k \in 1..Len(reading) : new[k] = reading[k]
      /\ new[Len(reading) + 1] = answer
  BY <1>1, <1>2
<1>4. DOMAIN new = 1..(Len(reading) + 1) /\ DOMAIN reading = 1..Len(reading)
  BY <1>1, <1>3
<1>5. ASSUME 5 \in DOMAIN new PROVE IsOrder(new[5])
  <2>1. CASE 5 \in DOMAIN reading
    BY <2>1, <1>3, <1>4 DEF Readable
  <2>2. CASE 5 \notin DOMAIN reading
    <3>1. Len(reading) = 4
      BY <2>2, <1>1, <1>4, <1>5
    <3>2. new[5] = db[First].order
      BY <3>1, <1>3, QueryFacts DEF Answer
    <3>3. db[First].order # NoOrder
      BY <3>1, <3>2, <1>3
    <3> QED BY <3>2, <3>3, RowsAssumption, StudiesAssumption
  <2> QED BY <2>1, <2>2
<1>6. ASSUME Unmixed(reading) PROVE Unmixed(new)
  <2> SUFFICES ASSUME NEW k \in DOMAIN new
               PROVE  new[k] = Answer(db[First], CaseQueries[k]) /\ new[k] # NoOrder
    BY DEF Unmixed
  <2>1. CASE k = Len(reading) + 1
    BY <2>1, <1>3
  <2>2. CASE k # Len(reading) + 1
    <3>1. k \in DOMAIN reading
      BY <2>2, <1>1, <1>4
    <3> QED BY <3>1, <1>3, <1>4, <1>6 DEF Unmixed
  <2> QED BY <2>1, <2>2
<1> HIDE DEF new
<1>7. Readable(new)
  BY <1>3, <1>5 DEF Readable
<1> QED BY <1>6, <1>7 DEF new
-----------------------------------------------------------------------------
\* The pairs of a run of the first case alone.
LEMMA PairsFirst ==
    ASSUME NEW reading, Readable(reading), Len(reading) = 10, NEW fits,
           fits => Unmixed(reading), NEW p,
           NEW o, o = SubSeq(reading, 1, 7), NEW c, c = SubSeq(reading, 8, 10)
    PROVE  Recorded(CaseRecords(First, o, Oracle(c), p), fits)
<1>1. reading \in Seq(Answers)
  BY DEF Readable
<1>2. /\ o[1] = reading[1] /\ o[2] = reading[2] /\ o[4] = reading[4] /\ o[5] = reading[5]
      /\ c[1] = reading[8] /\ c[2] = reading[9] /\ c[3] = reading[10]
  BY <1>1
<1>3. DOMAIN reading = 1..10
  BY <1>1
<1>4. IsOrder(o[5])
  BY <1>2, <1>3 DEF Readable
<1>5. ASSUME fits PROVE Oracle(c) = Oracle(Shown(o))
  <2>1. reading[1] = reading[5] /\ reading[8] = reading[5]
    BY <1>3, <1>5, QueryFacts DEF Unmixed
  <2>2. reading[9] = reading[2] /\ reading[10] = reading[4]
    BY <1>3, <1>5, QueryFacts DEF Unmixed
  <2>3. [o[5] EXCEPT !.status = o[1].status] = o[5]
    BY <1>2, <1>4, <2>1 DEF IsOrder
  <2>4. Shown(o)[1] = c[1] /\ Shown(o)[2] = c[2] /\ Shown(o)[3] = c[3]
    BY <1>2, <2>1, <2>2, <2>3 DEF Shown
  <2> QED BY <2>4 DEF Oracle
<1> QED BY <1>4, <1>5 DEF Recorded

LEMMA InitInv == Init => IInv
<1> SUFFICES ASSUME Init PROVE IInv
  OBVIOUS
<1>1. Shapes
  BY DEF Init, Shapes, IsSmoke, IsStudy, NotStarted, NoStudy
<1>2. \A r \in Runs : RunInv(r)
  BY DEF Init, RunInv, RunGood, NotStarted
<1>3. StudyInv
  BY DEF Init, StudyInv, NoStudy
<1> QED BY <1>1, <1>2, <1>3 DEF IInv

\* A step of the stability run leaves the smoke runs alone.
LEMMA StudyStep ==
    ASSUME IInv, UNCHANGED <<db, smoke, mixed>>, IsStudy(study'), StudyInv'
    PROVE  IInv'
<1>1. Shapes'
  BY DEF IInv, Shapes, IsSmoke
<1>2. \A r \in Runs : RunInv(r)'
  BY DEF IInv, RunInv, RunGood, Recorded, Unmixed
<1> QED BY <1>1, <1>2 DEF IInv

LEMMA NextInv == IInv /\ [Next]_vars => IInv'
<1> SUFFICES ASSUME IInv, [Next]_vars PROVE IInv'
  OBVIOUS
<1> USE DEF IInv
<1>1. ASSUME NEW r \in Runs, NEW selection \in Selections, Launch(r, selection) PROVE IInv'
  <2> DEFINE s == [smoke[r] EXCEPT !.pc = "read", !.cases = selection, !.at = 1]
  <2>1. smoke[r].pc = "new" /\ smoke[r] = NotStarted
    BY <1>1 DEF Launch, RunInv, RunGood
  <2>2. smoke' = [smoke EXCEPT ![r] = s] /\ UNCHANGED <<db, study, mixed>>
    BY <1>1 DEF Launch, Shapes
  <2>3. /\ s.pc = "read" /\ s.cases = selection /\ s.at = 1 /\ s.reading = <<>>
        /\ s.records = {} /\ s.written = 0 /\ IsSmoke(s)
    <3>1. IsSmoke(smoke[r]) /\ smoke[r].reading = <<>> /\ smoke[r].records = {}
          /\ smoke[r].written = 0
      BY <2>1 DEF NotStarted, Shapes
    <3> QED BY <3>1 DEF IsSmoke
  <2>4. Readable(<<>>) /\ Unmixed(<<>>)
    BY DEF Readable, Unmixed
  <2> HIDE DEF s
  <2>5. RunGood(s, r)
    BY <2>3, <2>4 DEF RunGood
  <2> QED BY <2>1, <2>2, <2>3, <2>5, SmokeStep
<1>2. ASSUME NEW r \in Runs, Ask(r) PROVE IInv'
  <2> DEFINE answer == Answer(db[smoke[r].cases[smoke[r].at]],
                              CaseQueries[Len(smoke[r].reading) + 1])
             s == [smoke[r] EXCEPT !.reading = Append(smoke[r].reading, answer)]
  <2>1. /\ smoke[r].pc = "read" /\ Len(smoke[r].reading) < 10 /\ answer # NoOrder
        /\ UNCHANGED <<db, study, mixed>>
    BY <1>2, QueryFacts DEF Ask
  <2>2. smoke' = [smoke EXCEPT ![r] = s]
    BY <1>2 DEF Ask, Shapes
  <2>3. /\ s.pc = "read" /\ s.cases = smoke[r].cases /\ s.at = smoke[r].at
        /\ s.reading = Append(smoke[r].reading, answer)
        /\ s.records = smoke[r].records /\ s.written = smoke[r].written /\ IsSmoke(s)
    BY <2>1 DEF Shapes, IsSmoke
  <2>4. ASSUME smoke[r].cases = <<First>>
        PROVE  /\ Readable(Append(smoke[r].reading, answer))
               /\ Len(Append(smoke[r].reading, answer)) <= 10
               /\ r \notin mixed => Unmixed(Append(smoke[r].reading, answer))
    <3>1. /\ smoke[r].at = 1 /\ Readable(smoke[r].reading)
          /\ r \notin mixed => Unmixed(smoke[r].reading)
      BY <2>1, <2>4 DEF RunInv, RunGood
    <3>2. answer = Answer(db[First], CaseQueries[Len(smoke[r].reading) + 1])
      BY <2>4, <3>1
    <3>3. answer \in Answers
      <4>1. Len(smoke[r].reading) + 1 \in DOMAIN CaseQueries
        <5>1. Len(smoke[r].reading) \in Nat
          BY <3>1 DEF Readable
        <5>2. DOMAIN CaseQueries = 1..10
          BY QueryFacts
        <5> QED BY <2>1, <5>1, <5>2
      <4> QED BY <3>2, <4>1 DEF Answers, Shapes
    <3> HIDE DEF answer
    <3>4. Len(Append(smoke[r].reading, answer)) <= 10
      BY <2>1, <3>1, <3>3 DEF Readable
    <3> QED BY <2>1, <3>1, <3>2, <3>4, AskFirst DEF Shapes
  <2> HIDE DEF s, answer
  <2>5. RunGood(s, r)
    BY <2>1, <2>3, <2>4 DEF RunInv, RunGood
  <2> QED BY <2>1, <2>2, <2>3, <2>5, SmokeStep
<1>3. ASSUME NEW r \in Runs, NEW predicted \in Predictions, RunPairs(r, predicted) PROVE IInv'
  <2> DEFINE o == SubSeq(smoke[r].reading, 1, 7)
             c == SubSeq(smoke[r].reading, 8, 10)
             new == smoke[r].records \cup CaseRecords(smoke[r].cases[smoke[r].at], o, Oracle(c), predicted)
             pc == IF smoke[r].at = Len(smoke[r].cases) THEN "write" ELSE "read"
             s == [smoke[r] EXCEPT !.records = new, !.reading = <<>>,
                                   !.at = smoke[r].at + 1, !.pc = pc]
  <2>1. /\ smoke[r].pc = "read" /\ Len(smoke[r].reading) = 10
        /\ UNCHANGED <<db, study, mixed>>
    BY <1>3, QueryFacts DEF RunPairs
  <2>2. smoke' = [smoke EXCEPT ![r] = s]
    <3>1. Len(ObservationQueries) = 7 /\ Len(CaseQueries) = 10 /\ 7 + 1 = 8
      BY QueryFacts
    <3> QED BY <1>3, <3>1 DEF RunPairs, Shapes
  <2>3. /\ s.pc = pc /\ s.cases = smoke[r].cases /\ s.reading = <<>>
        /\ s.records = new /\ s.written = smoke[r].written /\ IsSmoke(s)
    BY DEF Shapes, IsSmoke
  <2>4. ASSUME smoke[r].cases = <<First>>
        PROVE  pc = "write" /\ Recorded(new, r \notin mixed) /\ smoke[r].written # 4
    <3>1. /\ smoke[r].at = 1 /\ smoke[r].records = {} /\ Readable(smoke[r].reading)
          /\ r \notin mixed => Unmixed(smoke[r].reading)
          /\ smoke[r].written # 4
      BY <2>1, <2>4 DEF RunInv, RunGood
    <3>2. pc = "write" /\ new = CaseRecords(First, o, Oracle(c), predicted)
      BY <2>4, <3>1
    <3>3. Recorded(CaseRecords(First, o, Oracle(c), predicted), r \notin mixed)
      BY <2>1, <3>1, PairsFirst
    <3> QED BY <3>1, <3>2, <3>3
  <2>5. pc # "new"
    OBVIOUS
  <2> HIDE DEF s, new, pc
  <2>6. RunGood(s, r)
    BY <2>3, <2>4, <2>5 DEF RunGood
  <2> QED BY <2>1, <2>2, <2>3, <2>6, SmokeStep
<1>4. ASSUME NEW r \in Runs, Write(r) PROVE IInv'
  <2> DEFINE w == smoke[r].written + 1
             pc == IF w = 4 THEN "over" ELSE "write"
             s == [smoke[r] EXCEPT !.written = w, !.pc = pc]
  <2>1. smoke[r].pc = "write" /\ smoke' = [smoke EXCEPT ![r] = s] /\ UNCHANGED <<db, study, mixed>>
    BY <1>4 DEF Write, Shapes
  <2>2. /\ s.pc = pc /\ s.cases = smoke[r].cases /\ s.at = smoke[r].at
        /\ s.reading = smoke[r].reading /\ s.records = smoke[r].records
        /\ s.written = w /\ IsSmoke(s)
    BY DEF Shapes, IsSmoke
  <2>3. w = 4 => pc = "over"
    OBVIOUS
  <2>4. pc \in {"over", "write"}
    OBVIOUS
  <2> HIDE DEF s, w, pc
  <2>5. RunGood(s, r)
    BY <2>1, <2>2, <2>3, <2>4 DEF RunInv, RunGood
  <2> QED BY <2>1, <2>2, <2>5, SmokeStep
<1>5. ASSUME NEW r \in Runs, SmokeFails(r) PROVE IInv'
  <2> DEFINE s == [NotStarted EXCEPT !.pc = "over", !.written = smoke[r].written]
  <2>1. /\ smoke[r].pc # "over" /\ smoke' = [smoke EXCEPT ![r] = s]
        /\ UNCHANGED <<db, study, mixed>>
    BY <1>5 DEF SmokeFails
  <2>2. s.pc = "over" /\ s.cases = <<>> /\ IsSmoke(s)
    BY DEF NotStarted, IsSmoke
  <2>3. <<>> # <<First>>
    OBVIOUS
  <2> HIDE DEF s
  <2>4. RunGood(s, r)
    BY <2>2, <2>3 DEF RunGood
  <2> QED BY <2>1, <2>2, <2>4, SmokeStep
<1>6. ASSUME NEW r \in Runs, ReadManifest(r) PROVE IInv'
  <2>1. /\ UNCHANGED <<db, smoke, mixed>> /\ study.pc = "list"
        /\ study'.pc = "list" /\ study'.reading = study.reading /\ IsStudy(study')
    BY <1>6 DEF ReadManifest, Shapes, IsStudy
  <2>2. \A q \in study'.candidates :
            q \in study.candidates \/ (q = r /\ smoke[r].cases = <<First>> /\ smoke[r].written = 4)
    BY <1>6 DEF ReadManifest, Shapes, IsStudy
  <2>3. \A q \in study'.candidates : Candidate(q)
    BY <2>2 DEF StudyInv, Candidate, RunInv, RunGood
  <2>4. StudyInv'
    BY <2>1, <2>3 DEF StudyInv, Candidate
  <2> QED BY <2>1, <2>4, StudyStep
<1>7. ASSUME NEW r \in Runs, LoadFrozen(r) PROVE IInv'
  <2>1. /\ UNCHANGED <<db, smoke, mixed>> /\ r \in study.candidates
        /\ study.reading = <<>>
    BY <1>7 DEF LoadFrozen, Newest, StudyInv
  <2>2. /\ study'.pc = "read" /\ study'.candidates = {} /\ study'.source = r
        /\ study'.reading = <<>> /\ IsStudy(study')
    BY <1>7, <2>1 DEF LoadFrozen, Shapes, IsStudy
  <2>3. Candidate(r) /\ Readable(<<>>)
    BY <2>1 DEF StudyInv, Readable
  <2>4. StudyInv'
    BY <2>1, <2>2, <2>3 DEF StudyInv, Candidate
  <2> QED BY <2>1, <2>2, <2>4, StudyStep
<1>8. CASE Begin
  <2>1. /\ UNCHANGED <<db, smoke, mixed>> /\ study'.pc = "list" /\ study'.reading = <<>>
        /\ study'.candidates = {} /\ IsStudy(study')
    BY <1>8 DEF Begin, NoStudy, IsStudy
  <2>2. StudyInv'
    BY <2>1 DEF StudyInv
  <2> QED BY <2>1, <2>2, StudyStep
<1>9. CASE AskAgain
  <2> DEFINE answer == Answer(db[First], ObservationQueries[Len(study.reading) + 1])
  <2>1. /\ UNCHANGED <<db, smoke, mixed>> /\ study.pc = "read" /\ Len(study.reading) < 7
        /\ answer # NoOrder
    BY <1>9, QueryFacts DEF AskAgain
  <2>2. /\ study'.pc = "read" /\ study'.reading = Append(study.reading, answer)
        /\ study'.candidates = study.candidates /\ study'.source = study.source
        /\ IsStudy(study')
    BY <1>9, <2>1 DEF AskAgain, Shapes, IsStudy
  <2>3. Candidate(study.source) /\ Readable(study.reading)
    BY <2>1 DEF StudyInv
  <2>4. answer = Answer(db[First], CaseQueries[Len(study.reading) + 1])
    <3>1. Len(study.reading) + 1 \in 1..7
      BY <2>1, <2>3 DEF Readable
    <3> QED BY <3>1, QueryFacts
  <2> HIDE DEF answer
  <2>5. Readable(Append(study.reading, answer))
    BY <2>1, <2>3, <2>4, AskFirst DEF Shapes
  <2>6. StudyInv'
    BY <2>1, <2>2, <2>3, <2>5 DEF StudyInv, Candidate
  <2> QED BY <2>1, <2>2, <2>6, StudyStep
<1>10. CASE Compare
  <2>1. /\ UNCHANGED <<db, smoke, mixed>> /\ study.pc = "read" /\ Len(study.reading) = 7
        /\ SameViews
    BY <1>10, QueryFacts DEF Compare
  <2>2. /\ study'.pc = "trials" /\ study'.reading = study.reading
        /\ study'.candidates = study.candidates /\ study'.source = study.source
        /\ IsStudy(study')
    BY <1>10 DEF Compare, Shapes, IsStudy
  <2>3. SameViews'
    BY <2>1, <2>2 DEF SameViews, Frozen
  <2>4. StudyInv'
    BY <2>1, <2>2, <2>3 DEF StudyInv, Candidate
  <2> QED BY <2>1, <2>2, <2>4, StudyStep
<1>11. CASE StudyEnds
  <2>1. /\ UNCHANGED <<db, smoke, mixed>> /\ study'.pc = "idle" /\ study'.reading = <<>>
        /\ study'.candidates = {} /\ IsStudy(study')
    BY <1>11 DEF StudyEnds, NoStudy, IsStudy
  <2>2. StudyInv'
    BY <2>1 DEF StudyInv
  <2> QED BY <2>1, <2>2, StudyStep
<1>12. ASSUME NEW d \in Databases, Import(d) PROVE IInv'
  <2>1. /\ UNCHANGED <<smoke, study>> /\ db' \in Databases
        /\ \A r \in Runs : r \in mixed => r \in mixed'
        /\ \A r \in Runs : r \notin mixed' => smoke[r].reading = <<>>
    BY <1>12 DEF Import
  <2>2. Shapes'
    BY <2>1 DEF Shapes, IsSmoke, IsStudy
  <2>3. ASSUME NEW r \in Runs PROVE RunInv(r)'
    <3>1. Unmixed(<<>>)'
      BY DEF Unmixed
    <3>2. RunGood(smoke[r], r)
      BY DEF RunInv
    <3> QED BY <2>1, <3>1, <3>2 DEF RunInv, RunGood, Recorded
  <2>4. StudyInv'
    BY <2>1 DEF StudyInv, Candidate, SameViews, Frozen
  <2> QED BY <2>2, <2>3, <2>4
<1>13. CASE UNCHANGED vars
  BY <1>13, StudyStep DEF vars, Shapes, StudyInv, Candidate, SameViews, Frozen, IsStudy
<1> QED
  BY <1>1, <1>2, <1>3, <1>4, <1>5, <1>6, <1>7, <1>8, <1>9, <1>10, <1>11, <1>12, <1>13 DEF Next
-----------------------------------------------------------------------------
\* Every message the stability study repeats is one its sender would still send,
\* whatever was imported since it was frozen.
THEOREM FrozenGrounded == Spec => []MessagesGrounded
<1>1. Init => IInv
  BY InitInv
<1>2. IInv /\ [Next]_vars => IInv'
  BY NextInv
<1>3. IInv => MessagesGrounded
  BY IInvFits
<1> QED BY <1>1, <1>2, <1>3, PTL DEF Spec

\* The label it measures with is the one the engine gives now, unless an import fell
\* into the reading of the smoke run it comes from.
THEOREM FrozenLabels == Spec => []LabelsFit
<1>1. Init => IInv
  BY InitInv
<1>2. IInv /\ [Next]_vars => IInv'
  BY NextInv
<1>3. IInv => LabelsFit
  BY IInvFits
<1> QED BY <1>1, <1>2, <1>3, PTL DEF Spec
-----------------------------------------------------------------------------
\* Results are whole

\* The records of the first n of the cases: one for each of them and every pair.
Covers(records, cases, n) ==
    /\ \A x \in records : PairOf(x) \in DirectedPairs /\ \E k \in 1..n : x.case = cases[k]
    /\ \A k \in 1..n, p \in DirectedPairs : \E x \in records : x.case = cases[k] /\ PairOf(x) = p
    /\ \A x, y \in records : x.case = y.case /\ PairOf(x) = PairOf(y) => x = y

\* The records of one more case.
LEMMA CoversOne ==
    ASSUME NEW c, NEW o, NEW l, NEW p
    PROVE  /\ \A x \in CaseRecords(c, o, l, p) : x.case = c /\ PairOf(x) \in DirectedPairs
           /\ \A q \in DirectedPairs : \E x \in CaseRecords(c, o, l, p) : PairOf(x) = q
           /\ \A x, y \in CaseRecords(c, o, l, p) : PairOf(x) = PairOf(y) => x = y
<1> DEFINE R(q) == PairRecord(c, CandidateMessage(q[1], q[2], o, p[q[1]]), o, l)
<1>1. CaseRecords(c, o, l, p) = {R(q) : q \in DirectedPairs}
  BY DEF CaseRecords
<1>2. ASSUME NEW q \in DirectedPairs PROVE R(q).case = c /\ PairOf(R(q)) = q
  <2>1. q = <<q[1], q[2]>>
    BY DEF DirectedPairs
  <2> QED BY <2>1 DEF PairRecord, CandidateMessage, PairOf
<1> HIDE DEF R
<1>3. ASSUME NEW x \in CaseRecords(c, o, l, p), NEW y \in CaseRecords(c, o, l, p),
             PairOf(x) = PairOf(y)
      PROVE  x = y
  <2>1. PICK q \in DirectedPairs : x = R(q)
    BY <1>1
  <2>2. PICK r \in DirectedPairs : y = R(r)
    BY <1>1
  <2> QED BY <1>2, <1>3, <2>1, <2>2
<1> QED BY <1>1, <1>2, <1>3

LEMMA CoversMore ==
    ASSUME NEW s \in Selections, NEW n \in Nat, n < Len(s), NEW records, Covers(records, s, n),
           NEW o, NEW l, NEW p
    PROVE  Covers(records \cup CaseRecords(s[n + 1], o, l, p), s, n + 1)
<1> DEFINE more == CaseRecords(s[n + 1], o, l, p)
<1>1. /\ \A x \in more : x.case = s[n + 1] /\ PairOf(x) \in DirectedPairs
      /\ \A q \in DirectedPairs : \E x \in more : PairOf(x) = q
      /\ \A x, y \in more : PairOf(x) = PairOf(y) => x = y
  BY CoversOne
<1>2. \A x \in records : x.case # s[n + 1]
  <2>1. \A j, k \in 1..Len(s) : s[j] = s[k] => j = k
    BY StudiesAssumption DEF IsInjective
  <2>2. Len(s) \in Nat
    BY StudiesAssumption
  <2> QED BY <2>1, <2>2 DEF Covers
<1> HIDE DEF more
<1>3. ASSUME NEW x \in records \cup more
      PROVE  PairOf(x) \in DirectedPairs /\ \E k \in 1..(n + 1) : x.case = s[k]
  <2>1. CASE x \in records
    BY <2>1 DEF Covers
  <2>2. CASE x \in more
    BY <2>2, <1>1
  <2> QED BY <2>1, <2>2
<1>4. ASSUME NEW k \in 1..(n + 1), NEW q \in DirectedPairs
      PROVE  \E x \in records \cup more : x.case = s[k] /\ PairOf(x) = q
  <2>1. CASE k = n + 1
    BY <2>1, <1>1
  <2>2. CASE k # n + 1
    <3>1. k \in 1..n
      BY <2>2
    <3> QED BY <3>1 DEF Covers
  <2> QED BY <2>1, <2>2
<1>5. ASSUME NEW x \in records \cup more, NEW y \in records \cup more,
             x.case = y.case, PairOf(x) = PairOf(y)
      PROVE  x = y
  BY <1>1, <1>2, <1>5 DEF Covers
<1>6. Covers(records \cup more, s, n + 1)
  BY <1>3, <1>4, <1>5 DEF Covers
<1> QED BY <1>6 DEF more

LEMMA PairsFinite == IsFiniteSet(DirectedPairs)
<1>1. IsFiniteSet({"order_seller_agent"})
  BY FS_Singleton
<1>2. IsFiniteSet({"order_seller_agent"} \cup {"payment_agent"})
  BY <1>1, FS_AddElement
<1>3. IsFiniteSet({"order_seller_agent"} \cup {"payment_agent"} \cup {"delivery_agent"})
  BY <1>2, FS_AddElement
<1>4. Agents = {"order_seller_agent"} \cup {"payment_agent"} \cup {"delivery_agent"}
  BY DEF Agents
<1>5. IsFiniteSet(Agents \X Agents)
  BY <1>3, <1>4, FS_Product
<1>6. DirectedPairs \subseteq Agents \X Agents
  BY DEF DirectedPairs
<1> QED BY <1>5, <1>6, FS_Subset

\* The cardinalities that the promise speaks of are those of FiniteSets.
LEMMA SameCardinality == \A S : Promise!Cardinality(S) = Cardinality(S)
  BY DEF Promise!Cardinality, Cardinality

\* Records of all cases are a whole result.
LEMMA CoversWhole ==
    ASSUME NEW s \in Selections, NEW records, Covers(records, s, Len(s))
    PROVE  /\ Promise!Whole([cases |-> s, records |-> records])
           /\ s = <<First>> => Cardinality(records) = Cardinality(DirectedPairs)
<1> DEFINE cases == {s[k] : k \in DOMAIN s}
           Key(x) == <<x.case, PairOf(x)>>
           key == [x \in records |-> Key(x)]
           Of(c, p) == {x \in records :
                            x.case = c /\ <<x.message.sender, x.message.recipient>> = p}
<1>1. s \in Seq(Range(s)) /\ Len(s) \in Nat /\ DOMAIN s = 1..Len(s)
  BY StudiesAssumption
<1>2. IsFiniteSet(cases) /\ Cardinality(cases) \in Nat
  <2>1. IsFiniteSet(1..Len(s))
    BY <1>1, FS_Interval
  <2>2. s \in Surjection(1..Len(s), cases)
    <3>1. s \in [1..Len(s) -> cases]
      BY <1>1
    <3> QED BY <1>1, <3>1 DEF Surjection
  <2>3. IsFiniteSet(cases)
    BY <2>1, <2>2, FS_Surjection
  <2> QED BY <2>3, FS_CardinalityType
<1>3. ASSUME NEW x \in records PROVE x.case \in cases /\ PairOf(x) \in DirectedPairs
  BY <1>1 DEF Covers
<1>4. ASSUME NEW c \in cases, NEW p \in DirectedPairs
      PROVE  \E x \in records : x.case = c /\ PairOf(x) = p
  BY <1>1 DEF Covers
<1>5. ASSUME NEW x \in records, NEW y \in records, x.case = y.case, PairOf(x) = PairOf(y)
      PROVE  x = y
  BY <1>5 DEF Covers
<1> HIDE DEF cases
<1>6. key \in Bijection(records, cases \X DirectedPairs)
  <2>1. key \in [records -> cases \X DirectedPairs]
    BY <1>3
  <2>2. \A x, y \in records : Key(x) = Key(y) => x = y
    BY <1>5
  <2>3. \A t \in cases \X DirectedPairs : \E x \in records : Key(x) = t
    BY <1>4
  <2> HIDE DEF Key
  <2>4. IsInjective(key)
    BY <2>2 DEF IsInjective
  <2>5. \A t \in cases \X DirectedPairs : \E x \in records : key[x] = t
    BY <2>3
  <2> HIDE DEF key
  <2> QED BY <2>1, <2>4, <2>5 DEF Bijection, Injection, Surjection
<1>7. Cardinality(records) = Cardinality(cases) * Cardinality(DirectedPairs)
  <2>1. /\ IsFiniteSet(cases \X DirectedPairs)
        /\ Cardinality(cases \X DirectedPairs) = Cardinality(cases) * Cardinality(DirectedPairs)
    BY <1>2, PairsFinite, FS_Product
  <2> HIDE DEF key
  <2>2. key \in Injection(records, cases \X DirectedPairs) /\ key \in Surjection(records, cases \X DirectedPairs)
    BY <1>6 DEF Bijection
  <2>3. /\ IsFiniteSet(records)
        /\ Cardinality(records) = Cardinality(cases \X DirectedPairs)
    BY <2>1, <2>2, FS_Injection
  <2> QED BY <2>1, <2>3
<1>8. ASSUME NEW c \in cases, NEW p \in DirectedPairs PROVE Cardinality(Of(c, p)) = 1
  <2>1. PICK x \in records : x.case = c /\ PairOf(x) = p
    BY <1>4
  <2>2. Of(c, p) = {x}
    BY <2>1, <1>5 DEF PairOf
  <2> QED BY <2>2, FS_Singleton
<1> HIDE DEF Of, key
<1>9. Promise!Whole([cases |-> s, records |-> records])
  BY <1>7, <1>8, SameCardinality DEF Promise!Whole, Of, cases
<1>10. ASSUME s = <<First>> PROVE Cardinality(records) = Cardinality(DirectedPairs)
  <2>1. cases = {First}
    BY <1>10 DEF cases
  <2>2. Cardinality(cases) = 1
    BY <2>1, FS_Singleton
  <2>3. Cardinality(DirectedPairs) \in Nat
    BY PairsFinite, FS_CardinalityType
  <2> QED BY <1>7, <2>2, <2>3
<1> QED BY <1>9, <1>10
-----------------------------------------------------------------------------
\* The studies keep their promise

\* A smoke run has the records of the cases it is through with, and of all of them
\* before it writes the first.
Made(s) ==
    /\ s.pc \in {"new", "read", "write", "over"}
    /\ s.pc = "read" => /\ s.cases \in Selections /\ s.at \in 1..Len(s.cases)
                        /\ Covers(s.records, s.cases, s.at - 1)
    /\ s.pc = "write" \/ s.written = 4 =>
           s.cases \in Selections /\ Covers(s.records, s.cases, Len(s.cases))
    /\ s.written \in 0..4
    /\ s.written = 4 => s.pc = "over"

\* Each whole manifest has one place in the order of their times.
Ordered ==
    /\ finished \in Seq(Runs) /\ IsInjective(finished)
    /\ \A r \in Runs : smoke[r].written = 4 <=> \E k \in DOMAIN finished : finished[k] = r

\* While it lists, the study misses no usable result there was when it began.
Listing ==
    /\ study.pc \in {"idle", "list", "read", "trials"}
    /\ study.pc = "idle" => study = NoStudy
    /\ study.pc # "idle" => study.known \in 0..Len(finished)
    /\ study.pc = "list" =>
           /\ study.source = None
           /\ \A k \in 1..study.known :
                  smoke[finished[k]].cases = <<First>> =>
                      finished[k] \in study.listed \cup study.candidates
    /\ study.pc \in {"read", "trials"} => \E k \in DOMAIN finished : finished[k] = study.source

Wholes == (\A r \in Runs : Made(smoke[r])) /\ Ordered /\ Listing

WInv == IInv /\ Wholes

\* The results are as many as the whole manifests, and the index of one is found.
LEMMA ResultFacts ==
    ASSUME Ordered
    PROVE  /\ Results \in Seq(Range(Results)) /\ Len(Results) = Len(finished)
           /\ DOMAIN Results = 1..Len(finished) /\ DOMAIN finished = 1..Len(finished)
           /\ Len(finished) \in Nat
           /\ \A k \in DOMAIN finished :
                  /\ finished[k] \in Runs
                  /\ (CHOOSE j \in DOMAIN finished : finished[j] = finished[k]) = k
<1>1. Len(finished) \in Nat /\ DOMAIN finished = 1..Len(finished)
  BY DEF Ordered
<1>2. DOMAIN Results = 1..Len(finished) /\ Results = [k \in 1..Len(finished) |-> Results[k]]
  BY <1>1 DEF Results
<1>3. \A k \in 1..Len(finished) : Results[k] \in Range(Results)
  BY <1>2 DEF Range
<1>4. Results \in Seq(Range(Results)) /\ Len(Results) = Len(finished)
  BY <1>1, <1>2, <1>3
<1>5. ASSUME NEW k \in DOMAIN finished
      PROVE  /\ finished[k] \in Runs
             /\ (CHOOSE j \in DOMAIN finished : finished[j] = finished[k]) = k
  BY DEF Ordered, IsInjective
<1> QED BY <1>1, <1>2, <1>4, <1>5

\* A smoke run that is not over changes nothing that a study can see.
LEMMA Unseen ==
    ASSUME WInv, NEW r \in Runs, smoke[r].pc # "over", NEW s, smoke' = [smoke EXCEPT ![r] = s],
           Made(s), s.written # 4, UNCHANGED <<finished, study>>
    PROVE  Wholes' /\ UNCHANGED Promise!vars
<1>1. smoke'[r] = s /\ \A q \in Runs \ {r} : smoke'[q] = smoke[q]
  BY DEF WInv, IInv, Shapes
<1>2. \A q \in Runs : Made(smoke'[q])
  BY <1>1 DEF WInv, Wholes
<1>3. smoke[r].written # 4
  BY DEF WInv, Wholes, Made
<1>4. \A k \in DOMAIN finished : smoke'[finished[k]] = smoke[finished[k]]
  BY <1>1, <1>3 DEF WInv, Wholes, Ordered
<1>5. Ordered'
  BY <1>1, <1>3 DEF WInv, Wholes, Ordered
<1>6. Listing'
  <2>1. study.pc # "idle" => 1..study.known \subseteq DOMAIN finished
    BY ResultFacts DEF WInv, Wholes, Listing
  <2> QED BY <1>4, <2>1 DEF WInv, Wholes, Listing
<1>7. Results' = Results
  BY <1>4 DEF Results
<1>8. UNCHANGED Promise!vars
  BY <1>7 DEF Promise!vars
<1> QED BY <1>2, <1>5, <1>6, <1>8 DEF Wholes

\* A step of the stability run.
LEMMA Seeing ==
    ASSUME WInv, UNCHANGED <<smoke, finished>>, Listing'
    PROVE  Wholes' /\ Results' = Results
<1>1. Results' = Results
  BY DEF Results
<1>2. Ordered' /\ \A r \in Runs : Made(smoke'[r])
  BY DEF WInv, Wholes, Ordered
<1> QED BY <1>1, <1>2 DEF Wholes

LEMMA InitWhole == Init => Wholes /\ Promise!Init
<1> SUFFICES ASSUME Init PROVE Wholes /\ Promise!Init
  OBVIOUS
<1>1. finished = <<>> /\ study = NoStudy /\ \A r \in Runs : smoke[r] = NotStarted
  BY DEF Init
<1>2. \A r \in Runs : Made(smoke[r])
  BY <1>1 DEF Made, NotStarted
<1>3. Ordered
  BY <1>1 DEF Ordered, NotStarted, IsInjective
<1>4. Listing
  BY <1>1 DEF Listing, NoStudy
<1>5. Results = <<>>
  BY <1>1 DEF Results
<1>6. Promise!Init
  BY <1>1, <1>5 DEF Promise!Init, NoStudy
<1> QED BY <1>2, <1>3, <1>4, <1>6 DEF Wholes

\* The last part of the manifest publishes the result.
LEMMA PublishStep ==
    ASSUME WInv, NEW r \in Runs, Write(r), smoke[r].written = 3
    PROVE  Wholes' /\ Promise!Publish
<1> DEFINE s == [smoke[r] EXCEPT !.written = 4, !.pc = "over"]
           result == [cases |-> smoke[r].cases, records |-> smoke[r].records]
           n == Len(finished)
<1>1. /\ smoke[r].pc = "write" /\ smoke' = [smoke EXCEPT ![r] = s]
      /\ finished' = Append(finished, r) /\ study' = study
  <2>1. smoke[r].written + 1 = 4
    OBVIOUS
  <2>2. /\ smoke[r].pc = "write" /\ finished' = Append(finished, r) /\ study' = study
        /\ smoke' = [smoke EXCEPT ![r].written = 4, ![r].pc = "over"]
    BY <2>1 DEF Write
  <2> QED BY <2>2 DEF WInv, IInv, Shapes
<1>2. /\ s.pc = "over" /\ s.written = 4 /\ s.cases = smoke[r].cases
      /\ s.records = smoke[r].records
  BY DEF WInv, IInv, Shapes, IsSmoke
<1>3. smoke'[r] = s /\ \A q \in Runs \ {r} : smoke'[q] = smoke[q]
  BY <1>1 DEF WInv, IInv, Shapes
<1> HIDE DEF s
<1>4. Made(smoke[r])
  BY DEF WInv, Wholes
<1>5. smoke[r].cases \in Selections /\ Covers(smoke[r].records, smoke[r].cases, Len(smoke[r].cases))
  BY <1>1, <1>4 DEF Made
<1>6. \A q \in Runs : Made(smoke'[q])
  <2>1. Made(s)
    BY <1>2, <1>5 DEF Made
  <2> QED BY <1>3, <2>1 DEF WInv, Wholes
<1>7. /\ n \in Nat /\ DOMAIN finished = 1..n /\ finished \in Seq(Runs)
      /\ \A k \in 1..n : finished[k] \in Runs \ {r}
  <2>1. smoke[r].written # 4
    OBVIOUS
  <2> QED BY <2>1, ResultFacts DEF WInv, Wholes, Ordered
<1>8. /\ finished' \in Seq(Runs) /\ Len(finished') = n + 1 /\ DOMAIN finished' = 1..(n + 1)
      /\ finished'[n + 1] = r /\ \A k \in 1..n : finished'[k] = finished[k]
  BY <1>1, <1>7
<1> HIDE DEF n
<1>9. Ordered'
  <2>1. IsInjective(finished')
    <3>1. IsInjective(finished)
      BY DEF WInv, Wholes, Ordered
    <3> SUFFICES ASSUME NEW j \in 1..(n + 1), NEW k \in 1..(n + 1), finished'[j] = finished'[k]
                 PROVE  j = k
      BY <1>8 DEF IsInjective
    <3>2. CASE j = n + 1 \/ k = n + 1
      BY <3>2, <1>7, <1>8
    <3>3. CASE j # n + 1 /\ k # n + 1
      <4>1. j \in 1..n /\ k \in 1..n
        BY <3>3, <1>7
      <4> QED BY <4>1, <3>1, <1>7, <1>8 DEF IsInjective
    <3> QED BY <3>2, <3>3
  <2>2. ASSUME NEW q \in Runs
        PROVE  smoke'[q].written = 4 <=> \E k \in DOMAIN finished' : finished'[k] = q
    <3>1. CASE q = r
      <4>1. n + 1 \in DOMAIN finished'
        BY <1>7, <1>8
      <4> QED BY <3>1, <4>1, <1>2, <1>3, <1>8
    <3>2. CASE q # r
      <4>1. smoke[q].written = 4 <=> \E k \in 1..n : finished[k] = q
        BY <1>7 DEF WInv, Wholes, Ordered
      <4>2. \A k \in 1..(n + 1) : finished'[k] = q => k \in 1..n /\ finished[k] = q
        BY <3>2, <1>7, <1>8
      <4>3. \A k \in 1..n : k \in 1..(n + 1) /\ finished'[k] = finished[k]
        BY <1>7, <1>8
      <4> QED BY <3>2, <4>1, <4>2, <4>3, <1>3, <1>8
    <3> QED BY <3>1, <3>2
  <2> QED BY <2>1, <2>2, <1>8 DEF Ordered
<1>10. Listing'
  <2>1. Listing
    BY DEF WInv, Wholes
  <2>2. study.known \in 0..n => study.known \in 0..(n + 1) /\ 1..study.known \subseteq 1..n
    BY <1>7
  <2>3. study.pc # "idle" => study.known \in 0..n
    BY <2>1 DEF Listing, n
  <2>4. study.pc \in {"read", "trials"} => \E k \in 1..(n + 1) : finished'[k] = study.source
    <3>1. study.pc \in {"read", "trials"} => \E k \in 1..n : finished[k] = study.source
      BY <2>1, <1>7 DEF Listing
    <3> QED BY <3>1, <1>7, <1>8
  <2>5. study.pc = "list" =>
            \A k \in 1..study.known :
                smoke'[finished'[k]].cases = <<First>> =>
                    finished'[k] \in study.listed \cup study.candidates
    <3>1. \A k \in 1..n : finished'[k] = finished[k] /\ smoke'[finished[k]] = smoke[finished[k]]
      BY <1>3, <1>7, <1>8
    <3> QED BY <3>1, <2>1, <2>2, <2>3 DEF Listing
  <2>6. /\ study.pc \in {"idle", "list", "read", "trials"}
        /\ study.pc = "idle" => study = NoStudy
        /\ study.pc = "list" => study.source = None
    BY <2>1 DEF Listing
  <2> QED BY <1>1, <1>8, <2>2, <2>3, <2>4, <2>5, <2>6 DEF Listing
<1>11. /\ DOMAIN Results' = 1..(n + 1) /\ Results'[n + 1] = result
       /\ \A k \in 1..n : Results'[k] = Results[k]
       /\ Results' = [k \in 1..(n + 1) |-> Results'[k]]
  <2>1. /\ DOMAIN Results' = 1..(n + 1)
        /\ \A k \in 1..(n + 1) : Results'[k] = [cases |-> smoke'[finished'[k]].cases,
                                                records |-> smoke'[finished'[k]].records]
        /\ Results' = [k \in 1..(n + 1) |-> Results'[k]]
    BY <1>8 DEF Results
  <2>2. n + 1 \in 1..(n + 1) /\ \A k \in 1..n : k \in 1..(n + 1)
    BY <1>7
  <2>3. Results'[n + 1] = result
    BY <2>1, <2>2, <1>2, <1>3, <1>8
  <2>4. \A k \in 1..n : Results'[k] = Results[k]
    BY <2>1, <2>2, <1>3, <1>7, <1>8 DEF Results
  <2> QED BY <2>1, <2>3, <2>4
<1>12. /\ Len(Results) = n /\ DOMAIN Results = 1..n /\ Results = [k \in 1..n |-> Results[k]]
  BY ResultFacts, <1>7 DEF WInv, Wholes, Results, n
<1>13. Promise!Whole(result)
  BY <1>5, CoversWhole
<1> HIDE DEF result
<1>14. Len(Results') = n + 1
  BY <1>7, <1>11
<1>15. SubSeq(Results', 1, n) = Results
  <2>1. SubSeq(Results', 1, n) = [k \in 1..n |-> Results'[k]]
    BY <1>7, <1>11, <1>14
  <2> QED BY <2>1, <1>11, <1>12
<1>16. \A k \in DOMAIN finished :
           (CHOOSE j \in DOMAIN finished' : finished'[j] = finished[k])
           = (CHOOSE j \in DOMAIN finished : finished[j] = finished[k])
  <2> SUFFICES ASSUME NEW k \in 1..n
               PROVE  (CHOOSE j \in DOMAIN finished' : finished'[j] = finished[k])
                      = (CHOOSE j \in DOMAIN finished : finished[j] = finished[k])
    BY <1>7
  <2>1. (CHOOSE j \in DOMAIN finished : finished[j] = finished[k]) = k
    BY <1>7, ResultFacts DEF WInv, Wholes
  <2>2. k \in DOMAIN finished' /\ finished'[k] = finished[k]
    BY <1>7, <1>8
  <2>3. \A j \in DOMAIN finished' : finished'[j] = finished[k] => j = k
    BY <2>2, <1>9 DEF Ordered, IsInjective
  <2>4. (CHOOSE j \in DOMAIN finished' : finished'[j] = finished[k]) = k
    BY <2>2, <2>3
  <2> QED BY <2>1, <2>4
<1>17. study.source # None => \E k \in DOMAIN finished : finished[k] = study.source
  BY DEF WInv, Wholes, Listing, NoStudy
<1>18. Promise!Publish
  <2>1. Len(Results') = Len(Results) + 1 /\ Promise!Whole(Results'[Len(Results')])
    BY <1>11, <1>12, <1>13, <1>14
  <2>2. (IF study'.source = None THEN None
         ELSE CHOOSE k \in DOMAIN finished' : finished'[k] = study'.source)
        = (IF study.source = None THEN None
           ELSE CHOOSE k \in DOMAIN finished : finished[k] = study.source)
    <3>1. CASE study.source = None
      BY <3>1, <1>1
    <3>2. CASE study.source # None
      <4>1. PICK k \in DOMAIN finished : finished[k] = study.source
        BY <3>2, <1>17
      <4>2. (CHOOSE j \in DOMAIN finished' : finished'[j] = study.source)
            = (CHOOSE j \in DOMAIN finished : finished[j] = study.source)
        BY <4>1, <1>16
      <4>3. study'.source = study.source
        BY <1>1
      <4> QED BY <3>2, <4>2, <4>3
    <3> QED BY <3>1, <3>2
  <2>3. (IF study'.pc = "idle" THEN None ELSE study'.known)
        = (IF study.pc = "idle" THEN None ELSE study.known)
    BY <1>1
  <2>4. SubSeq(Results', 1, Len(Results)) = Results
    BY <1>12, <1>15
  <2> QED BY <2>1, <2>2, <2>3, <2>4 DEF Promise!Publish
<1> QED BY <1>6, <1>9, <1>10, <1>18 DEF Wholes

\* A study that is not idle has a known number, and a source as it reads.
LEMMA StudyFacts ==
    ASSUME WInv
    PROVE  /\ study.pc # "idle" => study.known # None
           /\ study.pc \in {"read", "trials"} => study.source # None
           /\ study.pc = "idle" => study.source = None /\ study.known = 0
<1>1. Listing /\ Ordered /\ Len(finished) \in Nat
  BY ResultFacts DEF WInv, Wholes
<1>2. study.pc # "idle" => study.known \in Nat
  BY <1>1 DEF Listing
<1>3. \A k \in DOMAIN finished : finished[k] # None
  BY <1>1, ResultFacts, StudiesAssumption
<1> QED BY <1>1, <1>2, <1>3, StudiesAssumption DEF Listing, NoStudy

\* Every step keeps the invariant, and is one of the promise or none.
LEMMA NextWhole == WInv /\ IInv' /\ [Next]_vars => WInv' /\ [Promise!Next]_(Promise!vars)
<1> SUFFICES ASSUME WInv, [Next]_vars PROVE Wholes' /\ [Promise!Next]_(Promise!vars)
  BY DEF WInv
<1>a. IInv /\ Wholes /\ (\A r \in Runs : Made(smoke[r])) /\ Ordered /\ Listing
  BY DEF WInv, Wholes
<1>b. Promise!Begin \/ Promise!Use \/ Promise!End \/ Promise!Publish => Promise!Next
  BY DEF Promise!Next
<1>1. ASSUME NEW r \in Runs, NEW selection \in Selections, Launch(r, selection)
      PROVE  Wholes' /\ UNCHANGED Promise!vars
  <2> DEFINE s == [smoke[r] EXCEPT !.pc = "read", !.cases = selection, !.at = 1]
  <2>1. /\ smoke[r] = NotStarted /\ smoke[r].pc # "over"
        /\ smoke' = [smoke EXCEPT ![r] = s] /\ UNCHANGED <<finished, study>>
    BY <1>1, <1>a DEF Launch, IInv, Shapes, RunInv, RunGood
  <2>2. /\ s.pc = "read" /\ s.cases = selection /\ s.at = 1 /\ s.records = {} /\ s.written = 0
    BY <2>1 DEF NotStarted
  <2> HIDE DEF s
  <2>3. 1 \in 1..Len(selection) /\ 1 - 1 = 0
    BY StudiesAssumption
  <2>4. Covers({}, selection, 0)
    BY DEF Covers
  <2>5. Made(s) /\ s.written # 4
    BY <2>2, <2>3, <2>4 DEF Made
  <2> QED BY <2>1, <2>5, Unseen
<1>2. ASSUME NEW r \in Runs, Ask(r) PROVE Wholes' /\ UNCHANGED Promise!vars
  <2> DEFINE s == [smoke[r] EXCEPT !.reading =
                       Append(smoke[r].reading, Answer(db[smoke[r].cases[smoke[r].at]],
                                                       CaseQueries[Len(smoke[r].reading) + 1]))]
  <2>1. /\ smoke[r].pc = "read" /\ smoke' = [smoke EXCEPT ![r] = s]
        /\ UNCHANGED <<finished, study>>
    BY <1>2, <1>a DEF Ask, IInv, Shapes
  <2>2. /\ s.pc = smoke[r].pc /\ s.cases = smoke[r].cases /\ s.at = smoke[r].at
        /\ s.records = smoke[r].records /\ s.written = smoke[r].written
    BY <1>a DEF IInv, Shapes, IsSmoke
  <2> HIDE DEF s
  <2>3. Made(s) /\ s.written # 4
    BY <1>a, <2>1, <2>2 DEF Made
  <2> QED BY <2>1, <2>3, Unseen
<1>3. ASSUME NEW r \in Runs, NEW predicted \in Predictions, RunPairs(r, predicted)
      PROVE  Wholes' /\ UNCHANGED Promise!vars
  <2> DEFINE o == SubSeq(smoke[r].reading, 1, Len(ObservationQueries))
             c == SubSeq(smoke[r].reading, Len(ObservationQueries) + 1, Len(CaseQueries))
             new == smoke[r].records \cup CaseRecords(smoke[r].cases[smoke[r].at], o, Oracle(c), predicted)
             pc == IF smoke[r].at = Len(smoke[r].cases) THEN "write" ELSE "read"
             s == [smoke[r] EXCEPT !.records = new, !.reading = <<>>,
                                   !.at = smoke[r].at + 1, !.pc = pc]
  <2>1. smoke[r].pc = "read" /\ UNCHANGED <<finished, study>>
    BY <1>3 DEF RunPairs
  <2>2. smoke' = [smoke EXCEPT ![r] = s]
    BY <1>3, <1>a DEF RunPairs, IInv, Shapes
  <2>3. /\ s.pc = pc /\ s.cases = smoke[r].cases /\ s.at = smoke[r].at + 1
        /\ s.records = new /\ s.written = smoke[r].written
    BY <1>a DEF IInv, Shapes, IsSmoke
  <2>4. /\ smoke[r].cases \in Selections /\ smoke[r].at \in 1..Len(smoke[r].cases)
        /\ Covers(smoke[r].records, smoke[r].cases, smoke[r].at - 1)
        /\ smoke[r].written \in 0..4 /\ smoke[r].written # 4
    BY <1>a, <2>1 DEF Made
  <2>5. Len(smoke[r].cases) \in Nat
    BY <2>4, StudiesAssumption
  <2>6. Covers(new, smoke[r].cases, smoke[r].at)
    <3>1. /\ smoke[r].at - 1 \in Nat /\ smoke[r].at - 1 < Len(smoke[r].cases)
          /\ (smoke[r].at - 1) + 1 = smoke[r].at
      BY <2>4, <2>5
    <3> HIDE DEF o, c
    <3>2. Covers(smoke[r].records \cup CaseRecords(smoke[r].cases[(smoke[r].at - 1) + 1], o,
                                                   Oracle(c), predicted),
                 smoke[r].cases, (smoke[r].at - 1) + 1)
      BY <2>4, <3>1, CoversMore
    <3> QED BY <3>1, <3>2
  <2>7. pc \in {"read", "write"} /\ (pc = "write" => smoke[r].at = Len(smoke[r].cases))
        /\ (pc = "read" => smoke[r].at # Len(smoke[r].cases))
    OBVIOUS
  <2> HIDE DEF s, new, pc
  <2>8. smoke[r].at # Len(smoke[r].cases) =>
            smoke[r].at + 1 \in 1..Len(smoke[r].cases) /\ (smoke[r].at + 1) - 1 = smoke[r].at
    BY <2>4, <2>5
  <2>9. Made(s) /\ s.written # 4
    BY <2>3, <2>4, <2>6, <2>7, <2>8 DEF Made
  <2> QED BY <2>1, <2>2, <2>9, Unseen
<1>4. ASSUME NEW r \in Runs, Write(r) PROVE Wholes' /\ [Promise!Next]_(Promise!vars)
  <2>1. smoke[r].pc = "write" /\ smoke[r].written \in 0..3
    BY <1>4, <1>a DEF Write, Made
  <2>2. CASE smoke[r].written = 3
    BY <2>2, <1>4, <1>b, PublishStep
  <2>3. CASE smoke[r].written # 3
    <3> DEFINE s == [smoke[r] EXCEPT !.written = smoke[r].written + 1, !.pc = "write"]
    <3>1. smoke[r].written + 1 # 4 /\ smoke[r].written + 1 \in 0..4
      BY <2>1, <2>3
    <3>2. smoke' = [smoke EXCEPT ![r] = s] /\ UNCHANGED <<finished, study>>
      <4>1. /\ smoke' = [smoke EXCEPT ![r].written = smoke[r].written + 1, ![r].pc = "write"]
            /\ UNCHANGED <<finished, study>>
        BY <1>4, <3>1 DEF Write
      <4> QED BY <4>1, <1>a DEF IInv, Shapes
    <3>3. /\ s.pc = "write" /\ s.cases = smoke[r].cases /\ s.records = smoke[r].records
          /\ s.written = smoke[r].written + 1
      BY <1>a DEF IInv, Shapes, IsSmoke
    <3> HIDE DEF s
    <3>4. Made(s) /\ s.written # 4
      BY <1>a, <2>1, <3>1, <3>3 DEF Made
    <3> QED BY <2>1, <3>2, <3>4, Unseen
  <2> QED BY <2>2, <2>3
<1>5. ASSUME NEW r \in Runs, SmokeFails(r) PROVE Wholes' /\ UNCHANGED Promise!vars
  <2> DEFINE s == [NotStarted EXCEPT !.pc = "over", !.written = smoke[r].written]
  <2>1. /\ smoke[r].pc \in {"read", "write"} /\ smoke' = [smoke EXCEPT ![r] = s]
        /\ UNCHANGED <<finished, study>>
    BY <1>5 DEF SmokeFails
  <2>2. s.pc = "over" /\ s.written = smoke[r].written
    BY DEF NotStarted
  <2> HIDE DEF s
  <2>3. Made(s) /\ s.written # 4
    BY <1>a, <2>1, <2>2 DEF Made
  <2> QED BY <2>1, <2>3, Unseen
<1>6. ASSUME NEW r \in Runs, ReadManifest(r) PROVE Wholes' /\ UNCHANGED Promise!vars
  <2>1. /\ UNCHANGED <<smoke, finished>> /\ study.pc = "list" /\ smoke[r].written = 4
        /\ study'.pc = "list" /\ study'.known = study.known /\ study'.source = study.source
        /\ study'.listed = study.listed \ {r}
        /\ study'.candidates = IF smoke[r].cases = <<First>> /\ Cardinality(smoke[r].records)
                                                              = Cardinality(DirectedPairs)
                               THEN study.candidates \cup {r} ELSE study.candidates
    BY <1>6, <1>a DEF ReadManifest, IInv, Shapes, IsStudy
  <2>2. smoke[r].cases = <<First>> => r \in study'.candidates
    <3>1. smoke[r].cases \in Selections /\ Covers(smoke[r].records, smoke[r].cases, Len(smoke[r].cases))
      BY <2>1, <1>a DEF Made
    <3>2. smoke[r].cases = <<First>> => Cardinality(smoke[r].records) = Cardinality(DirectedPairs)
      BY <3>1, CoversWhole
    <3> QED BY <2>1, <3>2
  <2>3. study.candidates \subseteq study'.candidates
    BY <2>1
  <2>4. \A k \in 1..study.known :
            smoke[finished[k]].cases = <<First>> =>
                finished[k] \in study'.listed \cup study'.candidates
    <3>1. \A k \in 1..study.known :
              smoke[finished[k]].cases = <<First>> =>
                  finished[k] \in study.listed \cup study.candidates
      BY <2>1, <1>a DEF Listing
    <3> QED BY <3>1, <2>1, <2>2, <2>3
  <2>5. Listing'
    BY <1>a, <2>1, <2>4 DEF Listing
  <2>6. Wholes' /\ Results' = Results
    BY <2>1, <2>5, Seeing
  <2> QED BY <2>1, <2>6 DEF Promise!vars
<1>7. ASSUME NEW r \in Runs, LoadFrozen(r) PROVE Wholes' /\ Promise!Use
  <2>1. /\ UNCHANGED <<smoke, finished>> /\ study.pc = "list" /\ study.listed = {}
        /\ study'.pc = "read" /\ study'.known = study.known /\ study'.source = r
        /\ r \in study.candidates
    BY <1>7, <1>a DEF LoadFrozen, Newest, IInv, Shapes, IsStudy
  <2>2. PICK k \in DOMAIN finished :
            /\ finished[k] = r
            /\ \A j \in DOMAIN finished : finished[j] \in study.candidates => j <= k
    BY <1>7 DEF LoadFrozen, Newest
  <2>3. Listing'
    BY <1>a, <2>1, <2>2 DEF Listing
  <2>4. Wholes' /\ Results' = Results
    BY <2>1, <2>3, Seeing
  <2>5. (CHOOSE j \in DOMAIN finished : finished[j] = r) = k /\ r # None
    BY <1>a, <2>2, ResultFacts, StudiesAssumption
  <2>6. \A j \in DOMAIN finished : Results[j].cases = smoke[finished[j]].cases
    BY DEF Results
  <2>7. /\ DOMAIN Results = DOMAIN finished /\ DOMAIN finished = 1..Len(finished)
        /\ Len(finished) \in Nat
    BY <1>a, ResultFacts
  <2>8. Results[k].cases = <<First>>
    <3>1. Candidate(r)
      BY <1>a, <2>1 DEF IInv, StudyInv
    <3> QED BY <3>1, <2>2, <2>6 DEF Candidate
  <2>9. ASSUME NEW j \in DOMAIN finished, Results[j].cases = <<First>>, j <= study.known
        PROVE  j <= k
    <3>1. study.known \in Nat /\ j \in 1..study.known
      BY <1>a, <2>1, <2>7, <2>9 DEF Listing
    <3>2. finished[j] \in study.candidates
      BY <1>a, <2>1, <2>6, <2>9, <3>1 DEF Listing
    <3> QED BY <2>2, <3>2
  <2>10. /\ study.known # None /\ study.source = None
    BY <1>a, <2>1, StudyFacts DEF Listing
  <2>11. (IF study'.source = None THEN None
          ELSE CHOOSE j \in DOMAIN finished' : finished'[j] = study'.source) = k
    BY <2>1, <2>5
  <2>12. (IF study.pc = "idle" THEN None ELSE study.known) = study.known
         /\ (IF study'.pc = "idle" THEN None ELSE study'.known) = study.known
    BY <2>1
  <2>13. (IF study.source = None THEN None
          ELSE CHOOSE j \in DOMAIN finished : finished[j] = study.source) = None
    BY <2>10
  <2>14. k \in Promise!Usable /\ \A j \in Promise!Usable : j <= study.known => j <= k
    BY <2>2, <2>7, <2>8, <2>9 DEF Promise!Usable
  <2> QED BY <2>4, <2>10, <2>11, <2>12, <2>13, <2>14 DEF Promise!Use
<1>8. CASE Begin
  <2>1. /\ UNCHANGED <<smoke, finished>> /\ study = NoStudy
        /\ study'.pc = "list" /\ study'.known = Len(finished) /\ study'.source = None
        /\ study'.listed = {r \in Runs : smoke[r].written >= 3}
    BY <1>8, <1>a DEF Begin, Listing, NoStudy
  <2>2. \A k \in 1..Len(finished) : finished[k] \in study'.listed
    <3>1. \A k \in 1..Len(finished) : finished[k] \in Runs /\ smoke[finished[k]].written = 4
      BY <1>a, ResultFacts DEF Ordered
    <3> QED BY <2>1, <3>1
  <2>3. Listing'
    BY <1>a, <2>1, <2>2, ResultFacts DEF Listing
  <2>4. Wholes' /\ Results' = Results
    BY <2>1, <2>3, Seeing
  <2>5. Len(Results) = Len(finished)
    BY <1>a, ResultFacts
  <2>6. Promise!Begin
    BY <2>1, <2>4, <2>5 DEF Promise!Begin, NoStudy
  <2> QED BY <1>b, <2>4, <2>6
<1>9. CASE AskAgain
  <2>1. /\ UNCHANGED <<smoke, finished>> /\ study.pc = "read"
        /\ study'.pc = "read" /\ study'.known = study.known /\ study'.source = study.source
    BY <1>9, <1>a DEF AskAgain, IInv, Shapes, IsStudy
  <2>2. Listing'
    BY <1>a, <2>1 DEF Listing
  <2>3. Wholes' /\ Results' = Results
    BY <2>1, <2>2, Seeing
  <2> QED BY <2>1, <2>3 DEF Promise!vars
<1>10. CASE Compare
  <2>1. /\ UNCHANGED <<smoke, finished>> /\ study.pc = "read"
        /\ study'.pc = "trials" /\ study'.known = study.known /\ study'.source = study.source
    BY <1>10, <1>a DEF Compare, IInv, Shapes, IsStudy
  <2>2. Listing'
    BY <1>a, <2>1 DEF Listing
  <2>3. Wholes' /\ Results' = Results
    BY <2>1, <2>2, Seeing
  <2> QED BY <2>1, <2>3 DEF Promise!vars
<1>11. CASE StudyEnds
  <2>1. UNCHANGED <<smoke, finished>> /\ study.pc # "idle" /\ study' = NoStudy
    BY <1>11 DEF StudyEnds
  <2>2. Listing'
    BY <2>1 DEF Listing, NoStudy
  <2>3. Wholes' /\ Results' = Results
    BY <2>1, <2>2, Seeing
  <2>4. study.known # None
    BY <2>1, StudyFacts
  <2>5. Promise!End
    BY <2>1, <2>3, <2>4 DEF Promise!End, NoStudy
  <2> QED BY <1>b, <2>3, <2>5
<1>12. ASSUME NEW d \in Databases, Import(d) PROVE Wholes' /\ UNCHANGED Promise!vars
  <2>1. UNCHANGED <<smoke, finished, study>>
    BY <1>12 DEF Import
  <2>2. Listing'
    BY <1>a, <2>1 DEF Listing
  <2>3. Wholes' /\ Results' = Results
    BY <2>1, <2>2, Seeing
  <2> QED BY <2>1, <2>3 DEF Promise!vars
<1>13. CASE UNCHANGED vars
  <2>1. UNCHANGED <<smoke, finished, study>>
    BY <1>13 DEF vars
  <2>2. Listing'
    BY <1>a, <2>1 DEF Listing
  <2>3. Wholes' /\ Results' = Results
    BY <2>1, <2>2, Seeing
  <2> QED BY <2>1, <2>3 DEF Promise!vars
<1> QED
  BY <1>1, <1>2, <1>3, <1>4, <1>5, <1>6, <1>7, <1>8, <1>9, <1>10, <1>11, <1>12, <1>13, <1>b
  DEF Next

\* The studies do with the results directory only what StudyPromise says: results appear
\* whole and never change, although the files are written in pieces and runs die in
\* between; and a study uses the newest usable one that it found, which no listing,
\* reading and sorting beside the runs makes it miss.
THEOREM Implements == Spec => KeepsPromise
<1>1. Init => WInv /\ Promise!Init
  BY InitInv, InitWhole DEF WInv
<1>2. WInv /\ [Next]_vars => IInv'
  BY NextInv DEF WInv
<1>3. WInv /\ [Next]_vars => WInv' /\ [Promise!Next]_(Promise!vars)
  BY <1>2, NextWhole
<1> QED BY <1>1, <1>3, PTL DEF Spec, KeepsPromise, Promise!Spec
=============================================================================
