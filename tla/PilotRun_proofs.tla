-------------------------- MODULE PilotRun_proofs --------------------------
(***************************************************************************)
(* Theorems about PilotRun, for any distribution, orders, data files and   *)
(* outcomes of the trials.                                                 *)
(***************************************************************************)
EXTENDS PilotRun, PolicyEngine_proofs

(***************************************************************************)
(* Sums of counts, in the way AddsUp takes them                            *)
(***************************************************************************)
\* Counts add up to a count.
LEMMA SumOfCounts ==
    ASSUME NEW S, IsFiniteSet(S), NEW g, NEW f, AddsUp(g, S, f), \A x \in S : g[x] \in Nat
    PROVE  \A s \in SUBSET S : f[s] \in Nat
<1> DEFINE G == {s \in SUBSET S : f[s] \in Nat}
<1>1. {} \in G
  BY SumOfNothing
<1>2. ASSUME NEW s \in SUBSET S, s # {}, s \ {Pick(s)} \in G PROVE s \in G
  <2>1. Pick(s) \in S /\ f[s] = g[Pick(s)] + f[s \ {Pick(s)}]
    BY <1>2, AddsUpStep
  <2>2. g[Pick(s)] \in Nat /\ f[s \ {Pick(s)}] \in Nat
    BY <1>2, <2>1
  <2> QED BY <2>1, <2>2
<1>3. \A s \in SUBSET S : s \in G
  <2> HIDE DEF G
  <2> QED BY <1>1, <1>2, SubsetInduction
<1> QED BY <1>3

\* The members may be taken in any order.
LEMMA SumWithAny ==
    ASSUME NEW S, IsFiniteSet(S), NEW g, NEW f, AddsUp(g, S, f), \A x \in S : g[x] \in Nat
    PROVE  \A s \in SUBSET S : \A x \in s : f[s] = g[x] + f[s \ {x}]
<1> DEFINE InAnyOrder(s) == \A x \in s : f[s] = g[x] + f[s \ {x}]
           H == {n \in Nat : \A s \in SUBSET S : Cardinality(s) = n => InAnyOrder(s)}
<1>0. \A s \in SUBSET S : IsFiniteSet(s) /\ Cardinality(s) \in Nat /\ f[s] \in Nat
  BY FS_Subset, FS_CardinalityType, SumOfCounts
<1>1. 0 \in H
  BY <1>0, FS_EmptySet
<1>2. ASSUME NEW n \in H PROVE n + 1 \in H
  <2> SUFFICES ASSUME NEW s \in SUBSET S, Cardinality(s) = n + 1, NEW x \in s
               PROVE  f[s] = g[x] + f[s \ {x}]
    OBVIOUS
  <2> DEFINE p == Pick(s)
             rest == (s \ {p}) \ {x}
  <2>1. p \in s /\ f[s] = g[p] + f[s \ {p}]
    BY AddsUpStep DEF Pick
  <2>2. CASE x = p
    BY <2>1, <2>2
  <2>3. CASE x # p
    <3>1. Cardinality(s \ {p}) = n /\ Cardinality(s \ {x}) = n
      BY <1>0, <2>1, FS_RemoveElement
    <3>2. InAnyOrder(s \ {p}) /\ InAnyOrder(s \ {x})
      <4> HIDE DEF InAnyOrder, p
      <4> QED BY <3>1
    <3>3. f[s \ {p}] = g[x] + f[rest]
      BY <2>1, <2>3, <3>2
    <3>4. x \in s /\ p \in s \ {x} /\ (s \ {x}) \ {p} = rest
      BY <2>1, <2>3
    <3>5. f[s \ {x}] = g[p] + f[rest]
      BY <3>2, <3>4
    <3>6. g[x] \in Nat /\ g[p] \in Nat /\ f[rest] \in Nat
      BY <1>0, <2>1
    <3> HIDE DEF p, rest
    <3>7. f[s] = g[p] + (g[x] + f[rest])
      BY <2>1, <3>3
    <3>8. g[p] + (g[x] + f[rest]) = g[x] + (g[p] + f[rest])
      BY <3>6
    <3> QED BY <3>5, <3>7, <3>8
  <2> QED BY <2>2, <2>3
<1>3. \A n \in Nat : n \in H
  <2> HIDE DEF H
  <2>1. H \subseteq Nat
    BY DEF H
  <2> QED BY <1>1, <1>2, <2>1, NatByInduction
<1> QED BY <1>0, <1>3

\* A part of the members adds up to the same, whatever else there is.
LEMMA SumOfPart ==
    ASSUME NEW S, IsFiniteSet(S), NEW T, T \subseteq S, NEW g, NEW h, NEW f, NEW e,
           AddsUp(g, S, f), AddsUp(h, T, e), \A x \in T : g[x] = h[x]
    PROVE  e[T] = f[T]
<1> DEFINE G == {s \in SUBSET T : e[s] = f[s]}
<1>0. IsFiniteSet(T)
  BY FS_Subset
<1>1. {} \in G
  BY SumOfNothing
<1>2. ASSUME NEW s \in SUBSET T, s # {}, s \ {Pick(s)} \in G PROVE s \in G
  <2>1. Pick(s) \in T /\ e[s] = h[Pick(s)] + e[s \ {Pick(s)}]
    BY <1>0, <1>2, AddsUpStep
  <2>2. s \in SUBSET S /\ f[s] = g[Pick(s)] + f[s \ {Pick(s)}]
    BY <1>2, AddsUpStep
  <2> QED BY <1>2, <2>1, <2>2
<1>3. \A s \in SUBSET T : s \in G
  <2> HIDE DEF G
  <2> QED BY <1>0, <1>1, <1>2, SubsetInduction
<1> QED BY <1>3
-----------------------------------------------------------------------------
(***************************************************************************)
(* The numbers of the cases                                                *)
(***************************************************************************)
Cases(S) == MapThenSumSet(LAMBDA j : Distribution[j][2], S)

\* The cases for a set of rules are a sum.
LEMMA CasesAddUp ==
    ASSUME NEW S, IsFiniteSet(S), \A j \in S : Distribution[j][2] \in Nat
    PROVE  \E f : AddsUp([j \in S |-> Distribution[j][2]], S, f) /\ Cases(S) = f[S]
<1> DEFINE sums(f) == f = [s \in SUBSET S |-> IF s = {} THEN 0
                              ELSE LET x == CHOOSE x \in s : TRUE
                                   IN  Distribution[x][2] + f[s \ {x}]]
           iter == CHOOSE f : sums(f)
           g == [j \in S |-> Distribution[j][2]]
<1>1. Cases(S) = iter[S]
  BY Zenon DEF Cases, MapThenSumSet, MapThenFoldSet
<1>2. ASSUME NEW f PROVE sums(f) <=> AddsUp(g, S, f)
  <2>1. \A s \in SUBSET S : s # {} => g[Pick(s)] = Distribution[Pick(s)][2]
    BY DEF Pick
  <2>2. [s \in SUBSET S |-> IF s = {} THEN 0
            ELSE LET x == CHOOSE x \in s : TRUE IN Distribution[x][2] + f[s \ {x}]]
        = [s \in SUBSET S |-> IF s = {} THEN 0 ELSE g[Pick(s)] + f[s \ {Pick(s)}]]
    <3> HIDE DEF g
    <3> QED BY <2>1 DEF Pick
  <2> HIDE DEF g
  <2> QED BY <2>2 DEF AddsUp
<1>3. \E f : sums(f)
  <2>1. g \in [S -> Int]
    OBVIOUS
  <2> HIDE DEF sums, g
  <2> QED BY <1>2, <2>1, AddsUpExists
<1>4. sums(iter)
  <2> HIDE DEF sums
  <2> QED BY <1>3, Zenon
<1> HIDE DEF sums, iter
<1> QED BY <1>1, <1>2, <1>4

Rank == 1..Len(Distribution)
First(k) == FirstNumber(Distribution, k)

LEMMA Ranks ==
    /\ Len(Distribution) \in Nat /\ Rank = DOMAIN Distribution /\ IsFiniteSet(Rank)
    /\ \A k \in Rank : k \in Nat \ {0} /\ Distribution[k][2] \in Nat \ {0}
                       /\ Distribution[k][1] \in Issues
<1>1. Len(Distribution) \in Nat /\ Rank = DOMAIN Distribution
  BY DistributionAssumption DEF Rank
<1>2. IsFiniteSet(Rank)
  BY <1>1, FS_Interval DEF Rank
<1>3. \A k \in DOMAIN Distribution : Distribution[k] \in Issues \X (Nat \ {0})
  BY DistributionAssumption
<1> QED BY <1>1, <1>2, <1>3 DEF Rank

\* The first case of a rule comes after those of the rule before it.
LEMMA FirstNumbers ==
    /\ \A k \in 1..(Len(Distribution) + 1) : First(k) \in Nat \ {0}
    /\ \A k \in Rank : First(k + 1) = First(k) + Distribution[k][2]
<1> DEFINE n == Len(Distribution)
           g == [j \in Rank |-> Distribution[j][2]]
<1>0. n \in Nat /\ \A j \in Rank : Distribution[j][2] \in Nat
  BY Ranks
<1>1. PICK f : AddsUp(g, Rank, f)
  BY <1>0, Ranks, CasesAddUp
<1>2. ASSUME NEW k \in 1..(n + 1) PROVE First(k) = 1 + f[1..(k - 1)]
  <2> DEFINE T == 1..(k - 1)
             h == [j \in T |-> Distribution[j][2]]
  <2>1. T \subseteq Rank
    BY <1>0 DEF Rank
  <2>2. IsFiniteSet(T)
    BY <2>1, Ranks, FS_Subset
  <2>3. \A j \in T : g[j] = h[j] /\ Distribution[j][2] \in Nat
    BY <1>0, <2>1
  <2>4. PICK e : AddsUp(h, T, e) /\ Cases(T) = e[T]
    <3> HIDE DEF T
    <3> QED BY <2>2, <2>3, CasesAddUp
  <2>5. e[T] = f[T]
    <3> HIDE DEF T, g, h
    <3> QED BY <1>1, <2>1, <2>3, <2>4, Ranks, SumOfPart
  <2>6. First(k) = 1 + Cases(T)
    BY Zenon DEF First, FirstNumber, Cases
  <2> QED BY <2>4, <2>5, <2>6
<1>3. \A j \in Rank : g[j] \in Nat
  BY <1>0
<1>4. ASSUME NEW k \in 1..(n + 1) PROVE First(k) \in Nat \ {0}
  <2>1. 1..(k - 1) \in SUBSET Rank
    BY <1>0 DEF Rank
  <2>2. f[1..(k - 1)] \in Nat
    <3> HIDE DEF g
    <3> QED BY <1>1, <1>3, <2>1, Ranks, SumOfCounts
  <2> QED BY <1>2, <2>2
<1>5. \A s \in SUBSET Rank : f[s] \in Nat /\ \A x \in s : f[s] = g[x] + f[s \ {x}]
  <2>1. IsFiniteSet(Rank)
    BY Ranks
  <2> HIDE DEF g
  <2>2. \A s \in SUBSET Rank : f[s] \in Nat
    BY <1>1, <1>3, <2>1, SumOfCounts
  <2>3. \A s \in SUBSET Rank : \A x \in s : f[s] = g[x] + f[s \ {x}]
    <3> SUFFICES ASSUME NEW s \in SUBSET Rank, NEW x \in s PROVE f[s] = g[x] + f[s \ {x}]
      OBVIOUS
    <3> QED BY <1>1, <1>3, <2>1, SumWithAny
  <2> QED BY <2>2, <2>3
<1>6. ASSUME NEW k \in Rank PROVE First(k + 1) = First(k) + Distribution[k][2]
  <2> DEFINE upto == 1..k
             below == 1..(k - 1)
  <2>0. k \in Nat /\ 1 <= k /\ k <= n
    BY <1>0 DEF Rank
  <2>1. /\ k \in 1..(n + 1) /\ k + 1 \in 1..(n + 1) /\ (k + 1) - 1 = k
        /\ upto \in SUBSET Rank /\ below \in SUBSET Rank /\ k \in upto /\ upto \ {k} = below
    <3> HIDE DEF n
    <3>1. \A i \in Int : i \in Rank <=> 1 <= i /\ i <= n
      BY <1>0 DEF Rank, n
    <3>2. upto \in SUBSET Rank /\ below \in SUBSET Rank
      BY <1>0, <2>0, <3>1
    <3>3. k \in upto /\ upto \ {k} = below
      BY <2>0
    <3> QED BY <1>0, <2>0, <3>2, <3>3
  <2>2. First(k + 1) = 1 + f[upto] /\ First(k) = 1 + f[below]
    BY <1>2, <2>1
  <2>3. g[k] \in Nat /\ g[k] = Distribution[k][2]
    BY <1>3
  <2> HIDE DEF upto, below, g
  <2>4. f[upto] = g[k] + f[below] /\ f[below] \in Nat
    BY <1>5, <2>1
  <2>5. First(k + 1) = 1 + (g[k] + f[below])
    BY <2>2, <2>4
  <2> QED BY <2>2, <2>3, <2>4, <2>5
<1> QED BY <1>4, <1>6

\* So first cases come in the order of their rules.
LEMMA FirstsIncrease == \A j, k \in Rank : j < k => First(j) < First(k)
<1> DEFINE G == {k \in Nat : k \in Rank => \A j \in Rank : j < k => First(j) < First(k)}
<1>0. \A k \in Rank : /\ k \in Nat \ {0} /\ First(k) \in Nat
                      /\ Distribution[k][2] \in Nat \ {0}
                      /\ First(k + 1) = First(k) + Distribution[k][2]
  <2>1. \A k \in Rank : k \in 1..(Len(Distribution) + 1)
    BY Ranks DEF Rank
  <2> QED BY <2>1, Ranks, FirstNumbers
<1>1. 0 \in G
  BY <1>0
<1>2. ASSUME NEW k \in G PROVE k + 1 \in G
  <2> SUFFICES ASSUME k + 1 \in Rank, NEW j \in Rank, j < k + 1 PROVE First(j) < First(k + 1)
    OBVIOUS
  <2>1. k \in Rank /\ (j < k \/ j = k)
    BY <1>0, Ranks DEF Rank
  <2>2. First(k) < First(k + 1)
    BY <1>0, <2>1
  <2>3. First(j) < First(k) \/ j = k
    BY <2>1
  <2>4. First(j) \in Nat /\ First(k) \in Nat /\ First(k + 1) \in Nat
    BY <1>0, <2>1
  <2> QED BY <2>2, <2>3, <2>4
<1>3. \A n \in Nat : n \in G
  <2> HIDE DEF G
  <2>1. G \subseteq Nat
    BY DEF G
  <2> QED BY <1>1, <1>2, <2>1, NatByInduction
<1> QED BY <1>0, <1>3

\* The first case of a rule is a case of that rule.
LEMMA RuleOfFirst == \A k \in Rank : RuleOf(Distribution, First(k)) = Distribution[k][1]
<1> SUFFICES ASSUME NEW k \in Rank PROVE RuleOf(Distribution, First(k)) = Distribution[k][1]
  OBVIOUS
<1> DEFINE S == {j \in DOMAIN Distribution : FirstNumber(Distribution, j) <= First(k)}
<1>1. \A j \in Rank : j \in Nat /\ First(j) \in Nat
  <2>1. \A j \in Rank : j \in 1..(Len(Distribution) + 1)
    BY Ranks DEF Rank
  <2> QED BY <2>1, FirstNumbers, Ranks
<1>2. S = {j \in Rank : First(j) <= First(k)}
  BY Ranks DEF First
<1>3. k \in S /\ \A j \in S : j <= k
  <2>1. ASSUME NEW j \in Rank, First(j) <= First(k) PROVE j <= k
    <3>1. ~(First(k) < First(j))
      BY <1>1, <2>1
    <3>2. ~(k < j)
      BY <2>1, <3>1, FirstsIncrease
    <3> QED BY <1>1, <2>1, <3>2
  <2> QED BY <1>1, <1>2, <2>1
<1>4. S \subseteq Nat
  BY <1>1, <1>2
<1> HIDE DEF S
<1>5. Max(S) = k
  <2> DEFINE most == CHOOSE x \in S : \A y \in S : x >= y
  <2>1. \A j \in S : k >= j
    BY <1>3, <1>4
  <2>2. most \in S /\ \A y \in S : most >= y
    BY <1>3, <2>1
  <2>3. Max(S) = most
    BY DEF Max
  <2> HIDE DEF most
  <2> QED BY <1>3, <1>4, <2>1, <2>2, <2>3
<1>6. RuleOf(Distribution, First(k)) = Distribution[Max(S)][1]
  BY Zenon DEF RuleOf, S
<1> QED BY <1>5, <1>6

\* The cases of the pilot are finitely many numbers, and each has a rule of its own.
LEMMA ExpectedValue ==
    /\ PilotCases \subseteq Nat /\ IsFiniteSet(PilotCases)
    /\ Expected = [n \in PilotCases |-> RuleOf(Distribution, n)]
    /\ \A m, n \in PilotCases : Expected[m] = Expected[n] => m = n
<1>1. Expected = [n \in {First(k) : k \in Rank} |-> RuleOf(Distribution, n)]
  BY Ranks DEF Expected, FirstOfEach, First
<1>2. PilotCases = {First(k) : k \in Rank}
  BY <1>1 DEF PilotCases
<1>3. \A k \in Rank : First(k) \in Nat
  <2>1. \A j \in Rank : j \in 1..(Len(Distribution) + 1)
    BY Ranks DEF Rank
  <2> QED BY <2>1, FirstNumbers
<1>4. IsFiniteSet(PilotCases)
  <2> DEFINE f == [k \in Rank |-> First(k)]
  <2>1. f \in Surjection(Rank, PilotCases)
    BY <1>2 DEF Surjection
  <2>2. IsFiniteSet(Rank)
    BY Ranks
  <2> HIDE DEF f
  <2> QED BY <2>1, <2>2, FS_Surjection
<1>5. \A k \in Rank : Expected[First(k)] = Distribution[k][1]
  BY <1>1, RuleOfFirst
<1>6. \A j, k \in Rank : Distribution[j][1] = Distribution[k][1] => j = k
  BY DistributionAssumption, Ranks
<1>7. \A m, n \in PilotCases : Expected[m] = Expected[n] => m = n
  BY <1>2, <1>5, <1>6
<1>8. Expected = [n \in PilotCases |-> RuleOf(Distribution, n)]
  BY <1>1, <1>2
<1> QED BY <1>2, <1>3, <1>4, <1>7, <1>8

\* The numbers are numbers.
LEMMA NumbersValue == Numbers \subseteq Nat
<1>1. First(Len(Distribution) + 1) \in Nat
  BY Ranks, FirstNumbers
<1>2. Numbers = 1..(First(Len(Distribution) + 1) - 1)
  BY DEF Numbers, Total, First
<1> QED BY <1>1, <1>2
-----------------------------------------------------------------------------
(***************************************************************************)
(* The inductive invariant: whatever is whole, on disk or loaded, is an    *)
(* order that the engine put under the rule of its number, in the data it  *)
(* was generated from; while the rows read are those, the answers are of   *)
(* that order and the labels are the expected ones.                        *)
(***************************************************************************)
IsFun(f) == f = [x \in DOMAIN f |-> f[x]]
IsGenerator(g) == g = [f \in {"pc", "chosen", "data", "at"} |-> g[f]]
IsPilot(p) == p = [f \in {"pc", "listed", "files", "oracles", "reading", "matched", "summary"} |-> p[f]]

Whole(f, n) ==
    \E d \in Tables : \E o \in Pool(d, RuleOf(Distribution, n)) : f = [order |-> o, from |-> d]

FilesWhole ==
    /\ csv \in Tables /\ db \in Tables
    /\ IsFun(files) /\ DOMAIN files = Numbers
    /\ \A n \in Numbers : files[n] \in {Absent, Part} \/ Whole(files[n], n)
    /\ IsGenerator(gen)
    /\ gen.pc = "write" => gen.data \in Tables /\ gen.chosen \in Selections(gen.data)

Loaded ==
    /\ IsPilot(pilot) /\ pilot.matched \in BOOLEAN
    /\ pilot.listed \subseteq Numbers
    /\ IsFun(pilot.files) /\ DOMAIN pilot.files \subseteq Numbers
    /\ \A n \in DOMAIN pilot.files : Whole(pilot.files[n], n)
    /\ pilot.pc = "read" => DOMAIN pilot.files = PilotCases

Answers == {Answer(d[o], ContextQueries[k]) : d \in Tables, o \in Orders, k \in 1..3}

\* The answers of the reading to the queries for the claimed order, as it was
AsGenerated(reading, claimed) ==
    \A k \in DOMAIN reading :
        reading[k] = Answer(claimed.from[claimed.order], ContextQueries[k])

Reads ==
    /\ pilot.reading \in Seq(Answers) /\ Len(pilot.reading) <= 3
    /\ pilot.reading # <<>> =>
           /\ pilot.pc = "read" /\ Unread # {}
           /\ pilot.matched => AsGenerated(pilot.reading, pilot.files[Current])

Labelled ==
    /\ IsFun(pilot.oracles) /\ DOMAIN pilot.oracles \subseteq PilotCases
    /\ pilot.matched => \A n \in DOMAIN pilot.oracles : pilot.oracles[n] = Expected[n]
    /\ pilot.pc \in {"trials", "valid"} => pilot.oracles = Expected
    /\ pilot.pc = "invalid" => ~pilot.matched

Summed ==
    pilot.pc = "valid" =>
        \E outcome \in [PilotCases -> Behaviours] :
            pilot.summary = Summary(PairSummaries(Expected, outcome))

PilotInv == Loaded /\ Reads /\ Labelled /\ Summed
IInv == FilesWhole /\ PilotInv

\* The least of some numbers is one of them.
LEMMA LeastIsOne == ASSUME NEW S, S \subseteq Nat, S # {} PROVE Min(S) \in S
<1>1. \E m \in S : \A k \in S : m <= k
  BY LeastNat
<1> QED BY <1>1 DEF Min

\* A pilot that has not begun has nothing that could be wrong.
NothingYet ==
    /\ IsPilot(pilot) /\ pilot.pc \in {"idle", "load", "incomplete"}
    /\ pilot.listed \subseteq Numbers /\ pilot.files = <<>> /\ pilot.oracles = <<>>
    /\ pilot.reading = <<>> /\ pilot.matched = TRUE

LEMMA NothingLoaded == NothingYet => PilotInv
<1> SUFFICES ASSUME NothingYet PROVE PilotInv
  OBVIOUS
<1>1. <<>> \in Seq(Answers) /\ Len(<<>>) = 0 /\ DOMAIN <<>> = {} /\ IsFun(<<>>)
  BY DEF IsFun
<1>2. Loaded
  BY <1>1 DEF NothingYet, Loaded
<1>3. Reads
  BY <1>1 DEF NothingYet, Reads
<1>4. Labelled
  BY <1>1 DEF NothingYet, Labelled
<1>5. Summed
  BY DEF NothingYet, Summed
<1> QED BY <1>2, <1>3, <1>4, <1>5 DEF PilotInv

LEMMA InitInv == Init => IInv
<1> SUFFICES ASSUME Init PROVE IInv
  OBVIOUS
<1>1. FilesWhole
  BY DEF Init, FilesWhole, NoGenerator, IsGenerator, IsFun
<1>2. PilotInv
  <2>1. pilot = NoPilot
    BY DEF Init
  <2> QED BY <2>1, NothingLoaded DEF NothingYet, NoPilot, IsPilot
<1> QED BY <1>1, <1>2 DEF IInv

\* The pilot's part is about the pilot alone.
LEMMA PilotKept == ASSUME PilotInv, pilot' = pilot PROVE PilotInv'
BY DEF PilotInv, Loaded, Reads, Labelled, Summed, Unread, Current

\* A selected order is in the pool of its number.
LEMMA SelectionWhole ==
    ASSUME NEW d \in Tables, NEW s \in Selections(d), NEW n \in Numbers
    PROVE  Whole([order |-> s[n], from |-> d], n)
BY DEF Selections, Whole

\* The steps of the generator, and of the data it works on.
LEMMA GeneratorInv ==
    ASSUME FilesWhole,
           \/ \E overwrite \in BOOLEAN : Generate(overwrite)
           \/ Unlink \/ Select \/ WriteFile \/ GeneratorDies
           \/ (\E data \in Tables : NewData(data)) \/ Import
    PROVE  FilesWhole'
<1>1. ASSUME NEW overwrite \in BOOLEAN, Generate(overwrite) PROVE FilesWhole'
  BY <1>1 DEF Generate, NoGenerator, FilesWhole, IsGenerator
<1>2. CASE Unlink
  BY <1>2 DEF Unlink, FilesWhole, IsFun
<1>3. CASE Select
  <2>1. CASE gen' = NoGenerator
    BY <1>3, <2>1 DEF Select, NoGenerator, FilesWhole, IsGenerator
  <2>2. CASE \E s \in Selections(csv) : gen' = [pc |-> "write", chosen |-> s, data |-> csv, at |-> 1]
    BY <1>3, <2>2 DEF Select, FilesWhole, IsGenerator
  <2> QED BY <1>3, <2>1, <2>2 DEF Select
<1>4. CASE WriteFile
  <2>0. gen.data \in Tables /\ gen.chosen \in Selections(gen.data)
    BY <1>4 DEF WriteFile, FilesWhole
  <2>1. CASE files[gen.at] # Part
    BY <1>4, <2>1 DEF WriteFile, FilesWhole, IsFun
  <2>2. CASE files[gen.at] = Part
    <3> DEFINE file == [order |-> gen.chosen[gen.at], from |-> gen.data]
    <3>1. files' = [files EXCEPT ![gen.at] = file] /\ UNCHANGED <<csv, db>>
      BY <1>4, <2>2 DEF WriteFile
    <3>2. gen.at \in Numbers => Whole(file, gen.at)
      BY <2>0, SelectionWhole
    <3> HIDE DEF file
    <3>3. \A n \in Numbers : files'[n] \in {Absent, Part} \/ Whole(files'[n], n)
      BY <3>1, <3>2 DEF FilesWhole
    <3>4. IsFun(files') /\ DOMAIN files' = Numbers
      BY <3>1 DEF FilesWhole, IsFun
    <3>5. gen' = NoGenerator \/ gen' = [gen EXCEPT !.at = @ + 1]
      BY <1>4, <2>2 DEF WriteFile
    <3>6. IsGenerator(gen')
      BY <3>5 DEF NoGenerator, FilesWhole, IsGenerator
    <3>7. gen'.pc = "write" => gen'.data \in Tables /\ gen'.chosen \in Selections(gen'.data)
      BY <2>0, <3>5 DEF NoGenerator, FilesWhole, IsGenerator
    <3>8. csv' \in Tables /\ db' \in Tables
      BY <3>1 DEF FilesWhole
    <3> QED BY <3>3, <3>4, <3>6, <3>7, <3>8 DEF FilesWhole
  <2> QED BY <2>1, <2>2
<1>5. CASE GeneratorDies
  BY <1>5 DEF GeneratorDies, NoGenerator, FilesWhole, IsGenerator
<1>6. ASSUME NEW data \in Tables, NewData(data) PROVE FilesWhole'
  BY <1>6 DEF NewData, FilesWhole
<1>7. CASE Import
  BY <1>7 DEF Import, FilesWhole
<1> QED BY <1>1, <1>2, <1>3, <1>4, <1>5, <1>6, <1>7

LEMMA NothingLoadedNext == NothingYet' => PilotInv'
BY NothingLoaded, PTL

LEMMA StartPilotInv == ASSUME PilotInv, StartPilot PROVE PilotInv'
<1>1. pilot' = [NoPilot EXCEPT !.pc = "load", !.listed = Existing] /\ Existing \subseteq Numbers
  BY DEF StartPilot, Existing
<1>2. NothingYet'
  BY <1>1 DEF NothingYet, NoPilot, IsPilot
<1> QED BY <1>2, NothingLoadedNext

LEMMA PilotEndsInv == ASSUME PilotInv, PilotEnds PROVE PilotInv'
<1>1. NothingYet'
  BY DEF PilotEnds, NothingYet, NoPilot, IsPilot
<1> QED BY <1>1, NothingLoadedNext

\* A file that is loaded is whole.
LEMMA LoadFileInv == ASSUME FilesWhole, PilotInv, LoadFile PROVE PilotInv'
<1> DEFINE n == Min(pilot.listed)
<1>1. /\ pilot.pc = "load" /\ pilot.listed # {} /\ files[n] \notin {Absent, Part}
      /\ pilot' = [pilot EXCEPT !.listed = @ \ {n}, !.files = With(@, n, files[n])]
  BY DEF LoadFile
<1>2. n \in Numbers
  BY <1>1, NumbersValue, LeastIsOne DEF PilotInv, Loaded
<1>3. Whole(files[n], n)
  BY <1>1, <1>2 DEF FilesWhole
<1> DEFINE more == With(pilot.files, n, files[n])
<1>4. /\ IsFun(more) /\ DOMAIN more = {n} \cup DOMAIN pilot.files /\ more[n] = files[n]
      /\ \A k \in DOMAIN pilot.files : k # n => more[k] = pilot.files[k]
  BY DEF With, IsFun
<1> HIDE DEF n, more
<1>5. /\ pilot'.pc = "load" /\ pilot'.listed = pilot.listed \ {n} /\ pilot'.files = more
      /\ pilot'.oracles = pilot.oracles /\ pilot'.reading = pilot.reading
      /\ pilot'.matched = pilot.matched /\ IsPilot(pilot')
  BY <1>1 DEF PilotInv, Loaded, IsPilot, more
<1>6. Loaded'
  BY <1>2, <1>3, <1>4, <1>5 DEF PilotInv, Loaded
<1>7. pilot.reading = <<>>
  BY <1>1 DEF PilotInv, Reads
<1>8. Reads'
  BY <1>5, <1>7 DEF PilotInv, Reads
<1>9. Labelled' /\ Summed'
  BY <1>1, <1>5 DEF PilotInv, Labelled, Summed
<1> QED BY <1>6, <1>8, <1>9 DEF PilotInv

LEMMA LoadPilotCasesInv == ASSUME PilotInv, LoadPilotCases PROVE PilotInv'
<1>1. CASE PilotCases \subseteq DOMAIN pilot.files
  <2> DEFINE kept == [n \in PilotCases |-> pilot.files[n]]
  <2>1. pilot.pc = "load" /\ pilot' = [pilot EXCEPT !.pc = "read", !.files = kept]
    BY <1>1 DEF LoadPilotCases
  <2>2. /\ IsFun(kept) /\ DOMAIN kept = PilotCases
        /\ \A n \in PilotCases : kept[n] = pilot.files[n]
    BY DEF IsFun
  <2> HIDE DEF kept
  <2>3. /\ pilot'.pc = "read" /\ pilot'.listed = pilot.listed /\ pilot'.files = kept
        /\ pilot'.oracles = pilot.oracles /\ pilot'.reading = pilot.reading
        /\ pilot'.matched = pilot.matched /\ IsPilot(pilot')
    BY <2>1 DEF PilotInv, Loaded, IsPilot
  <2>4. Loaded'
    BY <1>1, <2>2, <2>3 DEF PilotInv, Loaded
  <2>5. pilot.reading = <<>>
    BY <2>1 DEF PilotInv, Reads
  <2>6. Reads'
    BY <2>3, <2>5 DEF PilotInv, Reads
  <2>7. Labelled' /\ Summed'
    BY <2>3 DEF PilotInv, Labelled, Summed
  <2> QED BY <2>4, <2>6, <2>7 DEF PilotInv
<1>2. CASE ~(PilotCases \subseteq DOMAIN pilot.files)
  <2>1. pilot' = [NoPilot EXCEPT !.pc = "incomplete"]
    BY <1>2 DEF LoadPilotCases
  <2>2. NothingYet'
    BY <2>1 DEF NothingYet, NoPilot, IsPilot
  <2> QED BY <2>2, NothingLoadedNext
<1> QED BY <1>1, <1>2

\* The current case has a whole file, which claims one of the orders.
LEMMA CurrentWhole ==
    ASSUME PilotInv, pilot.pc = "read", Unread # {}
    PROVE  /\ Current \in Unread /\ Current \in PilotCases
           /\ Whole(pilot.files[Current], Current)
           /\ pilot.files[Current].order \in Orders
<1>1. Unread \subseteq PilotCases /\ Unread \subseteq Nat
  BY ExpectedValue DEF Unread
<1>2. Current \in Unread
  BY <1>1, LeastIsOne DEF Current
<1>3. Whole(pilot.files[Current], Current)
  BY <1>1, <1>2 DEF PilotInv, Loaded
<1>4. pilot.files[Current].order \in Orders
  BY <1>3 DEF Whole, Pool
<1> QED BY <1>1, <1>2, <1>3, <1>4

LEMMA AskContextInv == ASSUME FilesWhole, PilotInv, AskContext PROVE PilotInv'
<1> DEFINE reading == pilot.reading
           claimed == pilot.files[Current]
           answer == Answer(db[claimed.order], ContextQueries[Len(reading) + 1])
           new == Append(reading, answer)
<1>1. /\ pilot.pc = "read" /\ Unread # {} /\ Len(reading) < Len(ContextQueries)
      /\ pilot' = [pilot EXCEPT !.reading = Append(@, answer), !.matched = @ /\ claimed.from = db]
  BY DEF AskContext
<1>2. Len(ContextQueries) = 3
  BY DEF ContextQueries
<1>3. reading \in Seq(Answers) /\ Len(reading) \in 0..2
  <2>1. reading \in Seq(Answers) /\ Len(reading) < 3
    BY <1>1, <1>2 DEF PilotInv, Reads
  <2> HIDE DEF reading
  <2>2. Len(reading) \in Nat
    BY <2>1
  <2>3. \A i \in Nat : i < 3 => i \in 0..2
    OBVIOUS
  <2> QED BY <2>1, <2>2, <2>3, Zenon
<1>4. claimed.order \in Orders
  BY <1>1, CurrentWhole
<1>5. answer \in Answers
  <2> DEFINE k == Len(reading) + 1
             o == claimed.order
  <2>1. k \in 1..3
    <3>1. \A i \in 0..2 : i + 1 \in 1..3
      OBVIOUS
    <3> HIDE DEF reading
    <3> QED BY <1>3, <3>1, Zenon
  <2>2. db \in Tables /\ o \in Orders /\ answer = Answer(db[o], ContextQueries[k])
    BY <1>4 DEF FilesWhole
  <2> HIDE DEF k, o, answer
  <2> QED BY <2>1, <2>2 DEF Answers
<1>6. /\ new \in Seq(Answers) /\ Len(new) = Len(reading) + 1
      /\ \A k \in 1..Len(reading) : new[k] = reading[k]
      /\ new[Len(reading) + 1] = answer
  <2> HIDE DEF answer, reading
  <2> QED BY <1>3, <1>5
<1>7. DOMAIN new = 1..(Len(reading) + 1) /\ DOMAIN reading = 1..Len(reading)
  <2> HIDE DEF new, reading
  <2> QED BY <1>3, <1>6
<1>8. /\ pilot'.pc = "read" /\ pilot'.listed = pilot.listed /\ pilot'.files = pilot.files
      /\ pilot'.oracles = pilot.oracles /\ pilot'.reading = new
      /\ pilot'.matched = (pilot.matched /\ claimed.from = db) /\ IsPilot(pilot')
  <2> HIDE DEF answer, claimed
  <2> QED BY <1>1 DEF PilotInv, Loaded, IsPilot
<1>9. Unread' = Unread /\ Current' = Current
  BY <1>8 DEF Unread, Current
<1>10. ASSUME pilot.matched, claimed.from = db PROVE AsGenerated(new, claimed)
  <2>1. reading # <<>> => AsGenerated(reading, claimed)
    BY <1>10 DEF PilotInv, Reads
  <2>2. AsGenerated(reading, claimed)
    <3>1. CASE reading = <<>>
      BY <3>1 DEF AsGenerated
    <3> QED BY <2>1, <3>1
  <2>3. answer = Answer(claimed.from[claimed.order], ContextQueries[Len(reading) + 1])
    BY <1>10
  <2>4. ASSUME NEW k \in DOMAIN new
        PROVE  new[k] = Answer(claimed.from[claimed.order], ContextQueries[k])
    <3> HIDE DEF new, answer, claimed, reading
    <3>1. CASE k \in DOMAIN reading
      BY <1>6, <1>7, <2>2, <3>1 DEF AsGenerated
    <3>2. CASE k \notin DOMAIN reading
      <4>1. k = Len(reading) + 1
        BY <1>3, <1>7, <3>2
      <4> QED BY <1>6, <2>3, <4>1
    <3> QED BY <3>1, <3>2
  <2> QED BY <2>4 DEF AsGenerated
<1>11. Loaded'
  <2>1. pilot'.matched \in BOOLEAN
    BY <1>8
  <2> HIDE DEF new, answer, claimed
  <2> QED BY <1>1, <1>8, <2>1 DEF PilotInv, Loaded
<1>12. Reads'
  <2>1. new \in Seq(Answers) /\ Len(new) <= 3
    BY <1>3, <1>6
  <2>2. pilot'.matched => AsGenerated(new, claimed)
    BY <1>8, <1>10
  <2>3. pilot'.files[Current'] = claimed
    BY <1>8, <1>9
  <2> HIDE DEF new, answer, claimed
  <2> QED BY <1>1, <1>8, <1>9, <2>1, <2>2, <2>3 DEF Reads
<1>13. Labelled' /\ Summed'
  <2>1. pilot'.matched => pilot.matched
    BY <1>8
  <2> HIDE DEF new, answer, claimed
  <2> QED BY <1>1, <1>8, <2>1 DEF PilotInv, Labelled, Summed
<1> QED BY <1>11, <1>12, <1>13 DEF PilotInv

\* The label of an order that was put under a rule, read as it was then, is that rule.
LEMMA OracleOfReading ==
    ASSUME NEW reading, DOMAIN reading = 1..3, NEW f, NEW n, Whole(f, n), AsGenerated(reading, f)
    PROVE  Oracle(reading) = RuleOf(Distribution, n)
<1>1. PICK d \in Tables : \E o \in Pool(d, RuleOf(Distribution, n)) : f = [order |-> o, from |-> d]
  BY DEF Whole
<1>2. PICK o \in Pool(d, RuleOf(Distribution, n)) : f = [order |-> o, from |-> d]
  BY <1>1
<1> DEFINE rows == d[o]
<1>3. f.from[f.order] = rows
  BY <1>2
<1>4. /\ ContextQueries[1] = "order" /\ ContextQueries[2] = "items" /\ ContextQueries[3] = "payments"
  BY DEF ContextQueries
<1>5. 1 \in 1..3 /\ 2 \in 1..3 /\ 3 \in 1..3
  OBVIOUS
<1>6. \A k \in 1..3 : reading[k] = Answer(rows, ContextQueries[k])
  BY <1>3 DEF AsGenerated
<1> HIDE DEF rows
<1>7. reading[1] = rows.order /\ reading[2] = rows.items /\ reading[3] = rows.payments
  BY <1>4, <1>5, <1>6 DEF Answer
<1>8. Oracle(reading) = Classify(RowsContext(rows))
  BY <1>7 DEF Oracle, RowsContext
<1>9. Classify(RowsContext(rows)) = RuleOf(Distribution, n)
  BY <1>2 DEF Pool, rows
<1> QED BY <1>8, <1>9

LEMMA LabelCaseInv == ASSUME PilotInv, LabelCase PROVE PilotInv'
<1> DEFINE n == Current
           label == Oracle(pilot.reading)
           more == With(pilot.oracles, n, label)
<1>1. /\ pilot.pc = "read" /\ Len(pilot.reading) = Len(ContextQueries)
      /\ pilot' = [pilot EXCEPT !.oracles = more, !.reading = <<>>]
  BY DEF LabelCase
<1>2. Len(ContextQueries) = 3
  BY DEF ContextQueries
<1>3. DOMAIN pilot.reading = 1..3 /\ pilot.reading # <<>>
  <2>1. pilot.reading \in Seq(Answers) /\ Len(pilot.reading) = 3
    BY <1>1, <1>2 DEF PilotInv, Reads
  <2>2. DOMAIN pilot.reading = 1..3
    BY <2>1
  <2>3. pilot.reading # <<>>
    <3>1. Len(<<>>) # 3
      OBVIOUS
    <3> QED BY <2>1, <3>1, Zenon
  <2> QED BY <2>2, <2>3, Zenon
<1>4. Unread # {}
  BY <1>3 DEF PilotInv, Reads
<1>5. n \in PilotCases /\ n \in Unread /\ Whole(pilot.files[n], n)
  BY <1>1, <1>4, CurrentWhole
<1>6. pilot.matched => label = Expected[n]
  <2> SUFFICES ASSUME pilot.matched PROVE label = Expected[n]
    OBVIOUS
  <2>1. AsGenerated(pilot.reading, pilot.files[n])
    BY <1>3 DEF PilotInv, Reads
  <2>2. label = RuleOf(Distribution, n)
    BY <1>3, <1>5, <2>1, OracleOfReading
  <2> QED BY <1>5, <2>2, ExpectedValue
<1>7. /\ IsFun(more) /\ DOMAIN more = DOMAIN pilot.oracles \cup {n} /\ more[n] = label
      /\ \A k \in DOMAIN pilot.oracles : k # n => more[k] = pilot.oracles[k]
  BY DEF With, IsFun
<1> HIDE DEF n, label, more
<1>8. /\ pilot'.pc = "read" /\ pilot'.listed = pilot.listed /\ pilot'.files = pilot.files
      /\ pilot'.oracles = more /\ pilot'.reading = <<>>
      /\ pilot'.matched = pilot.matched /\ IsPilot(pilot')
  BY <1>1 DEF PilotInv, Loaded, IsPilot
<1>9. Loaded'
  BY <1>1, <1>8 DEF PilotInv, Loaded
<1>10. Reads'
  <2>1. <<>> \in Seq(Answers) /\ Len(<<>>) = 0
    OBVIOUS
  <2> QED BY <1>8, <2>1 DEF Reads
<1>11. Labelled'
  BY <1>5, <1>6, <1>7, <1>8 DEF PilotInv, Labelled
<1>12. Summed'
  BY <1>8 DEF Summed
<1> QED BY <1>9, <1>10, <1>11, <1>12 DEF PilotInv

\* With all labels there, they are the expected ones or something else was read.
LEMMA ValidateInv == ASSUME PilotInv, ValidateExpectedOracles PROVE PilotInv'
<1> DEFINE accepted == pilot.oracles = Expected
<1>1. /\ pilot.pc = "read" /\ Unread = {}
      /\ pilot' = [pilot EXCEPT !.pc = IF accepted THEN "trials" ELSE "invalid"]
  BY DEF ValidateExpectedOracles, OraclesAccepted
<1>2. DOMAIN pilot.oracles = PilotCases
  BY <1>1 DEF Unread, PilotInv, Labelled
<1>3. pilot.matched => accepted
  <2> SUFFICES ASSUME pilot.matched PROVE pilot.oracles = Expected
    OBVIOUS
  <2>1. pilot.oracles = [n \in PilotCases |-> pilot.oracles[n]]
    BY <1>2, Zenon DEF PilotInv, Labelled, IsFun
  <2>2. \A n \in PilotCases : pilot.oracles[n] = Expected[n]
    BY <1>2, Zenon DEF PilotInv, Labelled
  <2>3. Expected = [n \in PilotCases |-> Expected[n]]
    BY ExpectedValue, Zenon
  <2> QED BY <2>1, <2>2, <2>3, Zenon
<1>4. pilot.reading = <<>>
  BY <1>1 DEF PilotInv, Reads
<1> HIDE DEF accepted
<1>5. /\ pilot'.pc = (IF accepted THEN "trials" ELSE "invalid")
      /\ pilot'.listed = pilot.listed /\ pilot'.files = pilot.files
      /\ pilot'.oracles = pilot.oracles /\ pilot'.reading = pilot.reading
      /\ pilot'.matched = pilot.matched /\ IsPilot(pilot')
  BY <1>1 DEF PilotInv, Loaded, IsPilot
<1>6. Loaded'
  BY <1>5 DEF PilotInv, Loaded
<1>7. Reads'
  BY <1>4, <1>5 DEF PilotInv, Reads
<1>8. Labelled'
  BY <1>3, <1>5 DEF PilotInv, Labelled, accepted
<1>9. Summed'
  BY <1>5 DEF Summed
<1> QED BY <1>6, <1>7, <1>8, <1>9 DEF PilotInv

LEMMA RunTrialsInv ==
    ASSUME PilotInv, NEW outcome \in [PilotCases -> Behaviours], RunTrials(outcome)
    PROVE  PilotInv'
<1> DEFINE summary == Summary(PairSummaries(pilot.oracles, outcome))
<1>1. pilot.pc = "trials" /\ pilot' = [pilot EXCEPT !.pc = "valid", !.summary = summary]
  BY DEF RunTrials
<1>2. pilot.oracles = Expected /\ pilot.reading = <<>>
  BY <1>1 DEF PilotInv, Labelled, Reads
<1>3. summary = Summary(PairSummaries(Expected, outcome))
  BY <1>2
<1> HIDE DEF summary
<1>4. /\ pilot'.pc = "valid" /\ pilot'.listed = pilot.listed /\ pilot'.files = pilot.files
      /\ pilot'.oracles = pilot.oracles /\ pilot'.reading = pilot.reading
      /\ pilot'.matched = pilot.matched /\ pilot'.summary = summary /\ IsPilot(pilot')
  BY <1>1 DEF PilotInv, Loaded, IsPilot
<1>5. Loaded'
  BY <1>4 DEF PilotInv, Loaded
<1>6. Reads'
  BY <1>2, <1>4 DEF PilotInv, Reads
<1>7. Labelled'
  BY <1>2, <1>4 DEF PilotInv, Labelled
<1>8. Summed'
  BY <1>3, <1>4 DEF Summed
<1> QED BY <1>5, <1>6, <1>7, <1>8 DEF PilotInv

LEMMA NextInv == IInv /\ [Next]_vars => IInv'
<1> SUFFICES ASSUME IInv, [Next]_vars PROVE IInv'
  OBVIOUS
<1> USE DEF IInv
<1>1. CASE UNCHANGED vars
  <2>1. FilesWhole'
    BY <1>1 DEF vars, FilesWhole
  <2> QED BY <1>1, <2>1, PilotKept DEF vars
<1>2. CASE \/ \E overwrite \in BOOLEAN : Generate(overwrite)
           \/ Unlink \/ Select \/ WriteFile \/ GeneratorDies
           \/ (\E data \in Tables : NewData(data)) \/ Import
  <2>1. FilesWhole'
    BY <1>2, GeneratorInv
  <2>2. pilot' = pilot
    BY <1>2 DEF Generate, Unlink, Select, WriteFile, GeneratorDies, NewData, Import
  <2> QED BY <2>1, <2>2, PilotKept
<1>3. CASE \/ StartPilot \/ LoadFile \/ LoadPilotCases \/ AskContext \/ LabelCase
           \/ ValidateExpectedOracles \/ PilotEnds
           \/ \E outcome \in [PilotCases -> Behaviours] : RunTrials(outcome)
  <2>1. UNCHANGED <<csv, db, files, gen>>
    BY <1>3 DEF StartPilot, LoadFile, LoadPilotCases, AskContext, LabelCase,
                ValidateExpectedOracles, PilotEnds, RunTrials
  <2>2. FilesWhole'
    BY <2>1 DEF FilesWhole
  <2>3. PilotInv'
    BY <1>3, StartPilotInv, LoadFileInv, LoadPilotCasesInv, AskContextInv, LabelCaseInv,
       ValidateInv, PilotEndsInv, RunTrialsInv
  <2> QED BY <2>2, <2>3
<1> QED BY <1>1, <1>2, <1>3 DEF Next

LEMMA Invariance == Spec => []IInv
BY InitInv, NextInv, PTL DEF Spec

\* The pilot refuses its labels only after it read other rows than those its files were
\* generated from, whatever was generated, replaced and imported meanwhile
\* (pilot.py:78-112, generate_inputs.py:165-254).
THEOREM AcceptsWhatMatches == Spec => []PilotAccepts
<1>1. IInv => PilotAccepts
  BY DEF IInv, PilotInv, Labelled, PilotAccepts
<1> QED BY <1>1, Invariance, PTL
-----------------------------------------------------------------------------
(***************************************************************************)
(* The counts of a summary                                                 *)
(***************************************************************************)
\* The members of disjoint sets are counted one set at a time.
LEMMA PartsAddUp ==
    ASSUME NEW K, IsFiniteSet(K), NEW Q, NEW g, NEW f, AddsUp(g, K, f),
           \A k \in K : IsFiniteSet(Q[k]) /\ g[k] = Cardinality(Q[k]),
           \A j, k \in K : j # k => Q[j] \cap Q[k] = {}
    PROVE  f[K] = Cardinality(UNION {Q[k] : k \in K})
<1> DEFINE U(s) == UNION {Q[k] : k \in s}
           G == {s \in SUBSET K : IsFiniteSet(U(s)) /\ f[s] = Cardinality(U(s))}
<1>1. {} \in G
  <2>1. U({}) = {}
    OBVIOUS
  <2>2. f[{}] = 0
    BY SumOfNothing
  <2>3. IsFiniteSet({}) /\ Cardinality({}) = 0
    BY FS_EmptySet
  <2> HIDE DEF U
  <2> QED BY <2>1, <2>2, <2>3
<1>2. ASSUME NEW s \in SUBSET K, s # {}, s \ {Pick(s)} \in G PROVE s \in G
  <2> DEFINE p == Pick(s)
             t == s \ {p}
  <2>1. p \in s /\ p \in K /\ f[s] = g[p] + f[t]
    BY <1>2, AddsUpStep DEF Pick
  <2>2. IsFiniteSet(U(t)) /\ f[t] = Cardinality(U(t))
    BY <1>2
  <2>3. U(s) = Q[p] \cup U(t) /\ Q[p] \cap U(t) = {}
    <3> HIDE DEF p
    <3> QED BY <2>1
  <2>4. IsFiniteSet(Q[p]) /\ g[p] = Cardinality(Q[p])
    BY <2>1
  <2> HIDE DEF U, p, t
  <2>5. IsFiniteSet(U(s)) /\ Cardinality(U(s)) = Cardinality(Q[p]) + Cardinality(U(t))
    <3>1. Q[p] \cap U(t) = {}
      BY <2>3
    <3>2. /\ IsFiniteSet(Q[p] \cup U(t))
          /\ Cardinality(Q[p] \cup U(t)) = Cardinality(Q[p]) + Cardinality(U(t))
      <4>1. IsFiniteSet(Q[p]) /\ IsFiniteSet(U(t))
        BY <2>2, <2>4
      <4> QED BY <3>1, <4>1, DisjointUnion, Zenon
    <3> QED BY <2>3, <3>2, Zenon
  <2> QED BY <2>1, <2>2, <2>4, <2>5
<1>3. \A s \in SUBSET K : s \in G
  <2> HIDE DEF G
  <2> QED BY <1>1, <1>2, SubsetInduction
<1>4. K \in G
  BY <1>3
<1> QED BY <1>4

\* A column of a tally is a sum.
LEMMA TallyAddsUp ==
    ASSUME NEW tally, NEW label, NEW K, K = DOMAIN tally, IsFiniteSet(K),
           \A k \in K : tally[k][label] \in Int
    PROVE  \E f : /\ AddsUp([k \in K |-> tally[k][label]], K, f)
                  /\ CountSum(label, tally) = f[K]
<1> DEFINE sums(f) == f = [s \in SUBSET K |-> IF s = {} THEN 0
                              ELSE LET x == CHOOSE x \in s : TRUE
                                   IN  tally[x][label] + f[s \ {x}]]
           iter == CHOOSE f : sums(f)
           g == [k \in K |-> tally[k][label]]
<1>1. CountSum(label, tally) = iter[K]
  <2>1. MapThenSumSet(LAMBDA k : tally[k][label], K) = iter[K]
    BY Zenon DEF MapThenSumSet, MapThenFoldSet
  <2> HIDE DEF iter
  <2> QED BY <2>1, Zenon DEF CountSum
<1>2. ASSUME NEW f PROVE sums(f) <=> AddsUp(g, K, f)
  <2>1. \A s \in SUBSET K : s # {} => g[Pick(s)] = tally[Pick(s)][label]
    BY DEF Pick
  <2>2. [s \in SUBSET K |-> IF s = {} THEN 0
            ELSE LET x == CHOOSE x \in s : TRUE IN tally[x][label] + f[s \ {x}]]
        = [s \in SUBSET K |-> IF s = {} THEN 0 ELSE g[Pick(s)] + f[s \ {Pick(s)}]]
    <3> HIDE DEF g
    <3> QED BY <2>1 DEF Pick
  <2> HIDE DEF g
  <2> QED BY <2>2 DEF AddsUp
<1>3. \E f : sums(f)
  <2>1. g \in [K -> Int]
    OBVIOUS
  <2> HIDE DEF sums, g
  <2> QED BY <1>2, <2>1, AddsUpExists
<1>4. sums(iter)
  <2> HIDE DEF sums
  <2> QED BY <1>3, Zenon
<1> HIDE DEF sums, iter
<1> QED BY <1>1, <1>2, <1>4

\* The parts of a set of summaries have the counts of the whole.
LEMMA TallyOfParts ==
    ASSUME NEW pairs, IsFiniteSet(pairs), NEW K, IsFiniteSet(K), NEW part,
           \A k \in K : part[k] \subseteq pairs,
           \A x \in pairs : \E k \in K : x \in part[k],
           \A j, k \in K : j # k => part[j] \cap part[k] = {}
    PROVE  SumOf([k \in K |-> Tally(part[k])]) = Tally(pairs)
<1> DEFINE tally == [k \in K |-> Tally(part[k])]
<1>1. ASSUME NEW label \in Labels
      PROVE  CountSum(label, tally) = Cardinality({x \in pairs : x.effect = label})
  <2> DEFINE Q == [k \in K |-> {x \in part[k] : x.effect = label}]
             g == [k \in K |-> tally[k][label]]
  <2>1. \A k \in K : IsFiniteSet(Q[k]) /\ g[k] = Cardinality(Q[k]) /\ Cardinality(Q[k]) \in Nat
    <3> SUFFICES ASSUME NEW k \in K
                 PROVE IsFiniteSet(Q[k]) /\ g[k] = Cardinality(Q[k]) /\ Cardinality(Q[k]) \in Nat
      OBVIOUS
    <3>1. Q[k] \subseteq pairs
      OBVIOUS
    <3>2. IsFiniteSet(Q[k]) /\ Cardinality(Q[k]) \in Nat
      <4> HIDE DEF Q
      <4> QED BY <3>1, FS_Subset, FS_CardinalityType
    <3>3. g[k] = Cardinality(Q[k])
      BY DEF Tally
    <3> QED BY <3>2, <3>3
  <2>2. \A j, k \in K : j # k => Q[j] \cap Q[k] = {}
    OBVIOUS
  <2>3. UNION {Q[k] : k \in K} = {x \in pairs : x.effect = label}
    OBVIOUS
  <2>4. K = DOMAIN tally
    OBVIOUS
  <2> HIDE DEF tally, Q
  <2>5. \A k \in K : tally[k][label] \in Int
    <3>1. \A k \in K : tally[k][label] = g[k]
      OBVIOUS
    <3>2. \A k \in K : g[k] \in Nat
      BY <2>1
    <3> QED BY <3>1, <3>2
  <2>6. PICK f : AddsUp(g, K, f) /\ CountSum(label, tally) = f[K]
    BY <2>4, <2>5, TallyAddsUp
  <2> HIDE DEF g
  <2>7. f[K] = Cardinality(UNION {Q[k] : k \in K})
    BY <2>1, <2>2, <2>6, PartsAddUp
  <2> QED BY <2>3, <2>6, <2>7, Zenon
<1> HIDE DEF tally
<1>2. SumOf(tally) = [label \in Labels |-> Cardinality({x \in pairs : x.effect = label})]
  BY <1>1, Zenon DEF SumOf
<1> QED BY <1>2 DEF Tally, tally

LEMMA PairsFinite == IsFiniteSet(DirectedPairs)
<1>1. Agents = {"order_seller_agent"} \cup {"payment_agent"} \cup {"delivery_agent"}
  BY DEF Agents
<1>2. IsFiniteSet(Agents)
  BY <1>1, FS_Singleton, FS_AddElement
<1>3. IsFiniteSet(Agents \X Agents)
  BY <1>2, FS_Product
<1>4. DirectedPairs \subseteq Agents \X Agents
  BY DEF DirectedPairs
<1> QED BY <1>3, <1>4, FS_Subset

\* What the summaries of the pairs are: finitely many, and each of a case, of the rule
\* expected of it and of an edge.
LEMMA SummariesValue ==
    ASSUME NEW outcome
    PROVE  LET pairs == PairSummaries(Expected, outcome)
           IN  /\ IsFiniteSet(pairs)
               /\ \A x \in pairs : /\ x.case \in PilotCases /\ x.edge \in DirectedPairs
                                   /\ x.oracle = Expected[x.case]
<1> DEFINE pairs == PairSummaries(Expected, outcome)
           S == PilotCases \X DirectedPairs
           Of(n, p) == [case |-> n, oracle |-> Expected[n], edge |-> p,
               effect |-> EffectLabel(TotalUtility(outcome[n][p].with_message, Expected[n]),
                                      TotalUtility(outcome[n][p].without_message, Expected[n]))]
           f == [q \in S |-> Of(q[1], q[2])]
<1>1. pairs = {Of(n, p) : n \in PilotCases, p \in DirectedPairs}
  BY DEF PairSummaries
<1>2. \A n, p : Of(n, p).case = n /\ Of(n, p).oracle = Expected[n] /\ Of(n, p).edge = p
  OBVIOUS
<1> HIDE DEF Of, pairs
<1>3. f \in Surjection(S, pairs)
  <2>1. \A q \in S : f[q] = Of(q[1], q[2]) /\ q[1] \in PilotCases /\ q[2] \in DirectedPairs
    OBVIOUS
  <2>2. f \in [S -> pairs]
    BY <1>1, <2>1
  <2>3. ASSUME NEW x \in pairs PROVE \E q \in S : f[q] = x
    <3>1. PICK n \in PilotCases, p \in DirectedPairs : x = Of(n, p)
      BY <1>1
    <3>2. <<n, p>> \in S /\ f[<<n, p>>] = Of(n, p)
      BY <2>1
    <3> QED BY <3>1, <3>2
  <2> HIDE DEF f, S
  <2> QED BY <2>2, <2>3 DEF Surjection
<1>4. IsFiniteSet(S)
  BY ExpectedValue, PairsFinite, FS_Product
<1>5. IsFiniteSet(pairs)
  <2> HIDE DEF f, S
  <2> QED BY <1>3, <1>4, FS_Surjection
<1>6. \A x \in pairs : /\ x.case \in PilotCases /\ x.edge \in DirectedPairs
                       /\ x.oracle = Expected[x.case]
  BY <1>1, <1>2
<1> QED BY <1>5, <1>6 DEF pairs

\* Every group of a summary has the counts of its pairs, and the groupings agree.
LEMMA SummaryValue ==
    ASSUME NEW outcome, NEW s, s = Summary(PairSummaries(Expected, outcome))
    PROVE  /\ \A n \in PilotCases : s.per_case[n].counts = s.by_root_cause[s.per_case[n].oracle]
           /\ s.overall = SumOf(s.by_root_cause)
           /\ s.overall = SumOf(s.by_edge)
           /\ s.overall = SumOf([n \in PilotCases |-> s.per_case[n].counts])
<1> DEFINE pairs == PairSummaries(Expected, outcome)
           Causes == Range(Expected)
           ofCase == [n \in PilotCases |-> {x \in pairs : x.case = n}]
           ofRule == [r \in Causes |-> {x \in pairs : x.oracle = r}]
           ofEdge == [p \in DirectedPairs |-> {x \in pairs : x.edge = p}]
<1>1. /\ s.per_case = [n \in PilotCases |->
             [oracle |-> Expected[n], counts |-> Tally({x \in pairs : x.case = n})]]
      /\ s.by_root_cause = [r \in Causes |-> Tally({x \in pairs : x.oracle = r})]
      /\ s.by_edge = [p \in DirectedPairs |-> Tally({x \in pairs : x.edge = p})]
      /\ s.overall = Tally(pairs)
  BY DEF Summary
<1>2. /\ IsFiniteSet(pairs)
      /\ \A x \in pairs : /\ x.case \in PilotCases /\ x.edge \in DirectedPairs
                          /\ x.oracle = Expected[x.case]
  BY SummariesValue
<1> HIDE DEF pairs
<1>3. /\ DOMAIN Expected = PilotCases
      /\ \A n \in PilotCases : Expected[n] \in Causes
      /\ \A m, n \in PilotCases : Expected[m] = Expected[n] => m = n
  BY ExpectedValue DEF Range, PilotCases
<1>4. IsFiniteSet(Causes)
  <2>1. Expected \in Surjection(PilotCases, Causes)
    BY ExpectedValue DEF Range, Surjection
  <2> HIDE DEF Causes
  <2> QED BY <2>1, ExpectedValue, FS_Surjection
<1> HIDE DEF Causes
<1>5. ASSUME NEW n \in PilotCases
      PROVE  s.per_case[n].counts = s.by_root_cause[s.per_case[n].oracle]
  <2>1. {x \in pairs : x.case = n} = {x \in pairs : x.oracle = Expected[n]}
    BY <1>2, <1>3
  <2>2. s.per_case[n] = [oracle |-> Expected[n], counts |-> Tally({x \in pairs : x.case = n})]
    BY <1>1
  <2>3. s.by_root_cause[Expected[n]] = Tally({x \in pairs : x.oracle = Expected[n]})
    BY <1>1, <1>3
  <2> QED BY <2>1, <2>2, <2>3
<1>6. SumOf([r \in Causes |-> Tally(ofRule[r])]) = Tally(pairs)
  <2>1. /\ \A r \in Causes : ofRule[r] \subseteq pairs
        /\ \A x \in pairs : \E r \in Causes : x \in ofRule[r]
        /\ \A q, r \in Causes : q # r => ofRule[q] \cap ofRule[r] = {}
    BY <1>2, <1>3
  <2> HIDE DEF ofRule
  <2> QED BY <1>2, <1>4, <2>1, TallyOfParts
<1>7. SumOf([p \in DirectedPairs |-> Tally(ofEdge[p])]) = Tally(pairs)
  <2>1. /\ \A p \in DirectedPairs : ofEdge[p] \subseteq pairs
        /\ \A x \in pairs : \E p \in DirectedPairs : x \in ofEdge[p]
        /\ \A q, p \in DirectedPairs : q # p => ofEdge[q] \cap ofEdge[p] = {}
    BY <1>2
  <2> HIDE DEF ofEdge
  <2> QED BY <1>2, <2>1, PairsFinite, TallyOfParts
<1>8. SumOf([n \in PilotCases |-> Tally(ofCase[n])]) = Tally(pairs)
  <2>1. /\ \A n \in PilotCases : ofCase[n] \subseteq pairs
        /\ \A x \in pairs : \E n \in PilotCases : x \in ofCase[n]
        /\ \A m, n \in PilotCases : m # n => ofCase[m] \cap ofCase[n] = {}
    BY <1>2
  <2>2. IsFiniteSet(PilotCases)
    BY ExpectedValue
  <2> HIDE DEF ofCase
  <2> QED BY <1>2, <2>1, <2>2, TallyOfParts
<1>9. /\ s.by_root_cause = [r \in Causes |-> Tally(ofRule[r])]
      /\ s.by_edge = [p \in DirectedPairs |-> Tally(ofEdge[p])]
      /\ [n \in PilotCases |-> s.per_case[n].counts] = [n \in PilotCases |-> Tally(ofCase[n])]
  BY <1>1
<1> HIDE DEF ofRule, ofEdge, ofCase
<1> QED BY <1>1, <1>5, <1>6, <1>7, <1>8, <1>9

\* The counts of the pilot's summary agree per case, per rule, per edge and overall
\* (pilot_analysis.py:117-194, 267-286).
THEOREM SummaryCounts == Spec => []SummaryAddsUp
<1>1. IInv => SummaryAddsUp
  <2> SUFFICES ASSUME IInv, pilot.pc = "valid" PROVE SummaryAddsUp
    BY DEF SummaryAddsUp
  <2>1. PICK outcome \in [PilotCases -> Behaviours] :
            pilot.summary = Summary(PairSummaries(Expected, outcome))
    BY DEF IInv, PilotInv, Summed
  <2> QED BY <2>1, SummaryValue DEF SummaryAddsUp
<1> QED BY <1>1, Invariance, PTL
=============================================================================
