----------------------------- MODULE DeskCases -----------------------------
(***************************************************************************)
(* The cases of the dispute desk (src/src/api/main.py): every request to   *)
(* create one is a transaction that reads the largest number, adds one and *)
(* inserts under that number, with nothing but the primary key between two *)
(* of them.                                                                *)
(***************************************************************************)
EXTENDS Integers, FiniteSetsExt

CONSTANTS
    Requests, \* the requests to create a case
    Capacity  \* the largest number of a case: 999

ASSUME CapacityAssumption == Capacity \in Nat \ {0}

VARIABLES
    cases,  \* the committed rows, by number: the request that made it, the decision
    at,     \* where a request is; an inserted row is not visible to the others yet
    number  \* the number it has read

caseVars == <<cases, at, number>>
-----------------------------------------------------------------------------
CasesInit ==
    /\ cases = [n \in {} |-> [by |-> "", decision |-> "pending"]]
    /\ at = [q \in Requests |-> "new"] /\ number = [q \in Requests |-> 0]

NextNumber == Max(DOMAIN cases \cup {0}) + 1

Move(q, place) == at' = [at EXCEPT ![q] = place]

\* Mutant of ReadNumber: numbers come from a sequence, which no rollback gives back.
ReadSequence(q) ==
    /\ at[q] = "new"
    /\ LET next == Max({number[p] : p \in Requests}) + 1
       IN  IF next > Capacity THEN Move(q, "refused") /\ UNCHANGED number
           ELSE Move(q, "numbered") /\ number' = [number EXCEPT ![q] = next]
    /\ UNCHANGED cases

\* SELECT MAX + 1, of the committed rows; 409 beyond the capacity.
ReadNumber(q) ==
    /\ at[q] = "new"
    /\ IF NextNumber > Capacity THEN Move(q, "refused") /\ UNCHANGED number
       ELSE Move(q, "numbered") /\ number' = [number EXCEPT ![q] = NextNumber]
    /\ UNCHANGED cases

\* Mutants of Insert: it does not wait for the other, or for ever.
InsertUnchecked(q) ==
    /\ at[q] = "numbered" /\ Move(q, "inserted")
    /\ UNCHANGED <<cases, number>>
InsertWaiting(q) ==
    /\ at[q] = "numbered" /\ number[q] \notin DOMAIN cases
    /\ \A p \in Requests : at[p] = "inserted" => number[p] # number[q]
    /\ Move(q, "inserted")
    /\ UNCHANGED <<cases, number>>

\* The primary key: a transaction waits for another that holds the number, and is
\* refused if the row is there.
Insert(q) ==
    /\ at[q] = "numbered"
    /\ \A p \in Requests : at[p] = "inserted" => number[p] # number[q]
    /\ IF number[q] \in DOMAIN cases THEN Move(q, "refused") ELSE Move(q, "inserted")
    /\ UNCHANGED <<cases, number>>

\* The answer to the commit may be lost.
Commit(q) ==
    /\ at[q] = "inserted"
    /\ cases' = [n \in DOMAIN cases \cup {number[q]} |->
                     IF n = number[q] THEN [by |-> q, decision |-> "pending"] ELSE cases[n]]
    /\ Move(q, "created") \/ Move(q, "refused")
    /\ UNCHANGED number

\* The order is not there, or the transaction is rolled back.
Refuse(q) ==
    /\ at[q] \in {"new", "numbered", "inserted"}
    /\ Move(q, "refused")
    /\ UNCHANGED <<cases, number>>

Decide(n, decision) ==
    /\ cases' = [cases EXCEPT ![n].decision = decision]
    /\ UNCHANGED <<at, number>>

Done == (\A q \in Requests : at[q] \in {"created", "refused"}) /\ UNCHANGED caseVars

CasesNext ==
    \/ \E q \in Requests : ReadNumber(q) \/ Insert(q) \/ Commit(q) \/ Refuse(q)
    \/ \E n \in DOMAIN cases, decision \in {"approved", "rejected"} : Decide(n, decision)
    \/ Done

CasesSpec == CasesInit /\ [][CasesNext]_caseVars

\* The database answers every statement that it is sent.
CasesFairSpec == CasesSpec /\ \A q \in Requests : WF_caseVars(Insert(q) \/ Commit(q))
-----------------------------------------------------------------------------
Places == {"new", "numbered", "inserted", "created", "refused"}

\* The kinds of the variables; no number goes beyond the capacity.
CasesTypeOK ==
    /\ DOMAIN cases \subseteq 1..Capacity
    /\ cases \in [DOMAIN cases -> [by : Requests, decision : {"pending", "approved", "rejected"}]]
    /\ at \in [Requests -> Places] /\ number \in [Requests -> 0..Capacity]

\* Case numbers have no holes, whichever transactions are refused or rolled back
\* between reading a number and using it.
Contiguous == \E n \in 0..Capacity : DOMAIN cases = 1..n

\* A case that was committed is never replaced by that of another request, and no
\* decision is undone by one.
NeverReplaced ==
    [][\A n \in DOMAIN cases :
           /\ n \in DOMAIN cases' /\ cases'[n].by = cases[n].by
           /\ cases[n].decision # "pending" => cases'[n].decision # "pending"]_caseVars

\* Requests that have read the same number do not wait for each other for ever.
RequestsEnd ==
    \A q \in Requests : at[q] = "numbered" ~> at[q] \in {"created", "refused"}
=============================================================================
