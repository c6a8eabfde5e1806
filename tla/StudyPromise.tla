---------------------------- MODULE StudyPromise ----------------------------
(***************************************************************************)
(* What the research studies promise each other.  The results of a run of  *)
(* the first study appear at once, whole, and never change; a study that   *)
(* repeats the messages about one case uses a single result about that     *)
(* case alone, at least as recent as any there was when it began.          *)
(***************************************************************************)
EXTENDS Naturals, Sequences, FiniteSets

CONSTANTS
    Pairs,   \* directed pairs of agents
    First,   \* the case whose messages are repeated
    Nothing

VARIABLES
    results, \* the results so far, oldest first
    known,   \* how many there were when the study in progress began, or Nothing
    source   \* the index of the result it uses, or Nothing

vars == <<results, known, source>>

Init == results = <<>> /\ known = Nothing /\ source = Nothing

\* One record for every case of the result and every pair, and no other.
Whole(result) ==
    LET cases == {result.cases[k] : k \in DOMAIN result.cases}
        Of(c, p) == {r \in result.records :
                         r.case = c /\ <<r.message.sender, r.message.recipient>> = p}
    IN  /\ \A c \in cases, p \in Pairs : Cardinality(Of(c, p)) = 1
        /\ Cardinality(result.records) = Cardinality(cases) * Cardinality(Pairs)

Publish ==
    /\ Len(results') = Len(results) + 1 /\ Whole(results'[Len(results')])
    /\ SubSeq(results', 1, Len(results)) = results
    /\ UNCHANGED <<known, source>>

Begin ==
    /\ known = Nothing /\ known' = Len(results)
    /\ UNCHANGED <<results, source>>

Usable == {k \in DOMAIN results : results[k].cases = <<First>>}

Use ==
    /\ known # Nothing /\ source = Nothing
    /\ source' \in Usable
    /\ \A k \in Usable : k <= known => k <= source'
    /\ UNCHANGED <<results, known>>

End ==
    /\ known # Nothing /\ known' = Nothing /\ source' = Nothing
    /\ UNCHANGED results

Next == Publish \/ Begin \/ Use \/ End

Spec == Init /\ [][Next]_vars
=============================================================================
