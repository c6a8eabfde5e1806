--------------------------- MODULE DatasetPromise ---------------------------
(***************************************************************************)
(* What a run directory of the research dataset promises to the studies    *)
(* that read it.  Cases are committed one at a time and for good; a run    *)
(* stops and goes on any number of times; it is published once, with the   *)
(* cases as they were committed, and only when all are.                    *)
(***************************************************************************)
CONSTANTS Cases, Nothing

VARIABLES
    status,     \* "RUNNING", "INTERRUPTED", "INVALID" or "COMPLETE"
    committed,  \* the records of each committed case, {} for the others
    published   \* the records of the published dataset, or Nothing

vars == <<status, committed, published>>

Init ==
    /\ status = "RUNNING"
    /\ committed = [c \in Cases |-> {}]
    /\ published = Nothing

\* The records of a case are the work of one attempt at it.
OneAttempt(records) == \A r, s \in records : r.attempt = s.attempt

Commit(c) ==
    /\ status = "RUNNING" /\ committed[c] = {}
    /\ committed'[c] # {} /\ OneAttempt(committed'[c])
    /\ committed' = [committed EXCEPT ![c] = committed'[c]]
    /\ UNCHANGED <<status, published>>

Interrupt == status = "RUNNING" /\ status' = "INTERRUPTED" /\ UNCHANGED <<committed, published>>

Continue == status = "INTERRUPTED" /\ status' = "RUNNING" /\ UNCHANGED <<committed, published>>

Invalidate ==
    /\ status \in {"RUNNING", "INTERRUPTED"} /\ status' = "INVALID"
    /\ UNCHANGED <<committed, published>>

Publish ==
    /\ status = "RUNNING" /\ \A c \in Cases : committed[c] # {}
    /\ status' = "COMPLETE"
    /\ published' = UNION {committed[c] : c \in Cases}
    /\ UNCHANGED committed

Next ==
    (\E c \in Cases : Commit(c)) \/ Interrupt \/ Continue \/ Invalidate \/ Publish

Spec == Init /\ [][Next]_vars
=============================================================================
