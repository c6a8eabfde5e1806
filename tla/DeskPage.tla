------------------------------ MODULE DeskPage ------------------------------
(***************************************************************************)
(* DeskRuns with the pages of the operators (src/frontend/src/App.tsx) and *)
(* the decision on the case they look at.  A page shows an answer of the   *)
(* server until it applies another; answers overtake each other, the open  *)
(* pages are many, and none is told of a change.  So whatever the server   *)
(* has answered may be on some screen.  The decision goes to the case and  *)
(* does not say which run it is about.                                     *)
(***************************************************************************)
EXTENDS DeskRuns, Sequences

VARIABLES
    posted,   \* the runs of the case in the order of started_at
    screens,  \* the answers that may be on a screen, with the decision still pending
    decided   \* history: the runs that were on the screen of who decided

page == <<posted, screens, decided>>

PageInit == Init /\ posted = <<>> /\ screens = {} /\ decided = {}

\* run_case from any page
Start(r) ==
    /\ Post(r)
    /\ posted' = Append(posted, r)
    /\ UNCHANGED <<screens, decided>>

\* case_detail reads the case, then its runs in a second statement, so the decision may
\* still be pending in the answer when it has been made.  The page shows the run that
\* was started last.
Look ==
    /\ server = "up" /\ posted # <<>>
    /\ LET r == posted[Len(posted)]
       IN  screens' = screens \cup {[run |-> r, output |-> row[r].output]}
    /\ UNCHANGED <<vars, posted, decided>>

\* Mutant of Offers: the buttons are there unless the case was decided.
OffersAlways(a) == TRUE

\* DetailView has the buttons of a decision when it shows an output.
Offers(a) == a.output

\* decide updates the case, whatever it holds and whatever its runs have become.
DecideFrom(a) ==
    /\ server = "up" /\ a \in screens /\ Offers(a)
    /\ decided' = decided \cup {a.run}
    /\ UNCHANGED <<vars, posted, screens>>

PageNext ==
    \/ \E r \in Runs : Start(r) \/ ((Execute(r) \/ GraphStep(r)) /\ UNCHANGED page)
    \/ (Initialize \/ Shutdown \/ Stop \/ Kill \/ Rest) /\ UNCHANGED page
    \/ Look \/ (\E a \in screens : DecideFrom(a))

PageSpec ==
    /\ PageInit /\ [][PageNext]_<<vars, page>>
    /\ (\A r \in Runs : WF_vars(Execute(r))) /\ WF_vars(Stop)
-----------------------------------------------------------------------------
\* A decision is only ever made by somebody who was shown the output of a run that
\* passed verification, was written to its file and ended with run_completed, however
\* old the screen and even where the row was rewritten as failed since then.
DecisionGrounded ==
    \A r \in decided :
        /\ graph[r].outcome = "returned" /\ graph[r].file /\ ~graph[r].reported
        /\ "run_completed" \in trace[r]
=============================================================================
