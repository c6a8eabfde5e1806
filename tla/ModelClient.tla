---------------------------- MODULE ModelClient ----------------------------
(***************************************************************************)
(* The calls of the two model clients.  Those of the case workflow         *)
(* (src/src/llm/openrouter_client.py) share the slots of a semaphore,      *)
(* repeat a request after a transient error, and ask once for the repair   *)
(* of an answer that is not what the schema says.  Those of the studies    *)
(* (experiments/pvoc_v0/core/llm.py) repeat the same request for both.     *)
(***************************************************************************)
EXTENDS Integers, FiniteSets

CONSTANTS
    Calls,
    Studies,   \* the calls of the studies' client
    Slots,     \* max_concurrent_llm_calls
    Attempts   \* llm_max_retries + 1, or max_attempts

ASSUME ClientAssumption ==
    /\ IsFiniteSet(Calls) /\ Studies \subseteq Calls
    /\ Slots \in Nat \ {0} /\ Attempts \in Nat \ {0}

VARIABLES
    place,    \* what the call does, or how it ended
    part,     \* "first" request or "second", the repair
    attempt,  \* the attempts at this request
    failure,  \* what went wrong last
    free      \* the value of the semaphore

clientVars == <<place, part, attempt, failure, free>>
-----------------------------------------------------------------------------
ClientInit ==
    /\ place = [c \in Calls |-> "ready"] /\ part = [c \in Calls |-> "first"]
    /\ attempt = [c \in Calls |-> 0] /\ failure = [c \in Calls |-> "none"]
    /\ free = Slots

Go(c, where) == place' = [place EXCEPT ![c] = where]

\* An attempt begins, with a slot if it needs one.
Send(c) ==
    /\ place[c] = "ready" /\ (c \in Studies \/ free > 0)
    /\ Go(c, "sent") /\ attempt' = [attempt EXCEPT ![c] = @ + 1]
    /\ free' = IF c \in Studies THEN free ELSE free - 1
    /\ UNCHANGED <<part, failure>>

Release(c) == free' = IF c \in Studies THEN free ELSE free + 1

\* An answer that the schema accepts.
Accept(c) ==
    /\ place[c] = "sent" /\ Go(c, "value") /\ Release(c)
    /\ UNCHANGED <<part, attempt, failure>>

Fails(c, why) == failure' = [failure EXCEPT ![c] = why]

\* Mutant of Again: one attempt too few.
AgainEarly(c, error) ==
    Go(c, IF attempt[c] + 1 < Attempts THEN "backoff" ELSE error)

\* Wait for the next attempt, if there is one.
Again(c, error) == Go(c, IF attempt[c] < Attempts THEN "backoff" ELSE error)

\* An answer that the schema does not accept: the studies' client repeats the
\* request; the other one asks for a repair, once.
Refuse(c) ==
    /\ place[c] = "sent" /\ Fails(c, "invalid") /\ Release(c)
    /\ IF c \in Studies
       THEN Again(c, "request_error") /\ UNCHANGED <<part, attempt>>
       ELSE IF part[c] = "first"
       THEN /\ Go(c, "ready") /\ part' = [part EXCEPT ![c] = "second"]
            /\ attempt' = [attempt EXCEPT ![c] = 0]
       ELSE Go(c, "output_error") /\ UNCHANGED <<part, attempt>>

\* An empty answer: a failure at once in the workflow, whatever part it is.
Empty(c) ==
    /\ place[c] = "sent" /\ Fails(c, "empty") /\ Release(c)
    /\ IF c \in Studies THEN Again(c, "request_error") ELSE Go(c, "output_error")
    /\ UNCHANGED <<part, attempt>>

\* Mutant of Lose: the slot of a failed attempt is not given back.
LoseSlot(c) ==
    /\ place[c] = "sent" /\ Fails(c, "transient")
    /\ Again(c, "request_error")
    /\ UNCHANGED <<part, attempt, free>>

\* Connection, rate limit, server error or timeout.
Lose(c) ==
    /\ place[c] = "sent" /\ Fails(c, "transient") /\ Release(c)
    /\ Again(c, "request_error")
    /\ UNCHANGED <<part, attempt>>

\* Any other exception.
Abort(c) ==
    /\ place[c] = "sent" /\ Fails(c, "permanent") /\ Release(c)
    /\ Go(c, "request_error")
    /\ UNCHANGED <<part, attempt>>

Wake(c) ==
    /\ place[c] = "backoff" /\ Go(c, "ready")
    /\ UNCHANGED <<part, attempt, failure, free>>

\* Mutant of CancelCall: nobody gives the slot back.
CancelHolding(c) ==
    /\ place[c] \in {"ready", "sent", "backoff"} /\ Go(c, "cancelled")
    /\ UNCHANGED <<part, attempt, failure, free>>

\* The case is cancelled, wherever its call is.
CancelCall(c) ==
    /\ place[c] \in {"ready", "sent", "backoff"} /\ Go(c, "cancelled")
    /\ IF place[c] = "sent" THEN Release(c) ELSE UNCHANGED free
    /\ UNCHANGED <<part, attempt, failure>>

Ends == {"value", "request_error", "output_error", "cancelled"}
AllEnded == (\A c \in Calls : place[c] \in Ends) /\ UNCHANGED clientVars

CallStep(c) == Send(c) \/ Accept(c) \/ Refuse(c) \/ Empty(c) \/ Lose(c) \/ Abort(c) \/ Wake(c)

ClientNext == (\E c \in Calls : CallStep(c) \/ CancelCall(c)) \/ AllEnded

ClientSpec == ClientInit /\ [][ClientNext]_clientVars

\* An attempt is answered or times out, a wait is over, a waiting call gets the slot
\* that becomes free.
ClientFairSpec == ClientSpec /\ \A c \in Calls : WF_clientVars(CallStep(c))
-----------------------------------------------------------------------------
Holders == {c \in Calls \ Studies : place[c] = "sent"}

\* The kinds of the variables.  A slot is free or held by a request that was sent: a
\* call that waits, repairs, ends or is cancelled holds none.
ClientTypeOK ==
    /\ place \in [Calls -> {"ready", "sent", "backoff"} \cup Ends]
    /\ part \in [Calls -> {"first", "second"}]
    /\ attempt \in [Calls -> 0..Attempts]
    /\ failure \in [Calls -> {"none", "invalid", "empty", "transient", "permanent"}]
    /\ free \in 0..Slots /\ free + Cardinality(Holders) = Slots

\* No call gives up early: after a transient error it has made all its attempts at the
\* request, and an invalid answer is an error only after a repair, or for the
\* studies after all attempts.
FailsForCause ==
    \A c \in Calls : place[c] \in {"request_error", "output_error"} =>
        \/ failure[c] = "permanent"
        \/ failure[c] = "empty" /\ c \notin Studies
        \/ failure[c] = "invalid" /\ part[c] = "second"
        \/ failure[c] \in {"transient", "invalid", "empty"} /\ attempt[c] = Attempts

\* Every call ends, with attempts and repairs of all of them on the same slots.
CallsEnd == \A c \in Calls : <>(place[c] \in Ends)
=============================================================================
