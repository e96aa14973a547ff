--------------------------- MODULE RequestService ---------------------------
(***************************************************************************)
(* What an AsyncClient promises about the life of its requests, with no    *)
(* ring, no pending queue and no flags: a bounded number of requests wait, *)
(* one at a time is served, in the order of submission, and a request that *)
(* waits may be retired unserved (a cancel, a refusal, a shutdown).        *)
(***************************************************************************)
EXTENDS Integers, FiniteSets

CONSTANTS MaxTickets, MaxOutstanding

VARIABLE life

Requests == 0 .. MaxTickets - 1
In(state) == {t \in Requests : life[t] = state}

Init == life = [t \in Requests |-> "absent"]

\* A request is accepted while fewer than the bound are unfinished.
Arrive(t) ==
    /\ life[t] = "absent"
    /\ \A u \in Requests : u < t => life[u] # "absent"
    /\ Cardinality(In("waiting") \cup In("serving")) < MaxOutstanding
    /\ life' = [life EXCEPT ![t] = "waiting"]

\* The oldest waiting request is served when nothing else is.
Begin(t) ==
    /\ life[t] = "waiting"
    /\ In("serving") = {}
    /\ \A u \in In("waiting") : t <= u
    /\ life' = [life EXCEPT ![t] = "serving"]

End(t) ==
    /\ life[t] = "serving"
    /\ life' = [life EXCEPT ![t] = "over"]

Retire(S) ==
    /\ S # {}
    /\ life' = [t \in Requests |-> IF t \in S THEN "over" ELSE life[t]]

Next ==
    \/ \E t \in Requests : Arrive(t) \/ Begin(t) \/ End(t)
    \/ \E S \in SUBSET In("waiting") : Retire(S)

Spec == Init /\ [][Next]_life
=============================================================================
