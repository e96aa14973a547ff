----------------------------- MODULE Admission ------------------------------
(***************************************************************************)
(* admission.rs: the counter of requests submitted but not finished.  The  *)
(* compare-exchange loop of try_admit takes effect at its successful       *)
(* exchange, so admission is one step.  A Permit travels inside its        *)
(* request and gives the slot back when the request is dropped.            *)
(***************************************************************************)
EXTENDS Integers

CONSTANT MaxOutstanding     \* DEFAULT_MAX_OUTSTANDING

ASSUME AdmissionAssumption == MaxOutstanding \in Nat \ {0}

VARIABLE outstanding

AdmissionInit == outstanding = 0

TryAdmit ==
    /\ outstanding < MaxOutstanding
    /\ outstanding' = outstanding + 1

\* n permits dropped together.
Release(n) == outstanding' = outstanding - n
=============================================================================
