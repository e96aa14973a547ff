----------------------------- MODULE MCBudgets ------------------------------
(***************************************************************************)
(* The requests of the instance: one buffer, and a head and a body of      *)
(* their own.                                                              *)
(***************************************************************************)
EXTENDS Budgets

MCRequests == {<<2>>, <<1, 1>>}
=============================================================================
