-------------------------- MODULE MC_WorkerSystem --------------------------
(***************************************************************************)
(* WorkerSystem for TLC: limits scaled down so that both are reached.      *)
(***************************************************************************)
EXTENDS WorkerSystem

\* OneRestartOwed says nothing of a torn state, and no torn state leads back to
\* one that is not: the run with two workers need not go beyond the first.
Tidy == ~torn
=============================================================================
