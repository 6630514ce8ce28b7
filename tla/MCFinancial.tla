---------------------------- MODULE MCFinancial ----------------------------
(* Financial for TLC: payments are interchangeable.                         *)
EXTENDS Financial, TLC

Interchangeable == Permutations(Payments)
=============================================================================
