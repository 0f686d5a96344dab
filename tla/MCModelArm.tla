----------------------------- MODULE MCModelArm -----------------------------
(***************************************************************************)
(* A small instance of ModelArm for TLC: the sizes keep the proportions of *)
(* the code's budgets, with outputs that fit, fill and overrun them.       *)
(***************************************************************************)
EXTENDS ModelArm

=============================================================================
