---------------------------- MODULE MCEvaluation ----------------------------
(***************************************************************************)
(* A small instance of Evaluation for TLC: a bundle of each split; the     *)
(* rules and one language model, which answers, fails or is cut off.       *)
(***************************************************************************)
EXTENDS Evaluation

\* The first edit of models.json changes something that is no setting.
FirstEditKeeps(version) == IF version = 1 THEN 0 ELSE version

=============================================================================
