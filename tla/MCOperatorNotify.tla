--------------------------- MODULE MCOperatorNotify ---------------------------
(* Small instances of OperatorNotify for TLC. *)
EXTENDS OperatorNotify, TLC

(* Items and runs are only ever compared with one another. *)
Interchangeable == Permutations(Items) \cup Permutations(Runs)
===============================================================================
