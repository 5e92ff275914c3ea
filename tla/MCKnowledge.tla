------------------------------ MODULE MCKnowledge ------------------------------
(* Small instances of Knowledge for TLC. *)
EXTENDS Knowledge, TLC

CONSTANTS
  main,   \* the main bearer: bound to nobody
  shut,   \* a token of x with exclude_client_data
  x, y

MCBoundTo == [t \in Tokens |-> IF t = main THEN {} ELSE {x}]

(* The nearest texts are the same text. *)
MCSimilar == [t \in Texts |-> {t}]

(* Ids, calls, texts and clients are only ever compared with one another. *)
Interchangeable == Permutations(Ids) \cup Permutations(Calls)
                     \cup Permutations(Texts) \cup Permutations(Clients)
===============================================================================
