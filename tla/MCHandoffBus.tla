----------------------------- MODULE MCHandoffBus -----------------------------
(* Small instances of HandoffBus for TLC. *)
EXTENDS HandoffBusInv, QueueView, TLC

CONSTANTS
  a1, a2,             \* agents
  main,               \* the main bearer: bound to nobody
  own,                \* a plain agent token of a1
  family,             \* a family token whose members are a1 and a2
  shut                \* a token of a1 with exclude_client_data

MCBoundTo == [t \in Tokens |-> CASE t = main -> {}
                                 [] t = family -> {a1, a2}
                                 [] OTHER -> {a1}]
MCFamilies == {family} \cap Tokens
MCRestricted == {shut} \cap Tokens

(* Ids, calls and commits are only ever compared with one another. *)
Interchangeable == Permutations(Ids) \cup Permutations(Calls) \cup Permutations(Commits)
===============================================================================
