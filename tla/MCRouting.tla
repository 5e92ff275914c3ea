------------------------------- MODULE MCRouting -------------------------------
(* A small instance of Routing for TLC. *)
EXTENDS Routing, TLC

CONSTANT kin   \* a token of the family g-* that excludes client data

MCChars == {"g", "G", "b", "-", "*"}
MCLowercase == [c \in MCChars |-> IF c = "G" THEN "g" ELSE c]

(* A member of the family g-*, and a slug that only begins like one. *)
member == <<"g", "-", "b">>
lookalike == <<"g", "b">>
MCAgents == {member, lookalike}

MCBinding == [t \in Tokens |-> <<"G", "-", "*">>]
MCBoundTo == [t \in Tokens |-> {a \in Agents : SlugMatches(Binding[t], a)}]

(* Calls and ids are only ever compared with one another. *)
Interchangeable == Permutations(Ids) \cup Permutations(Calls)
===============================================================================
