--------------------------------- MODULE Slugs ---------------------------------
(***************************************************************************)
(* Agent slugs and token bindings.  A binding names one slug, or with the  *)
(* suffix `-*' a family: its base and every `<base>-<name>'.  The server   *)
(* decides membership twice, in Rust (slug_matches) for what a token may   *)
(* write and get, and in SQL (party_clause) for what its lists contain.    *)
(*                                                                         *)
(* A slug is the sequence of its characters.                               *)
(***************************************************************************)
EXTENDS Naturals, Sequences

CONSTANTS
  Chars,       \* the characters of slugs and bindings
  Lowercase,   \* to_ascii_lowercase, and LOWER on ASCII text
  MaxSlug      \* the longest agent name

Dash == "-"
Star == "*"

ASSUME SlugAssumption ==
  /\ {Dash, Star} \subseteq Chars
  /\ Lowercase \in [Chars -> Chars]
  /\ \A c \in Chars : Lowercase[c] = Dash <=> c = Dash
  /\ MaxSlug \in Nat

-------------------------------------------------------------------------------
Fold(s) == [i \in 1 .. Len(s) |-> Lowercase[s[i]]]

SameSlug(s, t) == Fold(s) = Fold(t)

StartsWith(s, prefix) == Len(prefix) <= Len(s) /\ SubSeq(s, 1, Len(prefix)) = prefix

(* strip_suffix("-*"), and LEFT(binding, -2). *)
IsFamily(b) == Len(b) >= 2 /\ b[Len(b) - 1] = Dash /\ b[Len(b)] = Star
Base(b) == SubSeq(b, 1, Len(b) - 2)

(***************************************************************************)
(* validate_agent_name: no slug contains the star of a family.             *)
(***************************************************************************)
ValidSlug(s) == Len(s) \in 1 .. MaxSlug /\ \A i \in 1 .. Len(s) : s[i] # Star

(* What parse_agent_tokens lets through. *)
ValidBinding(b) == ValidSlug(IF IsFamily(b) THEN Base(b) ELSE b)

(* auth::slug_matches *)
SlugMatches(b, s) ==
  IF IsFamily(b)
  THEN LET base == Fold(Base(b))
       IN \/ Fold(s) = base
          \/ /\ Len(s) > Len(base) + 1
             /\ StartsWith(Fold(s), base)
             /\ Fold(s)[Len(base) + 1] = Dash
  ELSE SameSlug(b, s)

FaultyPartyMatches(b, s) ==
  \/ SameSlug(s, b)
  \/ IsFamily(b) /\ StartsWith(Fold(s), Fold(SubSeq(b, 1, Len(b) - 2)))

(***************************************************************************)
(* repo::party_clause, for one column: LEFT(b, -1) keeps the dash.         *)
(***************************************************************************)
PartyMatches(b, s) ==
  \/ SameSlug(s, b)
  \/ /\ IsFamily(b)
     /\ \/ SameSlug(s, Base(b))
        \/ /\ Len(s) > Len(b) - 1
           /\ StartsWith(Fold(s), Fold(SubSeq(b, 1, Len(b) - 1)))

-------------------------------------------------------------------------------
(***************************************************************************)
(* What docs/agent-tokens.md promises of a binding.                        *)
(***************************************************************************)
Member(b, s) ==
  \/ SameSlug(b, s)
  \/ /\ IsFamily(b)
     /\ \/ SameSlug(Base(b), s)
        \/ \E n \in 1 .. Len(s) - 1 :
             SameSlug(SubSeq(s, 1, n), SubSeq(b, 1, Len(b) - 1))
===============================================================================
