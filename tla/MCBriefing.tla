------------------------------ MODULE MCBriefing ------------------------------
(* Small instances of Briefing for TLC; the bus is instantiated as in MCHandoffBus. *)
EXTENDS MCHandoffBus, BriefingInv

(* The main bearer may name any agent, so agents are only compared too. *)
AlikeToABriefing == Permutations(Ids) \cup Permutations(Agents)
===============================================================================
