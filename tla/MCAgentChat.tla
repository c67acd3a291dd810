------------------------------ MODULE MCAgentChat ------------------------------
(* Model checking of AgentChat: requests are interchangeable.                 *)
EXTENDS AgentChat, TLC

Symmetry == Permutations(Attempts) \cup Permutations(Questions)
===============================================================================
