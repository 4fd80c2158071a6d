----------------------------- MODULE MCWakeRouter -----------------------------
(* WakeRouter with the constants given by the .cfg files. *)
EXTENDS WakeRouter, TLC

(* Messages: without mentions, to all agents, and an agent to itself.      *)
MCTexts ==
  {[to |-> {}, from |-> NoAgent], [to |-> Agents, from |-> NoAgent]} \cup
  {[to |-> {a}, from |-> a] : a \in Agents}

AgentSymmetry == Permutations(Agents)
=============================================================================
