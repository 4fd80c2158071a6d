---------------------------- MODULE MCAgentBridge ----------------------------
(* AgentBridge with the constants given by the .cfg files. *)
EXTENDS AgentBridge, TLC

BridgeSymmetry == Permutations(Bridges)
WakeupSymmetry == Permutations(Wakeups)
=============================================================================
