----------------------------- MODULE MCAgentSetup -----------------------------
(* TLC instance of AgentSetup: agents, channels, calls and reads are       *)
(* interchangeable.                                                        *)
EXTENDS AgentSetup, TLC

SetupSymmetry ==
  UNION {Permutations(Agents), Permutations(Channels), Permutations(Calls),
         Permutations(Readers)}
=============================================================================
