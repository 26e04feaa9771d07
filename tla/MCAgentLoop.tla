---------------------------- MODULE MCAgentLoop ----------------------------
(* TLC instance of AgentLoop.  A liveness property is checked with the     *)
(* invariants, so the runs are not reduced by symmetry.                    *)
EXTENDS AgentLoop
=============================================================================
