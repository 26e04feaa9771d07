-------------------------- MODULE MCScheduledTasks --------------------------
(* TLC instance of ScheduledTasks: calls and polls are interchangeable in  *)
(* the safety run.                                                         *)
EXTENDS ScheduledTasks, TLC

TaskSymmetry == Permutations(Calls) \cup Permutations(Polls)
                  \cup Permutations(Jobs)
=============================================================================
