--------------------------- MODULE MCResearchProbe ---------------------------
(* TLC instance of ResearchProbe.  Session numbers are their order of      *)
(* creation, so nothing is interchangeable and there is no symmetry set.   *)
EXTENDS ResearchProbe
=============================================================================
