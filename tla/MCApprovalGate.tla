--------------------------- MODULE MCApprovalGate ---------------------------
(* TLC instance of ApprovalGate with two calls.  A liveness property is    *)
(* checked with the invariants, so the calls are not declared symmetric:   *)
(* as they are interchangeable, it is enough to begin with those pairs of  *)
(* requests that are in order.  A view has no decision.  One of the calls  *)
(* approves and the other does not: what two who agree write is the same,  *)
(* and what others write, the timeout writes too.  The liveness property   *)
(* needs only the fairness of the timeouts.                                *)
EXTENDS ApprovalGate

CONSTANTS c1, c2

RankOfKind ==
  [rest |-> 0, checked |-> 2, telegram |-> 4, dashboard |-> 6, view |-> 8]
Rank(q) == RankOfKind[q.kind] + IF q.decision = "denied" THEN 1 ELSE 0

MCInit ==
  /\ Init
  /\ Rank(request[c1]) <= Rank(request[c2])
  /\ \A c \in Calls : request[c].kind = "view" => request[c].decision = "denied"
  /\ {request[c].decision : c \in Calls} = {"approved", "denied"}

MCSpec == MCInit /\ [][Next]_vars /\ TimeoutFairness
=============================================================================
