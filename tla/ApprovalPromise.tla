--------------------------- MODULE ApprovalPromise ---------------------------
(***************************************************************************)
(* What the approval gate promises the rest of the system, without rows,   *)
(* timers or handlers: an approval is asked for once; it gathers outcomes, *)
(* and what it has been is never taken back; a call resumes the agent at   *)
(* most once, only on an approval that has an outcome or is past its       *)
(* expiry, and, when the call came through a REST route, only with a       *)
(* decision the approval has had.                                          *)
(* It does not promise a single outcome: calls that overlap may each write *)
(* theirs.                                                                 *)
(***************************************************************************)
CONSTANTS Approvals, Calls

VARIABLES
  asked,     \* approvals that have been requested
  lapsed,    \* approvals past their expiry
  outcomes,  \* the outcomes each approval has had
  resumed,   \* calls that resumed the agent
  request    \* what each call asks

vars == <<asked, lapsed, outcomes, resumed, request>>

Outcomes == {"approved", "denied", "expired"}
Routes   == {"rest", "checked"}

Init ==
  /\ asked = {} /\ lapsed = {}
  /\ outcomes = [a \in Approvals |-> {}]
  /\ resumed = {}
  /\ request \in [Calls -> [kind : Routes \cup
                                      {"telegram", "dashboard", "view"},
                            approval : Approvals,
                            decision : {"approved", "denied"}]]

Ask(a) ==
  /\ a \notin asked
  /\ asked' = asked \cup {a}
  /\ UNCHANGED <<lapsed, outcomes, resumed, request>>

Lapse(a) ==
  /\ a \in asked
  /\ lapsed' = lapsed \cup {a}
  /\ UNCHANGED <<asked, outcomes, resumed, request>>

Settle(a, o) ==
  /\ a \in asked
  /\ outcomes' = [outcomes EXCEPT ![a] = @ \cup {o}]
  /\ UNCHANGED <<asked, lapsed, resumed, request>>

Resume(c) ==
  LET r == request[c] IN
  /\ c \notin resumed
  /\ outcomes[r.approval] # {} \/ r.approval \in lapsed
  /\ r.kind \in Routes => r.decision \in outcomes[r.approval]
  /\ resumed' = resumed \cup {c}
  /\ UNCHANGED <<asked, lapsed, outcomes, request>>

Next ==
  \/ \E a \in Approvals : Ask(a) \/ Lapse(a) \/ \E o \in Outcomes : Settle(a, o)
  \/ \E c \in Calls : Resume(c)

Spec == Init /\ [][Next]_vars
=============================================================================
