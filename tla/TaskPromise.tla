---------------------------- MODULE TaskPromise ----------------------------
(***************************************************************************)
(* What the scheduler promises of a task, without polls, jobs, requests    *)
(* and snapshots: what an agent proposed begins no run, and is neither     *)
(* paused, resumed nor closed, before a human approved it; whoever makes a *)
(* task active gives it a time to run at; it is completed only when as     *)
(* many runs are over as it may have, and expired only past its expiry;    *)
(* its counter counts runs that are over, and an approval is not undone.   *)
(* It is not promised that an end is one: a request or a poll that looked  *)
(* earlier may write over it.  Nor is every run counted.                   *)
(***************************************************************************)
EXTENDS Naturals

CONSTANTS
  Tasks,
  MaxRuns       \* 0 stands for no limit

VARIABLES
  origin,       \* "static" or "agent_proposed"
  status,
  scheduled,    \* tasks with a time to run at
  approved, lapsed,
  creating,     \* created, and not yet given a first time
  unscheduled,  \* left so: the one way to be active without a time
  runCount,     \* the counter
  begun,        \* tasks that a run has begun for
  over          \* runs that are over

life == <<origin, status, approved, creating, unscheduled>>
runs == <<runCount, begun, over>>
vars == <<life, scheduled, lapsed, runs>>

Init ==
  /\ origin = [t \in Tasks |-> "static"]
  /\ status = [t \in Tasks |-> "absent"]
  /\ scheduled = {}
  /\ approved = [t \in Tasks |-> FALSE] /\ lapsed = [t \in Tasks |-> FALSE]
  /\ creating = {} /\ unscheduled = {}
  /\ runCount = [t \in Tasks |-> 0]
  /\ begun = {} /\ over = [t \in Tasks |-> 0]

(* What a human made or approved.                                          *)
Licensed(t) == /\ status[t] # "absent"
               /\ origin[t] = "static" \/ approved[t]
Proposed(t) == status[t] # "absent" /\ origin[t] = "agent_proposed"
Become(t, s) == status' = [status EXCEPT ![t] = s]
Plan(t)   == scheduled' = scheduled \cup {t}
Unplan(t) == scheduled' = scheduled \ {t}

-----------------------------------------------------------------------------
(* The life of a task.                                                     *)

Propose(t) ==
  /\ status[t] = "absent" /\ Become(t, "proposed")
  /\ origin' = [origin EXCEPT ![t] = "agent_proposed"]
  /\ UNCHANGED <<scheduled, approved, lapsed, creating, unscheduled, runs>>

Create(t) ==
  /\ status[t] = "absent" /\ Become(t, "active")
  /\ creating' = creating \cup {t}
  /\ UNCHANGED <<origin, scheduled, approved, lapsed, unscheduled, runs>>

SetUp(t) ==
  /\ t \in creating /\ creating' = creating \ {t}
  /\ Plan(t)
  /\ UNCHANGED <<origin, status, approved, lapsed, unscheduled, runs>>

GiveUp ==
  /\ \E lost \in SUBSET creating : /\ creating' = creating \ lost
                                    /\ unscheduled' = unscheduled \cup lost
  /\ UNCHANGED <<origin, status, scheduled, approved, lapsed, runs>>

Approve(t) ==
  /\ Proposed(t) /\ Become(t, "active") /\ Plan(t)
  /\ approved' = [approved EXCEPT ![t] = TRUE]
  /\ UNCHANGED <<origin, lapsed, creating, unscheduled, runs>>

Reject(t) ==
  /\ Proposed(t) /\ Become(t, "rejected")
  /\ UNCHANGED <<origin, scheduled, approved, lapsed, creating, unscheduled,
                 runs>>

Pause(t)  == Licensed(t) /\ Become(t, "paused") /\ Unplan(t)
Resume(t) == Licensed(t) /\ Become(t, "active") /\ Plan(t)
Close(t)  == /\ Licensed(t) /\ Unplan(t)
             /\ \/ /\ MaxRuns # 0 /\ over[t] >= MaxRuns
                   /\ Become(t, "completed")
                \/ lapsed[t] /\ Become(t, "expired")
Turn(t) ==
  /\ Pause(t) \/ Resume(t) \/ Close(t)
  /\ UNCHANGED <<origin, approved, lapsed, creating, unscheduled, runs>>

PassExpiry(t) ==
  /\ status[t] # "absent" /\ lapsed' = [lapsed EXCEPT ![t] = TRUE]
  /\ UNCHANGED <<life, scheduled, runs>>

(* The next time is written to a task whose run is on its way, whatever    *)
(* has become of it since.                                                 *)
PlanNext(t) ==
  /\ Licensed(t) /\ Plan(t)
  /\ UNCHANGED <<life, lapsed, runs>>

-----------------------------------------------------------------------------
(* Its runs.                                                               *)

Begin(t) ==
  /\ Licensed(t) /\ begun' = begun \cup {t}
  /\ UNCHANGED <<life, scheduled, lapsed, runCount, over>>

(* The counter may be left as it was, or be set back by a run that began   *)
(* before others were over; it never runs ahead.                           *)
Finish(t) ==
  /\ t \in begun /\ over' = [over EXCEPT ![t] = @ + 1]
  /\ \/ UNCHANGED runCount
     \/ \E n \in 1 .. over[t] + 1 : runCount' = [runCount EXCEPT ![t] = n]
  /\ UNCHANGED <<life, scheduled, lapsed, begun>>

Next ==
  \/ \E t \in Tasks :
       \/ Propose(t) \/ Create(t) \/ SetUp(t) \/ Approve(t) \/ Reject(t)
       \/ Turn(t) \/ PassExpiry(t) \/ PlanNext(t) \/ Begin(t) \/ Finish(t)
  \/ GiveUp

Spec == Init /\ [][Next]_vars
=============================================================================
