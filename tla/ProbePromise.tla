---------------------------- MODULE ProbePromise ----------------------------
(***************************************************************************)
(* What a research probe promises of its conversations, without statuses   *)
(* of jobs, buffers, channels and webhook calls: the script is gone        *)
(* through turn by turn; a turn is answered or timed out once, while it is *)
(* the one under way, and is over only when it was sent and has one of the *)
(* two; what was said, heard and passed is never taken back.  The          *)
(* conversation is completed and analysed at the end of the script alone,  *)
(* fails for a reason on record, and is given up for a reason; once its    *)
(* run is over nothing more is said in it.                                 *)
(* It is not promised that an outcome stays: whoever read the status       *)
(* earlier may still write over it, the operator or the run itself.        *)
(***************************************************************************)
EXTENDS Naturals

CONSTANTS
  Sessions,
  N          \* turns of the script

VARIABLES
  outcome,   \* "absent", "open", "completed", "failed" or "aborted"
  why,       \* the reason on record
  turn,      \* turns passed
  sent,      \* how often each turn's message went out
  said,      \* turns whose message is on record
  heard,     \* for each turn, and what comes after the last: what came
  stage,     \* "open", "spoke": sent but not on record, "over"
  analysed, optedOut, faults

script == <<turn, sent, said, heard>>
vars   == <<outcome, why, script, stage, analysed, optedOut, faults>>

Init ==
  /\ outcome = [s \in Sessions |-> "absent"]
  /\ why = [s \in Sessions |-> "none"]
  /\ turn = [s \in Sessions |-> 0]
  /\ sent = [s \in Sessions |-> [i \in 1..N |-> 0]]
  /\ said = [s \in Sessions |-> {}]
  /\ heard = [s \in Sessions |-> [i \in 1..N+1 |-> "none"]]
  /\ stage = [s \in Sessions |-> "open"]
  /\ analysed = {} /\ optedOut = FALSE /\ faults = 0

Now(s)       == turn[s] + 1
UnderWay(s)  == stage[s] = "open" /\ turn[s] < N
Come(s)      == heard[s][Now(s)] # "none"
Become(s, o) == outcome' = [outcome EXCEPT ![s] = o]
Because(s, r) == why' = [why EXCEPT ![s] = r]
Pass(s, g)   == stage' = [stage EXCEPT ![s] = g]

Open(s) ==
  /\ outcome[s] = "absent" /\ Become(s, "open")
  /\ UNCHANGED <<why, script, stage, analysed, optedOut, faults>>

-----------------------------------------------------------------------------
(* The script.                                                             *)

Say(s) ==
  /\ UnderWay(s) /\ Now(s) \notin said[s]
  /\ sent' = [sent EXCEPT ![s][Now(s)] = @ + 1]
  /\ Pass(s, "spoke")
  /\ UNCHANGED <<outcome, why, turn, said, heard, analysed, optedOut, faults>>

(* A sending that fails is counted; the message may be out all the same.   *)
SayInVain(s) ==
  /\ UnderWay(s) /\ Now(s) \notin said[s]
  /\ sent' = [sent EXCEPT ![s][Now(s)] = @ + 1]
  /\ faults' = faults + 1
  /\ UNCHANGED <<outcome, why, turn, said, heard, stage, analysed, optedOut>>

Note(s) ==
  /\ stage[s] = "spoke" /\ Pass(s, "open")
  /\ said' = [said EXCEPT ![s] = @ \cup {Now(s)}]
  /\ UNCHANGED <<outcome, why, turn, sent, heard, analysed, optedOut, faults>>

(* An answer may come before its turn was said, and after the last; what   *)
(* the run waits for in vain is recorded as a timeout.                     *)
Hear(s) ==
  /\ outcome[s] # "absent" /\ ~Come(s)
  /\ heard' = [heard EXCEPT ![s][Now(s)] = "reply"]
  /\ UNCHANGED <<outcome, why, turn, sent, said, stage, analysed, optedOut,
                 faults>>

TimeUp(s) ==
  /\ UnderWay(s) /\ Now(s) \in said[s] /\ ~Come(s)
  /\ heard' = [heard EXCEPT ![s][Now(s)] = "timeout"]
  /\ UNCHANGED <<outcome, why, turn, sent, said, stage, analysed, optedOut,
                 faults>>

Advance(s) ==
  /\ UnderWay(s) /\ Now(s) \in said[s] /\ Come(s)
  /\ turn' = [turn EXCEPT ![s] = @ + 1]
  /\ UNCHANGED <<outcome, why, sent, said, heard, stage, analysed, optedOut,
                 faults>>

-----------------------------------------------------------------------------
(* Its ends.                                                               *)

Complete(s) ==
  /\ stage[s] = "open" /\ turn[s] = N /\ Become(s, "completed")
  /\ UNCHANGED <<why, script, stage, analysed, optedOut, faults>>

Analyse(s) ==
  /\ stage[s] = "open" /\ turn[s] = N /\ Pass(s, "over")
  /\ analysed' = analysed \cup {s}
  /\ UNCHANGED <<outcome, why, script, optedOut, faults>>

Fail(s) ==
  /\ stage[s] = "open" /\ Become(s, "failed") /\ Pass(s, "over")
  /\ \/ /\ UnderWay(s) /\ heard[s][Now(s)] = "timeout"
        /\ Because(s, "RESPONSE_TIMEOUT")
     \/ /\ UnderWay(s) /\ Now(s) \notin said[s]
        /\ \/ Because(s, "WAHA_UNREACHABLE")
           \/ Because(s, "WAHA_SESSION_NOT_WORKING")
     \/ Because(s, "SCRIPT_INVALID")
  /\ UNCHANGED <<script, analysed, optedOut, faults>>

(* The run leaves it: the session has ended, the target opted out, or a    *)
(* timeout's row finds another there.                                      *)
GiveUp(s) ==
  /\ stage[s] = "open" /\ Pass(s, "over")
  /\ \/ outcome[s] \in {"completed", "failed", "aborted"}
     \/ optedOut
     \/ UnderWay(s) /\ Come(s)
  /\ UNCHANGED <<outcome, why, script, analysed, optedOut, faults>>

Abort(s) ==
  /\ outcome[s] # "absent" /\ Become(s, "aborted")
  /\ \/ Because(s, "OPT_OUT_DETECTED") /\ optedOut' = TRUE
     \/ Because(s, "MANUAL_ABORT") /\ UNCHANGED optedOut
  /\ UNCHANGED <<script, stage, analysed, faults>>

(* A write that rests on an earlier look at the status.                    *)
Reopen(s) ==
  /\ outcome[s] # "absent" /\ Become(s, "open")
  /\ UNCHANGED <<why, script, stage, analysed, optedOut, faults>>

(* A failure, or a crash of all runs, is counted; it costs a run what it   *)
(* had not put on record, or all that was still to come.                   *)
Fault ==
  /\ faults' = faults + 1
  /\ \E ended \in SUBSET {s \in Sessions : stage[s] # "over"} :
     \E hit \in SUBSET {s \in Sessions : stage[s] = "spoke"} :
       stage' = [s \in Sessions |-> IF s \in ended THEN "over"
                                    ELSE IF s \in hit THEN "open"
                                    ELSE stage[s]]
  /\ UNCHANGED <<outcome, why, script, analysed, optedOut>>

(* A step that leaves the script alone is none of the first six: said      *)
(* once, it spares them the look.                                          *)
Next ==
  \/ /\ script' # script
     /\ \E s \in Sessions :
          \/ Say(s) \/ SayInVain(s) \/ Note(s) \/ Hear(s) \/ TimeUp(s)
          \/ Advance(s)
  \/ \E s \in Sessions :
       \/ Open(s) \/ Complete(s) \/ Analyse(s) \/ Fail(s) \/ GiveUp(s)
       \/ Abort(s) \/ Reopen(s)
  \/ Fault

Spec == Init /\ [][Next]_vars
=============================================================================
