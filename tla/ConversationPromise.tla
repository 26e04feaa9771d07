------------------------- MODULE ConversationPromise -------------------------
(***************************************************************************)
(* What a customer is promised, without sessions, jobs or lookups: what    *)
(* becomes of an input once somebody is at work on it.  It is answered     *)
(* with what is recorded already, and once; it is left to a human for a    *)
(* reason the customer or the operator gave, or because two workers        *)
(* introduced the customer at the same time; or it is on record that there *)
(* was nothing to say; or a failure took it, and each failure is counted.  *)
(* Nothing recorded or excused is taken back.                              *)
(***************************************************************************)
EXTENDS Naturals

CONSTANTS Messages, Keywords, Decisions, Workers

VARIABLES
  path,      \* "direct", "queue" or "inline"
  met,       \* the customer is known
  paused,    \* the operator has taken a session over
  known,     \* inputs that are not taken a second time
  work,      \* [input, stage] of each worker
  recorded, told, excused, faults

vars == <<path, met, paused, known, work, recorded, told, excused, faults>>

Nobody      == [input |-> "none", stage |-> "free"]
At(w, s)    == work[w].stage = s
InputOf(w)  == work[w].input
Move(w, s)  == work' = [work EXCEPT ![w].stage = s]
Free(w)     == work' = [work EXCEPT ![w] = Nobody]
InChatwoot(w) == path # "direct" /\ InputOf(w) \in Messages

Init ==
  /\ path \in {"direct", "queue", "inline"}
  /\ met = FALSE /\ paused = FALSE
  /\ known = {} /\ recorded = {} /\ excused = {} /\ faults = 0
  /\ work = [w \in Workers |-> Nobody]
  /\ told = [i \in Messages \cup Decisions |-> 0]

(* A direct channel takes a message once, and a decision is taken once     *)
(* everywhere; Chatwoot takes each delivery.                               *)
Once(i) == path = "direct" \/ i \in Decisions
FirstStages(i) ==
  {"owes"} \cup (IF path = "inline" /\ i \in Keywords THEN {"human"} ELSE {})
Take(w, i) ==
  /\ At(w, "free") /\ i \notin known
  /\ known' = IF Once(i) THEN known \cup {i} ELSE known
  /\ \E s \in FirstStages(i) :
       work' = [work EXCEPT ![w] = [input |-> i, stage |-> s]]
  /\ UNCHANGED <<path, met, paused, recorded, told, excused, faults>>

(* A stranger is introduced; two workers may set out to do it.             *)
FindStranger(w) ==
  /\ At(w, "owes") /\ ~met /\ path = "direct"
  /\ Move(w, "greets")
  /\ UNCHANGED <<path, met, paused, known, recorded, told, excused, faults>>

Greet(w) ==
  /\ At(w, "greets") /\ Move(w, "owes")
  /\ met' = TRUE
  /\ UNCHANGED <<path, paused, known, recorded, told, excused, faults>>

(* Left to a human, or lost because another worker was first to introduce  *)
(* the customer.                                                           *)
Excuse(w) ==
  /\ \/ At(w, "greets") /\ met
     \/ At(w, "owes") /\ paused
     \/ At(w, "human")
  /\ Free(w) /\ excused' = excused \cup {InputOf(w)}
  /\ UNCHANGED <<path, met, paused, known, recorded, told, faults>>

AskForHuman(w) ==
  /\ At(w, "owes") /\ InChatwoot(w) /\ InputOf(w) \in Keywords
  /\ Move(w, "human")
  /\ UNCHANGED <<path, met, paused, known, recorded, told, excused, faults>>

Save(w) ==
  /\ At(w, "owes")
  /\ recorded' = recorded \cup {InputOf(w)}
  /\ IF path # "direct" /\ InputOf(w) \notin Messages THEN Free(w)
     ELSE Move(w, "saved") \/ (InChatwoot(w) /\ Move(w, "human"))
  /\ UNCHANGED <<path, met, paused, known, told, excused, faults>>

(* Recorded, and nothing to say.                                           *)
SayNothing(w) ==
  /\ At(w, "owes") /\ Free(w)
  /\ recorded' = recorded \cup {InputOf(w)}
  /\ excused' = excused \cup {InputOf(w)}
  /\ UNCHANGED <<path, met, paused, known, told, faults>>

Tell(w)  == told' = [told EXCEPT ![InputOf(w)] = @ + 1]
Leave(w) == Free(w) \/ (InChatwoot(w) /\ Move(w, "human"))
Answer(w) ==
  /\ At(w, "saved") /\ Tell(w) /\ Leave(w)
  /\ UNCHANGED <<path, met, paused, known, recorded, excused, faults>>

(* The sessions of the customer are the operator's to pause and resume.    *)
Operate ==
  /\ paused' \in BOOLEAN
  /\ UNCHANGED <<path, met, known, work, recorded, told, excused, faults>>

-----------------------------------------------------------------------------
(* Each failure is counted, and costs or repeats at most one answer of a   *)
(* worker; a job of the queue may be owed again.                           *)

Fault == faults' = faults + 1 /\ UNCHANGED <<path, met, paused, recorded,
                                             excused>>
Remains(w) ==
  {Nobody} \cup
  (IF path = "queue" /\ InputOf(w) \in Messages
   THEN {[input |-> InputOf(w), stage |-> "owes"]} ELSE {})

Fail(w) ==
  /\ Fault /\ ~At(w, "free")
  /\ \E r \in Remains(w) : work' = [work EXCEPT ![w] = r]
  /\ UNCHANGED <<known, told>>

(* Nobody knows whether an answer that failed has arrived; a direct        *)
(* channel may send it again.                                              *)
FailToAnswer(w) ==
  /\ Fault /\ At(w, "saved")
  /\ Tell(w) \/ UNCHANGED told
  /\ Leave(w) \/ (~InChatwoot(w) /\ UNCHANGED work)
  /\ UNCHANGED known

Crash ==
  /\ Fault /\ known' = known \cap Decisions
  /\ work' \in [Workers -> UNION {Remains(w) : w \in Workers}]
  /\ \A w \in Workers : work'[w] \in Remains(w)
  /\ UNCHANGED told

Forget ==
  /\ Fault
  /\ \E lost \in SUBSET (known \cap Messages) : known' = known \ lost
  /\ UNCHANGED <<work, told>>

Next ==
  \/ \E w \in Workers :
       \/ \E i \in Messages \cup Decisions : Take(w, i)
       \/ FindStranger(w) \/ Greet(w) \/ Excuse(w) \/ AskForHuman(w)
       \/ Save(w) \/ SayNothing(w) \/ Answer(w)
       \/ Fail(w) \/ FailToAnswer(w)
  \/ Operate \/ Crash \/ Forget

Spec == Init /\ [][Next]_vars
=============================================================================
