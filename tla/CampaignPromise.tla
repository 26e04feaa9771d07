--------------------------- MODULE CampaignPromise ---------------------------
(***************************************************************************)
(* What campaigns promise, without batches, stale requests and the checks  *)
(* of the tracker: an execution serves one campaign that was active, for   *)
(* one audience, row by row; a send is there before the message goes out;  *)
(* for a row it goes out once, and again only after an attempt that was    *)
(* taken for a failure, of which there are MaxTries at most; the send says *)
(* it went out only if it did; it is delivered or replied to only then,    *)
(* and has one reply at most; a campaign is completed only by an execution *)
(* that has been through its audience; and once an execution is over it    *)
(* says nothing more.                                                      *)
(* It is not promised that a contact has one row in an audience, nor that  *)
(* it is spared the second row's message or another execution's, that a    *)
(* stop is heeded at once, that a send marked as unsubscribed had gone     *)
(* out, nor that what the operator marked on a send stays: its own outcome *)
(* is still to be written.                                                 *)
(***************************************************************************)
EXTENDS Naturals

CONSTANTS
  Campaigns, Contacts,
  Rows,         \* positions in an audience
  Unreachable,  \* contacts without an identifier on the channel
  Runs,         \* executions
  Messages,     \* the contacts' messages
  MaxTries      \* attempts to send a message

VARIABLES
  status,    \* of each campaign
  serves,    \* the campaign of an execution
  audience,  \* the contact of each row, or "none"
  left,      \* rows of the audience still to come
  hand,      \* the row in hand, or "none"
  missed,    \* failed attempts for the row in hand, and
  copies,    \* how often its message went out
  stage,     \* "idle", "begun", "open": the audience is known, "over"
  send,      \* the sends of an execution, one per row
  reply, optedOut,
  messaged   \* rows whose message went out

people == <<audience, left>>
trials == <<missed, copies>>
place  == <<serves, people, hand, trials, stage>>
books  == <<send, reply, optedOut, messaged>>
vars   == <<status, place, books>>

Init ==
  /\ status \in [Campaigns -> {"draft", "active"}]
  /\ serves = [r \in Runs |-> "none"]
  /\ audience = [r \in Runs |-> [w \in Rows |-> "none"]]
  /\ left = [r \in Runs |-> {}]
  /\ hand = [r \in Runs |-> "none"]
  /\ missed = [r \in Runs |-> 0] /\ copies = [r \in Runs |-> 0]
  /\ stage = [r \in Runs |-> "idle"]
  /\ send = [r \in Runs |-> [w \in Rows |-> "absent"]]
  /\ reply = [r \in Runs |-> [w \in Rows |-> "none"]]
  /\ optedOut = {}
  /\ messaged = [r \in Runs |-> {}]

Pass(r, g)     == stage' = [stage EXCEPT ![r] = g]
Write(r, w, s) == send' = [send EXCEPT ![r][w] = s]
Noted(r, w)    == send[r][w] # "absent"
Told(r, w)     == w \in messaged[r]

Operate(k) ==
  /\ \E s \in {"draft", "active", "paused", "cancelled"} :
       status' = [status EXCEPT ![k] = s]
  /\ UNCHANGED <<place, books>>

-----------------------------------------------------------------------------
(* An execution.                                                           *)

Begin(r) ==
  /\ stage[r] = "idle" /\ Pass(r, "begun")
  /\ \E k \in Campaigns : /\ status[k] = "active"
                          /\ serves' = [serves EXCEPT ![r] = k]
  /\ UNCHANGED <<status, people, hand, trials, books>>

Resolve(r) ==
  /\ stage[r] = "begun" /\ Pass(r, "open")
  /\ \E a \in [Rows -> Contacts \cup {"none"}] :
       /\ audience' = [audience EXCEPT ![r] = a]
       /\ left' = [left EXCEPT ![r] = {w \in Rows : a[w] # "none"}]
  /\ UNCHANGED <<status, serves, hand, trials, books>>

Choose(r) ==
  /\ stage[r] = "open" /\ hand[r] = "none"
  /\ \E w \in left[r] :
       /\ left' = [left EXCEPT ![r] = @ \ {w}]
       /\ hand' = [hand EXCEPT ![r] =
                     IF audience[r][w] \in Unreachable THEN "none" ELSE w]
  /\ UNCHANGED <<status, serves, audience, trials, stage, books>>

Note(r) ==
  /\ hand[r] # "none" /\ ~Noted(r, hand[r])
  /\ Write(r, hand[r], "queued")
  /\ UNCHANGED <<status, place, reply, optedOut, messaged>>

(* An attempt is under way when those before it have failed.               *)
Trying(r) == /\ hand[r] # "none" /\ Noted(r, hand[r])
             /\ missed[r] < MaxTries /\ copies[r] <= missed[r]
GoesOut(r) == /\ messaged' = [messaged EXCEPT ![r] = @ \cup {hand[r]}]
              /\ copies' = [copies EXCEPT ![r] = @ + 1]

Tell(r) ==
  /\ Trying(r) /\ GoesOut(r)
  /\ UNCHANGED <<status, serves, people, hand, missed, stage, send, reply,
                 optedOut>>

(* What was taken for a failure may have reached the contact.              *)
Miss(r) ==
  /\ Trying(r) /\ (GoesOut(r) \/ UNCHANGED <<messaged, copies>>)
  /\ missed' = [missed EXCEPT ![r] = @ + 1]
  /\ UNCHANGED <<status, serves, people, hand, stage, send, reply, optedOut>>

(* A message that went out may still be taken for one that did not.        *)
Settle(r) ==
  /\ hand[r] # "none" /\ Noted(r, hand[r])
  /\ \/ Told(r, hand[r]) /\ Write(r, hand[r], "sent")
     \/ Write(r, hand[r], "failed")
  /\ hand' = [hand EXCEPT ![r] = "none"]
  /\ missed' = [missed EXCEPT ![r] = 0] /\ copies' = [copies EXCEPT ![r] = 0]
  /\ UNCHANGED <<status, serves, people, stage, reply, optedOut, messaged>>

Complete(r) ==
  /\ stage[r] = "open" /\ hand[r] = "none" /\ left[r] = {}
  /\ status' = [status EXCEPT ![serves[r]] = "completed"]
  /\ Pass(r, "over")
  /\ UNCHANGED <<serves, people, hand, trials, books>>

(* Executions are stopped, fail or fall to a crash.                        *)
Leave ==
  /\ \E gone \in SUBSET {r \in Runs : stage[r] \in {"begun", "open"}} :
       /\ stage' = [r \in Runs |-> IF r \in gone THEN "over" ELSE stage[r]]
       /\ hand' = [r \in Runs |-> IF r \in gone THEN "none" ELSE hand[r]]
       /\ missed' = [r \in Runs |-> IF r \in gone THEN 0 ELSE missed[r]]
       /\ copies' = [r \in Runs |-> IF r \in gone THEN 0 ELSE copies[r]]
  /\ UNCHANGED <<status, serves, people, books>>

-----------------------------------------------------------------------------
(* What comes back.                                                        *)

Mark(r, w) ==
  /\ \/ Told(r, w) /\ Write(r, w, "delivered") /\ UNCHANGED optedOut
     \/ /\ Noted(r, w) /\ Write(r, w, "unsubscribed")
        /\ optedOut' = optedOut \cup {audience[r][w]}
  /\ UNCHANGED <<status, place, reply, messaged>>

Answer(r, w) ==
  /\ Told(r, w) /\ reply[r][w] = "none"
  /\ Write(r, w, "replied")
  /\ \E m \in Messages : reply' = [reply EXCEPT ![r][w] = m]
  /\ UNCHANGED <<status, place, optedOut, messaged>>

Next ==
  \/ \E k \in Campaigns : Operate(k)
  \/ \E r \in Runs :
       \/ Begin(r) \/ Resolve(r) \/ Choose(r) \/ Note(r) \/ Tell(r)
       \/ Miss(r) \/ Settle(r) \/ Complete(r)
       \/ \E w \in Rows : Mark(r, w) \/ Answer(r, w)
  \/ Leave

Spec == Init /\ [][Next]_vars
=============================================================================
