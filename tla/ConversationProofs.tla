------------------------- MODULE ConversationProofs -------------------------
(***************************************************************************)
(* What the handling of a customer's messages guarantees for any number of *)
(* handlers, messages, attempts, sessions, failures and crashes.  The      *)
(* answers told are counted together with the handlers that still owe one; *)
(* the active sessions together with the handlers about to create one.     *)
(***************************************************************************)
EXTENDS Conversation, FiniteSetTheorems, WellFoundedInduction, TLAPS

HandlerStates == [pc : Places, input : Inputs \cup {"none"},
                  session : 0..MaxSessions, reply : Replies,
                  tries : 0..MaxTries]

Creating    == {"close", "newsession"}
OfProcessor == {"contact", "newcontact", "session"} \cup Creating
OfMessage(h) == InputOf(h) \in Messages

(* What the place a handler is at says of its other fields.                *)
HandlerOK(h) ==
  /\ At(h, "idle") => InputOf(h) = "none"
  /\ ~At(h, "idle") => InputOf(h) \in Inputs /\ arrived[InputOf(h)] > 0
  /\ handler[h].pc \in OfProcessor => path = "direct" /\ OfMessage(h)
  /\ At(h, "queued") =>
       path = "queue" /\ OfMessage(h) /\ handler[h].tries < MaxTries
  /\ handler[h].pc \in {"ensure", "escalate"} =>
       path # "direct" /\ OfMessage(h)
  /\ handler[h].pc \in {"close", "ensure", "prepare"} \cup Running =>
       SessionOf(h) \in Sessions
  /\ path # "direct" /\ ~At(h, "idle") => SessionOf(h) = 1
  /\ path = "queue" /\ OfMessage(h) /\ handler[h].pc \in Working =>
       handler[h].tries >= 1
  /\ handler[h].pc \in {"record", "send"} =>
       \/ path # "direct" /\ OfMessage(h)
       \/ handler[h].reply \in {"text", "empty"}
  /\ At(h, "send") => InputOf(h) \in recorded /\ HasRecipient(h)

HandlersOK == \A h \in Handlers : HandlerOK(h)

(* The handlers at work on an input, and those that may still tell the     *)
(* customer something about it.                                            *)
Jobs(i)  == {h \in Handlers : ~At(h, "idle") /\ InputOf(h) = i}
Owing(i) == {h \in Jobs(i) : ~At(h, "escalate")}

(* A message is owed one answer, and one more for each failure; on a       *)
(* direct channel the deduplicator's entry is what stops another.          *)
TellingOK(i) ==
  /\ i \in Messages /\ path = "direct" =>
       told[i] + Cardinality(Jobs(i)) <= (IF i \in seen THEN 1 ELSE 0) + faults
  /\ i \in Decisions \/ path # "direct" =>
       /\ Cardinality(Jobs(i)) <= arrived[i]
       /\ told[i] + Cardinality(Owing(i)) <= arrived[i] * (1 + faults)
  /\ i \in Decisions => arrived[i] <= 1

Telling == \A i \in Inputs : TellingOK(i)

(* The duplicate of a message that never arrived does not exist.           *)
SeenArrived == \A m \in seen : arrived[m] > 0

(* A conversation of Chatwoot has the one session.                         *)
OneSession ==
  path # "direct" => \A s \in Sessions : status[s] # "absent" => s = 1

Creators == {h \in Handlers : handler[h].pc \in Creating}
SessionCount ==
  Cardinality(Active) + Cardinality(Creators)
    <= Cardinality(Handlers) + resets + ops

IInv ==
  /\ TypeOK /\ HandlersOK /\ Telling /\ SeenArrived /\ OneSession
  /\ SessionCount /\ SaidIsRecorded /\ PausedIsQuiet /\ SilenceIsExplained

-----------------------------------------------------------------------------
(* Types.                                                                  *)

LEMMA Kinds ==
  /\ Running \subseteq Working /\ Working \subseteq Places
  /\ {"idle", "queued"} \subseteq Places /\ Messages \subseteq Inputs
  /\ Decisions \subseteq Inputs
  BY DEF Running, Working, Places, Inputs

(* The five ways a handler's record is written keep its type.              *)
LEMMA HandlerTypes ==
  ASSUME handler \in [Handlers -> HandlerStates], NEW h \in Handlers
  PROVE  /\ NoHandler \in HandlerStates
         /\ \A pc \in Places :
              Goto(h, pc) => handler' \in [Handlers -> HandlerStates]
         /\ \A pc \in Places, s \in 0..MaxSessions :
              Enter(h, pc, s) => handler' \in [Handlers -> HandlerStates]
         /\ \A pc \in Places, i \in Inputs, s \in 0..MaxSessions :
              Begin(h, pc, i, s) => handler' \in [Handlers -> HandlerStates]
         /\ End(h) => handler' \in [Handlers -> HandlerStates]
  <1>1. NoHandler \in HandlerStates
    BY Kinds, ConversationConstants DEF NoHandler, HandlerStates, Replies
  <1>2. ASSUME NEW pc \in Places, Goto(h, pc)
        PROVE  handler' \in [Handlers -> HandlerStates]
    BY <1>2 DEF Goto, HandlerStates
  <1>3. ASSUME NEW pc \in Places, NEW s \in 0..MaxSessions, Enter(h, pc, s)
        PROVE  handler' \in [Handlers -> HandlerStates]
    BY <1>3 DEF Enter, HandlerStates
  <1>4. ASSUME NEW pc \in Places, NEW i \in Inputs, NEW s \in 0..MaxSessions,
               Begin(h, pc, i, s)
        PROVE  handler' \in [Handlers -> HandlerStates]
    <2>1. [NoHandler EXCEPT !.pc = pc, !.input = i, !.session = s]
            \in HandlerStates
      BY <1>1, <1>4 DEF HandlerStates
    <2> QED BY <1>4, <2>1 DEF Begin
  <1>5. ASSUME End(h) PROVE handler' \in [Handlers -> HandlerStates]
    BY <1>1, <1>5 DEF End
  <1> QED BY <1>1, <1>2, <1>3, <1>4, <1>5

(* Every step preserves the types.                                         *)
LEMMA TypeStep == TypeOK /\ HandlersOK /\ [Next]_vars => TypeOK'
  <1> SUFFICES ASSUME TypeOK, HandlersOK, [Next]_vars PROVE TypeOK'
    OBVIOUS
  <1> USE Kinds, ConversationConstants
  <1> DEFINE HandlerType == handler' \in [Handlers -> HandlerStates]
  <1>0. handler \in [Handlers -> HandlerStates]
    BY DEF TypeOK, HandlerStates
  <1>00. HandlerType => (handler \in [Handlers -> HandlerStates])'
    OBVIOUS
  <1>a. /\ 0 \in 0..MaxSessions /\ 1 \in 0..MaxSessions /\ 1 \in Sessions
        /\ Sessions \subseteq 0..MaxSessions
        /\ \A h \in Handlers : SessionOf(h) \in 0..MaxSessions
        /\ \A h \in Handlers : InputOf(h) \in Inputs \cup {"none"}
    BY <1>0 DEF Sessions, SessionOf, InputOf, HandlerStates
  <1> USE DEF bounds, inputs
  <1>1. ASSUME NEW h \in Handlers, NEW m \in Messages, Receive(h, m)
        PROVE  TypeOK'
    <2>1. HandlerType
      BY <1>0, <1>1, <1>a, HandlerTypes DEF Receive, Places, Working
    <2> QED BY <1>1, <2>1 DEF TypeOK, Receive, Deliver, HandlerStates
  <1>2. ASSUME NEW h \in Handlers, NEW m \in Messages,
               Enqueue(h, m) \/ ReceiveInline(h, m)
        PROVE  TypeOK'
    <2>1. AfterKeywords(m) \in Places
      BY DEF AfterKeywords, Places, Working
    <2>2. HandlerType
      BY <1>0, <1>2, <1>a, <2>1, HandlerTypes DEF Enqueue, ReceiveInline
    <2> QED
      BY <1>2, <2>2 DEF TypeOK, Enqueue, ReceiveInline, Deliver, HandlerStates
  <1>3. ASSUME NEW h \in Handlers, NEW d \in Decisions, NEW s \in Sessions,
               ResumeAfterApproval(h, d, s)
        PROVE  TypeOK'
    <2>1. HandlerType
      BY <1>0, <1>3, <1>a, HandlerTypes
         DEF ResumeAfterApproval, Places, Working
    <2> QED
      BY <1>3, <2>1 DEF TypeOK, ResumeAfterApproval, HandlerStates
  <1>4. ASSUME NEW h \in Handlers, FindContact(h) PROVE TypeOK'
    <2>1. HandlerType
      BY <1>0, <1>4, HandlerTypes DEF FindContact, Places, Working
    <2> QED BY <1>4, <2>1 DEF TypeOK, FindContact, HandlerStates
  <1>5. ASSUME NEW h \in Handlers, CreateContact(h) PROVE TypeOK'
    <2>1. InputOf(h) \in Inputs
      BY <1>5 DEF CreateContact, HandlersOK, HandlerOK, At
    <2>2. HandlerType
      BY <1>0, <1>5, HandlerTypes DEF CreateContact, Places, Working
    <2> QED
      BY <1>5, <2>1, <2>2
         DEF TypeOK, CreateContact, Excuse, End, HandlerStates
  <1>6. ASSUME NEW h \in Handlers, FindSession(h) PROVE TypeOK'
    <2>1. HandlerType
      BY <1>0, <1>6, <1>a, HandlerTypes
         DEF FindSession, Found, Active, Places, Working
    <2>2. resets' \in Nat
      BY <1>6 DEF TypeOK, FindSession
    <2> QED BY <1>6, <2>1, <2>2 DEF TypeOK, FindSession, HandlerStates
  <1>7. ASSUME NEW h \in Handlers, CloseSession(h) PROVE TypeOK'
    <2>1. HandlerType
      BY <1>0, <1>7, <1>a, HandlerTypes DEF CloseSession, Places, Working
    <2>2. status' \in [Sessions -> Statuses] /\ faults' \in Nat
      BY <1>7 DEF TypeOK, CloseSession, Statuses
    <2> QED BY <1>7, <2>1, <2>2 DEF TypeOK, CloseSession, HandlerStates
  <1>8. ASSUME NEW h \in Handlers, NEW s \in Sessions, CreateSession(h, s)
        PROVE  TypeOK'
    <2>1. HandlerType
      BY <1>0, <1>8, <1>a, HandlerTypes DEF CreateSession, Places, Working
    <2> QED
      BY <1>8, <2>1 DEF TypeOK, CreateSession, Statuses, HandlerStates
  <1>9. ASSUME NEW h \in Handlers, TakeJob(h) PROVE TypeOK'
    <2>1. AfterKeywords(InputOf(h)) \in Places
      BY DEF AfterKeywords, Places, Working
    <2>2. handler[h].tries + 1 \in 0..MaxTries
      BY <1>0, <1>9 DEF TakeJob, HandlersOK, HandlerOK, At, HandlerStates
    <2>3. HandlerType
      BY <1>0, <1>9, <2>1, <2>2 DEF TakeJob, HandlerStates
    <2> QED BY <1>9, <2>3 DEF TypeOK, TakeJob, HandlerStates
  <1>10. ASSUME NEW h \in Handlers, EnsureSession(h) PROVE TypeOK'
    <2>1. HandlerType
      BY <1>0, <1>10, HandlerTypes DEF EnsureSession, Places, Working
    <2>2. status' \in [Sessions -> Statuses]
      BY <1>10 DEF TypeOK, EnsureSession, Statuses
    <2> QED BY <1>10, <2>1, <2>2 DEF TypeOK, EnsureSession, HandlerStates
  <1>11. ASSUME NEW h \in Handlers, PrepareRun(h) PROVE TypeOK'
    <2>1. InputOf(h) \in Inputs
      BY <1>11 DEF PrepareRun, HandlersOK, HandlerOK, At
    <2>2. HandlerType
      BY <1>0, <1>11, HandlerTypes DEF PrepareRun, Places, Working, Running
    <2> QED
      BY <1>11, <2>1, <2>2 DEF TypeOK, PrepareRun, Excuse, End, HandlerStates
  <1>12. ASSUME NEW h \in Handlers, RunAgent(h) PROVE TypeOK'
    <2>1. PICK r \in Replies :
            handler' = [handler EXCEPT ![h].pc = "record", ![h].reply = r]
      BY <1>12 DEF RunAgent, Texts, Replies
    <2>2. "record" \in Places
      BY DEF Places, Working, Running
    <2>3. HandlerType
      BY <1>0, <2>1, <2>2 DEF HandlerStates
    <2> QED BY <1>12, <2>3 DEF TypeOK, RunAgent, HandlerStates
  <1>13. ASSUME NEW h \in Handlers, RunFails(h) PROVE TypeOK'
    <2>1. HandlerType BY <1>0, <1>13, HandlerTypes DEF RunFails
    <2> QED BY <1>13, <2>1 DEF TypeOK, RunFails, End, HandlerStates
  <1>14. ASSUME NEW h \in Handlers, SaveRun(h) PROVE TypeOK'
    <2>1. InputOf(h) \in Inputs
      BY <1>14 DEF SaveRun, HandlersOK, HandlerOK, At
    <2>2. HandlerType
      BY <1>0, <1>14, HandlerTypes
         DEF SaveRun, AfterSave, Places, Working, Running
    <2>3. underway' \in SUBSET Handlers /\ excused' \in SUBSET Inputs
      BY <1>14, <2>1 DEF TypeOK, SaveRun, End, Excuse
    <2> QED BY <1>14, <2>1, <2>2, <2>3 DEF TypeOK, SaveRun, HandlerStates
  <1>15. ASSUME NEW h \in Handlers, SendAnswer(h) PROVE TypeOK'
    <2>1. HandlerType /\ underway' \in SUBSET Handlers
      BY <1>0, <1>15, HandlerTypes
         DEF TypeOK, SendAnswer, AfterSend, End, Places, Working
    <2>2. told' \in [Inputs -> Nat]
      <3>1. InputOf(h) \in Inputs
        BY <1>15 DEF SendAnswer, HandlersOK, HandlerOK, At
      <3> QED BY <1>15, <3>1 DEF TypeOK, SendAnswer, Tell
    <2> QED BY <1>15, <2>1, <2>2 DEF TypeOK, SendAnswer, HandlerStates
  <1>16. ASSUME NEW h \in Handlers, SendFails(h) PROVE TypeOK'
    <2>1. CASE AfterSend(h) \/ End(h)
      <3>1. HandlerType /\ underway' \in SUBSET Handlers
        BY <1>0, <2>1, HandlerTypes
           DEF TypeOK, AfterSend, End, Places, Working
      <3>2. told' \in [Inputs -> Nat]
        BY <1>16 DEF TypeOK, SendFails, Tell
      <3> QED BY <1>16, <3>1, <3>2 DEF TypeOK, SendFails, HandlerStates
    <2>2. CASE /\ handler[h].tries + 1 < MaxTries
               /\ handler' = [handler EXCEPT ![h].tries = @ + 1]
               /\ UNCHANGED underway
      <3>1. handler[h].tries + 1 \in 0..MaxTries
        BY <1>0, <2>2 DEF HandlerStates
      <3>2. HandlerType BY <1>0, <2>2, <3>1 DEF HandlerStates
      <3>3. told' \in [Inputs -> Nat]
        BY <1>16 DEF TypeOK, SendFails, Tell
      <3> QED BY <1>16, <2>2, <3>2, <3>3 DEF TypeOK, SendFails, HandlerStates
    <2> QED BY <1>16, <2>1, <2>2 DEF SendFails
  <1>17. ASSUME NEW h \in Handlers, Escalate(h) PROVE TypeOK'
    <2>1. InputOf(h) \in Inputs
      BY <1>17 DEF Escalate, HandlersOK, HandlerOK, At
    <2>2. HandlerType BY <1>0, <1>17, HandlerTypes DEF Escalate
    <2> QED
      BY <1>17, <2>1, <2>2, ZenonT(60)
         DEF TypeOK, Escalate, Excuse, End, HandlerStates
  <1>18. ASSUME NEW s \in Sessions, NEW new \in {"active", "paused", "closed"},
                SetStatus(s, new)
         PROVE  TypeOK'
    BY <1>18 DEF TypeOK, SetStatus, Statuses, RunsOn
  <1>19. ASSUME NEW m \in Messages, Forget(m) PROVE TypeOK'
    BY <1>19 DEF TypeOK, Forget
  <1>20. ASSUME NEW h \in Handlers, Throws(h) PROVE TypeOK'
    <2>1. Again(h) \in HandlerStates
      BY <1>0 DEF Again, HandlerStates, Replies
    <2>2. underway' \in SUBSET Handlers
      BY <1>20 DEF TypeOK, Throws, End
    <2>3. HandlerType
      <3>1. \/ handler' = [handler EXCEPT ![h] = Again(h)]
            \/ End(h)
        BY <1>20 DEF Throws
      <3> QED BY <1>0, <2>1, <3>1, HandlerTypes DEF TypeOK
    <2> QED BY <1>20, <2>2, <2>3 DEF TypeOK, Throws, HandlerStates
  <1>21. CASE Crash
    <2>1. PICK stalled \in SUBSET {h \in Handlers :
                     /\ path = "queue" /\ InputOf(h) \in Messages
                     /\ handler[h].pc \in Working} :
            handler' = [h \in Handlers |->
              CASE At(h, "queued") -> handler[h]
                [] h \in stalled   -> [Again(h) EXCEPT !.tries = @ - 1]
                [] OTHER           -> NoHandler]
      BY <1>21 DEF Crash
    <2>2. ASSUME NEW h \in stalled
          PROVE  [Again(h) EXCEPT !.tries = @ - 1] \in HandlerStates
      <3>1. handler[h].tries - 1 \in 0..MaxTries
        BY <1>0, <2>1, <2>2 DEF HandlersOK, HandlerOK, OfMessage, HandlerStates
      <3> QED BY <1>0, <2>2, <2>1, <3>1 DEF Again, HandlerStates, Replies
    <2>3. HandlerType
      BY <1>0, <2>1, <2>2, HandlerTypes
    <2> QED BY <1>21, <2>3 DEF TypeOK, Crash, HandlerStates
  <1>22. CASE UNCHANGED vars
    BY <1>22 DEF TypeOK, vars
  <1> QED
    BY <1>1, <1>2, <1>3, <1>4, <1>5, <1>6, <1>7, <1>8, <1>9, <1>10, <1>11,
       <1>12, <1>13, <1>14, <1>15, <1>16, <1>17, <1>18, <1>19, <1>20, <1>21,
       <1>22 DEF Next, HandlerStep

-----------------------------------------------------------------------------
(* Every handler is in order.                                              *)

Others(h) == \A g \in Handlers \ {h} : handler'[g] = handler[g]
Grows     == /\ path' = path /\ recorded \subseteq recorded'
             /\ \A i \in Inputs : arrived'[i] >= arrived[i]
             /\ arrived' \in [Inputs -> Nat]

(* A step of one handler says nothing of the others.                       *)
LEMMA FrameOne ==
  ASSUME TypeOK, HandlersOK, Grows, NEW g \in Handlers,
         handler'[g] = handler[g]
  PROVE  HandlerOK(g)'
  <1>1. HandlerOK(g)
    BY DEF HandlersOK
  <1>2. ~At(g, "idle") => InputOf(g) \in Inputs /\ arrived'[InputOf(g)] > 0
    <2> HAVE ~At(g, "idle")
    <2>1. InputOf(g) \in Inputs /\ arrived[InputOf(g)] > 0
      BY <1>1 DEF HandlerOK
    <2>2. arrived'[InputOf(g)] >= arrived[InputOf(g)]
      BY <2>1 DEF Grows
    <2>3. arrived[InputOf(g)] \in Nat /\ arrived'[InputOf(g)] \in Int
      BY <2>1 DEF TypeOK, Grows
    <2> QED BY <2>1, <2>2, <2>3
  <1>3. At(g, "send") => InputOf(g) \in recorded'
    BY <1>1 DEF Grows, HandlerOK
  <1> QED
    BY <1>1, <1>2, <1>3
       DEF Grows, HandlerOK, At, InputOf, SessionOf, OfMessage, HasRecipient

LEMMA Frame ==
  ASSUME TypeOK, HandlersOK, NEW h \in Handlers, HandlerOK(h)', Others(h),
         Grows
  PROVE  HandlersOK'
  BY FrameOne DEF HandlersOK, Others

LEMMA FrameAll ==
  ASSUME TypeOK, HandlersOK, handler' = handler, Grows
  PROVE  HandlersOK'
  BY FrameOne DEF HandlersOK

(* What the five ways of writing a handler's record leave in it.           *)
LEMMA Writes ==
  ASSUME handler \in [Handlers -> HandlerStates], NEW h \in Handlers
  PROVE  /\ \A pc : Goto(h, pc) =>
              /\ Others(h) /\ handler'[h].pc = pc
              /\ handler'[h].input = InputOf(h)
              /\ handler'[h].session = SessionOf(h)
              /\ handler'[h].reply = handler[h].reply
              /\ handler'[h].tries = handler[h].tries
         /\ \A pc, s : Enter(h, pc, s) =>
              /\ Others(h) /\ handler'[h].pc = pc
              /\ handler'[h].input = InputOf(h)
              /\ handler'[h].session = s
              /\ handler'[h].reply = handler[h].reply
              /\ handler'[h].tries = handler[h].tries
         /\ \A pc, i, s : Begin(h, pc, i, s) =>
              /\ Others(h) /\ handler'[h].pc = pc /\ handler'[h].input = i
              /\ handler'[h].session = s /\ handler'[h].reply = "none"
              /\ handler'[h].tries = 0
         /\ End(h) =>
              /\ Others(h) /\ handler'[h].pc = "idle"
              /\ handler'[h].input = "none" /\ handler'[h].session = 0
              /\ handler'[h].reply = "none" /\ handler'[h].tries = 0
  <1>1. ASSUME NEW pc, Goto(h, pc)
        PROVE  /\ Others(h) /\ handler'[h].pc = pc
               /\ handler'[h].input = InputOf(h)
               /\ handler'[h].session = SessionOf(h)
               /\ handler'[h].reply = handler[h].reply
               /\ handler'[h].tries = handler[h].tries
    BY <1>1 DEF Goto, Others, InputOf, SessionOf, HandlerStates
  <1>2. ASSUME NEW pc, NEW s, Enter(h, pc, s)
        PROVE  /\ Others(h) /\ handler'[h].pc = pc
               /\ handler'[h].input = InputOf(h)
               /\ handler'[h].session = s
               /\ handler'[h].reply = handler[h].reply
               /\ handler'[h].tries = handler[h].tries
    BY <1>2 DEF Enter, Others, InputOf, HandlerStates
  <1>3. ASSUME NEW pc, NEW i, NEW s, Begin(h, pc, i, s)
        PROVE  /\ Others(h) /\ handler'[h].pc = pc /\ handler'[h].input = i
               /\ handler'[h].session = s /\ handler'[h].reply = "none"
               /\ handler'[h].tries = 0
    BY <1>3 DEF Begin, Others, NoHandler
  <1>4. ASSUME End(h)
        PROVE  /\ Others(h) /\ handler'[h].pc = "idle"
               /\ handler'[h].input = "none" /\ handler'[h].session = 0
               /\ handler'[h].reply = "none" /\ handler'[h].tries = 0
    BY <1>4 DEF End, Others, NoHandler
  <1> QED BY <1>1, <1>2, <1>3, <1>4

(* A handler that has ended is in order.                                   *)
LEMMA Ended ==
  ASSUME TypeOK, NEW h \in Handlers, End(h)
  PROVE  HandlerOK(h)' /\ Others(h)
  BY Writes DEF TypeOK, HandlerStates, HandlerOK, At, InputOf, SessionOf,
     OfMessage, OfProcessor, Creating, Working, Running

(* What a crash leaves of a handler: nothing, a job that waits, or one that *)
(* waits again.                                                            *)
LEMMA AfterCrash ==
  ASSUME TypeOK, Crash, NEW h \in Handlers
  PROVE  \/ At(h, "queued") /\ handler'[h] = handler[h]
         \/ handler'[h] = NoHandler
         \/ /\ path = "queue" /\ OfMessage(h) /\ handler[h].pc \in Working
            /\ handler'[h].pc = "queued" /\ handler'[h].input = InputOf(h)
            /\ handler'[h].session = SessionOf(h)
            /\ handler'[h].tries = handler[h].tries - 1
  <1>0. handler \in [Handlers -> HandlerStates]
    BY DEF TypeOK, HandlerStates
  <1>1. PICK stalled \in SUBSET {g \in Handlers :
                   /\ path = "queue" /\ InputOf(g) \in Messages
                   /\ handler[g].pc \in Working} :
          handler' = [g \in Handlers |->
            CASE At(g, "queued") -> handler[g]
              [] g \in stalled   -> [Again(g) EXCEPT !.tries = @ - 1]
              [] OTHER           -> NoHandler]
    BY DEF Crash
  <1>2. At(h, "queued") => h \notin stalled
    BY <1>1 DEF At, Working, Running
  <1>3. CASE At(h, "queued")
    BY <1>1, <1>2, <1>3
  <1>4. CASE h \in stalled
    BY <1>0, <1>1, <1>2, <1>4
       DEF Again, InputOf, SessionOf, OfMessage, HandlerStates
  <1>5. CASE ~At(h, "queued") /\ h \notin stalled
    BY <1>1, <1>5
  <1> QED BY <1>3, <1>4, <1>5

(* Every step keeps the handlers in order.                                 *)
LEMMA HandlersStep ==
  TypeOK /\ HandlersOK /\ OneSession /\ [Next]_vars => HandlersOK'
  <1> SUFFICES ASSUME TypeOK, HandlersOK, OneSession, [Next]_vars
               PROVE  HandlersOK'
    OBVIOUS
  <1> USE Kinds, ConversationConstants
  <1>0. handler \in [Handlers -> HandlerStates]
    BY DEF TypeOK, HandlerStates
  <1>a. \A h \in Handlers : HandlerOK(h)
    BY DEF HandlersOK
  <1>b. UNCHANGED <<path, recorded, arrived>> => Grows
    BY DEF Grows, TypeOK
  <1>c. \A i \in Inputs, n \in Nat :
          /\ arrived' = [arrived EXCEPT ![i] = @ + 1] =>
               arrived'[i] > 0 /\ (UNCHANGED <<path, recorded>> => Grows)
          /\ arrived[i] = 0 /\ arrived' = [arrived EXCEPT ![i] = 1] =>
               arrived'[i] > 0 /\ (UNCHANGED <<path, recorded>> => Grows)
    BY DEF Grows, TypeOK
  <1>d. 0 \in Nat /\ 1 \in Sessions
    BY DEF Sessions
  <1> USE DEF HandlerOK, At, InputOf, SessionOf, OfMessage, OfProcessor,
              Creating, inputs, bounds
  <1>1. ASSUME NEW h \in Handlers, NEW m \in Messages, Receive(h, m)
        PROVE  HandlersOK'
    <2>1. Grows /\ arrived'[m] > 0 /\ m \in Inputs
      BY <1>1, <1>c, <1>d DEF Receive, Deliver
    <2>2. CASE handler' = handler
      <3> QED BY <2>1, <2>2, FrameAll
    <2>3. CASE Begin(h, "contact", m, 0)
      <3>1. HandlerOK(h)' /\ Others(h)
        BY <1>0, <1>1, <2>1, <2>3, Writes
           DEF Receive, Working, Running, HandlerStates
      <3> QED BY <2>1, <3>1, Frame
    <2> QED BY <1>1, <2>2, <2>3 DEF Receive
  <1>2. ASSUME NEW h \in Handlers, NEW m \in Messages,
               Enqueue(h, m) \/ ReceiveInline(h, m)
        PROVE  HandlersOK'
    <2>1. Grows /\ arrived'[m] > 0 /\ m \in Inputs /\ path' = path
      BY <1>2, <1>c, <1>d DEF Enqueue, ReceiveInline, Deliver
    <2>2. CASE handler' = handler
      <3> QED BY <2>1, <2>2, FrameAll
    <2>3. CASE Enqueue(h, m) /\ Begin(h, "queued", m, 1)
      <3>1. HandlerOK(h)' /\ Others(h)
        BY <1>0, <2>1, <2>3, Writes
           DEF Enqueue, Working, Running, HandlerStates
      <3> QED BY <2>1, <3>1, Frame
    <2>4. CASE ReceiveInline(h, m)
      <3>1. HandlerOK(h)' /\ Others(h)
        BY <1>0, <1>d, <2>1, <2>4, Writes
           DEF ReceiveInline, AfterKeywords, Working, Running, HandlerStates
      <3> QED BY <2>1, <3>1, Frame
    <2> QED BY <1>2, <2>2, <2>3, <2>4 DEF Enqueue
  <1>3. ASSUME NEW h \in Handlers, NEW d \in Decisions, NEW s \in Sessions,
               ResumeAfterApproval(h, d, s)
        PROVE  HandlersOK'
    <2>1. Grows /\ arrived'[d] > 0 /\ d \in Inputs /\ path' = path
      BY <1>3, <1>c, <1>d DEF ResumeAfterApproval
    <2>2. HandlerOK(h)' /\ Others(h)
      BY <1>0, <1>3, <2>1, Writes
         DEF ResumeAfterApproval, OneSession, Working, Running, HandlerStates
    <2> QED BY <2>1, <2>2, Frame
  <1>4. ASSUME NEW h \in Handlers, FindContact(h) PROVE HandlersOK'
    <2>1. HandlerOK(h)' /\ Others(h)
      BY <1>0, <1>4, <1>a, Writes
         DEF FindContact, Working, Running, HandlerStates
    <2> QED BY <1>4, <1>b, <2>1, Frame DEF FindContact
  <1>5. ASSUME NEW h \in Handlers, CreateContact(h) PROVE HandlersOK'
    <2>1. HandlerOK(h)' /\ Others(h)
      BY <1>0, <1>5, <1>a, Ended, Writes
         DEF CreateContact, Working, Running, HandlerStates
    <2> QED BY <1>5, <1>b, <2>1, Frame DEF CreateContact
  <1>6. ASSUME NEW h \in Handlers, FindSession(h) PROVE HandlersOK'
    <2>1. \/ Enter(h, "newsession", 0)
          \/ \E s \in Sessions : Enter(h, "close", s) \/ Enter(h, "prepare", s)
      BY <1>6 DEF FindSession, Found, Active
    <2>2. HandlerOK(h)' /\ Others(h)
      BY <1>0, <1>6, <1>a, <2>1, Writes
         DEF FindSession, Working, Running, HandlerStates
    <2> QED BY <1>6, <1>b, <2>2, Frame DEF FindSession
  <1>7. ASSUME NEW h \in Handlers, CloseSession(h) PROVE HandlersOK'
    <2>1. HandlerOK(h)' /\ Others(h)
      BY <1>0, <1>7, <1>a, Writes
         DEF CloseSession, Working, Running, HandlerStates
    <2> QED BY <1>7, <1>b, <2>1, Frame DEF CloseSession
  <1>8. ASSUME NEW h \in Handlers, NEW s \in Sessions, CreateSession(h, s)
        PROVE  HandlersOK'
    <2>1. HandlerOK(h)' /\ Others(h)
      BY <1>0, <1>8, <1>a, Writes
         DEF CreateSession, Working, Running, HandlerStates
    <2> QED BY <1>8, <1>b, <2>1, Frame DEF CreateSession
  <1>9. ASSUME NEW h \in Handlers, TakeJob(h) PROVE HandlersOK'
    <2>1. /\ Others(h) /\ handler'[h].input = InputOf(h)
          /\ handler'[h].pc \in {"escalate", "ensure"}
          /\ handler'[h].session = SessionOf(h)
          /\ handler'[h].tries = handler[h].tries + 1
      BY <1>0, <1>9 DEF TakeJob, AfterKeywords, Others, HandlerStates
    <2>2. HandlerOK(h)'
      BY <1>0, <1>9, <1>a, <2>1 DEF TakeJob, Working, Running, HandlerStates
    <2> QED BY <1>9, <1>b, <2>1, <2>2, Frame DEF TakeJob
  <1>10. ASSUME NEW h \in Handlers, EnsureSession(h) PROVE HandlersOK'
    <2>1. HandlerOK(h)' /\ Others(h)
      BY <1>0, <1>10, <1>a, <1>d, Writes
         DEF EnsureSession, Working, Running, HandlerStates
    <2> QED BY <1>10, <1>b, <2>1, Frame DEF EnsureSession
  <1>11. ASSUME NEW h \in Handlers, PrepareRun(h) PROVE HandlersOK'
    <2>1. HandlerOK(h)' /\ Others(h)
      BY <1>0, <1>11, <1>a, Ended, Writes
         DEF PrepareRun, Working, Running, HandlerStates
    <2> QED BY <1>11, <1>b, <2>1, Frame DEF PrepareRun
  <1>12. ASSUME NEW h \in Handlers, RunAgent(h) PROVE HandlersOK'
    <2>1. PICK r \in Replies :
            /\ r \in {"text", "empty"} \/ InChatwoot(h)
            /\ handler' = [handler EXCEPT ![h].pc = "record", ![h].reply = r]
      BY <1>12 DEF RunAgent, Texts, Replies
    <2>2. /\ Others(h) /\ handler'[h].input = InputOf(h)
          /\ handler'[h].pc = "record" /\ handler'[h].reply = r
          /\ handler'[h].session = SessionOf(h)
          /\ handler'[h].tries = handler[h].tries
      BY <1>0, <2>1 DEF Others, HandlerStates
    <2>3. HandlerOK(h)'
      BY <1>0, <1>12, <1>a, <2>1, <2>2
         DEF RunAgent, InChatwoot, Working, Running, HandlerStates
    <2> QED BY <1>12, <1>b, <2>2, <2>3, Frame DEF RunAgent
  <1>13. ASSUME NEW h \in Handlers, RunFails(h) PROVE HandlersOK'
    BY <1>13, <1>b, Ended, Frame DEF RunFails
  <1>14. ASSUME NEW h \in Handlers, SaveRun(h) PROVE HandlersOK'
    <2>1. Grows /\ InputOf(h) \in recorded' /\ path' = path
          /\ arrived' = arrived
      BY <1>14 DEF SaveRun, Grows, TypeOK
    <2>2. CASE End(h)
      BY <2>1, <2>2, Ended, Frame
    <2>3. CASE HasRecipient(h) /\ Goto(h, AfterSave(h))
      <3>1. HandlerOK(h)' /\ Others(h)
        BY <1>0, <1>14, <1>a, <2>1, <2>3, Writes
           DEF SaveRun, AfterSave, HasRecipient, Working, Running,
               HandlerStates
      <3> QED BY <2>1, <3>1, Frame
    <2> QED BY <1>14, <2>2, <2>3 DEF SaveRun
  <1>15. ASSUME NEW h \in Handlers, At(h, "send"), AfterSend(h),
                UNCHANGED <<path, recorded, arrived>>
         PROVE  HandlersOK'
    <2>1. HandlerOK(h)' /\ Others(h)
      BY <1>0, <1>15, <1>a, Ended, Writes
         DEF AfterSend, Working, Running, HandlerStates
    <2> QED BY <1>15, <1>b, <2>1, Frame
  <1>16. ASSUME NEW h \in Handlers, SendFails(h) PROVE HandlersOK'
    <2>1. CASE AfterSend(h)
      BY <1>15, <1>16, <2>1 DEF SendFails
    <2>2. CASE End(h)
      BY <1>16, <1>b, <2>2, Ended, Frame DEF SendFails
    <2>3. CASE handler' = [handler EXCEPT ![h].tries = @ + 1]
      <3>1. /\ Others(h) /\ handler'[h].input = InputOf(h)
            /\ handler'[h].pc = "send" /\ handler'[h].reply = handler[h].reply
            /\ handler'[h].session = SessionOf(h)
            /\ handler'[h].tries = handler[h].tries + 1
        BY <1>0, <1>16, <2>3 DEF SendFails, Others, HandlerStates
      <3>2. HandlerOK(h)'
        BY <1>0, <1>16, <1>a, <3>1
           DEF SendFails, HasRecipient, Working, Running, HandlerStates
      <3> QED BY <1>16, <1>b, <3>1, <3>2, Frame DEF SendFails
    <2> QED BY <1>16, <2>1, <2>2, <2>3 DEF SendFails
  <1>17. ASSUME NEW h \in Handlers, Escalate(h) PROVE HandlersOK'
    BY <1>17, <1>b, Ended, Frame DEF Escalate
  <1>18. ASSUME NEW s \in Sessions, NEW new \in {"active", "paused", "closed"},
                SetStatus(s, new)
         PROVE  HandlersOK'
    BY <1>18, <1>b, FrameAll DEF SetStatus
  <1>19. ASSUME NEW m \in Messages, Forget(m) PROVE HandlersOK'
    BY <1>19, <1>b, FrameAll DEF Forget
  <1>20. ASSUME NEW h \in Handlers, Throws(h) PROVE HandlersOK'
    <2>1. CASE End(h)
      BY <1>20, <1>b, <2>1, Ended, Frame DEF Throws
    <2>2. CASE /\ InChatwoot(h) /\ Retried(handler[h].tries)
               /\ handler' = [handler EXCEPT ![h] = Again(h)]
      <3>1. /\ Others(h) /\ handler'[h].input = InputOf(h)
            /\ handler'[h].pc = "queued"
            /\ handler'[h].session = SessionOf(h)
            /\ handler'[h].tries = handler[h].tries
        BY <1>0, <2>2 DEF Again, Others, HandlerStates
      <3>2. HandlerOK(h)'
        BY <1>0, <1>20, <1>a, <2>2, <3>1
           DEF Throws, InChatwoot, Retried, Working, Running, HandlerStates
      <3> QED BY <1>20, <1>b, <3>1, <3>2, Frame DEF Throws
    <2> QED BY <1>20, <2>1, <2>2 DEF Throws
  <1>21. CASE Crash
    <2>1. Grows /\ path' = path /\ arrived' = arrived
      BY <1>21, <1>b DEF Crash
    <2>2. ASSUME NEW h \in Handlers PROVE HandlerOK(h)'
      <3>1. CASE handler'[h] = handler[h]
        BY <2>1, <3>1, FrameOne
      <3>2. CASE handler'[h] = NoHandler
        BY <3>2 DEF NoHandler, Working, Running
      <3>3. CASE /\ path = "queue" /\ OfMessage(h) /\ handler[h].pc \in Working
                 /\ handler'[h].pc = "queued" /\ handler'[h].input = InputOf(h)
                 /\ handler'[h].session = SessionOf(h)
                 /\ handler'[h].tries = handler[h].tries - 1
        <4>1. /\ handler[h].tries \in 1..MaxTries /\ SessionOf(h) = 1
              /\ arrived[InputOf(h)] > 0
          BY <1>0, <1>a, <3>3 DEF Working, Running, HandlerStates
        <4> QED BY <2>1, <3>3, <4>1 DEF Working, Running
      <3> QED BY <1>21, <3>1, <3>2, <3>3, AfterCrash
    <2> QED BY <2>2 DEF HandlersOK
  <1>22. CASE UNCHANGED vars
    BY <1>22, <1>b, FrameAll DEF vars
  <1>23. ASSUME NEW h \in Handlers, SendAnswer(h) PROVE HandlersOK'
    BY <1>15, <1>23 DEF SendAnswer
  <1> QED
    BY <1>1, <1>2, <1>3, <1>4, <1>5, <1>6, <1>7, <1>8, <1>9, <1>10, <1>11,
       <1>12, <1>13, <1>14, <1>16, <1>17, <1>18, <1>19, <1>20, <1>21, <1>22,
       <1>23 DEF Next, HandlerStep
-----------------------------------------------------------------------------
(* What a step may write.                                                  *)

(* Who changes a session's status.                                         *)
LEMMA StatusWriters ==
  ASSUME Next
  PROVE  \/ status' = status
         \/ \E h \in Handlers :
              \/ CloseSession(h) \/ EnsureSession(h)
              \/ \E s \in Sessions : CreateSession(h, s)
         \/ \E s \in Sessions, new \in {"active", "paused", "closed"} :
              SetStatus(s, new)
  BY DEF Next, HandlerStep, Receive, Enqueue, ReceiveInline,
         ResumeAfterApproval, FindContact, CreateContact, FindSession,
         TakeJob, PrepareRun, RunAgent, RunFails, SaveRun, SendAnswer,
         SendFails, Escalate, Throws, Forget, Crash

(* The path never changes; failures, answers on record, inputs excused and *)
(* lookups of a reset only add up.                                         *)
LEMMA Monotone ==
  ASSUME TypeOK, Next
  PROVE  /\ path' = path /\ faults' >= faults
         /\ recorded \subseteq recorded' /\ excused \subseteq excused'
  <1>1. path' = path
    BY ZenonT(60)
       DEF TypeOK, bounds, inputs, Next, HandlerStep, Receive, Enqueue,
           ReceiveInline, ResumeAfterApproval, FindContact, CreateContact,
           FindSession, CloseSession, CreateSession, TakeJob, EnsureSession,
           PrepareRun, RunAgent, RunFails, SaveRun, SendAnswer, SendFails,
           Escalate, SetStatus, Throws, Forget, Crash
  <1>2. faults' = faults \/ faults' = faults + 1
    BY ZenonT(60)
       DEF bounds, Next, HandlerStep, Receive, Enqueue, ReceiveInline,
           ResumeAfterApproval, FindContact, CreateContact, FindSession,
           CloseSession, CreateSession, TakeJob, EnsureSession, PrepareRun,
           RunAgent, RunFails, SaveRun, SendAnswer, SendFails, Escalate,
           SetStatus, Throws, Forget, Crash
  <1>3. recorded \subseteq recorded'
    BY ZenonT(60)
       DEF TypeOK, bounds, inputs, Next, HandlerStep, Receive, Enqueue,
           ReceiveInline, ResumeAfterApproval, FindContact, CreateContact,
           FindSession, CloseSession, CreateSession, TakeJob, EnsureSession,
           PrepareRun, RunAgent, RunFails, SaveRun, SendAnswer, SendFails,
           Escalate, SetStatus, Throws, Forget, Crash
  <1>4. excused \subseteq excused'
    BY ZenonT(60)
       DEF TypeOK, bounds, inputs, Next, HandlerStep, Receive, Enqueue,
           ReceiveInline, ResumeAfterApproval, FindContact, CreateContact,
           FindSession, CloseSession, CreateSession, TakeJob, EnsureSession,
           PrepareRun, RunAgent, RunFails, SaveRun, SendAnswer, SendFails,
           Escalate, SetStatus, Throws, Forget, Crash,
           Excuse, End, AfterSend
  <1> QED BY <1>1, <1>2, <1>3, <1>4 DEF TypeOK

(* Who changes what has arrived and what has been told.                    *)
Arrives(h, i) ==
  \/ i \in Messages /\ (Receive(h, i) \/ Enqueue(h, i) \/ ReceiveInline(h, i))
  \/ i \in Decisions /\ \E s \in Sessions : ResumeAfterApproval(h, i, s)

LEMMA HistoryWriters ==
  ASSUME Next
  PROVE  /\ \/ arrived' = arrived
            \/ \E h \in Handlers, i \in Inputs : Arrives(h, i)
         /\ \/ told' = told
            \/ \E h \in Handlers : SendAnswer(h) \/ SendFails(h)
  BY ZenonT(60)
     DEF bounds, inputs, Inputs, Arrives, Next, HandlerStep, Receive, Enqueue,
         ReceiveInline, ResumeAfterApproval, FindContact, CreateContact,
         FindSession, CloseSession, CreateSession, TakeJob, EnsureSession,
         PrepareRun, RunAgent, RunFails, SaveRun, SendAnswer, SendFails,
         Escalate, SetStatus, Throws, Forget, Crash

LEMMA ArrivesOnce ==
  ASSUME TypeOK, NEW h \in Handlers, NEW i \in Inputs, Arrives(h, i)
  PROVE  /\ arrived' = [arrived EXCEPT ![i] = arrived[i] + 1]
         /\ i \in Decisions => arrived[i] = 0
  BY ConversationConstants
     DEF TypeOK, Arrives, Receive, Enqueue, ReceiveInline, Deliver,
         ResumeAfterApproval

LEMMA Tells ==
  ASSUME TypeOK, NEW h \in Handlers, SendAnswer(h) \/ SendFails(h)
  PROVE  /\ At(h, "send")
         /\ told' = told \/ told' = [told EXCEPT ![InputOf(h)] = @ + 1]
  BY DEF SendAnswer, SendFails, Tell

(* Each of these parts of the invariant needs little of the others.        *)
LEMMA OneSessionStep ==
  TypeOK /\ HandlersOK /\ OneSession /\ [Next]_vars => OneSession'
  <1> SUFFICES ASSUME TypeOK, HandlersOK, OneSession, Next PROVE OneSession'
    BY DEF vars, OneSession
  <1>1. path' = path
    BY Monotone
  <1>2. CASE status' = status
    BY <1>1, <1>2 DEF OneSession
  <1>3. ASSUME NEW h \in Handlers, CloseSession(h) PROVE OneSession'
    BY <1>1, <1>3 DEF OneSession, CloseSession, HandlersOK, HandlerOK, At,
                      OfProcessor, Creating
  <1>4. ASSUME NEW h \in Handlers, NEW s \in Sessions, CreateSession(h, s)
        PROVE  OneSession'
    BY <1>1, <1>4 DEF OneSession, CreateSession, HandlersOK, HandlerOK, At,
                      OfProcessor, Creating
  <1>5. ASSUME NEW h \in Handlers, EnsureSession(h) PROVE OneSession'
    BY <1>1, <1>5 DEF OneSession, EnsureSession, HandlersOK, HandlerOK, At
  <1>6. ASSUME NEW s \in Sessions, NEW new, SetStatus(s, new) PROVE OneSession'
    BY <1>1, <1>6 DEF OneSession, SetStatus
  <1> QED BY <1>2, <1>3, <1>4, <1>5, <1>6, StatusWriters

LEMMA SeenStep ==
  TypeOK /\ SeenArrived /\ [Next]_vars => SeenArrived'
  <1> SUFFICES ASSUME TypeOK, SeenArrived, Next PROVE SeenArrived'
    BY DEF vars, inputs, SeenArrived
  <1>1. seen' \subseteq seen \/
        \E h \in Handlers, m \in Messages :
          Receive(h, m) /\ seen' = seen \cup {m}
    BY ZenonT(60) DEF Next, HandlerStep, Receive, Enqueue, ReceiveInline,
         ResumeAfterApproval, FindContact, CreateContact, FindSession,
         CloseSession, CreateSession, TakeJob, EnsureSession, PrepareRun,
         RunAgent, RunFails, SaveRun, SendAnswer, SendFails, Escalate,
         SetStatus, Throws, Forget, Crash
  <1>2. \A i \in Inputs : arrived[i] > 0 => arrived'[i] > 0
    BY HistoryWriters, ArrivesOnce DEF TypeOK
  <1>3. \A h \in Handlers, m \in Messages : Receive(h, m) => arrived'[m] > 0
    BY ArrivesOnce, Kinds DEF Arrives, TypeOK
  <1> QED
    BY <1>1, <1>2, <1>3, Kinds DEF SeenArrived, TypeOK

LEMMA SaidStep ==
  TypeOK /\ HandlersOK /\ SaidIsRecorded /\ [Next]_vars => SaidIsRecorded'
  <1> SUFFICES ASSUME TypeOK, HandlersOK, SaidIsRecorded, Next
               PROVE  SaidIsRecorded'
    BY DEF vars, SaidIsRecorded
  <1>1. recorded \subseteq recorded'
    BY Monotone
  <1>2. ASSUME NEW h \in Handlers, At(h, "send"),
               told' = [told EXCEPT ![InputOf(h)] = @ + 1]
        PROVE  SaidIsRecorded'
    <2>1. InputOf(h) \in recorded
      BY <1>2 DEF HandlersOK, HandlerOK
    <2> QED BY <1>1, <1>2, <2>1 DEF SaidIsRecorded, TypeOK
  <1>3. CASE told' = told
    BY <1>1, <1>3 DEF SaidIsRecorded
  <1> QED BY <1>2, <1>3, HistoryWriters, Tells

-----------------------------------------------------------------------------
(* Silence in a paused session.                                            *)

LEMMA RunsGoOn ==
  ASSUME TypeOK, HandlersOK, Next, NEW h \in Handlers,
         handler'[h].pc \in Running
  PROVE  \/ /\ handler[h].pc \in Running /\ SessionOf(h)' = SessionOf(h)
            /\ h \in underway => h \in underway'
         \/ PrepareRun(h) /\ ~Refuses(SessionOf(h))
            /\ SessionOf(h)' = SessionOf(h)
  <1> DEFINE Goal ==
        \/ /\ handler[h].pc \in Running /\ SessionOf(h)' = SessionOf(h)
           /\ h \in underway => h \in underway'
        \/ PrepareRun(h) /\ ~Refuses(SessionOf(h))
           /\ SessionOf(h)' = SessionOf(h)
  <1>0. handler \in [Handlers -> HandlerStates]
    BY DEF TypeOK, HandlerStates
  <1> USE DEF inputs, bounds
  <1>1. ASSUME handler'[h] = handler[h], underway \subseteq underway' \cup
                 {g \in Handlers : g # h}
        PROVE  Goal
    BY <1>1 DEF SessionOf, Running
  <1>2. ASSUME NEW g \in Handlers, g # h, Others(g),
               underway' = underway \/ underway' = underway \ {g}
        PROVE  Goal
    BY <1>1, <1>2 DEF Others, TypeOK
  <1>3. ASSUME NEW g \in Handlers, End(g) PROVE Goal
    <2>1. g # h
      BY <1>0, <1>3, Writes DEF Running
    <2> QED BY <1>0, <1>2, <1>3, <2>1, Writes DEF End
  <1>4. ASSUME NEW g \in Handlers, NEW pc, NEW s, NEW i,
               Goto(g, pc) \/ Enter(g, pc, s) \/ Begin(g, pc, i, s),
               pc \notin Running, underway' = underway
        PROVE  Goal
    <2>1. g # h /\ Others(g)
      BY <1>0, <1>4, Writes
    <2> QED BY <1>2, <1>4, <2>1
  <1>5. ASSUME NEW g \in Handlers, NEW i \in Inputs, Arrives(g, i) PROVE Goal
    <2>1. CASE handler' = handler
      BY <1>1, <1>5, <2>1
         DEF Arrives, Receive, Enqueue, ReceiveInline, ResumeAfterApproval,
             TypeOK
    <2>2. CASE handler' # handler
      BY <1>4, <1>5, <2>2
         DEF Arrives, Receive, Enqueue, ReceiveInline, ResumeAfterApproval,
             AfterKeywords, Running
    <2> QED BY <2>1, <2>2
  <1>6. ASSUME NEW g \in Handlers,
               \/ FindContact(g) \/ CreateContact(g) \/ FindSession(g)
               \/ CloseSession(g) \/ EnsureSession(g) \/ Escalate(g)
               \/ RunFails(g) \/ \E s \in Sessions : CreateSession(g, s)
        PROVE  Goal
    <2>1. \/ End(g)
          \/ /\ underway' = underway
             /\ \E pc \in Places \ Running, s \in 0..MaxSessions :
                  Goto(g, pc) \/ Enter(g, pc, s)
      <3>1. {"session", "newcontact", "newsession", "close", "prepare"}
              \subseteq Places \ Running
        BY DEF Places, Working, Running
      <3>2. 0 \in 0..MaxSessions /\ Sessions \subseteq 0..MaxSessions
        BY ConversationConstants DEF Sessions
      <3>3. CASE FindContact(g) \/ CreateContact(g) \/ EnsureSession(g)
                 \/ Escalate(g) \/ RunFails(g)
        BY <3>1, <3>2, <3>3
           DEF FindContact, CreateContact, EnsureSession, Escalate, RunFails
      <3>4. CASE FindSession(g)
        BY <3>1, <3>2, <3>4 DEF FindSession, Found, Active
      <3>5. CASE CloseSession(g) \/ \E s \in Sessions : CreateSession(g, s)
        BY <3>1, <3>2, <3>5 DEF CloseSession, CreateSession
      <3> QED BY <1>6, <3>3, <3>4, <3>5
    <2>2. ASSUME NEW pc \in Places \ Running, NEW s \in 0..MaxSessions,
                 Goto(g, pc) \/ Enter(g, pc, s), underway' = underway
          PROVE  Goal
      BY <1>4, <2>2
    <2> QED BY <1>3, <2>1, <2>2
  <1>7. ASSUME NEW g \in Handlers, TakeJob(g) PROVE Goal
    <2>1. handler'[g].pc \notin Running /\ Others(g)
      BY <1>0, <1>7 DEF TakeJob, AfterKeywords, Running, Others, HandlerStates
    <2> QED BY <1>2, <1>7, <2>1 DEF TakeJob
  <1>8. ASSUME NEW g \in Handlers, PrepareRun(g) PROVE Goal
    <2>1. CASE End(g)
      BY <1>3, <2>1
    <2>2. CASE ~Refuses(SessionOf(g)) /\ Goto(g, "thinking")
      BY <1>0, <1>2, <1>8, <2>2, Writes DEF PrepareRun, SessionOf
    <2> QED BY <1>8, <2>1, <2>2 DEF PrepareRun
  <1>9. ASSUME NEW g \in Handlers, RunAgent(g) PROVE Goal
    <2>1. /\ Others(g) /\ handler'[g].session = SessionOf(g)
          /\ handler[g].pc = "thinking" /\ underway' = underway
      BY <1>0, <1>9 DEF RunAgent, At, Others, SessionOf, HandlerStates
    <2> QED BY <1>2, <2>1 DEF SessionOf, Running
  <1>10. ASSUME NEW g \in Handlers, SaveRun(g) PROVE Goal
    <2>1. CASE End(g)
      BY <1>3, <2>1
    <2>2. CASE Goto(g, AfterSave(g)) /\ underway' = underway
      BY <1>0, <1>2, <1>10, <2>2, Writes DEF SaveRun, At, SessionOf, Running
    <2> QED BY <1>10, <2>1, <2>2 DEF SaveRun
  <1>11. ASSUME NEW g \in Handlers, SendAnswer(g) \/ SendFails(g) PROVE Goal
    <2>1. CASE End(g)
      BY <1>3, <2>1
    <2>2. CASE Goto(g, "escalate") /\ underway' = underway
      BY <1>4, <2>2 DEF Running
    <2>3. CASE handler' = [handler EXCEPT ![g].tries = @ + 1]
               /\ underway' = underway
      <3>1. Others(g) /\ handler'[g].pc = handler[g].pc
            /\ handler'[g].session = SessionOf(g)
        BY <1>0, <2>3 DEF Others, SessionOf, HandlerStates
      <3> QED BY <1>2, <2>3, <3>1 DEF SessionOf
    <2> QED BY <1>11, <2>1, <2>2, <2>3 DEF SendAnswer, SendFails, AfterSend
  <1>12. ASSUME NEW g \in Handlers, Throws(g) PROVE Goal
    <2>1. CASE End(g)
      BY <1>3, <2>1
    <2>2. CASE /\ handler' = [handler EXCEPT ![g] = Again(g)]
               /\ underway' = underway \ {g}
      <3>1. Others(g) /\ handler'[g].pc = "queued"
        BY <1>0, <2>2 DEF Others, Again, HandlerStates
      <3> QED BY <1>2, <2>2, <3>1 DEF Running
    <2> QED BY <1>12, <2>1, <2>2 DEF Throws
  <1>13. ASSUME NEW s \in Sessions, NEW new, SetStatus(s, new) PROVE Goal
    BY <1>1, <1>13 DEF SetStatus, TypeOK
  <1>14. ASSUME NEW m \in Messages, Forget(m) PROVE Goal
    BY <1>1, <1>14 DEF Forget, TypeOK
  <1>15. CASE Crash
    <2>1. handler'[h].pc \in {"queued", "idle"}
      BY <1>15, AfterCrash DEF NoHandler, At
    <2> QED BY <2>1 DEF Running
  <1> QED
    BY <1>5, <1>6, <1>7, <1>8, <1>9, <1>10, <1>11, <1>12, <1>13, <1>14, <1>15,
       Kinds DEF Next, HandlerStep, Arrives

LEMMA PausedStep ==
  TypeOK /\ HandlersOK /\ PausedIsQuiet /\ [Next]_vars => PausedIsQuiet'
  <1> SUFFICES ASSUME TypeOK, HandlersOK, PausedIsQuiet, Next,
                      NEW s \in Sessions, status'[s] = "paused",
                      NEW h \in Handlers, handler'[h].pc \in Running,
                      SessionOf(h)' = s
               PROVE  h \in underway'
    BY DEF vars, inputs, PausedIsQuiet, RunsOn, SessionOf
  <1>1. CASE status[s] = "paused"
    <2>1. ~(PrepareRun(h) /\ ~Refuses(SessionOf(h))
            /\ SessionOf(h)' = SessionOf(h))
      BY <1>1 DEF Refuses
    <2>2. /\ handler[h].pc \in Running /\ SessionOf(h) = s
          /\ h \in underway => h \in underway'
      BY <2>1, RunsGoOn
    <2> QED BY <1>1, <2>2 DEF PausedIsQuiet, RunsOn
  <1>2. CASE status[s] # "paused"
    <2>1. SetStatus(s, "paused")
      BY <1>2, StatusWriters
         DEF TypeOK, CloseSession, EnsureSession, CreateSession, SetStatus
    <2>2. handler' = handler /\ underway' = underway \cup RunsOn(s)
      BY <2>1 DEF SetStatus
    <2> QED BY <2>2 DEF RunsOn, SessionOf
  <1> QED BY <1>1, <1>2

-----------------------------------------------------------------------------
(* Why a message is not answered.                                          *)

(* Going on keeps the input; so does every step of another handler.        *)
LEMMA InputKept ==
  ASSUME TypeOK, NEW g \in Handlers, NEW h \in Handlers
  PROVE  /\ \A pc, s : Goto(g, pc) \/ Enter(g, pc, s) =>
              handler'[h].input = InputOf(h)
         /\ g # h => \A pc, i, s : End(g) \/ Begin(g, pc, i, s) =>
              handler'[h].input = InputOf(h)
  BY Writes DEF TypeOK, HandlerStates, Others, InputOf

LEMMA EndsWhy ==
  ASSUME TypeOK, HandlersOK, Next, faults' = 0, NEW h \in Handlers,
         InputOf(h) \in Inputs, InputOf(h)' # InputOf(h)
  PROVE  \/ InputOf(h) \in excused' \/ told'[InputOf(h)] > 0
         \/ InputOf(h) \in Decisions /\ path # "direct"
  <1> DEFINE Goal ==
        \/ InputOf(h) \in excused' \/ told'[InputOf(h)] > 0
        \/ InputOf(h) \in Decisions /\ path # "direct"
  <1>0. /\ InputOf(h)' = handler'[h].input
        /\ ~At(h, "idle") /\ ~(faults' = faults + 1)
        /\ handler \in [Handlers -> HandlerStates]
    BY ConversationConstants
       DEF InputOf, HandlersOK, HandlerOK, TypeOK, HandlerStates, Inputs
  <1>1. ASSUME NEW g \in Handlers, NEW i \in Inputs, Arrives(g, i) PROVE FALSE
    <2>1. At(g, "idle")
      BY <1>1 DEF Arrives, Receive, Enqueue, ReceiveInline, Deliver,
                  ResumeAfterApproval, IsFree
    <2>2. handler' = handler \/ \E pc, s : Begin(g, pc, i, s)
      BY <1>1 DEF Arrives, Receive, Enqueue, ReceiveInline,
                  ResumeAfterApproval
    <2> QED BY <1>0, <2>1, <2>2, InputKept DEF InputOf
  <1>2. ASSUME NEW g \in Handlers,
               \/ FindContact(g) \/ EnsureSession(g) \/ FindSession(g)
               \/ CloseSession(g) \/ \E s \in Sessions : CreateSession(g, s)
        PROVE  FALSE
    <2>1. \E pc, s : Goto(g, pc) \/ Enter(g, pc, s)
      BY <1>2 DEF FindContact, EnsureSession, FindSession, CloseSession,
                  CreateSession
    <2> QED BY <1>0, <2>1, InputKept
  <1>3. ASSUME NEW g \in Handlers, TakeJob(g) \/ RunAgent(g) PROVE FALSE
    BY <1>0, <1>3 DEF TakeJob, RunAgent, InputOf, HandlerStates
  <1>4. ASSUME NEW g \in Handlers,
               \/ CreateContact(g) \/ PrepareRun(g) \/ SaveRun(g)
               \/ SendAnswer(g) \/ Escalate(g)
        PROVE  Goal
    <2>1. End(g) \/ \E pc : Goto(g, pc)
      BY <1>4 DEF CreateContact, PrepareRun, SaveRun, SendAnswer, AfterSend,
                  Escalate
    <2>2. End(g) /\ g = h
      BY <1>0, <2>1, InputKept
    <2>3. ~\E pc \in Places \ {"idle"} : Goto(h, pc)
      BY <1>0, <2>2, Writes
    <2>4. CASE CreateContact(h) \/ PrepareRun(h) \/ Escalate(h)
      <3>1. {"session", "thinking"} \subseteq Places \ {"idle"}
        BY DEF Places, Working, Running
      <3> QED BY <2>3, <2>4, <3>1
              DEF CreateContact, PrepareRun, Escalate, Excuse
    <2>5. CASE SaveRun(h)
      <3>1. AfterSave(h) \in Places \ {"idle"}
        BY DEF AfterSave, Places, Working, Running
      <3>2. \/ InputOf(h) \in excused'
            \/ ~HasRecipient(h)
        BY <2>3, <2>5, <3>1 DEF SaveRun, Excuse
      <3> QED BY <2>5, <3>2 DEF HasRecipient, Inputs, SaveRun
    <2>6. CASE SendAnswer(h)
      BY <2>6 DEF SendAnswer, Tell, TypeOK
    <2> QED BY <1>4, <2>2, <2>4, <2>5, <2>6
  <1>5. ASSUME NEW s \in Sessions, NEW new, SetStatus(s, new) PROVE FALSE
    BY <1>0, <1>5 DEF SetStatus, InputOf
  <1>6. ASSUME NEW g \in Handlers, RunFails(g) \/ SendFails(g) \/ Throws(g)
        PROVE  FALSE
    BY <1>0, <1>6 DEF RunFails, SendFails, Throws
  <1>7. ASSUME NEW m \in Messages, Forget(m) PROVE FALSE
    BY <1>0, <1>7 DEF Forget
  <1>8. CASE Crash
    BY <1>0, <1>8 DEF Crash
  <1> QED
    BY <1>1, <1>2, <1>3, <1>4, <1>5, <1>6, <1>7, <1>8, Kinds
       DEF Next, HandlerStep, Arrives

LEMMA SilenceStep ==
  ASSUME TypeOK, HandlersOK, SeenArrived, SilenceIsExplained, [Next]_vars
  PROVE  SilenceIsExplained'
  <1> SUFFICES ASSUME Next, faults' = 0, NEW i \in Inputs, Handled(i)',
                      told'[i] = 0
               PROVE  i \in excused' \/ (i \in Decisions /\ path' # "direct")
    BY DEF vars, inputs, bounds, SilenceIsExplained, Handled, InputOf
  <1>1. /\ path' = path /\ faults = 0 /\ excused \subseteq excused'
    BY Monotone DEF TypeOK
  <1>2. told[i] = 0
    BY HistoryWriters, Tells DEF TypeOK
  <1>3. CASE \E h \in Handlers : InputOf(h) = i
    BY <1>1, <1>3, EndsWhy DEF Handled
  <1>4. CASE \A h \in Handlers : InputOf(h) # i
    <2>1. CASE arrived[i] > 0
      BY <1>1, <1>2, <1>4, <2>1 DEF SilenceIsExplained, Handled
    <2>2. CASE ~(arrived[i] > 0)
      <3>1. PICK h \in Handlers : Arrives(h, i)
        <4>1. arrived'[i] > 0
          BY DEF Handled
        <4> QED BY <2>2, <4>1, HistoryWriters, ArrivesOnce DEF TypeOK
      <3>2. i \notin seen /\ ~(faults' = faults + 1)
        BY <1>1, <2>2 DEF SeenArrived
      <3>3. \E pc, s : Begin(h, pc, i, s)
        BY <3>1, <3>2
           DEF Arrives, Receive, SeenAlready, Enqueue, ReceiveInline,
               ResumeAfterApproval
      <3>4. InputOf(h)' = i
        BY <3>3, Writes DEF TypeOK, HandlerStates, InputOf
      <3> QED BY <3>4 DEF Handled
    <2> QED BY <2>1, <2>2
  <1> QED BY <1>3, <1>4

-----------------------------------------------------------------------------
(* Counting.                                                               *)

(* Sets that differ in one element at most.                                *)
LEMMA OneElement ==
  ASSUME NEW S, NEW T, IsFiniteSet(S), NEW x, T \ {x} = S \ {x}
  PROVE  /\ IsFiniteSet(T) /\ Cardinality(S) \in Nat /\ Cardinality(T) \in Nat
         /\ Cardinality(T) <= Cardinality(S) + 1
         /\ x \in S \/ x \notin T => Cardinality(T) <= Cardinality(S)
         /\ x \in S /\ x \notin T => Cardinality(T) = Cardinality(S) - 1
  <1>1. /\ IsFiniteSet(S \ {x}) /\ Cardinality(S \ {x}) \in Nat
        /\ Cardinality(S) \in Nat
        /\ Cardinality(S \ {x}) = IF x \in S THEN Cardinality(S) - 1
                                  ELSE Cardinality(S)
    BY FS_RemoveElement, FS_CardinalityType
  <1>2. CASE x \in T
    <2>1. T = (S \ {x}) \cup {x}
      BY <1>2
    <2>2. IsFiniteSet(T) /\ Cardinality(T) = Cardinality(S \ {x}) + 1
      BY <1>1, <2>1, FS_AddElement
    <2> QED BY <1>1, <1>2, <2>2
  <1>3. CASE x \notin T
    <2>1. T = S \ {x}
      BY <1>3
    <2> QED BY <1>1, <1>3, <2>1
  <1> QED BY <1>2, <1>3

(* A set of natural numbers has a smallest element.                        *)
LEMMA Smallest ==
  ASSUME NEW S \in SUBSET Nat, S # {}
  PROVE  \E x \in S : \A y \in S : x <= y
  <1> DEFINE Less == {ss \in Nat \X Nat : ss[1] < ss[2]}
  <1>1. IsWellFoundedOn(Less, Nat)
    BY NatLessThanWellFounded DEF OpToRel
  <1>2. PICK x \in S : \A y \in S : <<y, x>> \notin Less
    BY <1>1, WFMin
  <1>3. ASSUME NEW y \in S PROVE x <= y
    <2>1. <<y, x>> \in Nat \X Nat /\ ~(y < x)
      BY <1>2
    <2> QED BY <2>1
  <1> QED BY <1>3

(* So a customer with an active session has a newest one.                  *)
LEMMA NewestIsFound == ASSUME Found = {} PROVE Active = {}
  <1> SUFFICES ASSUME NEW t \in Active PROVE FALSE
    OBVIOUS
  <1> DEFINE Rest ==
        {n \in Nat : n <= MaxSessions /\ MaxSessions - n \in Active}
  <1>0. \A s \in Active : s \in Nat /\ s <= MaxSessions
    BY ConversationConstants DEF Active, Sessions
  <1>1. Rest \in SUBSET Nat /\ \A s \in Active : MaxSessions - s \in Rest
    BY <1>0, ConversationConstants
  <1>2. PICK m \in Rest : \A k \in Rest : m <= k
    BY <1>1, Smallest
  <1>3. m \in Nat /\ MaxSessions - m \in Active
    OBVIOUS
  <1>4. \A r \in Active : r <= MaxSessions - m
    BY <1>0, <1>1, <1>2, <1>3, ConversationConstants
  <1> QED BY <1>3, <1>4 DEF Found

LEMMA Sets ==
  /\ IsFiniteSet(Sessions)
  /\ IsFiniteSet(Handlers) /\ Cardinality(Handlers) \in Nat
  /\ IsFiniteSet(Active) /\ Cardinality(Active) \in Nat
  /\ IsFiniteSet(Creators) /\ Cardinality(Creators) \in Nat
  /\ Cardinality(Creators) <= Cardinality(Handlers)
  <1>1. IsFiniteSet(Handlers) /\ IsFiniteSet(Sessions)
    <2>1. 1 \in Int /\ MaxHandlers \in Int /\ MaxSessions \in Int
      BY ConversationConstants
    <2> QED BY <2>1, FS_Interval, ZenonT(60) DEF Handlers, Sessions
  <1>2. Active \in SUBSET Sessions /\ Creators \in SUBSET Handlers
    BY DEF Active, Creators
  <1> QED BY <1>1, <1>2, FS_Subset, FS_CardinalityType

(* A step is a step of one handler, or of none, or a crash.                *)
Acts(h) ==
  \/ HandlerStep(h) \/ RunFails(h) \/ SendFails(h) \/ Throws(h)
  \/ \E i \in Inputs : Arrives(h, i)

LEMMA Steps ==
  ASSUME Next
  PROVE  \/ \E h \in Handlers : Acts(h)
         \/ \E s \in Sessions, new \in {"active", "paused", "closed"} :
              SetStatus(s, new)
         \/ \E m \in Messages : Forget(m)
         \/ Crash
  BY Kinds DEF Next, Acts, Arrives

LEMMA ActsAlone ==
  ASSUME TypeOK, NEW h \in Handlers, Acts(h)
  PROVE  Others(h)
  <1>0. handler \in [Handlers -> HandlerStates]
    BY DEF TypeOK, HandlerStates
  <1>1. \/ handler' = handler
        \/ End(h) \/ \E pc, i, s : Goto(h, pc) \/ Enter(h, pc, s)
                                   \/ Begin(h, pc, i, s)
        \/ TakeJob(h) \/ RunAgent(h)
        \/ handler' = [handler EXCEPT ![h].tries = @ + 1]
        \/ handler' = [handler EXCEPT ![h] = Again(h)]
    BY DEF Acts, HandlerStep, Arrives, Receive, Enqueue, ReceiveInline,
           ResumeAfterApproval, FindContact, CreateContact, FindSession,
           CloseSession, CreateSession, EnsureSession, PrepareRun, RunFails,
           SaveRun, SendAnswer, SendFails, AfterSend, Escalate, Throws
  <1>2. CASE TakeJob(h) \/ RunAgent(h)
    BY <1>0, <1>2 DEF TakeJob, RunAgent, Others
  <1> QED BY <1>0, <1>1, <1>2, Writes DEF Others

(* Only the lookup makes a handler one that will create a session.         *)
LEMMA CreatesWhy ==
  ASSUME TypeOK, NEW h \in Handlers, Acts(h), handler'[h].pc \in Creating
  PROVE  handler[h].pc \in Creating \/ FindSession(h)
  <1>0. handler \in [Handlers -> HandlerStates]
    BY DEF TypeOK, HandlerStates
  <1>1. CASE \E i \in Inputs : Arrives(h, i)
    BY <1>0, <1>1, Writes
       DEF Arrives, Receive, Enqueue, ReceiveInline, ResumeAfterApproval,
           AfterKeywords, Creating
  <1>2. CASE HandlerStep(h)
    <2>1. CASE TakeJob(h) \/ RunAgent(h)
      BY <1>0, <2>1
         DEF TakeJob, RunAgent, AfterKeywords, Creating, HandlerStates
    <2>2. CASE CloseSession(h)
      BY <2>2 DEF CloseSession, At, Creating
    <2>3. CASE ~(TakeJob(h) \/ RunAgent(h) \/ CloseSession(h)
                 \/ FindSession(h))
      <3>1. \/ End(h)
            \/ \E pc \in {"session", "newcontact", "prepare", "thinking",
                          "escalate", "send"} :
                 Goto(h, pc) \/ \E s : Enter(h, pc, s)
        BY <1>2, <2>3
           DEF HandlerStep, FindContact, CreateContact, CreateSession,
               EnsureSession, PrepareRun, SaveRun, AfterSave, SendAnswer,
               AfterSend, Escalate
      <3> QED BY <1>0, <3>1, Writes DEF Creating
    <2> QED BY <2>1, <2>2, <2>3
  <1>3. CASE RunFails(h)
    BY <1>0, <1>3, Writes DEF RunFails, Creating
  <1>4. CASE SendFails(h)
    <2>1. \/ End(h) \/ Goto(h, "escalate")
          \/ handler' = [handler EXCEPT ![h].tries = @ + 1]
      BY <1>4 DEF SendFails, AfterSend
    <2>2. handler' = [handler EXCEPT ![h].tries = @ + 1] =>
            handler'[h].pc = handler[h].pc
      BY <1>0 DEF HandlerStates
    <2> QED BY <1>0, <2>1, <2>2, Writes DEF Creating
  <1>5. CASE Throws(h)
    <2>1. End(h) \/ handler' = [handler EXCEPT ![h] = Again(h)]
      BY <1>5 DEF Throws
    <2>2. handler' = [handler EXCEPT ![h] = Again(h)] =>
            handler'[h].pc = "queued"
      BY <1>0 DEF Again, HandlerStates
    <2> QED BY <1>0, <2>1, <2>2, Writes DEF Creating
  <1> QED BY <1>1, <1>2, <1>3, <1>4, <1>5 DEF Acts

LEMMA CountStep ==
  ASSUME TypeOK, TypeOK', HandlersOK, HandlersOK', OneSession', SessionCount,
         [Next]_vars
  PROVE  SessionCount'
  <1>0. /\ IsFiniteSet(Active) /\ IsFiniteSet(Active')
        /\ IsFiniteSet(Creators) /\ IsFiniteSet(Creators')
        /\ Cardinality(Handlers) \in Nat
        /\ Cardinality(Active) \in Nat /\ Cardinality(Active') \in Nat
        /\ Cardinality(Creators) \in Nat /\ Cardinality(Creators') \in Nat
        /\ Cardinality(Creators') <= Cardinality(Handlers)
    <2>1. Active' \in SUBSET Sessions /\ Creators' \in SUBSET Handlers
      BY DEF Active, Creators
    <2>2. IsFiniteSet(Sessions)
      BY Sets
    <2>3. IsFiniteSet(Active') /\ IsFiniteSet(Creators')
      BY <2>1, <2>2, Sets, FS_Subset
    <2>4. Cardinality(Creators') <= Cardinality(Handlers)
      BY <2>1, Sets, FS_Subset
    <2>5. Cardinality(Active') \in Nat
      BY <2>3, FS_CardinalityType
    <2>6. Cardinality(Creators') \in Nat
      BY <2>3, FS_CardinalityType
    <2> QED BY <2>3, <2>4, <2>5, <2>6, Sets
  <1>1. /\ resets \in Nat /\ ops \in Nat /\ resets' \in Nat /\ ops' \in Nat
        /\ Cardinality(Active) + Cardinality(Creators)
             <= Cardinality(Handlers) + resets + ops
    BY DEF TypeOK, SessionCount
  <1>2. Cardinality(Active') + Cardinality(Creators')
          <= Cardinality(Handlers) + resets' + ops' => SessionCount'
    BY DEF SessionCount
  <1>3. Creators' \subseteq Creators =>
          Cardinality(Creators') <= Cardinality(Creators)
    BY <1>0, FS_Subset
  <1>4. Active' \subseteq Active =>
          Cardinality(Active') <= Cardinality(Active)
    BY <1>0, FS_Subset
  <1>5. /\ resets' = resets \/ resets' = resets + 1
        /\ ops' = ops \/ ops' = ops + 1
    BY DEF vars, bounds, inputs, Next, HandlerStep, Receive, Enqueue,
         ReceiveInline, ResumeAfterApproval, FindContact, CreateContact,
         FindSession, CloseSession, CreateSession, TakeJob, EnsureSession,
         PrepareRun, RunAgent, RunFails, SaveRun, SendAnswer, SendFails,
         Escalate, SetStatus, Throws, Forget, Crash
  <1>6. CASE Active' \subseteq Active /\ Creators' \subseteq Creators
    BY <1>0, <1>1, <1>2, <1>3, <1>4, <1>5, <1>6
  <1>7. ASSUME NEW h \in Handlers, Acts(h) PROVE SessionCount'
    <2>1. Creators' \ {h} = Creators \ {h}
      BY <1>7, ActsAlone DEF Others, Creators
    <2>2. /\ Cardinality(Creators') <= Cardinality(Creators) + 1
          /\ h \in Creators \/ h \notin Creators' =>
               Cardinality(Creators') <= Cardinality(Creators)
          /\ h \in Creators /\ h \notin Creators' =>
               Cardinality(Creators') = Cardinality(Creators) - 1
      BY <1>0, <2>1, OneElement
    <2>3. CASE FindSession(h)
      <3>1. status' = status /\ Active' = Active
        BY <2>3 DEF FindSession, Active
      <3>2. CASE Found = {}
        <4>1. Active' = {}
          BY <3>1, <3>2, NewestIsFound
        <4>2. Cardinality(Active') = 0
          BY <4>1, FS_EmptySet
        <4> QED BY <1>0, <1>1, <1>2, <4>2
      <3>3. CASE resets' = resets + 1
        BY <1>0, <1>1, <1>2, <1>4, <1>5, <2>2, <3>1, <3>3
      <3>4. CASE \E s \in Found : Enter(h, "prepare", s)
        <4>1. h \notin Creators'
          BY <3>4, Writes DEF TypeOK, HandlerStates, Creators, Creating
        <4> QED BY <1>0, <1>1, <1>2, <1>4, <1>5, <2>2, <3>1, <4>1
      <3> QED BY <2>3, <3>2, <3>3, <3>4 DEF FindSession
    <2>4. CASE \E s \in Sessions : CreateSession(h, s)
      <3>1. PICK s \in Sessions : CreateSession(h, s)
        BY <2>4
      <3>2. Active' \ {s} = Active \ {s}
        BY <3>1 DEF CreateSession, Active, TypeOK
      <3>3. Cardinality(Active') <= Cardinality(Active) + 1
        BY <1>0, <3>2, OneElement
      <3>4. h \in Creators /\ h \notin Creators'
        BY <3>1, Writes
           DEF CreateSession, At, TypeOK, HandlerStates, Creators, Creating
      <3> QED BY <1>0, <1>1, <1>2, <1>5, <2>2, <3>3, <3>4
    <2>5. CASE EnsureSession(h)
      <3>1. path' # "direct"
        BY <2>5 DEF EnsureSession, HandlersOK, HandlerOK, At
      <3>2. Creators' = {}
        BY <3>1 DEF HandlersOK, HandlerOK, Creators, OfProcessor
      <3>3. Active' \subseteq {1}
        BY <3>1 DEF OneSession, Active
      <3>4. Cardinality(Creators') = 0 /\ Cardinality(Active') <= 1
        <4>1. IsFiniteSet({1}) /\ Cardinality({1}) = 1
          BY FS_Singleton
        <4>2. Cardinality(Active') <= Cardinality({1})
          BY <3>3, <4>1, FS_Subset
        <4> QED BY <3>2, <4>1, <4>2, FS_EmptySet
      <3>5. Cardinality(Handlers) >= 1
        BY <1>0, Sets, FS_EmptySet
      <3> QED BY <1>0, <1>1, <1>2, <3>4, <3>5
    <2>6. CASE ~(FindSession(h) \/ EnsureSession(h)
                 \/ \E s \in Sessions : CreateSession(h, s))
      <3>1. Active' \subseteq Active
        <4>1. CASE CloseSession(h)
          BY <4>1 DEF CloseSession, Active, TypeOK
        <4>2. CASE ~CloseSession(h)
          <5>1. status' = status
            BY <1>7, <2>6, <4>2
               DEF Acts, HandlerStep, Arrives, Receive, Enqueue,
                   ReceiveInline, ResumeAfterApproval, FindContact,
                   CreateContact, TakeJob, PrepareRun, RunAgent, RunFails,
                   SaveRun, SendAnswer, SendFails, Escalate, Throws
          <5> QED BY <5>1 DEF Active
        <4> QED BY <4>1, <4>2
      <3>2. h \in Creators' => h \in Creators
        BY <1>7, <2>6, CreatesWhy DEF Creators
      <3>3. Creators' \subseteq Creators
        BY <2>1, <3>2
      <3> QED BY <1>6, <3>1, <3>3
    <2> QED BY <2>3, <2>4, <2>5, <2>6
  <1>8. ASSUME NEW s \in Sessions, NEW new, SetStatus(s, new)
        PROVE  SessionCount'
    <2>1. /\ Active' \ {s} = Active \ {s} /\ Creators' = Creators
          /\ ops' = ops + 1 /\ resets' = resets
      BY <1>8 DEF SetStatus, Active, Creators, TypeOK
    <2>2. Cardinality(Active') <= Cardinality(Active) + 1
      BY <1>0, <2>1, OneElement
    <2> QED BY <1>0, <1>1, <1>2, <1>3, <2>1, <2>2
  <1>9. ASSUME NEW m \in Messages, Forget(m)
        PROVE  SessionCount'
    BY <1>6, <1>9 DEF Forget, Active, Creators
  <1>10. CASE Crash
    <2>1. Active' = Active
      BY <1>10 DEF Crash, Active
    <2>2. Creators' = {}
      <3> SUFFICES ASSUME NEW h \in Handlers
                   PROVE  handler'[h].pc \notin Creating
        BY DEF Creators
      <3> QED BY <1>10, AfterCrash DEF At, NoHandler, Creating
    <2> QED BY <1>6, <2>1, <2>2
  <1>11. CASE UNCHANGED vars
    BY <1>6, <1>11 DEF vars, Active, Creators
  <1> QED BY <1>7, <1>8, <1>9, <1>10, <1>11, Steps

-----------------------------------------------------------------------------
(* What has been told, and what is still owed.                             *)

LEMMA Product ==
  ASSUME NEW a \in Nat, NEW f \in Nat
  PROVE  /\ a * (1 + f) \in Nat
         /\ a * (1 + (f + 1)) = a * (1 + f) + a
         /\ (a + 1) * (1 + f) = a * (1 + f) + 1 + f
         /\ (a + 1) * (1 + (f + 1)) = a * (1 + f) + a + 2 + f
         /\ a <= 1 => a * (1 + f) <= 1 + f
         /\ a >= 1 => a * (1 + f) >= 1
  <1>1. a * (1 + f) \in Nat
    OBVIOUS
  <1>2. a <= 1 => a = 0 \/ a = 1
    OBVIOUS
  <1> QED BY <1>1, <1>2

(* The sets of an input, and what a handler's step does to them.           *)
LEMMA JobSets ==
  ASSUME NEW i
  PROVE  /\ IsFiniteSet(Jobs(i)) /\ Cardinality(Jobs(i)) \in Nat
         /\ IsFiniteSet(Owing(i)) /\ Cardinality(Owing(i)) \in Nat
         /\ Owing(i) \subseteq Jobs(i)
         /\ IsFiniteSet(Jobs(i)') /\ Cardinality(Jobs(i)') \in Nat
         /\ IsFiniteSet(Owing(i)') /\ Cardinality(Owing(i)') \in Nat
         /\ Owing(i)' \subseteq Jobs(i)'
  <1>1. IsFiniteSet(Handlers)
    BY Sets
  <1>2. /\ Jobs(i) \in SUBSET Handlers /\ Owing(i) \in SUBSET Handlers
        /\ Jobs(i)' \in SUBSET Handlers /\ Owing(i)' \in SUBSET Handlers
        /\ Owing(i) \subseteq Jobs(i) /\ Owing(i)' \subseteq Jobs(i)'
    BY DEF Jobs, Owing
  <1>3. /\ IsFiniteSet(Jobs(i)) /\ IsFiniteSet(Owing(i))
        /\ IsFiniteSet(Jobs(i)') /\ IsFiniteSet(Owing(i)')
    BY <1>1, <1>2, FS_Subset
  <1>4. Cardinality(Jobs(i)) \in Nat
    BY <1>3, FS_CardinalityType
  <1>5. Cardinality(Owing(i)) \in Nat
    BY <1>3, FS_CardinalityType
  <1>6. Cardinality(Jobs(i)') \in Nat
    BY <1>3, FS_CardinalityType
  <1>7. Cardinality(Owing(i)') \in Nat
    BY <1>3, FS_CardinalityType
  <1> QED BY <1>2, <1>3, <1>4, <1>5, <1>6, <1>7

(* How the counts of an input change with a step of one handler.           *)
LEMMA JobCounts ==
  ASSUME NEW i, NEW h \in Handlers, Others(h)
  PROVE  /\ Cardinality(Jobs(i)') <= Cardinality(Jobs(i)) + 1
         /\ Cardinality(Owing(i)') <= Cardinality(Owing(i)) + 1
         /\ h \in Jobs(i) \/ h \notin Jobs(i)' =>
              Cardinality(Jobs(i)') <= Cardinality(Jobs(i))
         /\ h \in Owing(i) \/ h \notin Owing(i)' =>
              Cardinality(Owing(i)') <= Cardinality(Owing(i))
         /\ h \in Jobs(i) /\ h \notin Jobs(i)' =>
              Cardinality(Jobs(i)') = Cardinality(Jobs(i)) - 1
         /\ h \in Owing(i) /\ h \notin Owing(i)' =>
              Cardinality(Owing(i)') = Cardinality(Owing(i)) - 1
  <1>1. Jobs(i)' \ {h} = Jobs(i) \ {h}
    BY DEF Others, Jobs, At, InputOf
  <1>2. Owing(i)' \ {h} = Owing(i) \ {h}
    BY DEF Others, Owing, Jobs, At, InputOf
  <1> QED BY <1>1, <1>2, JobSets, OneElement

(* What was told stays within its bound when nothing more is told or owed. *)
LEMMA TellingFrame ==
  ASSUME TypeOK, TypeOK', NEW i \in Inputs, TellingOK(i),
         path' = path, faults' = faults \/ faults' = faults + 1,
         told'[i] = told[i], arrived'[i] = arrived[i],
         i \in seen => i \in seen',
         Cardinality(Jobs(i)') <= Cardinality(Jobs(i)),
         Cardinality(Owing(i)') <= Cardinality(Owing(i))
  PROVE  TellingOK(i)'
  <1>1. /\ faults \in Nat /\ arrived[i] \in Nat /\ told[i] \in Nat
    BY DEF TypeOK
  <1>2. arrived[i] * (1 + faults') >= arrived[i] * (1 + faults)
    BY <1>1, Product
  <1>3. /\ Cardinality(Jobs(i)) \in Nat /\ Cardinality(Owing(i)) \in Nat
        /\ Cardinality(Jobs(i)') \in Nat /\ Cardinality(Owing(i)') \in Nat
    BY JobSets
  <1>4. arrived[i] * (1 + faults) \in Nat /\ arrived[i] * (1 + faults') \in Nat
    BY <1>1, Product
  <1>5. i \in Messages /\ path = "direct" =>
          told[i] + Cardinality(Jobs(i)')
            <= (IF i \in seen' THEN 1 ELSE 0) + faults'
    BY <1>1, <1>3 DEF TellingOK
  <1>6. i \in Decisions \/ path # "direct" =>
          /\ Cardinality(Jobs(i)') <= arrived[i]
          /\ told[i] + Cardinality(Owing(i)') <= arrived[i] * (1 + faults')
    BY <1>1, <1>2, <1>3, <1>4 DEF TellingOK
  <1> QED BY <1>5, <1>6 DEF TellingOK

(* A delivery adds one job of its input and one answer owed, at most.      *)
LEMMA ArrivalTells ==
  ASSUME TypeOK, TypeOK', HandlersOK, Telling, NEW h \in Handlers,
         NEW j \in Inputs, Arrives(h, j), NEW i \in Inputs
  PROVE  TellingOK(i)'
  <1>1. /\ faults \in Nat /\ arrived[i] \in Nat /\ told[i] \in Nat
        /\ TellingOK(i) /\ handler \in [Handlers -> HandlerStates]
    BY DEF TypeOK, Telling, HandlerStates
  <1>2. /\ path' = path /\ told' = told /\ Others(h)
        /\ faults' = faults \/ faults' = faults + 1
        /\ arrived' = [arrived EXCEPT ![j] = arrived[j] + 1]
        /\ j \in Decisions => arrived[j] = 0
    <2>1. Others(h)
      BY ActsAlone DEF Acts
    <2> QED
      BY <2>1, ArrivesOnce
         DEF Arrives, Receive, Enqueue, ReceiveInline, ResumeAfterApproval,
             bounds
  <1>3. /\ handler' = handler \/ \E pc, s : Begin(h, pc, j, s)
        /\ At(h, "idle")
    BY DEF Arrives, Receive, Enqueue, ReceiveInline, Deliver,
           ResumeAfterApproval, IsFree
  <1>4. /\ Cardinality(Jobs(i)) \in Nat /\ Cardinality(Owing(i)) \in Nat
        /\ Cardinality(Jobs(i)') \in Nat /\ Cardinality(Owing(i)') \in Nat
        /\ Cardinality(Jobs(i)') <= Cardinality(Jobs(i)) + 1
        /\ Cardinality(Owing(i)') <= Cardinality(Owing(i)) + 1
        /\ h \notin Jobs(i)' =>
             Cardinality(Jobs(i)') <= Cardinality(Jobs(i))
        /\ h \notin Owing(i)' =>
             Cardinality(Owing(i)') <= Cardinality(Owing(i))
    BY <1>2, JobSets, JobCounts
  <1>5. ASSUME i # j PROVE TellingOK(i)'
    <2>1. h \notin Jobs(i)' /\ h \notin Owing(i)'
      BY <1>1, <1>3, <1>5, Writes DEF Jobs, Owing, At, InputOf
    <2>2. told'[i] = told[i] /\ arrived'[i] = arrived[i]
      BY <1>2, <1>5 DEF TypeOK
    <2>3. seen \subseteq seen'
      BY DEF Arrives, Receive, Enqueue, ReceiveInline, ResumeAfterApproval
    <2> QED BY <1>1, <1>2, <1>4, <2>1, <2>2, <2>3, TellingFrame
  <1>6. ASSUME i = j PROVE TellingOK(i)'
    <2>0. told'[i] = told[i] /\ arrived'[i] = arrived[i] + 1
      BY <1>2, <1>6 DEF TypeOK
    <2>1. CASE i \in Messages /\ path = "direct"
      <3>1. Receive(h, i) /\ i \notin Decisions
        BY <1>6, <2>1, ConversationConstants
           DEF Arrives, Enqueue, ReceiveInline
      <3>2. told[i] + Cardinality(Jobs(i))
              <= (IF i \in seen THEN 1 ELSE 0) + faults
        BY <1>1, <2>1 DEF TellingOK
      <3>3. faults' = faults
        BY <3>1 DEF Receive, bounds
      <3>4. told[i] + Cardinality(Jobs(i)')
              <= (IF i \in seen' THEN 1 ELSE 0) + faults'
        <4>1. CASE i \in seen
          <5>1. handler' = handler /\ seen' = seen
            BY <3>1, <4>1 DEF Receive, SeenAlready
          <5>2. h \notin Jobs(i)'
            BY <1>3, <5>1 DEF Jobs, At
          <5> QED BY <1>1, <1>4, <3>2, <3>3, <4>1, <5>1, <5>2
        <4>2. CASE i \notin seen
          <5>1. i \in seen'
            BY <3>1, <4>2 DEF Receive, SeenAlready
          <5> QED BY <1>1, <1>4, <3>2, <3>3, <4>2, <5>1
        <4> QED BY <4>1, <4>2
      <3> QED BY <1>2, <2>0, <2>1, <3>1, <3>4 DEF TellingOK
    <2>2. CASE i \in Decisions \/ path # "direct"
      <3>1. /\ Cardinality(Jobs(i)) <= arrived[i]
            /\ told[i] + Cardinality(Owing(i)) <= arrived[i] * (1 + faults)
        BY <1>1, <2>2 DEF TellingOK
      <3>2. arrived'[i] * (1 + faults') >= arrived[i] * (1 + faults) + 1
            /\ arrived[i] * (1 + faults) \in Nat
            /\ arrived'[i] * (1 + faults') \in Nat
        BY <1>1, <1>2, <2>0, Product
      <3>3. /\ Cardinality(Jobs(i)') <= arrived'[i]
            /\ told'[i] + Cardinality(Owing(i)') <= arrived'[i] * (1 + faults')
        BY <1>1, <1>4, <2>0, <3>1, <3>2
      <3>4. i \in Decisions => arrived'[i] <= 1
        BY <1>2, <1>6, <2>0
      <3>5. ~(i \in Messages /\ path' = "direct")
        BY <1>2, <2>2, ConversationConstants
      <3> QED BY <3>3, <3>4, <3>5 DEF TellingOK
    <2> QED BY <2>1, <2>2 DEF Inputs
  <1> QED BY <1>5, <1>6

(* A send ends what its handler owes, or costs a failure.                  *)
LEMMA SendTells ==
  ASSUME TypeOK, TypeOK', HandlersOK, Telling, NEW h \in Handlers,
         SendAnswer(h) \/ SendFails(h), NEW i \in Inputs
  PROVE  TellingOK(i)'
  <1>1. /\ faults \in Nat /\ arrived[i] \in Nat /\ told[i] \in Nat
        /\ TellingOK(i) /\ handler \in [Handlers -> HandlerStates]
        /\ HandlerOK(h) /\ At(h, "send")
    BY Tells DEF TypeOK, Telling, HandlersOK, HandlerStates
  <1>2. /\ path' = path /\ arrived' = arrived /\ seen' = seen
        /\ faults' = faults \/ faults' = faults + 1
    BY DEF SendAnswer, SendFails, bounds
  <1>3. Others(h)
    BY ActsAlone DEF Acts, HandlerStep
  <1>4. /\ Cardinality(Jobs(i)) \in Nat /\ Cardinality(Owing(i)) \in Nat
        /\ Cardinality(Jobs(i)') \in Nat /\ Cardinality(Owing(i)') \in Nat
        /\ h \in Jobs(i) \/ h \notin Jobs(i)' =>
             Cardinality(Jobs(i)') <= Cardinality(Jobs(i))
        /\ h \in Owing(i) \/ h \notin Owing(i)' =>
             Cardinality(Owing(i)') <= Cardinality(Owing(i))
        /\ h \in Jobs(i) /\ h \notin Jobs(i)' =>
              Cardinality(Jobs(i)') = Cardinality(Jobs(i)) - 1
        /\ h \in Owing(i) /\ h \notin Owing(i)' =>
              Cardinality(Owing(i)') = Cardinality(Owing(i)) - 1
    BY <1>3, JobSets, JobCounts
  <1>5. \/ End(h)
        \/ Goto(h, "escalate") /\ handler[h].reply = "marked"
        \/ /\ handler' = [handler EXCEPT ![h].tries = @ + 1]
           /\ faults' = faults + 1
    BY DEF SendAnswer, SendFails, AfterSend
  <1>6. InputOf(h) \in Inputs
    BY <1>1 DEF HandlerOK, At
  <1>7. handler' = [handler EXCEPT ![h].tries = @ + 1] =>
          handler'[h].pc = "send" /\ handler'[h].input = InputOf(h)
    BY <1>1 DEF HandlerStates, At, InputOf
  <1>8. ASSUME i # InputOf(h) PROVE TellingOK(i)'
    <2>1. told'[i] = told[i]
      BY <1>8, Tells DEF TypeOK
    <2>2. h \notin Jobs(i)' /\ h \notin Owing(i)'
      BY <1>1, <1>5, <1>7, <1>8, Writes DEF Jobs, Owing, At, InputOf
    <2> QED BY <1>1, <1>2, <1>4, <2>1, <2>2, TellingFrame
  <1>9. ASSUME i = InputOf(h) PROVE TellingOK(i)'
    <2>1. h \in Jobs(i) /\ h \in Owing(i) /\ told'[i] \in {told[i], told[i] + 1}
      BY <1>1, <1>9, Tells DEF Jobs, Owing, At, TypeOK
    <2>2. CASE i \in Messages /\ path = "direct"
      <3>1. told[i] + Cardinality(Jobs(i))
              <= (IF i \in seen THEN 1 ELSE 0) + faults
        BY <1>1, <2>2 DEF TellingOK
      <3>2. handler[h].reply \in {"text", "empty"}
        BY <1>1, <2>2 DEF HandlerOK, At
      <3>3. h \notin Jobs(i)' \/ faults' = faults + 1
        BY <1>1, <1>5, <3>2, Writes DEF Jobs, At
      <3>4. told'[i] + Cardinality(Jobs(i)')
              <= (IF i \in seen' THEN 1 ELSE 0) + faults'
        BY <1>1, <1>2, <1>4, <2>1, <3>1, <3>3
      <3> QED BY <1>2, <2>2, <3>4, ConversationConstants DEF TellingOK
    <2>3. CASE i \in Decisions \/ path # "direct"
      <3>1. /\ Cardinality(Jobs(i)) <= arrived[i]
            /\ told[i] + Cardinality(Owing(i)) <= arrived[i] * (1 + faults)
            /\ i \in Decisions => arrived[i] <= 1
        BY <1>1, <2>3 DEF TellingOK
      <3>2. h \notin Owing(i)' \/ faults' = faults + 1
        BY <1>1, <1>5, Writes DEF Jobs, Owing, At
      <3>3. arrived[i] >= 1
        BY <1>1, <1>9 DEF HandlerOK, At
      <3>4. /\ arrived[i] * (1 + faults) \in Nat
            /\ arrived[i] * (1 + faults') \in Nat
            /\ arrived[i] * (1 + faults') >= arrived[i] * (1 + faults)
            /\ faults' = faults + 1 => arrived[i] * (1 + faults')
                 >= arrived[i] * (1 + faults) + 1
        BY <1>1, <1>2, <3>3, Product
      <3>5. told'[i] + Cardinality(Owing(i)') <= arrived[i] * (1 + faults')
        BY <1>1, <1>4, <2>1, <3>1, <3>2, <3>4
      <3>6. Cardinality(Jobs(i)') <= arrived[i]
        BY <1>1, <1>4, <2>1, <3>1
      <3>7. ~(i \in Messages /\ path' = "direct")
        BY <1>2, <2>3, ConversationConstants
      <3> QED BY <1>2, <3>1, <3>5, <3>6, <3>7 DEF TellingOK
    <2> QED BY <2>2, <2>3 DEF Inputs
  <1> QED BY <1>8, <1>9

(* A failure may make one answer owed again.                               *)
LEMMA ThrowTells ==
  ASSUME TypeOK, TypeOK', HandlersOK, Telling, NEW h \in Handlers,
         Throws(h), NEW i \in Inputs
  PROVE  TellingOK(i)'
  <1>1. /\ faults \in Nat /\ arrived[i] \in Nat /\ told[i] \in Nat
        /\ TellingOK(i) /\ handler \in [Handlers -> HandlerStates]
        /\ HandlerOK(h) /\ handler[h].pc \in Working
    BY DEF TypeOK, Telling, HandlersOK, HandlerStates, Throws
  <1>2. /\ path' = path /\ arrived' = arrived /\ seen' = seen /\ told' = told
        /\ faults' = faults + 1
    BY DEF Throws
  <1>3. Others(h)
    BY ActsAlone DEF Acts
  <1>4. /\ Cardinality(Jobs(i)) \in Nat /\ Cardinality(Owing(i)) \in Nat
        /\ Cardinality(Jobs(i)') \in Nat /\ Cardinality(Owing(i)') \in Nat
        /\ Cardinality(Owing(i)') <= Cardinality(Owing(i)) + 1
        /\ h \in Jobs(i) \/ h \notin Jobs(i)' =>
             Cardinality(Jobs(i)') <= Cardinality(Jobs(i))
        /\ h \in Owing(i) \/ h \notin Owing(i)' =>
             Cardinality(Owing(i)') <= Cardinality(Owing(i))
    BY <1>3, JobSets, JobCounts
  <1>5. CASE h \notin Jobs(i)'
    BY <1>1, <1>2, <1>4, <1>5, TellingFrame DEF Owing
  <1>6. CASE h \in Jobs(i)'
    <2>1. ~End(h)
      BY <1>1, <1>6, Writes DEF Jobs, At
    <2>2. InChatwoot(h) /\ handler' = [handler EXCEPT ![h] = Again(h)]
      BY <2>1 DEF Throws
    <2>3. handler'[h].input = InputOf(h)
      BY <1>1, <2>2 DEF Again, InputOf, HandlerStates
    <2>4. i = InputOf(h) /\ h \in Jobs(i)
      BY <1>1, <1>6, <2>3 DEF Jobs, InputOf, At, Working, Running
    <2>5. path # "direct" /\ i \in Messages /\ arrived[i] >= 1
      BY <1>1, <2>2, <2>4 DEF InChatwoot, HandlerOK, Jobs
    <2>6. /\ Cardinality(Jobs(i)) <= arrived[i]
          /\ told[i] + Cardinality(Owing(i)) <= arrived[i] * (1 + faults)
      BY <1>1, <2>5 DEF TellingOK
    <2>7. /\ arrived[i] * (1 + faults) \in Nat
          /\ arrived[i] * (1 + (faults + 1)) =
               arrived[i] * (1 + faults) + arrived[i]
      BY <1>1, Product
    <2>8. /\ told[i] + Cardinality(Owing(i)') <= arrived[i] * (1 + faults')
          /\ Cardinality(Jobs(i)') <= arrived[i]
      BY <1>1, <1>2, <1>4, <2>4, <2>5, <2>6, <2>7
    <2> QED BY <1>2, <2>5, <2>8, ConversationConstants DEF TellingOK
  <1> QED BY <1>5, <1>6

(* A crash may make every job's answer owed again, each once.              *)
LEMMA CrashTells ==
  ASSUME TypeOK, TypeOK', HandlersOK, Telling, Crash, NEW i \in Inputs
  PROVE  TellingOK(i)'
  <1>1. /\ faults \in Nat /\ arrived[i] \in Nat /\ told[i] \in Nat
        /\ TellingOK(i) /\ handler \in [Handlers -> HandlerStates]
    BY DEF TypeOK, Telling, HandlerStates
  <1>2. /\ path' = path /\ arrived' = arrived /\ seen' = {} /\ told' = told
        /\ faults' = faults + 1
    BY DEF Crash
  <1>3. Jobs(i)' \subseteq Jobs(i)
    <2> SUFFICES ASSUME NEW h \in Handlers, ~At(h, "idle")', InputOf(h)' = i
                 PROVE  ~At(h, "idle") /\ InputOf(h) = i
      BY DEF Jobs
    <2>1. handler'[h] # NoHandler
      BY DEF At, NoHandler
    <2> QED BY <2>1, AfterCrash DEF At, InputOf, Working, Running
  <1>4. /\ Cardinality(Jobs(i)) \in Nat /\ Cardinality(Owing(i)) \in Nat
        /\ Cardinality(Jobs(i)') \in Nat /\ Cardinality(Owing(i)') \in Nat
        /\ Cardinality(Jobs(i)') <= Cardinality(Jobs(i))
        /\ Cardinality(Owing(i)') <= Cardinality(Jobs(i))
    <2>1. Owing(i)' \subseteq Jobs(i)
      BY <1>3, JobSets
    <2>2. Cardinality(Owing(i)') <= Cardinality(Jobs(i))
      BY <2>1, JobSets, FS_Subset
    <2>3. Cardinality(Jobs(i)') <= Cardinality(Jobs(i))
      BY <1>3, JobSets, FS_Subset
    <2> QED BY <2>2, <2>3, JobSets
  <1>5. CASE i \in Messages /\ path = "direct"
    <2>1. Jobs(i)' = {}
      <3> SUFFICES ASSUME NEW h \in Handlers PROVE At(h, "idle")'
        BY DEF Jobs
      <3>1. ~At(h, "queued")
        BY <1>5 DEF HandlersOK, HandlerOK
      <3>2. handler'[h] = NoHandler
        BY <1>5, <3>1, AfterCrash
      <3> QED BY <3>2 DEF At, NoHandler
    <2>2. Cardinality(Jobs(i)') = 0
      BY <2>1, FS_EmptySet
    <2>3. told[i] + Cardinality(Jobs(i))
            <= (IF i \in seen THEN 1 ELSE 0) + faults
      BY <1>1, <1>5 DEF TellingOK
    <2>4. told[i] + Cardinality(Jobs(i)')
            <= (IF i \in seen' THEN 1 ELSE 0) + faults'
      BY <1>1, <1>2, <1>4, <2>2, <2>3
    <2> QED BY <1>2, <1>5, <2>4, ConversationConstants DEF TellingOK
  <1>6. CASE i \in Decisions \/ path # "direct"
    <2>1. /\ Cardinality(Jobs(i)) <= arrived[i]
          /\ told[i] + Cardinality(Owing(i)) <= arrived[i] * (1 + faults)
          /\ i \in Decisions => arrived[i] <= 1
      BY <1>1, <1>6 DEF TellingOK
    <2>2. /\ arrived[i] * (1 + faults) \in Nat
          /\ arrived[i] * (1 + (faults + 1)) =
               arrived[i] * (1 + faults) + arrived[i]
      BY <1>1, Product
    <2>3. /\ told[i] + Cardinality(Owing(i)') <= arrived[i] * (1 + faults')
          /\ Cardinality(Jobs(i)') <= arrived[i]
      BY <1>1, <1>2, <1>4, <2>1, <2>2
    <2>4. ~(i \in Messages /\ path' = "direct")
      BY <1>2, <1>6, ConversationConstants
    <2> QED BY <1>2, <2>1, <2>3, <2>4 DEF TellingOK
  <1> QED BY <1>5, <1>6 DEF Inputs

(* The other steps of a handler end it or let it go on.                    *)
LEMMA QuietTells ==
  ASSUME TypeOK, TypeOK', HandlersOK, Telling, NEW h \in Handlers, Acts(h),
         ~(SendAnswer(h) \/ SendFails(h) \/ Throws(h)),
         \A j \in Inputs : ~Arrives(h, j), NEW i \in Inputs
  PROVE  TellingOK(i)'
  <1>1. TellingOK(i) /\ handler \in [Handlers -> HandlerStates]
    BY DEF TypeOK, Telling, HandlerStates
  <1>2. /\ path' = path /\ arrived' = arrived /\ seen' = seen /\ told' = told
        /\ faults' = faults \/ faults' = faults + 1
    BY DEF Acts, HandlerStep, FindContact, CreateContact, FindSession,
           CloseSession, CreateSession, TakeJob, EnsureSession, PrepareRun,
           RunAgent, RunFails, SaveRun, Escalate, bounds, inputs
  <1>3. Others(h)
    BY ActsAlone
  <1>4. \/ handler'[h].pc = "idle"
        \/ /\ handler'[h].input = InputOf(h)
           /\ ~At(h, "idle") /\ ~At(h, "escalate")
    <2>1. CASE TakeJob(h) \/ RunAgent(h)
      BY <1>1, <2>1 DEF TakeJob, RunAgent, At, InputOf, HandlerStates
    <2>2. CASE ~(TakeJob(h) \/ RunAgent(h))
      <3>1. \/ End(h)
            \/ /\ \E pc, s : Goto(h, pc) \/ Enter(h, pc, s)
               /\ ~At(h, "idle") /\ ~At(h, "escalate")
        BY <2>2 DEF Acts, HandlerStep, FindContact, CreateContact,
               FindSession, CloseSession, CreateSession, EnsureSession,
               PrepareRun, RunFails, SaveRun, Escalate, At
      <3> QED BY <1>1, <3>1, Writes
    <2> QED BY <2>1, <2>2
  <1>5. /\ h \in Jobs(i) \/ h \notin Jobs(i)'
        /\ h \in Owing(i) \/ h \notin Owing(i)'
    BY <1>4 DEF Jobs, Owing, At, InputOf
  <1> QED BY <1>1, <1>2, <1>3, <1>5, JobCounts, TellingFrame

LEMMA TellingStep ==
  ASSUME TypeOK, TypeOK', HandlersOK, Telling, [Next]_vars
  PROVE  Telling'
  <1> SUFFICES ASSUME NEW i \in Inputs PROVE TellingOK(i)'
    BY DEF Telling
  <1>1. TellingOK(i) /\ faults \in Nat /\ told[i] \in Nat
    BY DEF Telling, TypeOK
  <1>2. ASSUME NEW h \in Handlers, Acts(h) PROVE TellingOK(i)'
    BY <1>2, ArrivalTells, SendTells, ThrowTells, QuietTells
  <1>3. ASSUME handler' = handler, path' = path, told' = told, seen' = seen,
               arrived' = arrived, faults' = faults
        PROVE  TellingOK(i)'
    BY <1>1, <1>3 DEF TellingOK, Jobs, Owing, At, InputOf
  <1>4. ASSUME NEW s \in Sessions, NEW new, SetStatus(s, new)
        PROVE  TellingOK(i)'
    BY <1>3, <1>4 DEF SetStatus
  <1>5. ASSUME NEW m \in Messages, Forget(m) PROVE TellingOK(i)'
    <2>1. /\ path' = path /\ told' = told /\ arrived' = arrived
          /\ faults' = faults + 1 /\ seen' = seen \ {m}
          /\ Jobs(i)' = Jobs(i) /\ Owing(i)' = Owing(i)
      BY <1>5 DEF Forget, inputs, Jobs, Owing, At, InputOf
    <2>2. CASE i # m
      BY <1>1, <2>1, <2>2, JobSets, TellingFrame
    <2>3. CASE i = m
      <3>1. Cardinality(Jobs(i)) \in Nat /\ Cardinality(Owing(i)) \in Nat
        BY JobSets
      <3>2. arrived[i] \in Nat
        BY DEF TypeOK
      <3>3. /\ arrived[i] * (1 + faults) \in Nat
            /\ arrived[i] * (1 + (faults + 1)) =
                 arrived[i] * (1 + faults) + arrived[i]
        BY <1>1, <3>2, Product
      <3>4. CASE path = "direct"
        <4>1. /\ told[i] + Cardinality(Jobs(i)) <= 1 + faults
              /\ i \notin Decisions
          BY <1>1, <2>3, <3>1, <3>4, ConversationConstants DEF TellingOK
        <4>2. told'[i] + Cardinality(Jobs(i)')
                <= (IF i \in seen' THEN 1 ELSE 0) + faults'
          BY <1>1, <2>1, <2>3, <3>1, <4>1
        <4> QED BY <2>1, <3>4, <4>1, <4>2 DEF TellingOK
      <3>5. CASE path # "direct"
        <4>1. /\ Cardinality(Jobs(i)) <= arrived[i]
              /\ told[i] + Cardinality(Owing(i)) <= arrived[i] * (1 + faults)
              /\ i \in Decisions => arrived[i] <= 1
          BY <1>1, <3>5 DEF TellingOK
        <4>2. told'[i] + Cardinality(Owing(i)') <= arrived'[i] * (1 + faults')
          BY <1>1, <2>1, <3>1, <3>2, <3>3, <4>1
        <4> QED BY <2>1, <3>5, <4>1, <4>2 DEF TellingOK
      <3> QED BY <3>4, <3>5
    <2> QED BY <2>2, <2>3
  <1>6. CASE Crash
    BY <1>6, CrashTells
  <1>7. CASE UNCHANGED vars
    BY <1>3, <1>7 DEF vars, inputs, bounds
  <1> QED BY <1>2, <1>4, <1>5, <1>6, <1>7, Steps

-----------------------------------------------------------------------------
(* The invariant.                                                          *)

LEMMA InitInv == ASSUME Init PROVE IInv
  <1>1. TypeOK
    <2>1. NoHandler \in HandlerStates
      BY Kinds, ConversationConstants DEF NoHandler, HandlerStates, Replies
    <2>2. handler \in [Handlers -> HandlerStates]
      BY <2>1 DEF Init
    <2>3. status \in [Sessions -> Statuses]
      BY DEF Init, Statuses
    <2> QED BY <2>2, <2>3 DEF Init, TypeOK, HandlerStates
  <1>2. /\ \A h \in Handlers : handler[h] = NoHandler
        /\ \A s \in Sessions : status[s] = "absent"
    BY DEF Init
  <1>3. HandlersOK
    BY <1>2 DEF HandlersOK, HandlerOK, At, InputOf, NoHandler, OfProcessor,
                Creating, Running, Working
  <1>4. Telling
    <2> SUFFICES ASSUME NEW i \in Inputs PROVE TellingOK(i)
      BY DEF Telling
    <2>1. Jobs(i) = {} /\ Owing(i) = {}
      BY <1>2 DEF Jobs, Owing, At, NoHandler
    <2>2. Cardinality(Jobs(i)) = 0 /\ Cardinality(Owing(i)) = 0
      BY <2>1, FS_EmptySet
    <2> QED BY <2>2 DEF Init, TellingOK
  <1>5. SessionCount
    <2>1. Active = {} /\ Creators = {}
      BY <1>2 DEF Active, Creators, Creating, NoHandler
    <2>2. Cardinality(Active) = 0 /\ Cardinality(Creators) = 0
      BY <2>1, FS_EmptySet
    <2> QED BY <2>2, Sets DEF Init, SessionCount
  <1>6. SeenArrived /\ OneSession /\ SaidIsRecorded /\ SilenceIsExplained
    BY DEF Init, SeenArrived, OneSession, SaidIsRecorded, SilenceIsExplained,
           Handled
  <1>7. PausedIsQuiet
    <2>1. \A s \in Sessions : status[s] # "paused"
      BY <1>2
    <2> QED BY <2>1 DEF PausedIsQuiet
  <1> QED BY <1>1, <1>3, <1>4, <1>5, <1>6, <1>7 DEF IInv

LEMMA InvStep == ASSUME IInv, [Next]_vars PROVE IInv'
  <1> USE DEF IInv
  <1>1. TypeOK' BY TypeStep
  <1>2. HandlersOK' BY HandlersStep
  <1>3. OneSession' BY OneSessionStep
  <1>4. Telling' BY <1>1, TellingStep
  <1>5. SessionCount' BY <1>1, <1>2, <1>3, CountStep
  <1>6. SeenArrived' BY SeenStep
  <1>7. SaidIsRecorded' BY SaidStep
  <1>8. PausedIsQuiet' BY PausedStep
  <1>9. SilenceIsExplained' BY SilenceStep
  <1> QED BY <1>1, <1>2, <1>3, <1>4, <1>5, <1>6, <1>7, <1>8, <1>9

(* The inductive invariant holds in every reachable state.                 *)
THEOREM Invariance == Spec => []IInv
  BY InitInv, InvStep, PTL DEF Spec

(* Every variable keeps its type, whatever is delivered, decided, paused   *)
(* or lost.                                                                *)
THEOREM Typed == Spec => []TypeOK
  BY Invariance, PTL DEF IInv

(* The customer gets one answer to a message, and one more at most for     *)
(* each failure (in Chatwoot: for each delivery and each failure), however *)
(* many handlers, attempts and crashes there are.                          *)
THEOREM OneAnswer == Spec => []AnsweredOnce
  <1>1. ASSUME IInv PROVE AnsweredOnce
    <2> SUFFICES ASSUME NEW i \in Inputs PROVE told[i] <= MostTold(i)
      BY DEF AnsweredOnce
    <2>1. /\ TellingOK(i) /\ faults \in Nat /\ arrived[i] \in Nat
          /\ told[i] \in Nat
      BY <1>1 DEF IInv, Telling, TypeOK
    <2>2. Cardinality(Jobs(i)) \in Nat /\ Cardinality(Owing(i)) \in Nat
      BY JobSets
    <2>3. /\ arrived[i] * (1 + faults) \in Nat
          /\ arrived[i] <= 1 => arrived[i] * (1 + faults) <= 1 + faults
      BY <2>1, Product
    <2>4. CASE i \in Messages /\ path = "direct"
      <3>1. told[i] + Cardinality(Jobs(i))
              <= (IF i \in seen THEN 1 ELSE 0) + faults
        BY <2>1, <2>4 DEF TellingOK
      <3> QED BY <2>1, <2>2, <2>4, <3>1 DEF MostTold
    <2>5. CASE i \in Decisions \/ path # "direct"
      <3>1. /\ told[i] + Cardinality(Owing(i)) <= arrived[i] * (1 + faults)
            /\ i \in Decisions => arrived[i] <= 1
        BY <2>1, <2>5 DEF TellingOK
      <3> QED BY <2>1, <2>2, <2>3, <2>5, <3>1 DEF MostTold
    <2> QED BY <2>4, <2>5 DEF Inputs
  <1> QED BY <1>1, Invariance, PTL

(* A message without an answer was left to a human or lost the race to     *)
(* create its contact, while nothing fails.                                *)
THEOREM SilenceExplained == Spec => []SilenceIsExplained
  BY Invariance, PTL DEF IInv

(* What the customer was told, the next run can read.                      *)
THEOREM SaidRecorded == Spec => []SaidIsRecorded
  BY Invariance, PTL DEF IInv

(* A paused session stays silent but for the runs that were under way.     *)
THEOREM PausedQuiet == Spec => []PausedIsQuiet
  BY Invariance, PTL DEF IInv

(* Handlers at work at the same time are what leaves a customer with       *)
(* several active sessions, and no more of them than there are handlers,   *)
(* resets and reopenings.                                                  *)
THEOREM SessionsBounded == Spec => []SessionsDoNotPileUp
  <1>1. ASSUME IInv PROVE SessionsDoNotPileUp
    <2>1. /\ Cardinality(Active) \in Nat /\ Cardinality(Creators) \in Nat
          /\ Cardinality(Handlers) \in Nat /\ resets \in Nat /\ ops \in Nat
      BY <1>1, Sets DEF IInv, TypeOK
    <2>2. Cardinality(Active) + Cardinality(Creators)
            <= Cardinality(Handlers) + resets + ops
      BY <1>1 DEF IInv, SessionCount
    <2> QED BY <2>1, <2>2 DEF SessionsDoNotPileUp
  <1> QED BY <1>1, Invariance, PTL

-----------------------------------------------------------------------------
(* A handler's steps are counted: the attempts that are left, each worth   *)
(* more than its longest way (a reset on a direct channel), and the steps  *)
(* left of the present one.  A job that waits has begun no new attempt.    *)

StepsOfTry == 11

StepsAt(p) ==
  CASE p = "contact"                  -> 10
    [] p = "newcontact"               -> 9
    [] p = "session"                  -> 8
    [] p = "close"                    -> 7
    [] p \in {"newsession", "ensure"} -> 6
    [] p = "prepare"                  -> 5
    [] p = "thinking"                 -> 4
    [] p = "record"                   -> 3
    [] p = "send"                     -> 2
    [] p = "escalate"                 -> 1
    [] OTHER                          -> 0

StepsLeft(h) == StepsOfTry * (MaxTries - handler[h].tries)
                  + StepsAt(handler[h].pc)
MaxSteps     == StepsOfTry * MaxTries + 10

(* No handler and no job ever has more steps before it than its attempts   *)
(* allow, the retries of failures and of crashes included.                 *)
StepsOK == \A h \in Handlers : StepsLeft(h) \in 0..MaxSteps

(* A step of a handler, be it a success, a failure or a retry, ends it or  *)
(* leaves it fewer steps; the other steps leave it its own, but for a      *)
(* crash, which may give a stalled job the attempt back.                   *)
CountsDown(h) ==
  /\ HandlerStep(h) \/ RunFails(h) \/ SendFails(h) \/ Throws(h) =>
       At(h, "idle")' \/ StepsLeft(h)' < StepsLeft(h)
  /\ ~At(h, "idle") =>
       \/ At(h, "idle")'
       \/ StepsLeft(h)' <= StepsLeft(h)
       \/ Crash /\ StepsLeft(h)' < StepsLeft(h) + StepsOfTry
StepsCountDown == [][\A h \in Handlers : CountsDown(h)]_vars

(* The steps left at each place.                                           *)
LEMMA PlaceSteps ==
  /\ StepsAt("contact") = 10 /\ StepsAt("newcontact") = 9
  /\ StepsAt("session") = 8 /\ StepsAt("close") = 7
  /\ StepsAt("newsession") = 6 /\ StepsAt("ensure") = 6
  /\ StepsAt("prepare") = 5 /\ StepsAt("thinking") = 4
  /\ StepsAt("record") = 3 /\ StepsAt("send") = 2 /\ StepsAt("escalate") = 1
  /\ StepsAt("queued") = 0 /\ StepsAt("idle") = 0
  BY DEF StepsAt

LEMMA PlacesBounded == \A p \in Places : StepsAt(p) \in 0..10
  BY PlaceSteps DEF Places, Working, Running

LEMMA WorkingSteps == \A p \in Working : StepsAt(p) >= 1
  BY PlaceSteps DEF Working, Running

(* A handler's count, read off its record.                                 *)
LEMMA StepsRead ==
  ASSUME TypeOK, NEW h \in Handlers
  PROVE  /\ handler[h].tries \in 0..MaxTries /\ MaxTries \in Nat
         /\ StepsAt(handler[h].pc) \in 0..10
         /\ StepsLeft(h) = 11 * (MaxTries - handler[h].tries)
                             + StepsAt(handler[h].pc)
         /\ StepsLeft(h) \in 0..MaxSteps
  <1>1. handler[h].tries \in 0..MaxTries /\ handler[h].pc \in Places
    BY DEF TypeOK
  <1>2. StepsAt(handler[h].pc) \in 0..10 /\ MaxTries \in Nat
    BY <1>1, PlacesBounded, ConversationConstants
  <1> QED BY <1>1, <1>2 DEF StepsLeft, StepsOfTry, MaxSteps

(* A step of a handler's own.                                              *)
LEMMA OwnStepCounts ==
  ASSUME IInv, TypeOK', NEW h \in Handlers,
         HandlerStep(h) \/ RunFails(h) \/ SendFails(h) \/ Throws(h)
  PROVE  ~At(h, "idle") /\ (At(h, "idle")' \/ StepsLeft(h)' < StepsLeft(h))
  <1>1. /\ TypeOK /\ HandlerOK(h) /\ handler \in [Handlers -> HandlerStates]
    BY DEF IInv, TypeOK, HandlersOK, HandlerStates
  <1>2. ~At(h, "idle")
    BY DEF HandlerStep, FindContact, CreateContact, FindSession, CloseSession,
           CreateSession, TakeJob, EnsureSession, PrepareRun, RunAgent,
           SaveRun, SendAnswer, Escalate, RunFails, SendFails, Throws, At,
           Working, Running
  <1>3. /\ handler[h].tries \in 0..MaxTries /\ MaxTries \in Nat
        /\ StepsAt(handler[h].pc) \in 0..10
        /\ StepsLeft(h) = 11 * (MaxTries - handler[h].tries)
                            + StepsAt(handler[h].pc)
    BY <1>1, StepsRead
  <1>4. /\ handler'[h].tries \in 0..MaxTries
        /\ StepsAt(handler'[h].pc) \in 0..10
        /\ StepsLeft(h)' = 11 * (MaxTries - handler'[h].tries)
                             + StepsAt(handler'[h].pc)
    <2>1. handler'[h].pc \in Places /\ handler'[h].tries \in 0..MaxTries
      BY DEF TypeOK
    <2> QED BY <2>1, PlacesBounded DEF StepsLeft, StepsOfTry
  <1>5. CASE End(h)
    BY <1>1, <1>2, <1>5, Writes DEF At
  <1>6. ASSUME handler'[h].tries = handler[h].tries,
               StepsAt(handler'[h].pc) < StepsAt(handler[h].pc)
        PROVE  StepsLeft(h)' < StepsLeft(h)
    BY <1>3, <1>4, <1>6
  <1>7. CASE FindContact(h) \/ CreateContact(h) \/ FindSession(h)
             \/ CloseSession(h) \/ EnsureSession(h) \/ PrepareRun(h)
             \/ \E s \in Sessions : CreateSession(h, s)
    <2>1. \/ End(h)
          \/ \E pc, s :
               /\ Goto(h, pc) \/ Enter(h, pc, s)
               /\ \/ At(h, "contact") /\ pc \in {"session", "newcontact"}
                  \/ At(h, "newcontact") /\ pc = "session"
                  \/ /\ At(h, "session")
                     /\ pc \in {"newsession", "close", "prepare"}
                  \/ At(h, "close") /\ pc = "newsession"
                  \/ handler[h].pc \in {"ensure", "newsession"}
                       /\ pc = "prepare"
                  \/ At(h, "prepare") /\ pc = "thinking"
      BY <1>7 DEF FindContact, CreateContact, FindSession, CloseSession,
             EnsureSession, PrepareRun, CreateSession, At
    <2> QED BY <1>1, <1>2, <1>5, <1>6, <2>1, Writes, PlaceSteps DEF At
  <1>8. CASE SaveRun(h) \/ SendAnswer(h) \/ RunAgent(h)
             \/ (SendFails(h) /\ AfterSend(h))
    <2>1. CASE RunAgent(h)
      <3>1. /\ At(h, "thinking") /\ handler'[h].pc = "record"
            /\ handler'[h].tries = handler[h].tries
        BY <1>1, <2>1 DEF RunAgent, At, HandlerStates
      <3> QED BY <1>2, <1>6, <3>1, PlaceSteps DEF At
    <2>2. CASE ~RunAgent(h)
      <3>1. \/ End(h)
            \/ At(h, "record") /\ (Goto(h, "escalate") \/ Goto(h, "send"))
            \/ At(h, "send") /\ Goto(h, "escalate")
        BY <1>8, <2>2 DEF SaveRun, AfterSave, SendAnswer, SendFails, AfterSend
      <3> QED BY <1>1, <1>2, <1>5, <1>6, <3>1, Writes, PlaceSteps DEF At
    <2> QED BY <2>1, <2>2
  <1>9. CASE \/ TakeJob(h)
              \/ /\ SendFails(h)
                 /\ handler' = [handler EXCEPT ![h].tries = @ + 1]
    <2>1. handler'[h].tries = handler[h].tries + 1
      BY <1>1, <1>9 DEF TakeJob, HandlerStates
    <2>2. 11 * (MaxTries - handler'[h].tries) + 10
            < 11 * (MaxTries - handler[h].tries) + StepsAt(handler[h].pc)
      BY <1>3, <1>4, <2>1
    <2> QED BY <1>2, <1>3, <1>4, <2>2
  <1>10. CASE Throws(h) /\ handler' = [handler EXCEPT ![h] = Again(h)]
    <2>1. /\ handler'[h].tries = handler[h].tries
          /\ handler'[h].pc = "queued" /\ handler[h].pc \in Working
      BY <1>1, <1>10 DEF Throws, Again, HandlerStates
    <2>2. StepsAt(handler[h].pc) >= 1 /\ StepsAt("queued") = 0
      BY <2>1, WorkingSteps, PlaceSteps
    <2> QED BY <1>2, <1>3, <1>6, <2>1, <2>2
  <1>11. CASE RunFails(h) \/ Escalate(h)
    BY <1>5, <1>11 DEF RunFails, Escalate
  <1>12. CASE SendFails(h)
    BY <1>5, <1>8, <1>9, <1>12 DEF SendFails
  <1>13. CASE Throws(h)
    BY <1>5, <1>10, <1>13 DEF Throws
  <1>14. CASE HandlerStep(h)
    <2>1. CASE TakeJob(h)
      BY <2>1, <1>9
    <2>2. CASE SaveRun(h) \/ SendAnswer(h) \/ RunAgent(h)
      BY <2>2, <1>8
    <2>3. CASE Escalate(h)
      BY <2>3, <1>11
    <2> QED BY <1>7, <1>14, <2>1, <2>2, <2>3 DEF HandlerStep
  <1> QED BY <1>11, <1>12, <1>13, <1>14

(* Every step, of whomever.                                                *)
LEMMA StepsStep ==
  ASSUME IInv, TypeOK', [Next]_vars, NEW h \in Handlers
  PROVE  CountsDown(h)
  <1>1. /\ TypeOK /\ HandlerOK(h) /\ handler \in [Handlers -> HandlerStates]
        /\ StepsLeft(h) \in Int
    BY StepsRead DEF IInv, TypeOK, HandlersOK, HandlerStates
  <1>2. HandlerStep(h) \/ RunFails(h) \/ SendFails(h) \/ Throws(h) =>
          ~At(h, "idle") /\ (At(h, "idle")' \/ StepsLeft(h)' < StepsLeft(h))
    BY OwnStepCounts
  <1>3. StepsLeft(h)' \in Int
    <2>1. /\ handler'[h].pc \in Places /\ handler'[h].tries \in 0..MaxTries
          /\ MaxTries \in Nat
      BY ConversationConstants DEF TypeOK
    <2> QED BY <2>1, PlacesBounded DEF StepsLeft, StepsOfTry
  <1>4. CASE handler'[h] = handler[h]
    <2>1. StepsLeft(h)' = StepsLeft(h) /\ At(h, "idle")' = At(h, "idle")
      BY <1>4 DEF StepsLeft, At
    <2> QED BY <1>1, <1>2, <2>1 DEF CountsDown
  <1>5. ASSUME NEW g \in Handlers, Acts(g) PROVE CountsDown(h)
    <2>1. CASE g # h
      BY <1>1, <1>4, <1>5, <2>1, ActsAlone DEF Others
    <2>2. CASE g = h /\ \E i \in Inputs : Arrives(h, i)
      <3>1. At(h, "idle")
        BY <2>2 DEF Arrives, Receive, Enqueue, ReceiveInline, Deliver,
               ResumeAfterApproval, IsFree
      <3> QED BY <1>2, <3>1 DEF CountsDown
    <2>3. CASE HandlerStep(h) \/ RunFails(h) \/ SendFails(h) \/ Throws(h)
      BY <1>1, <1>2, <1>3, <2>3 DEF CountsDown
    <2> QED BY <1>5, <2>1, <2>2, <2>3 DEF Acts
  <1>6. CASE Crash
    <2>1. handler'[h] = NoHandler => At(h, "idle")'
      BY DEF At, NoHandler
    <2>2. CASE /\ handler[h].pc \in Working /\ handler'[h].pc = "queued"
               /\ handler'[h].tries = handler[h].tries - 1
      <3>1. /\ StepsAt(handler[h].pc) >= 1 /\ StepsAt(handler'[h].pc) = 0
            /\ StepsAt(handler[h].pc) \in 0..10
            /\ handler[h].tries \in 0..MaxTries /\ MaxTries \in Nat
        BY <1>1, <2>2, WorkingSteps, PlaceSteps, StepsRead
      <3>2. StepsLeft(h)' < StepsLeft(h) + StepsOfTry
        BY <2>2, <3>1 DEF StepsLeft, StepsOfTry
      <3> QED BY <1>2, <1>6, <3>2 DEF CountsDown
    <2> QED BY <1>1, <1>2, <1>4, <1>6, <2>1, <2>2, AfterCrash DEF CountsDown
  <1>7. CASE UNCHANGED vars
    BY <1>4, <1>7 DEF vars
  <1>8. ASSUME NEW s \in Sessions, NEW new, SetStatus(s, new)
        PROVE  CountsDown(h)
    BY <1>4, <1>8 DEF SetStatus
  <1>9. ASSUME NEW m \in Messages, Forget(m) PROVE CountsDown(h)
    BY <1>4, <1>9 DEF Forget
  <1> QED BY <1>5, <1>6, <1>7, <1>8, <1>9, Steps

(* A handler or job has at most MaxSteps steps before it, in every state.  *)
THEOREM StepsAreBounded == Spec => []StepsOK
  <1>1. IInv => StepsOK
    BY StepsRead DEF IInv, StepsOK
  <1> QED BY <1>1, Invariance, PTL

(* The safety half of HandlersEnd, for any number of handlers and          *)
(* attempts: whatever a handler does, a failure included, brings it nearer *)
(* to its end, and only a crash sets it back, by less than an attempt.     *)
THEOREM HandlersCountDown == Spec => StepsCountDown
  <1>1. IInv /\ IInv' /\ [Next]_vars => [\A h \in Handlers : CountsDown(h)]_vars
    BY StepsStep DEF IInv
  <1> QED BY <1>1, Invariance, PTL DEF Spec, StepsCountDown
=============================================================================
