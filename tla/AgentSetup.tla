------------------------------ MODULE AgentSetup ------------------------------
(***************************************************************************)
(* What an agent is set up from: its row, which runs read through the      *)
(* registry's cache (src/src/agents/agent-registry.ts), the channels its   *)
(* modes claim, and the prompt layers of its project                       *)
(* (src/src/infrastructure/repositories/prompt-layer-repository.ts).  The  *)
(* routes of agents, prompt layers and templates, the admin tools and the  *)
(* sandbox change them, each by several statements with no lock around     *)
(* them, and only some tell the registry.  A call here is one request or   *)
(* one execution of a tool.                                                *)
(***************************************************************************)
EXTENDS Naturals, FiniteSets

CONSTANTS
  Agents,     \* agents of one project
  Channels,   \* channels that modes may claim
  N,          \* layer types: identity, instructions, safety
  MaxLayers,  \* bound: versions of a layer type
  Calls,      \* requests and tool executions, each made once
  Readers,    \* reads of an agent's row for the registry, in progress
  TTL,        \* ticks for which a cached row is served
  MaxWait,    \* bound: ticks a row that was read waits for its callback
  MaxFaults   \* bound: operations that fail and restarts, together

ASSUME SetupConstants ==
  /\ "none" \notin Agents
  /\ N \in Nat \ {0} /\ MaxLayers \in Nat \ {0} /\ TTL \in Nat \ {0}
  /\ MaxWait \in Nat /\ MaxFaults \in Nat

Types    == 1..N
Versions == 1..MaxLayers
Statuses == {"none", "active", "paused", "gone"}    \* "disabled" is "paused"

(* "claim": the route is about to write modes it has checked; "route": it  *)
(* is about to invalidate; "look", "number", "insert": a layer type is     *)
(* seeded or added to; "begin", "commit": the transaction of activate;     *)
(* "on": a tool has deactivated the layers of a type; "group", "plant": a  *)
(* template has deactivated them all.                                      *)
Seeding == {"look", "number", "insert"}
Places  == {"free", "done", "claim", "create", "route", "begin", "commit",
            "on", "group", "plant"} \cup Seeding
Kinds   == {"any", "seed", "add", "promote"}

VARIABLES
  row,      \* [status, claims, ver]: ver counts the writes
  cache,    \* the registry's entries; a row that was never cached is Empty
  reader,   \* reads in progress: [pc, agent, entry]
  made,     \* versions inserted of each layer type
  active,   \* those with isActive
  call,     \* [pc, kind, agent, claims, ver, type, layer, seen, overtaken,
            \*  crossed]
  told,     \* history: the last write whose route has invalidated
  unsure,   \* history: active agents whose claims were not checked, or
            \* whose check was overtaken
  excused,  \* history: layers activated across another activation
  bare,     \* history: types not activated yet, or emptied by a call that
            \* did not get to its end
  faults

agentVars == <<row, told, unsure>>
readVars  == <<cache, reader>>
layerVars == <<made, active, excused, bare>>
vars      == <<agentVars, readVars, layerVars, call, faults>>

(* out: ticks since the row was written over; wait: ticks from the read of *)
(* the row to the callback that caches it; late: an invalidation fell into *)
(* that wait.                                                              *)
Empty   == [ver |-> 0, age |-> TTL, wait |-> 0, out |-> 0, late |-> FALSE]
NoRead  == [pc |-> "idle", agent |-> "none", entry |-> Empty]
NoCall  == [pc |-> "free", kind |-> "any", agent |-> "none", claims |-> {},
            ver |-> 0, type |-> 1, layer |-> 0, seen |-> [t \in Types |-> 0],
            overtaken |-> FALSE, crossed |-> {}]

Rows    == [status : Statuses, claims : SUBSET Channels, ver : Nat]
Entries == [ver : Nat, age : 0..TTL, wait : 0..MaxWait, out : Nat,
            late : BOOLEAN]
CallStates ==
  [pc : Places, kind : Kinds, agent : Agents \cup {"none"},
   claims : SUBSET Channels, ver : Nat, type : Types, layer : 0..MaxLayers,
   seen : [Types -> 0..MaxLayers], overtaken : BOOLEAN,
   crossed : SUBSET Types]

TypeOK ==
  /\ row \in [Agents -> Rows]
  /\ cache \in [Agents -> Entries]
  /\ reader \in [Readers -> [pc : {"idle", "asked", "read"},
                             agent : Agents \cup {"none"}, entry : Entries]]
  /\ made \in [Types -> 0..MaxLayers]
  /\ active \in [Types -> SUBSET Versions]
  /\ call \in [Calls -> CallStates]
  /\ told \in [Agents -> Nat]
  /\ unsure \in SUBSET Agents
  /\ excused \in [Types -> SUBSET Versions]
  /\ bare \in SUBSET Types
  /\ faults \in 0..MaxFaults

At(c, p)  == call[c].pc = p
Exists(a) == row[a].status \in {"active", "paused"}
Done      == [NoCall EXCEPT !.pc = "done"]
Goto(c, next) == call' = [call EXCEPT ![c] = next]

(* A project without layers, or one set up from a template with its first  *)
(* versions active; the agents that were seeded claim no channel.          *)
Init ==
  /\ row \in [Agents -> [status : {"none", "active"}, claims : {{}}, ver : {0}]]
  /\ cache = [a \in Agents |-> Empty]
  /\ reader = [r \in Readers |-> NoRead]
  /\ \E n \in {0, 1} :
       /\ made = [t \in Types |-> n] /\ active = [t \in Types |-> 1..n]
       /\ bare = {t \in Types : n = 0}
  /\ call = [c \in Calls |-> NoCall]
  /\ told = [a \in Agents |-> 0] /\ unsure = {}
  /\ excused = [t \in Types |-> {}]
  /\ faults = 0

-----------------------------------------------------------------------------
(* The registry.  A hit changes nothing.  Lookups are by id: one by name   *)
(* finds another entry, or none, after a renaming, and no agent is renamed *)
(* here.                                                                   *)

ValidTooLong(e) == e.age <= TTL                                 \* mutant
Valid(e) == e.age < TTL

Ask(r, a) ==
  /\ reader[r].pc = "idle"
  /\ reader' = [reader EXCEPT ![r] = [NoRead EXCEPT !.pc = "asked",
                                                   !.agent = a]]

Miss(r, a) ==
  /\ ~Valid(cache[a])
  /\ Ask(r, a)
  /\ UNCHANGED <<cache, agentVars, layerVars, call, faults>>

Refresh(r, a) ==
  /\ cache' = [cache EXCEPT ![a] = Empty]
  /\ Ask(r, a)
  /\ UNCHANGED <<agentVars, layerVars, call, faults>>

(* The database reads the row.  Nothing is cached for a row that is not    *)
(* there.                                                                  *)
ReadRow(r) ==
  LET a == reader[r].agent IN
  /\ reader[r].pc = "asked"
  /\ reader' = [reader EXCEPT ![r] =
       IF Exists(a)
       THEN [@ EXCEPT !.pc = "read", !.entry = [Empty EXCEPT
                                                  !.ver = row[a].ver,
                                                  !.age = 0]]
       ELSE NoRead]
  /\ UNCHANGED <<cache, agentVars, layerVars, call, faults>>

SetCached(r) ==
  /\ reader[r].pc = "read"
  /\ cache' = [cache EXCEPT ![reader[r].agent] = reader[r].entry]
  /\ reader' = [reader EXCEPT ![r] = NoRead]
  /\ UNCHANGED <<agentVars, layerVars, call, faults>>

Outdated(e, a) == IF e.ver = row[a].ver THEN 0 ELSE e.out + 1
Tick ==
  /\ \A r \in Readers : reader[r].pc = "read" => reader[r].entry.wait < MaxWait
  /\ cache' = [a \in Agents |->
       IF cache[a].age = TTL THEN cache[a]
       ELSE [cache[a] EXCEPT !.age = @ + 1, !.out = Outdated(cache[a], a)]]
  /\ reader' = [r \in Readers |->
       IF reader[r].pc # "read" THEN reader[r]
       ELSE [reader[r] EXCEPT
               !.entry.wait = @ + 1,
               !.entry.out = Outdated(reader[r].entry, reader[r].agent)]]
  /\ UNCHANGED <<agentVars, layerVars, call, faults>>

-----------------------------------------------------------------------------
(* Writes of an agent's row.                                               *)

(* checkChannelCollision looks at the other agents that are active.        *)
ClashNever(rows, a, claims) == FALSE                            \* mutant
Clash(rows, a, claims) ==
  \E b \in Agents \ {a} :
    rows[b].status = "active" /\ rows[b].claims \cap claims # {}

(* A call whose check is behind it is overtaken by a write that makes its  *)
(* channels another agent's.                                               *)
Rewrite(c, a, status, claims, next) ==
  LET rows == [row EXCEPT ![a] = [status |-> status, claims |-> claims,
                                  ver    |-> @.ver + 1]]
  IN /\ row' = rows
     /\ call' = [d \in Calls |->
          IF d = c THEN next
          ELSE [call[d] EXCEPT !.overtaken =
                  @ \/ Clash(rows, call[d].agent, call[d].claims)]]

ToInvalidate(a) == [NoCall EXCEPT !.pc = "route", !.agent = a,
                                  !.ver = row[a].ver + 1]

(* A status is set without a check of the channels.                        *)
SetStatus(c, a, status, next) ==
  /\ Exists(a)
  /\ Rewrite(c, a, status, row[a].claims, next)
  /\ unsure' = IF status # "active" THEN unsure \ {a}
               ELSE IF row[a].status # "active" /\ row[a].claims # {}
                    THEN unsure \cup {a} ELSE unsure
  /\ UNCHANGED <<told, readVars, layerVars, faults>>

(* Routes that write the row and then invalidate: pause, resume, an update *)
(* without modes, the skills, the promotion of a sandbox's settings.       *)
RouteUpdate(c, a, status) ==
  /\ At(c, "free")
  /\ SetStatus(c, a, status, ToInvalidate(a))

(* The admin tools, control-agent and the route of an agent's tools leave  *)
(* the registry as it is.                                                  *)
ToolUpdate(c, a, status) ==
  /\ At(c, "free")
  /\ SetStatus(c, a, status, Done)

DeleteAgent(c, a, next) ==
  /\ At(c, "free") /\ Exists(a)
  /\ Rewrite(c, a, "gone", {}, next)
  /\ unsure' = unsure \ {a}
  /\ UNCHANGED <<told, readVars, layerVars, faults>>
RouteDelete(c, a) == DeleteAgent(c, a, ToInvalidate(a))
ToolDelete(c, a)  == DeleteAgent(c, a, Done)

(* The route has written, and goes on in the same process: the entry goes, *)
(* a row that was read and waits for its callback stays on its way.        *)
Highest(m, n) == IF m > n THEN m ELSE n
InvalidateNot(c) ==                                             \* mutant
  /\ At(c, "route")
  /\ told' = [told EXCEPT ![call[c].agent] = Highest(@, call[c].ver)]
  /\ Goto(c, Done)
  /\ UNCHANGED <<row, unsure, readVars, layerVars, faults>>
Invalidate(c) ==
  LET a == call[c].agent IN
  /\ At(c, "route")
  /\ cache' = [cache EXCEPT ![a] = Empty]
  /\ reader' = [r \in Readers |->
       IF reader[r].pc = "read" /\ reader[r].agent = a
       THEN [reader[r] EXCEPT !.entry.late = TRUE] ELSE reader[r]]
  /\ told' = [told EXCEPT ![a] = Highest(@, call[c].ver)]
  /\ Goto(c, Done)
  /\ UNCHANGED <<row, unsure, layerVars, faults>>

(* An update with modes checks their channels first, and then writes; a    *)
(* list without channels passes.                                           *)
CheckModes(c, a, claims) ==
  /\ At(c, "free") /\ Exists(a)
  /\ Goto(c, IF Clash(row, a, claims) THEN Done
             ELSE [NoCall EXCEPT !.pc = "claim", !.agent = a,
                                 !.claims = claims])
  /\ UNCHANGED <<agentVars, readVars, layerVars, faults>>

Settle(c, a, status) ==
  unsure' = IF status = "active" /\ call[c].overtaken THEN unsure \cup {a} ELSE unsure \ {a}

UpdateModes(c, status) ==
  LET a == call[c].agent IN
  /\ At(c, "claim") /\ Exists(a)
  /\ Rewrite(c, a, status, call[c].claims, ToInvalidate(a))
  /\ Settle(c, a, status)
  /\ UNCHANGED <<told, readVars, layerVars, faults>>

(* A new agent: the routes check the channels of its modes; a clone and    *)
(* the tool's have none.  From a template, or cloned with its layers, the  *)
(* project's layers are seeded between the check and the row.              *)
CheckNewAgent(c, a, claims, seeds) ==
  /\ At(c, "free") /\ row[a].status # "gone"
  /\ Goto(c, IF Clash(row, a, claims) THEN Done
             ELSE [NoCall EXCEPT !.pc = IF seeds THEN "look" ELSE "create",
                                 !.kind = IF seeds THEN "seed" ELSE "any",
                                 !.agent = a, !.claims = claims])
  /\ UNCHANGED <<agentVars, readVars, layerVars, faults>>

CreateAgent(c) ==
  LET a == call[c].agent IN
  /\ At(c, "create") /\ row[a].status = "none"
  /\ Rewrite(c, a, "active", call[c].claims, Done)
  /\ Settle(c, a, "active")
  /\ UNCHANGED <<told, readVars, layerVars, faults>>

(* The row is not there to update, or its name is taken.                   *)
WriteRefused(c) ==
  /\ \/ At(c, "claim") /\ ~Exists(call[c].agent)
     \/ At(c, "create") /\ row[call[c].agent].status # "none"
  /\ Goto(c, Done)
  /\ UNCHANGED <<agentVars, readVars, layerVars, faults>>

-----------------------------------------------------------------------------
(* Prompt layers.  A version's number is the highest plus one, and unique  *)
(* for its type: the versions of a type are 1 to made[t].                  *)

(* Seeding inserts a layer, not active, for each type that has none active.*)
NextSeedTooFar(c) ==                                            \* mutant
  IF call[c].type <= N
  THEN [call[c] EXCEPT !.pc = "look", !.type = @ + 1]
  ELSE [call[c] EXCEPT !.pc = "create", !.kind = "any"]
NextSeed(c) ==
  IF call[c].type < N
  THEN [call[c] EXCEPT !.pc = "look", !.type = @ + 1]
  ELSE [call[c] EXCEPT !.pc = "create", !.kind = "any"]

LookForLayer(c) ==
  /\ At(c, "look")
  /\ Goto(c, IF active[call[c].type] # {} THEN NextSeed(c)
             ELSE [call[c] EXCEPT !.pc = "number"])
  /\ UNCHANGED <<agentVars, readVars, layerVars, faults>>

(* create: the highest version is read, then the next one inserted.        *)
Numbered(from, t) == [from EXCEPT !.pc = "insert", !.type = t,
                                  !.seen[t] = made[t]]
NumberSeed(c) ==
  /\ At(c, "number") /\ made[call[c].type] < MaxLayers
  /\ Goto(c, Numbered(call[c], call[c].type))
  /\ UNCHANGED <<agentVars, readVars, layerVars, faults>>

(* "add" is the route and the tool that add a layer; "promote" is the      *)
(* sandbox, or the onboarding, which adds and activates one of each type,  *)
(* each a call here.                                                       *)
NumberNew(c, t, kind) ==
  /\ At(c, "free") /\ made[t] < MaxLayers
  /\ Goto(c, Numbered([NoCall EXCEPT !.kind = kind], t))
  /\ UNCHANGED <<agentVars, readVars, layerVars, faults>>

Inserted(c) ==
  IF call[c].kind = "seed" THEN NextSeed(c)
  ELSE IF call[c].kind = "promote"
  THEN [call[c] EXCEPT !.pc = "begin", !.layer = made[call[c].type] + 1]
  ELSE Done

InsertLayer(c) ==
  LET t == call[c].type IN
  /\ At(c, "insert")
  /\ IF made[t] = call[c].seen[t]
     THEN made' = [made EXCEPT ![t] = @ + 1] /\ Goto(c, Inserted(c))
     ELSE UNCHANGED made /\ Goto(c, Done)
  /\ UNCHANGED <<active, excused, bare, agentVars, readVars, faults>>

(* A layer is activated; calls that have deactivated the others, or have   *)
(* begun to, are crossed.                                                  *)
Crossable == {"commit", "on", "group", "plant"}
Activated(c, t, layer, others, next) ==
  /\ active' = [active EXCEPT ![t] = others \cup {layer}]
  /\ excused' = [excused EXCEPT ![t] =
       IF t \in call[c].crossed THEN (@ \cap others) \cup {layer}
       ELSE (@ \cap others) \ {layer}]
  /\ bare' = bare \ {t}
  /\ call' = [d \in Calls |->
       IF d = c THEN next
       ELSE IF call[d].pc \in Crossable
            THEN [call[d] EXCEPT !.crossed = @ \cup {t}] ELSE call[d]]

(* activate: the transaction's update of the type's rows does not see one  *)
(* inserted after it began, and the rows it holds keep others waiting.     *)
BeginActivate(c, t, layer) ==
  /\ \/ At(c, "free") /\ layer \in 1..made[t]
     \/ At(c, "begin") /\ t = call[c].type /\ layer = call[c].layer
  /\ Goto(c, [call[c] EXCEPT !.pc = "commit", !.type = t, !.layer = layer,
                             !.seen[t] = made[t], !.crossed = {}])
  /\ UNCHANGED <<agentVars, readVars, layerVars, faults>>

CommitBoth(c) ==                                                \* mutant
  LET t == call[c].type IN
  /\ At(c, "commit")
  /\ Activated(c, t, call[c].layer, active[t], Done)
  /\ UNCHANGED <<made, agentVars, readVars, faults>>
CommitActivate(c) ==
  LET t == call[c].type IN
  /\ At(c, "commit")
  /\ Activated(c, t, call[c].layer, active[t] \ (1..call[c].seen[t]),
               Done)
  /\ UNCHANGED <<made, agentVars, readVars, faults>>

(* admin-activate-prompt-layer does the same in two statements, and so     *)
(* does admin-sandbox-promote for each of its layers, each a call here.    *)
Deactivate(c, t, layer) ==
  /\ At(c, "free") /\ layer \in 1..made[t]
  /\ active' = [active EXCEPT ![t] = {}]
  /\ excused' = [excused EXCEPT ![t] = {}]
  /\ Goto(c, [NoCall EXCEPT !.pc = "on", !.type = t, !.layer = layer])
  /\ UNCHANGED <<made, bare, agentVars, readVars, faults>>

Activate(c) ==
  LET t == call[c].type IN
  /\ At(c, "on")
  /\ Activated(c, t, call[c].layer, active[t], Done)
  /\ UNCHANGED <<made, agentVars, readVars, faults>>

(* updateProjectPrompts: every layer is deactivated, the highest versions  *)
(* are read, and an active layer of each type is inserted.                 *)
DeactivateAll(c) ==
  /\ At(c, "free")
  /\ active' = [t \in Types |-> {}] /\ excused' = [t \in Types |-> {}]
  /\ Goto(c, [NoCall EXCEPT !.pc = "group"])
  /\ UNCHANGED <<made, bare, agentVars, readVars, faults>>

GroupVersions(c) ==
  /\ At(c, "group") /\ \A t \in Types : made[t] < MaxLayers
  /\ Goto(c, [call[c] EXCEPT !.pc = "plant", !.seen = made])
  /\ UNCHANGED <<agentVars, readVars, layerVars, faults>>

InsertActive(c) ==
  LET t == call[c].type IN
  /\ At(c, "plant") /\ made[t] = call[c].seen[t]
  /\ made' = [made EXCEPT ![t] = @ + 1]
  /\ Activated(c, t, made[t] + 1, active[t],
               IF t < N THEN [call[c] EXCEPT !.type = @ + 1] ELSE Done)
  /\ UNCHANGED <<agentVars, readVars, faults>>

(* Types that a call has emptied and is still to fill; if it ends before,  *)
(* those that nobody filled meanwhile are bare.                            *)
Owes(c) ==
  {t \in Types : \/ At(c, "on") /\ t = call[c].type
                 \/ At(c, "group")
                 \/ At(c, "plant") /\ t >= call[c].type}
Owed == UNION {Owes(c) : c \in Calls}
Leave(ts) == bare' = bare \cup {t \in ts : active[t] = {}}

(* The version was taken meanwhile: the insertion throws.                  *)
InsertRefused(c) ==
  /\ At(c, "plant") /\ made[call[c].type] # call[c].seen[call[c].type]
  /\ Leave(Owes(c))
  /\ Goto(c, Done)
  /\ UNCHANGED <<made, active, excused, agentVars, readVars, faults>>

(* An operation throws and the call ends with it; one of a read leaves the *)
(* cache as it is.                                                         *)
Fault == faults < MaxFaults /\ faults' = faults + 1
CallFails(c) ==
  /\ call[c].pc \notin {"free", "done"} /\ Fault
  /\ Leave(Owes(c))
  /\ Goto(c, Done)
  /\ UNCHANGED <<made, active, excused, agentVars, readVars>>

ReadFails(r) ==
  /\ reader[r].pc = "asked" /\ Fault
  /\ reader' = [reader EXCEPT ![r] = NoRead]
  /\ UNCHANGED <<cache, agentVars, layerVars, call>>

Restart ==
  /\ Fault
  /\ cache' = [a \in Agents |-> Empty]
  /\ reader' = [r \in Readers |-> NoRead]
  /\ call' = [c \in Calls |-> IF At(c, "free") THEN call[c] ELSE Done]
  /\ Leave(Owed)
  /\ UNCHANGED <<made, active, excused, agentVars>>

-----------------------------------------------------------------------------
AgentStep(c) ==
  \/ Invalidate(c) \/ CreateAgent(c) \/ WriteRefused(c)
  \/ \E s \in {"active", "paused"} :
       \/ UpdateModes(c, s)
       \/ \E a \in Agents : RouteUpdate(c, a, s) \/ ToolUpdate(c, a, s)
  \/ \E a \in Agents :
       \/ RouteDelete(c, a) \/ ToolDelete(c, a)
       \/ \E S \in SUBSET Channels :
            CheckModes(c, a, S) \/ \E b \in BOOLEAN : CheckNewAgent(c, a, S, b)

LayerStep(c) ==
  \/ LookForLayer(c) \/ NumberSeed(c) \/ InsertLayer(c) \/ CommitActivate(c)
  \/ Activate(c) \/ DeactivateAll(c) \/ GroupVersions(c) \/ InsertActive(c)
  \/ InsertRefused(c)
  \/ \E t \in Types :
       \/ \E k \in {"add", "promote"} : NumberNew(c, t, k)
       \/ \E v \in Versions : BeginActivate(c, t, v) \/ Deactivate(c, t, v)

Next ==
  \/ \E c \in Calls : AgentStep(c) \/ LayerStep(c) \/ CallFails(c)
  \/ \E r \in Readers :
       \/ \E a \in Agents : Miss(r, a) \/ Refresh(r, a)
       \/ ReadRow(r) \/ SetCached(r) \/ ReadFails(r)
  \/ Tick
  \/ Restart

Spec == Init /\ [][Next]_vars

-----------------------------------------------------------------------------
(* A row that the registry serves was written over less than TTL ago, plus *)
(* the time its own read waited for the callback (agent-registry.ts:41-50).*)
StaleIsBounded ==
  \A a \in Agents : Valid(cache[a]) => cache[a].out < TTL + cache[a].wait

(* When a route has answered, the registry serves nothing older than what  *)
(* it wrote, but for a row whose read was on its way when the route        *)
(* invalidated (agent-registry.ts:65).                                     *)
InvalidateIsHeeded ==
  \A a \in Agents :
    Valid(cache[a]) /\ cache[a].ver < told[a] => cache[a].late

(* Two active agents claim one channel only if the check of one of them    *)
(* was overtaken by another write, or one was set active again, which      *)
(* checks nothing (agents.ts:609-626, agents.ts:1091).                     *)
ClaimsAreExplained ==
  \A a, b \in Agents :
    /\ a # b /\ row[a].status = "active" /\ row[b].status = "active"
    /\ row[a].claims \cap row[b].claims # {}
    => a \in unsure \/ b \in unsure

(* Of two active layers of a type one was activated across another         *)
(* activation; and a type that had an active layer has one, unless a call  *)
(* is between its statements or did not get to its last                    *)
(* (write-prompts.ts:192-205, template-manager.ts:315-356).                *)
LayersAreExplained ==
  \A t \in Types :
    /\ \A x, y \in active[t] : x # y => x \in excused[t] \/ y \in excused[t]
    /\ active[t] = {} => t \in bare \cup Owed
=============================================================================
