--------------------------- MODULE AgentSetupProofs ---------------------------
(***************************************************************************)
(* What the setup of agents guarantees for any number of agents, channels, *)
(* layer types, versions, calls and reads in progress.  The invariant says *)
(* what each place of a call has relied on: the write a route is about to  *)
(* invalidate is in the row, a check that nothing overtook still holds,    *)
(* and what a call deactivated is still inactive unless it was crossed.    *)
(***************************************************************************)
EXTENDS AgentSetup, TLAPS

Named == {"claim", "create", "route", "look", "number"}

(* The record of a call at its place.                                      *)
PlaceOK(c) ==
  /\ call[c].pc \in Named => call[c].agent \in Agents
  /\ At(c, "insert") /\ call[c].kind = "seed" => call[c].agent \in Agents
  /\ At(c, "insert") => call[c].seen[call[c].type] < MaxLayers
  /\ At(c, "group") => call[c].type = 1
  /\ At(c, "plant") =>
       \A t \in Types : t >= call[c].type => call[c].seen[t] < MaxLayers
  /\ call[c].pc \in {"begin", "commit", "on"} =>
       call[c].layer \in 1..made[call[c].type]

WriteOK(c) == At(c, "route") => call[c].ver <= row[call[c].agent].ver

CheckOK(c) ==
  ~call[c].overtaken => ~Clash(row, call[c].agent, call[c].claims)

ActivationOK(c) ==
  /\ \A t \in Owes(c) : t \notin call[c].crossed => active[t] = {}
  /\ At(c, "commit") /\ call[c].type \notin call[c].crossed =>
       active[call[c].type] \subseteq 1..call[c].seen[call[c].type]

CallOK(c) == PlaceOK(c) /\ WriteOK(c) /\ CheckOK(c) /\ ActivationOK(c)
CallsOK   == \A c \in Calls : CallOK(c)

(* What the registry holds and what is on its way to it.                   *)
EntryOK(a)  == cache[a].out <= cache[a].age + cache[a].wait
ReaderOK(r) ==
  /\ reader[r].pc # "idle" => reader[r].agent \in Agents
  /\ reader[r].pc = "read" =>
       /\ reader[r].entry.age = 0
       /\ reader[r].entry.out <= reader[r].entry.wait
       /\ reader[r].entry.ver < told[reader[r].agent] => reader[r].entry.late

RegistryOK ==
  /\ \A a \in Agents : EntryOK(a) /\ told[a] <= row[a].ver
  /\ \A r \in Readers : ReaderOK(r)
  /\ InvalidateIsHeeded

LayersOK ==
  /\ \A t \in Types : active[t] \subseteq 1..made[t]
  /\ LayersAreExplained

IInv ==
  TypeOK /\ CallsOK /\ RegistryOK /\ ClaimsAreExplained /\ LayersOK

-----------------------------------------------------------------------------
(* Types, by the parts of the state.                                       *)
RowType ==
  row \in [Agents -> Rows] /\ told \in [Agents -> Nat] /\ unsure \in SUBSET Agents
ReadType ==
  /\ cache \in [Agents -> Entries]
  /\ reader \in [Readers -> [pc : {"idle", "asked", "read"},
                             agent : Agents \cup {"none"}, entry : Entries]]
LayerType ==
  /\ made \in [Types -> 0..MaxLayers] /\ active \in [Types -> SUBSET Versions]
  /\ excused \in [Types -> SUBSET Versions] /\ bare \in SUBSET Types
CallType  == call \in [Calls -> CallStates]
FaultType == faults \in 0..MaxFaults

LEMMA TypeParts ==
  TypeOK <=> RowType /\ ReadType /\ LayerType /\ CallType /\ FaultType
  BY DEF TypeOK, RowType, ReadType, LayerType, CallType, FaultType

LEMMA Basics ==
  /\ N \in Nat /\ N >= 1 /\ 1 \in Types /\ "none" \notin Agents
  /\ MaxLayers \in Nat /\ MaxLayers >= 1 /\ TTL \in Nat /\ TTL >= 1
  /\ MaxWait \in Nat /\ MaxFaults \in Nat
  /\ Empty \in Entries /\ NoCall \in CallStates /\ Done \in CallStates
  /\ NoRead \in [pc : {"idle", "asked", "read"}, agent : Agents \cup {"none"},
                 entry : Entries]
  <1>1. /\ N \in Nat /\ N >= 1 /\ 1 \in Types /\ "none" \notin Agents
        /\ MaxLayers \in Nat /\ MaxLayers >= 1 /\ TTL \in Nat /\ TTL >= 1
        /\ MaxWait \in Nat /\ MaxFaults \in Nat
    BY SetupConstants DEF Types
  <1>2. Empty \in Entries
    BY <1>1 DEF Empty, Entries
  <1>3. NoCall \in CallStates
    <2>1. [t \in Types |-> 0] \in [Types -> 0..MaxLayers]
      BY <1>1
    <2> QED BY <1>1, <2>1 DEF NoCall, CallStates, Places, Kinds
  <1>4. Done \in CallStates
    BY <1>3 DEF Done, CallStates, Places
  <1>5. NoRead \in [pc : {"idle", "asked", "read"}, agent : Agents \cup {"none"},
                    entry : Entries]
    BY <1>2 DEF NoRead
  <1> QED BY <1>1, <1>2, <1>3, <1>4, <1>5

Others(c) == \A d \in Calls \ {c} : call'[d] = call[d]

(* A call's record is replaced.                                            *)
LEMMA Went ==
  ASSUME CallType, NEW c \in Calls, NEW x \in CallStates, Goto(c, x)
  PROVE  CallType' /\ call'[c] = x /\ Others(c)
  BY DEF CallType, Goto, Others

(* What a call relies on stays true while the rows stand, versions are     *)
(* only added and layers only deactivated.                                 *)
LEMMA Kept ==
  ASSUME TypeOK, TypeOK', NEW d \in Calls, CallOK(d), call'[d] = call[d],
         row' = row,
         \A t \in Types : made'[t] >= made[t] /\ active'[t] \subseteq active[t]
  PROVE  CallOK(d)'
  <1>1. call[d] \in CallStates
    BY DEF TypeOK
  <1>2. call[d].type \in Types
    BY <1>1 DEF CallStates
  <1>3. PlaceOK(d)'
    <2>1. made[call[d].type] \in Nat /\ made'[call[d].type] \in Nat
      BY <1>2, Basics DEF TypeOK
    <2>2. made'[call[d].type] >= made[call[d].type]
      BY <1>2
    <2>3. PlaceOK(d)
      BY DEF CallOK
    <2>4. 1..made[call[d].type] \subseteq 1..made'[call[d].type]
      BY <2>1, <2>2
    <2> QED BY <2>3, <2>4 DEF PlaceOK, At
  <1>4. WriteOK(d)' /\ CheckOK(d)'
    BY DEF CallOK, WriteOK, CheckOK, Clash, At
  <1>5. ActivationOK(d)'
    <2>1. ActivationOK(d)
      BY DEF CallOK
    <2>2. Owes(d)' = Owes(d)
      BY DEF Owes, At
    <2>3. Owes(d) \subseteq Types
      BY DEF Owes
    <2> QED BY <1>2, <2>1, <2>2, <2>3 DEF ActivationOK, At
  <1> QED BY <1>3, <1>4, <1>5 DEF CallOK

(* A call that has ended, or not begun, relies on nothing.                 *)
LEMMA Resting ==
  ASSUME NEW c \in Calls, call'[c] \in {NoCall, Done}
  PROVE  CallOK(c)' /\ Owes(c)' = {}
  <1>1. call'[c].pc \in {"free", "done"} /\ call'[c].claims = {}
    BY DEF NoCall, Done
  <1>2. PlaceOK(c)' /\ WriteOK(c)'
    BY <1>1 DEF PlaceOK, WriteOK, Named, At
  <1>3. CheckOK(c)'
    BY <1>1 DEF CheckOK, Clash
  <1>4. Owes(c)' = {}
    BY <1>1 DEF Owes, At
  <1>5. ActivationOK(c)'
    BY <1>1, <1>4 DEF ActivationOK, At
  <1> QED BY <1>2, <1>3, <1>4, <1>5 DEF CallOK

-----------------------------------------------------------------------------
(* What the ways of writing rows and layers keep.                          *)

LEMMA RewriteKeeps ==
  ASSUME TypeOK, CallsOK, RegistryOK, NEW c \in Calls, NEW a \in Agents,
         NEW status \in Statuses, NEW claims \in SUBSET Channels,
         NEW next \in {Done, ToInvalidate(a)},
         Rewrite(c, a, status, claims, next),
         UNCHANGED <<told, readVars, layerVars>>
  PROVE  /\ row' \in [Agents -> Rows] /\ CallType' /\ CallsOK' /\ RegistryOK'
         /\ row'[a].status = status /\ row'[a].claims = claims
         /\ \A b \in Agents \ {a} : row'[b] = row[b]
         /\ \A d \in Calls \ {c} : Owes(d)' = Owes(d)
  <1> DEFINE new == [status |-> status, claims |-> claims,
                     ver    |-> row[a].ver + 1]
  <1>t. RowType /\ CallType /\ ReadType
    BY TypeParts
  <1>r. row' = [row EXCEPT ![a] = new]
    BY DEF Rewrite
  <1>v. row[a].ver \in Nat /\ row[a].ver + 1 \in Nat
    BY <1>t DEF RowType, Rows
  <1>1. row' \in [Agents -> Rows]
    <2>1. new \in Rows
      BY <1>v DEF Rows
    <2> QED BY <1>r, <1>t, <2>1 DEF RowType
  <1>2. row'[a] = new /\ \A b \in Agents \ {a} : row'[b] = row[b]
    BY <1>r, <1>t DEF RowType
  <1>3. \A b \in Agents : row[b].ver <= row'[b].ver
    <2> SUFFICES ASSUME NEW b \in Agents
                 PROVE  row[b].ver <= row'[b].ver
      OBVIOUS
    <2>1. row[b].ver \in Nat
      BY <1>t DEF RowType, Rows
    <2> QED BY <1>2, <1>v, <2>1
  <1>4. /\ call'[c] = next
        /\ \A d \in Calls \ {c} :
             call'[d] = [call[d] EXCEPT !.overtaken = @ \/
                           Clash(row', call[d].agent, call[d].claims)]
    BY <1>r DEF Rewrite
  <1>5. ToInvalidate(a) \in CallStates
    BY <1>v, Basics DEF ToInvalidate, CallStates, Places
  <1>6. CallType'
    <2>1. \A d \in Calls : call[d] \in CallStates
      BY <1>t DEF CallType
    <2>2. \A d \in Calls \ {c} : call'[d] \in CallStates
      <3> SUFFICES ASSUME NEW d \in Calls \ {c}
                   PROVE  call'[d] \in CallStates
        OBVIOUS
      <3>1. [call[d] EXCEPT !.overtaken = TRUE] \in CallStates
        BY <2>1 DEF CallStates
      <3>2. [call[d] EXCEPT !.overtaken = FALSE] \in CallStates
        BY <2>1 DEF CallStates
      <3>3. (call[d].overtaken \/ Clash(row', call[d].agent, call[d].claims))
              \in BOOLEAN
        BY <2>1 DEF CallStates, Clash
      <3> QED BY <1>4, <3>1, <3>2, <3>3
    <2>3. call'[c] \in CallStates
      BY <1>4, <1>5, Basics
    <2>4. DOMAIN call' = Calls /\ call' = [d \in Calls |-> call'[d]]
      BY DEF Rewrite
    <2> QED BY <2>2, <2>3, <2>4 DEF CallType
  <1>7. \A d \in Calls \ {c} : CallOK(d)' /\ Owes(d)' = Owes(d)
    <2> SUFFICES ASSUME NEW d \in Calls \ {c}
                 PROVE  CallOK(d)' /\ Owes(d)' = Owes(d)
      OBVIOUS
    <2>1. call[d] \in CallStates /\ CallOK(d)
      BY <1>t DEF CallType, CallsOK
    <2>2. /\ call'[d].pc = call[d].pc /\ call'[d].kind = call[d].kind
          /\ call'[d].agent = call[d].agent /\ call'[d].ver = call[d].ver
          /\ call'[d].claims = call[d].claims /\ call'[d].type = call[d].type
          /\ call'[d].layer = call[d].layer /\ call'[d].seen = call[d].seen
          /\ call'[d].crossed = call[d].crossed
          /\ Clash(row', call[d].agent, call[d].claims) => call'[d].overtaken
      BY <1>4, <2>1 DEF CallStates
    <2>3. PlaceOK(d)'
      BY <2>1, <2>2 DEF CallOK, PlaceOK, At, layerVars
    <2>4. WriteOK(d)'
      <3> SUFFICES ASSUME At(d, "route")
                   PROVE  call[d].ver <= row'[call[d].agent].ver
        BY <2>2 DEF WriteOK, At
      <3>1. call[d].agent \in Agents /\ call[d].ver <= row[call[d].agent].ver
        BY <2>1 DEF CallOK, PlaceOK, WriteOK, Named, At
      <3>2. /\ call[d].ver \in Nat /\ row[call[d].agent].ver \in Nat
            /\ row'[call[d].agent].ver \in Nat
        BY <1>1, <1>t, <2>1, <3>1 DEF RowType, Rows, CallStates
      <3> QED BY <1>3, <3>1, <3>2
    <2>5. CheckOK(d)'
      BY <2>2 DEF CheckOK
    <2>6. Owes(d)' = Owes(d)
      BY <2>2 DEF Owes, At
    <2>7. ActivationOK(d)'
      BY <2>1, <2>2, <2>6 DEF CallOK, ActivationOK, At, layerVars
    <2> QED BY <2>3, <2>4, <2>5, <2>6, <2>7 DEF CallOK
  <1>8. CallOK(c)'
    <2>1. CASE next = Done
      BY <1>4, <2>1, Resting
    <2>2. CASE next = ToInvalidate(a)
      <3>1. /\ call'[c].pc = "route" /\ call'[c].agent = a
            /\ call'[c].ver = row[a].ver + 1 /\ call'[c].claims = {}
        BY <1>4, <2>2 DEF ToInvalidate, NoCall
      <3>2. PlaceOK(c)'
        BY <3>1 DEF PlaceOK, At
      <3>3. WriteOK(c)'
        BY <1>2, <1>v, <3>1 DEF WriteOK
      <3>4. CheckOK(c)' /\ ActivationOK(c)'
        BY <3>1 DEF CheckOK, Clash, ActivationOK, Owes, At
      <3> QED BY <3>2, <3>3, <3>4 DEF CallOK
    <2> QED BY <2>1, <2>2
  <1>9. RegistryOK'
    <2>1. \A b \in Agents : told'[b] <= row'[b].ver
      <3> SUFFICES ASSUME NEW b \in Agents
                   PROVE  told[b] <= row'[b].ver
        OBVIOUS
      <3>1. told[b] \in Nat /\ row[b].ver \in Nat /\ row'[b].ver \in Nat
        BY <1>1, <1>t DEF RowType, Rows
      <3> QED BY <1>3, <3>1 DEF RegistryOK
    <2>2. \A b \in Agents : EntryOK(b)'
      BY DEF RegistryOK, EntryOK, readVars
    <2>3. \A r \in Readers : ReaderOK(r)'
      BY DEF RegistryOK, ReaderOK, readVars
    <2>4. InvalidateIsHeeded'
      BY DEF RegistryOK, InvalidateIsHeeded, readVars
    <2> QED BY <2>1, <2>2, <2>3, <2>4 DEF RegistryOK
  <1> QED BY <1>1, <1>2, <1>6, <1>7, <1>8, <1>9 DEF CallsOK

(* The claims of one agent are written: the others' explanations stand.    *)
LEMMA ClaimsWritten ==
  ASSUME TypeOK, ClaimsAreExplained, NEW a \in Agents,
         \A b \in Agents \ {a} : row'[b] = row[b] /\ (b \in unsure <=> b \in unsure'),
         \A b \in Agents \ {a} :
           /\ row'[a].status = "active" /\ row[b].status = "active"
           /\ row'[a].claims \cap row[b].claims # {}
           => a \in unsure' \/ b \in unsure'
  PROVE  ClaimsAreExplained'
  <1> SUFFICES ASSUME NEW x \in Agents, NEW y \in Agents, x # y,
                      row'[x].status = "active", row'[y].status = "active",
                      row'[x].claims \cap row'[y].claims # {}
               PROVE  x \in unsure' \/ y \in unsure'
    BY DEF ClaimsAreExplained
  <1>1. CASE x = a
    BY <1>1
  <1>2. CASE y = a
    BY <1>2
  <1>3. CASE x # a /\ y # a
    BY <1>3 DEF ClaimsAreExplained
  <1> QED BY <1>1, <1>2, <1>3

(* A layer is activated by a call that was crossed, or left no other       *)
(* active.                                                                 *)
LEMMA ActivatedKeeps ==
  ASSUME TypeOK, CallsOK, LayersOK, NEW c \in Calls, NEW t \in Types,
         NEW layer \in Versions, NEW others \in SUBSET active[t],
         NEW next \in CallStates, Activated(c, t, layer, others, next),
         made' \in [Types -> 0..MaxLayers],
         \A u \in Types : made'[u] >= made[u],
         layer \in 1..made'[t], t \notin call[c].crossed => others = {},
         row' = row
  PROVE  /\ LayerType' /\ CallType' /\ call'[c] = next
         /\ \A u \in Types \ {t} : active'[u] = active[u]
         /\ \A d \in Calls \ {c} : CallOK(d)'
         /\ (\A u \in Owes(c) \ {t} : u \in Owes(c)') => LayersOK'
  <1>t. LayerType /\ CallType
    BY TypeParts
  <1>1. /\ active'[t] = others \cup {layer}
        /\ \A u \in Types \ {t} : active'[u] = active[u]
        /\ active' \in [Types -> SUBSET Versions]
    <2>1. others \cup {layer} \in SUBSET Versions
      BY <1>t DEF LayerType
    <2> QED BY <1>t, <2>1 DEF LayerType, Activated
  <1>2. /\ excused'[t] = IF t \in call[c].crossed
                         THEN (excused[t] \cap others) \cup {layer}
                         ELSE (excused[t] \cap others) \ {layer}
        /\ \A u \in Types \ {t} : excused'[u] = excused[u]
        /\ excused' \in [Types -> SUBSET Versions]
    <2>1. /\ (excused[t] \cap others) \cup {layer} \in SUBSET Versions
          /\ (excused[t] \cap others) \ {layer} \in SUBSET Versions
      BY <1>t DEF LayerType
    <2> QED BY <1>t, <2>1 DEF LayerType, Activated
  <1>3. LayerType'
    BY <1>1, <1>2, <1>t DEF LayerType, Activated
  <1>4. /\ call'[c] = next
        /\ \A d \in Calls \ {c} :
             call'[d] = IF call[d].pc \in Crossable
                        THEN [call[d] EXCEPT !.crossed = @ \cup {t}]
                        ELSE call[d]
        /\ call' = [d \in Calls |-> call'[d]]
    BY DEF Activated
  <1>5. CallType'
    <2>1. \A d \in Calls \ {c} : call'[d] \in CallStates
      <3> SUFFICES ASSUME NEW d \in Calls \ {c}
                   PROVE  call'[d] \in CallStates
        OBVIOUS
      <3>1. call[d] \in CallStates
        BY <1>t DEF CallType
      <3>2. [call[d] EXCEPT !.crossed = @ \cup {t}] \in CallStates
        BY <3>1 DEF CallStates
      <3> QED BY <1>4, <3>1, <3>2
    <2> QED BY <1>4, <2>1 DEF CallType
  <1>6. \A d \in Calls \ {c} : CallOK(d)' /\ Owes(d)' = Owes(d)
    <2> SUFFICES ASSUME NEW d \in Calls \ {c}
                 PROVE  CallOK(d)' /\ Owes(d)' = Owes(d)
      OBVIOUS
    <2>1. call[d] \in CallStates /\ CallOK(d)
      BY <1>t DEF CallType, CallsOK
    <2>2. /\ call'[d].pc = call[d].pc /\ call'[d].kind = call[d].kind
          /\ call'[d].agent = call[d].agent /\ call'[d].ver = call[d].ver
          /\ call'[d].claims = call[d].claims /\ call'[d].type = call[d].type
          /\ call'[d].layer = call[d].layer /\ call'[d].seen = call[d].seen
          /\ call'[d].overtaken = call[d].overtaken
          /\ call[d].crossed \subseteq call'[d].crossed
          /\ call[d].pc \in Crossable => t \in call'[d].crossed
      BY <1>4, <2>1 DEF CallStates
    <2>3. PlaceOK(d)'
      <3>1. call[d].type \in Types
        BY <2>1 DEF CallStates
      <3>2. /\ made[call[d].type] \in Nat /\ made'[call[d].type] \in Nat
            /\ made'[call[d].type] >= made[call[d].type]
        BY <1>t, <3>1, Basics DEF LayerType
      <3>3. 1..made[call[d].type] \subseteq 1..made'[call[d].type]
        BY <3>2
      <3> QED BY <2>1, <2>2, <3>3 DEF CallOK, PlaceOK, At
    <2>4. WriteOK(d)' /\ CheckOK(d)'
      BY <2>1, <2>2 DEF CallOK, WriteOK, CheckOK, Clash, At
    <2>5. Owes(d)' = Owes(d)
      BY <2>2 DEF Owes, At
    <2>6. ActivationOK(d)'
      <3>1. ASSUME NEW u \in Owes(d), u \notin call'[d].crossed
            PROVE  active'[u] = {}
        <4>1. u \in Types /\ call[d].pc \in Crossable
          BY DEF Owes, At, Crossable
        <4>2. u # t /\ u \notin call[d].crossed
          BY <2>2, <3>1, <4>1
        <4>3. active[u] = {}
          BY <2>1, <4>2 DEF CallOK, ActivationOK
        <4> QED BY <1>1, <4>1, <4>2, <4>3
      <3>2. ASSUME At(d, "commit"), call[d].type \notin call'[d].crossed
            PROVE  active'[call[d].type] \subseteq 1..call[d].seen[call[d].type]
        <4>1. call[d].type \in Types /\ call[d].pc \in Crossable
          BY <2>1, <3>2 DEF CallStates, Crossable, At
        <4>2. call[d].type # t /\ call[d].type \notin call[d].crossed
          BY <2>2, <3>2, <4>1
        <4> QED BY <1>1, <2>1, <3>2, <4>1, <4>2 DEF CallOK, ActivationOK
      <3> QED BY <2>2, <2>5, <3>1, <3>2 DEF ActivationOK, At
    <2> QED BY <2>3, <2>4, <2>5, <2>6 DEF CallOK
  <1>7. ASSUME \A u \in Owes(c) \ {t} : u \in Owes(c)'
        PROVE  LayersOK'
    <2>1. \A u \in Types : active'[u] \subseteq 1..made'[u]
      <3> SUFFICES ASSUME NEW u \in Types
                   PROVE  active'[u] \subseteq 1..made'[u]
        OBVIOUS
      <3>1. made[u] \in Nat /\ made'[u] \in Nat /\ made'[u] >= made[u]
        BY <1>t, Basics DEF LayerType
      <3>2. active[u] \subseteq 1..made[u]
        BY DEF LayersOK
      <3>3. active[u] \subseteq 1..made'[u]
        BY <3>1, <3>2
      <3> QED BY <1>1, <3>3
    <2>2. ASSUME NEW u \in Types, NEW x \in active'[u], NEW y \in active'[u],
                 x # y
          PROVE  x \in excused'[u] \/ y \in excused'[u]
      <3>1. CASE u # t
        BY <1>1, <1>2, <2>2, <3>1 DEF LayersOK, LayersAreExplained
      <3>2. CASE u = t
        <4>1. t \in call[c].crossed
          BY <1>1, <2>2, <3>2
        <4>2. CASE x = layer \/ y = layer
          BY <1>2, <3>2, <4>1, <4>2
        <4>3. CASE x # layer /\ y # layer
          <5>1. x \in others /\ y \in others
            BY <1>1, <3>2, <4>3
          <5>2. x \in excused[t] \/ y \in excused[t]
            BY <2>2, <5>1 DEF LayersOK, LayersAreExplained
          <5> QED BY <1>2, <3>2, <4>1, <5>1, <5>2
        <4> QED BY <4>2, <4>3
      <3> QED BY <3>1, <3>2
    <2>3. ASSUME NEW u \in Types, active'[u] = {}
          PROVE  u \in bare' \cup Owed'
      <3>1. u # t /\ active[u] = {}
        BY <1>1, <2>3
      <3>2. CASE u \in bare
        BY <3>1, <3>2 DEF Activated
      <3>3. CASE u \notin bare
        <4>1. PICK d \in Calls : u \in Owes(d)
          BY <3>1, <3>3 DEF LayersOK, LayersAreExplained, Owed
        <4>2. u \in Owes(d)'
          BY <1>6, <1>7, <3>1, <4>1
        <4> QED BY <4>2 DEF Owed
      <3> QED BY <3>2, <3>3
    <2> QED BY <2>1, <2>2, <2>3 DEF LayersOK, LayersAreExplained
  <1> QED BY <1>1, <1>3, <1>4, <1>5, <1>6, <1>7

(* Layers are only deactivated, or nothing of them changes: what is no     *)
(* longer owed is bare.                                                    *)
LEMMA LayersKept ==
  ASSUME TypeOK, TypeOK', LayersOK,
         \A t \in Types :
           /\ made'[t] >= made[t] /\ active'[t] \subseteq active[t]
           /\ \/ active'[t] = {}
              \/ active'[t] = active[t] /\ excused'[t] = excused[t],
         \A t \in Types :
           active'[t] = {} /\ (active[t] = {} => t \in bare \cup Owed)
             => t \in bare' \cup Owed'
  PROVE  LayersOK'
  <1>1. \A t \in Types : active'[t] \subseteq 1..made'[t]
    <2> SUFFICES ASSUME NEW t \in Types
                 PROVE  active'[t] \subseteq 1..made'[t]
      OBVIOUS
    <2>1. made[t] \in Nat /\ made'[t] \in Nat /\ made'[t] >= made[t]
      BY Basics DEF TypeOK
    <2>2. active[t] \subseteq 1..made[t] /\ active'[t] \subseteq active[t]
      BY DEF LayersOK
    <2> QED BY <2>1, <2>2
  <1>2. \A t \in Types : \A x, y \in active'[t] :
          x # y => x \in excused'[t] \/ y \in excused'[t]
    BY DEF LayersOK, LayersAreExplained
  <1>3. \A t \in Types : active'[t] = {} => t \in bare' \cup Owed'
    BY DEF LayersOK, LayersAreExplained
  <1> QED BY <1>1, <1>2, <1>3 DEF LayersOK, LayersAreExplained

-----------------------------------------------------------------------------
(* Every step keeps the invariant: first those that write an agent's row.  *)

LEMMA Written ==
  ASSUME IInv, NEW c \in Calls, NEW a \in Agents,
         NEW status \in Statuses, NEW claims \in SUBSET Channels,
         NEW next \in {Done, ToInvalidate(a)},
         Rewrite(c, a, status, claims, next),
         UNCHANGED <<told, readVars, layerVars, faults>>,
         call[c].pc \in {"free", "claim", "create"},
         unsure' \in SUBSET Agents,
         \A b \in Agents \ {a} : b \in unsure <=> b \in unsure',
         status = "active" =>
           \/ a \in unsure' \/ ~Clash(row, a, claims)
           \/ row[a].status = "active" /\ claims = row[a].claims
              /\ (a \in unsure => a \in unsure')
  PROVE  IInv'
  <1>t. /\ RowType /\ ReadType /\ LayerType /\ FaultType
        /\ TypeOK /\ CallsOK /\ RegistryOK /\ ClaimsAreExplained /\ LayersOK
    BY TypeParts DEF IInv
  <1>1. /\ row' \in [Agents -> Rows] /\ CallType' /\ CallsOK' /\ RegistryOK'
        /\ row'[a].status = status /\ row'[a].claims = claims
        /\ \A b \in Agents \ {a} : row'[b] = row[b]
        /\ \A d \in Calls \ {c} : Owes(d)' = Owes(d)
    BY <1>t, RewriteKeeps
  <1>2. TypeOK'
    <2>1. RowType' /\ ReadType' /\ LayerType' /\ FaultType'
      BY <1>1, <1>t DEF RowType, ReadType, LayerType, FaultType, readVars,
                        layerVars
    <2> QED BY <1>1, <2>1
            DEF TypeOK, RowType, ReadType, LayerType, CallType, FaultType
  <1>3. ClaimsAreExplained'
    <2>1. ASSUME NEW b \in Agents \ {a}, status = "active",
                 row[b].status = "active", claims \cap row[b].claims # {}
          PROVE  a \in unsure' \/ b \in unsure'
      <3>1. CASE a \in unsure' \/ ~Clash(row, a, claims)
        BY <2>1, <3>1 DEF Clash
      <3>2. CASE /\ row[a].status = "active" /\ claims = row[a].claims
                 /\ (a \in unsure => a \in unsure')
        <4>1. a \in unsure \/ b \in unsure
          BY <1>t, <2>1, <3>2 DEF ClaimsAreExplained
        <4> QED BY <2>1, <3>2, <4>1
      <3> QED BY <2>1, <3>1, <3>2
    <2>2. \A b \in Agents \ {a} :
            row'[b] = row[b] /\ (b \in unsure <=> b \in unsure')
      BY <1>1
    <2>3. \A b \in Agents \ {a} :
            /\ row'[a].status = "active" /\ row[b].status = "active"
            /\ row'[a].claims \cap row[b].claims # {}
            => a \in unsure' \/ b \in unsure'
      BY <1>1, <2>1
    <2> QED BY <1>t, <2>2, <2>3, ClaimsWritten
  <1>4. LayersOK'
    <2>1. \A t \in Types : t \in Owed => t \in Owed'
      <3> SUFFICES ASSUME NEW t \in Types, NEW d \in Calls, t \in Owes(d)
                   PROVE  t \in Owed'
        BY DEF Owed
      <3>1. d # c
        BY DEF Owes, At
      <3> QED BY <1>1, <3>1 DEF Owed
    <2> QED BY <1>t, <2>1 DEF LayersOK, LayersAreExplained, layerVars
  <1> QED BY <1>1, <1>2, <1>3, <1>4 DEF IInv

LEMMA StatusSet ==
  ASSUME IInv, NEW c \in Calls, NEW a \in Agents,
         NEW status \in {"active", "paused"},
         NEW next \in {Done, ToInvalidate(a)},
         At(c, "free"), SetStatus(c, a, status, next)
  PROVE  IInv'
  <1>1. row[a] \in Rows /\ unsure \in SUBSET Agents
    BY DEF IInv, TypeOK
  <1>2. row[a].claims \in SUBSET Channels /\ status \in Statuses
    BY <1>1 DEF Rows, Statuses
  <1>3. Rewrite(c, a, status, row[a].claims, next)
    BY DEF SetStatus
  <1>4. UNCHANGED <<told, readVars, layerVars, faults>>
    BY DEF SetStatus
  <1>5. unsure' = IF status # "active" THEN unsure \ {a}
                  ELSE IF row[a].status # "active" /\ row[a].claims # {}
                       THEN unsure \cup {a} ELSE unsure
    BY DEF SetStatus
  <1>6. unsure' \in SUBSET Agents
    BY <1>1, <1>5
  <1>7. \A b \in Agents \ {a} : b \in unsure <=> b \in unsure'
    BY <1>5
  <1>8. status = "active" =>
          \/ a \in unsure' \/ ~Clash(row, a, row[a].claims)
          \/ row[a].status = "active" /\ row[a].claims = row[a].claims
             /\ (a \in unsure => a \in unsure')
    BY <1>5 DEF Clash
  <1>9. call[c].pc \in {"free", "claim", "create"}
    BY DEF At
  <1> QED BY <1>2, <1>3, <1>4, <1>6, <1>7, <1>8, <1>9, Written

LEMMA AgentDeleted ==
  ASSUME IInv, NEW c \in Calls, NEW a \in Agents,
         NEW next \in {Done, ToInvalidate(a)}, DeleteAgent(c, a, next)
  PROVE  IInv'
  <1>1. unsure \in SUBSET Agents
    BY DEF IInv, TypeOK
  <1>2. "gone" \in Statuses /\ {} \in SUBSET Channels
    BY DEF Statuses
  <1>3. /\ Rewrite(c, a, "gone", {}, next)
        /\ UNCHANGED <<told, readVars, layerVars, faults>>
        /\ unsure' = unsure \ {a}
        /\ call[c].pc \in {"free", "claim", "create"}
    BY DEF DeleteAgent, At
  <1>4. /\ unsure' \in SUBSET Agents
        /\ \A b \in Agents \ {a} : b \in unsure <=> b \in unsure'
    BY <1>1, <1>3
  <1> QED BY <1>2, <1>3, <1>4, Written

LEMMA ModesWritten ==
  ASSUME IInv, NEW c \in Calls,
         \/ CreateAgent(c)
         \/ \E status \in {"active", "paused"} : UpdateModes(c, status)
  PROVE  IInv'
  <1>1. PICK status \in {"active", "paused"}, next \in {Done, ToInvalidate(call[c].agent)} :
          /\ Rewrite(c, call[c].agent, status, call[c].claims, next)
          /\ Settle(c, call[c].agent, status)
          /\ UNCHANGED <<told, readVars, layerVars, faults>>
          /\ call[c].pc \in {"free", "claim", "create"} /\ ~At(c, "free")
    BY DEF CreateAgent, UpdateModes, At
  <1> DEFINE a == call[c].agent
  <1>2. call[c] \in CallStates /\ unsure \in SUBSET Agents /\ CallOK(c)
    BY DEF IInv, TypeOK, CallsOK
  <1>3. a \in Agents /\ call[c].claims \in SUBSET Channels
    BY <1>1, <1>2 DEF CallOK, PlaceOK, Named, CallStates, At
  <1>4. unsure' = IF status = "active" /\ call[c].overtaken
                  THEN unsure \cup {a} ELSE unsure \ {a}
    BY <1>1 DEF Settle
  <1>5. /\ unsure' \in SUBSET Agents
        /\ \A b \in Agents \ {a} : b \in unsure <=> b \in unsure'
    BY <1>2, <1>3, <1>4
  <1>6. status = "active" => a \in unsure' \/ ~Clash(row, a, call[c].claims)
    BY <1>2, <1>4 DEF CallOK, CheckOK
  <1>7. status \in Statuses
    BY DEF Statuses
  <1> HIDE DEF a
  <1>8. /\ Rewrite(c, a, status, call[c].claims, next)
        /\ next \in {Done, ToInvalidate(a)}
    BY <1>1 DEF a
  <1> QED BY <1>1, <1>3, <1>5, <1>6, <1>7, <1>8, Written

LEMMA Invalidated ==
  ASSUME IInv, NEW c \in Calls, Invalidate(c)
  PROVE  IInv'
  <1>t. /\ RowType /\ ReadType /\ LayerType /\ CallType /\ FaultType
        /\ TypeOK /\ CallsOK /\ RegistryOK /\ ClaimsAreExplained /\ LayersOK
    BY TypeParts DEF IInv
  <1>1. PICK a \in Agents :
          /\ a = call[c].agent /\ call[c].ver <= row[a].ver
          /\ call[c].ver \in Nat /\ At(c, "route")
    <2>1. CallOK(c) /\ call[c] \in CallStates /\ At(c, "route")
      BY <1>t DEF Invalidate, CallsOK, CallType
    <2> QED BY <2>1 DEF CallOK, PlaceOK, WriteOK, Named, CallStates, At
  <1>2. /\ cache' = [cache EXCEPT ![a] = Empty]
        /\ reader' = [r \in Readers |->
             IF reader[r].pc = "read" /\ reader[r].agent = a
             THEN [reader[r] EXCEPT !.entry.late = TRUE] ELSE reader[r]]
        /\ told' = [told EXCEPT ![a] = Highest(@, call[c].ver)]
        /\ Goto(c, Done) /\ UNCHANGED <<row, unsure, layerVars, faults>>
    BY <1>1 DEF Invalidate
  <1>3. CallType' /\ call'[c] = Done /\ Others(c)
    BY <1>2, <1>t, Went, Basics
  <1>4. /\ told' \in [Agents -> Nat]
        /\ \A b \in Agents \ {a} : told'[b] = told[b]
        /\ told'[a] <= row[a].ver
    <2>1. told[a] \in Nat /\ row[a].ver \in Nat /\ told[a] <= row[a].ver
      BY <1>1, <1>t DEF RowType, Rows, RegistryOK
    <2>2. /\ Highest(told[a], call[c].ver) \in Nat
          /\ Highest(told[a], call[c].ver) <= row[a].ver
      BY <1>1, <2>1 DEF Highest
    <2>3. told' = [told EXCEPT ![a] = Highest(told[a], call[c].ver)]
      BY <1>2, <1>t DEF RowType
    <2> QED BY <1>1, <1>t, <2>2, <2>3 DEF RowType
  <1>5. cache' \in [Agents -> Entries]
    BY <1>2, <1>t, Basics DEF ReadType
  <1>6. \A r \in Readers :
          /\ reader'[r] \in [pc : {"idle", "asked", "read"},
                             agent : Agents \cup {"none"}, entry : Entries]
          /\ ReaderOK(r)'
    <2> SUFFICES ASSUME NEW r \in Readers
                 PROVE  /\ reader'[r] \in [pc : {"idle", "asked", "read"},
                             agent : Agents \cup {"none"}, entry : Entries]
                        /\ ReaderOK(r)'
      OBVIOUS
    <2>1. /\ reader[r] \in [pc : {"idle", "asked", "read"},
                            agent : Agents \cup {"none"}, entry : Entries]
          /\ ReaderOK(r)
      BY <1>t DEF ReadType, RegistryOK
    <2>2. CASE reader[r].pc = "read" /\ reader[r].agent = a
      <3>1. reader'[r] = [reader[r] EXCEPT
                            !.entry = [reader[r].entry EXCEPT !.late = TRUE]]
        BY <1>2, <2>1, <2>2
      <3>2. [reader[r].entry EXCEPT !.late = TRUE] \in Entries
        BY <2>1 DEF Entries
      <3>3. /\ reader'[r].pc = "read" /\ reader'[r].agent = a
            /\ reader'[r].entry.late
            /\ reader'[r].entry.age = reader[r].entry.age
            /\ reader'[r].entry.out = reader[r].entry.out
            /\ reader'[r].entry.wait = reader[r].entry.wait
        BY <2>1, <2>2, <3>1 DEF Entries
      <3> QED BY <1>1, <2>1, <2>2, <3>1, <3>2, <3>3 DEF ReaderOK
    <2>3. CASE ~(reader[r].pc = "read" /\ reader[r].agent = a)
      <3>1. reader'[r] = reader[r]
        BY <1>2, <2>3
      <3> QED BY <1>4, <2>1, <2>3, <3>1 DEF ReaderOK
    <2> QED BY <2>2, <2>3
  <1>7. TypeOK'
    <2>1. RowType' /\ LayerType' /\ FaultType'
      BY <1>2, <1>4, <1>t DEF RowType, LayerType, FaultType, layerVars
    <2>2. ReadType'
      BY <1>2, <1>5, <1>6 DEF ReadType
    <2> QED BY <1>3, <2>1, <2>2
            DEF TypeOK, RowType, ReadType, LayerType, CallType, FaultType
  <1>8. CallsOK'
    <2>1. CallOK(c)'
      BY <1>3, Resting
    <2>2. \A d \in Calls \ {c} : CallOK(d)'
      <3> SUFFICES ASSUME NEW d \in Calls \ {c}
                   PROVE  CallOK(d)'
        OBVIOUS
      <3>1. \A t \in Types :
              made'[t] >= made[t] /\ active'[t] \subseteq active[t]
        BY <1>2, <1>t, Basics DEF LayerType, layerVars
      <3> QED BY <1>2, <1>3, <1>7, <1>t, <3>1, Kept DEF Others, CallsOK
    <2> QED BY <2>1, <2>2 DEF CallsOK
  <1>9. RegistryOK'
    <2>1. \A b \in Agents : EntryOK(b)'
      <3>1. EntryOK(a)'
        BY <1>1, <1>2, <1>t, Basics DEF EntryOK, Empty, ReadType
      <3> QED BY <1>2, <1>t, <3>1 DEF EntryOK, RegistryOK, ReadType
    <2>2. \A b \in Agents : told'[b] <= row'[b].ver
      BY <1>2, <1>4, <1>t DEF RegistryOK
    <2>3. InvalidateIsHeeded'
      <3> SUFFICES ASSUME NEW b \in Agents, Valid(cache'[b]),
                          cache'[b].ver < told'[b]
                   PROVE  cache'[b].late
        BY DEF InvalidateIsHeeded, Valid
      <3>1. b # a
        BY <1>1, <1>2, <1>t, Basics DEF Valid, Empty, ReadType
      <3> QED BY <1>2, <1>4, <1>t, <3>1
              DEF RegistryOK, InvalidateIsHeeded, ReadType
    <2> QED BY <1>6, <2>1, <2>2, <2>3 DEF RegistryOK
  <1>10. ClaimsAreExplained'
    BY <1>2, <1>t DEF ClaimsAreExplained
  <1>11. LayersOK'
    <2>1. \A t \in Types : t \in Owed => t \in Owed'
      <3> SUFFICES ASSUME NEW t \in Types, NEW d \in Calls, t \in Owes(d)
                   PROVE  t \in Owed'
        BY DEF Owed
      <3>1. d # c
        BY <1>1 DEF Owes, At
      <3>2. Owes(d)' = Owes(d)
        BY <1>3, <3>1 DEF Owes, Others, At
      <3> QED BY <3>2 DEF Owed
    <2> QED BY <1>2, <1>t, <2>1 DEF LayersOK, LayersAreExplained, layerVars
  <1> QED BY <1>7, <1>8, <1>9, <1>10, <1>11 DEF IInv

-----------------------------------------------------------------------------
(* Steps of the registry.                                                  *)
ReaderType ==
  [pc : {"idle", "asked", "read"}, agent : Agents \cup {"none"},
   entry : Entries]

LEMMA RegistryMoved ==
  ASSUME IInv, UNCHANGED <<agentVars, layerVars, call>>,
         faults' \in 0..MaxFaults, ReadType',
         \A a \in Agents : EntryOK(a)', \A r \in Readers : ReaderOK(r)',
         InvalidateIsHeeded'
  PROVE  IInv'
  <1>1. TypeOK'
    <2>1. RowType' /\ LayerType' /\ CallType' /\ FaultType'
      BY TypeParts DEF IInv, RowType, LayerType, CallType, FaultType,
                       agentVars, layerVars
    <2> QED BY <2>1
            DEF TypeOK, RowType, ReadType, LayerType, CallType, FaultType
  <1>2. CallsOK'
    <2>1. \A t \in Types : made'[t] >= made[t] /\ active'[t] \subseteq active[t]
      BY Basics DEF IInv, TypeOK, layerVars
    <2> QED BY <1>1, <2>1, Kept DEF IInv, CallsOK, agentVars
  <1>3. RegistryOK'
    BY DEF IInv, RegistryOK, agentVars
  <1>4. ClaimsAreExplained'
    BY DEF IInv, ClaimsAreExplained, agentVars
  <1>5. LayersOK'
    BY DEF IInv, LayersOK, LayersAreExplained, Owed, Owes, At, layerVars
  <1> QED BY <1>1, <1>2, <1>3, <1>4, <1>5 DEF IInv

(* One read moves on, and the cache stays or loses an entry.               *)
LEMMA ReadMoved ==
  ASSUME IInv, NEW r \in Readers, NEW x \in ReaderType,
         UNCHANGED <<agentVars, layerVars, call>>, faults' \in 0..MaxFaults,
         reader' = [reader EXCEPT ![r] = x],
         \/ cache' = cache
         \/ \E a \in Agents : cache' = [cache EXCEPT ![a] = Empty],
         x.pc # "idle" => x.agent \in Agents,
         x.pc = "read" => /\ x.entry.age = 0 /\ x.entry.out <= x.entry.wait
                          /\ x.entry.ver >= told[x.agent]
  PROVE  IInv'
  <1>t. ReadType /\ RowType /\ RegistryOK
    BY TypeParts DEF IInv
  <1>1. \A b \in Agents : cache'[b] = cache[b] \/ cache'[b] = Empty
    BY <1>t DEF ReadType
  <1>2. cache' \in [Agents -> Entries]
    BY <1>t, Basics DEF ReadType
  <1>3. reader' \in [Readers -> ReaderType]
    BY <1>t DEF ReadType, ReaderType
  <1>4. \A a \in Agents : EntryOK(a)'
    <2> SUFFICES ASSUME NEW a \in Agents
                 PROVE  EntryOK(a)'
      OBVIOUS
    <2>1. CASE cache'[a] = cache[a]
      BY <1>t, <2>1 DEF RegistryOK, EntryOK
    <2>2. CASE cache'[a] = Empty
      BY <2>2, Basics DEF Empty, EntryOK
    <2> QED BY <1>1, <2>1, <2>2
  <1>5. \A q \in Readers : ReaderOK(q)'
    <2> SUFFICES ASSUME NEW q \in Readers
                 PROVE  ReaderOK(q)'
      OBVIOUS
    <2>1. CASE q = r
      <3>1. reader'[q] = x
        BY <1>t, <2>1 DEF ReadType
      <3>2. x.entry.ver \in Nat
        BY DEF ReaderType, Entries
      <3>3. x.pc = "read" => ~(x.entry.ver < told[x.agent])
        BY <1>t, <3>2 DEF RowType
      <3> QED BY <3>1, <3>3 DEF ReaderOK, agentVars
    <2>2. CASE q # r
      <3>1. reader'[q] = reader[q]
        BY <1>t, <2>2 DEF ReadType
      <3> QED BY <1>t, <3>1 DEF RegistryOK, ReaderOK, agentVars
    <2> QED BY <2>1, <2>2
  <1>6. InvalidateIsHeeded'
    <2> SUFFICES ASSUME NEW a \in Agents, Valid(cache'[a]),
                        cache'[a].ver < told[a]
                 PROVE  cache'[a].late
      BY DEF InvalidateIsHeeded, Valid, agentVars
    <2>1. cache'[a] # Empty
      BY Basics DEF Valid, Empty
    <2> QED BY <1>1, <1>t, <2>1 DEF RegistryOK, InvalidateIsHeeded
  <1>7. ReadType'
    BY <1>2, <1>3 DEF ReadType, ReaderType
  <1> QED BY <1>4, <1>5, <1>6, <1>7, RegistryMoved

LEMMA Looked ==
  ASSUME IInv, NEW r \in Readers, NEW a \in Agents, Miss(r, a) \/ Refresh(r, a)
  PROVE  IInv'
  <1> DEFINE x == [NoRead EXCEPT !.pc = "asked", !.agent = a]
  <1>1. x \in ReaderType /\ x.agent = a /\ x.pc = "asked"
    BY Basics DEF ReaderType, NoRead
  <1>2. /\ reader' = [reader EXCEPT ![r] = x]
        /\ cache' = cache \/ cache' = [cache EXCEPT ![a] = Empty]
        /\ UNCHANGED <<agentVars, layerVars, call, faults>>
    BY DEF Miss, Refresh, Ask
  <1>3. faults \in 0..MaxFaults
    BY DEF IInv, TypeOK
  <1> HIDE DEF x
  <1> QED BY <1>1, <1>2, <1>3, ReadMoved

LEMMA ReadEnded ==
  ASSUME IInv, NEW r \in Readers, ReadRow(r) \/ ReadFails(r)
  PROVE  IInv'
  <1>t. ReadType /\ RowType /\ RegistryOK /\ faults \in 0..MaxFaults
    BY TypeParts DEF IInv, FaultType
  <1>1. reader[r] \in ReaderType /\ ReaderOK(r) /\ reader[r].pc = "asked"
    BY <1>t DEF ReadType, ReaderType, RegistryOK, ReadRow, ReadFails
  <1>n. NoRead \in ReaderType /\ NoRead.pc = "idle"
    BY Basics DEF ReaderType, NoRead
  <1>2. CASE ReadFails(r)
    <2>1. /\ faults' \in 0..MaxFaults
          /\ reader' = [reader EXCEPT ![r] = NoRead]
          /\ cache' = cache /\ UNCHANGED <<agentVars, layerVars, call>>
      BY <1>2, <1>t, Basics DEF ReadFails, Fault
    <2> QED BY <1>n, <2>1, ReadMoved
  <1>3. CASE ReadRow(r)
    <2>1. PICK a \in Agents : a = reader[r].agent
      BY <1>1 DEF ReaderOK
    <2> DEFINE e == [Empty EXCEPT !.ver = row[a].ver, !.age = 0]
               x == [reader[r] EXCEPT !.pc = "read", !.entry = e]
    <2>2. cache' = cache /\ UNCHANGED <<agentVars, layerVars, call, faults>>
      BY <1>3 DEF ReadRow
    <2>3. CASE Exists(a)
      <3>1. reader' = [reader EXCEPT ![r] = x]
        BY <1>3, <1>t, <2>1, <2>3 DEF ReadRow, ReadType
      <3>2. row[a].ver \in Nat /\ told[a] \in Nat /\ told[a] <= row[a].ver
        BY <1>t DEF RowType, Rows, RegistryOK
      <3>3. /\ e \in Entries /\ e.ver = row[a].ver /\ e.age = 0
            /\ e.out = 0 /\ e.wait = 0
        <4>1. 0 \in 0..TTL /\ Empty \in Entries
          BY Basics
        <4>2. e \in Entries
          BY <3>2, <4>1 DEF Entries
        <4> QED BY <4>2 DEF Empty
      <3> HIDE DEF e
      <3>4. x \in ReaderType /\ x.agent = a /\ x.pc = "read" /\ x.entry = e
        BY <1>1, <2>1, <3>3 DEF ReaderType
      <3> HIDE DEF x
      <3>5. x.entry.ver >= told[x.agent] /\ x.entry.out <= x.entry.wait
        BY <3>2, <3>3, <3>4
      <3> QED BY <1>t, <2>2, <3>1, <3>3, <3>4, <3>5, ReadMoved
    <2>4. CASE ~Exists(a)
      <3>1. reader' = [reader EXCEPT ![r] = NoRead]
        BY <1>3, <1>t, <2>1, <2>4 DEF ReadRow, ReadType
      <3> QED BY <1>n, <1>t, <2>2, <3>1, ReadMoved
    <2> QED BY <2>3, <2>4
  <1> QED BY <1>2, <1>3

LEMMA Cached ==
  ASSUME IInv, NEW r \in Readers, SetCached(r)
  PROVE  IInv'
  <1>t. ReadType /\ RowType /\ RegistryOK /\ faults \in 0..MaxFaults
    BY TypeParts DEF IInv, FaultType
  <1>1. PICK a \in Agents, e \in Entries :
          /\ a = reader[r].agent /\ e = reader[r].entry
          /\ e.age = 0 /\ e.out <= e.wait /\ (e.ver < told[a] => e.late)
    BY <1>t DEF SetCached, ReadType, RegistryOK, ReaderOK
  <1>2. /\ cache' = [cache EXCEPT ![a] = e]
        /\ reader' = [reader EXCEPT ![r] = NoRead]
        /\ UNCHANGED <<agentVars, layerVars, call, faults>>
    BY <1>1 DEF SetCached
  <1>3. cache'[a] = e /\ \A b \in Agents \ {a} : cache'[b] = cache[b]
    BY <1>2, <1>t DEF ReadType
  <1>4. ReadType'
    BY <1>2, <1>t, Basics DEF ReadType
  <1>5. \A b \in Agents : EntryOK(b)'
    BY <1>1, <1>3, <1>t DEF RegistryOK, EntryOK, Entries
  <1>6. \A q \in Readers : ReaderOK(q)'
    <2> SUFFICES ASSUME NEW q \in Readers
                 PROVE  ReaderOK(q)'
      OBVIOUS
    <2>1. reader'[q] = reader[q] \/ reader'[q].pc = "idle"
      BY <1>2, <1>t DEF ReadType, NoRead
    <2> QED BY <1>2, <1>t, <2>1 DEF RegistryOK, ReaderOK, agentVars
  <1>7. InvalidateIsHeeded'
    BY <1>1, <1>2, <1>3, <1>t
       DEF RegistryOK, InvalidateIsHeeded, Valid, agentVars
  <1> QED BY <1>2, <1>4, <1>5, <1>6, <1>7, <1>t, RegistryMoved

LEMMA Ticked ==
  ASSUME IInv, Tick
  PROVE  IInv'
  <1>t. ReadType /\ RowType /\ RegistryOK /\ faults \in 0..MaxFaults
    BY TypeParts DEF IInv, FaultType
  <1>1. UNCHANGED <<agentVars, layerVars, call, faults>>
    BY DEF Tick
  <1>2. ASSUME NEW a \in Agents
        PROVE  /\ cache'[a] \in Entries /\ EntryOK(a)'
               /\ cache'[a].ver = cache[a].ver /\ cache'[a].late = cache[a].late
               /\ Valid(cache'[a]) => Valid(cache[a])
    <2>1. cache[a] \in Entries /\ EntryOK(a)
      BY <1>t DEF ReadType, RegistryOK
    <2>2. CASE cache[a].age = TTL
      <3>1. cache'[a] = cache[a]
        BY <2>2 DEF Tick
      <3> QED BY <2>1, <3>1 DEF EntryOK
    <2>3. CASE cache[a].age # TTL
      <3>1. cache'[a] = [cache[a] EXCEPT !.age = cache[a].age + 1,
                                         !.out = Outdated(cache[a], a)]
        BY <2>3 DEF Tick
      <3>2. /\ cache[a].age \in 0..TTL /\ cache[a].out \in Nat
            /\ cache[a].wait \in Nat
        BY <2>1, Basics DEF Entries
      <3>3. /\ Outdated(cache[a], a) \in Nat
            /\ Outdated(cache[a], a) <= cache[a].out + 1
        BY <3>2 DEF Outdated
      <3>4. cache[a].age + 1 \in 0..TTL
        BY <2>3, <3>2, Basics
      <3>5. cache'[a] \in Entries
        BY <2>1, <3>1, <3>3, <3>4 DEF Entries
      <3>6. /\ cache'[a].age = cache[a].age + 1
            /\ cache'[a].out = Outdated(cache[a], a)
            /\ cache'[a].wait = cache[a].wait
            /\ cache'[a].ver = cache[a].ver /\ cache'[a].late = cache[a].late
        BY <2>1, <3>1 DEF Entries
      <3>7. EntryOK(a)'
        BY <2>1, <3>2, <3>3, <3>6 DEF EntryOK
      <3>8. Valid(cache'[a]) => Valid(cache[a])
        BY <3>2, <3>6, Basics DEF Valid
      <3> QED BY <3>5, <3>6, <3>7, <3>8
    <2> QED BY <2>2, <2>3
  <1>3. ASSUME NEW r \in Readers
        PROVE  reader'[r] \in ReaderType /\ ReaderOK(r)'
    <2>1. reader[r] \in ReaderType /\ ReaderOK(r)
      BY <1>t DEF ReadType, ReaderType, RegistryOK
    <2>2. CASE reader[r].pc # "read"
      <3>1. reader'[r] = reader[r]
        BY <2>2 DEF Tick
      <3> QED BY <1>1, <2>1, <3>1 DEF ReaderOK, agentVars
    <2>3. CASE reader[r].pc = "read"
      <3> DEFINE e == reader[r].entry
                 new == [e EXCEPT !.wait = e.wait + 1,
                                  !.out = Outdated(e, reader[r].agent)]
      <3>1. reader'[r] = [reader[r] EXCEPT !.entry = new]
        BY <2>1, <2>3 DEF Tick, ReaderType, Entries
      <3>2. /\ e \in Entries /\ e.wait \in 0..MaxWait /\ e.wait < MaxWait
            /\ e.out \in Nat
        BY <2>1, <2>3 DEF ReaderType, Entries, Tick
      <3>3. /\ Outdated(e, reader[r].agent) \in Nat
            /\ Outdated(e, reader[r].agent) <= e.out + 1
        BY <3>2 DEF Outdated
      <3>4. e.wait + 1 \in 0..MaxWait
        BY <3>2, Basics
      <3>5. /\ new \in Entries /\ new.wait = e.wait + 1
            /\ new.out = Outdated(e, reader[r].agent) /\ new.age = e.age
            /\ new.ver = e.ver /\ new.late = e.late
        BY <3>2, <3>3, <3>4 DEF Entries
      <3>6. /\ reader'[r] \in ReaderType /\ reader'[r].entry = new
            /\ reader'[r].pc = "read" /\ reader'[r].agent = reader[r].agent
        BY <2>1, <2>3, <3>1, <3>5 DEF ReaderType
      <3>7. e.age = 0 /\ e.out <= e.wait /\ (e.ver < told[reader[r].agent] => e.late)
        BY <2>1, <2>3 DEF ReaderOK
      <3>8. new.out <= new.wait
        BY <3>2, <3>3, <3>5, <3>7
      <3> HIDE DEF new, e
      <3>9. told' = told
        BY <1>1 DEF agentVars
      <3> QED BY <2>1, <2>3, <3>5, <3>6, <3>7, <3>8, <3>9 DEF ReaderOK
    <2> QED BY <2>2, <2>3
  <1>4. ReadType'
    <2>1. /\ cache' = [a \in Agents |-> cache'[a]]
          /\ reader' = [r \in Readers |-> reader'[r]]
      BY DEF Tick
    <2> QED BY <1>2, <1>3, <2>1 DEF ReadType, ReaderType
  <1>5. InvalidateIsHeeded'
    <2> SUFFICES ASSUME NEW a \in Agents, Valid(cache'[a]),
                        cache'[a].ver < told[a]
                 PROVE  cache'[a].late
      BY <1>1 DEF InvalidateIsHeeded, Valid, agentVars
    <2> QED BY <1>2, <1>t DEF RegistryOK, InvalidateIsHeeded
  <1> QED BY <1>1, <1>2, <1>3, <1>4, <1>5, <1>t, RegistryMoved

-----------------------------------------------------------------------------
(* Steps of a call that write no row and activate no layer.                *)
LEMMA Moved ==
  ASSUME IInv, NEW c \in Calls, NEW x \in CallStates, Goto(c, x),
         UNCHANGED <<agentVars, readVars>>, faults' \in 0..MaxFaults,
         LayerType',
         \A t \in Types :
           /\ made'[t] >= made[t] /\ active'[t] \subseteq active[t]
           /\ \/ active'[t] = {}
              \/ active'[t] = active[t] /\ excused'[t] = excused[t]
           /\ active'[t] = {} /\ (active[t] # {} \/ t \in Owes(c))
                => t \in bare' \cup Owes(c)',
         bare \subseteq bare',
         call'[c] = x => CallOK(c)'
  PROVE  IInv'
  <1>t. /\ TypeOK /\ CallsOK /\ RegistryOK /\ ClaimsAreExplained /\ LayersOK
        /\ CallType
    BY DEF IInv, TypeOK, CallType
  <1>1. CallType' /\ call'[c] = x /\ Others(c)
    BY <1>t, Went
  <1>2. TypeOK'
    <2>1. RowType' /\ ReadType'
      BY <1>t, TypeParts DEF RowType, ReadType, agentVars, readVars
    <2> QED BY <1>1, <2>1
            DEF TypeOK, RowType, ReadType, LayerType, CallType
  <1>3. CallsOK'
    <2> SUFFICES ASSUME NEW d \in Calls
                 PROVE  CallOK(d)'
      BY DEF CallsOK
    <2>1. CASE d = c
      BY <1>1, <2>1
    <2>2. CASE d # c
      BY <1>1, <1>2, <1>t, <2>2, Kept DEF Others, CallsOK, agentVars
    <2> QED BY <2>1, <2>2
  <1>4. RegistryOK'
    BY <1>t DEF RegistryOK, EntryOK, ReaderOK, InvalidateIsHeeded, agentVars,
                readVars
  <1>5. ClaimsAreExplained'
    BY <1>t DEF ClaimsAreExplained, agentVars
  <1>6. LayersOK'
    <2>1. ASSUME NEW t \in Types, active'[t] = {},
                 active[t] = {} => t \in bare \cup Owed
          PROVE  t \in bare' \cup Owed'
      <3>1. CASE active[t] # {} \/ t \in Owes(c)
        <4>1. t \in bare' \cup Owes(c)'
          BY <2>1, <3>1
        <4> QED BY <4>1 DEF Owed
      <3>2. CASE active[t] = {} /\ t \notin Owes(c) /\ t \notin bare
        <4>1. PICK d \in Calls : t \in Owes(d)
          BY <2>1, <3>2 DEF Owed
        <4>2. Owes(d)' = Owes(d)
          BY <1>1, <3>2, <4>1 DEF Owes, Others, At
        <4> QED BY <4>1, <4>2 DEF Owed
      <3> QED BY <3>1, <3>2
    <2> QED BY <1>2, <1>t, <2>1, LayersKept
  <1> QED BY <1>2, <1>3, <1>4, <1>5, <1>6 DEF IInv

(* The layers are as they were.                                            *)
LEMMA MovedOnly ==
  ASSUME IInv, NEW c \in Calls, NEW x \in CallStates, Goto(c, x),
         UNCHANGED <<agentVars, readVars, layerVars, faults>>,
         call'[c] = x => CallOK(c)' /\ \A t \in Owes(c) : t \in Owes(c)'
  PROVE  IInv'
  <1>1. /\ CallType /\ LayerType /\ faults \in 0..MaxFaults
    BY TypeParts DEF IInv, FaultType
  <1>2. call'[c] = x
    BY <1>1, Went
  <1>3. LayerType'
    BY <1>1 DEF LayerType, layerVars
  <1>4. \A t \in Types :
          /\ made'[t] >= made[t] /\ active'[t] \subseteq active[t]
          /\ active'[t] = active[t] /\ excused'[t] = excused[t]
    BY <1>1, Basics DEF LayerType, layerVars
  <1>5. \A t \in Types :
          active'[t] = {} /\ (active[t] # {} \/ t \in Owes(c))
            => t \in bare' \cup Owes(c)'
    BY <1>2, <1>4
  <1>6. bare' = bare
    BY DEF layerVars
  <1> QED BY <1>1, <1>2, <1>3, <1>4, <1>5, <1>6, Moved

LEMMA AgentChecked ==
  ASSUME IInv, NEW c \in Calls, NEW a \in Agents, NEW claims \in SUBSET Channels,
         \/ CheckModes(c, a, claims)
         \/ \E b \in BOOLEAN : CheckNewAgent(c, a, claims, b)
  PROVE  IInv'
  <1>1. At(c, "free") /\ UNCHANGED <<agentVars, readVars, layerVars, faults>>
    BY DEF CheckModes, CheckNewAgent
  <1>2. Owes(c) = {}
    BY <1>1 DEF Owes, At
  <1>3. PICK x \in CallStates :
          /\ Goto(c, x)
          /\ \/ x = Done
             \/ /\ x.pc \in {"claim", "look", "create"} /\ x.agent = a
                /\ ~Clash(row, a, claims) /\ x.claims = claims
    <2>1. CASE Clash(row, a, claims)
      BY <2>1, Basics DEF CheckModes, CheckNewAgent
    <2>2. ASSUME ~Clash(row, a, claims), CheckModes(c, a, claims)
          PROVE  \E x \in CallStates :
                   /\ Goto(c, x) /\ x.pc = "claim" /\ x.agent = a
                   /\ x.claims = claims
      <3> DEFINE x == [NoCall EXCEPT !.pc = "claim", !.agent = a,
                                     !.claims = claims]
      <3>1. x \in CallStates
        BY Basics DEF CallStates, Places
      <3>2. x.pc = "claim" /\ x.agent = a /\ x.claims = claims
        BY DEF NoCall
      <3>3. Goto(c, x)
        BY <2>2 DEF CheckModes
      <3> QED BY <3>1, <3>2, <3>3
    <2>3. ASSUME ~Clash(row, a, claims), NEW b \in BOOLEAN,
                 CheckNewAgent(c, a, claims, b)
          PROVE  \E x \in CallStates :
                   /\ Goto(c, x) /\ x.pc \in {"look", "create"} /\ x.agent = a
                   /\ x.claims = claims
      <3> DEFINE x == [NoCall EXCEPT !.pc = IF b THEN "look" ELSE "create",
                                     !.kind = IF b THEN "seed" ELSE "any",
                                     !.agent = a, !.claims = claims]
      <3>1. x \in CallStates
        BY Basics DEF CallStates, Places, Kinds, Seeding
      <3>2. /\ x.pc \in {"look", "create"} /\ x.agent = a
            /\ x.claims = claims
        BY DEF NoCall
      <3>3. Goto(c, x)
        BY <2>3 DEF CheckNewAgent
      <3> QED BY <3>1, <3>2, <3>3
    <2> QED BY <2>1, <2>2, <2>3
  <1>4. ASSUME call'[c] = x
        PROVE  CallOK(c)'
    <2>1. CASE x = Done
      BY <1>4, <2>1, Resting
    <2>2. CASE /\ x.pc \in {"claim", "look", "create"} /\ x.agent = a
               /\ ~Clash(row, a, claims) /\ x.claims = claims
      <3>1. PlaceOK(c)' /\ WriteOK(c)'
        BY <1>4, <2>2 DEF PlaceOK, WriteOK, At
      <3>2. CheckOK(c)'
        BY <1>1, <1>4, <2>2 DEF CheckOK, agentVars
      <3>3. ActivationOK(c)'
        BY <1>4, <2>2 DEF ActivationOK, Owes, At
      <3> QED BY <3>1, <3>2, <3>3 DEF CallOK
    <2> QED BY <1>3, <2>1, <2>2
  <1> QED BY <1>1, <1>2, <1>3, <1>4, MovedOnly

LEMMA Refused ==
  ASSUME IInv, NEW c \in Calls, WriteRefused(c)
  PROVE  IInv'
  <1>1. Goto(c, Done) /\ UNCHANGED <<agentVars, readVars, layerVars, faults>>
    BY DEF WriteRefused
  <1>2. Owes(c) = {}
    BY DEF WriteRefused, Owes, At
  <1> QED BY <1>1, <1>2, Basics, Resting, MovedOnly

LEMMA NumberedFields ==
  ASSUME TypeOK, NEW from \in CallStates, NEW t \in Types, made[t] < MaxLayers
  PROVE  /\ Numbered(from, t) \in CallStates
         /\ Numbered(from, t).pc = "insert" /\ Numbered(from, t).type = t
         /\ Numbered(from, t).seen[t] = made[t]
         /\ Numbered(from, t).kind = from.kind
         /\ Numbered(from, t).agent = from.agent
         /\ Numbered(from, t).claims = from.claims
         /\ Numbered(from, t).overtaken = from.overtaken
  <1> DEFINE seen == [from.seen EXCEPT ![t] = made[t]]
  <1>1. from.seen \in [Types -> 0..MaxLayers] /\ made[t] \in 0..MaxLayers
    BY DEF CallStates, TypeOK
  <1>2. seen \in [Types -> 0..MaxLayers] /\ seen[t] = made[t]
    BY <1>1
  <1>3. Numbered(from, t) = [from EXCEPT !.pc = "insert", !.type = t,
                                         !.seen = seen]
    BY DEF Numbered, CallStates
  <1> HIDE DEF seen
  <1> QED BY <1>2, <1>3 DEF CallStates, Places, Seeding

LEMMA NextSeedOK ==
  ASSUME IInv, NEW c \in Calls, call[c].agent \in Agents,
         call[c].kind \in Kinds
  PROVE  /\ NextSeed(c) \in CallStates
         /\ call'[c] = NextSeed(c) /\ row' = row => CallOK(c)'
  <1>1. call[c] \in CallStates /\ CallOK(c)
    BY DEF IInv, TypeOK, CallsOK
  <1>2. CASE call[c].type < N
    <2> DEFINE x == [call[c] EXCEPT !.pc = "look", !.type = call[c].type + 1]
    <2>1. call[c].type + 1 \in Types
      <3>1. call[c].type \in Types
        BY <1>1 DEF CallStates
      <3> QED BY <1>2, <3>1, Basics DEF Types
    <2>2. /\ x \in CallStates /\ x.pc = "look" /\ x.agent = call[c].agent
          /\ x.claims = call[c].claims /\ x.overtaken = call[c].overtaken
      BY <1>1, <2>1 DEF CallStates, Places, Seeding
    <2>3. NextSeed(c) = x
      BY <1>1, <1>2 DEF NextSeed, CallStates
    <2> HIDE DEF x
    <2>4. ASSUME call'[c] = x, row' = row
          PROVE  CallOK(c)'
      <3>1. PlaceOK(c)' /\ WriteOK(c)'
        BY <2>2, <2>4 DEF PlaceOK, WriteOK, At
      <3>2. CheckOK(c)'
        BY <1>1, <2>2, <2>4 DEF CallOK, CheckOK
      <3>3. ActivationOK(c)'
        BY <2>2, <2>4 DEF ActivationOK, Owes, At
      <3> QED BY <3>1, <3>2, <3>3 DEF CallOK
    <2> QED BY <2>2, <2>3, <2>4
  <1>3. CASE ~(call[c].type < N)
    <2> DEFINE x == [call[c] EXCEPT !.pc = "create", !.kind = "any"]
    <2>1. /\ x \in CallStates /\ x.pc = "create" /\ x.agent = call[c].agent
          /\ x.claims = call[c].claims /\ x.overtaken = call[c].overtaken
      BY <1>1 DEF CallStates, Places, Kinds
    <2>2. NextSeed(c) = x
      BY <1>3 DEF NextSeed
    <2> HIDE DEF x
    <2>3. ASSUME call'[c] = x, row' = row
          PROVE  CallOK(c)'
      <3>1. PlaceOK(c)' /\ WriteOK(c)'
        BY <2>1, <2>3 DEF PlaceOK, WriteOK, At
      <3>2. CheckOK(c)'
        BY <1>1, <2>1, <2>3 DEF CallOK, CheckOK
      <3>3. ActivationOK(c)'
        BY <2>1, <2>3 DEF ActivationOK, Owes, At
      <3> QED BY <3>1, <3>2, <3>3 DEF CallOK
    <2> QED BY <2>1, <2>2, <2>3
  <1> QED BY <1>2, <1>3

LEMMA SeedStep ==
  ASSUME IInv, NEW c \in Calls, LookForLayer(c) \/ NumberSeed(c)
  PROVE  IInv'
  <1>1. /\ UNCHANGED <<agentVars, readVars, layerVars, faults>>
        /\ call[c].pc \in {"look", "number"}
    BY DEF LookForLayer, NumberSeed, At
  <1>2. call[c] \in CallStates /\ CallOK(c) /\ TypeOK
    BY DEF IInv, TypeOK, CallsOK
  <1>3. /\ call[c].agent \in Agents /\ call[c].kind \in Kinds
        /\ call[c].type \in Types
    BY <1>1, <1>2 DEF CallOK, PlaceOK, Named, CallStates
  <1>4. Owes(c) = {}
    BY <1>1 DEF Owes, At
  <1>5. CASE Goto(c, NextSeed(c))
    BY <1>1, <1>3, <1>4, <1>5, NextSeedOK, MovedOnly DEF agentVars
  <1>6. CASE Goto(c, [call[c] EXCEPT !.pc = "number"])
    <2> DEFINE x == [call[c] EXCEPT !.pc = "number"]
    <2>1. /\ x \in CallStates /\ x.pc = "number" /\ x.agent = call[c].agent
          /\ x.claims = call[c].claims /\ x.overtaken = call[c].overtaken
      BY <1>2 DEF CallStates, Places, Seeding
    <2> HIDE DEF x
    <2>2. ASSUME call'[c] = x
          PROVE  CallOK(c)'
      <3>1. PlaceOK(c)' /\ WriteOK(c)'
        BY <1>3, <2>1, <2>2 DEF PlaceOK, WriteOK, At
      <3>2. CheckOK(c)'
        BY <1>1, <1>2, <2>1, <2>2 DEF CallOK, CheckOK, agentVars
      <3>3. ActivationOK(c)'
        BY <2>1, <2>2 DEF ActivationOK, Owes, At
      <3> QED BY <3>1, <3>2, <3>3 DEF CallOK
    <2>3. Goto(c, x)
      BY <1>6 DEF x
    <2> QED BY <1>1, <1>4, <2>1, <2>2, <2>3, MovedOnly
  <1>7. CASE NumberSeed(c)
    <2>1. PICK x \in CallStates :
            /\ Goto(c, x) /\ x.pc = "insert" /\ x.type = call[c].type
            /\ x.seen[call[c].type] < MaxLayers /\ x.agent = call[c].agent
            /\ x.claims = call[c].claims /\ x.overtaken = call[c].overtaken
      BY <1>2, <1>3, <1>7, NumberedFields DEF NumberSeed
    <2>2. ASSUME call'[c] = x
          PROVE  CallOK(c)'
      <3>1. PlaceOK(c)' /\ WriteOK(c)'
        BY <1>3, <2>1, <2>2 DEF PlaceOK, WriteOK, At, Named
      <3>2. CheckOK(c)'
        BY <1>1, <1>2, <2>1, <2>2 DEF CallOK, CheckOK, agentVars
      <3>3. ActivationOK(c)'
        BY <2>1, <2>2 DEF ActivationOK, Owes, At
      <3> QED BY <3>1, <3>2, <3>3 DEF CallOK
    <2> QED BY <1>1, <1>4, <2>1, <2>2, MovedOnly
  <1> QED BY <1>5, <1>6, <1>7 DEF LookForLayer

LEMMA NewStep ==
  ASSUME IInv, NEW c \in Calls, NEW t \in Types, NEW kind \in {"add", "promote"},
         NumberNew(c, t, kind)
  PROVE  IInv'
  <1> DEFINE from == [NoCall EXCEPT !.kind = kind]
  <1>1. /\ from \in CallStates /\ from.kind = kind /\ from.claims = {}
    BY Basics DEF CallStates, Kinds, NoCall
  <1> HIDE DEF from
  <1>2. /\ Goto(c, Numbered(from, t)) /\ made[t] < MaxLayers /\ At(c, "free")
        /\ UNCHANGED <<agentVars, readVars, layerVars, faults>>
    BY DEF NumberNew, from
  <1>3. PICK x \in CallStates :
          /\ Goto(c, x) /\ x.pc = "insert" /\ x.kind = kind
          /\ x.seen[x.type] < MaxLayers /\ x.claims = {}
    <2>1. TypeOK
      BY DEF IInv
    <2> QED BY <1>1, <1>2, <2>1, NumberedFields
  <1>4. Owes(c) = {}
    BY <1>2 DEF Owes, At
  <1>5. ASSUME call'[c] = x
        PROVE  CallOK(c)'
    <2>1. PlaceOK(c)' /\ WriteOK(c)'
      BY <1>3, <1>5 DEF PlaceOK, WriteOK, At, Named
    <2>2. CheckOK(c)'
      BY <1>3, <1>5 DEF CheckOK, Clash
    <2>3. ActivationOK(c)'
      BY <1>3, <1>5 DEF ActivationOK, Owes, At
    <2> QED BY <2>1, <2>2, <2>3 DEF CallOK
  <1> QED BY <1>2, <1>3, <1>4, <1>5, MovedOnly

LEMMA InsertStep ==
  ASSUME IInv, NEW c \in Calls, InsertLayer(c)
  PROVE  IInv'
  <1> DEFINE t == call[c].type
  <1>1. /\ LayerType /\ CallType /\ faults \in 0..MaxFaults /\ CallOK(c)
        /\ call[c] \in CallStates /\ t \in Types /\ made[t] \in 0..MaxLayers
    <2>1. LayerType /\ CallType /\ faults \in 0..MaxFaults /\ CallOK(c)
      BY TypeParts DEF IInv, FaultType, CallsOK
    <2>2. call[c] \in CallStates /\ t \in Types
      BY <2>1 DEF CallType, CallStates
    <2> QED BY <2>1, <2>2 DEF LayerType
  <1>2. /\ At(c, "insert")
        /\ UNCHANGED <<active, excused, bare, agentVars, readVars, faults>>
    BY DEF InsertLayer
  <1>3. Owes(c) = {}
    BY <1>2 DEF Owes, At
  <1>4. CASE made[t] = call[c].seen[t]
    <2>1. made[t] + 1 \in 0..MaxLayers /\ made[t] + 1 \in 1..MaxLayers
      BY <1>1, <1>2, <1>4, Basics DEF CallOK, PlaceOK
    <2>2. made' = [made EXCEPT ![t] = made[t] + 1] /\ Goto(c, Inserted(c))
      BY <1>1, <1>4 DEF InsertLayer, LayerType
    <2>3. /\ LayerType' /\ \A u \in Types : made'[u] >= made[u]
          /\ made'[t] = made[t] + 1
      <3>1. made' \in [Types -> 0..MaxLayers] /\ made'[t] = made[t] + 1
        BY <1>1, <2>1, <2>2 DEF LayerType
      <3>2. \A u \in Types : made[u] \in Nat /\ (u # t => made'[u] = made[u])
        BY <1>1, <2>2, Basics DEF LayerType
      <3>3. \A u \in Types : made'[u] >= made[u]
        BY <1>1, <3>1, <3>2
      <3> QED BY <1>1, <1>2, <3>1, <3>3 DEF LayerType
    <2>4. Inserted(c) \in CallStates /\ (call'[c] = Inserted(c) => CallOK(c)')
      <3>1. CASE call[c].kind = "seed"
        <4>1. call[c].agent \in Agents /\ call[c].kind \in Kinds
          BY <1>1, <1>2, <3>1 DEF CallOK, PlaceOK, Kinds
        <4> QED BY <1>2, <3>1, <4>1, NextSeedOK DEF Inserted, agentVars
      <3>2. CASE call[c].kind = "promote"
        <4> DEFINE x == [call[c] EXCEPT !.pc = "begin", !.layer = made[t] + 1]
        <4>1. /\ x \in CallStates /\ x.pc = "begin" /\ x.agent = call[c].agent
              /\ x.claims = call[c].claims /\ x.overtaken = call[c].overtaken
              /\ x.layer = made[t] + 1 /\ x.type = t
          BY <1>1, <2>1 DEF CallStates, Places
        <4>2. Inserted(c) = x
          BY <3>2 DEF Inserted
        <4> HIDE DEF x
        <4>3. ASSUME call'[c] = x
              PROVE  CallOK(c)'
          <5>1. PlaceOK(c)' /\ WriteOK(c)'
            <6>1. x.layer \in 1..made'[x.type]
              BY <2>1, <2>3, <4>1
            <6> QED BY <4>1, <4>3, <6>1 DEF PlaceOK, WriteOK, At, Named
          <5>2. CheckOK(c)'
            BY <1>1, <1>2, <4>1, <4>3 DEF CallOK, CheckOK, agentVars
          <5>3. ActivationOK(c)'
            BY <4>1, <4>3 DEF ActivationOK, Owes, At
          <5> QED BY <5>1, <5>2, <5>3 DEF CallOK
        <4> QED BY <4>1, <4>2, <4>3
      <3>3. CASE call[c].kind \notin {"seed", "promote"}
        <4>1. Inserted(c) = Done
          BY <3>3 DEF Inserted
        <4> QED BY <4>1, Basics, Resting
      <3> QED BY <3>1, <3>2, <3>3
    <2> HIDE DEF t
    <2> QED BY <1>1, <1>2, <1>3, <2>2, <2>3, <2>4, Moved
  <1>5. CASE made[t] # call[c].seen[t]
    <2>1. UNCHANGED <<made, agentVars, readVars, layerVars, faults>> /\ Goto(c, Done)
      BY <1>2, <1>5 DEF InsertLayer, layerVars
    <2> QED BY <1>3, <2>1, Basics, Resting, MovedOnly
  <1> QED BY <1>4, <1>5

LEMMA BeginStep ==
  ASSUME IInv, NEW c \in Calls, NEW t \in Types, NEW layer \in Versions,
         BeginActivate(c, t, layer)
  PROVE  IInv'
  <1>1. /\ call[c] \in CallStates /\ CallOK(c) /\ made[t] \in 0..MaxLayers
        /\ active[t] \subseteq 1..made[t]
    BY DEF IInv, TypeOK, CallsOK, LayersOK
  <1>2. /\ call[c].pc \in {"free", "begin"} /\ layer \in 1..made[t]
        /\ UNCHANGED <<agentVars, readVars, layerVars, faults>>
    BY <1>1 DEF BeginActivate, At, CallOK, PlaceOK
  <1>3. Owes(c) = {}
    BY <1>2 DEF Owes, At
  <1> DEFINE seen == [call[c].seen EXCEPT ![t] = made[t]]
             x == [call[c] EXCEPT !.pc = "commit", !.type = t,
                     !.layer = layer, !.seen = seen, !.crossed = {}]
  <1>4. seen \in [Types -> 0..MaxLayers] /\ seen[t] = made[t]
    <2>1. call[c].seen \in [Types -> 0..MaxLayers]
      BY <1>1 DEF CallStates
    <2> QED BY <1>1, <2>1
  <1>5. Goto(c, x)
    BY <1>1 DEF BeginActivate, CallStates
  <1> HIDE DEF seen
  <1>6. layer \in 0..MaxLayers
    BY Basics DEF Versions
  <1>7. /\ x \in CallStates /\ x.pc = "commit" /\ x.type = t /\ x.layer = layer
        /\ x.seen = seen /\ x.crossed = {} /\ x.claims = call[c].claims
        /\ x.agent = call[c].agent /\ x.overtaken = call[c].overtaken
    BY <1>1, <1>4, <1>6 DEF CallStates, Places
  <1> HIDE DEF x
  <1>8. ASSUME call'[c] = x
        PROVE  CallOK(c)'
    <2>1. PlaceOK(c)' /\ WriteOK(c)'
      BY <1>2, <1>7, <1>8 DEF PlaceOK, WriteOK, At, Named, layerVars
    <2>2. CheckOK(c)'
      BY <1>1, <1>2, <1>7, <1>8 DEF CallOK, CheckOK, agentVars
    <2>3. ActivationOK(c)'
      BY <1>1, <1>2, <1>4, <1>7, <1>8 DEF ActivationOK, Owes, At, layerVars
    <2> QED BY <2>1, <2>2, <2>3 DEF CallOK
  <1> QED BY <1>2, <1>3, <1>5, <1>7, <1>8, MovedOnly

LEMMA GroupStep ==
  ASSUME IInv, NEW c \in Calls, GroupVersions(c)
  PROVE  IInv'
  <1>1. /\ call[c] \in CallStates /\ CallOK(c)
        /\ made \in [Types -> 0..MaxLayers]
    BY DEF IInv, TypeOK, CallsOK
  <1>2. /\ At(c, "group") /\ \A t \in Types : made[t] < MaxLayers
        /\ Goto(c, [call[c] EXCEPT !.pc = "plant", !.seen = made])
        /\ UNCHANGED <<agentVars, readVars, layerVars, faults>>
    BY DEF GroupVersions
  <1> DEFINE x == [call[c] EXCEPT !.pc = "plant", !.seen = made]
  <1>3. /\ x \in CallStates /\ x.pc = "plant" /\ x.seen = made
        /\ x.type = call[c].type /\ x.crossed = call[c].crossed
        /\ x.agent = call[c].agent /\ x.claims = call[c].claims
        /\ x.overtaken = call[c].overtaken
    BY <1>1 DEF CallStates, Places
  <1> HIDE DEF x
  <1>4. Owes(c) = Types
    BY <1>2 DEF Owes, At
  <1>5. ASSUME call'[c] = x
        PROVE  CallOK(c)' /\ \A t \in Owes(c) : t \in Owes(c)'
    <2>1. PlaceOK(c)' /\ WriteOK(c)'
      BY <1>2, <1>3, <1>5 DEF PlaceOK, WriteOK, At, Named, layerVars
    <2>2. CheckOK(c)'
      BY <1>1, <1>2, <1>3, <1>5 DEF CallOK, CheckOK, agentVars
    <2>3. x.type = 1
      BY <1>1, <1>2, <1>3 DEF CallOK, PlaceOK
    <2>4. Owes(c)' \subseteq Types
      BY DEF Owes
    <2>5. ActivationOK(c)'
      BY <1>1, <1>2, <1>3, <1>4, <1>5, <2>4
         DEF CallOK, ActivationOK, At, layerVars
    <2>6. \A t \in Types : t \in Owes(c)'
      <3>1. \A t \in Types : t >= 1
        BY Basics DEF Types
      <3> QED BY <1>3, <1>5, <2>3, <3>1 DEF Owes, At
    <2> QED BY <1>4, <2>1, <2>2, <2>5, <2>6 DEF CallOK
  <1>6. Goto(c, x)
    BY <1>2 DEF x
  <1> QED BY <1>2, <1>3, <1>5, <1>6, MovedOnly

(* A call ends short of its last statement.                                *)
LEMMA EndedShort ==
  ASSUME IInv, NEW c \in Calls, InsertRefused(c) \/ CallFails(c)
  PROVE  IInv'
  <1>1. LayerType /\ faults \in 0..MaxFaults
    BY TypeParts DEF IInv, FaultType
  <1>2. /\ Goto(c, Done) /\ UNCHANGED <<made, active, excused, agentVars, readVars>>
        /\ faults' \in 0..MaxFaults
    BY <1>1, Basics DEF InsertRefused, CallFails, Fault
  <1>3. bare' = bare \cup {t \in Owes(c) : active[t] = {}}
    BY DEF InsertRefused, CallFails, Leave
  <1>4. LayerType'
    <2>1. Owes(c) \subseteq Types
      BY DEF Owes
    <2> QED BY <1>1, <1>2, <1>3, <2>1 DEF LayerType
  <1>5. \A t \in Types :
          /\ made'[t] >= made[t] /\ active'[t] \subseteq active[t]
          /\ active'[t] = active[t] /\ excused'[t] = excused[t]
    BY <1>1, <1>2, Basics DEF LayerType
  <1>6. \A t \in Types :
          active'[t] = {} /\ (active[t] # {} \/ t \in Owes(c))
            => t \in bare' \cup Owes(c)'
    BY <1>3, <1>5
  <1>7. bare \subseteq bare'
    BY <1>3
  <1>8. Done \in CallStates /\ (call'[c] = Done => CallOK(c)')
    BY Basics, Resting
  <1> QED BY <1>2, <1>4, <1>5, <1>6, <1>7, <1>8, Moved

LEMMA DeactivateStep ==
  ASSUME IInv, NEW c \in Calls, NEW t \in Types, NEW layer \in Versions,
         Deactivate(c, t, layer)
  PROVE  IInv'
  <1>1. LayerType /\ CallType /\ faults \in 0..MaxFaults
    BY TypeParts DEF IInv, FaultType
  <1>2. /\ At(c, "free") /\ layer \in 1..made[t]
        /\ active' = [active EXCEPT ![t] = {}]
        /\ excused' = [excused EXCEPT ![t] = {}]
        /\ UNCHANGED <<made, bare, agentVars, readVars, faults>>
    BY DEF Deactivate
  <1> DEFINE x == [NoCall EXCEPT !.pc = "on", !.type = t, !.layer = layer]
  <1>3. Goto(c, x)
    BY DEF Deactivate
  <1>4. x \in CallStates
    <2>1. layer \in 0..MaxLayers
      BY Basics DEF Versions
    <2> QED BY <2>1, Basics DEF CallStates, Places
  <1>5. x.pc = "on" /\ x.type = t /\ x.layer = layer /\ x.claims = {}
    BY DEF NoCall
  <1> HIDE DEF x
  <1>6. active'[t] = {} /\ \A u \in Types \ {t} :
          active'[u] = active[u] /\ excused'[u] = excused[u]
    BY <1>1, <1>2 DEF LayerType
  <1>7. LayerType'
    BY <1>1, <1>2 DEF LayerType
  <1>8. call'[c] = x
    BY <1>1, <1>3, <1>4, Went
  <1>9. Owes(c)' = {t} /\ Owes(c) = {}
    BY <1>2, <1>5, <1>8 DEF Owes, At
  <1>10. CallOK(c)'
    <2>1. PlaceOK(c)' /\ WriteOK(c)'
      BY <1>2, <1>5, <1>8 DEF PlaceOK, WriteOK, At, Named
    <2>2. CheckOK(c)'
      BY <1>5, <1>8 DEF CheckOK, Clash
    <2>3. ActivationOK(c)'
      BY <1>5, <1>6, <1>8, <1>9 DEF ActivationOK, At
    <2> QED BY <2>1, <2>2, <2>3 DEF CallOK
  <1>11. \A u \in Types :
           /\ made'[u] >= made[u] /\ active'[u] \subseteq active[u]
           /\ \/ active'[u] = {}
              \/ active'[u] = active[u] /\ excused'[u] = excused[u]
    BY <1>1, <1>2, <1>6, Basics DEF LayerType
  <1>12. \A u \in Types :
           active'[u] = {} /\ (active[u] # {} \/ u \in Owes(c))
             => u \in bare' \cup Owes(c)'
    BY <1>6, <1>9
  <1> QED BY <1>1, <1>2, <1>3, <1>4, <1>7, <1>10, <1>11, <1>12, Moved

LEMMA DeactivateAllStep ==
  ASSUME IInv, NEW c \in Calls, DeactivateAll(c)
  PROVE  IInv'
  <1>1. LayerType /\ CallType /\ faults \in 0..MaxFaults
    BY TypeParts DEF IInv, FaultType
  <1>2. /\ At(c, "free") /\ \A t \in Types : active'[t] = {}
        /\ UNCHANGED <<made, bare, agentVars, readVars, faults>>
    BY DEF DeactivateAll
  <1> DEFINE x == [NoCall EXCEPT !.pc = "group"]
  <1>3. Goto(c, x)
    BY DEF DeactivateAll
  <1>4. x \in CallStates
    BY Basics DEF CallStates, Places
  <1>5. x.pc = "group" /\ x.type = 1 /\ x.claims = {}
    BY DEF NoCall
  <1> HIDE DEF x
  <1>6. LayerType'
    BY <1>1 DEF LayerType, DeactivateAll
  <1>7. call'[c] = x
    BY <1>1, <1>3, <1>4, Went
  <1>8. Owes(c)' = Types
    BY <1>5, <1>7 DEF Owes, At
  <1>9. CallOK(c)'
    <2>1. PlaceOK(c)' /\ WriteOK(c)'
      BY <1>5, <1>7 DEF PlaceOK, WriteOK, At, Named
    <2>2. CheckOK(c)'
      BY <1>5, <1>7 DEF CheckOK, Clash
    <2>3. ActivationOK(c)'
      BY <1>2, <1>5, <1>7, <1>8 DEF ActivationOK, At
    <2> QED BY <2>1, <2>2, <2>3 DEF CallOK
  <1>10. \A t \in Types :
           /\ made'[t] >= made[t] /\ active'[t] \subseteq active[t]
           /\ active'[t] = {} /\ t \in bare' \cup Owes(c)'
    BY <1>1, <1>2, <1>8, Basics DEF LayerType
  <1> QED BY <1>1, <1>2, <1>3, <1>4, <1>6, <1>9, <1>10, Moved

(* A layer is activated.                                                   *)
LEMMA ActivatedStep ==
  ASSUME IInv, NEW c \in Calls, NEW t \in Types, NEW layer \in Versions,
         NEW others \in SUBSET active[t], NEW next \in CallStates,
         Activated(c, t, layer, others, next),
         made' \in [Types -> 0..MaxLayers],
         \A u \in Types : made'[u] >= made[u],
         layer \in 1..made'[t], t \notin call[c].crossed => others = {},
         UNCHANGED <<agentVars, readVars, faults>>,
         call'[c] = next /\ (\A u \in Types \ {t} : active'[u] = active[u])
           => CallOK(c)' /\ \A u \in Owes(c) \ {t} : u \in Owes(c)'
  PROVE  IInv'
  <1>t. /\ TypeOK /\ CallsOK /\ RegistryOK /\ ClaimsAreExplained /\ LayersOK
        /\ row' = row
    BY DEF IInv, agentVars
  <1>1. /\ LayerType' /\ CallType' /\ call'[c] = next
        /\ \A u \in Types \ {t} : active'[u] = active[u]
        /\ \A d \in Calls \ {c} : CallOK(d)'
        /\ (\A u \in Owes(c) \ {t} : u \in Owes(c)') => LayersOK'
    BY <1>t, ActivatedKeeps
  <1>2. TypeOK'
    <2>1. RowType' /\ ReadType' /\ FaultType'
      BY <1>t, TypeParts DEF RowType, ReadType, FaultType, agentVars, readVars
    <2> QED BY <1>1, <2>1
            DEF TypeOK, RowType, ReadType, LayerType, CallType, FaultType
  <1>3. CallsOK' /\ LayersOK'
    BY <1>1 DEF CallsOK
  <1>4. RegistryOK' /\ ClaimsAreExplained'
    BY <1>t DEF RegistryOK, EntryOK, ReaderOK, InvalidateIsHeeded,
                ClaimsAreExplained, agentVars, readVars
  <1> QED BY <1>2, <1>3, <1>4 DEF IInv

LEMMA CommitStep ==
  ASSUME IInv, NEW c \in Calls, CommitActivate(c) \/ Activate(c)
  PROVE  IInv'
  <1>1. /\ call[c] \in CallStates /\ CallOK(c)
        /\ made \in [Types -> 0..MaxLayers]
        /\ active \in [Types -> SUBSET Versions]
    BY DEF IInv, TypeOK, CallsOK
  <1>2. PICK t \in Types, layer \in Versions :
          /\ t = call[c].type /\ layer = call[c].layer /\ layer \in 1..made[t]
    <2>1. call[c].type \in Types /\ made[call[c].type] \in 0..MaxLayers
      BY <1>1 DEF CallStates
    <2>2. call[c].layer \in 1..made[call[c].type]
      BY <1>1 DEF CallOK, PlaceOK, CommitActivate, Activate, At
    <2>3. call[c].layer \in Versions
      BY <2>1, <2>2, Basics DEF Versions
    <2> QED BY <2>1, <2>2, <2>3
  <1>3. /\ UNCHANGED <<made, agentVars, readVars, faults>>
        /\ call[c].pc \in {"commit", "on"}
    BY DEF CommitActivate, Activate, At
  <1>4. PICK others \in SUBSET active[t] :
          /\ Activated(c, t, layer, others, Done)
          /\ t \notin call[c].crossed => others = {}
    <2>1. CASE CommitActivate(c)
      <3> DEFINE others == active[t] \ (1..call[c].seen[t])
      <3>1. Activated(c, t, layer, others, Done) /\ At(c, "commit")
        BY <1>2, <2>1 DEF CommitActivate
      <3>2. t \notin call[c].crossed => others = {}
        BY <1>1, <1>2, <3>1 DEF CallOK, ActivationOK
      <3> QED BY <3>1, <3>2
    <2>2. CASE Activate(c)
      <3>1. Activated(c, t, layer, active[t], Done) /\ t \in Owes(c)
        BY <1>2, <2>2 DEF Activate, Owes
      <3>2. t \notin call[c].crossed => active[t] = {}
        BY <1>1, <3>1 DEF CallOK, ActivationOK
      <3> QED BY <3>1, <3>2
    <2> QED BY <2>1, <2>2
  <1>5. \A u \in Types : made'[u] >= made[u]
    BY <1>1, <1>3, Basics
  <1>6. \A u \in Owes(c) : u = t
    BY <1>2, <1>3 DEF Owes, At
  <1>7. call'[c] = Done => CallOK(c)'
    BY Resting
  <1> QED BY <1>1, <1>2, <1>3, <1>4, <1>5, <1>6, <1>7, Basics, ActivatedStep

LEMMA PlantStep ==
  ASSUME IInv, NEW c \in Calls, InsertActive(c)
  PROVE  IInv'
  <1>1. /\ call[c] \in CallStates /\ CallOK(c)
        /\ made \in [Types -> 0..MaxLayers]
    BY DEF IInv, TypeOK, CallsOK
  <1>2. PICK t \in Types : t = call[c].type
    BY <1>1 DEF CallStates
  <1>3. /\ At(c, "plant") /\ made[t] = call[c].seen[t]
        /\ made' = [made EXCEPT ![t] = made[t] + 1]
        /\ UNCHANGED <<agentVars, readVars, faults>>
    BY <1>1, <1>2 DEF InsertActive
  <1>4. made[t] \in Nat /\ made[t] + 1 \in Versions /\ made[t] < MaxLayers
    <2>1. made[t] \in 0..MaxLayers /\ t >= t
      BY <1>1, Basics DEF Types
    <2>2. made[t] < MaxLayers
      BY <1>1, <1>2, <1>3, <2>1 DEF CallOK, PlaceOK
    <2> QED BY <2>1, <2>2, Basics DEF Versions
  <1>5. /\ made' \in [Types -> 0..MaxLayers] /\ made'[t] = made[t] + 1
        /\ \A u \in Types : made'[u] >= made[u]
    <2>1. made[t] + 1 \in 0..MaxLayers
      BY <1>4, Basics DEF Versions
    <2>2. made' \in [Types -> 0..MaxLayers] /\ made'[t] = made[t] + 1
      BY <1>1, <1>3, <2>1
    <2>3. \A u \in Types : made[u] \in Nat /\ (u # t => made'[u] = made[u])
      BY <1>1, <1>3, Basics
    <2> QED BY <1>4, <2>2, <2>3
  <1>6. t \in Owes(c) /\ (t \notin call[c].crossed => active[t] = {})
    <2>1. t \in Owes(c)
      BY <1>2, <1>3, Basics DEF Owes, Types
    <2> QED BY <1>1, <2>1 DEF CallOK, ActivationOK
  <1>7. CASE t < N
    <2> DEFINE x == [call[c] EXCEPT !.type = t + 1]
    <2>1. t + 1 \in Types
      BY <1>7, Basics DEF Types
    <2>2. /\ x \in CallStates /\ x.pc = "plant" /\ x.type = t + 1
          /\ x.seen = call[c].seen /\ x.crossed = call[c].crossed
          /\ x.agent = call[c].agent /\ x.claims = call[c].claims
          /\ x.overtaken = call[c].overtaken
      BY <1>1, <1>3, <2>1 DEF CallStates, At
    <2>3. Activated(c, t, made[t] + 1, active[t], x)
      BY <1>1, <1>2, <1>7 DEF InsertActive, CallStates
    <2> HIDE DEF x
    <2>4. ASSUME call'[c] = x, \A u \in Types \ {t} : active'[u] = active[u]
          PROVE  CallOK(c)' /\ \A u \in Owes(c) \ {t} : u \in Owes(c)'
      <3>1. \A u \in Types : u >= t + 1 <=> (u >= t /\ u # t)
        BY Basics DEF Types
      <3>2. Owes(c)' = Owes(c) \ {t}
        BY <1>2, <1>3, <2>2, <2>4, <3>1 DEF Owes, At
      <3>3. PlaceOK(c)'
        BY <1>1, <1>2, <1>3, <2>2, <2>4, <3>1 DEF CallOK, PlaceOK, Named, At
      <3>4. WriteOK(c)'
        BY <2>2, <2>4 DEF WriteOK, At
      <3>5. CheckOK(c)'
        BY <1>1, <1>3, <2>2, <2>4 DEF CallOK, CheckOK, agentVars
      <3>6. ActivationOK(c)'
        <4>1. Owes(c) \subseteq Types
          BY DEF Owes
        <4> QED BY <1>1, <2>2, <2>4, <3>2, <4>1 DEF CallOK, ActivationOK, At
      <3> QED BY <3>2, <3>3, <3>4, <3>5, <3>6 DEF CallOK
    <2>5. active[t] \in SUBSET active[t] /\ made[t] + 1 \in 1..made'[t]
      BY <1>4, <1>5
    <2> QED BY <1>3, <1>4, <1>5, <1>6, <2>2, <2>3, <2>4, <2>5, ActivatedStep
  <1>8. CASE ~(t < N)
    <2>1. Activated(c, t, made[t] + 1, active[t], Done)
      BY <1>2, <1>8 DEF InsertActive
    <2>2. \A u \in Owes(c) : u = t
      BY <1>2, <1>3, <1>8, Basics DEF Owes, Types, At
    <2>3. call'[c] = Done => CallOK(c)'
      BY Resting
    <2>4. active[t] \in SUBSET active[t] /\ made[t] + 1 \in 1..made'[t]
      BY <1>4, <1>5
    <2> QED BY <1>3, <1>4, <1>5, <1>6, <2>1, <2>2, <2>3, <2>4, Basics,
               ActivatedStep
  <1> QED BY <1>7, <1>8

LEMMA Restarted ==
  ASSUME IInv, Restart
  PROVE  IInv'
  <1>t. /\ RowType /\ ReadType /\ LayerType /\ CallType
        /\ faults \in 0..MaxFaults
        /\ TypeOK /\ CallsOK /\ RegistryOK /\ ClaimsAreExplained /\ LayersOK
    BY TypeParts DEF IInv, FaultType
  <1>1. /\ cache' = [a \in Agents |-> Empty]
        /\ reader' = [r \in Readers |-> NoRead]
        /\ call' = [c \in Calls |-> IF At(c, "free") THEN call[c] ELSE Done]
        /\ bare' = bare \cup {t \in Owed : active[t] = {}}
        /\ UNCHANGED <<made, active, excused, agentVars>>
        /\ faults' \in 0..MaxFaults
    BY <1>t, Basics DEF Restart, Fault, Leave
  <1>2. TypeOK'
    <2>1. RowType' /\ FaultType'
      BY <1>1, <1>t DEF RowType, FaultType, agentVars
    <2>2. ReadType' /\ CallType'
      BY <1>1, <1>t, Basics DEF ReadType, CallType
    <2>3. LayerType'
      <3>1. Owed \subseteq Types
        BY DEF Owed, Owes
      <3> QED BY <1>1, <1>t, <3>1 DEF LayerType
    <2> QED BY <2>1, <2>2, <2>3
            DEF TypeOK, RowType, ReadType, LayerType, CallType, FaultType
  <1>3. CallsOK'
    <2> SUFFICES ASSUME NEW c \in Calls
                 PROVE  CallOK(c)'
      BY DEF CallsOK
    <2>1. CASE At(c, "free")
      <3>1. call'[c] = call[c]
        BY <1>1, <2>1
      <3>2. \A t \in Types :
              made'[t] >= made[t] /\ active'[t] \subseteq active[t]
        BY <1>1, <1>t, Basics DEF LayerType
      <3> QED BY <1>1, <1>2, <1>t, <3>1, <3>2, Kept DEF CallsOK, agentVars
    <2>2. CASE ~At(c, "free")
      <3>1. call'[c] = Done
        BY <1>1, <2>2
      <3> QED BY <3>1, Resting
    <2> QED BY <2>1, <2>2
  <1>4. RegistryOK'
    <2>1. \A a \in Agents : EntryOK(a)' /\ ~Valid(cache'[a])
      BY <1>1, Basics DEF EntryOK, Valid, Empty
    <2>2. \A r \in Readers : ReaderOK(r)'
      BY <1>1 DEF ReaderOK, NoRead
    <2>3. InvalidateIsHeeded'
      BY <2>1 DEF InvalidateIsHeeded, Valid
    <2>4. \A a \in Agents : told'[a] <= row'[a].ver
      BY <1>1, <1>t DEF RegistryOK, agentVars
    <2> QED BY <2>1, <2>2, <2>3, <2>4 DEF RegistryOK
  <1>5. ClaimsAreExplained'
    BY <1>1, <1>t DEF ClaimsAreExplained, agentVars
  <1>6. LayersOK'
    <2>1. \A t \in Types : active[t] = {} => t \in bare'
      BY <1>1, <1>t DEF LayersOK, LayersAreExplained
    <2> QED BY <1>1, <1>t, <2>1 DEF LayersOK, LayersAreExplained
  <1> QED BY <1>2, <1>3, <1>4, <1>5, <1>6 DEF IInv

-----------------------------------------------------------------------------
LEMMA Begins ==
  ASSUME Init
  PROVE  IInv
  <1>1. TypeOK
    <2>1. RowType
      <3>1. [status : {"none", "active"}, claims : {{}}, ver : {0}] \subseteq Rows
        BY DEF Rows, Statuses
      <3> QED BY <3>1 DEF Init, RowType
    <2>2. ReadType /\ CallType /\ FaultType
      BY Basics DEF Init, ReadType, CallType, FaultType
    <2>3. LayerType
      <3>1. PICK n \in {0, 1} : /\ made = [t \in Types |-> n]
                                /\ active = [t \in Types |-> 1..n]
                                /\ bare = {t \in Types : n = 0}
        BY DEF Init
      <3>2. n \in 0..MaxLayers /\ 1..n \subseteq Versions
        BY <3>1, Basics DEF Versions
      <3> QED BY <3>1, <3>2 DEF Init, LayerType
    <2> QED BY <2>1, <2>2, <2>3, TypeParts
  <1>2. CallsOK
    <2> SUFFICES ASSUME NEW c \in Calls
                 PROVE  CallOK(c)
      BY DEF CallsOK
    <2>1. call[c].pc = "free" /\ call[c].claims = {}
      BY DEF Init, NoCall
    <2> QED BY <2>1 DEF CallOK, PlaceOK, WriteOK, CheckOK, Clash, ActivationOK,
                        Owes, At, Named
  <1>3. RegistryOK
    <2>1. \A a \in Agents : EntryOK(a) /\ ~Valid(cache[a])
      BY Basics DEF Init, EntryOK, Valid, Empty
    <2>2. \A r \in Readers : ReaderOK(r)
      BY DEF Init, ReaderOK, NoRead
    <2>3. \A a \in Agents : told[a] <= row[a].ver
      BY DEF Init
    <2> QED BY <2>1, <2>2, <2>3 DEF RegistryOK, InvalidateIsHeeded
  <1>4. ClaimsAreExplained
    BY DEF Init, ClaimsAreExplained
  <1>5. LayersOK
    <2>1. PICK n \in {0, 1} : /\ made = [t \in Types |-> n]
                              /\ active = [t \in Types |-> 1..n]
                              /\ bare = {t \in Types : n = 0}
      BY DEF Init
    <2>2. \A t \in Types : active[t] = 1..n /\ made[t] = n
      BY <2>1
    <2>3. \A x, y \in 1..n : x = y
      BY <2>1
    <2>4. n = 0 \/ 1..n # {}
      BY <2>1
    <2> QED BY <2>1, <2>2, <2>3, <2>4 DEF LayersOK, LayersAreExplained
  <1> QED BY <1>1, <1>2, <1>3, <1>4, <1>5 DEF IInv

LEMMA Steps ==
  ASSUME IInv, [Next]_vars
  PROVE  IInv'
  <1>1. ASSUME NEW c \in Calls, AgentStep(c)
        PROVE  IInv'
    <2>1. CASE Invalidate(c)
      BY <2>1, Invalidated
    <2>2. CASE CreateAgent(c) \/ \E s \in {"active", "paused"} : UpdateModes(c, s)
      BY <2>2, ModesWritten
    <2>3. CASE WriteRefused(c)
      BY <2>3, Refused
    <2>4. ASSUME NEW s \in {"active", "paused"}, NEW a \in Agents,
                 RouteUpdate(c, a, s) \/ ToolUpdate(c, a, s)
          PROVE  IInv'
      <3>1. PICK next \in {Done, ToInvalidate(a)} :
              At(c, "free") /\ SetStatus(c, a, s, next)
        BY <2>4 DEF RouteUpdate, ToolUpdate
      <3> QED BY <3>1, StatusSet
    <2>5. ASSUME NEW a \in Agents, RouteDelete(c, a) \/ ToolDelete(c, a)
          PROVE  IInv'
      <3>1. PICK next \in {Done, ToInvalidate(a)} : DeleteAgent(c, a, next)
        BY <2>5 DEF RouteDelete, ToolDelete
      <3> QED BY <3>1, AgentDeleted
    <2>6. ASSUME NEW a \in Agents, NEW S \in SUBSET Channels,
                 \/ CheckModes(c, a, S)
                 \/ \E b \in BOOLEAN : CheckNewAgent(c, a, S, b)
          PROVE  IInv'
      BY <2>6, AgentChecked
    <2> QED BY <1>1, <2>1, <2>2, <2>3, <2>4, <2>5, <2>6 DEF AgentStep
  <1>2. ASSUME NEW c \in Calls, LayerStep(c)
        PROVE  IInv'
    <2>1. CASE LookForLayer(c) \/ NumberSeed(c)
      BY <2>1, SeedStep
    <2>2. CASE InsertLayer(c)
      BY <2>2, InsertStep
    <2>3. CASE CommitActivate(c) \/ Activate(c)
      BY <2>3, CommitStep
    <2>4. CASE DeactivateAll(c)
      BY <2>4, DeactivateAllStep
    <2>5. CASE GroupVersions(c)
      BY <2>5, GroupStep
    <2>6. CASE InsertActive(c)
      BY <2>6, PlantStep
    <2>7. CASE InsertRefused(c)
      BY <2>7, EndedShort
    <2>8. ASSUME NEW t \in Types, NEW k \in {"add", "promote"},
                 NumberNew(c, t, k)
          PROVE  IInv'
      BY <2>8, NewStep
    <2>9. ASSUME NEW t \in Types, NEW v \in Versions, BeginActivate(c, t, v)
          PROVE  IInv'
      BY <2>9, BeginStep
    <2>10. ASSUME NEW t \in Types, NEW v \in Versions, Deactivate(c, t, v)
           PROVE  IInv'
      BY <2>10, DeactivateStep
    <2> QED BY <1>2, <2>1, <2>2, <2>3, <2>4, <2>5, <2>6, <2>7, <2>8, <2>9,
               <2>10 DEF LayerStep
  <1>3. ASSUME NEW c \in Calls, CallFails(c)
        PROVE  IInv'
    BY <1>3, EndedShort
  <1>4. ASSUME NEW r \in Readers,
               \/ \E a \in Agents : Miss(r, a) \/ Refresh(r, a)
               \/ ReadRow(r) \/ SetCached(r) \/ ReadFails(r)
        PROVE  IInv'
    BY <1>4, Looked, ReadEnded, Cached
  <1>5. CASE Tick \/ Restart
    BY <1>5, Ticked, Restarted
  <1>6. CASE UNCHANGED vars
    <2>1. /\ UNCHANGED <<row, told, unsure, cache, reader>>
          /\ UNCHANGED <<made, active, excused, bare, call, faults>>
      BY <1>6 DEF vars, agentVars, readVars, layerVars
    <2>2. TypeOK'
      BY <2>1 DEF IInv, TypeOK
    <2>3. CallsOK'
      <3>1. \A t \in Types :
              made'[t] >= made[t] /\ active'[t] \subseteq active[t]
        BY <2>1, Basics DEF IInv, TypeOK
      <3> QED BY <2>1, <2>2, <3>1, Kept DEF IInv, CallsOK
    <2>4. RegistryOK' /\ ClaimsAreExplained' /\ LayersOK'
      BY <2>1 DEF IInv, RegistryOK, EntryOK, ReaderOK, InvalidateIsHeeded,
                  ClaimsAreExplained, LayersOK, LayersAreExplained, Owed,
                  Owes, At
    <2> QED BY <2>2, <2>3, <2>4 DEF IInv
  <1> QED BY <1>1, <1>2, <1>3, <1>4, <1>5, <1>6 DEF Next

LEMMA Invariance == Spec => []IInv
  BY Begins, Steps, PTL DEF Spec

-----------------------------------------------------------------------------
(* The setup of agents keeps to its types: versions stay within their      *)
(* bound, ages within TTL, a call's record within its places (the registry,*)
(* the routes, the admin tools and the layer repository).                  *)
THEOREM Typed == Spec => []TypeOK
  <1>1. IInv => TypeOK
    BY DEF IInv
  <1> QED BY <1>1, Invariance, PTL

(* A row that the registry serves was written over less than TTL ago, plus *)
(* the time its own read waited (isValid and setCached of the registry).   *)
THEOREM StaleBounded == Spec => []StaleIsBounded
  <1>1. ASSUME IInv
        PROVE  StaleIsBounded
    <2> SUFFICES ASSUME NEW a \in Agents, Valid(cache[a])
                 PROVE  cache[a].out < TTL + cache[a].wait
      BY DEF StaleIsBounded
    <2>1. /\ cache[a].out <= cache[a].age + cache[a].wait
          /\ cache[a] \in Entries
      BY <1>1 DEF IInv, RegistryOK, EntryOK, TypeOK
    <2>2. /\ cache[a].out \in Nat /\ cache[a].age \in Nat
          /\ cache[a].wait \in Nat /\ cache[a].age < TTL
      BY <2>1, Basics DEF Entries, Valid
    <2> QED BY <2>1, <2>2, Basics
  <1> QED BY <1>1, Invariance, PTL

(* After a route's invalidation the registry serves nothing older than     *)
(* what the route wrote, but for a row that was on its way (get and        *)
(* invalidate of the registry).                                            *)
THEOREM InvalidateHeeded == Spec => []InvalidateIsHeeded
  <1>1. IInv => InvalidateIsHeeded
    BY DEF IInv, RegistryOK
  <1> QED BY <1>1, Invariance, PTL

(* Two active agents that claim one channel have an explanation: a check   *)
(* that was overtaken or a status set without one (checkChannelCollision   *)
(* and its callers).                                                       *)
THEOREM ClaimsExplained == Spec => []ClaimsAreExplained
  <1>1. IInv => ClaimsAreExplained
    BY DEF IInv
  <1> QED BY <1>1, Invariance, PTL

(* So have two active layers of a type, and a type without any (activate,  *)
(* the tools' two statements, updateProjectPrompts).                       *)
THEOREM LayersExplained == Spec => []LayersAreExplained
  <1>1. IInv => LayersAreExplained
    BY DEF IInv, LayersOK
  <1> QED BY <1>1, Invariance, PTL
=============================================================================
