--------------------------- MODULE RuleSyncProofs ----------------------------
(***************************************************************************)
(* Proofs about RuleSync: its type invariant; that a rule eKuiper has and  *)
(* the database has not is a new one, and that rules implement RuleLife,   *)
(* and what options a rule is started on, for every set of clients and     *)
(* rules and every kind of fault.                                          *)
(***************************************************************************)
EXTENDS RuleSync, TLAPS

\* Where a request about a rule is, and where one about the resource.
Operating == {"replace", "store", "check", "startRule", "markStart", "stopRule", "markStop",
              "dropRule", "erase"}
RuleSteps == {"create", "insert", "lookup"} \cup Operating

TargetKnown == \A c \in Clients : pc[c] \in RuleSteps => target[c] \in Rules

TypeInv == TypeOK /\ TargetKnown

(***************************************************************************)
(* Types                                                                   *)
(***************************************************************************)
LEMMA Names ==
  /\ {"stopped", "running"} \subseteq Statuses \cap RuleStates
  /\ "gone" \in Statuses /\ "absent" \in RuleStates
  /\ {"new", "issued", "erased"} \subseteq Lives
  /\ {"idle", "create", "insert", "lookup", "replace", "store", "check", "startRule",
      "markStart", "stopRule", "markStop", "dropRule", "erase",
      "search", "edit", "searchDrop", "drop", "probe", "markHealthy"} \subseteq Steps
  /\ {"idle", "search", "edit", "searchDrop", "drop", "probe", "markHealthy"}
        \cap RuleSteps = {}
BY DEF Statuses, RuleStates, Lives, Steps, RuleSteps, Operating

LEMMA ResourceTypes ==
  /\ NoResource \in Resources
  /\ ~NoResource.there /\ ~NoResource.healthy
  /\ Nothing \in [status : Statuses, resource : Resources]
  /\ NoWrite \in [rule : Rules \cup {NoRule}, status : {"stopped", "running"}]
BY RuleSyncAssumption DEF NoResource, Resources, Nothing, NoWrite, Statuses

ClientTypes ==
  /\ pc \in [Clients -> Steps]
  /\ target \in [Clients -> Rules \cup {NoRule}]
  /\ seen \in [Clients -> [status : Statuses, resource : Resources]]
  /\ TargetKnown

LEMMA FaultType ==
  ASSUME TypeOK, NEW f, Fault(f)
  PROVE  faults' \in 0..MaxFaults
BY RuleSyncAssumption DEF TypeOK, Fault

LEMMA GoToTypes ==
  ASSUME ClientTypes, NEW c \in Clients, NEW to \in Steps, GoTo(c, to),
         to \in RuleSteps => target[c] \in Rules
  PROVE  ClientTypes'
BY DEF ClientTypes, GoTo, TargetKnown

LEMMA AnswerTypes ==
  ASSUME ClientTypes, NEW c \in Clients, Answer(c)
  PROVE  ClientTypes'
<1>1. seen' \in [Clients -> [status : Statuses, resource : Resources]]
  BY Names, ResourceTypes DEF ClientTypes, Answer, Reads
<1>2. pc' \in [Clients -> Steps] /\ target' \in [Clients -> Rules \cup {NoRule}] /\ TargetKnown'
  BY Names DEF ClientTypes, Answer, TargetKnown
<1> QED BY <1>1, <1>2 DEF ClientTypes

LEMMA ReadsTypes ==
  ASSUME ClientTypes, TypeOK, NEW c \in Clients, NEW s \in Statuses, Reads(c, s, resource)
  PROVE  seen' \in [Clients -> [status : Statuses, resource : Resources]]
BY DEF ClientTypes, TypeOK, Reads

LEMMA RequestTypes ==
  ASSUME TypeInv, NEW c \in Clients, NEW r \in Rules \cup {NoRule}, NEW to \in Steps,
         Request(c, r, to), to \in RuleSteps => r \in Rules
  PROVE  /\ pc' \in [Clients -> Steps]
         /\ target' \in [Clients -> Rules \cup {NoRule}]
         /\ TargetKnown'
         /\ requests' \in 0..MaxRequests
<1>1. requests' \in 0..MaxRequests
  BY RuleSyncAssumption DEF TypeInv, TypeOK, Request
<1> QED BY <1>1 DEF TypeInv, TypeOK, TargetKnown, Request

LEMMA TypeInit == Init => TypeInv
<1> SUFFICES ASSUME Init PROVE TypeInv
  OBVIOUS
<1>1. requests \in 0..MaxRequests /\ faults \in 0..MaxFaults
  BY RuleSyncAssumption DEF Init
<1>2. TargetKnown
  BY Names DEF Init, TargetKnown
<1> QED BY <1>1, <1>2, Names, ResourceTypes DEF Init, TypeInv, TypeOK

LEMMA BeginTypes ==
  ASSUME TypeInv, NEW c \in Clients, Begin(c)
  PROVE  TypeInv'
<1> ClientTypes
  BY DEF TypeInv, TypeOK, ClientTypes
<1>1. ASSUME NEW r \in Rules,
             \/ AddRuleEngine(c, r) \/ UpdateRuleEngine(c, r)
             \/ RuleEngineStart(c, r) \/ RuleEngineStop(c, r) \/ RuleEngineDelete(c, r)
      PROVE  TypeInv'
  <2>1. PICK to \in Steps : Request(c, r, to)
    BY <1>1, Names DEF AddRuleEngine, UpdateRuleEngine, RuleEngineStart, RuleEngineStop,
                       RuleEngineDelete, OnRow
  <2>2. life' \in [Rules -> Lives]
    BY <1>1, Names DEF TypeInv, TypeOK, AddRuleEngine, UpdateRuleEngine, RuleEngineStart,
                       RuleEngineStop, RuleEngineDelete, OnRow
  <2>3. seen' = seen
    BY <1>1 DEF AddRuleEngine, UpdateRuleEngine, RuleEngineStart, RuleEngineStop,
                RuleEngineDelete, OnRow
  <2> QED BY <2>1, <2>2, <2>3, RequestTypes DEF TypeInv, TypeOK, Request, source, monitor
<1>2. CASE AddDataResource(c)
  <2>1. requests' \in 0..MaxRequests /\ edits + 1 \in Nat
    BY <1>2, RuleSyncAssumption DEF TypeInv, TypeOK, AddDataResource
  <2>2. resource' \in Resources
    BY <1>2, <2>1 DEF AddDataResource, NoResource, Resources
  <2> QED BY <1>2, <2>1, <2>2 DEF TypeInv, TypeOK, TargetKnown, AddDataResource, history, table, client, monitor
<1>3. ASSUME NEW to \in {"search", "probe"}, OnResource(c, to)
      PROVE  TypeInv'
  <2>1. seen' \in [Clients -> [status : Statuses, resource : Resources]]
    BY <1>3, Names, ReadsTypes DEF OnResource, TypeInv
  <2> QED BY <1>3, <2>1, Names, RequestTypes DEF OnResource, TypeInv, TypeOK, Request, source, monitor
<1>4. CASE DelDataResource(c)
  BY <1>4, Names, RequestTypes DEF DelDataResource, TypeInv, TypeOK, Request, source, monitor
<1> QED BY <1>1, <1>2, <1>3, <1>4 DEF Begin, UpdateDataResource, DataResourceHealth

\* What a call to eKuiper leaves, whatever its outcome.
LEMMA CallTypes ==
  ASSUME TypeInv, NEW c \in Clients, NEW accepted, NEW outcomes \in SUBSET RuleStates,
         NEW to \in Steps, Call(c, accepted, outcomes, to), target[c] \in Rules
  PROVE  TypeInv'
<1> ClientTypes
  BY DEF TypeInv, TypeOK, ClientTypes
<1>1. ClientTypes'
  BY GoToTypes, AnswerTypes DEF Call, Proceed
<1>2. rule' \in [Rules -> RuleStates]
  BY DEF TypeInv, TypeOK, Call
<1>3. faults' \in 0..MaxFaults
  <2>1. CASE UNCHANGED faults
    BY <2>1 DEF TypeInv, TypeOK
  <2>2. CASE Fault("call")
    BY <2>2, FaultType DEF TypeInv
  <2> QED BY <2>1, <2>2 DEF Call, Proceed
<1> QED BY <1>1, <1>2, <1>3 DEF ClientTypes, TypeInv, TypeOK, Call, table, source, monitor

LEMMA SetStatusTypes ==
  ASSUME TypeInv, NEW r \in Rules, NEW s \in {"stopped", "running", "gone"}, SetStatus(r, s)
  PROVE  row' \in [Rules -> Statuses]
BY Names DEF TypeInv, TypeOK, SetStatus, Statuses

LEMMA StepTypes ==
  ASSUME TypeInv, NEW c \in Clients, Step(c)
  PROVE  TypeInv'
<1> ClientTypes
  BY DEF TypeInv, TypeOK, ClientTypes
<1> DEFINE Rest == /\ row' \in [Rules -> Statuses] /\ life' \in [Rules -> Lives]
                   /\ rule' \in [Rules -> RuleStates]
                   /\ resource' \in Resources /\ checked' \subseteq Nat /\ misled' \subseteq Nat /\ edits' \in Nat
                   /\ UNCHANGED monitor
                   /\ requests' \in 0..MaxRequests /\ faults' \in 0..MaxFaults
<1>0. ASSUME Rest, ClientTypes' PROVE TypeInv'
  BY <1>0 DEF TypeInv, TypeOK, ClientTypes, monitor
<1>1. CASE CreateRule(c) \/ UpdateRule(c) \/ StartRule(c) \/ StopRule(c) \/ DropRule(c)
  <2>1. target[c] \in Rules
    BY <1>1 DEF ClientTypes, TargetKnown, RuleSteps, Operating, CreateRule, UpdateRule, StartRule,
                StopRule, DropRule
  <2>2. PICK accepted \in BOOLEAN, outcomes \in SUBSET RuleStates, to \in Steps : Call(c, accepted, outcomes, to)
    <3>1. rule[target[c]] \in RuleStates
      BY <2>1 DEF TypeInv, TypeOK
    <3>2. CASE CreateRule(c)
      <4>1. {"stopped"} \in SUBSET RuleStates /\ "insert" \in Steps
        BY Names
      <4> QED BY <3>2, <4>1 DEF CreateRule
    <3>3. CASE UpdateRule(c)
      <4>1. {rule[target[c]], "stopped"} \in SUBSET RuleStates /\ "store" \in Steps
        BY <3>1, Names
      <4> QED BY <3>3, <4>1 DEF UpdateRule
    <3>4. CASE StartRule(c)
      <4>1. {"running"} \in SUBSET RuleStates /\ "markStart" \in Steps
        BY Names
      <4> QED BY <3>4, <4>1 DEF StartRule
    <3>5. CASE StopRule(c)
      <4>1. {"stopped"} \in SUBSET RuleStates /\ "markStop" \in Steps
        BY Names
      <4> QED BY <3>5, <4>1 DEF StopRule
    <3>6. CASE DropRule(c)
      <4>1. {"absent"} \in SUBSET RuleStates /\ "erase" \in Steps
        BY Names
      <4> QED BY <3>6, <4>1 DEF DropRule
    <3> QED BY <1>1, <3>2, <3>3, <3>4, <3>5, <3>6
  <2> QED BY <2>1, <2>2, CallTypes
<1>2. CASE InsertRow(c) \/ Erase(c)
  <2>1. ClientTypes'
    BY <1>2, AnswerTypes DEF InsertRow, Erase
  <2>2. row' \in [Rules -> Statuses] /\ life' \in [Rules -> Lives]
    BY <1>2, Names DEF InsertRow, Erase, TypeInv, TypeOK
  <2> QED BY <1>0, <1>2, <2>1, <2>2 DEF InsertRow, Erase, TypeInv, TypeOK, source, monitor, bounds
<1>3. CASE LookUpRow(c)
  <2>1. target[c] \in Rules
    BY <1>3 DEF ClientTypes, TargetKnown, RuleSteps, LookUpRow
  <2>2. CASE row[target[c]] = "gone"
    BY <1>3, <2>2, <1>0, AnswerTypes DEF LookUpRow, table, TypeInv, TypeOK, source, monitor, bounds
  <2>3. CASE row[target[c]] # "gone"
    <3>1. seen' \in [Clients -> [status : Statuses, resource : Resources]]
      BY <1>3, <2>1, <2>3, ReadsTypes DEF LookUpRow, TypeInv, TypeOK
    <3>2. ClientTypes'
      BY <1>3, <2>1, <2>3, <3>1, Names DEF LookUpRow, ClientTypes, TargetKnown
    <3> QED BY <1>3, <2>3, <3>2, <1>0 DEF LookUpRow, table, TypeInv, TypeOK, source, monitor, bounds
  <2> QED BY <2>2, <2>3
<1>4. CASE StoreRow(c)
  <2>1. target[c] \in Rules /\ seen[c].status \in Statuses /\ seen[c].resource \in Resources
    BY <1>4 DEF ClientTypes, TargetKnown, RuleSteps, Operating, StoreRow
  <2>2. row' \in [Rules -> Statuses]
    BY <1>4, <2>1, SetStatusTypes DEF StoreRow, Statuses
  <2>3. resource' \in Resources
    BY <1>4, <2>1 DEF StoreRow, history, TypeInv, TypeOK
  <2> QED BY <1>0, <1>4, <2>2, <2>3, AnswerTypes DEF StoreRow, history, TypeInv, TypeOK, monitor, bounds
<1>5. CASE CheckResource(c)
  <2>1. CASE Answer(c)
    BY <1>5, <2>1, <1>0, AnswerTypes DEF CheckResource, table, TypeInv, TypeOK, source, monitor, bounds
  <2>2. CASE ~Answer(c)
    <3>1. target[c] \in Rules
      BY <1>5 DEF ClientTypes, TargetKnown, RuleSteps, Operating, CheckResource
    <3>2. seen' \in [Clients -> [status : Statuses, resource : Resources]]
      BY <1>5, <2>2, ReadsTypes, Names DEF CheckResource, TypeInv
    <3>3. ClientTypes'
      BY <1>5, <2>2, <3>1, <3>2, Names DEF CheckResource, ClientTypes, TargetKnown
    <3> QED BY <1>5, <3>3, <1>0 DEF CheckResource, table, TypeInv, TypeOK, source, monitor, bounds
  <2> QED BY <2>1, <2>2
<1>6. CASE MarkStart(c) \/ MarkStop(c)
  <2>1. target[c] \in Rules
    BY <1>6 DEF ClientTypes, TargetKnown, RuleSteps, Operating, MarkStart, MarkStop, Mark
  <2>2. row' \in [Rules -> Statuses]
    BY <1>6, <2>1, SetStatusTypes DEF MarkStart, MarkStop, Mark
  <2> QED BY <1>0, <1>6, <2>2, AnswerTypes DEF MarkStart, MarkStop, Mark, TypeInv, TypeOK, source, monitor, bounds
<1>7. CASE SearchRules(c)
  <2>1. ClientTypes'
    BY <1>7, AnswerTypes, GoToTypes, Names DEF SearchRules
  <2> QED BY <1>0, <1>7, <2>1 DEF SearchRules, table, TypeInv, TypeOK, source, monitor, bounds
<1>8. CASE EditResource(c) \/ DropResource(c)
  <2>1. resource.edit \in Nat /\ edits + 1 \in Nat /\ resource \in Resources
    BY DEF TypeInv, TypeOK, Resources
  <2>2. Edited(c) \in Resources
    BY <2>1 DEF Edited, Resources
  <2>3. [there |-> FALSE, edit |-> resource.edit, healthy |-> FALSE] \in Resources
    BY <2>1 DEF Resources
  <2>4. resource' \in Resources
    BY <1>8, <2>1, <2>2, <2>3 DEF EditResource, DropResource
  <2> QED BY <1>0, <1>8, <2>4, AnswerTypes DEF EditResource, DropResource, history, table, TypeInv, TypeOK, monitor, bounds
<1>9. CASE Probe(c)
  <2>1. ClientTypes'
    BY <1>9, AnswerTypes, GoToTypes, Names DEF Probe
  <2>2. seen[c].resource.edit \in Nat
    BY DEF ClientTypes, Resources
  <2> QED BY <1>0, <1>9, <2>1, <2>2 DEF Probe, table, TypeInv, TypeOK, monitor, bounds
<1>10. CASE MarkHealthy(c)
  <2>1. resource' \in Resources
    BY <1>10 DEF MarkHealthy, TypeInv, TypeOK, Resources
  <2>2. misled' \subseteq Nat
    BY <1>10 DEF MarkHealthy, Misled, TypeInv, TypeOK, Resources
  <2> QED BY <1>0, <1>10, <2>1, <2>2, AnswerTypes DEF MarkHealthy, table, TypeInv, TypeOK, monitor, bounds
<1>11. CASE CallFails(c)
  <2>1. faults' \in 0..MaxFaults
    BY <1>11, FaultType DEF CallFails, TypeInv
  <2> QED BY <1>0, <1>11, <2>1, AnswerTypes DEF CallFails, table, TypeInv, TypeOK, source, monitor
<1> QED BY <1>1, <1>2, <1>3, <1>4, <1>5, <1>6, <1>7, <1>8, <1>9, <1>10, <1>11 DEF Step

LEMMA MonitorTypes ==
  ASSUME TypeInv, Monitor
  PROVE  TypeInv'
<1>1. CASE MonitorTick
  BY <1>1 DEF MonitorTick, TypeInv, TypeOK, TargetKnown, table, source, client, bounds
<1>2. CASE MonitorWrite
  <2>1. faults' \in 0..MaxFaults
    BY <1>2, FaultType DEF MonitorWrite, TypeInv, TypeOK
  <2>2. write' \in [rule : Rules \cup {NoRule}, status : {"stopped", "running"}]
    BY <1>2, ResourceTypes DEF MonitorWrite
  <2>3. row' \in [Rules -> Statuses]
    BY <1>2, Names DEF MonitorWrite, SetStatus, TypeInv, TypeOK, Statuses
  <2> QED BY <1>2, <2>1, <2>2, <2>3 DEF MonitorWrite, TypeInv, TypeOK, TargetKnown, source, client
<1>3. ASSUME NEW r \in Rules, MonitorAsk(r) PROVE TypeInv'
  <2>1. faults' \in 0..MaxFaults
    BY <1>3, FaultType DEF MonitorAsk, TypeInv, TypeOK
  <2>2. write' \in [rule : Rules \cup {NoRule}, status : {"stopped", "running"}]
    BY <1>3 DEF MonitorAsk, OutOfDate, TypeInv, TypeOK, RuleStates
  <2>3. snapshot' \in [Rules -> Statuses]
    BY <1>3, Names DEF MonitorAsk, TypeInv, TypeOK
  <2> QED BY <1>3, <2>1, <2>2, <2>3 DEF MonitorAsk, TypeInv, TypeOK, TargetKnown, table, source, client
<1> QED BY <1>1, <1>2, <1>3 DEF Monitor

LEMMA TypeStep == TypeInv /\ [Next]_vars => TypeInv'
<1> SUFFICES ASSUME TypeInv, [Next]_vars PROVE TypeInv'
  OBVIOUS
<1>1. ASSUME NEW c \in Clients, Begin(c) \/ Step(c) PROVE TypeInv'
  BY <1>1, BeginTypes, StepTypes
<1>2. CASE Monitor
  BY <1>2, MonitorTypes
<1>3. ASSUME NEW r \in Rules, RuleDies(r) PROVE TypeInv'
  <2>1. faults' \in 0..MaxFaults
    BY <1>3, FaultType DEF RuleDies, TypeInv
  <2> QED BY <1>3, <2>1, Names DEF RuleDies, TypeInv, TypeOK, TargetKnown, table, source, client, monitor
<1>4. CASE Restart
  <2>1. faults' \in 0..MaxFaults
    BY <1>4, FaultType DEF Restart, TypeInv
  <2>2. TargetKnown'
    BY <1>4, Names DEF Restart, TargetKnown
  <2> QED BY <1>4, <2>1, <2>2, Names, ResourceTypes DEF Restart, TypeInv, TypeOK, table, source
<1>5. CASE UNCHANGED vars
  BY <1>5 DEF vars, TypeInv, TypeOK, TargetKnown
<1> QED BY <1>1, <1>2, <1>3, <1>4, <1>5 DEF Next

\* Every variable keeps its type: rows, eKuiper's rules, the resource, the requests and
\* what they have read (ruleengineapp.go, dataresource.go).
THEOREM TypeCorrect == Spec => []TypeOK
<1>1. TypeInv => TypeOK
  BY DEF TypeInv
<1> QED BY <1>1, TypeInit, TypeStep, PTL DEF Spec
(***************************************************************************)
(* Rules without a row                                                     *)
(***************************************************************************)

\* An id nobody has drawn is nowhere; a deleted rule is nowhere, for good; and no rule
\* without a row runs.
LivesAgree ==
  \A r \in Rules :
    /\ life[r] = "new" => row[r] = "gone" /\ rule[r] = "absent" /\ \A c \in Clients : target[c] # r
    /\ life[r] = "erased" => row[r] = "gone" /\ rule[r] = "absent"
    /\ row[r] = "gone" => rule[r] # "running"

\* Until AddRuleEngine has made the row, other requests about the rule are still to read it.
AddsAlone ==
  \A c \in Clients :
    pc[c] \in {"create", "insert"} =>
      /\ row[target[c]] = "gone" /\ life[target[c]] = "issued"
      /\ \A d \in Clients \ {c} : target[d] = target[c] => pc[d] = "lookup"

\* The others have found a row, which only a deletion takes away, after the rule.
OperatesOnRow ==
  \A c \in Clients :
    /\ pc[c] \in Operating => row[target[c]] # "gone" \/ life[target[c]] = "erased"
    /\ pc[c] = "erase" => rule[target[c]] = "absent"

LifeInv == LivesAgree /\ AddsAlone /\ OperatesOnRow

LEMMA LifeInit == Init => LifeInv
BY NoRuleAssumption DEF Init, LifeInv, LivesAgree, AddsAlone, OperatesOnRow, Operating

LEMMA StraysFollow == TypeInv /\ LifeInv => StraysAreNew
BY DEF TypeInv, TypeOK, LifeInv, LivesAgree, StraysAreNew, RuleStates, Lives

\* A request that ends, or goes on past its reading, and leaves the stores alone.
LEMMA AnswerLife ==
  ASSUME TypeInv, LifeInv, NEW c \in Clients, Answer(c), UNCHANGED <<row, life, rule>>
  PROVE  LifeInv'
BY NoRuleAssumption
   DEF TypeInv, TypeOK, TargetKnown, LifeInv, LivesAgree, AddsAlone, OperatesOnRow, Operating,
       RuleSteps, Answer

\* The same with a write to a row that is there, or a rule that stops or runs.
LEMMA AnswerWrites ==
  ASSUME TypeInv, LifeInv, NEW c \in Clients, Answer(c), UNCHANGED <<life, rule>>,
         \A r \in Rules : row'[r] = "gone" <=> row[r] = "gone"
  PROVE  LifeInv'
BY NoRuleAssumption
   DEF TypeInv, TypeOK, TargetKnown, LifeInv, LivesAgree, AddsAlone, OperatesOnRow, Operating,
       RuleSteps, Answer

LEMMA SetStatusKeeps ==
  ASSUME TypeInv, NEW q \in Rules, NEW s \in {"stopped", "running"}, SetStatus(q, s)
  PROVE  \A r \in Rules : row'[r] = "gone" <=> row[r] = "gone"
BY DEF TypeInv, TypeOK, SetStatus

LEMMA BeginLife ==
  ASSUME TypeInv, LifeInv, NEW c \in Clients, Begin(c)
  PROVE  LifeInv'
<1> USE NoRuleAssumption DEF TypeInv, TypeOK, TargetKnown, LifeInv, LivesAgree, AddsAlone,
        OperatesOnRow, Operating, RuleSteps
<1>1. ASSUME NEW r \in Rules, AddRuleEngine(c, r) PROVE LifeInv'
  BY <1>1 DEF AddRuleEngine, Request
<1>2. ASSUME NEW r \in Rules, UpdateRuleEngine(c, r) PROVE LifeInv'
  BY <1>2 DEF UpdateRuleEngine, Request
<1>3. ASSUME NEW r \in Rules, NEW to \in {"check", "stopRule", "dropRule"}, OnRow(c, r, to)
      PROVE  LifeInv'
  BY <1>3 DEF OnRow, Request
<1>4. CASE AddDataResource(c)
  BY <1>4 DEF AddDataResource, table, client
<1>5. ASSUME NEW to \in {"search", "probe", "searchDrop"}, Request(c, NoRule, to), life' = life
      PROVE  LifeInv'
  BY <1>5 DEF Request
<1> QED BY <1>1, <1>2, <1>3, <1>4, <1>5
        DEF Begin, RuleEngineStart, RuleEngineStop, RuleEngineDelete, UpdateDataResource,
            DelDataResource, DataResourceHealth, OnResource

\* What an update writes back is the status of a row it has found.
RowRead == \A c \in Clients : pc[c] \in {"replace", "store"} => seen[c].status \in {"stopped", "running"}

LEMMA StepReads ==
  ASSUME TypeInv, RowRead, NEW c \in Clients, Begin(c) \/ Step(c)
  PROVE  RowRead'
<1> USE DEF TypeInv, TypeOK, RowRead
<1>a. ASSUME Answer(c) PROVE RowRead'
  BY <1>a DEF Answer, Reads
<1>b. ASSUME NEW to, GoTo(c, to), to = "store" => pc[c] = "replace", to # "replace" PROVE RowRead'
  BY <1>b DEF GoTo
<1>1. CASE Begin(c)
  <2>1. CASE AddDataResource(c)
    BY <2>1 DEF AddDataResource, client
  <2>2. CASE ~AddDataResource(c)
    <3>1. PICK r \in Rules \cup {NoRule}, to \in Steps \ {"replace", "store"} : Request(c, r, to)
      BY <1>1, <2>2, Names
         DEF Begin, AddRuleEngine, UpdateRuleEngine, OnRow, RuleEngineStart, RuleEngineStop,
             RuleEngineDelete, UpdateDataResource, DelDataResource, DataResourceHealth, OnResource
    <3>2. \A d \in Clients \ {c} : seen'[d] = seen[d] /\ pc'[d] = pc[d]
      BY <1>1, <2>2, <3>1
         DEF Begin, AddRuleEngine, UpdateRuleEngine, OnRow, RuleEngineStart, RuleEngineStop,
             RuleEngineDelete, UpdateDataResource, DelDataResource, DataResourceHealth, OnResource,
             Request, Reads
    <3>3. pc'[c] \notin {"replace", "store"}
      BY <3>1 DEF Request
    <3> QED BY <3>2, <3>3
  <2> QED BY <2>1, <2>2
<1>2. CASE Step(c) /\ ~Answer(c) /\ ~LookUpRow(c) /\ ~CheckResource(c)
  BY <1>2, <1>b DEF Step, CreateRule, InsertRow, UpdateRule, StoreRow, StartRule, MarkStart, StopRule,
     MarkStop, Mark, DropRule, Erase, SearchRules, EditResource, DropResource, Probe, MarkHealthy,
     CallFails, Call, Proceed
<1>3. CASE LookUpRow(c) /\ ~Answer(c)
  <2>1. target[c] \in Rules
    BY <1>3 DEF LookUpRow, TargetKnown, RuleSteps
  <2> QED BY <1>3, <2>1 DEF LookUpRow, Reads, Statuses
<1>4. CASE CheckResource(c) /\ ~Answer(c)
  BY <1>4 DEF CheckResource, Reads
<1> QED BY <1>a, <1>1, <1>2, <1>3, <1>4

LEMMA StepLife ==
  ASSUME TypeInv, LifeInv, RowRead, NEW c \in Clients, Step(c)
  PROVE  LifeInv'
<1> USE NoRuleAssumption
<1> DEFINE r == target[c]
<1>t. pc[c] \in RuleSteps => r \in Rules
  BY DEF TypeInv, TargetKnown
<1> HIDE DEF r
\* A call to eKuiper after which the request goes on among the steps of Operating.
<1>a. ASSUME NEW accepted, NEW outcomes \in SUBSET RuleStates, NEW to \in Operating,
             pc[c] \in Operating, Call(c, accepted, outcomes, to),
             accepted => rule[r] # "absent", to # "erase", "absent" \notin outcomes
      PROVE  LifeInv'
  <2>1. r \in Rules
    BY <1>a, <1>t DEF RuleSteps
  <2>2. UNCHANGED <<row, life>>
    BY <1>a DEF Call, table
  <2>3. GoTo(c, to) \/ Answer(c)
    BY <1>a DEF Call, Proceed
  <2>4. \A q \in Rules : q # r => rule'[q] = rule[q]
    BY <1>a, <2>1 DEF Call, TypeInv, TypeOK, r
  <2>5. rule'[r] = rule[r] \/ (rule[r] # "absent" /\ rule'[r] \in outcomes)
    BY <1>a, <2>1 DEF Call, TypeInv, TypeOK, r
  <2>6. row[r] # "gone" \/ rule[r] = "absent"
    BY <1>a, <2>1 DEF LifeInv, OperatesOnRow, LivesAgree, r
  <2>7. LivesAgree'
    BY <1>a, <2>1, <2>2, <2>3, <2>4, <2>5, <2>6
       DEF LifeInv, LivesAgree, GoTo, Answer, TypeInv, TypeOK, r
  <2>8. AddsAlone'
    BY <1>a, <2>1, <2>2, <2>3
       DEF LifeInv, AddsAlone, GoTo, Answer, TypeInv, TypeOK, TargetKnown, RuleSteps, Operating, r
  <2>9. OperatesOnRow'
    <3>1. \A d \in Clients : pc[d] = "erase" => rule'[target[d]] = rule[target[d]]
      BY <1>a, <2>1, <2>4, <2>5 DEF LifeInv, OperatesOnRow, TypeInv, TypeOK, TargetKnown,
                                    RuleSteps, Operating
    <3> QED BY <1>a, <2>1, <2>2, <2>3, <3>1
               DEF LifeInv, OperatesOnRow, GoTo, Answer, TypeInv, TypeOK, Operating, r
  <2> QED BY <2>7, <2>8, <2>9 DEF LifeInv
<1>1. CASE CreateRule(c)
  <2>1. r \in Rules /\ row[r] = "gone" /\ life[r] = "issued"
    BY <1>1, <1>t DEF CreateRule, RuleSteps, LifeInv, AddsAlone, r
  <2>2. UNCHANGED <<row, life>> /\ (GoTo(c, "insert") \/ Answer(c))
    BY <1>1 DEF CreateRule, Call, Proceed, table
  <2>3. \A q \in Rules : rule'[q] = rule[q] \/ (q = r /\ rule'[q] = "stopped")
    BY <1>1, <2>1 DEF CreateRule, Call, TypeInv, TypeOK, r
  <2>4. LivesAgree'
    BY <2>1, <2>2, <2>3 DEF LifeInv, LivesAgree, GoTo, Answer, TypeInv, TypeOK
  <2>5. AddsAlone'
    <3>1. /\ pc[c] = "create" /\ pc \in [Clients -> Steps]
          /\ target \in [Clients -> Rules \cup {NoRule}] /\ TargetKnown
      BY <1>1 DEF CreateRule, TypeInv, TypeOK
    <3> QED BY <2>1, <2>2, <3>1 DEF LifeInv, AddsAlone, GoTo, Answer, TargetKnown, RuleSteps
  <2>6. OperatesOnRow'
    <3>1. \A d \in Clients : pc[d] = "erase" => target[d] \in Rules /\ target[d] # r
      BY <1>1 DEF CreateRule, LifeInv, AddsAlone, TypeInv, TargetKnown, RuleSteps, Operating, r
    <3>2. \A d \in Clients : pc[d] = "erase" => rule'[target[d]] = rule[target[d]]
      BY <2>3, <3>1
    <3> QED BY <2>2, <3>2 DEF LifeInv, OperatesOnRow, GoTo, Answer, TypeInv, TypeOK, Operating
  <2> QED BY <2>4, <2>5, <2>6 DEF LifeInv
<1>2. CASE InsertRow(c)
  <2>1. r \in Rules /\ row[r] = "gone" /\ life[r] = "issued"
    BY <1>2, <1>t DEF InsertRow, RuleSteps, LifeInv, AddsAlone, r
  <2>2. UNCHANGED <<rule, life>> /\ Answer(c)
    BY <1>2 DEF InsertRow
  <2>3. \A q \in Rules : row'[q] = IF q = r THEN "stopped" ELSE row[q]
    BY <1>2, <2>1 DEF InsertRow, TypeInv, TypeOK, r
  <2>4. LivesAgree'
    BY <2>1, <2>2, <2>3 DEF LifeInv, LivesAgree, Answer, TypeInv, TypeOK
  <2>5. AddsAlone'
    <3>1. \A d \in Clients \ {c} : pc[d] \in {"create", "insert"} => target[d] \in Rules /\ target[d] # r
      BY <1>2 DEF InsertRow, LifeInv, AddsAlone, TypeInv, TargetKnown, RuleSteps, r
    <3> QED BY <2>2, <2>3, <3>1 DEF LifeInv, AddsAlone, Answer, TypeInv, TypeOK
  <2>6. OperatesOnRow'
    BY <2>2, <2>3 DEF LifeInv, OperatesOnRow, Answer, TypeInv, TypeOK, TargetKnown, RuleSteps, Operating
  <2> QED BY <2>4, <2>5, <2>6 DEF LifeInv
<1>3. CASE LookUpRow(c)
  <2>1. CASE Answer(c)
    BY <1>3, <2>1, AnswerLife DEF LookUpRow, table
  <2>2. CASE ~Answer(c)
    <3>1. r \in Rules /\ row[r] # "gone"
      BY <1>3, <2>2, <1>t DEF LookUpRow, RuleSteps, r
    <3> QED BY <1>3, <2>2, <3>1
            DEF LookUpRow, table, LifeInv, LivesAgree, AddsAlone, OperatesOnRow, Operating,
                TypeInv, TypeOK, r
  <2> QED BY <2>1, <2>2
<1>4. CASE UpdateRule(c)
  <2>1. r \in Rules
    BY <1>4, <1>t DEF UpdateRule, RuleSteps, Operating
  <2>2. rule[r] \in RuleStates /\ "stopped" \in RuleStates
    BY <2>1, Names DEF TypeInv, TypeOK
  <2>3. CASE rule[r] = "absent"
    BY <1>4, <2>3, AnswerLife DEF UpdateRule, Call, table, r
  <2>4. CASE rule[r] # "absent"
    BY <1>4, <2>2, <2>4, <1>a DEF UpdateRule, Operating, r
  <2> QED BY <2>3, <2>4
<1>5. CASE StartRule(c) \/ StopRule(c)
  <2>1. CASE rule[r] = "absent"
    BY <1>5, <2>1, AnswerLife DEF StartRule, StopRule, Call, table, r
  <2>2. CASE rule[r] # "absent"
    <3>1. row[r] # "gone"
      BY <1>5, <1>t, <2>2 DEF StartRule, StopRule, RuleSteps, LifeInv, LivesAgree, OperatesOnRow, Operating, r
    <3>2. {"running"} \in SUBSET RuleStates /\ {"stopped"} \in SUBSET RuleStates
      BY Names
    <3>3. CASE StartRule(c)
      BY <3>3, <2>2, <3>1, <3>2, <1>a DEF StartRule, Operating, r
    <3>4. CASE StopRule(c)
      BY <3>4, <2>2, <3>2, <1>a DEF StopRule, Operating, r
    <3> QED BY <1>5, <3>3, <3>4
  <2> QED BY <2>1, <2>2
<1>6. CASE DropRule(c)
  <2>1. r \in Rules /\ (row[r] # "gone" \/ life[r] = "erased")
    BY <1>6, <1>t DEF DropRule, RuleSteps, LifeInv, OperatesOnRow, Operating, r
  <2>2. UNCHANGED <<row, life>> /\ (GoTo(c, "erase") \/ Answer(c))
    BY <1>6 DEF DropRule, Call, Proceed, table
  <2>3. \A q \in Rules : rule'[q] = IF q = r THEN "absent" ELSE rule[q]
    BY <1>6, <2>1 DEF DropRule, Call, TypeInv, TypeOK, r
  <2>4. LivesAgree'
    BY <2>1, <2>2, <2>3 DEF LifeInv, LivesAgree, GoTo, Answer, TypeInv, TypeOK
  <2>5. AddsAlone'
    BY <1>6, <2>2 DEF DropRule, LifeInv, AddsAlone, GoTo, Answer, TypeInv, TypeOK, TargetKnown, RuleSteps
  <2>6. OperatesOnRow'
    BY <2>1, <2>2, <2>3 DEF LifeInv, OperatesOnRow, GoTo, Answer, TypeInv, TypeOK, TargetKnown,
                            RuleSteps, Operating, r
  <2> QED BY <2>4, <2>5, <2>6 DEF LifeInv
<1>7. CASE Erase(c)
  <2>1. r \in Rules /\ rule[r] = "absent"
    BY <1>7, <1>t DEF Erase, RuleSteps, LifeInv, OperatesOnRow, Operating, r
  <2>2. rule' = rule /\ Answer(c)
    BY <1>7 DEF Erase
  <2>3. \A q \in Rules : /\ row'[q] = IF q = r THEN "gone" ELSE row[q]
                         /\ life'[q] = IF q = r THEN "erased" ELSE life[q]
    BY <1>7, <2>1 DEF Erase, TypeInv, TypeOK, r
  <2>4. LivesAgree'
    BY <2>1, <2>2, <2>3 DEF LifeInv, LivesAgree, Answer, TypeInv, TypeOK
  <2>5. AddsAlone'
    <3>1. \A d \in Clients \ {c} : pc[d] \in {"create", "insert"} => target[d] \in Rules /\ target[d] # r
      BY <1>7 DEF Erase, LifeInv, AddsAlone, TypeInv, TargetKnown, RuleSteps, r
    <3> QED BY <2>2, <2>3, <3>1 DEF LifeInv, AddsAlone, Answer, TypeInv, TypeOK
  <2>6. OperatesOnRow'
    BY <2>2, <2>3 DEF LifeInv, OperatesOnRow, Answer, TypeInv, TypeOK, TargetKnown, RuleSteps, Operating
  <2> QED BY <2>4, <2>5, <2>6 DEF LifeInv
<1>8. CASE StoreRow(c) \/ MarkStart(c) \/ MarkStop(c)
  <2>1. r \in Rules /\ Answer(c) /\ UNCHANGED <<life, rule>>
    BY <1>8, <1>t DEF StoreRow, MarkStart, MarkStop, Mark, RuleSteps, Operating
  <2>2. \A q \in Rules : row'[q] = "gone" <=> row[q] = "gone"
    <3>1. CASE StoreRow(c)
      <4>1. seen[c].status \in {"stopped", "running"}
        BY <3>1 DEF StoreRow, RowRead
      <4> QED BY <3>1, <4>1, <2>1, SetStatusKeeps DEF StoreRow, r
    <3> QED BY <1>8, <2>1, <3>1, SetStatusKeeps DEF MarkStart, MarkStop, Mark, r
  <2> QED BY <2>1, <2>2, AnswerWrites
<1>9. CASE CheckResource(c)
  <2>1. CASE Answer(c)
    BY <1>9, <2>1, AnswerLife DEF CheckResource, table
  <2>2. CASE ~Answer(c)
    BY <1>9, <2>2 DEF CheckResource, table, LifeInv, LivesAgree, AddsAlone, OperatesOnRow, Operating,
                TypeInv, TypeOK, TargetKnown, RuleSteps
  <2> QED BY <2>1, <2>2
<1>10. CASE SearchRules(c) \/ Probe(c)
  <2>1. CASE Answer(c)
    BY <1>10, <2>1, AnswerLife DEF SearchRules, Probe, table
  <2>2. CASE ~Answer(c)
    BY <1>10, <2>2 DEF SearchRules, Probe, GoTo, table, LifeInv, LivesAgree, AddsAlone,
                OperatesOnRow, Operating, TypeInv, TypeOK, TargetKnown, RuleSteps
  <2> QED BY <2>1, <2>2
<1>11. CASE EditResource(c) \/ DropResource(c) \/ MarkHealthy(c) \/ CallFails(c)
  BY <1>11, AnswerLife DEF EditResource, DropResource, MarkHealthy, CallFails, table
<1> QED BY <1>1, <1>2, <1>3, <1>4, <1>5, <1>6, <1>7, <1>8, <1>9, <1>10, <1>11 DEF Step

LEMMA LifeStep == TypeInv /\ LifeInv /\ RowRead /\ [Next]_vars => LifeInv' /\ RowRead'
<1> SUFFICES ASSUME TypeInv, LifeInv, RowRead, [Next]_vars PROVE LifeInv' /\ RowRead'
  OBVIOUS
<1>1. ASSUME NEW c \in Clients, Begin(c) \/ Step(c) PROVE LifeInv' /\ RowRead'
  BY <1>1, BeginLife, StepLife, StepReads
<1>2. ASSUME UNCHANGED <<life, rule, client>>, \A r \in Rules : row'[r] = "gone" <=> row[r] = "gone"
      PROVE  LifeInv' /\ RowRead'
  BY <1>2 DEF client, LifeInv, LivesAgree, AddsAlone, OperatesOnRow, RowRead, TypeInv, TargetKnown,
              RuleSteps, Operating
<1>3. CASE Monitor
  <2>1. CASE MonitorWrite
    <3>1. row' = row \/ (write.rule \in Rules /\ SetStatus(write.rule, write.status))
      BY <2>1 DEF MonitorWrite, SetStatus, TypeInv, TypeOK
    <3>2. \A r \in Rules : row'[r] = "gone" <=> row[r] = "gone"
      BY <3>1, SetStatusKeeps DEF TypeInv, TypeOK
    <3> QED BY <1>2, <2>1, <3>2 DEF MonitorWrite
  <2> QED BY <1>2, <1>3, <2>1 DEF Monitor, MonitorTick, MonitorAsk, table
<1>4. ASSUME NEW r \in Rules, RuleDies(r) PROVE LifeInv' /\ RowRead'
  <2>1. UNCHANGED <<row, life, client>> /\ rule[r] = "running"
    BY <1>4 DEF RuleDies, table
  <2>2. \A q \in Rules : rule'[q] = IF q = r THEN "stopped" ELSE rule[q]
    BY <1>4 DEF RuleDies, TypeInv, TypeOK
  <2> QED BY <2>1, <2>2 DEF client, LifeInv, LivesAgree, AddsAlone, OperatesOnRow, RowRead, TypeInv,
                            TargetKnown, RuleSteps, Operating
<1>5. CASE Restart
  BY <1>5, NoRuleAssumption DEF Restart, table, LifeInv, LivesAgree, AddsAlone, OperatesOnRow, RowRead,
                                Operating
<1>6. CASE UNCHANGED vars
  BY <1>2, <1>6 DEF vars, client
<1> QED BY <1>1, <1>3, <1>4, <1>5, <1>6 DEF Next

\* A rule that eKuiper has and the database has not is one whose addition failed or is
\* under way, and does nothing: no request, however late, brings back a rule that was
\* deleted (AddRuleEngine, UpdateRuleEngine, RuleEngineStart, RuleEngineDelete).
THEOREM StraysNeverRun == Spec => []StraysAreNew
<1>1. Init => RowRead
  BY DEF Init, RowRead
<1> QED BY <1>1, TypeInit, TypeStep, LifeInit, LifeStep, StraysFollow, PTL DEF Spec

(***************************************************************************)
(* Starts are checked                                                      *)
(***************************************************************************)

\* A mark is of options that were checked or had a check of others mark them, in the
\* row and wherever the row was read; a check that is about to mark has found healthy
\* what it read.
Known(found) == found.healthy => found.edit \in checked \cup misled

MarkInv ==
  /\ Known(resource)
  /\ \A c \in Clients : Known(seen[c].resource)
  /\ \A c \in Clients : pc[c] = "startRule" => seen[c].resource.edit \in checked \cup misled
  /\ \A c \in Clients : pc[c] = "markHealthy" => seen[c].resource.edit \in checked

LEMMA MarkInit == Init => MarkInv
BY ResourceTypes DEF Init, MarkInv, Known, Nothing

\* A request that ends, with the resource as it was or with a mark that is known.
LEMMA AnswerMarks ==
  ASSUME TypeInv, MarkInv, NEW c \in Clients, Answer(c),
         checked' = checked, misled \subseteq misled', Known(resource)'
  PROVE  MarkInv'
BY ResourceTypes DEF Answer, Reads, MarkInv, Known, TypeInv, TypeOK

\* A step that leaves the resource alone.
LEMMA SourceMarks ==
  ASSUME MarkInv, UNCHANGED source
  PROVE  checked' = checked /\ misled' = misled /\ resource' = resource /\ Known(resource)'
BY DEF MarkInv, Known, source, history

LEMMA BeginMarks ==
  ASSUME TypeInv, MarkInv, NEW c \in Clients, Begin(c)
  PROVE  MarkInv'
<1> USE DEF TypeInv, TypeOK, MarkInv, Known
<1>1. ASSUME NEW r, NEW to \in {"create", "lookup", "check", "stopRule", "dropRule", "searchDrop"},
             Request(c, r, to), seen' = seen
      PROVE  MarkInv'
  BY <1>1, SourceMarks DEF Request
<1>2. CASE AddDataResource(c)
  <2>1. ~resource'.healthy /\ UNCHANGED <<history, client>>
    BY <1>2 DEF AddDataResource
  <2> QED BY <2>1 DEF client, history
<1>3. ASSUME NEW to \in {"search", "probe"}, OnResource(c, to)
      PROVE  MarkInv'
  BY <1>3, SourceMarks DEF OnResource, Request, Reads
<1> QED BY <1>1, <1>2, <1>3
        DEF Begin, AddRuleEngine, UpdateRuleEngine, OnRow, RuleEngineStart, RuleEngineStop,
            RuleEngineDelete, UpdateDataResource, DelDataResource, DataResourceHealth

LEMMA StepMarks ==
  ASSUME TypeInv, MarkInv, NEW c \in Clients, Step(c)
  PROVE  MarkInv'
<1> USE DEF TypeInv, TypeOK
<1>a. ASSUME NEW to, GoTo(c, to), UNCHANGED source, to \notin {"startRule", "markHealthy"}
      PROVE  MarkInv'
  BY <1>a, SourceMarks DEF GoTo, MarkInv, Known
<1>b. ASSUME Answer(c), UNCHANGED source
      PROVE  MarkInv'
  BY <1>b, SourceMarks, AnswerMarks
<1>1. CASE CreateRule(c) \/ UpdateRule(c) \/ StartRule(c) \/ StopRule(c) \/ DropRule(c)
  <2>1. UNCHANGED source /\ (Answer(c) \/ \E to \in {"insert", "store", "markStart", "markStop", "erase"} : GoTo(c, to))
    BY <1>1 DEF CreateRule, UpdateRule, StartRule, StopRule, DropRule, Call, Proceed
  <2> QED BY <2>1, <1>a, <1>b
<1>2. CASE InsertRow(c) \/ Erase(c) \/ MarkStart(c) \/ MarkStop(c) \/ CallFails(c)
  BY <1>2, <1>b DEF InsertRow, Erase, MarkStart, MarkStop, Mark, CallFails
<1>3. CASE LookUpRow(c) \/ CheckResource(c)
  <2>1. CASE Answer(c)
    BY <1>3, <2>1, <1>b DEF LookUpRow, CheckResource
  <2>2. CASE ~Answer(c)
    <3>1. PICK to \in {"replace", "startRule"} :
            /\ pc' = [pc EXCEPT ![c] = to] /\ UNCHANGED source
            /\ to = "startRule" => resource.healthy
      BY <1>3, <2>2 DEF LookUpRow, CheckResource
    <3>2. \A d \in Clients : seen'[d].resource = IF d = c THEN resource ELSE seen[d].resource
      BY <1>3, <2>2 DEF LookUpRow, CheckResource, Reads
    <3>3. \A d \in Clients : pc'[d] = IF d = c THEN to ELSE pc[d]
      BY <3>1
    <3> QED BY <3>1, <3>2, <3>3, SourceMarks DEF MarkInv, Known
  <2> QED BY <2>1, <2>2
<1>4. CASE StoreRow(c)
  <2>1. Known(resource)'
    BY <1>4 DEF StoreRow, MarkInv, Known, history
  <2> QED BY <1>4, <2>1, AnswerMarks DEF StoreRow, history
<1>5. CASE SearchRules(c)
  BY <1>5, <1>a, <1>b DEF SearchRules
<1>6. CASE EditResource(c) \/ DropResource(c)
  <2>1. Known(resource)'
    BY <1>6 DEF EditResource, Edited, DropResource, MarkInv, Known, history
  <2> QED BY <1>6, <2>1, AnswerMarks DEF EditResource, DropResource, history
<1>7. CASE Probe(c)
  <2>1. CASE Answer(c) /\ UNCHANGED checked
    BY <1>7, <2>1, AnswerMarks DEF Probe, MarkInv, Known
  <2>2. CASE ~(Answer(c) /\ UNCHANGED checked)
    <3>1. /\ GoTo(c, "markHealthy") /\ resource' = resource /\ misled' = misled
          /\ checked' = checked \cup {seen[c].resource.edit}
      BY <1>7, <2>2 DEF Probe
    <3> QED BY <3>1 DEF GoTo, MarkInv, Known
  <2> QED BY <2>1, <2>2
<1>8. CASE MarkHealthy(c)
  <2>1. seen[c].resource.edit \in checked /\ checked' = checked /\ misled' = misled \cup Misled(c)
    BY <1>8 DEF MarkHealthy, MarkInv
  <2>2. Known(resource)'
    BY <1>8, <2>1 DEF MarkHealthy, Misled, Known
  <2> QED BY <1>8, <2>1, <2>2, AnswerMarks DEF MarkHealthy
<1> QED BY <1>1, <1>2, <1>3, <1>4, <1>5, <1>6, <1>7, <1>8 DEF Step

LEMMA MarkStep == TypeInv /\ MarkInv /\ [Next]_vars => MarkInv'
<1> SUFFICES ASSUME TypeInv, MarkInv, [Next]_vars PROVE MarkInv'
  OBVIOUS
<1>1. ASSUME NEW c \in Clients, Begin(c) \/ Step(c) PROVE MarkInv'
  BY <1>1, BeginMarks, StepMarks
<1>2. CASE Restart
  BY <1>2, SourceMarks, ResourceTypes DEF Restart, Nothing, MarkInv, Known
<1>3. CASE UNCHANGED <<source, client>>
  BY <1>3, SourceMarks DEF client, MarkInv, Known
<1>4. CASE Monitor
  BY <1>3, <1>4 DEF Monitor, MonitorTick, MonitorWrite, MonitorAsk
<1>5. ASSUME NEW r \in Rules, RuleDies(r) PROVE MarkInv'
  BY <1>3, <1>5 DEF RuleDies
<1> QED BY <1>1, <1>2, <1>3, <1>4, <1>5 DEF Next, vars, source, client

\* However many clients administer the resource: the options in its row when Start reads
\* the mark were found healthy by a check, or written while a check of others was on its
\* way to the mark (RuleEngineStart, DataResourceHealth).  Nothing else leaves a mark on
\* unchecked options: no edit, no failing call, no end of the process, and no resource
\* that an update of a rule brings back (gorm).
THEOREM StartedOnChecked == Spec => []StartsAreChecked
<1>1. MarkInv => StartsAreChecked
  BY DEF MarkInv, StartsAreChecked
<1> QED BY <1>1, TypeInit, TypeStep, MarkInit, MarkStep, PTL DEF Spec

(***************************************************************************)
(* RuleSync implements RuleLife                                            *)
(***************************************************************************)

\* The rule whose row is to be inserted is in eKuiper, stopped: nobody else has got past
\* looking for its row.
MadeInv == \A c \in Clients : pc[c] = "insert" => rule[target[c]] = "stopped"

\* What the steps are shown to implement RuleLife from, with MadeInv.
StrayInv == TypeInv /\ LifeInv /\ RowRead

\* The parts of the stores that RuleLife sees.
LEMMA SameLife ==
  ASSUME \A r \in Rules : /\ rule'[r] = rule[r]
                          /\ row'[r] = "gone" <=> row[r] = "gone"
                          /\ life'[r] = "erased" <=> life[r] = "erased"
  PROVE  UNCHANGED RL!vars
<1>1. \A r \in Rules : Does(r)' = Does(r)
  BY DEF Does
<1>2. {r \in Rules : row[r] # "gone"}' = {r \in Rules : row[r] # "gone"}
  OBVIOUS
<1> QED BY <1>1, <1>2 DEF RL!vars

\* A step that changes one rule in eKuiper, and no row, is a turn of what that rule does.
LEMMA OneTurns ==
  ASSUME UNCHANGED <<row, life>>, NEW r \in Rules, \A q \in Rules : q # r => rule'[q] = rule[q],
         NEW old, Does(r) \in old
  PROVE  RL!Turns(r, old, Does(r)')
<1>1. \A q \in Rules : q # r => Does(q)' = Does(q)
  BY DEF Does
<1>2. [q \in Rules |-> Does(q)]' = [[q \in Rules |-> Does(q)] EXCEPT ![r] = Does(r)']
  BY <1>1
<1> QED BY <1>2 DEF RL!Turns

LEMMA ListedTurns ==
  ASSUME TypeInv, UNCHANGED <<row, life>>, NEW r \in Rules,
         \A q \in Rules : q # r => rule'[q] = rule[q],
         row[r] # "gone", rule'[r] \in RuleStates, rule[r] = "absent" => rule'[r] = "absent"
  PROVE  [RL!Next]_RL!vars
<1>1. rule[r] \in RuleStates
  BY DEF TypeInv, TypeOK
<1>2. CASE rule'[r] = rule[r]
  BY <1>2, SameLife
<1>3. CASE rule'[r] # rule[r]
  <2>1. /\ Does(r) \in {"stopped", "running"} /\ Does(r) = rule[r]
        /\ Does(r)' = IF rule'[r] = "absent" THEN "dropped" ELSE rule'[r]
    BY <1>1, <1>3 DEF Does, RuleStates
  <2>2. CASE rule'[r] = "absent"
    BY <2>1, <2>2, OneTurns DEF RL!Next, RL!Drop
  <2>3. CASE rule'[r] = "running"
    <3>1. RL!Turns(r, {"stopped"}, "running")
      BY <1>3, <2>1, <2>3, OneTurns
    <3> QED BY <3>1 DEF RL!Next, RL!Run
  <2>4. CASE rule'[r] = "stopped"
    <3>1. RL!Turns(r, {"running"}, "stopped")
      BY <1>3, <2>1, <2>4, OneTurns
    <3> QED BY <3>1 DEF RL!Next, RL!Stop
  <2> QED BY <2>2, <2>3, <2>4 DEF RuleStates
<1> QED BY <1>2, <1>3

\* A call to eKuiper is made for a request that has found a row.
LEMMA CallRefines ==
  ASSUME StrayInv, NEW c \in Clients, pc[c] \in Operating,
         NEW accepted, NEW outcomes \in SUBSET RuleStates, NEW to,
         Call(c, accepted, outcomes, to),
         accepted => rule[target[c]] # "absent" \/ outcomes = {"absent"}
  PROVE  [RL!Next]_RL!vars
<1> DEFINE r == target[c]
<1>0. UNCHANGED <<row, life>>
  BY DEF Call, table
<1>1. CASE UNCHANGED rule
  BY <1>0, <1>1, SameLife
<1>2. CASE ~UNCHANGED rule
  <2>1. PICK q \in Rules : q = r
    BY DEF StrayInv, TypeInv, TargetKnown, RuleSteps
  <2>2. /\ accepted /\ rule'[q] \in outcomes
        /\ \A p \in Rules : p # q => rule'[p] = rule[p]
    BY <1>2, <2>1 DEF Call, StrayInv, TypeInv, TypeOK
  <2>3. rule[q] = "absent" => rule'[q] = "absent"
    BY <2>1, <2>2
  <2>4. CASE row[q] # "gone"
    BY <1>0, <2>2, <2>3, <2>4, ListedTurns DEF StrayInv
  <2>5. CASE row[q] = "gone"
    <3>1. rule[q] = "absent"
      BY <2>1, <2>5 DEF StrayInv, LifeInv, OperatesOnRow, LivesAgree
    <3>2. \A p \in Rules : rule'[p] = rule[p]
      BY <2>2, <2>3, <3>1
    <3> QED BY <1>0, <3>2, SameLife
  <2> QED BY <2>4, <2>5
<1> QED BY <1>1, <1>2

LEMMA BeginRefines ==
  ASSUME StrayInv, NEW c \in Clients, Begin(c)
  PROVE  [RL!Next]_RL!vars
<1>1. UNCHANGED <<row, rule>>
  BY DEF Begin, AddRuleEngine, UpdateRuleEngine, RuleEngineStart, RuleEngineStop, RuleEngineDelete,
         OnRow, AddDataResource, UpdateDataResource, DelDataResource, DataResourceHealth, OnResource,
         Request, table
<1>2. \A r \in Rules : life'[r] = "erased" <=> life[r] = "erased"
  BY DEF Begin, AddRuleEngine, UpdateRuleEngine, RuleEngineStart, RuleEngineStop, RuleEngineDelete,
         OnRow, AddDataResource, UpdateDataResource, DelDataResource, DataResourceHealth, OnResource,
         table, StrayInv, TypeInv, TypeOK
<1> QED BY <1>1, <1>2, SameLife

LEMMA StepRefines ==
  ASSUME StrayInv, MadeInv, NEW c \in Clients, Step(c)
  PROVE  [RL!Next]_RL!vars
<1>t. pc[c] \in RuleSteps => target[c] \in Rules
  BY DEF StrayInv, TypeInv, TargetKnown
<1>s. {"running"} \in SUBSET RuleStates /\ {"stopped"} \in SUBSET RuleStates
      /\ {"absent"} \in SUBSET RuleStates
  BY Names
<1>1. CASE CreateRule(c)
  <2>1. PICK r \in Rules : r = target[c]
    BY <1>1, <1>t DEF CreateRule, RuleSteps
  <2>2. row[r] = "gone" /\ life[r] = "issued" /\ UNCHANGED <<row, life>>
    BY <1>1, <2>1 DEF CreateRule, Call, table, StrayInv, LifeInv, AddsAlone
  <2>3. CASE UNCHANGED rule
    BY <2>2, <2>3, SameLife
  <2>4. CASE ~UNCHANGED rule
    <3>1. /\ rule[r] = "absent" /\ rule'[r] = "stopped"
          /\ \A q \in Rules : q # r => rule'[q] = rule[q]
      BY <1>1, <2>1, <2>4 DEF CreateRule, Call, StrayInv, TypeInv, TypeOK
    <3>2. Does(r) = "none" /\ Does(r)' = "stopped"
      BY <2>2, <3>1 DEF Does
    <3>3. RL!Turns(r, {"none"}, "stopped")
      BY <2>2, <3>1, <3>2, OneTurns
    <3> QED BY <2>2, <3>3 DEF RL!Next, RL!Make
  <2> QED BY <2>3, <2>4
<1>2. CASE InsertRow(c)
  <2>1. PICK r \in Rules : r = target[c]
    BY <1>2, <1>t DEF InsertRow, RuleSteps
  <2>2. row[r] = "gone" /\ life[r] = "issued" /\ rule[r] = "stopped" /\ UNCHANGED <<rule, life>>
    BY <1>2, <2>1 DEF InsertRow, StrayInv, LifeInv, AddsAlone, MadeInv
  <2>3. row'[r] = "stopped" /\ \A q \in Rules : q # r => row'[q] = row[q]
    BY <1>2, <2>1 DEF InsertRow, StrayInv, TypeInv, TypeOK
  <2>4. \A q \in Rules : Does(q)' = Does(q)
    BY <2>2, <2>3 DEF Does
  <2>5. {q \in Rules : row[q] # "gone"}' = {q \in Rules : row[q] # "gone"} \cup {r}
    BY <2>3
  <2>6. Does(r) = "stopped"
    BY <2>2 DEF Does
  <2> QED BY <2>2, <2>4, <2>5, <2>6 DEF RL!Next, RL!List
<1>3. CASE UpdateRule(c)
  <2>1. target[c] \in Rules /\ rule[target[c]] \in RuleStates
    BY <1>3, <1>t DEF UpdateRule, RuleSteps, Operating, StrayInv, TypeInv, TypeOK
  <2>2. {rule[target[c]], "stopped"} \in SUBSET RuleStates
    BY <2>1, <1>s
  <2> QED BY <1>3, <2>2, CallRefines DEF UpdateRule, Operating
<1>4. CASE StartRule(c)
  BY <1>4, <1>s, CallRefines DEF StartRule, Operating
<1>5. CASE StopRule(c)
  BY <1>5, <1>s, CallRefines DEF StopRule, Operating
<1>6. CASE DropRule(c)
  BY <1>6, <1>s, CallRefines DEF DropRule, Operating
<1>7. CASE Erase(c)
  <2>1. PICK r \in Rules : r = target[c]
    BY <1>7, <1>t DEF Erase, RuleSteps, Operating
  <2>2. rule[r] = "absent" /\ rule' = rule /\ (row[r] # "gone" \/ life[r] = "erased")
    BY <1>7, <2>1 DEF Erase, StrayInv, LifeInv, OperatesOnRow, Operating
  <2>3. /\ row'[r] = "gone" /\ life'[r] = "erased"
        /\ \A q \in Rules : q # r => row'[q] = row[q] /\ life'[q] = life[q]
    BY <1>7, <2>1 DEF Erase, StrayInv, TypeInv, TypeOK
  <2>4. CASE row[r] = "gone"
    BY <2>2, <2>3, <2>4, SameLife
  <2>5. CASE row[r] # "gone"
    <3>1. Does(r) = "dropped" /\ \A q \in Rules : Does(q)' = Does(q)
      BY <2>2, <2>3, <2>5 DEF Does
    <3>2. {q \in Rules : row[q] # "gone"}' = {q \in Rules : row[q] # "gone"} \ {r}
      BY <2>3
    <3> QED BY <2>5, <3>1, <3>2 DEF RL!Next, RL!Unlist
  <2> QED BY <2>4, <2>5
<1>8. CASE StoreRow(c) \/ MarkStart(c) \/ MarkStop(c)
  <2>1. target[c] \in Rules /\ UNCHANGED <<life, rule>>
    BY <1>8, <1>t DEF StoreRow, MarkStart, MarkStop, Mark, RuleSteps, Operating
  <2>2. \E s \in {"stopped", "running"} : SetStatus(target[c], s)
    BY <1>8 DEF StoreRow, MarkStart, MarkStop, Mark, StrayInv, RowRead
  <2> QED BY <2>1, <2>2, SetStatusKeeps, SameLife DEF StrayInv
<1>9. CASE LookUpRow(c) \/ CheckResource(c) \/ SearchRules(c) \/ Probe(c) \/ EditResource(c)
           \/ DropResource(c) \/ MarkHealthy(c) \/ CallFails(c)
  <2>1. UNCHANGED <<table, rule>>
    BY <1>9 DEF LookUpRow, CheckResource, SearchRules, Probe, EditResource, DropResource, MarkHealthy,
                CallFails
  <2> QED BY <2>1, SameLife DEF table
<1> QED BY <1>1, <1>2, <1>3, <1>4, <1>5, <1>6, <1>7, <1>8, <1>9 DEF Step

LEMMA NextRefines == StrayInv /\ MadeInv /\ [Next]_vars => [RL!Next]_RL!vars
<1> SUFFICES ASSUME StrayInv, MadeInv, [Next]_vars PROVE [RL!Next]_RL!vars
  OBVIOUS
<1>1. ASSUME NEW c \in Clients, Begin(c) \/ Step(c) PROVE [RL!Next]_RL!vars
  BY <1>1, BeginRefines, StepRefines
<1>2. CASE MonitorWrite
  <2>1. row' = row \/ (write.rule \in Rules /\ SetStatus(write.rule, write.status))
    BY <1>2 DEF MonitorWrite, SetStatus, StrayInv, TypeInv, TypeOK
  <2>2. \A r \in Rules : row'[r] = "gone" <=> row[r] = "gone"
    BY <2>1, SetStatusKeeps DEF StrayInv, TypeInv, TypeOK
  <2> QED BY <1>2, <2>2, SameLife DEF MonitorWrite
<1>3. CASE MonitorTick \/ (\E r \in Rules : MonitorAsk(r)) \/ Restart \/ UNCHANGED vars
  <2>1. UNCHANGED <<row, life, rule>>
    BY <1>3 DEF MonitorTick, MonitorAsk, Restart, vars, table
  <2> QED BY <2>1, SameLife
<1>4. ASSUME NEW r \in Rules, RuleDies(r) PROVE [RL!Next]_RL!vars
  <2>1. /\ UNCHANGED <<row, life>> /\ row[r] # "gone" /\ rule[r] # "absent"
        /\ rule'[r] = "stopped" /\ \A q \in Rules : q # r => rule'[q] = rule[q]
    BY <1>4 DEF RuleDies, table, StrayInv, LifeInv, LivesAgree, TypeInv, TypeOK
  <2> QED BY <2>1, Names, ListedTurns DEF StrayInv
<1> QED BY <1>1, <1>2, <1>3, <1>4 DEF Next, Monitor

\* While a row waits to be inserted its rule is left alone.
LEMMA MadeStep == StrayInv /\ MadeInv /\ [Next]_vars => MadeInv'
<1> SUFFICES ASSUME StrayInv, MadeInv, [Next]_vars,
                    NEW c \in Clients, pc'[c] = "insert"
             PROVE  rule'[target'[c]] = "stopped"
  BY DEF MadeInv
<1> USE NoRuleAssumption DEF StrayInv, TypeInv, TypeOK
\* A step that leaves c's request where it is, and its rule too.
<1>0. ASSUME pc'[c] = pc[c], target'[c] = target[c],
             \A r \in Rules : rule'[r] = rule[r] \/ r # target[c]
      PROVE  rule'[target'[c]] = "stopped"
  BY <1>0 DEF MadeInv, TargetKnown, RuleSteps
<1>1. ASSUME NEW d \in Clients, Begin(d) PROVE rule'[target'[c]] = "stopped"
  <2>1. rule' = rule
    BY <1>1 DEF Begin, AddRuleEngine, UpdateRuleEngine, RuleEngineStart, RuleEngineStop,
                RuleEngineDelete, OnRow, AddDataResource, UpdateDataResource, DelDataResource,
                DataResourceHealth, OnResource, Request, table
  <2>2. pc'[c] = pc[c] /\ target'[c] = target[c]
    BY <1>1 DEF Begin, AddRuleEngine, UpdateRuleEngine, RuleEngineStart, RuleEngineStop,
                RuleEngineDelete, OnRow, AddDataResource, UpdateDataResource, DelDataResource,
                DataResourceHealth, OnResource, Request, client
  <2> QED BY <1>0, <2>1, <2>2
<1>2. CASE CreateRule(c)
  <2>1. target[c] \in Rules /\ target'[c] = target[c] /\ rule'[target[c]] = "stopped"
    BY <1>2 DEF CreateRule, Call, Proceed, GoTo, Answer, TargetKnown, RuleSteps
  <2> QED BY <2>1
<1>3. CASE Step(c) /\ ~CreateRule(c)
  BY <1>3 DEF Step, InsertRow, LookUpRow, UpdateRule, StoreRow, CheckResource, StartRule, MarkStart,
     StopRule, MarkStop, Mark, DropRule, Erase, SearchRules, EditResource, DropResource, Probe,
     MarkHealthy, CallFails, Call, Proceed, GoTo, Answer
<1>4. ASSUME NEW d \in Clients, d # c, Step(d) PROVE rule'[target'[c]] = "stopped"
  <2>1. pc'[c] = pc[c] /\ target'[c] = target[c]
    BY <1>4 DEF Step, CreateRule, InsertRow, LookUpRow, UpdateRule, StoreRow, CheckResource, StartRule,
       MarkStart, StopRule, MarkStop, Mark, DropRule, Erase, SearchRules, EditResource, DropResource,
       Probe, MarkHealthy, CallFails, Call, Proceed, GoTo, Answer
  <2>2. target[d] = target[c] => pc[d] = "lookup"
    BY <1>4, <2>1 DEF LifeInv, AddsAlone
  <2>3. ASSUME NEW r \in Rules, r = target[c] PROVE rule'[r] = rule[r]
    BY <1>4, <2>2, <2>3 DEF Step, CreateRule, InsertRow, LookUpRow, UpdateRule, StoreRow,
       CheckResource, StartRule, MarkStart, StopRule, MarkStop, Mark, DropRule, Erase, SearchRules,
       EditResource, DropResource, Probe, MarkHealthy, CallFails, Call
  <2> QED BY <1>0, <2>1, <2>3
<1>5. CASE Monitor \/ UNCHANGED vars
  BY <1>0, <1>5 DEF Monitor, MonitorTick, MonitorAsk, MonitorWrite, vars, client
<1>6. ASSUME NEW r \in Rules, RuleDies(r) PROVE rule'[target'[c]] = "stopped"
  <2>1. pc'[c] = pc[c] /\ target'[c] = target[c] /\ rule[r] = "running"
        /\ \A q \in Rules : q # r => rule'[q] = rule[q]
    BY <1>6 DEF RuleDies, client
  <2>2. rule[target[c]] = "stopped"
    BY <2>1 DEF MadeInv
  <2> QED BY <1>0, <2>1, <2>2
<1>7. CASE Restart
  BY <1>7 DEF Restart
<1> QED BY <1>1, <1>2, <1>3, <1>4, <1>5, <1>6, <1>7 DEF Next

\* For any clients, rules and faults: the rule engine keeps the promise of RuleLife.
THEOREM ImplementsRuleLife == Spec => RuleLifeSpec
<1>1. Init => StrayInv /\ MadeInv /\ RL!Init
  <2> SUFFICES ASSUME Init PROVE StrayInv /\ MadeInv /\ RL!Init
    OBVIOUS
  <2>1. \A r \in Rules : Does(r) = "none"
    BY DEF Init, Does
  <2>2. RL!Init
    BY <2>1 DEF Init, RL!Init
  <2> QED BY <2>2, TypeInit, LifeInit DEF Init, StrayInv, RowRead, MadeInv
<1>2. StrayInv /\ [Next]_vars => StrayInv'
  BY TypeStep, LifeStep DEF StrayInv
<1> QED BY <1>1, <1>2, MadeStep, NextRefines, PTL DEF Spec, RuleLifeSpec, RL!Spec

=============================================================================
